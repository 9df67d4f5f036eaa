--------------------------- MODULE XlMigrate_proofs ---------------------------
(***************************************************************************)
(* Proof that xl's migration implements OneGuest: the guest runs as one    *)
(* copy, and no older copy runs after a newer one, whichever process dies  *)
(* and wherever the connection breaks.                                     *)
(***************************************************************************)
EXTENDS XlMigrate, SequenceTheorems, FiniteSetTheorems, TLAPS

St(c) == copy[c].state
Words == {"banner", "config", "image", "ready", "go", "report", "started", "failed", "have it back"}
Says(s, m) == \E i \in DOMAIN s : s[i] = m

\* The receiver has the permission to start its copy, or it is on its way.
Going(r) ==
  \/ ses[r].rcv \in {"rename", "unpause"}
  \/ ses[r].rcv \in {"banner", "config", "lock", "restore", "ready", "go"} /\ Says(toR[r], "go")

\* A migration has the guest while its sender has it suspended, or its receiver may
\* start it.
Held == {"ready", "rename", "go", "report", "permission", "rename back", "resume"}
Has(r) == ses[r].snd \in Held \/ Going(r)

Domains ==
  /\ DOMAIN copy = Copies /\ \A c \in Copies : DOMAIN copy[c] = {"host", "name", "state", "restored"}
  /\ DOMAIN ses = Rounds
  /\ \A r \in Rounds : DOMAIN ses[r] = {"snd", "rcv", "src", "dst", "to", "rc"} /\ ses[r].rc \in BOOLEAN
  /\ toR \in [Rounds -> Seq(Words)] /\ toS \in [Rounds -> Seq(Words)]

\* Copies are made in order, and only the newest one runs or is to be started again.
IsNewest(n) == n \in ran /\ \A c \in ran : c <= n
Ran ==
  /\ ran \subseteq Copies /\ IsNewest(Newest)
  /\ \A c \in ran : St(c) \notin {"none", "part", "paused"}
  /\ \A c, d \in Copies : c < d /\ St(d) # "none" => St(c) # "none"
  /\ \A c \in Copies : St(c) \in {"running", "rebooting"} => c = Newest

\* The places of the two processes, and the copies they work on.
Begun(r) ==
  IF ses[r].snd = "off"
    THEN ses[r].rcv = "off" /\ ses[r].dst = 0 /\ toR[r] = <<>> /\ toS[r] = <<>>
    ELSE ses[r].rcv # "off" /\ ses[r].src \in Copies /\ St(ses[r].src) # "none"
Target(r) ==
  /\ ses[r].dst # 0 => ses[r].dst \in Copies /\ St(ses[r].dst) # "none" /\ ses[r].dst > ses[r].src
  /\ ses[r].rcv \in {"off", "banner", "config", "lock"} => ses[r].dst = 0
  /\ ses[r].rcv \notin {"off", "banner", "config", "lock", "end"} => ses[r].dst # 0
  /\ ses[r].rc => ses[r].rcv \in {"report", "destroy", "grant", "end"}

\* The receiver starts its copy only after the sender's "go", and before it says that
\* it failed; then the sender may have the guest back.
Waits(r) == Going(r) => ses[r].snd \in {"report", "destroy", "end"}
Denied(r) == Says(toS[r], "failed") \/ Says(toS[r], "have it back")
Told(r) == Denied(r) \/ ses[r].snd \in {"permission", "rename back"} =>
             ses[r].rcv \in {"destroy", "grant", "end"}
Started(r) == ses[r].dst \in ran =>
  /\ ses[r].snd \in {"report", "destroy", "end"} /\ ~Denied(r)
  /\ ses[r].rcv \in {"report", "end"} /\ (ses[r].rcv = "report" => ~ses[r].rc)

\* Who has the guest has it alone.
Holds(r) == Has(r) =>
  St(ses[r].src) \in {"suspended", "gone"} /\ (ses[r].dst \notin ran => ses[r].src = Newest)
Alone(q, r) ==
  /\ ses[q].dst = ses[r].dst => ses[r].dst = 0
  /\ ~(Has(q) /\ Has(r) /\ ses[q].src = ses[r].src)

Places(r) == Begun(r) /\ Target(r) /\ Waits(r) /\ Told(r) /\ Started(r)
MigrateInv ==
  /\ Domains /\ Ran
  /\ \A r \in Rounds : Places(r) /\ Holds(r)
  /\ \A q, r \in Rounds : q # r => Alone(q, r)

(***************************************************************************)
(* Messages and pipes.                                                     *)
(***************************************************************************)
\* What a longer pipe says, one of its parts says.
LEMMA SaysMore ==
  ASSUME NEW s \in Seq(Words), NEW t \in Seq(Words)
  PROVE  /\ s \o t \in Seq(Words)
         /\ \A x : Says(s \o t, x) => Says(s, x) \/ Says(t, x)
<1>1. s \o t \in Seq(Words) /\ DOMAIN (s \o t) = 1 .. (Len(s) + Len(t))
  BY ConcatProperties, LenProperties
<1>2. ASSUME NEW i \in DOMAIN (s \o t)
      PROVE  Says(s, (s \o t)[i]) \/ Says(t, (s \o t)[i])
  <2>1. CASE i <= Len(s)
    BY <1>1, <2>1, ConcatProperties, LenProperties DEF Says
  <2>2. CASE i > Len(s)
    <3>1. i - Len(s) \in DOMAIN t /\ (s \o t)[i] = t[i - Len(s)]
      BY <1>1, <2>2, ConcatProperties, LenProperties
    <3> QED
      BY <3>1 DEF Says
  <2> QED
    BY <1>1, <2>1, <2>2, LenProperties
<1> QED
  BY <1>1, <1>2 DEF Says

\* A part of a pipe says nothing that the pipe does not.
LEMMA SaysPart ==
  ASSUME NEW s \in Seq(Words), NEW i \in Nat \ {0}, NEW j \in 0 .. Len(s)
  PROVE  /\ SubSeq(s, i, j) \in Seq(Words)
         /\ \A x : Says(SubSeq(s, i, j), x) => Says(s, x)
<1>1. CASE i <= j
  <2>1. SubSeq(s, i, j) \in Seq(Words) /\ DOMAIN SubSeq(s, i, j) = 1 .. (j - i + 1)
    BY <1>1, LenProperties, SubSeqProperties
  <2>2. ASSUME NEW k \in DOMAIN SubSeq(s, i, j)
        PROVE  i + k - 1 \in DOMAIN s /\ SubSeq(s, i, j)[k] = s[i + k - 1]
    BY <1>1, <2>1, LenProperties, SubSeqProperties
  <2> QED
    BY <2>1, <2>2 DEF Says
<1>2. CASE i > j
  <2>1. SubSeq(s, i, j) = <<>>
    BY <1>2, LenProperties, SubSeqProperties
  <2> QED
    BY <2>1 DEF Says
<1> QED
  BY <1>1, <1>2, LenProperties

\* What a step of migration r does to a pipe: it reads, or writes some of M.
PipeR(r, M) ==
  /\ toR' \in [Rounds -> Seq(Words)] /\ \A q \in Rounds \ {r} : toR'[q] = toR[q]
  /\ r \in Rounds => \A x : Says(toR'[r], x) => Says(toR[r], x) \/ x \in M
PipeS(r, M) ==
  /\ toS' \in [Rounds -> Seq(Words)] /\ \A q \in Rounds \ {r} : toS'[q] = toS[q]
  /\ r \in Rounds => \A x : Says(toS'[r], x) => Says(toS[r], x) \/ x \in M

\* A pipe that does not change is read or written by anybody.
LEMMA StillPipes ==
  ASSUME Domains, NEW r
  PROVE  /\ UNCHANGED toR => PipeR(r, {})
         /\ UNCHANGED toS => PipeS(r, {})
BY DEF Domains, PipeR, PipeS, Says

\* A message that is written, or lost.
LEMMA WritePipe ==
  ASSUME Domains, NEW r \in Rounds, NEW m \in Seq(Words), NEW M, \A x : Says(m, x) => x \in M
  PROVE  /\ WriteR(r, m) \/ LostR(r) => PipeR(r, M)
         /\ WriteS(r, m) \/ LostS(r) => PipeS(r, M)
<1>1. toR[r] \in Seq(Words) /\ toS[r] \in Seq(Words)
  BY DEF Domains
<1>2. /\ toR[r] \o m \in Seq(Words) /\ toS[r] \o m \in Seq(Words)
      /\ \A x : Says(toR[r] \o m, x) => Says(toR[r], x) \/ x \in M
      /\ \A x : Says(toS[r] \o m, x) => Says(toS[r], x) \/ x \in M
  BY <1>1, SaysMore
<1>3. ASSUME WriteR(r, m) PROVE PipeR(r, M)
  <2>1. toR' = [toR EXCEPT ![r] = toR[r] \o m]
    BY <1>3 DEF WriteR
  <2>2. toR' \in [Rounds -> Seq(Words)] /\ toR'[r] = toR[r] \o m /\ \A q \in Rounds \ {r} : toR'[q] = toR[q]
    BY <1>2, <2>1 DEF Domains
  <2> QED
    BY <1>2, <2>2 DEF PipeR
<1>4. ASSUME WriteS(r, m) PROVE PipeS(r, M)
  <2>1. toS' = [toS EXCEPT ![r] = toS[r] \o m]
    BY <1>4 DEF WriteS
  <2>2. toS' \in [Rounds -> Seq(Words)] /\ toS'[r] = toS[r] \o m /\ \A q \in Rounds \ {r} : toS'[q] = toS[q]
    BY <1>2, <2>1 DEF Domains
  <2> QED
    BY <1>2, <2>2 DEF PipeS
<1>5. (LostR(r) => PipeR(r, M)) /\ (LostS(r) => PipeS(r, M))
  BY StillPipes DEF LostR, LostS, PipeR, PipeS
<1> QED
  BY <1>3, <1>4, <1>5

\* What the sender has read was in its pipe.
LEMMA ReadPipeS ==
  ASSUME Domains, NEW r \in Rounds, NEW m \in Seq(Words)
  PROVE  /\ ReadS(r, m) => PipeS(r, {}) /\ \A i \in DOMAIN m : Says(toS[r], m[i])
         /\ \A n : EofS(r, n) => PipeS(r, {})
<1> DEFINE k == Len(m)
<1>1. toS[r] \in Seq(Words) /\ k \in Nat /\ Len(toS[r]) \in Nat
  BY LenProperties DEF Domains
<1>2. ASSUME ReadS(r, m)
      PROVE  PipeS(r, {}) /\ \A i \in DOMAIN m : Says(toS[r], m[i])
  <2>1. k <= Len(toS[r]) /\ SubSeq(toS[r], 1, k) = m
        /\ toS' = [toS EXCEPT ![r] = SubSeq(toS[r], k + 1, Len(toS[r]))]
    BY <1>1, <1>2 DEF ReadS
  <2>2. \A x : Says(m, x) => Says(toS[r], x)
    <3>1. 1 \in Nat \ {0} /\ k \in 0 .. Len(toS[r])
      BY <1>1, <2>1
    <3>2. \A x : Says(SubSeq(toS[r], 1, k), x) => Says(toS[r], x)
      BY <1>1, <3>1, SaysPart
    <3> QED
      BY <2>1, <3>2
  <2>3. LET t == SubSeq(toS[r], k + 1, Len(toS[r])) IN
        t \in Seq(Words) /\ \A x : Says(t, x) => Says(toS[r], x)
    <3>1. k + 1 \in Nat \ {0} /\ Len(toS[r]) \in 0 .. Len(toS[r])
      BY <1>1
    <3> QED
      BY <1>1, <3>1, SaysPart
  <2>4. toS' \in [Rounds -> Seq(Words)] /\ (\A x : Says(toS'[r], x) => Says(toS[r], x))
        /\ \A q \in Rounds \ {r} : toS'[q] = toS[q]
    BY <2>1, <2>3 DEF Domains
  <2> QED
    BY <2>2, <2>4 DEF PipeS, Says
<1>3. \A n : EofS(r, n) => PipeS(r, {})
  BY StillPipes DEF EofS
<1> QED
  BY <1>2, <1>3

\* What the receiver has read was in its pipe.
LEMMA ReadPipeR ==
  ASSUME Domains, NEW r \in Rounds, NEW m
  PROVE  /\ ReadR(r, m) => PipeR(r, {}) /\ Says(toR[r], m)
         /\ EofR(r) => PipeR(r, {})
<1>1. toR[r] \in Seq(Words)
  BY DEF Domains
<1>2. ASSUME ReadR(r, m)
      PROVE  PipeR(r, {}) /\ Says(toR[r], m)
  <2>1. toR[r] # <<>> /\ Head(toR[r]) = m /\ toR' = [toR EXCEPT ![r] = Tail(toR[r])]
    BY <1>2 DEF ReadR
  <2>2. Len(toR[r]) \in Nat /\ Len(toR[r]) > 0 /\ toR[r][1] = m /\ 1 \in DOMAIN toR[r]
        /\ Tail(toR[r]) = SubSeq(toR[r], 2, Len(toR[r]))
    BY <1>1, <2>1, LenProperties, EmptySeq, HeadTailProperties
  <2>3. Tail(toR[r]) \in Seq(Words) /\ \A x : Says(Tail(toR[r]), x) => Says(toR[r], x)
    <3>1. 2 \in Nat \ {0} /\ Len(toR[r]) \in 0 .. Len(toR[r])
      BY <2>2
    <3>2. LET t == SubSeq(toR[r], 2, Len(toR[r])) IN
          t \in Seq(Words) /\ \A x : Says(t, x) => Says(toR[r], x)
      BY <1>1, <3>1, SaysPart
    <3> QED
      BY <2>2, <3>2
  <2>4. toR' \in [Rounds -> Seq(Words)] /\ (\A x : Says(toR'[r], x) => Says(toR[r], x))
        /\ \A q \in Rounds \ {r} : toR'[q] = toR[q]
    BY <2>1, <2>3 DEF Domains
  <2> QED
    BY <2>2, <2>4 DEF PipeR, Says
<1>3. EofR(r) => PipeR(r, {})
  BY StillPipes DEF EofR
<1> QED
  BY <1>2, <1>3

\* Messages of one word and of two.
LEMMA Sayings ==
  ASSUME NEW x \in Words, NEW y \in Words
  PROVE  /\ <<x>> \in Seq(Words) /\ \A z : Says(<<x>>, z) => z = x
         /\ <<x, y>> \in Seq(Words) /\ 2 \in DOMAIN <<x, y>> /\ <<x, y>>[2] = y
         /\ \A z : Says(<<x, y>>, z) => z \in {x, y}
<1>1. <<x>> \in Seq(Words) /\ <<x, y>> \in Seq(Words)
  OBVIOUS
<1>2. /\ DOMAIN <<x>> = {1} /\ <<x>>[1] = x
      /\ DOMAIN <<x, y>> = {1, 2} /\ <<x, y>>[1] = x /\ <<x, y>>[2] = y
  OBVIOUS
<1> QED
  BY <1>1, <1>2 DEF Says

(***************************************************************************)
(* Steps that start no copy.                                               *)
(***************************************************************************)
\* What becomes of a domain in a step that starts, suspends and resumes none.
Changes(c) ==
  \/ copy'[c].state = copy[c].state
  \/ copy[c].state # "none" /\ copy'[c].state = "gone"
  \/ copy[c].state = "part" /\ copy'[c].state = "paused"
  \/ copy[c].state = "running" /\ copy'[c].state \in {"off", "rebooting"}
Shape == DOMAIN copy = Copies /\ \A c \in Copies : DOMAIN copy[c] = {"host", "name", "state", "restored"}
Kept == Shape' /\ \A c \in Copies : Changes(c)

\* No copy starts.
Quiet == UNCHANGED ran /\ Running' \subseteq Running

\* A domain whose state alone changes.
LEMMA PutState ==
  ASSUME Domains, NEW c \in Copies, NEW s, copy' = [copy EXCEPT ![c].state = s]
  PROVE  Shape' /\ copy'[c].state = s /\ \A d \in Copies \ {c} : copy'[d] = copy[d]
BY DEF Domains, Shape

\* A domain that is renamed only.
LEMMA PutName ==
  ASSUME Domains, NEW c \in Copies, NEW n, copy' = [copy EXCEPT ![c].name = n]
  PROVE  Kept
BY DEF Domains, Shape, Kept, Changes

LEMMA KeptSame ==
  ASSUME Domains, UNCHANGED copy
  PROVE  Kept
BY DEF Domains, Shape, Kept, Changes

\* A domain that is destroyed.
LEMMA KeptGone ==
  ASSUME Domains, NEW c \in Copies, St(c) # "none", copy' = Gone(c)
  PROVE  Kept
<1>1. copy' = [copy EXCEPT ![c].state = "gone"]
  BY DEF Gone
<1>2. Shape' /\ copy'[c].state = "gone" /\ \A d \in Copies \ {c} : copy'[d] = copy[d]
  BY <1>1, PutState
<1> QED
  BY <1>2 DEF Kept, Changes, St

LEMMA AliveIs ==
  ASSUME NEW c
  PROVE  Alive(c) => c \in Copies /\ St(c) \notin {"none", "gone"}
BY DEF Alive, St

\* One migration moves, or none.
LEMMA SessionStep ==
  ASSUME MigrateInv, Kept, Domains', UNCHANGED ran, NEW r,
         \A q \in Rounds \ {r} : ses'[q] = ses[q] /\ toR'[q] = toR[q] /\ toS'[q] = toS[q],
         r \in Rounds => /\ ses'[r].src = ses[r].src /\ ses'[r].dst = ses[r].dst
                         /\ Places(r)' /\ (Has(r)' => Has(r))
  PROVE  MigrateInv' /\ Quiet
<1>1. Newest' = Newest /\ Ran'
  <2>1. Newest' = Newest
    BY DEF Newest
  <2>2. Ran /\ \A c \in Copies : Changes(c)
    BY DEF MigrateInv, Kept
  <2>3. (\A c \in ran : St(c) \notin {"none", "part", "paused"})'
    BY <2>2 DEF Ran, Changes, St
  <2>4. (\A c, d \in Copies : c < d /\ St(d) # "none" => St(c) # "none")'
    <3>1. \A c \in Copies : St(c)' # "none" <=> St(c) # "none"
      BY <2>2 DEF Changes, St
    <3> QED
      BY <2>2, <3>1 DEF Ran, Copies
  <2>5. (\A c \in Copies : St(c) \in {"running", "rebooting"} => c = Newest)'
    BY <2>1, <2>2 DEF Ran, Changes, St
  <2>6. (ran \subseteq Copies /\ IsNewest(Newest))'
    BY <2>1, <2>2 DEF Ran, IsNewest, Copies
  <2> QED
    BY <2>1, <2>3, <2>4, <2>5, <2>6 DEF Ran
<1>2. \A q \in Rounds : ses'[q].src = ses[q].src /\ ses'[q].dst = ses[q].dst
  OBVIOUS
<1>3. ASSUME NEW q \in Rounds PROVE Has(q)' => Has(q)
  <2>1. CASE q # r
    BY <2>1 DEF Has, Going, Says
  <2> QED
    BY <2>1
<1>4. ASSUME NEW q \in Rounds PROVE Places(q)'
  <2>1. CASE q # r
    <3>1. ses'[q] = ses[q] /\ toR'[q] = toR[q] /\ toS'[q] = toS[q] /\ Places(q)
      BY <2>1 DEF MigrateInv
    <3>2. \A c \in Copies : St(c) # "none" => St(c)' # "none"
      BY DEF Kept, Changes, St
    <3>3. Begun(q)' /\ Target(q)'
      BY <3>1, <3>2 DEF Places, Begun, Target, Copies
    <3>4. Waits(q)' /\ Told(q)' /\ Started(q)'
      BY <3>1 DEF Places, Waits, Told, Started, Going, Denied, Says
    <3> QED
      BY <3>3, <3>4 DEF Places
  <2> QED
    BY <2>1
<1>5. ASSUME NEW q \in Rounds PROVE Holds(q)'
  <2>1. SUFFICES ASSUME Has(q)'
                 PROVE  (/\ St(ses[q].src) \in {"suspended", "gone"}
                         /\ ses[q].dst \notin ran => ses[q].src = Newest)'
    BY DEF Holds
  <2>2. Has(q) /\ Holds(q) /\ Begun(q)
    BY <1>3, <2>1 DEF MigrateInv, Places
  <2>3. ses[q].src \in Copies
    BY <2>2 DEF Begun, Has, Held, Going, Says
  <2>4. St(ses[q].src) \in {"suspended", "gone"} /\ (ses[q].dst \notin ran => ses[q].src = Newest)
    BY <2>2 DEF Holds
  <2>5. St(ses[q].src)' \in {"suspended", "gone"}
    BY <1>2, <2>3, <2>4 DEF Kept, Changes, St
  <2> QED
    BY <1>1, <1>2, <2>4, <2>5
<1>6. ASSUME NEW q \in Rounds, NEW p \in Rounds, q # p PROVE Alone(q, p)'
  <2>1. Alone(q, p)
    BY <1>6 DEF MigrateInv
  <2> QED
    BY <1>2, <1>3, <2>1 DEF Alone
<1>7. Quiet
  BY DEF Quiet, Running, Kept, Changes
<1> QED
  BY <1>1, <1>4, <1>5, <1>6, <1>7 DEF MigrateInv

\* The sender goes on to b, and writes some of M.
LEMMA SenderStep ==
  ASSUME MigrateInv, Kept, UNCHANGED ran, NEW r \in Rounds, NEW b, NEW M,
         ses[r].snd # "off", b # "off", Snd(r, b), PipeR(r, M), PipeS(r, {}),
         b \in Held => ses[r].snd \in Held,
         "go" \in M => ses[r].snd = "go" /\ b = "report",
         ses[r].snd \in {"report", "destroy", "end"} => b \in {"report", "destroy", "end", "permission"},
         b = "permission" => Denied(r),
         b = "rename back" => ses[r].snd = "permission"
  PROVE  MigrateInv' /\ Quiet
<1>1. /\ ses'[r].snd = b /\ ses'[r].rcv = ses[r].rcv /\ ses'[r].src = ses[r].src
      /\ ses'[r].dst = ses[r].dst /\ ses'[r].rc = ses[r].rc
      /\ DOMAIN ses'[r] = DOMAIN ses[r] /\ DOMAIN ses' = Rounds
      /\ \A q \in Rounds \ {r} : ses'[q] = ses[q]
  BY DEF MigrateInv, Domains, Snd
<1>2. Domains'
  <2>1. Domains /\ Shape'
    BY DEF MigrateInv, Kept
  <2>2. (\A q \in Rounds : DOMAIN ses[q] = {"snd", "rcv", "src", "dst", "to", "rc"} /\ ses[q].rc \in BOOLEAN)'
    BY <1>1, <2>1 DEF Domains
  <2> QED
    BY <1>1, <2>1, <2>2 DEF Domains, Shape, PipeR, PipeS
<1>3. Places(r)
  BY DEF MigrateInv
<1>4. Going(r)' => Going(r) \/ (b = "report" /\ ses[r].snd = "go")
  BY <1>1 DEF Going, PipeR
<1>5. Denied(r)' => Denied(r)
  BY DEF Denied, PipeS
<1>6. Has(r)' => Has(r)
  BY <1>1, <1>4 DEF Has, Held
<1>7. Begun(r)' /\ Target(r)'
  <2>1. \A c \in Copies : St(c) # "none" => St(c)' # "none"
    BY DEF Kept, Changes, St
  <2> QED
    BY <1>1, <1>3, <2>1 DEF Places, Begun, Target, Copies
<1>8. Waits(r)'
  <2>1. SUFFICES ASSUME Going(r)', b \notin {"report", "destroy", "end"} PROVE FALSE
    BY <1>1 DEF Waits
  <2>2. Going(r) /\ ses[r].snd \in {"report", "destroy", "end"} /\ b = "permission"
    BY <1>3, <1>4, <2>1 DEF Places, Waits
  <2>3. ses[r].rcv \in {"destroy", "grant", "end"}
    BY <1>3, <2>2 DEF Places, Told
  <2> QED
    BY <2>2, <2>3 DEF Going
<1>9. Told(r)'
  BY <1>1, <1>3, <1>5 DEF Places, Told
<1>10. Started(r)'
  BY <1>1, <1>3, <1>5 DEF Places, Started
<1>11. /\ \A q \in Rounds \ {r} : toR'[q] = toR[q] /\ toS'[q] = toS[q]
       /\ Places(r)'
  BY <1>7, <1>8, <1>9, <1>10 DEF PipeR, PipeS, Places
<1> QED
  BY <1>1, <1>2, <1>6, <1>11, SessionStep

Early == {"banner", "config", "lock", "restore", "ready", "go"}
Last == {"destroy", "grant", "end"}

Moves(r, b, x) ==
  /\ DOMAIN ses' = Rounds /\ \A q \in Rounds \ {r} : ses'[q] = ses[q]
  /\ DOMAIN ses'[r] = DOMAIN ses[r]
  /\ ses'[r].rcv = b /\ ses'[r].rc = x
  /\ ses'[r].snd = ses[r].snd /\ ses'[r].src = ses[r].src /\ ses'[r].dst = ses[r].dst

LEMMA Moved ==
  ASSUME Domains, NEW r \in Rounds, NEW b, NEW x
  PROVE  /\ Rcv(r, b) => Moves(r, b, ses[r].rc)
         /\ ses' = [ses EXCEPT ![r].rcv = b, ![r].rc = x] => Moves(r, b, x)
BY DEF Domains, Rcv, Moves

\* The receiver goes on to b with the code x, and writes some of M.
LEMMA ReceiverStep ==
  ASSUME MigrateInv, Kept, UNCHANGED ran, NEW r \in Rounds, NEW b, NEW x \in BOOLEAN, NEW M,
         ses[r].rcv # "off", b # "off",
         Moves(r, b, x), PipeR(r, {}), PipeS(r, M),
         b \in {"banner", "config", "lock"} => ses[r].rcv \in {"banner", "config", "lock"},
         ses[r].rcv \in {"banner", "config", "lock"} => b \in {"banner", "config", "lock", "end"},
         b \in Early => ses[r].rcv \in Early,
         b # "end" => ses[r].rcv # "end",
         b \in {"rename", "unpause"} => Going(r),
         ses[r].rcv \in Last \cup {"report"} => b \in Last,
         x => ses[r].rc \/ b = "report",
         "failed" \in M \/ "have it back" \in M =>
           b \in Last /\ (ses[r].rcv = "report" => ses[r].rc) /\ (ses[r].rcv # "end"),
         ses[r].rcv = "report" /\ ~ses[r].rc => b = "end"
  PROVE  MigrateInv' /\ Quiet
<1>1. /\ ses'[r].rcv = b /\ ses'[r].snd = ses[r].snd /\ ses'[r].src = ses[r].src
      /\ ses'[r].dst = ses[r].dst /\ ses'[r].rc = x
      /\ DOMAIN ses'[r] = DOMAIN ses[r] /\ DOMAIN ses' = Rounds
      /\ \A q \in Rounds \ {r} : ses'[q] = ses[q]
  BY DEF MigrateInv, Domains, Moves
<1>2. Domains'
  <2>1. Domains /\ Shape'
    BY DEF MigrateInv, Kept
  <2>2. (\A q \in Rounds : DOMAIN ses[q] = {"snd", "rcv", "src", "dst", "to", "rc"} /\ ses[q].rc \in BOOLEAN)'
    BY <1>1, <2>1 DEF Domains
  <2> QED
    BY <1>1, <2>1, <2>2 DEF Domains, Shape, PipeR, PipeS
<1>3. Places(r)
  BY DEF MigrateInv
<1>4. Going(r)' => Going(r)
  BY <1>1 DEF Going, PipeR, Early
<1>5. Denied(r)' => Denied(r) \/ (b \in Last /\ ses[r].dst \notin ran)
  <2>1. Denied(r)' => Denied(r) \/ "failed" \in M \/ "have it back" \in M
    BY DEF Denied, PipeS
  <2>2. ses[r].dst \in ran => ses[r].rcv \in {"report", "end"} /\ (ses[r].rcv = "report" => ~ses[r].rc)
    BY <1>3 DEF Places, Started
  <2> QED
    BY <2>1, <2>2
<1>6. Has(r)' => Has(r)
  BY <1>1, <1>4 DEF Has
<1>7. Begun(r)' /\ Target(r)'
  <2>1. \A c \in Copies : St(c) # "none" => St(c)' # "none"
    BY DEF Kept, Changes, St
  <2>2. Begun(r)'
    BY <1>1, <1>3, <2>1 DEF Places, Begun
  <2>3. (ses[r].dst # 0 => ses[r].dst \in Copies /\ St(ses[r].dst) # "none" /\ ses[r].dst > ses[r].src)'
    BY <1>1, <1>3, <2>1 DEF Places, Target, Copies
  <2>4. (ses[r].rcv \in {"off", "banner", "config", "lock"} => ses[r].dst = 0)'
    BY <1>1, <1>3 DEF Places, Target
  <2>5. (ses[r].rcv \notin {"off", "banner", "config", "lock", "end"} => ses[r].dst # 0)'
    BY <1>1, <1>3 DEF Places, Target
  <2>6. (ses[r].rc => ses[r].rcv \in {"report", "destroy", "grant", "end"})'
    BY <1>1, <1>3 DEF Places, Target, Last
  <2> QED
    BY <2>2, <2>3, <2>4, <2>5, <2>6 DEF Target
<1>8. Waits(r)'
  BY <1>1, <1>3, <1>4 DEF Places, Waits
<1>9. Told(r)'
  BY <1>1, <1>3, <1>5 DEF Places, Told, Last
<1>10. Started(r)'
  <2>1. SUFFICES ASSUME ses[r].dst \in ran PROVE Started(r)'
    <3>1. ran' = ran /\ ses'[r].dst = ses[r].dst
      BY <1>1
    <3> QED
      BY <3>1 DEF Started
  <2>2. /\ ses[r].snd \in {"report", "destroy", "end"} /\ ~Denied(r)
        /\ ses[r].rcv \in {"report", "end"} /\ (ses[r].rcv = "report" => ~ses[r].rc)
    BY <1>3, <2>1 DEF Places, Started
  <2>3. ~Denied(r)'
    BY <1>5, <2>1, <2>2
  <2>4. b = "end"
    BY <2>2
  <2> QED
    BY <1>1, <2>2, <2>3, <2>4 DEF Started
<1>11. /\ \A q \in Rounds \ {r} : toR'[q] = toR[q] /\ toS'[q] = toS[q]
       /\ Places(r)'
  BY <1>7, <1>8, <1>9, <1>10 DEF PipeR, PipeS, Places
<1>12. \A q \in Rounds \ {r} : ses'[q] = ses[q] /\ toR'[q] = toR[q] /\ toS'[q] = toS[q]
  BY <1>1, <1>11
<1>13. ses'[r].src = ses[r].src /\ ses'[r].dst = ses[r].dst /\ Places(r)' /\ (Has(r)' => Has(r))
  BY <1>1, <1>6, <1>11
<1> HIDE DEF MigrateInv
<1> QED
  BY <1>2, <1>12, <1>13, SessionStep

\* The sender's steps but the suspend and the resume.
LEMMA SenderMoves ==
  ASSUME MigrateInv, NEW r \in Rounds,
         \/ SendConfig(r) \/ SuspendTimesOut(r) \/ AwaitReady(r) \/ RenameAway(r) \/ SayGo(r) \/ AwaitReport(r)
         \/ AwaitPermission(r) \/ RenameBack(r) \/ DestroySource(r) \/ SenderKilled(r)
  PROVE  MigrateInv' /\ Quiet
<1>0. Domains /\ Places(r)
  BY DEF MigrateInv
<1>1. (UNCHANGED toR => PipeR(r, {})) /\ (UNCHANGED toS => PipeS(r, {}))
  BY <1>0, StillPipes
<1>2. /\ \A x \in Words : ReadS(r, <<x>>) => PipeS(r, {})
      /\ \A x, y \in Words : ReadS(r, <<x, y>>) => PipeS(r, {}) /\ Says(toS[r], y)
  <2>1. \A m \in Seq(Words) : ReadS(r, m) => PipeS(r, {}) /\ \A i \in DOMAIN m : Says(toS[r], m[i])
    BY <1>0, ReadPipeS
  <2>2. \A x, y \in Words : <<x>> \in Seq(Words) /\ <<x, y>> \in Seq(Words)
                             /\ 2 \in DOMAIN <<x, y>> /\ <<x, y>>[2] = y
    BY Sayings 
  <2> QED
    BY <2>1, <2>2
<1>3. \A n : EofS(r, n) => PipeS(r, {})
  BY <1>1 DEF EofS
<1>4. UNCHANGED copy => Kept
  BY <1>0, KeptSame
<1>5. ses[r].snd # "off" => ses[r].src \in Copies /\ St(ses[r].src) # "none"
  BY <1>0 DEF Places, Begun
<1>6. CASE SendConfig(r)
  <2>1. ses[r].snd = "banner" /\ Kept /\ UNCHANGED ran
    BY <1>4, <1>6 DEF SendConfig, domains
  <2>2. CASE ReadS(r, <<"banner">>) /\ WriteConfig(r) /\ Snd(r, "suspend")
    <3>1. PipeS(r, {})
      BY <1>2, <2>2 DEF Words
    <3>2. PipeR(r, {"config"})
      <4>1. <<"config">> \in Seq(Words) /\ \A x : Says(<<"config">>, x) => x \in {"config"}
        <5>1. "config" \in Words
          BY DEF Words
        <5> QED
          BY <5>1, Sayings
      <4> QED
        BY <1>0, <2>2, <4>1, WritePipe DEF WriteConfig
    <3> QED
      BY <2>1, <2>2, <3>1, <3>2, SenderStep DEF Held
  <2>3. CASE EofS(r, 1) /\ UNCHANGED toR /\ Snd(r, "end")
    BY <1>1, <1>3, <2>1, <2>3, SenderStep DEF Held
  <2> QED
    BY <1>6, <2>2, <2>3 DEF SendConfig
<1>7. CASE SuspendTimesOut(r) \/ SenderKilled(r)
  <2>1. ses[r].snd # "off" /\ Snd(r, "end") /\ UNCHANGED <<copy, ran, toR, toS>>
    BY <1>7 DEF SuspendTimesOut, SenderKilled, domains, pipes
  <2> QED
    BY <1>1, <1>4, <2>1, SenderStep DEF Held
<1>8. CASE AwaitReady(r)
  <2>1. ses[r].snd = "ready" /\ UNCHANGED <<copy, ran, toR>>
    BY <1>8 DEF AwaitReady, domains
  <2>2. CASE ReadS(r, <<"ready">>) /\ Snd(r, "rename")
    BY <1>1, <1>2, <1>4, <2>1, <2>2, SenderStep DEF Held, Words
  <2>3. CASE EofS(r, 1) /\ Snd(r, "resume")
    BY <1>1, <1>3, <1>4, <2>1, <2>3, SenderStep DEF Held
  <2> QED
    BY <1>8, <2>2, <2>3 DEF AwaitReady
<1>9. CASE RenameAway(r)
  <2>1. ses[r].snd = "rename" /\ UNCHANGED <<ran, toR, toS>>
    BY <1>9 DEF RenameAway, pipes
  <2>2. CASE copy' = [copy EXCEPT ![ses[r].src].name = "away"] /\ Snd(r, "go")
    <3>1. Kept
      BY <1>0, <1>5, <2>1, <2>2, PutName
    <3> QED
      BY <1>1, <2>1, <2>2, <3>1, SenderStep DEF Held
  <2>3. CASE UNCHANGED copy /\ Snd(r, "resume")
    BY <1>1, <1>4, <2>1, <2>3, SenderStep DEF Held
  <2> QED
    BY <1>9, <2>2, <2>3 DEF RenameAway
<1>10. CASE SayGo(r)
  <2>1. ses[r].snd = "go" /\ UNCHANGED <<copy, ran, toS>>
    BY <1>10 DEF SayGo, domains
  <2>2. CASE WriteR(r, <<"go">>) /\ Snd(r, "report")
    <3>1. PipeR(r, {"go"})
      <4>1. <<"go">> \in Seq(Words) /\ \A x : Says(<<"go">>, x) => x \in {"go"}
        <5>1. "go" \in Words
          BY DEF Words
        <5> QED
          BY <5>1, Sayings
      <4> QED
        BY <1>0, <2>2, <4>1, WritePipe
    <3> QED
      BY <1>1, <1>4, <2>1, <2>2, <3>1, SenderStep DEF Held
  <2>3. CASE LostR(r) /\ \E pc \in {"report", "end"} : Snd(r, pc)
    <3>1. PICK pc \in {"report", "end"} : Snd(r, pc)
      BY <2>3
    <3>2. UNCHANGED toR
      BY <2>3 DEF LostR
    <3> QED
      BY <1>1, <1>4, <2>1, <3>1, <3>2, SenderStep DEF Held
  <2> QED
    BY <1>10, <2>2, <2>3 DEF SayGo
<1>11. CASE AwaitReport(r)
  <2>1. ses[r].snd = "report" /\ UNCHANGED <<copy, ran, toR>>
    BY <1>11 DEF AwaitReport, domains
  <2>2. CASE ReadS(r, <<"report", "started">>) /\ Snd(r, "destroy")
    BY <1>1, <1>2, <1>4, <2>1, <2>2, SenderStep DEF Held, Words
  <2>3. CASE ReadS(r, <<"report", "failed">>) /\ Snd(r, "permission")
    <3>1. PipeS(r, {}) /\ Denied(r)
      BY <1>2, <2>3 DEF Denied, Words
    <3> QED
      BY <1>1, <1>4, <2>1, <2>3, <3>1, SenderStep DEF Held
  <2>4. CASE EofS(r, 2) /\ Snd(r, "end")
    BY <1>1, <1>3, <1>4, <2>1, <2>4, SenderStep DEF Held
  <2> QED
    BY <1>11, <2>2, <2>3, <2>4 DEF AwaitReport
<1>12. CASE AwaitPermission(r)
  <2>1. ses[r].snd = "permission" /\ UNCHANGED <<copy, ran, toR>>
    BY <1>12 DEF AwaitPermission, domains
  <2>2. CASE ReadS(r, <<"have it back">>) /\ Snd(r, "rename back")
    BY <1>1, <1>2, <1>4, <2>1, <2>2, SenderStep DEF Held, Words
  <2>3. CASE EofS(r, 1) /\ Snd(r, "end")
    BY <1>1, <1>3, <1>4, <2>1, <2>3, SenderStep DEF Held
  <2> QED
    BY <1>12, <2>2, <2>3 DEF AwaitPermission
<1>13. CASE RenameBack(r)
  <2>1. ses[r].snd = "rename back" /\ Snd(r, "resume") /\ UNCHANGED <<ran, toR, toS>>
    BY <1>13 DEF RenameBack, pipes
  <2>2. copy' = [copy EXCEPT ![ses[r].src].name = "guest"] \/ UNCHANGED copy
    BY <1>13 DEF RenameBack
  <2>3. Kept
    BY <1>0, <1>4, <1>5, <2>1, <2>2, PutName
  <2> QED
    BY <1>1, <2>1, <2>3, SenderStep DEF Held
<1>14. CASE DestroySource(r)
  <2>1. ses[r].snd = "destroy" /\ Snd(r, "end") /\ UNCHANGED <<ran, toR, toS>>
    BY <1>14 DEF DestroySource, CallsLast, pipes
  <2>2. copy' = Gone(ses[r].src) \/ UNCHANGED copy
    BY <1>14 DEF DestroySource, CallsLast
  <2>3. Kept
    BY <1>0, <1>4, <1>5, <2>1, <2>2, KeptGone
  <2> QED
    BY <1>1, <2>1, <2>3, SenderStep DEF Held
<1> QED
  BY <1>6, <1>7, <1>8, <1>9, <1>10, <1>11, <1>12, <1>13, <1>14

\* The receiver's steps, but that which makes a copy and that which starts it.
LEMMA ReceiverMoves ==
  ASSUME MigrateInv, NEW r \in Rounds,
         \/ SendBanner(r) \/ ReceiveConfig(r) \/ (MakeIncoming(r) /\ UNCHANGED copy) \/ RestoreImage(r)
         \/ SayReady(r) \/ AwaitGo(r) \/ RenameIncoming(r) \/ (Unpause(r) /\ UNCHANGED copy)
         \/ Report(r) \/ DestroyIncoming(r) \/ Grant(r) \/ ReceiverKilled(r)
  PROVE  MigrateInv' /\ Quiet
<1>0. Domains /\ Places(r) /\ ses[r].rc \in BOOLEAN
  BY DEF MigrateInv, Domains
<1>1. (UNCHANGED toR => PipeR(r, {})) /\ (UNCHANGED toS => PipeS(r, {}))
  BY <1>0, StillPipes
<1>2. \A m : ReadR(r, m) => PipeR(r, {}) /\ Says(toR[r], m)
  BY <1>0, ReadPipeR
<1>3. EofR(r) => PipeR(r, {})
  BY <1>1 DEF EofR
<1>4. UNCHANGED copy => Kept
  BY <1>0, KeptSame
<1>5. ses[r].rcv \notin {"off", "banner", "config", "lock", "end"} =>
        ses[r].dst \in Copies /\ St(ses[r].dst) # "none"
  BY <1>0 DEF Places, Target
<1>6. \A b : Rcv(r, b) => Moves(r, b, ses[r].rc)
  BY <1>0, Moved
<1>7. \A b : ses' = [ses EXCEPT ![r].rcv = b, ![r].rc = TRUE] => Moves(r, b, TRUE)
  BY <1>0, Moved
<1>8. \A x \in Words : WriteS(r, <<x>>) => PipeS(r, {x})
  <2>1. ASSUME NEW x \in Words, WriteS(r, <<x>>) PROVE PipeS(r, {x})
    <3>1. <<x>> \in Seq(Words) /\ \A z : Says(<<x>>, z) => z \in {x}
      BY Sayings
    <3> QED
      BY <1>0, <2>1, <3>1, WritePipe
  <2> QED
    BY <2>1
<1>9. LostS(r) => PipeS(r, {})
  BY <1>1 DEF LostS
<1>10. CASE SendBanner(r)
  <2>1. ses[r].rcv = "banner" /\ UNCHANGED <<copy, ran, toR>>
    BY <1>10 DEF SendBanner, domains
  <2>2. CASE WriteS(r, <<"banner">>) /\ Rcv(r, "config")
    <3>1. PipeS(r, {"banner"}) /\ Moves(r, "config", ses[r].rc)
      BY <1>6, <1>8, <2>2 DEF Words
    <3> QED
      BY <1>0, <1>1, <1>4, <2>1, <3>1, ReceiverStep DEF Early, Last
  <2>3. CASE LostS(r) /\ \E pc \in {"config", "end"} : Rcv(r, pc)
    <3>1. PICK pc \in {"config", "end"} : Moves(r, pc, ses[r].rc)
      BY <1>6, <2>3
    <3> QED
      BY <1>0, <1>1, <1>4, <1>9, <2>1, <2>3, <3>1, ReceiverStep DEF Early, Last
  <2> QED
    BY <1>10, <2>2, <2>3 DEF SendBanner
<1>11. CASE ReceiveConfig(r)
  <2>1. ses[r].rcv = "config" /\ UNCHANGED <<copy, ran, toS>>
    BY <1>11 DEF ReceiveConfig, domains
  <2>2. PICK pc \in {"lock", "end"} : PipeR(r, {}) /\ Moves(r, pc, ses[r].rc)
    BY <1>2, <1>3, <1>6, <1>11 DEF ReceiveConfig
  <2> QED
    BY <1>0, <1>1, <1>4, <2>1, <2>2, ReceiverStep DEF Early, Last
<1>12. CASE MakeIncoming(r) /\ UNCHANGED copy
  <2>1. ses[r].rcv = "lock" /\ UNCHANGED <<copy, ran, toR, toS>>
    BY <1>12 DEF MakeIncoming, pipes
  <2>2. Rcv(r, "end")
    <3>1. ASSUME NEW d \in Fresh,
                 copy' = [copy EXCEPT ![d] = [host |-> ses[r].to, name |-> "incoming", state |-> "part", restored |-> TRUE]]
          PROVE  FALSE
      <4>1. d \in Copies /\ copy[d].state = "none"
        BY DEF Fresh
      <4>2. copy'[d].state = "part"
        BY <1>0, <3>1, <4>1 DEF Domains
      <4> QED
        BY <2>1, <4>1, <4>2
    <3> QED
      BY <1>12, <3>1 DEF MakeIncoming
  <2>3. Moves(r, "end", ses[r].rc)
    BY <1>6, <2>2
  <2> QED
    BY <1>0, <1>1, <1>4, <2>1, <2>3, ReceiverStep DEF Early, Last
<1>13. CASE RestoreImage(r)
  <2>1. ses[r].rcv = "restore" /\ UNCHANGED <<ran, toS>> /\ ses[r].dst \in Copies /\ St(ses[r].dst) # "none"
    BY <1>5, <1>13 DEF RestoreImage
  <2>2. CASE copy[ses[r].dst].state = "part" /\ ReadR(r, "image")
             /\ copy' = [copy EXCEPT ![ses[r].dst].state = "paused"] /\ Rcv(r, "ready")
    <3>1. Kept
      <4>1. Shape' /\ copy'[ses[r].dst].state = "paused" /\ \A d \in Copies \ {ses[r].dst} : copy'[d] = copy[d]
        BY <1>0, <2>1, <2>2, PutState
      <4> QED
        BY <2>2, <4>1 DEF Kept, Changes
    <3>2. PipeR(r, {}) /\ Moves(r, "ready", ses[r].rc)
      BY <1>2, <1>6, <2>2
    <3> QED
      BY <1>0, <1>1, <2>1, <3>1, <3>2, ReceiverStep DEF Early, Last
  <2>3. CASE (EofR(r) \/ ReadR(r, "image")) /\ (copy' = Gone(ses[r].dst) \/ UNCHANGED copy) /\ Rcv(r, "end")
    <3>1. Kept
      BY <1>0, <1>4, <2>1, <2>3, KeptGone
    <3>2. PipeR(r, {}) /\ Moves(r, "end", ses[r].rc)
      BY <1>2, <1>3, <1>6, <2>3
    <3> QED
      BY <1>0, <1>1, <2>1, <3>1, <3>2, ReceiverStep DEF Early, Last
  <2> QED
    BY <1>13, <2>2, <2>3 DEF RestoreImage
<1>14. CASE SayReady(r)
  <2>1. ses[r].rcv = "ready" /\ UNCHANGED <<copy, ran, toR>>
    BY <1>14 DEF SayReady, domains
  <2>2. CASE WriteS(r, <<"ready">>) /\ Rcv(r, "go")
    <3>1. PipeS(r, {"ready"}) /\ Moves(r, "go", ses[r].rc)
      BY <1>6, <1>8, <2>2 DEF Words
    <3> QED
      BY <1>0, <1>1, <1>4, <2>1, <3>1, ReceiverStep DEF Early, Last
  <2>3. CASE LostS(r) /\ \E pc \in {"go", "end"} : Rcv(r, pc)
    <3>1. PICK pc \in {"go", "end"} : Moves(r, pc, ses[r].rc)
      BY <1>6, <2>3
    <3> QED
      BY <1>0, <1>1, <1>4, <1>9, <2>1, <2>3, <3>1, ReceiverStep DEF Early, Last
  <2> QED
    BY <1>14, <2>2, <2>3 DEF SayReady
<1>15. CASE AwaitGo(r)
  <2>1. ses[r].rcv = "go" /\ UNCHANGED <<copy, ran, toS>>
    BY <1>15 DEF AwaitGo, domains
  <2>2. CASE ReadR(r, "go") /\ Rcv(r, "rename")
    <3>1. PipeR(r, {}) /\ Moves(r, "rename", ses[r].rc) /\ Going(r)
      BY <1>2, <1>6, <2>1, <2>2 DEF Going
    <3> QED
      BY <1>0, <1>1, <1>4, <2>1, <3>1, ReceiverStep DEF Early, Last
  <2>3. CASE EofR(r) /\ ses' = [ses EXCEPT ![r].rcv = "report", ![r].rc = TRUE]
    <3>1. PipeR(r, {}) /\ Moves(r, "report", TRUE)
      BY <1>3, <1>7, <2>3
    <3> QED
      BY <1>0, <1>1, <1>4, <2>1, <3>1, ReceiverStep DEF Early, Last
  <2> QED
    BY <1>15, <2>2, <2>3 DEF AwaitGo
<1>16. CASE RenameIncoming(r)
  <2>1. ses[r].rcv = "rename" /\ Going(r) /\ UNCHANGED <<ran, toR, toS>> /\ ses[r].dst \in Copies
    BY <1>5, <1>16 DEF RenameIncoming, pipes, Going
  <2>2. CASE copy' = [copy EXCEPT ![ses[r].dst].name = "guest"] /\ Rcv(r, "unpause")
    <3>1. Kept /\ Moves(r, "unpause", ses[r].rc)
      BY <1>0, <1>6, <2>1, <2>2, PutName
    <3> QED
      BY <1>0, <1>1, <2>1, <3>1, ReceiverStep DEF Early, Last
  <2>3. CASE UNCHANGED copy /\ ses' = [ses EXCEPT ![r].rcv = "report", ![r].rc = TRUE]
    <3>1. Moves(r, "report", TRUE)
      BY <1>7, <2>3
    <3> QED
      BY <1>0, <1>1, <1>4, <2>1, <2>3, <3>1, ReceiverStep DEF Early, Last
  <2> QED
    BY <1>16, <2>2, <2>3 DEF RenameIncoming
<1>17. CASE Unpause(r) /\ UNCHANGED copy
  <2>1. ses[r].rcv = "unpause" /\ UNCHANGED <<copy, toR, toS>> /\ ses[r].dst \in Copies
    BY <1>5, <1>17 DEF Unpause, pipes
  <2>2. UNCHANGED ran /\ ses' = [ses EXCEPT ![r].rcv = "report", ![r].rc = TRUE]
    <3>1. ASSUME copy[ses[r].dst].state = "paused", copy' = [copy EXCEPT ![ses[r].dst].state = "running"]
          PROVE  FALSE
      <4>1. copy'[ses[r].dst].state = "running"
        BY <1>0, <2>1, <3>1, PutState
      <4> QED
        BY <2>1, <3>1, <4>1
    <3> QED
      BY <1>17, <3>1 DEF Unpause
  <2>3. Moves(r, "report", TRUE)
    BY <1>7, <2>2
  <2> QED
    BY <1>0, <1>1, <1>4, <2>1, <2>2, <2>3, ReceiverStep DEF Early, Last
<1>18. CASE Report(r)
  <2>1. ses[r].rcv = "report" /\ UNCHANGED <<copy, ran, toR>>
    BY <1>18 DEF Report, domains
  <2>2. CASE /\ WriteS(r, <<"report", IF ses[r].rc THEN "failed" ELSE "started">>)
             /\ Rcv(r, IF ses[r].rc THEN "destroy" ELSE "end")
    <3> DEFINE w == IF ses[r].rc THEN "failed" ELSE "started"
    <3>1. PipeS(r, {"report", w})
      <4>1. "report" \in Words /\ w \in Words
        BY <1>0 DEF Words
      <4> HIDE DEF w
      <4>2. <<"report", w>> \in Seq(Words) /\ \A z : Says(<<"report", w>>, z) => z \in {"report", w}
        BY <4>1, Sayings
      <4>3. WriteS(r, <<"report", w>>)
        BY <2>2 DEF w
      <4> QED
        BY <1>0, <4>2, <4>3, WritePipe
    <3>2. CASE ses[r].rc
      <4>1. Moves(r, "destroy", ses[r].rc)
        BY <1>6, <2>2, <3>2
      <4> QED
        BY <1>0, <1>1, <1>4, <2>1, <3>1, <3>2, <4>1, ReceiverStep DEF Early, Last
    <3>3. CASE ~ses[r].rc
      <4>1. Moves(r, "end", ses[r].rc) /\ PipeS(r, {"report", "started"})
        BY <1>6, <2>2, <3>1, <3>3
      <4> QED
        BY <1>0, <1>1, <1>4, <2>1, <4>1, ReceiverStep DEF Early, Last
    <3> QED
      BY <3>2, <3>3
  <2>3. CASE LostS(r) /\ \E pc \in {"destroy", "end"} : (pc = "destroy" => ses[r].rc) /\ Rcv(r, pc)
    <3>1. PICK pc \in {"destroy", "end"} : (pc = "destroy" => ses[r].rc) /\ Moves(r, pc, ses[r].rc)
      BY <1>6, <2>3
    <3> QED
      BY <1>0, <1>1, <1>4, <1>9, <2>1, <2>3, <3>1, ReceiverStep DEF Early, Last
  <2> QED
    BY <1>18, <2>2, <2>3 DEF Report
<1>19. CASE DestroyIncoming(r)
  <2>1. ses[r].rcv = "destroy" /\ UNCHANGED <<ran, toR, toS>> /\ ses[r].dst \in Copies /\ St(ses[r].dst) # "none"
    BY <1>5, <1>19 DEF DestroyIncoming, pipes
  <2>2. Kept
    BY <1>0, <1>4, <1>19, <2>1, KeptGone DEF DestroyIncoming
  <2>3. PICK pc \in {"grant", "end"} : Moves(r, pc, ses[r].rc)
    BY <1>6, <1>19 DEF DestroyIncoming
  <2> QED
    BY <1>0, <1>1, <2>1, <2>2, <2>3, ReceiverStep DEF Early, Last
<1>20. CASE Grant(r)
  <2>1. ses[r].rcv = "grant" /\ UNCHANGED <<copy, ran, toR>> /\ Moves(r, "end", ses[r].rc)
    BY <1>6, <1>20 DEF Grant, domains
  <2>2. PipeS(r, {"have it back"})
    <3>1. PipeS(r, {}) => PipeS(r, {"have it back"})
      BY DEF PipeS
    <3> QED
      BY <1>8, <1>9, <1>20, <3>1 DEF Grant, Words
  <2> QED
    BY <1>0, <1>1, <1>4, <2>1, <2>2, ReceiverStep DEF Early, Last
<1>21. CASE ReceiverKilled(r)
  <2>1. ses[r].rcv # "off" /\ UNCHANGED <<copy, ran, toR, toS>> /\ Moves(r, "end", ses[r].rc)
    BY <1>6, <1>21 DEF ReceiverKilled, domains, pipes
  <2> QED
    BY <1>0, <1>1, <1>4, <2>1, ReceiverStep DEF Early, Last
<1> QED
  BY <1>10, <1>11, <1>12, <1>13, <1>14, <1>15, <1>16, <1>17, <1>18, <1>19, <1>20, <1>21

(***************************************************************************)
(* Steps that suspend, resume, make or start a copy, and the others.       *)
(***************************************************************************)
\* The maximum of a set of integers.
LEMMA NewestIs ==
  ASSUME NEW S, S \subseteq Int, NEW n \in S, \A c \in S : c <= n
  PROVE  Max(S) = n
<1> DEFINE P(x) == x \in S /\ \A y \in S : x >= y
<1>1. P(n)
  OBVIOUS
<1>2. Max(S) = CHOOSE x \in S : \A y \in S : x >= y
  BY DEF Max
<1>3. Max(S) \in S /\ \A y \in S : Max(S) >= y
  BY <1>1, <1>2
<1>4. Max(S) \in Int /\ n \in Int /\ Max(S) >= n /\ Max(S) <= n
  BY <1>3
<1> HIDE DEF P
<1> QED
  BY <1>4

\* A breaking connection cuts the pipes.
LEMMA BreaksKeeps ==
  ASSUME MigrateInv, NEW r \in Rounds, Breaks(r)
  PROVE  MigrateInv' /\ Quiet
<1>1. UNCHANGED <<copy, ran, ses>> /\ Domains /\ Places(r)
  BY DEF Breaks, domains, MigrateInv
<1>2. PICK m \in 0 .. Len(toR[r]), n \in 0 .. Len(toS[r]) :
        toR' = [toR EXCEPT ![r] = SubSeq(toR[r], 1, m)] /\ toS' = [toS EXCEPT ![r] = SubSeq(toS[r], 1, n)]
  BY DEF Breaks
<1>3. toR[r] \in Seq(Words) /\ toS[r] \in Seq(Words) /\ 1 \in Nat \ {0}
  BY <1>1 DEF Domains
<1>4. /\ SubSeq(toR[r], 1, m) \in Seq(Words) /\ \A x : Says(SubSeq(toR[r], 1, m), x) => Says(toR[r], x)
      /\ SubSeq(toS[r], 1, n) \in Seq(Words) /\ \A x : Says(SubSeq(toS[r], 1, n), x) => Says(toS[r], x)
  BY <1>3, SaysPart
<1>5. /\ toR' \in [Rounds -> Seq(Words)] /\ \A x : Says(toR'[r], x) => Says(toR[r], x)
      /\ toS' \in [Rounds -> Seq(Words)] /\ \A x : Says(toS'[r], x) => Says(toS[r], x)
      /\ \A q \in Rounds \ {r} : ses'[q] = ses[q] /\ toR'[q] = toR[q] /\ toS'[q] = toS[q]
  BY <1>1, <1>2, <1>4 DEF Domains
<1>6. Kept /\ Domains'
  BY <1>1, <1>5, KeptSame DEF Domains
<1>7. (Going(r)' => Going(r)) /\ (Denied(r)' => Denied(r)) /\ (Has(r)' => Has(r))
  BY <1>1, <1>5 DEF Going, Denied, Has
<1>8. Begun(r)'
  <2>1. CASE ses[r].snd = "off"
    <3>1. toR[r] = <<>> /\ toS[r] = <<>> /\ m = 0 /\ n = 0
      BY <1>1, <2>1, EmptySeq DEF Places, Begun
    <3>2. toR'[r] = <<>> /\ toS'[r] = <<>>
      BY <1>1, <1>2, <3>1, SubSeqEmpty DEF Domains
    <3> QED
      BY <1>1, <2>1, <3>2 DEF Places, Begun
  <2>2. CASE ses[r].snd # "off"
    BY <1>1, <2>2 DEF Places, Begun, St
  <2> QED
    BY <2>1, <2>2
<1>9. Places(r)'
  BY <1>1, <1>7, <1>8 DEF Places, Target, Waits, Told, Started, St
<1> QED
  BY <1>1, <1>5, <1>6, <1>7, <1>9, SessionStep

\* The newest copy, which runs, is suspended by migration r, which has it now.
LEMMA SuspendKeeps ==
  ASSUME MigrateInv, NEW r \in Rounds, SuspendDomain(r)
  PROVE  MigrateInv' /\ Running = {Newest} /\ Running' = {} /\ Newest' = Newest
<1> DEFINE s == ses[r].src
<1>1. ses[r].snd = "suspend" /\ copy[s].state = "running" /\ UNCHANGED <<ran, toS>>
      /\ copy' = [copy EXCEPT ![s].state = "suspended"]
  BY DEF SuspendDomain
<1>2. Domains /\ Ran /\ Places(r) /\ s \in Copies /\ s = Newest
  BY <1>1 DEF MigrateInv, Ran, Places, Begun, St
<1>3. PICK b \in {"ready", "resume"} : Snd(r, b)
  BY DEF SuspendDomain
<1>4. PipeS(r, {}) /\ PipeR(r, {"image"})
  <2>1. <<"image">> \in Seq(Words) /\ \A x : Says(<<"image">>, x) => x \in {"image"}
    <3>1. "image" \in Words
      BY DEF Words
    <3> QED
      BY <3>1, Sayings
  <2>2. WriteR(r, <<"image">>) \/ LostR(r) \/ UNCHANGED toR
    BY DEF SuspendDomain, LostR
  <2>3. UNCHANGED toR => PipeR(r, {"image"})
    BY <1>2 DEF PipeR, Domains
  <2>4. PipeR(r, {"image"})
    BY <1>2, <2>1, <2>2, <2>3, WritePipe
  <2> QED
    BY <1>1, <1>2, <2>4, StillPipes
<1>5. /\ ses'[r].snd = b /\ ses'[r].rcv = ses[r].rcv /\ ses'[r].src = ses[r].src
      /\ ses'[r].dst = ses[r].dst /\ ses'[r].rc = ses[r].rc
      /\ DOMAIN ses'[r] = DOMAIN ses[r] /\ DOMAIN ses' = Rounds
      /\ \A q \in Rounds \ {r} : ses'[q] = ses[q] /\ toR'[q] = toR[q] /\ toS'[q] = toS[q]
  BY <1>2, <1>3, <1>4 DEF Domains, Snd, PipeR, PipeS
<1>6. Shape' /\ copy'[s].state = "suspended" /\ \A c \in Copies \ {s} : copy'[c] = copy[c]
  BY <1>1, <1>2, PutState
<1>7. Domains'
  <2>1. (\A q \in Rounds : DOMAIN ses[q] = {"snd", "rcv", "src", "dst", "to", "rc"} /\ ses[q].rc \in BOOLEAN)'
    BY <1>2, <1>5 DEF Domains
  <2> QED
    BY <1>2, <1>4, <1>5, <1>6, <2>1 DEF Domains, Shape, PipeR, PipeS
<1>8. Newest' = Newest /\ Ran'
  <2>1. Newest' = Newest
    BY <1>1 DEF Newest
  <2>2. \A c \in Copies : St(c)' = IF c = s THEN "suspended" ELSE St(c)
    BY <1>6 DEF St
  <2> QED
    BY <1>1, <1>2, <2>1, <2>2 DEF Ran, IsNewest, Copies, St
<1>9. \A q \in Rounds : ses'[q].src = ses[q].src /\ ses'[q].dst = ses[q].dst
  BY <1>5
<1>10. ASSUME NEW q \in Rounds
      PROVE  (Has(q)' => Has(q) \/ q = r) /\ (Going(q)' => Going(q)) /\ (Denied(q)' => Denied(q))
  <2>1. CASE q = r
    <3>1. (\A x : Says(toR'[r], x) => Says(toR[r], x) \/ x = "image") /\ \A x : Says(toS'[r], x) => Says(toS[r], x)
      BY <1>4 DEF PipeR, PipeS
    <3> QED
      BY <1>5, <2>1, <3>1 DEF Going, Denied
  <2>2. CASE q # r
    BY <1>5, <2>2 DEF Has, Going, Denied, Says
  <2> QED
    BY <2>1, <2>2
<1>11. ASSUME NEW q \in Rounds PROVE Has(q) => ses[q].src # s /\ q # r
  <2>1. SUFFICES ASSUME Has(q) PROVE ses[q].src # s
    OBVIOUS
  <2>2. St(ses[q].src) \in {"suspended", "gone"}
    BY <2>1 DEF MigrateInv, Holds
  <2> QED
    BY <1>1, <2>2 DEF St
<1>12. ASSUME NEW q \in Rounds PROVE Places(q)'
  <2>1. Places(q)
    BY DEF MigrateInv
  <2>2. \A c \in Copies : St(c) # "none" => St(c)' # "none"
    BY <1>6 DEF St
  <2>3. Target(q)'
    BY <1>1, <1>5, <2>1, <2>2 DEF Places, Target, Copies
  <2>4. Begun(q)'
    <3>1. CASE q = r
      BY <1>1, <1>3, <1>5, <2>1, <2>2, <3>1 DEF Places, Begun
    <3>2. CASE q # r
      BY <1>5, <2>1, <2>2, <3>2 DEF Places, Begun
    <3> QED
      BY <3>1, <3>2
  <2>5. Waits(q)' /\ Told(q)' /\ Started(q)'
    BY <1>1, <1>3, <1>5, <1>10, <2>1 DEF Places, Waits, Told, Started
  <2> QED
    BY <2>3, <2>4, <2>5 DEF Places
<1>13. ASSUME NEW q \in Rounds PROVE Holds(q)'
  <2>1. CASE q = r
    BY <1>2, <1>5, <1>6, <1>8, <2>1 DEF Holds, St
  <2>2. CASE q # r
    <3>1. SUFFICES ASSUME Has(q) PROVE Holds(q)'
      BY <1>10, <2>2 DEF Holds
    <3>2. ses[q].src \in Copies
      BY <3>1 DEF MigrateInv, Places, Begun, Has, Held, Going, Says
    <3>3. Holds(q)
      BY DEF MigrateInv
    <3> QED
      BY <1>1, <1>6, <1>8, <1>9, <3>1, <3>2, <3>3 DEF Holds, St
  <2> QED
    BY <2>1, <2>2
<1>14. ASSUME NEW q \in Rounds, NEW p \in Rounds, q # p PROVE Alone(q, p)'
  <2>1. Alone(q, p)
    BY <1>14 DEF MigrateInv
  <2> QED
    BY <1>9, <1>10, <1>11, <1>14, <2>1 DEF Alone
<1>15. Running = {Newest} /\ Running' = {}
  <2>1. Running = {Newest}
    BY <1>1, <1>2 DEF Running, Ran, St
  <2>2. \A c \in Copies : copy'[c].state # "running"
    BY <1>2, <1>6, <1>8 DEF Ran, St
  <2> QED
    BY <2>1, <2>2 DEF Running
<1> QED
  BY <1>7, <1>8, <1>12, <1>13, <1>14, <1>15 DEF MigrateInv

\* Migration r, which has the newest copy, gives it back.
LEMMA ResumeKeeps ==
  ASSUME MigrateInv, NEW r \in Rounds, Resume(r), ~UNCHANGED copy
  PROVE  MigrateInv' /\ Running = {} /\ Running' = {Newest} /\ Newest' = Newest
<1> DEFINE s == ses[r].src
<1>1. ses[r].snd = "resume" /\ Snd(r, "end") /\ UNCHANGED <<ran, toR, toS>>
      /\ copy[s].state = "suspended" /\ copy' = [copy EXCEPT ![s].state = "running"]
  BY DEF Resume, CallsLast, Resumed, pipes
<1>2. Domains /\ Ran /\ Places(r) /\ Has(r) /\ ses[r].dst \notin ran /\ s \in Copies /\ s = Newest
  <2>1. Places(r) /\ Holds(r) /\ Has(r)
    BY <1>1 DEF MigrateInv, Has, Held
  <2> QED
    BY <1>1, <2>1 DEF MigrateInv, Places, Begun, Started, Holds
<1>3. /\ ses'[r].snd = "end" /\ ses'[r].rcv = ses[r].rcv /\ ses'[r].src = ses[r].src
      /\ ses'[r].dst = ses[r].dst /\ ses'[r].rc = ses[r].rc
      /\ DOMAIN ses'[r] = DOMAIN ses[r] /\ DOMAIN ses' = Rounds
      /\ \A q \in Rounds \ {r} : ses'[q] = ses[q]
  BY <1>1, <1>2 DEF Domains, Snd
<1>4. Shape' /\ copy'[s].state = "running" /\ \A c \in Copies \ {s} : copy'[c] = copy[c]
  BY <1>1, <1>2, PutState
<1>5. Domains'
  <2>1. (\A q \in Rounds : DOMAIN ses[q] = {"snd", "rcv", "src", "dst", "to", "rc"} /\ ses[q].rc \in BOOLEAN)'
    BY <1>2, <1>3 DEF Domains
  <2> QED
    BY <1>1, <1>2, <1>3, <1>4, <2>1 DEF Domains, Shape
<1>6. Newest' = Newest /\ Ran'
  <2>1. Newest' = Newest
    BY <1>1 DEF Newest
  <2>2. \A c \in Copies : St(c)' = IF c = s THEN "running" ELSE St(c)
    BY <1>4 DEF St
  <2> QED
    BY <1>1, <1>2, <2>1, <2>2 DEF Ran, IsNewest, Copies, St
<1>7. \A q \in Rounds : ses'[q].src = ses[q].src /\ ses'[q].dst = ses[q].dst
  BY <1>3
<1>8. ~Going(r)
  BY <1>1, <1>2 DEF Places, Waits
<1>9. ASSUME NEW q \in Rounds
      PROVE  (Has(q)' => Has(q) /\ q # r) /\ (Going(q)' => Going(q)) /\ (Denied(q)' => Denied(q))
  BY <1>1, <1>3, <1>8 DEF Has, Held, Going, Denied
<1>10. ASSUME NEW q \in Rounds PROVE Has(q) /\ q # r => ses[q].src # s
  BY <1>2 DEF MigrateInv, Alone
<1>11. ASSUME NEW q \in Rounds PROVE Places(q)'
  <2>1. Places(q)
    BY DEF MigrateInv
  <2>2. \A c \in Copies : St(c) # "none" => St(c)' # "none"
    BY <1>4 DEF St
  <2>3. Begun(q)' /\ Target(q)'
    BY <1>1, <1>3, <2>1, <2>2 DEF Places, Begun, Target, Copies
  <2>4. Waits(q)' /\ Told(q)' /\ Started(q)'
    BY <1>1, <1>2, <1>3, <1>9, <2>1 DEF Places, Waits, Told, Started
  <2> QED
    BY <2>3, <2>4 DEF Places
<1>12. ASSUME NEW q \in Rounds PROVE Holds(q)'
  <2>1. SUFFICES ASSUME Has(q), q # r PROVE Holds(q)'
    BY <1>9 DEF Holds
  <2>2. ses[q].src \in Copies
    BY <2>1 DEF MigrateInv, Places, Begun, Has, Held, Going, Says
  <2>3. Holds(q) /\ ses[q].src # s
    BY <1>10, <2>1 DEF MigrateInv
  <2> QED
    BY <1>1, <1>4, <1>6, <1>7, <2>1, <2>2, <2>3 DEF Holds, St
<1>13. ASSUME NEW q \in Rounds, NEW p \in Rounds, q # p PROVE Alone(q, p)'
  <2>1. Alone(q, p)
    BY <1>13 DEF MigrateInv
  <2> QED
    BY <1>7, <1>9, <2>1 DEF Alone
<1>14. Running = {} /\ Running' = {Newest}
  <2>1. \A c \in Copies : copy[c].state # "running"
    BY <1>1, <1>2 DEF Ran, St
  <2> QED
    BY <1>2, <1>4, <2>1 DEF Running
<1> QED
  BY <1>5, <1>6, <1>11, <1>12, <1>13, <1>14 DEF MigrateInv

\* A migration begins.
LEMMA MigrateKeeps ==
  ASSUME MigrateInv, NEW r \in Rounds, Migrate(r)
  PROVE  MigrateInv' /\ Quiet
<1>1. PICK c \in Copies, h \in Hosts : Alive(c) /\ ses' = [ses EXCEPT ![r] = Forked(c, h)]
  BY DEF Migrate
<1>2. ses[r].snd = "off" /\ UNCHANGED <<copy, ran, toR, toS>> /\ Domains /\ Places(r) /\ St(c) \notin {"none", "gone"}
  BY <1>1, AliveIs DEF Migrate, domains, MigrateInv
<1>3. /\ ses'[r].snd = "banner" /\ ses'[r].rcv = "banner" /\ ses'[r].src = c /\ ses'[r].dst = 0 /\ ses'[r].rc = FALSE
      /\ DOMAIN ses'[r] = {"snd", "rcv", "src", "dst", "to", "rc"} /\ DOMAIN ses' = Rounds
      /\ \A q \in Rounds \ {r} : ses'[q] = ses[q]
  BY <1>1, <1>2 DEF Domains, Forked, NoRound
<1>4. Domains'
  BY <1>2, <1>3 DEF Domains
<1>5. toR[r] = <<>> /\ toS[r] = <<>> /\ ses[r].dst = 0 /\ 0 \notin ran
  <2>1. ran \subseteq Copies
    BY DEF MigrateInv, Ran
  <2> QED
    BY <1>2, <2>1 DEF Places, Begun, Copies
<1>6. \A x : ~Says(toR[r], x) /\ ~Says(toS[r], x)
  BY <1>5 DEF Says
<1>7. ~Has(r)' /\ ~Going(r)' /\ ~Denied(r)'
  BY <1>2, <1>3, <1>6 DEF Has, Held, Going, Denied
<1>8. Places(r)'
  BY <1>2, <1>3, <1>5, <1>7 DEF Places, Begun, Target, Waits, Told, Started, St
<1>9. Newest' = Newest /\ Ran'
  <2>1. Newest' = Newest
    BY <1>2 DEF Newest
  <2> QED
    BY <1>2, <2>1 DEF MigrateInv, Ran, IsNewest, St
<1>10. ASSUME NEW q \in Rounds, q # r PROVE Places(q)' /\ Holds(q)' /\ (Has(q)' <=> Has(q))
  <2>1. ses'[q] = ses[q] /\ Places(q) /\ Holds(q)
    BY <1>3, <1>10 DEF MigrateInv
  <2>2. (Going(q)' <=> Going(q)) /\ (Denied(q)' <=> Denied(q)) /\ (Has(q)' <=> Has(q))
    BY <1>2, <2>1 DEF Has, Going, Denied
  <2> QED
    BY <1>2, <1>9, <2>1, <2>2 DEF Places, Begun, Target, Waits, Told, Started, Holds, St
<1>11. Holds(r)'
  BY <1>7 DEF Holds
<1>12. ASSUME NEW q \in Rounds, NEW p \in Rounds, q # p PROVE Alone(q, p)'
  <2>1. Alone(q, p)
    BY <1>12 DEF MigrateInv
  <2>2. \A k \in Rounds : ses'[k].dst = ses[k].dst /\ (k # r => ses'[k] = ses[k])
    BY <1>3, <1>5
  <2> QED
    BY <1>7, <1>10, <2>1, <2>2 DEF Alone
<1> QED
  BY <1>2, <1>4, <1>8, <1>9, <1>10, <1>11, <1>12 DEF MigrateInv, Quiet, Running

\* A fresh copy is newer than every domain there is.
LEMMA FreshIsNewer ==
  ASSUME MigrateInv, NEW d \in Fresh
  PROVE  /\ d \in Copies /\ St(d) = "none" /\ d \notin ran
         /\ \A c \in Copies : St(c) # "none" <=> c < d
<1>1. d \in Copies /\ St(d) = "none" /\ \A c \in Copies : St(c) = "none" => d <= c
  BY DEF Fresh, St
<1>2. Ran
  BY DEF MigrateInv
<1> QED
  BY <1>1, <1>2 DEF Ran, Copies

\* The receiver of migration r makes its copy.
LEMMA MakeKeeps ==
  ASSUME MigrateInv, NEW r \in Rounds, MakeIncoming(r), ~UNCHANGED copy
  PROVE  MigrateInv' /\ Quiet
<1>1. PICK d \in Fresh :
        /\ copy' = [copy EXCEPT ![d] = [host |-> ses[r].to, name |-> "incoming", state |-> "part", restored |-> TRUE]]
        /\ ses' = [ses EXCEPT ![r].rcv = "restore", ![r].dst = d]
  BY DEF MakeIncoming
<1>2. /\ d \in Copies /\ St(d) = "none" /\ d \notin ran
      /\ \A c \in Copies : St(c) # "none" <=> c < d
  BY FreshIsNewer
<1>3. ses[r].rcv = "lock" /\ UNCHANGED <<ran, toR, toS>> /\ Domains /\ Ran /\ Places(r)
  BY DEF MakeIncoming, pipes, MigrateInv
<1>4. /\ ses'[r].snd = ses[r].snd /\ ses'[r].rcv = "restore" /\ ses'[r].src = ses[r].src
      /\ ses'[r].dst = d /\ ses'[r].rc = ses[r].rc
      /\ DOMAIN ses'[r] = DOMAIN ses[r] /\ DOMAIN ses' = Rounds
      /\ \A q \in Rounds \ {r} : ses'[q] = ses[q]
  BY <1>1, <1>3 DEF Domains
<1>5. /\ DOMAIN copy' = Copies /\ DOMAIN copy'[d] = {"host", "name", "state", "restored"} /\ copy'[d].state = "part"
      /\ \A c \in Copies \ {d} : copy'[c] = copy[c]
  BY <1>1, <1>2, <1>3 DEF Domains
<1>6. Domains'
  <2>1. (\A q \in Rounds : DOMAIN ses[q] = {"snd", "rcv", "src", "dst", "to", "rc"} /\ ses[q].rc \in BOOLEAN)'
    BY <1>3, <1>4 DEF Domains
  <2>2. (\A c \in Copies : DOMAIN copy[c] = {"host", "name", "state", "restored"})'
    BY <1>3, <1>5 DEF Domains
  <2> QED
    BY <1>3, <1>4, <1>5, <2>1, <2>2 DEF Domains
<1>7. Newest' = Newest /\ Ran' /\ Running' = Running
  <2>1. Newest' = Newest
    BY <1>3 DEF Newest
  <2>2. \A c \in Copies : St(c)' = IF c = d THEN "part" ELSE St(c)
    BY <1>5 DEF St
  <2>3. (\A c \in ran : St(c) \notin {"none", "part", "paused"})'
    BY <1>2, <1>3, <2>2 DEF Ran
  <2>4. (\A c, e \in Copies : c < e /\ St(e) # "none" => St(c) # "none")'
    <3>1. SUFFICES ASSUME NEW c \in Copies, NEW e \in Copies, c < e, St(e)' # "none" PROVE St(c)' # "none"
      OBVIOUS
    <3>2. e <= d
      BY <1>2, <2>2, <3>1 DEF Copies
    <3>3. c < d
      BY <1>2, <3>1, <3>2 DEF Copies
    <3> QED
      BY <1>2, <2>2, <3>3
  <2>5. (\A c \in Copies : St(c) \in {"running", "rebooting"} => c = Newest)'
    BY <1>3, <2>1, <2>2 DEF Ran
  <2>6. (ran \subseteq Copies /\ IsNewest(Newest))'
    BY <1>3, <2>1 DEF Ran, IsNewest
  <2>7. Running' = Running
    BY <1>2, <2>2 DEF Running, St
  <2> QED
    BY <2>1, <2>3, <2>4, <2>5, <2>6, <2>7 DEF Ran
<1>8. ASSUME NEW q \in Rounds
      PROVE  (Has(q)' => Has(q)) /\ (Going(q)' => Going(q)) /\ (Denied(q)' <=> Denied(q))
  BY <1>3, <1>4 DEF Has, Going, Denied
<1>9. ses[r].src \in Copies /\ ses[r].src < d
  BY <1>2, <1>3 DEF Places, Begun
<1>10. ASSUME NEW q \in Rounds PROVE Places(q)'
  <2>1. Places(q)
    BY DEF MigrateInv
  <2>2. \A c \in Copies : St(c) # "none" => St(c)' # "none"
    BY <1>5 DEF St
  <2>3. CASE q = r
    <3>1. Begun(r)'
      BY <1>3, <1>4, <2>2 DEF Places, Begun
    <3>2. Target(r)' /\ Started(r)' /\ Waits(r)'
      BY <1>2, <1>3, <1>4, <1>5, <1>8, <1>9 DEF Places, Target, Started, Waits, Copies, St
    <3>3. Told(r)'
      BY <1>3, <1>4, <1>8 DEF Places, Told
    <3> QED
      BY <2>3, <3>1, <3>2, <3>3 DEF Places
  <2>4. CASE q # r
    <3>1. Begun(q)' /\ Target(q)'
      BY <1>3, <1>4, <2>1, <2>2, <2>4 DEF Places, Begun, Target, Copies
    <3>2. Waits(q)' /\ Told(q)' /\ Started(q)'
      BY <1>3, <1>4, <1>8, <2>1, <2>4 DEF Places, Waits, Told, Started
    <3> QED
      BY <3>1, <3>2 DEF Places
  <2> QED
    BY <2>3, <2>4
<1>11. ASSUME NEW q \in Rounds PROVE Holds(q)'
  <2>1. SUFFICES ASSUME Has(q), Has(q)' PROVE Holds(q)'
    BY <1>8 DEF Holds
  <2>2. ses[q].src \in Copies /\ ses'[q].src = ses[q].src /\ Holds(q)
    BY <1>4, <2>1 DEF MigrateInv, Places, Begun, Has, Held, Going, Says
  <2>3. St(ses[q].src) \in {"suspended", "gone"} /\ (ses[q].dst \notin ran => ses[q].src = Newest)
    BY <2>1, <2>2 DEF Holds
  <2>4. St(ses[q].src)' = St(ses[q].src)
    BY <1>2, <1>5, <2>2, <2>3 DEF St
  <2>5. ses'[q].dst \notin ran => ses[q].dst \notin ran
    <3>1. CASE q = r
      <4>1. ses[r].dst = 0 /\ 0 \notin ran
        BY <1>3 DEF Places, Target, Ran, Copies
      <4> QED
        BY <3>1, <4>1
    <3> QED
      BY <1>4, <3>1
  <2> QED
    BY <1>3, <1>7, <2>2, <2>3, <2>4, <2>5 DEF Holds
<1>12. ASSUME NEW q \in Rounds, NEW p \in Rounds, q # p PROVE Alone(q, p)'
  <2>1. Alone(q, p)
    BY <1>12 DEF MigrateInv, Quiet
  <2>2. \A k \in Rounds : ses[k].dst # d /\ ses'[k].src = ses[k].src /\ (k # r => ses'[k].dst = ses[k].dst)
    BY <1>2, <1>4 DEF MigrateInv, Places, Target, Copies
  <2> QED
    BY <1>4, <1>8, <1>12, <2>1, <2>2 DEF Alone
<1> QED
  BY <1>3, <1>6, <1>7, <1>10, <1>11, <1>12 DEF MigrateInv, Quiet

\* Copy d starts, newer than any that has run, when none runs.
LEMMA HandsOver ==
  ASSUME MigrateInv, NEW d \in Copies, Newest < d, ran' = ran \cup {d}, copy'[d].state = "running",
         St(d) # "none" \/ d \in Fresh,
         copy[Newest].state # "running", copy'[Newest].state \notin {"running", "rebooting"},
         \A c \in Copies \ {d} : copy'[c].state = copy[c].state \/ (copy[c].state # "none" /\ copy'[c].state = "gone")
  PROVE  Newest' = d /\ Ran' /\ Running = {} /\ Running' = {d} /\ d \notin ran
<1>1. Ran /\ ran \subseteq Copies /\ Newest \in Copies
  BY DEF MigrateInv, Ran, IsNewest
<1>2. d \notin ran /\ \A c \in ran : c < d
  BY <1>1 DEF Ran, IsNewest, Copies
<1>3. Newest' = d /\ IsNewest(d)'
  <2>1. ran' \subseteq Copies /\ d \in ran' /\ \A c \in ran' : c <= d
    BY <1>1, <1>2 DEF Copies
  <2>2. Max(ran') = d
    <3>1. ran' \subseteq Int
      BY <2>1 DEF Copies
    <3> QED
      BY <2>1, <3>1, NewestIs
  <2> QED
    BY <2>1, <2>2 DEF Newest, IsNewest
<1>4. \A c \in Copies : copy[c].state # "running"
  BY <1>1 DEF Ran, St
<1>5. \A c \in Copies : c # d => copy'[c].state \notin {"running", "rebooting"}
  BY <1>1, <1>4 DEF Ran, St
<1>6. Ran'
  <2>1. (\A c \in ran : St(c) \notin {"none", "part", "paused"})'
    BY <1>1, <1>2 DEF Ran, St
  <2>2. (\A c, e \in Copies : c < e /\ St(e) # "none" => St(c) # "none")'
    <3>1. SUFFICES ASSUME NEW c \in Copies, NEW e \in Copies, c < e, St(e)' # "none", c # d PROVE St(c) # "none"
      BY DEF St
    <3>2. CASE e # d \/ St(d) # "none"
      <4>1. St(e) # "none"
        BY <3>1, <3>2 DEF St
      <4> QED
        BY <1>1, <3>1, <4>1 DEF Ran
    <3>3. CASE e = d /\ d \in Fresh
      BY <3>1, <3>3, FreshIsNewer
    <3> QED
      BY <3>2, <3>3
  <2>3. (\A c \in Copies : St(c) \in {"running", "rebooting"} => c = Newest)'
    BY <1>3, <1>5 DEF St
  <2> QED
    BY <1>1, <1>3, <2>1, <2>2, <2>3 DEF Ran
<1>7. Running = {} /\ Running' = {d}
  BY <1>4, <1>5 DEF Running
<1> QED
  BY <1>2, <1>3, <1>6, <1>7

\* The receiver of migration r starts its copy.
LEMMA UnpauseKeeps ==
  ASSUME MigrateInv, NEW r \in Rounds, Unpause(r), ~UNCHANGED copy
  PROVE  MigrateInv' /\ Running = {} /\ Running' = {Newest'} /\ Newest' \in Int /\ Newest < Newest'
<1> DEFINE d == ses[r].dst
           s == ses[r].src
<1>1. /\ ses[r].rcv = "unpause" /\ UNCHANGED <<toR, toS>> /\ copy[d].state = "paused"
      /\ copy' = [copy EXCEPT ![d].state = "running"] /\ ran' = ran \cup {d} /\ Rcv(r, "report")
  BY DEF Unpause, pipes
<1>2. Domains /\ Ran /\ Places(r) /\ Going(r) /\ Has(r)
  BY <1>1 DEF MigrateInv, Going, Has
<1>3. /\ ses[r].snd \in {"report", "destroy", "end"} /\ ~Denied(r) /\ d \notin ran /\ d \in Copies /\ s \in Copies /\ s < d
      /\ s = Newest /\ St(s) \in {"suspended", "gone"}
  <2>1. ses[r].snd \in {"report", "destroy", "end"} /\ ~Denied(r) /\ d \notin ran
    BY <1>1, <1>2 DEF Places, Waits, Told, Started
  <2>2. d \in Copies /\ s \in Copies /\ s < d
    BY <1>1, <1>2, <2>1 DEF Places, Target, Begun, Copies
  <2>3. s = Newest /\ St(s) \in {"suspended", "gone"}
    BY <1>2, <2>1 DEF MigrateInv, Holds
  <2> QED
    BY <2>1, <2>2, <2>3
<1>4. Moves(r, "report", ses[r].rc)
  BY <1>1, <1>2, Moved
<1>5. Shape' /\ copy'[d].state = "running" /\ \A c \in Copies \ {d} : copy'[c] = copy[c]
  BY <1>1, <1>2, <1>3, PutState
<1>6. Domains'
  <2>1. (\A q \in Rounds : DOMAIN ses[q] = {"snd", "rcv", "src", "dst", "to", "rc"} /\ ses[q].rc \in BOOLEAN)'
    BY <1>2, <1>4 DEF Domains, Moves
  <2> QED
    BY <1>1, <1>2, <1>4, <1>5, <2>1 DEF Domains, Shape, Moves
<1>7. Newest' = d /\ Ran' /\ Running = {} /\ Running' = {d}
  <2>1. Newest < d /\ copy[Newest].state # "running" /\ copy'[Newest].state \notin {"running", "rebooting"} /\ St(d) # "none"
    BY <1>1, <1>3, <1>5 DEF St, Copies
  <2> QED
    BY <1>1, <1>3, <1>5, <2>1, HandsOver
<1>8. \A q \in Rounds : ses'[q].src = ses[q].src /\ ses'[q].dst = ses[q].dst
  BY <1>4 DEF Moves
<1>9. ASSUME NEW q \in Rounds
      PROVE  (Has(q)' => Has(q)) /\ (Going(q)' => Going(q)) /\ (Denied(q)' <=> Denied(q))
  <2>1. CASE q = r
    BY <1>1, <1>3, <1>4, <2>1 DEF Has, Going, Denied, Moves
  <2>2. CASE q # r
    BY <1>1, <1>4, <2>2 DEF Has, Going, Denied, Moves
  <2> QED
    BY <2>1, <2>2
<1>10. \A q \in Rounds : q # r => ses[q].dst # d
  BY <1>3 DEF MigrateInv, Alone, Copies
<1>11. ASSUME NEW q \in Rounds PROVE Places(q)'
  <2>1. Places(q)
    BY DEF MigrateInv
  <2>2. \A c \in Copies : St(c) # "none" => St(c)' # "none"
    BY <1>5 DEF St
  <2>3. CASE q = r
    <3>1. Begun(r)' /\ Target(r)'
      BY <1>1, <1>2, <1>4, <2>2 DEF Places, Begun, Target, Copies, Moves
    <3>2. Waits(r)' /\ Told(r)'
      BY <1>1, <1>3, <1>4, <1>9 DEF Waits, Told, Moves
    <3>3. ~ses[r].rc
      BY <1>1, <1>2 DEF Places, Target
    <3>4. Started(r)'
      BY <1>1, <1>3, <1>4, <1>9, <3>3 DEF Started, Moves
    <3> QED
      BY <2>3, <3>1, <3>2, <3>4 DEF Places
  <2>4. CASE q # r
    <3>1. Begun(q)' /\ Target(q)'
      BY <1>1, <1>4, <2>1, <2>2, <2>4 DEF Places, Begun, Target, Copies, Moves
    <3>2. Waits(q)' /\ Told(q)' /\ Started(q)'
      BY <1>1, <1>4, <1>9, <1>10, <2>1, <2>4 DEF Places, Waits, Told, Started, Moves
    <3> QED
      BY <3>1, <3>2 DEF Places
  <2> QED
    BY <2>3, <2>4
<1>12. ASSUME NEW q \in Rounds PROVE Holds(q)'
  <2>1. CASE q = r
    BY <1>1, <1>3, <1>5, <1>8, <2>1 DEF Holds, St
  <2>2. CASE q # r
    <3>1. SUFFICES ASSUME Has(q) PROVE Holds(q)'
      BY <1>9 DEF Holds
    <3>2. ses[q].src \in Copies /\ Holds(q) /\ Alone(q, r)
      BY <2>2, <3>1 DEF MigrateInv, Places, Begun, Has, Held, Going, Says
    <3>3. St(ses[q].src) \in {"suspended", "gone"} /\ ses[q].dst \in ran
      BY <1>2, <1>3, <3>1, <3>2 DEF Alone, Holds
    <3> QED
      BY <1>1, <1>5, <1>8, <3>2, <3>3 DEF Holds, St
  <2> QED
    BY <2>1, <2>2
<1>13. ASSUME NEW q \in Rounds, NEW p \in Rounds, q # p PROVE Alone(q, p)'
  <2>1. Alone(q, p)
    BY <1>13 DEF MigrateInv
  <2> QED
    BY <1>8, <1>9, <2>1 DEF Alone
<1> QED
  BY <1>3, <1>6, <1>7, <1>11, <1>12, <1>13 DEF MigrateInv, Copies

\* The daemon makes the domain again that is to be started again.
LEMMA RestartKeeps ==
  ASSUME MigrateInv, NEW c \in Copies, DaemonRestarts(c), ~UNCHANGED ran
  PROVE  MigrateInv' /\ Running = {} /\ Running' = {Newest'} /\ Newest' \in Int /\ Newest < Newest'
<1>1. copy[c].state = "rebooting" /\ UNCHANGED <<ses, toR, toS>> /\ Domains /\ Ran
  BY DEF DaemonRestarts, pipes, MigrateInv
<1>2. PICK d \in Fresh :
        /\ copy' = [Gone(c) EXCEPT ![d] = [NoCopy EXCEPT !.host = copy[c].host, !.state = "running"]]
        /\ ran' = ran \cup {d}
  BY DEF DaemonRestarts
<1>3. c = Newest /\ St(c) = "rebooting"
  BY <1>1 DEF Ran, St
<1>4. d \in Copies /\ St(d) = "none" /\ d \notin ran /\ c # d /\ c < d
  BY <1>3, FreshIsNewer
<1>5. /\ DOMAIN copy' = Copies /\ \A e \in Copies : DOMAIN copy'[e] = {"host", "name", "state", "restored"}
      /\ copy'[d].state = "running" /\ copy'[c].state = "gone"
      /\ \A e \in Copies \ {c, d} : copy'[e] = copy[e]
  BY <1>1, <1>2, <1>4 DEF Domains, Gone, NoCopy
<1>6. Domains'
  BY <1>1, <1>5 DEF Domains
<1>7. Newest' = d /\ Ran' /\ Running = {} /\ Running' = {d}
  <2>1. \A e \in Copies \ {d} : copy'[e].state = copy[e].state \/ (copy[e].state # "none" /\ copy'[e].state = "gone")
    BY <1>1, <1>5
  <2>2. Newest < d /\ copy[Newest].state # "running" /\ copy'[Newest].state \notin {"running", "rebooting"}
    BY <1>1, <1>3, <1>4, <1>5
  <2> QED
    BY <1>2, <1>4, <1>5, <2>1, <2>2, HandsOver
<1>8. ASSUME NEW q \in Rounds PROVE ses[q].dst # d
  <2>1. Places(q)
    BY DEF MigrateInv
  <2> QED
    BY <1>4, <2>1 DEF Places, Target, Copies
<1>9. ASSUME NEW q \in Rounds
      PROVE  (Has(q)' <=> Has(q)) /\ (Going(q)' <=> Going(q)) /\ (Denied(q)' <=> Denied(q))
  BY <1>1 DEF Has, Going, Denied
<1>10. ASSUME NEW q \in Rounds PROVE Places(q)'
  <2>1. Places(q)
    BY DEF MigrateInv
  <2>2. \A e \in Copies : St(e) # "none" => St(e)' # "none"
    BY <1>1, <1>5 DEF St
  <2>3. Begun(q)' /\ Target(q)'
    BY <1>1, <2>1, <2>2 DEF Places, Begun, Target, Copies
  <2>4. Waits(q)' /\ Told(q)' /\ Started(q)'
    BY <1>1, <1>2, <1>8, <1>9, <2>1 DEF Places, Waits, Told, Started
  <2> QED
    BY <2>3, <2>4 DEF Places
<1>11. ASSUME NEW q \in Rounds PROVE Holds(q)'
  <2>1. SUFFICES ASSUME Has(q) PROVE Holds(q)'
    BY <1>9 DEF Holds
  <2>2. ses[q].src \in Copies /\ Holds(q)
    BY <2>1 DEF MigrateInv, Places, Begun, Has, Held, Going, Says
  <2>3. St(ses[q].src) \in {"suspended", "gone"} /\ (ses[q].dst \notin ran => ses[q].src = Newest)
    BY <2>1, <2>2 DEF Holds
  <2>4. ses[q].src # c /\ ses[q].src # d /\ ses[q].dst \in ran
    BY <1>3, <1>4, <2>3
  <2> QED
    BY <1>1, <1>2, <1>5, <2>2, <2>3, <2>4 DEF Holds, St
<1>12. ASSUME NEW q \in Rounds, NEW p \in Rounds, q # p PROVE Alone(q, p)'
  <2>1. Alone(q, p)
    BY <1>12 DEF MigrateInv
  <2> QED
    BY <1>1, <1>9, <2>1 DEF Alone
<1> QED
  BY <1>3, <1>4, <1>6, <1>7, <1>10, <1>11, <1>12 DEF MigrateInv, Copies

\* The daemons, the guests, the users and other domains.
LEMMA OthersKeep ==
  ASSUME MigrateInv,
         \/ \E c \in Copies : Daemon(c) /\ UNCHANGED ran
         \/ GuestStops \/ UserDestroys \/ OtherDomain
  PROVE  MigrateInv' /\ Quiet
<1>1. UNCHANGED <<ses, toR, toS, ran>> /\ Domains
  BY DEF Daemon, DaemonLeaves, DaemonReaps, DaemonRestarts, GuestStops, UserDestroys, OtherDomain, pipes, MigrateInv
<1>2. UNCHANGED copy => Kept
  BY <1>1, KeptSame
<1>3. \A c \in Copies : St(c) # "none" /\ copy' = Gone(c) => Kept
  BY <1>1, KeptGone
<1>4. Kept
  <2>1. CASE \E c \in Copies : Daemon(c) /\ UNCHANGED ran
    <3>1. PICK c \in Copies : Daemon(c) /\ UNCHANGED ran
      BY <2>1
    <3>2. CASE DaemonLeaves(c)
      BY <1>2, <3>2 DEF DaemonLeaves
    <3>3. CASE DaemonReaps(c)
      BY <1>3, <3>3 DEF DaemonReaps, St
    <3>4. CASE DaemonRestarts(c)
      <4>1. \A d \in Fresh : d \notin ran
        BY FreshIsNewer
      <4>2. copy' = Gone(c) /\ St(c) = "rebooting"
        BY <3>1, <3>4, <4>1 DEF DaemonRestarts, St
      <4> QED
        BY <1>3, <4>2
    <3> QED
      BY <3>1, <3>2, <3>3, <3>4 DEF Daemon
  <2>2. CASE GuestStops
    <3>1. PICK c \in Copies, s \in {"off", "rebooting"} : copy[c].state = "running" /\ copy' = [copy EXCEPT ![c].state = s]
      BY <2>2 DEF GuestStops
    <3>2. Shape' /\ copy'[c].state = s /\ \A d \in Copies \ {c} : copy'[d] = copy[d]
      BY <1>1, <3>1, PutState
    <3> QED
      BY <3>1, <3>2 DEF Kept, Changes
  <2>3. CASE UserDestroys
    BY <1>3, <2>3, AliveIs DEF UserDestroys
  <2>4. CASE OtherDomain
    BY <1>2, <2>4 DEF OtherDomain
  <2> QED
    BY <2>1, <2>2, <2>3, <2>4
<1>5. Domains' /\ 0 \notin Rounds
  BY <1>1, <1>4 DEF Kept, Shape, Domains, Rounds
<1> QED
  BY <1>1, <1>4, <1>5, SessionStep

(***************************************************************************)
(* The theorems.                                                           *)
(***************************************************************************)
\* At first one copy runs, and no migration goes on.
LEMMA InitInv == Init => MigrateInv /\ Running = {1} /\ Newest = 1
<1> SUFFICES ASSUME Init PROVE MigrateInv /\ Running = {1} /\ Newest = 1
  OBVIOUS
<1>1. 1 \in Copies /\ 0 \notin Copies
  BY MigrateAssumption DEF Copies
<1>2. /\ DOMAIN copy = Copies /\ \A c \in Copies : DOMAIN copy[c] = {"host", "name", "state", "restored"}
      /\ copy[1].state = "running" /\ \A c \in Copies : c # 1 => copy[c].state = "none"
  BY <1>1 DEF Init, NoCopy
<1>3. /\ DOMAIN ses = Rounds /\ toR = [r \in Rounds |-> <<>>] /\ toS = [r \in Rounds |-> <<>>]
      /\ \A r \in Rounds : /\ DOMAIN ses[r] = {"snd", "rcv", "src", "dst", "to", "rc"} /\ ses[r].rc = FALSE
                           /\ ses[r].snd = "off" /\ ses[r].rcv = "off" /\ ses[r].dst = 0
  BY DEF Init, NoRound
<1>4. Domains
  BY <1>2, <1>3, EmptySeq DEF Domains
<1>5. ran = {1} /\ Newest = 1
  <2>1. ran = {1}
    BY DEF Init
  <2> QED
    BY <2>1, NewestIs DEF Newest
<1>6. Ran
  BY <1>1, <1>2, <1>5 DEF Ran, IsNewest, St, Copies
<1>7. ASSUME NEW r \in Rounds PROVE Places(r) /\ ~Has(r) /\ ses[r].dst = 0
  <2>1. \A x : ~Says(toR[r], x) /\ ~Says(toS[r], x)
    BY <1>3 DEF Says
  <2>2. ~Has(r) /\ ~Going(r) /\ ~Denied(r)
    BY <1>3, <2>1 DEF Has, Held, Going, Denied
  <2> QED
    BY <1>1, <1>3, <1>5, <2>2 DEF Places, Begun, Target, Waits, Told, Started
<1>8. Running = {1}
  BY <1>1, <1>2 DEF Running
<1> QED
  BY <1>4, <1>5, <1>6, <1>7, <1>8 DEF MigrateInv, Holds, Alone

\* A copy starts only where none runs, and only one that is newer than all that have run
\* or the newest that has.
Starts ==
  /\ Running = {} /\ Running' = {Newest'} /\ Newest' \in Int
  /\ Newest' = Newest \/ Newest < Newest'

\* A step keeps the invariant, and starts a copy only as Starts says.
LEMMA NextInv ==
  ASSUME MigrateInv, [Next]_vars
  PROVE  MigrateInv' /\ (Quiet \/ Starts)
<1>1. Newest \in Int
  BY DEF MigrateInv, Ran, IsNewest, Copies
<1>2. CASE UNCHANGED vars
  <2>1. Domains /\ UNCHANGED <<copy, ses, toR, toS, ran>>
    BY <1>2 DEF vars, MigrateInv
  <2>2. Kept /\ Domains' /\ 0 \notin Rounds
    BY <2>1, KeptSame DEF Domains, Rounds
  <2> QED
    BY <2>1, <2>2, SessionStep
<1>3. ASSUME NEW r \in Rounds,
             Sender(r) \/ Receiver(r) \/ Migrate(r) \/ Breaks(r) \/ SenderKilled(r) \/ ReceiverKilled(r)
      PROVE  MigrateInv' /\ (Quiet \/ Starts)
  <2>1. CASE SuspendDomain(r)
    <3>1. Running' \subseteq Running /\ UNCHANGED ran
      BY <2>1, SuspendKeeps DEF SuspendDomain
    <3> QED
      BY <2>1, <3>1, SuspendKeeps DEF Quiet
  <2>2. CASE Resume(r) /\ ~UNCHANGED copy
    BY <1>1, <2>2, ResumeKeeps DEF Starts
  <2>3. CASE Resume(r) /\ UNCHANGED copy
    <3>1. /\ ses[r].snd = "resume" /\ Snd(r, "end") /\ UNCHANGED <<ran, toR, toS>> /\ Domains
      BY <2>3 DEF Resume, CallsLast, pipes, MigrateInv
    <3>2. Kept /\ PipeR(r, {}) /\ PipeS(r, {})
      BY <2>3, <3>1, KeptSame, StillPipes
    <3> QED
      BY <3>1, <3>2, SenderStep DEF Held
  <2>4. CASE MakeIncoming(r) /\ ~UNCHANGED copy
    BY <2>4, MakeKeeps
  <2>5. CASE Unpause(r) /\ ~UNCHANGED copy
    BY <2>5, UnpauseKeeps DEF Starts
  <2>6. CASE Migrate(r)
    BY <2>6, MigrateKeeps
  <2>7. CASE Breaks(r)
    BY <2>7, BreaksKeeps
  <2>8. CASE \/ SendConfig(r) \/ SuspendTimesOut(r) \/ AwaitReady(r) \/ RenameAway(r) \/ SayGo(r) \/ AwaitReport(r)
             \/ AwaitPermission(r) \/ RenameBack(r) \/ DestroySource(r) \/ SenderKilled(r)
    BY <2>8, SenderMoves
  <2>9. CASE \/ SendBanner(r) \/ ReceiveConfig(r) \/ (MakeIncoming(r) /\ UNCHANGED copy) \/ RestoreImage(r)
             \/ SayReady(r) \/ AwaitGo(r) \/ RenameIncoming(r) \/ (Unpause(r) /\ UNCHANGED copy)
             \/ Report(r) \/ DestroyIncoming(r) \/ Grant(r) \/ ReceiverKilled(r)
    BY <2>9, ReceiverMoves
  <2> QED
    BY <1>3, <2>1, <2>2, <2>3, <2>4, <2>5, <2>6, <2>7, <2>8, <2>9 DEF Sender, Receiver
<1>4. ASSUME NEW c \in Copies, Daemon(c)
      PROVE  MigrateInv' /\ (Quiet \/ Starts)
  <2>1. CASE UNCHANGED ran
    BY <1>4, <2>1, OthersKeep
  <2>2. CASE ~UNCHANGED ran
    <3>1. DaemonRestarts(c)
      BY <1>4, <2>2 DEF Daemon, DaemonLeaves, DaemonReaps
    <3> QED
      BY <2>2, <3>1, RestartKeeps DEF Starts
  <2> QED
    BY <2>1, <2>2
<1>5. CASE GuestStops \/ UserDestroys \/ OtherDomain
  BY <1>5, OthersKeep
<1> QED
  BY <1>2, <1>3, <1>4, <1>5 DEF Next

\* In every reachable state only the newest copy runs or is to be started again; a
\* migration that has the guest has it alone, and the receiver may start its copy only
\* once the sender has said "go", and no more once it has said that it failed.
THEOREM MigrateInvariant == Spec => []MigrateInv
<1>1. Init => MigrateInv
  BY InitInv
<1>2. MigrateInv /\ [Next]_vars => MigrateInv'
  BY NextInv
<1> QED
  BY <1>1, <1>2, PTL DEF Spec

\* xl migrate and xl migrate-receive, killed and cut off at any moment, run the guest as
\* one copy at a time, and no older copy again once a newer one has run.
THEOREM MigrateIsOneGuest == Spec => ImplementsOneGuest
<1> DEFINE runs == IF Running \subseteq {Newest} THEN Cardinality(Running) ELSE 2
<1>1. Init => Place!Init
  <2> SUFFICES ASSUME Init PROVE Newest = 1 /\ runs = 1
    BY DEF Place!Init
  <2>1. Running = {1} /\ Newest = 1
    BY InitInv
  <2> QED
    BY <2>1, FS_Singleton
<1>2. MigrateInv /\ [Next]_vars => [Place!Next]_<<Newest, runs>>
  <2> SUFFICES ASSUME MigrateInv, [Next]_vars
               PROVE  \/ Newest' = Newest /\ runs' = runs
                      \/ runs = 1 /\ runs' = 0 /\ Newest' = Newest
                      \/ runs = 0 /\ runs' = 1 /\ Newest' = Newest
                      \/ runs = 0 /\ runs' = 1 /\ Newest' > Newest
    BY DEF Place!Next, Place!Stops, Place!Resumes, Place!HandsOver
  <2>1. Quiet \/ Starts
    BY NextInv
  <2>2. Running \subseteq {Newest} /\ Newest \in Int
    <3>1. Ran
      BY DEF MigrateInv
    <3> HIDE DEF runs
    <3>2. \A c \in Running : c = Newest
      BY <3>1 DEF Ran, Running, St
    <3>3. Newest \in Int
      BY <3>1 DEF Ran, IsNewest, Copies
    <3> QED
      BY <3>2, <3>3
  <2>3. Cardinality({}) = 0 /\ Cardinality({Newest}) = 1 /\ Cardinality({Newest'}) = 1
    BY FS_EmptySet, FS_Singleton
  <2>4. CASE Quiet
    <3>1. Newest' = Newest /\ Running' \subseteq Running
      BY <2>4 DEF Quiet, Newest
    <3>2. Running' = Running \/ (Running = {Newest} /\ Running' = {})
      BY <2>2, <3>1
    <3> QED
      BY <2>2, <2>3, <3>1, <3>2
  <2>5. CASE Starts
    <3>1. runs = 0 /\ runs' = 1
      BY <2>3, <2>5 DEF Starts
    <3> QED
      BY <2>2, <2>5, <3>1 DEF Starts
  <2> QED
    BY <2>1, <2>4, <2>5
<1> QED
  BY <1>1, <1>2, MigrateInvariant, PTL DEF Spec, ImplementsOneGuest, Place!Spec
=============================================================================
