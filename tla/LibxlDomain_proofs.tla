-------------------------- MODULE LibxlDomain_proofs --------------------------
(***************************************************************************)
(* Proofs about LibxlDomain: the driver's object and the Xen domain it was *)
(* started for stay tied to each other, the references on the object are   *)
(* exact, and a save destroys no guest but its own.                        *)
(***************************************************************************)
EXTENDS LibxlDomain, FiniteSetTheorems, TLAPS

Fields == {"listed", "refs", "persistent", "config", "id", "state", "eventHdl", "waiter",
           "handles", "removed", "watching", "readable", "file", "xen",
           "offList", "forgotten", "unwatched"}

Shape(d) ==
  /\ DOMAIN d = Fields /\ DOMAIN d.xen = DomIds
  /\ d.refs \in Int /\ d.removed \in Nat /\ d.handles \in SUBSET DomIds
  /\ d.id \in 0 .. MaxDomid /\ d.eventHdl \in 0 .. MaxDomid

Gone(d) == \A i \in DomIds : ~Exists(d, i)

\* The driver's list holds the object, or is excused.
Found(d) == d.listed \/ d.offList

\* An object that a start could be made for.
Held(d) == Found(d) \/ (Active(d) /\ ~d.persistent)

\* A handle is in the event loop only with the xenstore watch, and with a dWaiter there
\* is no handle but priv->eventHdl: otherwise a start, which gives up when the watch is
\* there already, could leave a guest behind whose handle is removed by the first event.
Tied(d) ==
  /\ \A i, j \in DomIds : Exists(d, i) /\ Exists(d, j) => i = j
  /\ \A i \in DomIds : Exists(d, i) => i \in d.forgotten \/ (d.id = i /\ Found(d))
  /\ Exists(d, d.id) /\ d.xen[d.id] # "suspended" =>
       \/ d.watching /\ d.waiter /\ d.eventHdl \in d.handles
       \/ d.id \in d.unwatched \cup d.forgotten
  /\ Exists(d, d.id) /\ d.id \in d.forgotten => d.eventHdl = 0
  /\ d.waiter => d.handles \subseteq {d.eventHdl}
  /\ ~d.watching => d.handles = {}

Good(d) == Shape(d) /\ Tied(d)

\* References that are not those of the list, of a handle, or of a removed handle.
Others(d) == d.refs - (IF d.listed THEN 1 ELSE 0) - Cardinality(d.handles) - d.removed

\* What Tied is about.
Alike(d, e) ==
  /\ e.xen = d.xen /\ e.id = d.id /\ e.eventHdl = d.eventHdl
  /\ e.waiter = d.waiter /\ e.handles = d.handles /\ e.watching = d.watching
  /\ Found(e) = Found(d) /\ e.forgotten = d.forgotten /\ e.unwatched = d.unwatched

LEMMA Bound == MaxDomid \in Nat /\ 0 \in 0 .. MaxDomid /\ 0 \notin DomIds /\ 1 \in DomIds
BY DomainAssumption DEF DomIds

LEMMA AlikeGood ==
  ASSUME NEW d, NEW e, Good(d), Alike(d, e), DOMAIN e = Fields, e.refs \in Int, e.removed \in Nat
  PROVE  Good(e)
BY DEF Good, Shape, Tied, Alike, Exists

LEMMA HandleCount ==
  ASSUME NEW S \in SUBSET DomIds
  PROVE  IsFiniteSet(S) /\ Cardinality(S) \in Nat
<1>1. IsFiniteSet(DomIds)
  BY Bound, FS_Interval DEF DomIds
<1> QED
  BY <1>1, FS_Subset, FS_CardinalityType

LEMMA OthersInt ==
  ASSUME NEW d, Shape(d)
  PROVE  Others(d) \in Int
BY HandleCount DEF Shape, Others

LEMMA RefGood ==
  ASSUME NEW d, Good(d)
  PROVE  /\ Good(Ref(d)) /\ Others(Ref(d)) = Others(d) + 1 /\ Ref(d).xen = d.xen
         /\ Good(Unref(d)) /\ Others(Unref(d)) = Others(d) - 1 /\ Unref(d).xen = d.xen
         /\ Held(Ref(d)) = Held(d) /\ Held(Unref(d)) = Held(d)
<1>1. Shape(d) /\ Cardinality(d.handles) \in Nat
  BY HandleCount DEF Good, Shape
<1>2. Alike(d, Ref(d)) /\ DOMAIN Ref(d) = Fields /\ Ref(d).refs = d.refs + 1
      /\ Ref(d).removed = d.removed /\ Ref(d).listed = d.listed /\ Held(Ref(d)) = Held(d)
  BY <1>1 DEF Shape, Alike, Ref, Fields, Found, Held, Active
<1>3. Alike(d, Unref(d)) /\ DOMAIN Unref(d) = Fields /\ Unref(d).refs = d.refs - 1
      /\ Unref(d).removed = d.removed /\ Unref(d).listed = d.listed /\ Held(Unref(d)) = Held(d)
  BY <1>1 DEF Shape, Alike, Unref, Fields, Found, Held, Active
<1>4. Good(Ref(d)) /\ Good(Unref(d))
  BY <1>1, <1>2, <1>3, AlikeGood DEF Shape
<1>5. Others(Ref(d)) = Others(d) + 1 /\ Others(Unref(d)) = Others(d) - 1
  BY <1>1, <1>2, <1>3 DEF Others, Alike, Shape
<1> QED
  BY <1>2, <1>3, <1>4, <1>5 DEF Alike

LEMMA RemoveInactiveKeeps ==
  ASSUME NEW d, Shape(d)
  PROVE  LET e == RemoveInactive(d) IN
         /\ Shape(e) /\ Others(e) = Others(d) /\ e.listed \in {d.listed, FALSE}
         /\ \A f \in Fields \ {"listed", "refs"} : e[f] = d[f]
<1> DEFINE e == [Unref(d) EXCEPT !.listed = FALSE]
<1>1. CASE d.listed
  <2>1. /\ DOMAIN e = Fields /\ e.refs = d.refs - 1 /\ e.listed = FALSE
        /\ \A f \in Fields \ {"listed", "refs"} : e[f] = d[f]
    BY DEF Shape, Fields, Unref
  <2>2. Others(e) = Others(d)
    BY <1>1, <2>1, HandleCount DEF Others, Shape, Fields
  <2>3. Shape(e)
    BY <2>1 DEF Shape, Fields
  <2>4. RemoveInactive(d) = e
    BY <1>1 DEF RemoveInactive
  <2> HIDE DEF e
  <2> QED
    BY <2>1, <2>2, <2>3, <2>4
<1>2. CASE ~d.listed
  BY <1>2 DEF RemoveInactive
<1> QED
  BY <1>1, <1>2

\* An object may go off the list when it has no domain, or when that is excused.
LEMMA OffListGood ==
  ASSUME NEW d, Good(d), NEW e, Shape(e), Gone(d) \/ e.offList,
         \A f \in Fields \ {"listed", "refs", "offList", "persistent", "file", "config"} : e[f] = d[f]
  PROVE  Good(e)
<1>1. /\ e.xen = d.xen /\ e.id = d.id /\ e.eventHdl = d.eventHdl /\ e.waiter = d.waiter
      /\ e.handles = d.handles /\ e.watching = d.watching /\ e.forgotten = d.forgotten
      /\ e.unwatched = d.unwatched
  BY DEF Fields
<1>2. Tied(e)
  BY <1>1 DEF Good, Tied, Exists, Found, Gone
<1> QED
  BY <1>2 DEF Good

LEMMA RemoveInactiveGood ==
  ASSUME NEW d, Good(d), Gone(d)
  PROVE  /\ Good(RemoveInactive(d)) /\ Others(RemoveInactive(d)) = Others(d)
         /\ RemoveInactive(d).xen = d.xen
         /\ ~d.persistent /\ Active(d) => Held(RemoveInactive(d))
<1> DEFINE e == RemoveInactive(d)
<1>1. /\ Shape(e) /\ Others(e) = Others(d)
      /\ \A f \in Fields \ {"listed", "refs"} : e[f] = d[f]
  BY RemoveInactiveKeeps DEF Good
<1> HIDE DEF e
<1>2. Good(e)
  BY <1>1, OffListGood
<1>3. e.xen = d.xen /\ e.persistent = d.persistent /\ e.id = d.id
  BY <1>1 DEF Fields
<1> QED
  BY <1>1, <1>2, <1>3 DEF e, Held, Active

\* However many references there are, one goes, beside that of the list.
LEMMA EndAndRemoveGood ==
  ASSUME NEW d, Good(d), Gone(d)
  PROVE  /\ Good(EndAndRemove(d)) /\ Others(EndAndRemove(d)) = Others(d) - 1
         /\ EndAndRemove(d).xen = d.xen
         /\ ~d.persistent /\ Active(d) => Held(EndAndRemove(d))
<1>1. /\ Good(Unref(d)) /\ Others(Unref(d)) = Others(d) - 1 /\ Unref(d).xen = d.xen
      /\ Unref(d).persistent = d.persistent /\ Unref(d).id = d.id
  BY RefGood DEF Unref, Good, Shape, Fields
<1>2. Gone(Unref(d))
  BY <1>1 DEF Gone, Exists
<1> QED
  BY <1>1, <1>2, RemoveInactiveGood DEF EndAndRemove, Held, Active

\* A removed handle keeps its reference until its free callback has run.
LEMMA RemoveHandleKeeps ==
  ASSUME NEW d, Shape(d), NEW h
  PROVE  LET e == RemoveHandle(d, h) IN
         /\ Shape(e) /\ Others(e) = Others(d) /\ e.handles = d.handles \ {h}
         /\ e.xen = d.xen /\ e.id = d.id /\ e.state = d.state /\ e.eventHdl = d.eventHdl
         /\ e.waiter = d.waiter /\ e.watching = d.watching /\ e.persistent = d.persistent
         /\ e.listed = d.listed /\ e.offList = d.offList /\ e.forgotten = d.forgotten
         /\ e.unwatched = d.unwatched
<1> DEFINE e == [d EXCEPT !.handles = @ \ {h}, !.removed = @ + 1]
<1>1. CASE h \in d.handles
  <2>1. /\ DOMAIN e = Fields /\ e.handles = d.handles \ {h} /\ e.removed = d.removed + 1
        /\ \A f \in Fields \ {"handles", "removed"} : e[f] = d[f]
    BY DEF Shape, Fields
  <2>2. Cardinality(e.handles) = Cardinality(d.handles) - 1 /\ Cardinality(d.handles) \in Nat
    BY <1>1, <2>1, HandleCount, FS_RemoveElement DEF Shape
  <2>3. Others(e) = Others(d)
    BY <2>1, <2>2 DEF Others, Shape, Fields
  <2>4. RemoveHandle(d, h) = e
    BY <1>1 DEF RemoveHandle
  <2>5. Shape(e)
    BY <2>1 DEF Shape, Fields
  <2> HIDE DEF e
  <2> QED
    BY <2>1, <2>3, <2>4, <2>5 DEF Fields
<1>2. CASE h \notin d.handles
  <2>1. RemoveHandle(d, h) = d
    BY <1>2 DEF RemoveHandle
  <2> QED
    BY <1>2, <2>1
<1> QED
  BY <1>1, <1>2

\* With no domain left, what libxlVmCleanup leaves of the handles depends on dWaiter.
LEMMA CleanupGood ==
  ASSUME NEW d, Shape(d), Gone(d), Found(d) \/ (~d.persistent /\ Active(d)),
         d.waiter => d.handles \subseteq {d.eventHdl}, ~d.watching => d.handles = {}
  PROVE  LET e == Cleanup(d) IN
         /\ Good(e) /\ Others(e) = Others(d) /\ e.xen = d.xen /\ Held(e)
         /\ e.listed = d.listed /\ e.offList = d.offList /\ e.persistent = d.persistent
         /\ e.id = (IF d.persistent THEN 0 ELSE d.id)
<1> DEFINE r == RemoveHandle(d, d.eventHdl)
           e == Cleanup(d)
<1>1. /\ Shape(r) /\ Others(r) = Others(d) /\ r.handles = d.handles \ {d.eventHdl}
      /\ r.xen = d.xen /\ r.id = d.id /\ r.watching = d.watching /\ r.listed = d.listed
      /\ r.offList = d.offList /\ r.persistent = d.persistent
  BY RemoveHandleKeeps
<1>2. /\ DOMAIN e = Fields /\ e.eventHdl = 0 /\ e.waiter = FALSE
      /\ e.watching = (IF d.waiter THEN FALSE ELSE r.watching)
      /\ e.id = (IF d.persistent THEN 0 ELSE r.id)
      /\ e.xen = r.xen /\ e.handles = r.handles /\ e.removed = r.removed
      /\ e.refs = r.refs /\ e.listed = r.listed /\ e.offList = r.offList
      /\ e.persistent = r.persistent
  BY <1>1 DEF Cleanup, Shape, Fields
<1> HIDE DEF r, e
<1>3. Shape(e) /\ Others(e) = Others(d)
  BY <1>1, <1>2, Bound DEF Shape, Others
<1>4. Gone(e) /\ ~Exists(e, e.id)
  BY <1>1, <1>2, <1>3 DEF Gone, Exists
<1>5. Tied(e)
  BY <1>1, <1>2, <1>4 DEF Tied, Gone
<1>6. Held(e)
  BY <1>1, <1>2 DEF Held, Found, Active
<1> QED
  BY <1>1, <1>2, <1>3, <1>5, <1>6 DEF Good, e

LEMMA ReapGood ==
  ASSUME NEW d, Shape(d), Exists(d, d.id), Found(d) \/ ~d.persistent,
         \A i, j \in DomIds : Exists(d, i) /\ Exists(d, j) => i = j,
         d.waiter => d.handles \subseteq {d.eventHdl}, ~d.watching => d.handles = {}
  PROVE  LET r == Reap(d) IN
         /\ Good(r) /\ Others(r) = Others(d) /\ Gone(r) /\ Held(r)
         /\ r.xen = [d.xen EXCEPT ![d.id] = "gone"]
         /\ r.listed = d.listed /\ r.offList = d.offList /\ r.persistent = d.persistent
         /\ r.id = (IF d.persistent THEN 0 ELSE d.id)
<1> DEFINE e == [d EXCEPT !.xen[d.id] = "gone"]
<1>1. /\ DOMAIN e = Fields /\ e.xen = [d.xen EXCEPT ![d.id] = "gone"]
      /\ \A f \in Fields \ {"xen"} : e[f] = d[f]
  BY DEF Shape, Fields
<1>2. Shape(e) /\ Others(e) = Others(d)
  BY <1>1 DEF Shape, Others, Fields
<1>3. /\ d.id \in DomIds /\ Active(d)
      /\ \A i \in DomIds : e.xen[i] = IF i = d.id THEN "gone" ELSE d.xen[i]
  BY <1>1, Bound DEF Shape, Exists, Active
<1>4. Gone(e)
  BY <1>3 DEF Gone, Exists, Existing, Dead
<1>5. Reap(d) = Cleanup(e)
  BY DEF Reap
<1>6. /\ e.waiter = d.waiter /\ e.watching = d.watching /\ e.handles = d.handles
      /\ e.eventHdl = d.eventHdl /\ e.id = d.id /\ e.listed = d.listed
      /\ e.offList = d.offList /\ e.persistent = d.persistent
  BY <1>1 DEF Fields
<1> HIDE DEF e
<1>7. /\ Good(Cleanup(e)) /\ Others(Cleanup(e)) = Others(e) /\ Cleanup(e).xen = e.xen
      /\ Held(Cleanup(e)) /\ Cleanup(e).listed = e.listed /\ Cleanup(e).offList = e.offList
      /\ Cleanup(e).persistent = e.persistent
      /\ Cleanup(e).id = (IF e.persistent THEN 0 ELSE e.id)
  BY <1>2, <1>3, <1>4, <1>6, CleanupGood DEF Found, Active
<1> QED
  BY <1>1, <1>2, <1>4, <1>5, <1>6, <1>7 DEF Gone, Exists

\* The error path of libxlVmStart, with whatever handles and watch there are.
LEMMA StartErrorGood ==
  ASSUME NEW d, Shape(d), Gone(d), NEW n \in DomIds,
         d.waiter => d.handles \subseteq {d.eventHdl}, ~d.watching => d.handles = {}
  PROVE  LET e == StartError(d, n) IN
         /\ Good(e) /\ Others(e) = Others(d) /\ e.listed = d.listed /\ e.offList = d.offList
<1> DEFINE e == StartError(d, n)
<1>1. /\ DOMAIN e = Fields /\ e.xen = [d.xen EXCEPT ![n] = "gone"] /\ e.id = 0
      /\ \A f \in Fields \ {"xen", "id", "state"} : e[f] = d[f]
  BY DEF Shape, Fields, StartError
<1>2. Shape(e) /\ Others(e) = Others(d)
  BY <1>1, Bound DEF Shape, Others, Fields
<1>3. Gone(e) /\ ~Active(e) /\ ~Exists(e, e.id)
  BY <1>1, Bound DEF Gone, Exists, Existing, Dead, Active, Shape
<1>4. /\ e.waiter = d.waiter /\ e.watching = d.watching /\ e.handles = d.handles
      /\ e.eventHdl = d.eventHdl /\ e.listed = d.listed /\ e.offList = d.offList
  BY <1>1 DEF Fields
<1> HIDE DEF e
<1>5. Tied(e)
  BY <1>3, <1>4 DEF Tied, Gone
<1> QED
  BY <1>2, <1>4, <1>5 DEF Good, e

LEMMA CreateDomEventsKeeps ==
  ASSUME NEW d, Shape(d), d.handles = {}, NEW n \in DomIds
  PROVE  LET e == CreateDomEvents(d, n) IN
         /\ Shape(e) /\ Others(e) = Others(d) /\ e.handles = {n} /\ e.eventHdl = n
         /\ e.waiter /\ e.watching /\ e.xen = d.xen /\ e.id = d.id
         /\ e.listed = d.listed /\ e.offList = d.offList
         /\ n \notin e.forgotten /\ d.forgotten \ {n} \subseteq e.forgotten
<1> DEFINE e == CreateDomEvents(d, n)
<1>1. /\ DOMAIN e = Fields /\ e.refs = d.refs + 1 /\ e.eventHdl = n /\ e.handles = {n}
      /\ e.waiter = TRUE /\ e.watching = TRUE /\ e.removed = d.removed /\ e.xen = d.xen
      /\ e.id = d.id /\ e.listed = d.listed /\ e.offList = d.offList
      /\ e.forgotten = d.forgotten \ {n}
  BY DEF Shape, Fields, CreateDomEvents, Ref
<1>2. Cardinality({n}) = 1 /\ Cardinality({}) = 0
  BY FS_Singleton, FS_EmptySet
<1> HIDE DEF e
<1>3. Shape(e)
  BY <1>1 DEF Shape, DomIds
<1>4. Others(e) = Others(d)
  BY <1>1, <1>2 DEF Others, Shape
<1> QED
  BY <1>1, <1>3, <1>4 DEF e

LEMMA DomEventsFailKeeps ==
  ASSUME NEW d, Shape(d), ~d.watching => d.handles = {}, NEW e \in DomEventsFail(d)
  PROVE  /\ Shape(e) /\ Others(e) = Others(d) /\ e.xen = d.xen /\ e.id = d.id
         /\ ~e.waiter /\ e.eventHdl = 0 /\ e.handles = d.handles
         /\ ~e.watching => e.handles = {}
         /\ e.listed = d.listed /\ e.offList = d.offList /\ e.forgotten = d.forgotten
<1>1. PICK w \in {TRUE, d.watching} :
        e = [d EXCEPT !.eventHdl = 0, !.waiter = FALSE, !.watching = w, !.readable = @ \/ w]
  BY DEF DomEventsFail
<1>2. /\ DOMAIN e = Fields /\ e.eventHdl = 0 /\ e.waiter = FALSE /\ e.watching = w
      /\ e.xen = d.xen /\ e.handles = d.handles /\ e.id = d.id /\ e.refs = d.refs
      /\ e.removed = d.removed /\ e.listed = d.listed /\ e.offList = d.offList
      /\ e.forgotten = d.forgotten
  BY <1>1 DEF Shape, Fields
<1>3. Shape(e) /\ Others(e) = Others(d)
  BY <1>2, Bound DEF Shape, Others
<1>4. ~w => d.handles = {}
  OBVIOUS
<1> QED
  BY <1>2, <1>3, <1>4

\* A new domain with its events, running or paused.
LEMMA StartedGood ==
  ASSUME NEW d, Good(d), Gone(d), Found(d), ~d.watching, NEW n \in DomIds,
         NEW s \in {"running", "paused"}
  PROVE  LET m == [d EXCEPT !.id = n, !.xen[n] = "paused"]
             e == [CreateDomEvents(m, n) EXCEPT !.xen[n] = s, !.state = s]
         IN  Good(e) /\ Others(e) = Others(d) /\ e.listed = d.listed /\ e.offList = d.offList
<1> DEFINE m == [d EXCEPT !.id = n, !.xen[n] = "paused"]
           c == CreateDomEvents(m, n)
           e == [c EXCEPT !.xen[n] = s, !.state = s]
<1>1. d.handles = {} /\ Shape(d)
  BY DEF Good, Tied
<1>2. /\ DOMAIN m = Fields /\ m.id = n /\ m.xen = [d.xen EXCEPT ![n] = "paused"]
      /\ \A f \in Fields \ {"id", "xen"} : m[f] = d[f]
  BY <1>1 DEF Shape, Fields
<1> HIDE DEF m
<1>3. /\ Shape(m) /\ m.handles = {} /\ Others(m) = Others(d)
      /\ m.listed = d.listed /\ m.offList = d.offList
  <2>1. /\ m.handles = d.handles /\ m.refs = d.refs /\ m.removed = d.removed
        /\ m.listed = d.listed /\ m.eventHdl = d.eventHdl /\ m.offList = d.offList
    BY <1>2 DEF Fields
  <2>2. n \in 0 .. MaxDomid
    BY DEF DomIds
  <2> QED
    BY <1>1, <1>2, <2>1, <2>2 DEF Shape, Others
<1>4. /\ Shape(c) /\ Others(c) = Others(d) /\ c.handles = {n} /\ c.eventHdl = n
      /\ c.waiter /\ c.watching /\ c.xen = m.xen /\ c.id = n
      /\ c.listed = m.listed /\ c.offList = m.offList /\ n \notin c.forgotten
  BY <1>2, <1>3, CreateDomEventsKeeps
<1> HIDE DEF c
<1>5. /\ DOMAIN e = Fields /\ e.xen = [c.xen EXCEPT ![n] = s] /\ e.state = s
      /\ \A f \in Fields \ {"state", "xen"} : e[f] = c[f]
  BY <1>4 DEF Shape, Fields
<1>6. e.xen[n] = s /\ \A i \in DomIds \ {n} : e.xen[i] = d.xen[i]
  BY <1>1, <1>2, <1>4, <1>5 DEF Shape
<1>7. /\ e.handles = {n} /\ e.eventHdl = n /\ e.waiter /\ e.watching /\ e.id = n
      /\ e.listed = d.listed /\ e.offList = d.offList /\ n \notin e.forgotten
  BY <1>3, <1>4, <1>5 DEF Fields
<1> HIDE DEF e
<1>8. Shape(e) /\ Others(e) = Others(c)
  BY <1>4, <1>5 DEF Shape, Others, Fields
<1>9. Tied(e)
  <2>1. \A i \in DomIds : Exists(e, i) => i = n
    BY <1>6 DEF Gone, Exists
  <2> QED
    BY <1>5, <1>6, <1>7, <2>1 DEF Tied, Found
<1> QED
  BY <1>4, <1>7, <1>8, <1>9 DEF Good, e, c, m

LEMMA StartResultsGood ==
  ASSUME NEW d, Good(d), Gone(d), Found(d), NEW n \in DomIds, NEW e \in StartResults(d, n)
  PROVE  Good(e) /\ Others(e) = Others(d) /\ e.listed = d.listed /\ e.offList = d.offList
<1> DEFINE m == [d EXCEPT !.id = n, !.xen[n] = "paused"]
<1>1. \/ e = StartError(d, n)
      \/ \E x \in DomEventsFail(d) : e = StartError(x, n)
      \/ ~d.watching /\ e = StartError(CreateDomEvents(d, n), n)
      \/ ~d.watching /\ \E s \in {"running", "paused"} :
           e = [CreateDomEvents(m, n) EXCEPT !.xen[n] = s, !.state = s]
  BY DEF StartResults
<1>2. CASE e = StartError(d, n)
  BY <1>2, StartErrorGood DEF Good, Tied
<1>3. CASE \E x \in DomEventsFail(d) : e = StartError(x, n)
  <2>1. PICK x \in DomEventsFail(d) : e = StartError(x, n)
    BY <1>3
  <2>2. /\ Shape(x) /\ Others(x) = Others(d) /\ x.xen = d.xen /\ ~x.waiter
        /\ ~x.watching => x.handles = {}
        /\ x.listed = d.listed /\ x.offList = d.offList
    BY DomEventsFailKeeps DEF Good, Tied
  <2>3. Gone(x)
    BY <2>2 DEF Gone, Exists
  <2> QED
    BY <2>1, <2>2, <2>3, StartErrorGood
<1>4. CASE ~d.watching /\ e = StartError(CreateDomEvents(d, n), n)
  <2> DEFINE c == CreateDomEvents(d, n)
  <2>1. Shape(d) /\ d.handles = {}
    BY <1>4 DEF Good, Tied
  <2>2. /\ Shape(c) /\ Others(c) = Others(d) /\ c.handles = {n} /\ c.eventHdl = n
        /\ c.waiter /\ c.watching /\ c.xen = d.xen /\ c.listed = d.listed /\ c.offList = d.offList
    BY <2>1, CreateDomEventsKeeps
  <2> HIDE DEF c
  <2>3. Gone(c)
    BY <2>2 DEF Gone, Exists
  <2> QED
    BY <1>4, <2>2, <2>3, StartErrorGood DEF c
<1>5. CASE ~d.watching /\ \E s \in {"running", "paused"} :
             e = [CreateDomEvents(m, n) EXCEPT !.xen[n] = s, !.state = s]
  <2>1. PICK s \in {"running", "paused"} :
          e = [CreateDomEvents(m, n) EXCEPT !.xen[n] = s, !.state = s]
    BY <1>5
  <2>2. /\ Good([CreateDomEvents(m, n) EXCEPT !.xen[n] = s, !.state = s])
        /\ Others([CreateDomEvents(m, n) EXCEPT !.xen[n] = s, !.state = s]) = Others(d)
        /\ [CreateDomEvents(m, n) EXCEPT !.xen[n] = s, !.state = s].listed = d.listed
        /\ [CreateDomEvents(m, n) EXCEPT !.xen[n] = s, !.state = s].offList = d.offList
    BY <1>5, StartedGood
  <2> QED
    BY <2>1, <2>2
<1> HIDE DEF m
<1> QED
  BY <1>1, <1>2, <1>3, <1>4, <1>5

\* Neither the managed save file, the definition nor what is unread matters to the ties.
LEMMA FileGood ==
  ASSUME NEW d, Good(d), NEW e, DOMAIN e = Fields,
         \A f \in Fields \ {"file", "config", "persistent", "readable", "state"} : e[f] = d[f]
  PROVE  Good(e) /\ Others(e) = Others(d) /\ e.xen = d.xen /\ Found(e) = Found(d)
<1>1. Alike(d, e) /\ e.refs = d.refs /\ e.removed = d.removed /\ e.listed = d.listed
  BY DEF Alike, Fields, Found
<1> QED
  BY <1>1, AlikeGood DEF Good, Shape, Others, Alike

\* libxlVmStart starts nothing while Xen has a domain of the name, and else one.
LEMMA VmStartGood ==
  ASSUME NEW d, Good(d), Found(d), NEW e \in VmStart(d)
  PROVE  Good(e) /\ Others(e) = Others(d) /\ Found(e) /\ (e.xen = d.xen \/ Gone(d))
<1>1. \/ e = d
      \/ e = [d EXCEPT !.file = "none"]
      \/ Gone(d) /\ \E n \in DomIds : \E s \in StartResults(d, n) : e = [s EXCEPT !.file = "none"]
  BY DEF VmStart, Unused, NameTaken, Gone
<1>2. ASSUME NEW s, Good(s)
      PROVE  /\ Good([s EXCEPT !.file = "none"])
             /\ Others([s EXCEPT !.file = "none"]) = Others(s)
             /\ Found([s EXCEPT !.file = "none"]) = Found(s)
  <2> DEFINE x == [s EXCEPT !.file = "none"]
  <2>1. DOMAIN x = Fields /\ \A f \in Fields \ {"file"} : x[f] = s[f]
    BY <1>2 DEF Good, Shape
  <2> HIDE DEF x
  <2>2. Good(x) /\ Others(x) = Others(s) /\ Found(x) = Found(s)
    BY <1>2, <2>1, FileGood
  <2> QED
    BY <2>2 DEF x
<1>4. [d EXCEPT !.file = "none"].xen = d.xen
  BY DEF Good, Shape, Fields
<1>3. CASE Gone(d) /\ \E n \in DomIds : \E s \in StartResults(d, n) : e = [s EXCEPT !.file = "none"]
  <2>1. PICK n \in DomIds : \E s \in StartResults(d, n) : e = [s EXCEPT !.file = "none"]
    BY <1>3
  <2>3. PICK s \in StartResults(d, n) : e = [s EXCEPT !.file = "none"]
    BY <2>1
  <2>2. Good(s) /\ Others(s) = Others(d) /\ Found(s)
    BY <1>3, StartResultsGood DEF Found
  <2> QED
    BY <1>2, <1>3, <2>2, <2>3
<1> QED
  BY <1>1, <1>2, <1>3, <1>4

(***************************************************************************)
(* The object: ties and references.                                        *)
(***************************************************************************)
Busy == {t \in Threads : pc[t] # "idle"}

LifeInv ==
  /\ DOMAIN pc = Threads /\ DOMAIN op = Threads /\ DOMAIN saved = Threads
  /\ Good(vm)
  /\ dropped \in Nat /\ Others(vm) = Cardinality(Busy) - dropped
  /\ Busy # {} => Held(vm)

LEMMA BusyCount ==
  ASSUME NEW S \in SUBSET Threads
  PROVE  IsFiniteSet(S) /\ Cardinality(S) \in Nat
BY DomainAssumption, FS_Subset, FS_CardinalityType

LEMMA ReturnBusy ==
  ASSUME LifeInv, NEW t \in Threads, pc[t] # "idle", Return(t)
  PROVE  /\ Cardinality(Busy') = Cardinality(Busy) - 1 /\ Busy # {}
         /\ Cardinality(Busy) \in Nat /\ dropped' = dropped
         /\ DOMAIN pc' = Threads /\ DOMAIN op' = Threads /\ DOMAIN saved' = Threads
<1>1. Busy' = Busy \ {t} /\ t \in Busy
  BY DEF LifeInv, Return, Busy
<1>2. IsFiniteSet(Busy) /\ Cardinality(Busy) \in Nat
  BY BusyCount DEF Busy
<1> QED
  BY <1>1, <1>2, FS_RemoveElement DEF LifeInv, Return, aux

\* A call that returns gives its reference back.
LEMMA ReturnLife ==
  ASSUME LifeInv, NEW t \in Threads, pc[t] # "idle", Return(t),
         Good(vm'), Others(vm') = Others(vm) - 1, Held(vm) => Held(vm')
  PROVE  LifeInv'
BY ReturnBusy DEF LifeInv

\* A step within a call, or of nobody's.
LEMMA StayLife ==
  ASSUME LifeInv, Good(vm'), Others(vm') = Others(vm), Held(vm) => Held(vm'),
         UNCHANGED <<op, saved>>, UNCHANGED pc, UNCHANGED dropped
  PROVE  LifeInv'
BY DEF LifeInv, Busy

LEMMA MoveLife ==
  ASSUME LifeInv, NEW t \in Threads, NEW where \in {"granted", "saving", "saved"},
         pc[t] # "idle", pc' = [pc EXCEPT ![t] = where],
         DOMAIN op' = Threads, DOMAIN saved' = Threads, UNCHANGED dropped,
         Good(vm'), Others(vm') = Others(vm), Held(vm) => Held(vm')
  PROVE  LifeInv'
<1>1. Busy' = Busy /\ DOMAIN pc' = Threads
  BY DEF LifeInv, Busy
<1> QED
  BY <1>1 DEF LifeInv

LEMMA CallLife ==
  ASSUME LifeInv, NEW t \in Threads, NEW o, Call(t, o)
  PROVE  LifeInv'
<1>1. Busy' = Busy \cup {t} /\ t \notin Busy
  BY DEF LifeInv, Call, Busy
<1>2. Cardinality(Busy') = Cardinality(Busy) + 1
  BY <1>1, BusyCount, FS_AddElement DEF Busy
<1>3. Held(vm') /\ Good(vm') /\ Others(vm') = Others(vm) + 1
  BY RefGood DEF LifeInv, Call, Held, Found
<1>4. Cardinality(Busy) \in Nat
  BY BusyCount DEF Busy
<1> QED
  BY <1>2, <1>3, <1>4 DEF LifeInv, Call, aux

\* Destroying the domain of an object, and taking a transient object off the list.
LEMMA ReapedLife ==
  ASSUME LifeInv, CanReap(vm), Held(vm)
  PROVE  LET r == Reap(vm) IN
         /\ Good(Unref(r)) /\ Others(Unref(r)) = Others(vm) - 1 /\ Held(Unref(r))
         /\ ~vm.persistent => /\ Good(EndAndRemove(r)) /\ Others(EndAndRemove(r)) = Others(vm) - 1
                             /\ Held(EndAndRemove(r))
<1> DEFINE r == Reap(vm)
<1>1. Active(vm)
  BY Bound DEF CanReap, Exists, Active
<1>2. /\ Good(r) /\ Others(r) = Others(vm) /\ Gone(r) /\ Held(r)
      /\ r.persistent = vm.persistent /\ r.id = (IF vm.persistent THEN 0 ELSE vm.id)
  BY ReapGood DEF LifeInv, Good, Tied, CanReap, Held
<1> HIDE DEF r
<1>3. ~vm.persistent => Active(r)
  BY <1>1, <1>2 DEF Active
<1> QED
  BY <1>2, <1>3, RefGood, EndAndRemoveGood DEF r

\* A guest that exists is paused or goes on: what matters to the ties stays.
LEMMA GuestGoesOn ==
  ASSUME LifeInv, Exists(vm, vm.id), NEW w, NEW s,
         w = vm.xen[vm.id] \/ {w, vm.xen[vm.id]} \subseteq {"running", "paused"}
  PROVE  LET e == [vm EXCEPT !.state = s, !.xen[vm.id] = w]
         IN  Good(e) /\ Others(e) = Others(vm) /\ Held(e) = Held(vm)
<1> DEFINE e == [vm EXCEPT !.state = s, !.xen[vm.id] = w]
<1>1. /\ DOMAIN e = Fields /\ e.xen = [vm.xen EXCEPT ![vm.id] = w]
      /\ \A f \in Fields \ {"state", "xen"} : e[f] = vm[f]
  BY DEF LifeInv, Good, Shape, Fields
<1>2. /\ vm.id \in DomIds /\ e.xen[vm.id] = w
      /\ \A i \in DomIds \ {vm.id} : e.xen[i] = vm.xen[i]
  BY <1>1 DEF LifeInv, Good, Shape, Exists
<1>3. Shape(e) /\ Others(e) = Others(vm)
  BY <1>1 DEF LifeInv, Good, Shape, Others, Fields
<1>4. /\ e.id = vm.id /\ e.waiter = vm.waiter /\ e.watching = vm.watching
      /\ e.handles = vm.handles /\ e.eventHdl = vm.eventHdl /\ e.listed = vm.listed
      /\ e.offList = vm.offList /\ e.persistent = vm.persistent
      /\ e.forgotten = vm.forgotten /\ e.unwatched = vm.unwatched
  BY <1>1 DEF Fields
<1> HIDE DEF e
<1>5. \A i \in DomIds : Exists(e, i) = Exists(vm, i)
  BY <1>2 DEF Exists, Existing
<1>6. w = "suspended" <=> vm.xen[vm.id] = "suspended"
  OBVIOUS
<1>7. Tied(e)
  BY <1>2, <1>4, <1>5, <1>6 DEF LifeInv, Good, Tied, Found
<1> QED
  BY <1>3, <1>4, <1>7 DEF Good, e, Held, Found, Active

\* A running guest stops by itself, or is suspended.
LEMMA GuestStopped ==
  ASSUME LifeInv, NEW i \in DomIds, vm.xen[i] = "running", NEW why \in Dead, NEW e,
         e.xen = [vm.xen EXCEPT ![i] = why], DOMAIN e = Fields,
         \A f \in Fields \ {"xen", "readable", "file"} : e[f] = vm[f]
  PROVE  Good(e) /\ Others(e) = Others(vm) /\ Held(e) = Held(vm)
<1>1. e.xen[i] = why /\ \A j \in DomIds \ {i} : e.xen[j] = vm.xen[j]
  BY DEF LifeInv, Good, Shape
<1>2. Shape(e) /\ Others(e) = Others(vm)
  BY DEF LifeInv, Good, Shape, Others, Fields
<1>3. /\ e.id = vm.id /\ e.waiter = vm.waiter /\ e.watching = vm.watching
      /\ e.handles = vm.handles /\ e.eventHdl = vm.eventHdl /\ e.listed = vm.listed
      /\ e.offList = vm.offList /\ e.persistent = vm.persistent
      /\ e.forgotten = vm.forgotten /\ e.unwatched = vm.unwatched
  BY DEF Fields
<1>4. \A j \in DomIds : Exists(e, j) = Exists(vm, j)
  BY <1>1 DEF Exists, Existing, Dead
<1>5. Exists(e, e.id) /\ e.xen[e.id] # "suspended" => vm.xen[vm.id] # "suspended"
  BY <1>1, <1>3 DEF Exists
<1>6. Tied(e)
  BY <1>3, <1>4, <1>5 DEF LifeInv, Good, Tied, Found, Exists
<1> QED
  BY <1>2, <1>3, <1>6 DEF Good, Held, Found, Active

LEMMA PartialGood ==
  ASSUME LifeInv
  PROVE  LET e == [vm EXCEPT !.file = "partial"]
         IN  Good(e) /\ Others(e) = Others(vm) /\ Held(e) = Held(vm) /\ e.xen = vm.xen
<1> DEFINE e == [vm EXCEPT !.file = "partial"]
<1>1. DOMAIN e = Fields /\ \A f \in Fields \ {"file"} : e[f] = vm[f]
  BY DEF LifeInv, Good, Shape
<1>2. e.id = vm.id /\ e.persistent = vm.persistent
  BY <1>1 DEF Fields
<1> HIDE DEF e
<1>3. Good(e) /\ Others(e) = Others(vm) /\ Found(e) = Found(vm) /\ e.xen = vm.xen
  BY <1>1, FileGood DEF LifeInv
<1> QED
  BY <1>2, <1>3 DEF e, Held, Active

LEMMA WorkLife ==
  ASSUME LifeInv, NEW t \in Threads, GiveUp(t) \/ Work(t)
  PROVE  LifeInv'
<1>0. /\ Good(vm) /\ Good(Unref(vm)) /\ Others(Unref(vm)) = Others(vm) - 1
      /\ Held(Unref(vm)) = Held(vm)
  BY RefGood DEF LifeInv
<1> pc[t] # "idle" => Held(vm)
  BY DEF LifeInv, Busy
<1>1. CASE GiveUp(t)
  BY <1>0, <1>1, ReturnLife DEF GiveUp
<1>2. CASE Grant(t)
  BY <1>2, MoveLife DEF Grant, LifeInv, aux
<1>3. CASE Resume(t)
  <2>1. \/ vm' = Unref(vm)
        \/ /\ Exists(vm, vm.id)
           /\ \E w : /\ w = vm.xen[vm.id] \/ {w, vm.xen[vm.id]} \subseteq {"running", "paused"}
                     /\ vm' = Unref([vm EXCEPT !.state = "running", !.xen[vm.id] = w])
    BY <1>3 DEF Resume
  <2>2. Good(vm') /\ Others(vm') = Others(vm) - 1 /\ Held(vm') = Held(vm)
    <3> SUFFICES ASSUME Exists(vm, vm.id),
                        NEW w, w = vm.xen[vm.id] \/ {w, vm.xen[vm.id]} \subseteq {"running", "paused"},
                        vm' = Unref([vm EXCEPT !.state = "running", !.xen[vm.id] = w])
                 PROVE  Good(vm') /\ Others(vm') = Others(vm) - 1 /\ Held(vm') = Held(vm)
      BY <1>0, <2>1
    <3> DEFINE e == [vm EXCEPT !.state = "running", !.xen[vm.id] = w]
    <3>1. Good(e) /\ Others(e) = Others(vm) /\ Held(e) = Held(vm)
      BY GuestGoesOn
    <3>2. vm' = Unref(e)
      OBVIOUS
    <3> HIDE DEF e
    <3> QED
      BY <3>1, <3>2, RefGood
  <2> QED
    BY <1>3, <2>2, ReturnLife DEF Resume
<1>4. CASE Create(t)
  <2>1. \/ vm' = Unref(vm)
        \/ ~Active(vm) /\ \E d \in VmStart(vm) : vm' = Unref(d)
    BY <1>4 DEF Create
  <2>2. Held(vm)
    BY <1>4 DEF Create
  <2>3. Good(vm') /\ Others(vm') = Others(vm) - 1 /\ Held(vm')
    <3>1. CASE vm' = Unref(vm)
      BY <1>0, <2>2, <3>1
    <3>2. CASE ~Active(vm) /\ \E d \in VmStart(vm) : vm' = Unref(d)
      <4>1. PICK d \in VmStart(vm) : vm' = Unref(d)
        BY <3>2
      <4>2. Good(d) /\ Others(d) = Others(vm) /\ Held(d)
        BY <1>0, <2>2, <3>2, VmStartGood DEF Held
      <4> QED
        BY <4>1, <4>2, RefGood
    <3> QED
      BY <2>1, <3>1, <3>2
  <2> QED
    BY <1>4, <2>3, ReturnLife DEF Create
<1>5. CASE Shutdown(t)
  BY <1>0, <1>5, ReturnLife DEF Shutdown
<1>6. CASE Destroy(t)
  <2>1. Held(vm)
    BY <1>6 DEF Destroy
  <2>2. Good(vm') /\ Others(vm') = Others(vm) - 1 /\ Held(vm')
    BY <1>0, <1>6, <2>1, ReapedLife DEF Destroy
  <2> QED
    BY <1>6, <2>2, ReturnLife DEF Destroy
<1>7. CASE SaveBegin(t)
  <2>1. vm' = vm \/ vm' = [vm EXCEPT !.file = "partial"]
    BY <1>7 DEF SaveBegin
  <2>2. Good(vm') /\ Others(vm') = Others(vm) /\ Held(vm') = Held(vm)
    BY <1>0, <2>1, PartialGood
  <2> QED
    BY <1>7, <2>2, MoveLife DEF SaveBegin, LifeInv, aux
<1>8. CASE SaveRefused(t)
  <2>2. Good(vm') /\ Others(vm') = Others(vm) - 1 /\ Held(vm') = Held(vm)
    BY <1>0, <1>8, PartialGood, RefGood DEF SaveRefused
  <2> QED
    BY <1>8, <2>2, ReturnLife DEF SaveRefused
<1>9. CASE SaveGuest(t)
  <2> DEFINE suspended == [vm EXCEPT !.xen[vm.id] = "suspended", !.readable = @ \/ vm.watching]
             imaged == [suspended EXCEPT !.file = "image"]
  <2>1. \/ vm' = vm
        \/ /\ Active(vm) /\ vm.xen[vm.id] = "running"
           /\ vm' = suspended \/ vm' = imaged
    BY <1>9 DEF SaveGuest
  <2>2. /\ DOMAIN suspended = Fields /\ DOMAIN imaged = Fields
        /\ suspended.xen = [vm.xen EXCEPT ![vm.id] = "suspended"] /\ imaged.xen = suspended.xen
        /\ \A f \in Fields \ {"xen", "readable", "file"} :
             suspended[f] = vm[f] /\ imaged[f] = vm[f]
    BY <1>0 DEF Good, Shape, Fields
  <2> HIDE DEF suspended, imaged
  <2>3. Active(vm) => vm.id \in DomIds
    BY <1>0 DEF Good, Shape, Active, DomIds
  <2>4. ASSUME Active(vm), vm.xen[vm.id] = "running"
        PROVE  /\ Good(suspended) /\ Others(suspended) = Others(vm) /\ Held(suspended) = Held(vm)
               /\ Good(imaged) /\ Others(imaged) = Others(vm) /\ Held(imaged) = Held(vm)
    <3>1. vm.id \in DomIds /\ "suspended" \in Dead
      BY <2>3, <2>4 DEF Dead
    <3>2. Good(suspended) /\ Others(suspended) = Others(vm) /\ Held(suspended) = Held(vm)
      BY <2>2, <2>4, <3>1, GuestStopped
    <3>3. Good(imaged) /\ Others(imaged) = Others(vm) /\ Held(imaged) = Held(vm)
      BY <2>2, <2>4, <3>1, GuestStopped
    <3> QED
      BY <3>2, <3>3
  <2>5. Good(vm') /\ Others(vm') = Others(vm) /\ Held(vm') = Held(vm)
    BY <1>0, <2>1, <2>4
  <2> QED
    BY <1>9, <2>5, MoveLife DEF SaveGuest, LifeInv, aux
<1>10. CASE SaveEnd(t)
  <2>1. Held(vm)
    BY <1>10 DEF SaveEnd
  <2>2. Good(vm') /\ Others(vm') = Others(vm) - 1 /\ Held(vm')
    BY <1>0, <1>10, <2>1, ReapedLife DEF SaveEnd
  <2> QED
    BY <1>10, <2>2, ReturnLife DEF SaveEnd
<1> QED
  BY <1>1, <1>2, <1>3, <1>4, <1>5, <1>6, <1>7, <1>8, <1>9, <1>10 DEF Work

LEMMA DefineLife ==
  ASSUME LifeInv, Define \/ Undefine
  PROVE  LifeInv'
<1>0. Good(vm) /\ Shape(vm)
  BY DEF LifeInv, Good
<1>1. CASE Define
  <2> DEFINE on == [vm EXCEPT !.persistent = TRUE, !.config = TRUE]
             r == RemoveInactive(vm)
             off == [r EXCEPT !.persistent = TRUE, !.offList = TRUE]
  <2>1. Good(on) /\ Others(on) = Others(vm) /\ Found(on) = Found(vm)
    BY <1>0, FileGood DEF Shape
  <2>2. /\ Shape(r) /\ Others(r) = Others(vm)
        /\ \A f \in Fields \ {"listed", "refs"} : r[f] = vm[f]
    BY <1>0, RemoveInactiveKeeps
  <2>3. vm' \in {on, off} /\ vm.listed
    BY <1>1 DEF Define
  <2> HIDE DEF on, r
  <2>4. /\ DOMAIN off = Fields /\ off.offList
        /\ \A f \in Fields \ {"persistent", "offList"} : off[f] = r[f]
    BY <2>2 DEF Shape, Fields
  <2> HIDE DEF off
  <2>5. Shape(off) /\ Others(off) = Others(r)
    BY <2>2, <2>4 DEF Shape, Others, Fields
  <2>6. Good(off)
    BY <1>0, <2>2, <2>4, <2>5, OffListGood
  <2>7. Good(vm') /\ Others(vm') = Others(vm) /\ Held(vm')
    BY <2>1, <2>2, <2>3, <2>4, <2>5, <2>6 DEF Held, Found
  <2> QED
    BY <1>1, <2>7, StayLife DEF Define, aux
<1>2. CASE Undefine
  <2> DEFINE d == [vm EXCEPT !.config = FALSE, !.file = "none"]
             e == [d EXCEPT !.persistent = FALSE]
             r == RemoveInactive(d)
             off == [r EXCEPT !.offList = TRUE]
  <2>1. vm' \in {e, off} /\ vm.listed
    BY <1>2 DEF Undefine
  <2>2. Good(d) /\ Others(d) = Others(vm) /\ Found(d) = Found(vm)
    BY <1>0, FileGood DEF Shape
  <2>3. Good(e) /\ Others(e) = Others(vm) /\ Found(e) = Found(vm)
    BY <1>0, FileGood DEF Shape
  <2>4. /\ Shape(r) /\ Others(r) = Others(vm)
        /\ \A f \in Fields \ {"listed", "refs"} : r[f] = d[f]
    BY <2>2, RemoveInactiveKeeps DEF Good
  <2> HIDE DEF d, e, r
  <2>5. DOMAIN off = Fields /\ off.offList /\ \A f \in Fields \ {"offList"} : off[f] = r[f]
    BY <2>4 DEF Shape, Fields
  <2> HIDE DEF off
  <2>6. Shape(off) /\ Others(off) = Others(r)
    BY <2>4, <2>5 DEF Shape, Others, Fields
  <2>7. Good(off)
    BY <2>2, <2>4, <2>5, <2>6, OffListGood
  <2>8. Good(vm') /\ Others(vm') = Others(vm) /\ Held(vm')
    BY <2>1, <2>3, <2>4, <2>5, <2>6, <2>7 DEF Held, Found
  <2> QED
    BY <1>2, <2>8, StayLife DEF Undefine, aux
<1> QED
  BY <1>1, <1>2

\* libxlDomainSuspend drops a reference more than there are calls.
LEMMA SuspendLife ==
  ASSUME LifeInv, Suspend
  PROVE  LifeInv'
<1>1. /\ Good(vm) /\ Good(Unref(vm)) /\ Others(Unref(vm)) = Others(vm) - 1
      /\ Held(Unref(vm)) = Held(vm)
  BY RefGood DEF LifeInv
<1>2. \/ vm' = Unref(vm)
      \/ /\ Exists(vm, vm.id)
         /\ \E w : /\ w = vm.xen[vm.id] \/ {w, vm.xen[vm.id]} \subseteq {"running", "paused"}
                   /\ vm' = Unref([vm EXCEPT !.state = "paused", !.xen[vm.id] = w])
  BY DEF Suspend
<1>3. Good(vm') /\ Others(vm') = Others(vm) - 1 /\ Held(vm') = Held(vm)
  <2> SUFFICES ASSUME Exists(vm, vm.id),
                      NEW w, w = vm.xen[vm.id] \/ {w, vm.xen[vm.id]} \subseteq {"running", "paused"},
                      vm' = Unref([vm EXCEPT !.state = "paused", !.xen[vm.id] = w])
               PROVE  Good(vm') /\ Others(vm') = Others(vm) - 1 /\ Held(vm') = Held(vm)
    BY <1>1, <1>2
  <2> DEFINE e == [vm EXCEPT !.state = "paused", !.xen[vm.id] = w]
  <2>1. Good(e) /\ Others(e) = Others(vm) /\ Held(e) = Held(vm)
    BY GuestGoesOn
  <2>2. vm' = Unref(e)
    OBVIOUS
  <2> HIDE DEF e
  <2> QED
    BY <2>1, <2>2, RefGood
<1>4. Busy' = Busy /\ dropped' = dropped + 1 /\ UNCHANGED <<pc, op, saved>>
  BY DEF Suspend, Busy
<1>5. Cardinality(Busy) \in Nat
  BY BusyCount DEF Busy
<1> QED
  BY <1>3, <1>4, <1>5 DEF LifeInv

\* What is left of the ties once the handle has been taken away.
Loose(d) ==
  /\ Shape(d) /\ d.eventHdl = 0
  /\ \A i, j \in DomIds : Exists(d, i) /\ Exists(d, j) => i = j
  /\ \A i \in DomIds : Exists(d, i) => i \in d.forgotten \/ d.id = i
  /\ d.waiter => d.handles = {}
  /\ ~d.watching => d.handles = {}

LEMMA UnwatchGood ==
  ASSUME NEW d, Loose(d), Found(d)
  PROVE  /\ Good(Unwatch(d)) /\ Others(Unwatch(d)) = Others(d) /\ Found(Unwatch(d))
         /\ Unwatch(d).xen = d.xen /\ Unwatch(d).id = d.id
<1> DEFINE e == Unwatch(d)
<1>1. /\ DOMAIN e = Fields /\ d.id \in e.unwatched /\ e.forgotten = d.forgotten \ {d.id}
      /\ \A f \in Fields \ {"unwatched", "forgotten"} : e[f] = d[f]
  BY DEF Loose, Shape, Fields, Unwatch
<1> HIDE DEF e
<1>2. /\ e.xen = d.xen /\ e.id = d.id /\ e.eventHdl = 0 /\ e.waiter = d.waiter
      /\ e.handles = d.handles /\ e.watching = d.watching /\ e.listed = d.listed
      /\ e.offList = d.offList /\ e.refs = d.refs /\ e.removed = d.removed
  BY <1>1 DEF Fields, Loose
<1>3. Shape(e) /\ Others(e) = Others(d) /\ Found(e)
  BY <1>1, <1>2, Bound DEF Loose, Shape, Others, Found
<1>4. Tied(e)
  BY <1>1, <1>2, <1>3 DEF Loose, Tied, Exists
<1> QED
  BY <1>2, <1>3, <1>4 DEF Good, e

LEMMA ForgetLoose ==
  ASSUME NEW d, Loose(d)
  PROVE  LET e == Forget(d) IN
         /\ Good(e) /\ Others(e) = Others(d) /\ e.xen = d.xen /\ e.id = d.id
         /\ e.persistent = d.persistent /\ d.id \in e.forgotten /\ Loose(e)
         /\ e.handles = d.handles /\ e.removed = d.removed /\ e.config = d.config
         /\ e.watching = d.watching /\ e.waiter = d.waiter
<1> DEFINE e == Forget(d)
<1>1. /\ DOMAIN e = Fields /\ e.forgotten = d.forgotten \cup {d.id}
      /\ \A f \in Fields \ {"unwatched", "forgotten"} : e[f] = d[f]
  BY DEF Loose, Shape, Fields, Forget
<1> HIDE DEF e
<1>2. /\ e.xen = d.xen /\ e.id = d.id /\ e.eventHdl = 0 /\ e.waiter = d.waiter
      /\ e.handles = d.handles /\ e.watching = d.watching /\ e.listed = d.listed
      /\ e.offList = d.offList /\ e.refs = d.refs /\ e.removed = d.removed
      /\ e.persistent = d.persistent /\ e.config = d.config
  BY <1>1 DEF Fields, Loose
<1>3. Shape(e) /\ Others(e) = Others(d)
  BY <1>1, <1>2, Bound DEF Loose, Shape, Others
<1>4. Tied(e)
  BY <1>1, <1>2 DEF Loose, Tied, Exists
<1>5. Loose(e)
  BY <1>1, <1>2, <1>3 DEF Loose, Exists
<1> QED
  BY <1>1, <1>2, <1>3, <1>4, <1>5 DEF Good, e

\* A handle that is not priv->eventHdl is left from a start that failed: nothing runs
\* that it could watch.
LEMMA StaleHandle ==
  ASSUME LifeInv, NEW h \in vm.handles, vm.eventHdl # h
  PROVE  LET e == [RemoveHandle(vm, h) EXCEPT !.eventHdl = 0]
         IN  Good(e) /\ Others(e) = Others(vm) /\ Held(e) = Held(vm)
<1> DEFINE r == RemoveHandle(vm, h)
           e == [r EXCEPT !.eventHdl = 0]
<1>1. /\ Shape(r) /\ Others(r) = Others(vm) /\ r.handles = vm.handles \ {h}
      /\ r.xen = vm.xen /\ r.id = vm.id /\ r.waiter = vm.waiter /\ r.watching = vm.watching
      /\ r.listed = vm.listed /\ r.offList = vm.offList /\ r.persistent = vm.persistent
      /\ r.forgotten = vm.forgotten /\ r.unwatched = vm.unwatched
  BY RemoveHandleKeeps DEF LifeInv, Good
<1> HIDE DEF r
<1>2. DOMAIN e = Fields /\ e.eventHdl = 0 /\ \A f \in Fields \ {"eventHdl"} : e[f] = r[f]
  BY <1>1 DEF Shape, Fields
<1>3. Shape(e) /\ Others(e) = Others(r)
  BY <1>1, <1>2, Bound DEF Shape, Others, Fields
<1>4. /\ e.xen = vm.xen /\ e.id = vm.id /\ e.waiter = vm.waiter
      /\ e.watching = vm.watching /\ e.handles = vm.handles \ {h}
      /\ e.listed = vm.listed /\ e.offList = vm.offList /\ e.persistent = vm.persistent
      /\ e.forgotten = vm.forgotten /\ e.unwatched = vm.unwatched
  BY <1>1, <1>2 DEF Fields
<1>5. ~vm.waiter
  BY DEF LifeInv, Good, Tied
<1> HIDE DEF e
<1>6. Tied(e)
  BY <1>2, <1>4, <1>5 DEF LifeInv, Good, Tied, Exists, Found
<1> QED
  BY <1>1, <1>3, <1>4, <1>6 DEF Good, Held, Found, Active, e, r

\* The handle of a domain that was forgotten is nobody's, so the object is the list's.
LEMMA DeathEvent ==
  ASSUME LifeInv, NEW h \in vm.handles, vm.eventHdl = h, NEW e \in OnDeathEvent(h)
  PROVE  Good(e) /\ Others(e) = Others(vm) /\ (Held(vm) => Held(e))
<1> DEFINE read == [vm EXCEPT !.readable = FALSE]
           r == RemoveHandle(read, h)
           off == [r EXCEPT !.eventHdl = 0]
<1>1. Good(read) /\ Others(read) = Others(vm)
  BY FileGood DEF LifeInv, Good, Shape
<1>2. /\ read.xen = vm.xen /\ read.id = vm.id /\ read.handles = vm.handles
      /\ read.waiter = vm.waiter /\ read.watching = vm.watching /\ read.listed = vm.listed
      /\ read.offList = vm.offList /\ read.persistent = vm.persistent
      /\ read.forgotten = vm.forgotten /\ read.unwatched = vm.unwatched
  BY DEF LifeInv, Good, Shape, Fields
<1> HIDE DEF read
<1>3. /\ Shape(r) /\ Others(r) = Others(vm) /\ r.handles = vm.handles \ {h}
      /\ r.xen = vm.xen /\ r.id = vm.id /\ r.waiter = vm.waiter /\ r.watching = vm.watching
      /\ r.listed = vm.listed /\ r.offList = vm.offList /\ r.persistent = vm.persistent
      /\ r.forgotten = vm.forgotten /\ r.unwatched = vm.unwatched
  BY <1>1, <1>2, RemoveHandleKeeps DEF Good
<1> HIDE DEF r
<1>4. DOMAIN off = Fields /\ off.eventHdl = 0 /\ \A f \in Fields \ {"eventHdl"} : off[f] = r[f]
  BY <1>3 DEF Shape, Fields
<1>5. Shape(off) /\ Others(off) = Others(vm)
  BY <1>3, <1>4, Bound DEF Shape, Others, Fields
<1>6. /\ off.xen = vm.xen /\ off.id = vm.id /\ off.waiter = vm.waiter
      /\ off.watching = vm.watching /\ off.handles = vm.handles \ {h}
      /\ off.listed = vm.listed /\ off.offList = vm.offList /\ off.persistent = vm.persistent
      /\ off.forgotten = vm.forgotten /\ off.unwatched = vm.unwatched
  BY <1>3, <1>4 DEF Fields
<1>7. off.eventHdl = 0
  BY <1>4
<1>8. \/ e = read
      \/ /\ Active(vm) /\ vm.xen[vm.id] \in Dead
         /\ \/ e \in AfterDeath(off) \cup AfterReboot(off)
            \/ vm.xen[vm.id] = "suspended" /\ e = off
  BY DEF OnDeathEvent, Dead, off, r, read
<1> HIDE DEF off
<1>9. CASE e = read
  BY <1>1, <1>2, <1>9 DEF Held, Found, Active
<1>10. CASE /\ Active(vm) /\ vm.xen[vm.id] \in Dead
            /\ \/ e \in AfterDeath(off) \cup AfterReboot(off)
               \/ vm.xen[vm.id] = "suspended" /\ e = off
  <2>1. Exists(vm, vm.id) /\ h # 0
    BY <1>10, Bound DEF LifeInv, Good, Shape, Active, DomIds, Exists, Existing
  <2>2. Found(vm) /\ vm.id \notin vm.forgotten
    BY <2>1 DEF LifeInv, Good, Tied, Exists
  <2>3. Found(off) /\ Exists(off, off.id) /\ Active(off)
    BY <1>6, <1>10, <2>1, <2>2 DEF Found, Exists, Active
  <2>4. Loose(off)
    BY <1>5, <1>6, <1>7 DEF LifeInv, Good, Tied, Loose, Exists
  <2>5. /\ Good(Reap(off)) /\ Others(Reap(off)) = Others(vm) /\ Gone(Reap(off))
        /\ Found(Reap(off)) /\ Reap(off).persistent = off.persistent
        /\ ~off.persistent => Active(Reap(off))
    <3>1. /\ Good(Reap(off)) /\ Others(Reap(off)) = Others(off) /\ Gone(Reap(off))
          /\ Reap(off).listed = off.listed /\ Reap(off).offList = off.offList
          /\ Reap(off).persistent = off.persistent
          /\ Reap(off).id = (IF off.persistent THEN 0 ELSE off.id)
      BY <1>7, <2>3, <2>4, ReapGood DEF Loose
    <3> QED
      BY <1>5, <2>3, <3>1 DEF Found, Active
  <2>6. Good(Unwatch(off)) /\ Others(Unwatch(off)) = Others(vm) /\ Found(Unwatch(off))
    BY <1>5, <2>3, <2>4, UnwatchGood
  <2>7. CASE e \in {Reap(off), Unwatch(off)}
    BY <2>5, <2>6, <2>7 DEF Held
  <2>8. CASE e = RemoveInactive(Reap(off)) /\ ~off.persistent
    BY <2>5, <2>8, RemoveInactiveGood
  <2>9. CASE e = Forget(RemoveInactive(off)) /\ ~off.persistent
    <3> DEFINE g == RemoveInactive(off)
    <3>1. /\ Shape(g) /\ Others(g) = Others(off)
          /\ \A f \in Fields \ {"listed", "refs"} : g[f] = off[f]
      BY <1>5, RemoveInactiveKeeps
    <3> HIDE DEF g
    <3>2. /\ g.xen = off.xen /\ g.id = off.id /\ g.eventHdl = off.eventHdl
          /\ g.forgotten = off.forgotten /\ g.waiter = off.waiter /\ g.handles = off.handles
          /\ g.watching = off.watching /\ g.persistent = off.persistent
      BY <3>1 DEF Fields
    <3>3. Loose(g)
      BY <2>4, <3>1, <3>2 DEF Loose, Exists
    <3>4. /\ Good(Forget(g)) /\ Others(Forget(g)) = Others(g)
          /\ Forget(g).id = g.id /\ Forget(g).persistent = g.persistent
      BY <3>3, ForgetLoose
    <3>5. e = Forget(g)
      BY <2>9 DEF g
    <3> QED
      BY <1>5, <2>3, <2>9, <3>1, <3>2, <3>4, <3>5 DEF Held, Active
  <2>10. CASE e \in AfterReboot(off)
    <3>1. e \in VmStart(Reap(off)) \/ e \in VmStart(Unwatch(off))
      BY <2>10 DEF AfterReboot
    <3>2. Good(e) /\ Others(e) = Others(vm) /\ Found(e)
      BY <2>5, <2>6, <3>1, VmStartGood
    <3> QED
      BY <3>2 DEF Held
  <2>11. CASE vm.xen[vm.id] = "suspended" /\ e = off
    <3>1. Tied(off)
      BY <1>6, <1>7, <2>2, <2>4, <2>11 DEF LifeInv, Good, Tied, Loose, Exists, Found
    <3> QED
      BY <1>5, <2>3, <2>11, <3>1 DEF Good, Held
  <2> QED
    BY <1>10, <2>7, <2>8, <2>9, <2>10, <2>11 DEF AfterDeath
<1> QED
  BY <1>8, <1>9, <1>10

LEMMA LoopLife ==
  ASSUME LifeInv, EventHandler \/ FreeHandle \/ GuestStops \/ OtherRelease
  PROVE  LifeInv'
<1>1. CASE EventHandler
  <2>1. PICK h \in vm.handles :
          IF vm.eventHdl # h THEN vm' = [RemoveHandle(vm, h) EXCEPT !.eventHdl = 0]
                             ELSE vm' \in OnDeathEvent(h)
    BY <1>1 DEF EventHandler
  <2>2. Good(vm') /\ Others(vm') = Others(vm) /\ (Held(vm) => Held(vm'))
    BY <2>1, StaleHandle, DeathEvent
  <2> QED
    BY <1>1, <2>2, StayLife DEF EventHandler, aux
<1>2. CASE FreeHandle
  <2> DEFINE u == Unref(vm)
             e == [u EXCEPT !.removed = @ - 1]
  <2>1. /\ Good(u) /\ Others(u) = Others(vm) - 1 /\ u.removed = vm.removed /\ vm.removed > 0
        /\ Held(u) = Held(vm)
    BY <1>2, RefGood DEF LifeInv, FreeHandle, Good, Shape, Unref, Fields
  <2>2. vm' = e
    BY <1>2 DEF FreeHandle
  <2> HIDE DEF u
  <2>3. /\ DOMAIN e = Fields /\ e.removed = u.removed - 1 /\ e.refs = u.refs
        /\ e.listed = u.listed /\ Alike(u, e) /\ e.persistent = u.persistent
    BY <2>1 DEF Good, Shape, Fields, Alike, Found
  <2> HIDE DEF e
  <2>4. u.removed \in Nat /\ u.refs \in Int /\ Cardinality(u.handles) \in Nat
    BY <2>1, HandleCount DEF Good, Shape
  <2>5. e.removed \in Nat
    BY <2>1, <2>3, <2>4
  <2>6. Good(e)
    BY <2>1, <2>3, <2>4, <2>5, AlikeGood
  <2>7. Others(e) = Others(u) + 1
    BY <2>3, <2>4 DEF Others, Alike
  <2>8. Others(vm) \in Int
    BY OthersInt DEF LifeInv, Good
  <2>9. Others(e) = Others(vm)
    BY <2>1, <2>7, <2>8
  <2>10. Held(e) = Held(vm)
    BY <2>1, <2>3 DEF Held, Alike, Active
  <2> QED
    BY <1>2, <2>2, <2>6, <2>9, <2>10, StayLife DEF FreeHandle, aux
<1>3. CASE GuestStops
  <2>1. PICK i \in DomIds, why \in {"poweroff", "reboot"} :
          /\ vm.xen[i] = "running"
          /\ vm' = [vm EXCEPT !.xen[i] = why, !.readable = @ \/ vm.watching]
    BY <1>3 DEF GuestStops
  <2> DEFINE e == [vm EXCEPT !.xen[i] = why, !.readable = @ \/ vm.watching]
  <2>2. /\ DOMAIN e = Fields /\ e.xen = [vm.xen EXCEPT ![i] = why]
        /\ \A f \in Fields \ {"xen", "readable", "file"} : e[f] = vm[f]
    BY DEF LifeInv, Good, Shape, Fields
  <2>3. vm' = e /\ vm.xen[i] = "running" /\ why \in Dead
    BY <2>1 DEF Dead
  <2> HIDE DEF e
  <2>4. Good(e) /\ Others(e) = Others(vm) /\ Held(e) = Held(vm)
    BY <2>2, <2>3, GuestStopped
  <2> QED
    BY <1>3, <2>3, <2>4, StayLife DEF GuestStops, aux
<1>4. CASE OtherRelease
  <2>1. DOMAIN vm' = Fields /\ \A f \in Fields \ {"readable"} : vm'[f] = vm[f]
    BY <1>4 DEF OtherRelease, LifeInv, Good, Shape
  <2>2. Good(vm') /\ Others(vm') = Others(vm) /\ Found(vm') = Found(vm)
    BY <2>1, FileGood DEF LifeInv
  <2>3. Held(vm') = Held(vm)
    BY <2>1, <2>2 DEF Held, Active, Fields
  <2> QED
    BY <1>4, <2>2, <2>3, StayLife DEF OtherRelease, aux
<1> QED
  BY <1>1, <1>2, <1>3, <1>4

\* After a restart there is a new handle with its watch, or what is missing is excused.
LEMMA ReconnectGood ==
  ASSUME NEW d, Loose(d), d.handles = {}, d.removed = 0, ~d.waiter, NEW e \in Reconnect(d)
  PROVE  Good(e) /\ Others(e) = 0 /\ e.xen = d.xen
<1>1. Cardinality({}) = 0
  BY FS_EmptySet
<1>2. ASSUME NEW x, Loose(x), x.handles = {}, x.removed = 0,
             \A i \in DomIds : Exists(x, i) => i \in x.forgotten
      PROVE  Good(Loaded(x)) /\ Others(Loaded(x)) = 0 /\ Loaded(x).xen = x.xen
  <2> DEFINE y == Loaded(x)
  <2>1. /\ DOMAIN y = Fields /\ y.listed = x.config /\ y.refs = (IF x.config THEN 1 ELSE 0)
        /\ y.id = 0 /\ \A f \in Fields \ {"listed", "refs", "id", "state"} : y[f] = x[f]
    BY <1>2 DEF Loose, Shape, Fields, Loaded
  <2> HIDE DEF y
  <2>2. /\ y.xen = x.xen /\ y.handles = {} /\ y.removed = 0 /\ y.eventHdl = 0
        /\ y.forgotten = x.forgotten
    BY <1>2, <2>1 DEF Fields, Loose
  <2>3. Shape(y) /\ Others(y) = 0
    BY <1>1, <1>2, <2>1, <2>2, Bound DEF Loose, Shape, Others
  <2>4. Tied(y)
    BY <1>2, <2>1, <2>2, Bound DEF Loose, Tied, Exists
  <2> QED
    BY <2>2, <2>3, <2>4 DEF Good, y
<1>3. CASE Exists(d, d.id)
  <2> DEFINE on == TakenOver(d)
  <2>1. /\ DOMAIN on = Fields /\ on.listed = TRUE /\ on.refs = 1
        /\ \A f \in Fields \ {"listed", "refs", "state"} : on[f] = d[f]
    BY DEF Loose, Shape, Fields, TakenOver
  <2>2. d.id \in DomIds
    BY <1>3 DEF Exists
  <2>3. on.xen = d.xen /\ on.id = d.id /\ on.handles = {} /\ on.removed = 0 /\ on.eventHdl = 0
        /\ on.forgotten = d.forgotten /\ on.watching = d.watching
    BY <2>1 DEF Fields, Loose
  <2> HIDE DEF on
  <2>4. Shape(on) /\ Others(on) = 0
    BY <1>1, <2>1, <2>3, Bound DEF Loose, Shape, Others
  <2>5. CASE e = CreateDomEvents(on, d.id)
    <3> DEFINE c == CreateDomEvents(on, d.id)
    <3>1. /\ Shape(c) /\ Others(c) = 0 /\ c.handles = {d.id} /\ c.eventHdl = d.id
          /\ c.waiter /\ c.watching /\ c.xen = d.xen /\ c.id = d.id /\ c.listed
          /\ d.id \notin c.forgotten
      BY <2>1, <2>2, <2>3, <2>4, CreateDomEventsKeeps
    <3> HIDE DEF c
    <3>2. Tied(c)
      BY <1>3, <3>1 DEF Loose, Tied, Exists, Found
    <3> QED
      BY <2>5, <3>1, <3>2 DEF Good, c
  <2>6. CASE \E x \in DomEventsFail(on) : e = Unwatch(x)
    <3>1. PICK x \in DomEventsFail(on) : e = Unwatch(x)
      BY <2>6
    <3>2. /\ Shape(x) /\ Others(x) = 0 /\ x.xen = d.xen /\ x.id = d.id /\ ~x.waiter
          /\ x.eventHdl = 0 /\ x.handles = {} /\ x.listed /\ x.forgotten = d.forgotten
      BY <2>1, <2>3, <2>4, DomEventsFailKeeps
    <3>3. Loose(x) /\ Found(x)
      BY <3>2 DEF Loose, Exists, Found
    <3> QED
      BY <3>1, <3>2, <3>3, UnwatchGood
  <2>7. CASE e = Loaded(Forget(d))
    <3> DEFINE x == Forget(d)
    <3>1. /\ Loose(x) /\ x.handles = {} /\ x.removed = 0 /\ x.xen = d.xen
          /\ d.id \in x.forgotten
      BY ForgetLoose
    <3> HIDE DEF x
    <3>2. \A i \in DomIds : Exists(x, i) => i = d.id
      BY <1>3, <3>1 DEF Loose, Exists
    <3>3. Good(Loaded(x)) /\ Others(Loaded(x)) = 0 /\ Loaded(x).xen = d.xen
      BY <1>2, <3>1, <3>2
    <3> QED
      BY <2>7, <3>3 DEF x
  <2> QED
    BY <1>3, <2>5, <2>6, <2>7 DEF Reconnect, on
<1>4. CASE ~Exists(d, d.id)
  <2>1. e = Loaded(d)
    BY <1>4 DEF Reconnect
  <2>2. \A i \in DomIds : Exists(d, i) => i \in d.forgotten
    BY <1>4 DEF Loose
  <2> QED
    BY <1>2, <2>1, <2>2
<1> QED
  BY <1>3, <1>4

LEMMA RestartLife ==
  ASSUME LifeInv, Restart
  PROVE  LifeInv' /\ (vm'.xen = vm.xen \/ Gone(vm))
<1> DEFINE d == [vm EXCEPT !.persistent = vm.config, !.eventHdl = 0, !.waiter = FALSE,
                           !.handles = {}, !.removed = 0, !.watching = FALSE,
                           !.readable = FALSE, !.offList = FALSE]
<1>1. /\ DOMAIN d = Fields /\ d.eventHdl = 0 /\ d.waiter = FALSE /\ d.handles = {}
      /\ d.removed = 0 /\ d.watching = FALSE /\ d.xen = vm.xen /\ d.id = vm.id
      /\ d.refs = vm.refs /\ d.forgotten = vm.forgotten
  BY DEF LifeInv, Good, Shape, Fields
<1>2. PICK r \in Reconnect(d) : vm' \in Autostart(r)
  BY DEF Restart
<1> HIDE DEF d
<1>3. Loose(d)
  BY <1>1, Bound DEF LifeInv, Good, Shape, Tied, Exists, Loose
<1>4. Good(r) /\ Others(r) = 0 /\ r.xen = vm.xen
  BY <1>1, <1>3, ReconnectGood
<1>5. vm' = r \/ (Found(r) /\ vm' \in VmStart(r))
  BY <1>2 DEF Autostart, Found
<1>6. Good(vm') /\ Others(vm') = 0 /\ (vm'.xen = r.xen \/ Gone(r))
  BY <1>4, <1>5, VmStartGood
<1>7. vm'.xen = vm.xen \/ Gone(vm)
  BY <1>4, <1>6 DEF Gone, Exists
<1>8. /\ Busy' = {} /\ DOMAIN pc' = Threads /\ DOMAIN op' = Threads /\ DOMAIN saved' = Threads
      /\ dropped' = 0
  BY DEF Restart, Busy
<1> QED
  BY <1>6, <1>7, <1>8, FS_EmptySet DEF LifeInv

LEMMA InitLife == Init => LifeInv
<1> SUFFICES ASSUME Init PROVE LifeInv
  OBVIOUS
<1>1. PICK here \in BOOLEAN :
       vm = [listed |-> TRUE, refs |-> IF here THEN 2 ELSE 1,
             persistent |-> ~here, config |-> ~here,
             id |-> IF here THEN 1 ELSE 0, state |-> IF here THEN "running" ELSE "shutoff",
             eventHdl |-> IF here THEN 1 ELSE 0, waiter |-> here,
             handles |-> IF here THEN {1} ELSE {}, removed |-> 0, watching |-> here,
             readable |-> FALSE, file |-> "none",
             xen |-> [i \in DomIds |-> IF here /\ i = 1 THEN "running" ELSE "unused"],
             offList |-> FALSE, forgotten |-> {}, unwatched |-> {}]
  BY DEF Init
<1>2. Shape(vm)
  BY <1>1, Bound DEF Shape, Fields, DomIds
<1>3. Tied(vm)
  BY <1>1, Bound DEF Tied, Exists, Existing, Dead, Found
<1>4. Cardinality({}) = 0 /\ Cardinality({1}) = 1
  BY FS_EmptySet, FS_Singleton
<1>5. Others(vm) = 0
  BY <1>1, <1>4 DEF Others
<1>6. /\ Busy = {} /\ DOMAIN pc = Threads /\ DOMAIN op = Threads /\ DOMAIN saved = Threads
      /\ dropped = 0
  BY DEF Init, Busy
<1> QED
  BY <1>2, <1>3, <1>4, <1>5, <1>6 DEF LifeInv, Good

LEMMA NextLife == LifeInv /\ [Next]_vars => LifeInv'
<1> SUFFICES ASSUME LifeInv, [Next]_vars PROVE LifeInv'
  OBVIOUS
<1>1. CASE \E t \in Threads : GiveUp(t) \/ Work(t)
  BY <1>1, WorkLife
<1>2. CASE \E t \in Threads, o \in Ops \ Jobless : Call(t, o)
  BY <1>2, CallLife
<1>3. CASE Define \/ Undefine \/ Suspend
  BY <1>3, DefineLife, SuspendLife
<1>4. CASE EventHandler \/ FreeHandle \/ GuestStops \/ OtherRelease
  BY <1>4, LoopLife
<1>5. CASE Restart
  BY <1>5, RestartLife
<1>6. CASE UNCHANGED vars
  BY <1>6, StayLife DEF vars, aux, LifeInv
<1> QED
  BY <1>1, <1>2, <1>3, <1>4, <1>5, <1>6 DEF Next

THEOREM LifeInvariant == Spec => []LifeInv
BY InitLife, NextLife, PTL DEF Spec

\* No Xen domain runs that its object does not record, and none whose object is off the
\* list, but for what libxlReconnectDomain could not ask Xen about, a transient domain
\* that died and could not be destroyed, and the objects libxlDomainDefineXML (its file
\* not written) and libxlDomainUndefineFlags take off the list.
THEOREM GuestsRecorded == Spec => []GuestIsRecorded
<1>1. LifeInv => GuestIsRecorded
  BY DEF LifeInv, Good, Tied, Found, GuestIsRecorded
<1> QED
  BY <1>1, LifeInvariant, PTL

\* A guest that can still stop has its handle in the event loop and its watch
\* (libxlCreateDomEvents, libxlEventHandler, libxlVmCleanup), unless libxlReconnectDomain
\* could not register them or its death event has come and it could not be destroyed.
THEOREM RunningGuestsWatched == Spec => []RunningIsWatched
<1>1. LifeInv => RunningIsWatched
  BY DEF LifeInv, Good, Tied, RunningIsWatched
<1> QED
  BY <1>1, LifeInvariant, PTL

\* virObjectRef and virObjectUnref balance: each reference is the list's, a handle's or
\* a call's, and none is missing but those libxlDomainSuspend has dropped.
THEOREM ReferencesExact == Spec => []RefsExact
<1>1. LifeInv => RefsExact
  <2> SUFFICES ASSUME LifeInv PROVE RefsExact
    OBVIOUS
  <2>1. Cardinality(vm.handles) \in Nat /\ vm.refs \in Int /\ vm.removed \in Nat
    BY HandleCount DEF LifeInv, Good, Shape
  <2>2. Cardinality(Busy) \in Nat
    BY BusyCount DEF Busy
  <2> QED
    BY <2>1, <2>2 DEF LifeInv, Others, RefsExact, Busy
<1> QED
  BY <1>1, LifeInvariant, PTL

(***************************************************************************)
(* The jobs, and what a save finds when it has its locks again.            *)
(***************************************************************************)
Saving(t) == pc[t] \in {"saving", "saved"} \/ (pc[t] = "granted" /\ op[t] \in Saves)

\* Beside a save only destroy runs, and no create does that still has its job, so nothing
\* starts.
JobsInv ==
  /\ ~robbed => GrantedHasJob
  /\ \A t \in Threads : Saving(t) => async = {<<t, "save">>}
  /\ async # {} => mask = DefaultMask /\ \A x \in normal : x[2] = "destroy"

\* While the locks are not held the saved domain is the only one there can be.
SavedOnly(t) ==
  saved[t] # 0 =>
    /\ pc[t] = "saved" /\ saved[t] \in DomIds
    /\ vm.xen[saved[t]] \in {"suspended", "gone"}
    /\ \A i \in DomIds : Exists(vm, i) => i = saved[t]

LEMMA JobsInit == Init => JobsInv
BY DEF Init, Slots!Init, JobsInv, Saving, GrantedHasJob

LEMMA JobsIdle ==
  ASSUME JobsInv, UNCHANGED jobs, UNCHANGED <<pc, op>>, UNCHANGED robbed
  PROVE  JobsInv'
BY DEF JobsInv, Saving, jobs, GrantedHasJob

LEMMA JobsWork ==
  ASSUME LifeInv, JobsInv, NEW t \in Threads, GiveUp(t) \/ Work(t)
  PROVE  JobsInv'
<1>0. DOMAIN pc = Threads /\ DOMAIN op = Threads
  BY DEF LifeInv
<1> USE DEF GrantedHasJob, aux
<1>1. CASE GiveUp(t) \/ Resume(t)
  BY <1>0, <1>1 DEF GiveUp, Resume, Return, jobs, JobsInv, Saving
<1>2. CASE Grant(t)
  <2>1. pc' = [pc EXCEPT ![t] = "granted"] /\ op' = op
    BY <1>2 DEF Grant
  <2>2. CASE op[t] \in Saves
    <3>1. Slots!StartAsync(t, "save")
      BY <1>2, <2>2 DEF Grant
    <3>2. robbed' = robbed
      BY <1>2 DEF Grant
    <3>3. /\ normal = {} /\ normal' = {} /\ async = {} /\ async' = {<<t, "save">>}
          /\ mask' = DefaultMask
      BY <3>1 DEF Slots!StartAsync
    <3>4. \A u \in Threads : pc'[u] = "granted" /\ op'[u] \notin Saves => pc[u] = "granted" /\ u # t
      BY <1>0, <2>1, <2>2
    <3>5. GrantedHasJob => GrantedHasJob'
      BY <2>1, <3>3, <3>4
    <3>6. \A u \in Threads : Saving(u)' => u = t
      BY <1>0, <2>1, <3>3 DEF JobsInv, Saving
    <3> QED
      BY <3>2, <3>3, <3>5, <3>6 DEF JobsInv
  <2>3. CASE op[t] \notin Saves
    <3>1. Slots!StartNormal(t, JobOf(op[t]))
      BY <1>2, <2>3 DEF Grant
    <3>2. async # {} => JobOf(op[t]) = "destroy"
      BY <3>1 DEF Slots!StartNormal, JobsInv, DefaultMask, JobOf
    <3>3. /\ normal = {} /\ normal' = {<<t, JobOf(op[t])>>} /\ async' = async /\ mask' = mask
      BY <3>1 DEF Slots!StartNormal
    <3>4. ~robbed => \A u \in Threads : pc[u] = "granted" => op[u] \in Saves
      BY <3>3 DEF JobsInv
    <3>5. \A u \in Threads : Saving(u)' => Saving(u)
      BY <1>0, <2>1, <2>3 DEF Saving
    <3>6. ~robbed => \A u \in Threads : pc'[u] = "granted" /\ op'[u] \notin Saves => u = t
      BY <1>0, <2>1, <3>4
    <3>7. \A x \in normal' : x[2] = JobOf(op[t])
      BY <3>3
    <3>8. robbed' = robbed
      BY <1>2 DEF Grant
    <3> QED
      BY <2>1, <3>2, <3>3, <3>5, <3>6, <3>7, <3>8 DEF JobsInv
  <2> QED
    BY <2>2, <2>3
<1>3. CASE Create(t) \/ Shutdown(t) \/ Destroy(t)
  <2>1. /\ pc[t] = "granted" /\ op[t] \notin Saves /\ EndJob /\ Return(t)
    BY <1>3 DEF Create, Shutdown, Destroy, Saves
  <2>2. ~robbed => normal = {<<t, JobOf(op[t])>>}
    BY <2>1 DEF JobsInv
  <2> QED
    BY <1>0, <2>1, <2>2 DEF EndJob, Return, JobsInv, Saving
<1>4. CASE SaveBegin(t) \/ SaveGuest(t)
  <2>1. /\ Saving(t) /\ UNCHANGED jobs /\ op' = op /\ robbed' = robbed
        /\ \E w \in {"saving", "saved"} : pc' = [pc EXCEPT ![t] = w]
    BY <1>4 DEF SaveBegin, SaveGuest, Saving
  <2> QED
    BY <1>0, <2>1 DEF JobsInv, Saving, jobs
<1>5. CASE SaveRefused(t) \/ SaveEnd(t)
  <2>1. Saving(t) /\ Slots!EndAsync /\ Return(t)
    BY <1>5 DEF SaveRefused, SaveEnd, Saving
  <2> QED
    BY <1>0, <2>1 DEF Slots!EndAsync, Return, JobsInv, Saving
<1> QED
  BY <1>1, <1>2, <1>3, <1>4, <1>5 DEF Work

LEMMA JobsNext ==
  ASSUME LifeInv, JobsInv, [Next]_vars
  PROVE  JobsInv'
<1>1. CASE \E t \in Threads : GiveUp(t) \/ Work(t)
  BY <1>1, JobsWork
<1>2. CASE \E t \in Threads, o \in Ops \ Jobless : Call(t, o)
  BY <1>2 DEF Call, jobs, JobsInv, Saving, LifeInv, GrantedHasJob, aux
<1>3. CASE Define \/ Undefine \/ EventHandler \/ FreeHandle \/ GuestStops \/ OtherRelease
  BY <1>3, JobsIdle DEF Define, Undefine, EventHandler, FreeHandle, GuestStops, OtherRelease, aux
<1>4. CASE Suspend
  BY <1>4 DEF Suspend, EndJob, JobsInv, Saving, GrantedHasJob
<1>5. CASE Restart
  BY <1>5 DEF Restart, JobsInv, Saving, GrantedHasJob
<1>6. CASE UNCHANGED vars
  BY <1>6, JobsIdle DEF vars, jobs, aux
<1> QED
  BY <1>1, <1>2, <1>3, <1>4, <1>5, <1>6 DEF Next

\* Domains only go away.
Fades == vm'.xen = vm.xen \/ \E i \in DomIds : vm'.xen = [vm.xen EXCEPT ![i] = "gone"]

LEMMA FadesSaved ==
  ASSUME LifeInv, NEW t \in Threads, SavedOnly(t), Fades,
         saved'[t] # 0 => saved'[t] = saved[t] /\ pc'[t] = pc[t]
  PROVE  SavedOnly(t)'
<1>1. \A i \in DomIds : vm'.xen[i] = vm.xen[i] \/ vm'.xen[i] = "gone"
  BY DEF Fades, LifeInv, Good, Shape
<1> QED
  BY <1>1 DEF SavedOnly, Exists, Existing, Dead

LEMMA ReapFades ==
  ASSUME LifeInv, CanReap(vm), Held(vm)
  PROVE  /\ vm.id \in DomIds
         /\ Unref(Reap(vm)).xen = [vm.xen EXCEPT ![vm.id] = "gone"]
         /\ EndAndRemove(Reap(vm)).xen = [vm.xen EXCEPT ![vm.id] = "gone"]
<1>1. vm.id \in DomIds
  BY DEF CanReap, Exists
<1>2. Good(Reap(vm)) /\ Gone(Reap(vm)) /\ Reap(vm).xen = [vm.xen EXCEPT ![vm.id] = "gone"]
  BY ReapGood DEF LifeInv, Good, Tied, CanReap, Held
<1> QED
  BY <1>1, <1>2, RefGood, EndAndRemoveGood

\* A step of another thread, or one that ends a call, leaves what t has saved alone.
LEMMA ReturnSaved ==
  ASSUME LifeInv, NEW t \in Threads, NEW u \in Threads, Return(t)
  PROVE  saved'[u] # 0 => saved'[u] = saved[u] /\ pc'[u] = pc[u]
BY DEF LifeInv, Return

LEMMA SavedWork ==
  ASSUME LifeInv, JobsInv, ~robbed, NEW t \in Threads, GiveUp(t) \/ Work(t),
         NEW u \in Threads, SavedOnly(u)
  PROVE  SavedOnly(u)'
<1>0. /\ DOMAIN pc = Threads /\ DOMAIN op = Threads /\ DOMAIN saved = Threads
      /\ Unref(vm).xen = vm.xen /\ DOMAIN vm = Fields
  BY RefGood DEF LifeInv, Good, Shape
<1>1. CASE GiveUp(t) \/ Shutdown(t)
  BY <1>0, <1>1, ReturnSaved, FadesSaved DEF GiveUp, Shutdown, Fades
<1>2. CASE Grant(t)
  <2>1. saved'[u] # 0 => saved'[u] = saved[u] /\ pc'[u] = pc[u]
    BY <1>0, <1>2 DEF Grant, SavedOnly
  <2> QED
    BY <1>2, <2>1, FadesSaved DEF Grant, Fades
<1>3. CASE Resume(t) \/ Create(t)
  <2>1. saved[u] = 0
    <3>1. SUFFICES ASSUME saved[u] # 0 PROVE FALSE
      OBVIOUS
    <3>2. async # {} /\ mask = DefaultMask /\ \A x \in normal : x[2] = "destroy"
      BY <3>1 DEF SavedOnly, JobsInv, Saving
    <3>3. CASE Resume(t)
      BY <3>2, <3>3 DEF Resume, DefaultMask
    <3>4. CASE Create(t)
      <4>1. normal = {<<t, "modify">>}
        BY <3>4 DEF Create, JobsInv, GrantedHasJob, Saves, JobOf
      <4> QED
        BY <3>2, <4>1
    <3> QED
      BY <1>3, <3>3, <3>4
  <2>2. saved'[u] = 0
    BY <1>0, <1>3, <2>1 DEF Resume, Create, Return
  <2> QED
    BY <2>2 DEF SavedOnly
<1>4. CASE Destroy(t) \/ SaveEnd(t)
  <2>1. Held(vm)
    BY <1>4 DEF Destroy, SaveEnd, LifeInv, Busy
  <2>2. Fades
    BY <1>0, <1>4, <2>1, ReapFades DEF Destroy, SaveEnd, Fades
  <2> QED
    BY <1>4, <2>2, ReturnSaved, FadesSaved DEF Destroy, SaveEnd
<1>5. CASE SaveBegin(t)
  <2>1. vm'.xen = vm.xen
    BY <1>0, <1>5 DEF SaveBegin, Fields
  <2>2. saved'[u] # 0 => saved'[u] = saved[u] /\ pc'[u] = pc[u]
    BY <1>0, <1>5 DEF SaveBegin, SavedOnly
  <2> QED
    BY <2>1, <2>2, FadesSaved DEF Fades
<1>6. CASE SaveRefused(t)
  <2> DEFINE e == [vm EXCEPT !.file = "partial"]
  <2>1. Good(e) /\ e.xen = vm.xen
    BY PartialGood
  <2>2. Unref(e).xen = vm.xen
    BY <2>1, RefGood
  <2>3. vm'.xen = vm.xen
    BY <1>0, <1>6, <2>2 DEF SaveRefused
  <2> QED
    BY <1>6, <2>3, ReturnSaved, FadesSaved DEF SaveRefused, Fades
<1>7. CASE SaveGuest(t)
  <2>1. pc[t] = "saving" /\ pc' = [pc EXCEPT ![t] = "saved"]
    BY <1>7 DEF SaveGuest
  <2>2. u # t => saved[u] = 0
    <3>1. SUFFICES ASSUME saved[u] # 0 PROVE u = t
      OBVIOUS
    <3>2. Saving(u) /\ Saving(t)
      BY <2>1, <3>1 DEF SavedOnly, Saving
    <3>3. <<u, "save">> = <<t, "save">>
      BY <3>2 DEF JobsInv
    <3> QED
      BY <3>3
  <2>3. saved[t] = 0 \/ u # t
    BY <2>1 DEF SavedOnly
  <2>4. CASE saved' = saved
    BY <2>2, <2>3, <2>4 DEF SavedOnly
  <2>5. CASE /\ Active(vm) /\ vm.xen[vm.id] = "running" /\ saved' = [saved EXCEPT ![t] = vm.id]
             /\ vm'.xen = [vm.xen EXCEPT ![vm.id] = "suspended"]
    <3>1. vm.id \in DomIds /\ \A i \in DomIds : Exists(vm, i) => i = vm.id
      <4>1. vm.id \in DomIds
        BY <2>5 DEF LifeInv, Good, Shape, Active, DomIds
      <4>2. Exists(vm, vm.id)
        BY <2>5, <4>1 DEF Exists, Existing
      <4> QED
        BY <4>1, <4>2 DEF LifeInv, Good, Tied
    <3>2. \A i \in DomIds : vm'.xen[i] = IF i = vm.id THEN "suspended" ELSE vm.xen[i]
      BY <2>5 DEF LifeInv, Good, Shape
    <3>3. u = t => saved'[u] = vm.id /\ pc'[u] = "saved"
      BY <1>0, <2>1, <2>5
    <3>4. u # t => saved'[u] = 0
      BY <1>0, <2>2, <2>5
    <3> QED
      BY <3>1, <3>2, <3>3, <3>4 DEF SavedOnly, Exists
  <2>6. saved' = saved \/ (/\ Active(vm) /\ vm.xen[vm.id] = "running"
                           /\ saved' = [saved EXCEPT ![t] = vm.id]
                           /\ vm'.xen = [vm.xen EXCEPT ![vm.id] = "suspended"])
    BY <1>0, <1>7 DEF SaveGuest, Fields
  <2> QED
    BY <2>4, <2>5, <2>6
<1> QED
  BY <1>1, <1>2, <1>3, <1>4, <1>5, <1>6, <1>7 DEF Work

\* A domain that was saved does not reboot.
LEMMA SavedEvent ==
  ASSUME LifeInv, EventHandler, NEW u \in Threads, SavedOnly(u)
  PROVE  SavedOnly(u)'
<1>1. PICK h \in vm.handles :
        IF vm.eventHdl # h THEN vm' = [RemoveHandle(vm, h) EXCEPT !.eventHdl = 0]
                           ELSE vm' \in OnDeathEvent(h)
  BY DEF EventHandler
<1>2. UNCHANGED <<pc, saved>>
  BY DEF EventHandler
<1>3. ASSUME NEW d, Shape(d), d.xen = vm.xen
      PROVE  [RemoveHandle(d, h) EXCEPT !.eventHdl = 0].xen = vm.xen
  <2>1. Shape(RemoveHandle(d, h)) /\ RemoveHandle(d, h).xen = vm.xen
    BY <1>3, RemoveHandleKeeps
  <2> QED
    BY <2>1 DEF Shape, Fields
<1>4. CASE vm.eventHdl # h
  <2>1. vm'.xen = vm.xen
    BY <1>1, <1>3, <1>4 DEF LifeInv, Good
  <2> QED
    BY <1>2, <2>1, FadesSaved DEF Fades
<1>5. CASE vm.eventHdl = h
  <2> DEFINE read == [vm EXCEPT !.readable = FALSE]
             off == [RemoveHandle(read, h) EXCEPT !.eventHdl = 0]
  <2>1. Good(read) /\ read.xen = vm.xen
    <3>1. DOMAIN read = Fields /\ \A f \in Fields \ {"readable"} : read[f] = vm[f]
      BY DEF LifeInv, Good, Shape
    <3> QED
      BY <3>1, FileGood DEF LifeInv
  <2>2. off.xen = vm.xen
    <3>1. Shape(read) /\ read.xen = vm.xen
      BY <2>1 DEF Good
    <3> HIDE DEF read
    <3> QED
      BY <1>3, <3>1
  <2>3. \/ vm' = read \/ vm' = off
        \/ Active(vm) /\ vm.xen[vm.id] \in {"poweroff", "reboot"}
    BY <1>1, <1>5 DEF OnDeathEvent, Dead
  <2>4. CASE vm' = read \/ vm' = off
    BY <1>2, <2>1, <2>2, <2>4, FadesSaved DEF Fades
  <2>5. CASE Active(vm) /\ vm.xen[vm.id] \in {"poweroff", "reboot"}
    <3>1. vm.id \in DomIds /\ Exists(vm, vm.id)
      BY <2>5 DEF LifeInv, Good, Shape, Active, DomIds, Exists, Existing, Dead
    <3>2. saved[u] = 0
      BY <2>5, <3>1 DEF SavedOnly
    <3> QED
      BY <1>2, <3>2 DEF SavedOnly
  <2> QED
    BY <2>3, <2>4, <2>5
<1> QED
  BY <1>4, <1>5

LEMMA SavedNext ==
  ASSUME LifeInv, JobsInv, ~robbed, [Next]_vars, NEW u \in Threads, SavedOnly(u)
  PROVE  SavedOnly(u)'
<1>0. /\ DOMAIN pc = Threads /\ DOMAIN op = Threads /\ DOMAIN saved = Threads
      /\ DOMAIN vm = Fields
  BY DEF LifeInv, Good, Shape
<1>1. CASE \E t \in Threads : GiveUp(t) \/ Work(t)
  BY <1>1, SavedWork
<1>2. CASE \E t \in Threads, o \in Ops \ Jobless : Call(t, o)
  <2>1. vm'.xen = vm.xen /\ saved' = saved /\ (saved[u] # 0 => pc'[u] = pc[u])
    BY <1>0, <1>2, RefGood DEF Call, SavedOnly, LifeInv
  <2> QED
    BY <2>1, FadesSaved DEF Fades
<1>3. CASE OtherRelease
  <2>1. vm'.xen = vm.xen /\ saved' = saved /\ pc' = pc
    BY <1>0, <1>3 DEF OtherRelease, Fields
  <2> QED
    BY <2>1, FadesSaved DEF Fades
<1>4. CASE Define \/ Undefine
  <2> DEFINE d == [vm EXCEPT !.config = FALSE, !.file = "none"]
  <2>1. /\ \A f \in Fields \ {"listed", "refs"} : RemoveInactive(vm)[f] = vm[f]
        /\ DOMAIN RemoveInactive(vm) = Fields
    BY RemoveInactiveKeeps DEF LifeInv, Good, Shape
  <2>2. Shape(d) /\ d.xen = vm.xen
    BY <1>0 DEF LifeInv, Good, Shape, Fields
  <2>3. /\ \A f \in Fields \ {"listed", "refs"} : RemoveInactive(d)[f] = d[f]
        /\ DOMAIN RemoveInactive(d) = Fields
    BY <2>2, RemoveInactiveKeeps DEF Shape
  <2>4. \/ vm' = [vm EXCEPT !.persistent = TRUE, !.config = TRUE]
        \/ vm' = [RemoveInactive(vm) EXCEPT !.persistent = TRUE, !.offList = TRUE]
        \/ vm' = [d EXCEPT !.persistent = FALSE]
        \/ vm' = [RemoveInactive(d) EXCEPT !.offList = TRUE]
    BY <1>4 DEF Define, Undefine
  <2> HIDE DEF d
  <2>5. RemoveInactive(vm).xen = vm.xen /\ RemoveInactive(d).xen = vm.xen
    BY <2>1, <2>2, <2>3 DEF Fields
  <2>6. vm'.xen = vm.xen
    <3>1. CASE vm' = [vm EXCEPT !.persistent = TRUE, !.config = TRUE]
      BY <1>0, <3>1 DEF Fields
    <3>2. CASE vm' = [RemoveInactive(vm) EXCEPT !.persistent = TRUE, !.offList = TRUE]
      BY <2>1, <2>5, <3>2 DEF Fields
    <3>3. CASE vm' = [d EXCEPT !.persistent = FALSE]
      BY <2>2, <3>3 DEF Shape, Fields
    <3>4. CASE vm' = [RemoveInactive(d) EXCEPT !.offList = TRUE]
      BY <2>3, <2>5, <3>4 DEF Fields
    <3> QED
      BY <2>4, <3>1, <3>2, <3>3, <3>4
  <2> QED
    BY <1>4, <2>6, FadesSaved DEF Define, Undefine, Fades
<1>10. CASE Suspend
  <2>1. \/ \A i \in DomIds : vm'.xen[i] = vm.xen[i]
        \/ Exists(vm, vm.id) /\ vm.xen[vm.id] = "running"
    <3>1. CASE vm' = Unref(vm)
      BY <3>1, RefGood DEF LifeInv
    <3>2. CASE /\ vm.xen[vm.id] # "running"
               /\ vm' = Unref([vm EXCEPT !.state = "paused",
                                         !.xen[vm.id] = IF @ = "running" THEN "paused" ELSE @])
      <4> DEFINE e == [vm EXCEPT !.state = "paused",
                                 !.xen[vm.id] = IF @ = "running" THEN "paused" ELSE @]
      <4>1. DOMAIN e = Fields /\ \A i \in DomIds : e.xen[i] = vm.xen[i]
        BY <1>0, <3>2 DEF Fields, LifeInv, Good, Shape
      <4>2. vm' = Unref(e)
        BY <3>2
      <4> HIDE DEF e
      <4> QED
        BY <4>1, <4>2 DEF Unref, Fields
    <3> QED
      BY <1>10, <3>1, <3>2 DEF Suspend
  <2>2. CASE \A i \in DomIds : vm'.xen[i] = vm.xen[i]
    BY <1>10, <2>2 DEF Suspend, SavedOnly, Exists
  <2>3. CASE Exists(vm, vm.id) /\ vm.xen[vm.id] = "running"
    <3>1. saved[u] = 0
      BY <2>3 DEF SavedOnly, Exists
    <3> QED
      BY <1>10, <3>1 DEF Suspend, SavedOnly
  <2> QED
    BY <2>1, <2>2, <2>3
<1>5. CASE EventHandler
  BY <1>5, SavedEvent
<1>6. CASE FreeHandle
  <2>1. Good(Unref(vm)) /\ Unref(vm).xen = vm.xen
    BY RefGood DEF LifeInv
  <2>2. vm'.xen = vm.xen
    BY <1>6, <2>1 DEF FreeHandle, Good, Shape, Fields
  <2> QED
    BY <1>6, <2>2, FadesSaved DEF FreeHandle, Fades
<1>7. CASE GuestStops
  <2>1. \E i \in DomIds : vm.xen[i] = "running"
    BY <1>7 DEF GuestStops
  <2>2. saved[u] = 0
    BY <2>1 DEF SavedOnly, Exists, Existing
  <2> QED
    BY <1>7, <2>2 DEF GuestStops, SavedOnly
<1>8. CASE Restart
  BY <1>8 DEF Restart, SavedOnly
<1>9. CASE UNCHANGED vars
  BY <1>9 DEF vars, SavedOnly, Exists
<1> QED
  BY <1>1, <1>2, <1>3, <1>4, <1>5, <1>6, <1>7, <1>8, <1>9, <1>10 DEF Next

SaveInv ==
  /\ LifeInv /\ JobsInv
  /\ ~robbed => \A t \in Threads : SavedOnly(t)

\* Only the end of a save destroys a domain while its thread goes idle from there.
LEMMA SaveEnds ==
  ASSUME SaveInv, [Next]_vars, NEW t \in Threads, NEW i \in DomIds,
         pc[t] = "saved", pc'[t] = "idle", vm.xen[i] \in Existing, vm'.xen[i] = "gone"
  PROVE  saved[t] = i \/ robbed
<1>1. SaveEnd(t) \/ Restart
  <2>1. CASE \E u \in Threads : GiveUp(u) \/ Work(u)
    <3>1. PICK u \in Threads : GiveUp(u) \/ Work(u)
      BY <2>1
    <3>2. u = t
      BY <3>1 DEF SaveInv, LifeInv, GiveUp, Work, Grant, Resume, Create, Shutdown, Destroy,
                  SaveBegin, SaveRefused, SaveGuest, SaveEnd, Return
    <3> QED
      BY <3>1, <3>2 DEF GiveUp, Work, Grant, Resume, Create, Shutdown, Destroy,
                  SaveBegin, SaveRefused, SaveGuest
  <2>2. CASE \E u \in Threads, o \in Ops \ Jobless : Call(u, o)
    BY <2>2 DEF Call, SaveInv, LifeInv
  <2>3. CASE \/ Define \/ Undefine \/ Suspend
             \/ EventHandler \/ FreeHandle \/ GuestStops \/ OtherRelease
    BY <2>3 DEF Define, Undefine, Suspend, EventHandler, FreeHandle, GuestStops, OtherRelease
  <2>4. CASE UNCHANGED vars
    BY <2>4 DEF vars
  <2> QED
    BY <2>1, <2>2, <2>3, <2>4 DEF Next
<1>2. Exists(vm, i) /\ vm'.xen[i] # vm.xen[i]
  BY DEF Exists, Existing, Dead
<1>3. CASE Restart
  BY <1>2, <1>3, RestartLife DEF SaveInv, Gone
<1>4. CASE SaveEnd(t)
  <2>1. saved[t] # 0
    BY <1>2, <1>4, RefGood DEF SaveEnd, SaveInv, LifeInv
  <2> QED
    BY <1>2, <2>1 DEF SaveInv, SavedOnly
<1> QED
  BY <1>1, <1>3, <1>4

LEMMA InitSave == Init => SaveInv
<1> SUFFICES ASSUME Init PROVE SaveInv
  OBVIOUS
<1>1. \A t \in Threads : SavedOnly(t)
  BY DEF Init, SavedOnly
<1> QED
  BY <1>1, InitLife, JobsInit DEF SaveInv

LEMMA NextSave == SaveInv /\ [Next]_vars => SaveInv'
<1> SUFFICES ASSUME SaveInv, [Next]_vars PROVE SaveInv'
  OBVIOUS
<1>1. LifeInv' /\ JobsInv'
  BY NextLife, JobsNext DEF SaveInv
<1>2. CASE ~robbed
  BY <1>1, <1>2, SavedNext DEF SaveInv
<1>3. CASE robbed
  <2>1. robbed' \/ Restart
    BY <1>3 DEF Next, GiveUp, Work, Grant, Resume, Create, Shutdown, Destroy, SaveBegin,
                SaveRefused, SaveGuest, SaveEnd, Return, Call, Define, Undefine, Suspend,
                EventHandler, FreeHandle, GuestStops, OtherRelease, vars, aux
  <2>2. Restart => \A t \in Threads : SavedOnly(t)'
    BY DEF Restart, SavedOnly
  <2> QED
    BY <1>1, <2>1, <2>2 DEF SaveInv
<1> QED
  BY <1>2, <1>3

THEOREM SaveInvariant == Spec => []SaveInv
BY InitSave, NextSave, PTL DEF Spec

SavesItsOwn ==
  \A t \in Threads, i \in DomIds :
    pc[t] = "saved" /\ pc'[t] = "idle" /\ vm.xen[i] \in Existing /\ vm'.xen[i] = "gone"
      => saved[t] = i \/ robbed

\* libxlDoDomainSave, when it has its locks again, destroys the domain that it saved and
\* none that was started while it had let go of them, unless libxlDomainSuspend has ended
\* the job of a call that started one.
THEOREM SavesDestroyTheirGuests == Spec => SaveDestroysItsGuest
<1>1. SaveInv /\ [Next]_vars => [SavesItsOwn]_vars
  BY SaveEnds DEF SavesItsOwn
<1>2. Spec => [][SavesItsOwn]_vars
  BY <1>1, SaveInvariant, PTL DEF Spec
<1> QED
  BY <1>2 DEF SaveDestroysItsGuest, SavesItsOwn
===============================================================================
