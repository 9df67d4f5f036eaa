------------------------------- MODULE Xl_proofs -------------------------------
(***************************************************************************)
(* Proofs about xl's processes.  CPU pools (XlPools): scheduling           *)
(* parameters stay valid together, a pool loses its last chance of a name  *)
(* only in the ways that are said, and numa-split that nobody disturbs     *)
(* gives each node a pool of its CPUs.  Domains (XlDomains): names are     *)
(* unique.  Memory (XlMemory): targets are what was asked for, in xenstore *)
(* and in the hypervisor.  Devices (XlDevices): cd drives stay, and an     *)
(* eject is told of once.  Each theorem is about one of the specifications.*)
(***************************************************************************)
EXTENDS XlPools, XlDomains, XlMemory, XlDevices, FiniteSetTheorems, TLAPS

(***************************************************************************)
(* XlPools.                                                                *)
(***************************************************************************)
Fields == {"pc", "op", "pool", "name", "todo", "node", "nodes", "dom", "num", "tries", "kind", "new"}
Params == {"weight", "cap", "period", "slice"}

\* A sedf domain has a weight, or a period and a slice.
OneOf(r) == r.weight = 0 \/ (r.period = 0 /\ r.slice = 0)

\* A process that is going to write parameters has a valid set of them, though other
\* processes may have written theirs meanwhile; one that is going to name a pool has
\* a name for it; and only one that makes a pool adds its first CPUs.
Proper(r) ==
  /\ DOMAIN r = Fields /\ r.pool \in Pools /\ r.dom \in Doms
  /\ r.pc = "set" /\ r.op = "share" => DOMAIN r.new = Params /\ (r.kind = Sedf => OneOf(r.new))
  /\ r.pc \in {"free", "make", "add", "check", "name"} => r.name \in Names
  /\ r.op = "split" => r.node \in Nodes /\ r.nodes \subseteq Nodes
  /\ r.op = "split" /\ r.pc \in {"nodecpus", "take"} => r.name \in Names
  /\ r.pc = "free" => r.op = "create"
  /\ r.pc \in {"make", "add"} => r.op \in {"create", "split"}

PoolShapes ==
  /\ DOMAIN sched = Pools /\ DOMAIN rate = Pools /\ DOMAIN name = Pools
  /\ DOMAIN home = Doms /\ DOMAIN share = Doms /\ DOMAIN proc = Procs

\* A domain is in a pool that there is: without it, Xen's own scheduler would not be
\* the one whose parameters ParamsFit compares.
PoolsInv ==
  /\ PoolShapes
  /\ \A d \in Doms : home[d] \in Pools /\ There(home[d]) /\ DOMAIN share[d] = Params
  /\ \A p \in Procs : Proper(proc[p])
  /\ ParamsFit

LEMMA Constants ==
  /\ 0 \in Pools /\ 0 \in Doms /\ 0 \in Cpus
  /\ None \notin Names \cup Scheds \cup {Credit, Sedf} /\ Credit # Sedf
  /\ Node0 \in Nodes
  /\ \A n \in Nodes : Called[n] \in Names
  /\ RateOk(FreshRate)
  /\ \A s : ShareOk(s, Fresh(s)) /\ (s = Sedf => OneOf(Fresh(s))) /\ DOMAIN Fresh(s) = Params
<1>1. /\ 0 \in Pools /\ 0 \in Doms /\ 0 \in Cpus
      /\ None \notin Names \cup Scheds \cup {Credit, Sedf}
      /\ \A n \in Nodes : Called[n] \in Names
  BY PoolAssumption
<1>2. Credit # Sedf
  BY DEF Credit, Sedf
<1>3. Node0 \in Nodes
  BY <1>1 DEF Node0, Nodes
<1>4. RateOk(FreshRate)
  BY PoolAssumption DEF RateOk, FreshRate
<1>5. ASSUME NEW s
      PROVE  ShareOk(s, Fresh(s)) /\ (s = Sedf => OneOf(Fresh(s))) /\ DOMAIN Fresh(s) = Params
  BY <1>2, PoolAssumption DEF ShareOk, Fresh, OneOf, Params
<1> QED
  BY <1>1, <1>2, <1>3, <1>4, <1>5

LEMMA IdleProper == Proper(PoolsIdle)
BY Constants DEF Proper, PoolsIdle, Fields

\* Most steps change only the place of one process, CPUs, names or transactions.
LEMMA Quiet ==
  ASSUME PoolsInv, NEW p \in Procs, NEW r, Proper(r), Go(p, r),
         UNCHANGED <<sched, home, rate, share>>, DOMAIN name' = Pools
  PROVE  PoolsInv'
<1>1. PoolShapes' /\ \A q \in Procs : Proper(proc'[q])
  BY DEF PoolsInv, PoolShapes, Go
<1>2. ParamsFit' /\ \A d \in Doms : home'[d] \in Pools /\ There(home[d])' /\ DOMAIN share'[d] = Params
  BY DEF PoolsInv, ParamsFit, There
<1> QED
  BY <1>1, <1>2 DEF PoolsInv

LEMMA Begins ==
  ASSUME PoolsInv, NEW p \in Procs, NEW r, Proper(r), Begin(p, r)
  PROVE  PoolsInv'
BY Quiet DEF Begin, xen, store, PoolsInv, PoolShapes

LEMMA CommandsKeep ==
  ASSUME PoolsInv, NEW p \in Procs, Commands(p)
  PROVE  PoolsInv'
<1> USE Constants
<1>1. CASE Create(p)
  <2>1. PICK n \in Names, s \in Scheds, want \in SUBSET Cpus, by \in {"cpus", "nodes"} :
          Begin(p, [PoolsIdle EXCEPT !.pc = "free", !.op = "create", !.name = n, !.kind = s,
                                     !.todo = want, !.new = by])
    BY <1>1 DEF Create
  <2> QED
    BY <2>1, Begins DEF Proper, PoolsIdle, Fields
<1>2. CASE Destroy(p)
  BY <1>2, Begins DEF Destroy, Proper, PoolsIdle, Fields
<1>3. CASE Rename(p)
  <2>1. PICK q \in Pools, n \in Names :
          Begin(p, [PoolsIdle EXCEPT !.pc = "check", !.op = "rename", !.pool = q, !.name = n])
    BY <1>3 DEF Rename
  <2> QED
    BY <2>1, Begins DEF Proper, PoolsIdle, Fields
<1>4. CASE CpuAdd(p)
  BY <1>4, Begins DEF CpuAdd, Proper, PoolsIdle, Fields
<1>5. CASE CpuRemove(p)
  BY <1>5, Begins DEF CpuRemove, Proper, PoolsIdle, Fields
<1>6. CASE Migrate(p)
  BY <1>6, Begins DEF Migrate, Proper, PoolsIdle, Fields
<1>7. CASE VcpuSet(p)
  BY <1>7, Begins DEF VcpuSet, Proper, PoolsIdle, Fields
<1>8. CASE Split(p)
  BY <1>8, Begins DEF Split, Proper, PoolsIdle, Fields
<1>9. CASE SchedPool(p)
  <2>1. PICK q, v :
          /\ q \in Pools
          /\ Begin(p, [PoolsIdle EXCEPT !.pc = "get", !.op = "rate", !.pool = q, !.kind = Credit, !.new = v])
    BY <1>9 DEF SchedPool
  <2> QED
    BY <2>1, Begins DEF Proper, PoolsIdle, Fields
<1>10. CASE SchedDom(p)
  <2>1. PICK d, s, v :
          /\ d \in Doms
          /\ Begin(p, [PoolsIdle EXCEPT !.pc = "get", !.op = "share", !.dom = d, !.kind = s, !.new = v])
    BY <1>10 DEF SchedDom
  <2> QED
    BY <2>1, Begins DEF Proper, PoolsIdle, Fields
<1> QED
  BY <1>1, <1>2, <1>3, <1>4, <1>5, <1>6, <1>7, <1>8, <1>9, <1>10 DEF Commands

LEMMA NamesKeep ==
  ASSUME PoolsInv, NEW q, NEW n, name' = [name EXCEPT ![q] = n]
  PROVE  DOMAIN name' = Pools
BY DEF PoolsInv, PoolShapes

LEMMA PoolsKept ==
  ASSUME PoolsInv
  PROVE  DOMAIN name = Pools /\ \A p \in Procs : Proper(proc[p])
BY DEF PoolsInv, PoolShapes

LEMMA IdleKeeps ==
  ASSUME PoolsInv, NEW p \in Procs, Go(p, PoolsIdle),
         UNCHANGED <<sched, home, rate, share>>, DOMAIN name' = Pools
  PROVE  PoolsInv'
BY Quiet, IdleProper

LEMMA CreateKeeps ==
  ASSUME PoolsInv, NEW p \in Procs,
         ReadFree(p) \/ AddRefused(p) \/ Add(p) \/ Added(p) \/ WriteName(p) \/ NameAgain(p)
  PROVE  PoolsInv'
<1> DEFINE r == proc[p]
<1>r. Proper(r) /\ DOMAIN name = Pools
  BY PoolsKept
<1>1. CASE ReadFree(p)
  <2>1. \/ Go(p, PoolsIdle)
        \/ Go(p, [r EXCEPT !.pc = "make", !.todo = @ \cap FreeCpus])
    BY <1>1 DEF ReadFree
  <2>2. Proper([r EXCEPT !.pc = "make", !.todo = @ \cap FreeCpus])
    BY <1>1, <1>r DEF ReadFree, At, Proper, Fields
  <2> QED
    BY <1>1, <1>r, <2>1, <2>2, Quiet, IdleProper DEF ReadFree, xen, store
<1>2. CASE AddRefused(p)
  <2>1. Proper([r EXCEPT !.pc = "info"])
    BY <1>r DEF Proper, Fields
  <2> QED
    BY <1>2, <1>r, <2>1, Quiet DEF AddRefused, xen, store
<1>3. CASE Add(p)
  <2>1. PICK c \in Cpus : Go(p, [r EXCEPT !.todo = @ \ {c}])
    BY <1>3 DEF Add
  <2>2. Proper([r EXCEPT !.todo = @ \ {c}])
    BY <1>r DEF Proper, Fields
  <2> QED
    BY <1>3, <1>r, <2>1, <2>2, Quiet DEF Add, store
<1>4. CASE Added(p)
  <2>1. Proper([r EXCEPT !.pc = "name"])
    BY <1>4, <1>r DEF Added, At, Proper, Fields
  <2> QED
    BY <1>4, <1>r, <2>1, Quiet DEF Added, xen, store
<1>5. CASE WriteName(p)
  <2>1. Proper(Named(r))
    BY <1>r, IdleProper DEF Named, Proper, Fields
  <2>2. DOMAIN name' = Pools
    BY <1>5, NamesKeep DEF WriteName
  <2> QED
    BY <1>5, <2>1, <2>2, Quiet DEF WriteName, xen
<1>6. CASE NameAgain(p)
  BY <1>6 DEF NameAgain, xen, store, PoolsInv, PoolShapes, ParamsFit, There
<1> QED
  BY <1>1, <1>2, <1>3, <1>4, <1>5, <1>6

\* The id of a new pool is that of no domain's pool; it starts with the defaults.
LEMMA MakeKeeps ==
  ASSUME PoolsInv, NEW p \in Procs, Make(p)
  PROVE  PoolsInv'
<1> DEFINE r == proc[p]
<1>1. PICK q \in Pools : /\ ~There(q)
                        /\ sched' = [sched EXCEPT ![q] = r.kind]
                        /\ rate' = [rate EXCEPT ![q] = FreshRate]
                        /\ Go(p, [r EXCEPT !.pc = "add", !.pool = q])
  BY DEF Make
<1>2. UNCHANGED <<home, share, name>>
  BY DEF Make, store
<1>3. Proper([r EXCEPT !.pc = "add", !.pool = q])
  BY PoolsKept DEF Make, At, Proper, Fields
<1>4. PoolShapes' /\ \A o \in Procs : Proper(proc'[o])
  BY <1>1, <1>2, <1>3 DEF PoolsInv, PoolShapes, Go
<1>5. \A d \in Doms : home[d] # q /\ sched'[home[d]] = sched[home[d]]
  BY <1>1 DEF PoolsInv, There, PoolShapes
<1>6. \A d \in Doms : home'[d] \in Pools /\ There(home[d])' /\ DOMAIN share'[d] = Params
  BY <1>2, <1>5 DEF PoolsInv, There
<1>7. \A o \in Pools : sched'[o] = Credit => RateOk(rate'[o])
  BY <1>1, Constants DEF PoolsInv, ParamsFit, PoolShapes
<1>8. ParamsFit'
  BY <1>2, <1>5, <1>7 DEF PoolsInv, ParamsFit
<1> QED
  BY <1>4, <1>6, <1>8 DEF PoolsInv

\* Only a pool with no domain is destroyed.
LEMMA DropKeeps ==
  ASSUME PoolsInv, NEW p \in Procs, Drop(p)
  PROVE  PoolsInv'
<1> DEFINE r == proc[p]
           q == proc[p].pool
<1>1. /\ sched' = [sched EXCEPT ![q] = None] /\ Go(p, [r EXCEPT !.pc = "rm"])
      /\ DomsOf(q) = {} /\ UNCHANGED <<home, rate, share, name>>
  BY DEF Drop, Vacant, store
<1>2. Proper([r EXCEPT !.pc = "rm"])
  BY PoolsKept DEF Proper, Fields
<1>3. PoolShapes' /\ \A o \in Procs : Proper(proc'[o])
  BY <1>1, <1>2 DEF PoolsInv, PoolShapes, Go
<1>4. \A d \in Doms : home[d] # q /\ sched'[home[d]] = sched[home[d]]
  BY <1>1 DEF PoolsInv, DomsOf, PoolShapes
<1>5. \A d \in Doms : home'[d] \in Pools /\ There(home[d])' /\ DOMAIN share'[d] = Params
  BY <1>1, <1>4 DEF PoolsInv, There
<1>6. \A o \in Pools : sched'[o] = Credit => RateOk(rate'[o])
  BY <1>1, Constants DEF PoolsInv, ParamsFit, PoolShapes
<1>7. ParamsFit'
  BY <1>1, <1>4, <1>6 DEF PoolsInv, ParamsFit
<1> QED
  BY <1>3, <1>5, <1>7 DEF PoolsInv

LEMMA DestroyKeeps ==
  ASSUME PoolsInv, NEW p \in Procs,
         \/ Check(p) \/ Info(p) \/ RemoveCpu(p) \/ DestroyRefused(p)
         \/ RmBegin(p) \/ RmNode(p) \/ RmEnd(p)
  PROVE  PoolsInv'
<1> DEFINE r == proc[p]
<1>r. Proper(r) /\ DOMAIN name = Pools
  BY PoolsKept
<1>1. CASE Check(p)
  <2>1. Proper([r EXCEPT !.pc = "name"])
    BY <1>1, <1>r DEF Check, At, Proper, Fields
  <2>2. Go(p, PoolsIdle) \/ Go(p, [r EXCEPT !.pc = "name"])
    BY <1>1 DEF Check
  <2> QED
    BY <1>1, <1>r, <2>1, <2>2, Quiet, IdleProper DEF Check, xen, store
<1>2. CASE Info(p)
  <2>1. Proper([r EXCEPT !.pc = "remove", !.todo = CpusOf(r.pool)])
    BY <1>r DEF Proper, Fields
  <2> QED
    BY <1>2, <1>r, <2>1, Quiet DEF Info, xen, store
<1>3. CASE RemoveCpu(p)
  <2>1. PICK c \in Cpus : Go(p, [r EXCEPT !.todo = @ \ {c}])
    BY <1>3 DEF RemoveCpu
  <2>2. Proper([r EXCEPT !.todo = @ \ {c}])
    BY <1>r DEF Proper, Fields
  <2> QED
    BY <1>3, <1>r, <2>1, <2>2, Quiet DEF RemoveCpu, store
<1>4. CASE DestroyRefused(p)
  BY <1>4, <1>r, IdleKeeps DEF DestroyRefused, xen, store
<1>5. CASE RmBegin(p)
  <2>1. Proper([r EXCEPT !.pc = "rmnode"])
    BY <1>r DEF Proper, Fields
  <2> QED
    BY <1>5, <1>r, <2>1, Quiet DEF RmBegin, xen, store
<1>6. CASE RmNode(p)
  <2>1. Proper([r EXCEPT !.pc = "rmend"])
    BY <1>r DEF Proper, Fields
  <2>2. DOMAIN name' = Pools
    BY <1>6, NamesKeep DEF RmNode
  <2> QED
    BY <1>6, <2>1, <2>2, Quiet DEF RmNode, xen
<1>7. CASE RmEnd(p)
  <2>1. Proper([r EXCEPT !.pc = "rm"])
    BY <1>r DEF Proper, Fields
  <2>2. Go(p, PoolsIdle) \/ Go(p, [r EXCEPT !.pc = "rm"])
    BY <1>7 DEF RmEnd
  <2> QED
    BY <1>7, <1>r, <2>1, <2>2, Quiet, IdleProper DEF RmEnd, xen, store
<1> QED
  BY <1>1, <1>2, <1>3, <1>4, <1>5, <1>6, <1>7

LEMMA NodeKeeps ==
  ASSUME PoolsInv, NEW p \in Procs,
         NodeFree(p) \/ Put(p) \/ PutEnds(p) \/ ReadCpus(p) \/ Take(p) \/ TakeEnds(p)
  PROVE  PoolsInv'
<1> DEFINE r == proc[p]
<1>r. Proper(r) /\ DOMAIN name = Pools
  BY PoolsKept
<1>a. \A c : Proper([r EXCEPT !.todo = @ \ {c}])
  BY <1>r DEF Proper, Fields
<1>1. CASE NodeFree(p)
  <2>1. Proper([r EXCEPT !.pc = "put", !.todo = FreeCpus \cap NodeCpus(r.node)])
    BY <1>r DEF Proper, Fields
  <2> QED
    BY <1>1, <1>r, <2>1, Quiet DEF NodeFree, xen, store
<1>2. CASE Put(p)
  <2>1. PICK c \in Cpus : Go(p, [r EXCEPT !.todo = @ \ {c}])
    BY <1>2 DEF Put
  <2> QED
    BY <1>2, <1>r, <1>a, <2>1, Quiet DEF Put, store
<1>3. CASE PutEnds(p)
  <2>1. \/ Go(p, PoolsIdle)
        \/ r.op = "split" /\ Go(p, [r EXCEPT !.pc = "check", !.name = Called[r.node]])
        \/ Go(p, [r EXCEPT !.pc = "next"])
    BY <1>3 DEF PutEnds
  <2>2. r.op = "split" => Proper([r EXCEPT !.pc = "check", !.name = Called[r.node]])
    BY <1>r, Constants DEF Proper, Fields
  <2>3. Proper([r EXCEPT !.pc = "next"])
    BY <1>r DEF Proper, Fields
  <2> QED
    BY <1>3, <1>r, <2>1, <2>2, <2>3, Quiet, IdleProper DEF PutEnds, xen, store
<1>4. CASE ReadCpus(p)
  <2>1. Proper([r EXCEPT !.pc = "take", !.todo = CpusOf(r.pool) \cap NodeCpus(r.node)])
    BY <1>4, <1>r DEF ReadCpus, At, Proper, Fields
  <2> QED
    BY <1>4, <1>r, <2>1, Quiet DEF ReadCpus, xen, store
<1>5. CASE Take(p)
  <2>1. PICK c \in Cpus : Go(p, [r EXCEPT !.todo = @ \ {c}])
    BY <1>5 DEF Take
  <2> QED
    BY <1>5, <1>r, <1>a, <2>1, Quiet DEF Take, store
<1>6. CASE TakeEnds(p)
  <2>1. Go(p, PoolsIdle) \/ (r.op = "split" /\ Go(p, [r EXCEPT !.pc = "make"]))
    BY <1>6 DEF TakeEnds
  <2>2. r.op = "split" => Proper([r EXCEPT !.pc = "make"])
    BY <1>6, <1>r DEF TakeEnds, At, Proper, Fields
  <2> QED
    BY <1>6, <1>r, <2>1, <2>2, Quiet, IdleProper DEF TakeEnds, xen, store
<1> QED
  BY <1>1, <1>2, <1>3, <1>4, <1>5, <1>6

LEMMA SplitKeeps ==
  ASSUME PoolsInv, NEW p \in Procs,
         \/ VcpusBegin(p) \/ VcpusEnd(p) \/ VcpusAgain(p) \/ Poll(p)
         \/ NextNode(p) \/ SplitEnds(p)
  PROVE  PoolsInv'
<1> DEFINE r == proc[p]
<1>r. Proper(r) /\ DOMAIN name = Pools
  BY PoolsKept
<1>1. CASE VcpusBegin(p)
  <2>1. Proper([r EXCEPT !.pc = "avail"])
    BY <1>r DEF Proper, Fields
  <2> QED
    BY <1>1, <1>r, <2>1, Quiet DEF VcpusBegin, xen, store
<1>2. CASE VcpusEnd(p)
  <2>1. Proper([r EXCEPT !.pc = "poll", !.tries = Polls])
    BY <1>r DEF Proper, Fields
  <2>2. Go(p, PoolsIdle) \/ Go(p, [r EXCEPT !.pc = "poll", !.tries = Polls])
    BY <1>2 DEF VcpusEnd
  <2> QED
    BY <1>2, <1>r, <2>1, <2>2, Quiet, IdleProper DEF VcpusEnd, xen
<1>3. CASE VcpusAgain(p)
  BY <1>3 DEF VcpusAgain, xen, store, PoolsInv, PoolShapes, ParamsFit, There
<1>4. CASE Poll(p)
  <2>1. Proper([r EXCEPT !.pc = "next"]) /\ Proper([r EXCEPT !.tries = @ - 1])
    BY <1>4, <1>r DEF Poll, At, Proper, Fields
  <2>2. Go(p, PoolsIdle) \/ Go(p, [r EXCEPT !.pc = "next"]) \/ Go(p, [r EXCEPT !.tries = @ - 1])
    BY <1>4 DEF Poll
  <2> QED
    BY <1>4, <1>r, <2>1, <2>2, Quiet, IdleProper DEF Poll, xen, store
<1>5. CASE NextNode(p)
  <2>1. PICK n \in r.nodes : Go(p, [r EXCEPT !.pc = "nodecpus", !.pool = 0, !.node = n,
                                             !.name = Called[n], !.nodes = @ \ {n}])
    BY <1>5 DEF NextNode
  <2>2. Proper([r EXCEPT !.pc = "nodecpus", !.pool = 0, !.node = n,
                         !.name = Called[n], !.nodes = @ \ {n}])
    BY <1>r, Constants DEF Proper, Fields
  <2> QED
    BY <1>5, <1>r, <2>1, <2>2, Quiet DEF NextNode, xen, store
<1>6. CASE SplitEnds(p)
  BY <1>6, <1>r, IdleKeeps DEF SplitEnds, xen, store
<1> QED
  BY <1>1, <1>2, <1>3, <1>4, <1>5, <1>6

\* A domain that is moved gets the defaults of its new scheduler.
LEMMA MoveKeeps ==
  ASSUME PoolsInv, NEW p \in Procs, Move(p)
  PROVE  PoolsInv'
<1> DEFINE r == proc[p]
           q == r.pool
           d == r.dom
<1>1. Go(p, PoolsIdle) /\ UNCHANGED <<sched, rate, name>>
  BY DEF Move, store
<1>2. CASE UNCHANGED <<home, share>>
  BY <1>1, <1>2, PoolsKept, IdleKeeps
<1>3. CASE There(q) /\ home' = [home EXCEPT ![d] = q] /\ share' = [share EXCEPT ![d] = Fresh(sched[q])]
  <2>1. q \in Pools /\ d \in Doms
    BY PoolsKept DEF Proper
  <2>2. PoolShapes' /\ \A o \in Procs : Proper(proc'[o])
    BY <1>1, <1>3, IdleProper DEF PoolsInv, PoolShapes, Go
  <2>3. \A e \in Doms : /\ e = d => home'[e] = q /\ share'[e] = Fresh(sched[q])
                        /\ e # d => home'[e] = home[e] /\ share'[e] = share[e]
    BY <1>3 DEF PoolsInv, PoolShapes
  <2>4. \A e \in Doms : home'[e] \in Pools /\ There(home[e])' /\ DOMAIN share'[e] = Params
    BY <1>1, <1>3, <2>1, <2>3, Constants DEF PoolsInv, There
  <2>5. ParamsFit'
    BY <1>1, <2>3, Constants DEF PoolsInv, ParamsFit, OneOf
  <2> QED
    BY <2>2, <2>4, <2>5 DEF PoolsInv
<1> QED
  BY <1>2, <1>3 DEF Move

\* What is read and what is given make a valid set, whoever else writes meanwhile.
LEMMA ChangedFits ==
  ASSUME NEW s, NEW given, NEW old, DOMAIN old = Params, s = Sedf => OneOf(old)
  PROVE  /\ DOMAIN Changed(s, given, old) = Params
         /\ s = Sedf => OneOf(Changed(s, given, old))
<1> DEFINE new == Merge(given, old)
<1>1. DOMAIN new = Params /\ \A f \in Params : new[f] = IF f \in DOMAIN given THEN given[f] ELSE old[f]
  BY DEF Merge
<1>2. \A f \in {"weight", "cap", "period", "slice"} : f \in Params
  BY DEF Params
<1>3. CASE s # Sedf
  BY <1>1, <1>3 DEF Changed
<1>4. CASE s = Sedf /\ "weight" \in DOMAIN given
  <2>1. Changed(s, given, old) = [new EXCEPT !.period = 0, !.slice = 0]
    BY <1>4 DEF Changed
  <2> QED
    BY <1>1, <1>2, <2>1 DEF OneOf
<1>5. CASE s = Sedf /\ "weight" \notin DOMAIN given /\ {"period", "slice"} \cap DOMAIN given # {}
  <2>1. Changed(s, given, old) = [new EXCEPT !.weight = 0]
    BY <1>5 DEF Changed
  <2> QED
    BY <1>1, <1>2, <2>1 DEF OneOf
<1>6. CASE s = Sedf /\ "weight" \notin DOMAIN given /\ {"period", "slice"} \cap DOMAIN given = {}
  <2>1. Changed(s, given, old) = new
    BY <1>6 DEF Changed
  <2>2. new.weight = old.weight /\ new.period = old.period /\ new.slice = old.slice
    BY <1>1, <1>2, <1>6
  <2> QED
    BY <1>1, <1>6, <2>1, <2>2 DEF OneOf
<1> QED
  BY <1>3, <1>4, <1>5, <1>6

LEMMA GetKeeps ==
  ASSUME PoolsInv, NEW p \in Procs, Get(p)
  PROVE  PoolsInv'
<1> DEFINE r == proc[p]
           rated == [r EXCEPT !.pc = "set", !.new = Merge(@, rate[r.pool])]
           shared == [r EXCEPT !.pc = "set", !.new = Changed(r.kind, @, share[r.dom])]
<1>r. Proper(r) /\ DOMAIN name = Pools
  BY PoolsKept
<1>1. \/ Go(p, PoolsIdle)
      \/ r.op = "rate" /\ Go(p, rated)
      \/ sched[home[r.dom]] = r.kind /\ Go(p, shared)
  BY DEF Get
<1>2. r.op = "rate" => Proper(rated)
  BY <1>r DEF Proper, Fields
<1>3. ASSUME sched[home[r.dom]] = r.kind
      PROVE  Proper(shared)
  <2>1. r.dom \in Doms
    BY <1>r DEF Proper
  <2>2. DOMAIN share[r.dom] = Params /\ (r.kind = Sedf => OneOf(share[r.dom]))
    BY <1>3, <2>1 DEF PoolsInv, ParamsFit, OneOf
  <2>3. /\ DOMAIN Changed(r.kind, r.new, share[r.dom]) = Params
        /\ r.kind = Sedf => OneOf(Changed(r.kind, r.new, share[r.dom]))
    BY <2>2, ChangedFits
  <2>4. DOMAIN r = Fields
    BY <1>r DEF Proper
  <2>5. /\ DOMAIN shared = Fields /\ shared.pc = "set"
        /\ shared.new = Changed(r.kind, r.new, share[r.dom])
        /\ \A f \in Fields \ {"pc", "new"} : shared[f] = r[f]
    BY <2>4 DEF Fields
  <2> QED
    BY <1>r, <2>3, <2>5 DEF Proper, Fields
<1> QED
  BY <1>r, <1>1, <1>2, <1>3, Quiet, IdleProper DEF Get, xen, store

LEMMA SetKeeps ==
  ASSUME PoolsInv, NEW p \in Procs, SetRate(p) \/ SetShare(p)
  PROVE  PoolsInv'
<1> DEFINE r == proc[p]
<1>r. Proper(r)
  BY PoolsKept
<1>1. CASE SetRate(p)
  <2>1. Go(p, PoolsIdle) /\ UNCHANGED <<sched, home, share, name>>
    BY <1>1 DEF SetRate, store
  <2>2. DOMAIN rate' = Pools /\ \A q \in Pools : rate'[q] # rate[q] => RateOk(rate'[q])
    BY <1>1 DEF SetRate, PoolsInv, PoolShapes
  <2>3. PoolShapes' /\ \A o \in Procs : Proper(proc'[o])
    BY <2>1, <2>2, IdleProper DEF PoolsInv, PoolShapes, Go
  <2>4. ParamsFit'
    BY <2>1, <2>2 DEF PoolsInv, ParamsFit
  <2> QED
    BY <2>1, <2>3, <2>4 DEF PoolsInv, There
<1>2. CASE SetShare(p)
  <2>1. Go(p, PoolsIdle) /\ UNCHANGED <<sched, home, rate, name>>
    BY <1>2 DEF SetShare, store
  <2>2. /\ r.dom \in Doms /\ DOMAIN r.new = Params /\ (r.kind = Sedf => OneOf(r.new))
    BY <1>2, <1>r DEF SetShare, At, Proper
  <2>3. \/ share' = share
        \/ /\ ShareOk(r.kind, r.new) /\ sched[home[r.dom]] = r.kind
           /\ share' = [share EXCEPT ![r.dom] = r.new]
    BY <1>2 DEF SetShare
  <2>4. PoolShapes' /\ \A o \in Procs : Proper(proc'[o])
    BY <2>1, <2>3, IdleProper DEF PoolsInv, PoolShapes, Go
  <2>5. \A d \in Doms : \/ share'[d] = share[d]
                       \/ /\ ShareOk(sched[home[d]], share'[d]) /\ DOMAIN share'[d] = Params
                          /\ sched[home[d]] = Sedf => OneOf(share'[d])
    BY <2>2, <2>3 DEF PoolsInv, PoolShapes
  <2>6. ParamsFit' /\ \A d \in Doms : DOMAIN share'[d] = Params
    BY <2>1, <2>5 DEF PoolsInv, ParamsFit, OneOf
  <2> QED
    BY <2>1, <2>4, <2>6 DEF PoolsInv, There
<1> QED
  BY <1>1, <1>2

LEMMA FaultsKeep ==
  ASSUME PoolsInv, NEW p \in Procs, Kill(p) \/ CallFails(p)
  PROVE  PoolsInv'
<1> DEFINE r == proc[p]
<1>r. Proper(r) /\ DOMAIN name = Pools
  BY PoolsKept
<1>1. CASE Kill(p)
  BY <1>1, <1>r, IdleKeeps DEF Kill, xen, store
<1>2. CASE CallFails(p)
  <2>1. Proper([r EXCEPT !.pc = "info"]) /\ Proper(Named(r))
    BY <1>r, IdleProper DEF Named, Proper, Fields
  <2>2. \A S : Proper([r EXCEPT !.todo = @ \ S])
    BY <1>r DEF Proper, Fields
  <2>3. Proper(AfterFailure(r))
    BY <2>1, <2>2, IdleProper DEF AfterFailure
  <2> QED
    BY <1>2, <1>r, <2>3, Quiet DEF CallFails, xen, store
<1> QED
  BY <1>1, <1>2

LEMMA StepsKeep ==
  ASSUME PoolsInv, NEW p \in Procs, Steps(p)
  PROVE  PoolsInv'
BY CreateKeeps, MakeKeeps, DropKeeps, DestroyKeeps, NodeKeeps, SplitKeeps, MoveKeeps, GetKeeps,
   SetKeeps DEF Steps

\* What the invariant speaks of.
poolsWatched == <<sched, home, rate, share, name, proc>>

LEMMA SameKeeps ==
  ASSUME PoolsInv, UNCHANGED poolsWatched
  PROVE  PoolsInv'
BY DEF PoolsInv, PoolShapes, ParamsFit, There, poolsWatched

LEMMA PoolsAtFirst == PoolsInit => PoolsInv
<1> SUFFICES ASSUME PoolsInit PROVE PoolsInv
  OBVIOUS
<1>1. PICK second \in BOOLEAN, kind \in Scheds, n \in Names :
        /\ sched = [q \in Pools |-> IF q = 0 \/ (second /\ q = 1) THEN kind ELSE None]
        /\ name = [q \in Pools |-> IF second /\ q = 1 THEN n ELSE None]
        /\ share = [d \in Doms |-> Fresh(kind)]
  BY DEF PoolsInit
<1>2. /\ home = [d \in Doms |-> 0] /\ rate = [q \in Pools |-> FreshRate]
      /\ proc = [p \in Procs |-> PoolsIdle]
  BY DEF PoolsInit
<1>3. PoolShapes
  BY <1>1, <1>2 DEF PoolShapes
<1>4. \A d \in Doms : home[d] \in Pools /\ There(home[d]) /\ DOMAIN share[d] = Params
  BY <1>1, <1>2, Constants DEF There
<1>5. ParamsFit
  BY <1>1, <1>2, Constants DEF ParamsFit, OneOf
<1> QED
  BY <1>2, <1>3, <1>4, <1>5, IdleProper DEF PoolsInv

LEMMA PoolsStep == PoolsInv /\ [PoolsNext]_poolsVars => PoolsInv'
<1> SUFFICES ASSUME PoolsInv, [PoolsNext]_poolsVars PROVE PoolsInv'
  OBVIOUS
<1>1. CASE \E p \in Procs : Commands(p) \/ Steps(p) \/ Kill(p) \/ CallFails(p)
  BY <1>1, CommandsKeep, StepsKeep, FaultsKeep
<1>2. CASE \E d \in Doms : Follow(d)
  BY <1>2, SameKeeps DEF Follow, store, poolsWatched
<1>3. CASE UNCHANGED poolsVars
  BY <1>3, SameKeeps DEF poolsVars, xen, store, poolsWatched
<1> QED
  BY <1>1, <1>2, <1>3 DEF PoolsNext

\* However commands of sched-credit, sched-credit2 and sched-sedf, moves between pools
\* and pools made and destroyed interleave, the state that the invariant describes is kept.
THEOREM PoolsInvariant == PoolsSpec => []PoolsInv
<1>1. PoolsInit => PoolsInv
  BY PoolsAtFirst
<1>2. PoolsInv /\ [PoolsNext]_poolsVars => PoolsInv'
  BY PoolsStep
<1> QED
  BY <1>1, <1>2, PTL DEF PoolsSpec

\* The parameters of a pool and of a domain are valid together, though each command
\* reads all of them and writes them later (main_sched_sedf, libxl_sched_credit_params_set).
THEOREM ParametersFit == PoolsSpec => []ParamsFit
<1>1. PoolsInv => ParamsFit
  BY DEF PoolsInv
<1> QED
  BY <1>1, PoolsInvariant, PTL

\* What NamelessIsExplained says of one pool.
Explained(q) ==
  Unattended(q)' =>
    \/ Unattended(q)
    \/ \E p \in Procs : /\ proc[p].pool = q
                        /\ Kill(p) \/ CallFails(p) \/ DestroyRefused(p) \/ RmNode(p)

\* Who does not attend to a pool cannot leave it unattended: a step of another process
\* explains nothing unless it changes the pool or its name.
LEMMA OthersExplain ==
  ASSUME PoolsInv, NEW p \in Procs, NEW q \in Pools, NEW r, Go(p, r), ~Attends(p, q),
         sched'[q] = sched[q], name'[q] = name[q]
  PROVE  Explained(q)
<1>1. \A o \in Procs \ {p} : proc'[o] = proc[o]
  BY DEF Go, PoolsInv, PoolShapes
<1> QED
  BY <1>1 DEF Explained, Unattended, Attends, At, There

\* Nor does one that goes on attending to it.
LEMMA GoesOn ==
  ASSUME PoolsInv, NEW p \in Procs, NEW q \in Pools, NEW r, Go(p, r), r.pool = q,
         \/ r.pc \in {"add", "info", "remove"}
         \/ r.pc = "name" /\ r.op \in {"create", "split"}
  PROVE  Explained(q)
<1>1. proc'[p] = r
  BY DEF Go, PoolsInv, PoolShapes
<1> QED
  BY <1>1 DEF Explained, Unattended, Attends, At

LEMMA CreateExplained ==
  ASSUME PoolsInv, NEW p \in Procs, NEW q \in Pools,
         \/ ReadFree(p) \/ Make(p) \/ AddRefused(p) \/ Add(p) \/ Added(p)
         \/ WriteName(p) \/ NameAgain(p)
  PROVE  Explained(q)
<1> DEFINE r == proc[p]
<1>r. Proper(r) /\ DOMAIN r = Fields
  BY PoolsKept DEF Proper
<1>1. CASE ReadFree(p)
  BY <1>1, OthersExplain DEF ReadFree, Attends, At, xen, store
<1>2. CASE Make(p)
  <2>1. PICK o \in Pools : /\ sched' = [sched EXCEPT ![o] = r.kind]
                          /\ Go(p, [r EXCEPT !.pc = "add", !.pool = o])
    BY <1>2 DEF Make
  <2>2. CASE o = q
    <3>1. /\ [r EXCEPT !.pc = "add", !.pool = o].pool = q
          /\ [r EXCEPT !.pc = "add", !.pool = o].pc = "add"
      BY <1>r, <2>2 DEF Fields
    <3> QED
      BY <2>1, <3>1, GoesOn
  <2>3. CASE o # q
    <3>1. sched'[q] = sched[q] /\ name' = name /\ ~Attends(p, q)
      BY <1>2, <2>1, <2>3 DEF Make, store, PoolsInv, PoolShapes, Attends, At
    <3> QED
      BY <2>1, <3>1, OthersExplain
  <2> QED
    BY <2>2, <2>3
<1>3. CASE AddRefused(p)
  <2>1. CASE Attends(p, q)
    <3>1. [r EXCEPT !.pc = "info"].pool = q /\ [r EXCEPT !.pc = "info"].pc = "info"
      BY <1>r, <2>1 DEF Attends, Fields
    <3> QED
      BY <1>3, <3>1, GoesOn DEF AddRefused
  <2> QED
    BY <1>3, <2>1, OthersExplain DEF AddRefused, xen, store
<1>4. CASE Add(p)
  <2>1. PICK c \in Cpus : Go(p, [r EXCEPT !.todo = @ \ {c}])
    BY <1>4 DEF Add
  <2>2. CASE Attends(p, q)
    <3>1. [r EXCEPT !.todo = @ \ {c}].pool = q /\ [r EXCEPT !.todo = @ \ {c}].pc = "add"
      BY <1>4, <1>r, <2>2 DEF Add, Attends, At, Fields
    <3> QED
      BY <2>1, <3>1, GoesOn
  <2> QED
    BY <1>4, <2>1, <2>2, OthersExplain DEF Add, store
<1>5. CASE Added(p)
  <2>1. CASE Attends(p, q)
    <3>1. /\ [r EXCEPT !.pc = "name"].pool = q /\ [r EXCEPT !.pc = "name"].pc = "name"
          /\ [r EXCEPT !.pc = "name"].op \in {"create", "split"}
      BY <1>5, <1>r, <2>1 DEF Added, Attends, At, Proper, Fields
    <3> QED
      BY <1>5, <3>1, GoesOn DEF Added
  <2> QED
    BY <1>5, <2>1, OthersExplain DEF Added, xen, store
<1>6. CASE WriteName(p)
  <2>1. r.name \in Names /\ None \notin Names
    BY <1>6, <1>r, Constants DEF WriteName, At, Proper
  <2>2. CASE r.pool = q
    BY <1>6, <2>1, <2>2 DEF WriteName, Explained, Unattended, PoolsInv, PoolShapes
  <2>3. CASE r.pool # q
    <3>1. sched' = sched /\ name'[q] = name[q] /\ ~Attends(p, q)
      BY <1>6, <2>3 DEF WriteName, xen, PoolsInv, PoolShapes, Attends
    <3> QED
      BY <1>6, <3>1, OthersExplain DEF WriteName
  <2> QED
    BY <2>2, <2>3
<1>7. CASE NameAgain(p)
  BY <1>7 DEF NameAgain, xen, store, Explained, Unattended, Attends, At, There
<1> QED
  BY <1>1, <1>2, <1>3, <1>4, <1>5, <1>6, <1>7

LEMMA DestroyExplained ==
  ASSUME PoolsInv, NEW p \in Procs, NEW q \in Pools,
         \/ Check(p) \/ Info(p) \/ RemoveCpu(p) \/ Drop(p) \/ DestroyRefused(p)
         \/ RmBegin(p) \/ RmNode(p) \/ RmEnd(p)
  PROVE  Explained(q)
<1> DEFINE r == proc[p]
<1>r. Proper(r) /\ DOMAIN r = Fields
  BY PoolsKept DEF Proper
<1>1. CASE Check(p)
  <2>1. PICK s : Go(p, s)
    BY <1>1 DEF Check
  <2> QED
    BY <1>1, <2>1, OthersExplain DEF Check, Attends, At, xen, store
<1>2. CASE Info(p)
  <2>1. CASE Attends(p, q)
    <3> DEFINE s == [r EXCEPT !.pc = "remove", !.todo = CpusOf(r.pool)]
    <3>1. s.pool = q /\ s.pc = "remove"
      BY <1>r, <2>1 DEF Attends, Fields
    <3>2. Go(p, s)
      BY <1>2 DEF Info
    <3> QED
      BY <3>1, <3>2, GoesOn
  <2> QED
    BY <1>2, <2>1, OthersExplain DEF Info, xen, store
<1>3. CASE RemoveCpu(p)
  <2>1. PICK c \in Cpus : Go(p, [r EXCEPT !.todo = @ \ {c}])
    BY <1>3 DEF RemoveCpu
  <2>2. CASE Attends(p, q)
    <3>1. [r EXCEPT !.todo = @ \ {c}].pool = q /\ [r EXCEPT !.todo = @ \ {c}].pc = "remove"
      BY <1>3, <1>r, <2>2 DEF RemoveCpu, Attends, At, Fields
    <3> QED
      BY <2>1, <3>1, GoesOn
  <2> QED
    BY <1>3, <2>1, <2>2, OthersExplain DEF RemoveCpu, store
<1>4. CASE Drop(p)
  <2>1. CASE r.pool = q
    BY <1>4, <2>1 DEF Drop, Explained, Unattended, There, PoolsInv, PoolShapes
  <2>2. CASE r.pool # q
    <3>1. sched'[q] = sched[q] /\ name' = name /\ ~Attends(p, q)
      BY <1>4, <2>2 DEF Drop, store, PoolsInv, PoolShapes, Attends
    <3> QED
      BY <1>4, <3>1, OthersExplain DEF Drop
  <2> QED
    BY <2>1, <2>2
<1>5. CASE DestroyRefused(p)
  <2>1. CASE r.pool = q
    BY <1>5, <2>1 DEF Explained
  <2>2. CASE r.pool # q
    BY <1>5, <2>2, OthersExplain DEF DestroyRefused, Attends, xen, store
  <2> QED
    BY <2>1, <2>2
<1>6. CASE RmBegin(p)
  BY <1>6, OthersExplain DEF RmBegin, Attends, At, xen, store
<1>7. CASE RmNode(p)
  <2>1. CASE r.pool = q
    BY <1>7, <2>1 DEF Explained
  <2>2. CASE r.pool # q
    <3>1. sched' = sched /\ name'[q] = name[q] /\ ~Attends(p, q)
      BY <1>7, <2>2 DEF RmNode, xen, PoolsInv, PoolShapes, Attends
    <3> QED
      BY <1>7, <3>1, OthersExplain DEF RmNode
  <2> QED
    BY <2>1, <2>2
<1>8. CASE RmEnd(p)
  BY <1>8, OthersExplain DEF RmEnd, Attends, At, xen, store
<1> QED
  BY <1>1, <1>2, <1>3, <1>4, <1>5, <1>6, <1>7, <1>8

\* The other steps are of processes that attend to no pool.
LEMMA OtherStepsExplained ==
  ASSUME PoolsInv, NEW p \in Procs, NEW q \in Pools,
         \/ NodeFree(p) \/ Put(p) \/ PutEnds(p) \/ ReadCpus(p) \/ Take(p) \/ TakeEnds(p)
         \/ Move(p) \/ VcpusBegin(p) \/ VcpusEnd(p) \/ VcpusAgain(p) \/ Poll(p)
         \/ NextNode(p) \/ SplitEnds(p) \/ Get(p) \/ SetRate(p) \/ SetShare(p)
  PROVE  Explained(q)
<1>1. sched' = sched /\ name' = name /\ ~Attends(p, q)
  BY DEF NodeFree, Put, PutEnds, ReadCpus, Take, TakeEnds, Move, VcpusBegin, VcpusEnd, VcpusAgain,
         Poll, NextNode, SplitEnds, Get, SetRate, SetShare, Attends, At, xen, store
<1>2. (\E s : Go(p, s)) \/ proc' = proc
  BY DEF NodeFree, Put, PutEnds, ReadCpus, Take, TakeEnds, Move, VcpusBegin, VcpusEnd, VcpusAgain,
         Poll, NextNode, SplitEnds, Get, SetRate, SetShare
<1>3. CASE proc' = proc
  BY <1>1, <1>3 DEF Explained, Unattended, Attends, At, There
<1> QED
  BY <1>1, <1>2, <1>3, OthersExplain

LEMMA CommandsExplained ==
  ASSUME PoolsInv, NEW p \in Procs, NEW q \in Pools, Commands(p)
  PROVE  Explained(q)
<1>1. \E s : Begin(p, s)
  BY DEF Commands, Create, Destroy, Rename, CpuAdd, CpuRemove, Migrate, VcpuSet, Split,
         SchedPool, SchedDom
<1>2. ~Attends(p, q)
  BY DEF Commands, Attends, At
<1> QED
  BY <1>1, <1>2, OthersExplain DEF Begin, xen, store

LEMMA FaultsExplained ==
  ASSUME PoolsInv, NEW p \in Procs, NEW q \in Pools, Kill(p) \/ CallFails(p)
  PROVE  Explained(q)
<1>1. CASE proc[p].pool = q
  BY <1>1 DEF Explained
<1>2. CASE proc[p].pool # q
  <2>1. sched' = sched /\ name' = name /\ ~Attends(p, q)
    BY <1>2 DEF Kill, CallFails, xen, store, Attends
  <2>2. \E s : Go(p, s)
    BY DEF Kill, CallFails
  <2> QED
    BY <2>1, <2>2, OthersExplain
<1> QED
  BY <1>1, <1>2

LEMMA NextExplained ==
  ASSUME PoolsInv, [PoolsNext]_poolsVars, NEW q \in Pools
  PROVE  Explained(q)
<1>1. CASE \E p \in Procs : Commands(p)
  BY <1>1, CommandsExplained
<1>2. CASE \E p \in Procs : Steps(p)
  BY <1>2, CreateExplained, DestroyExplained, OtherStepsExplained DEF Steps
<1>3. CASE \E p \in Procs : Kill(p) \/ CallFails(p)
  BY <1>3, FaultsExplained
<1>4. CASE \E d \in Doms : Follow(d)
  BY <1>4 DEF Follow, store, Explained, Unattended, Attends, At, There
<1>5. CASE UNCHANGED poolsVars
  BY <1>5 DEF poolsVars, xen, store, Explained, Unattended, Attends, At, There
<1> QED
  BY <1>1, <1>2, <1>3, <1>4, <1>5 DEF PoolsNext

AllExplained ==
  \A q \in Pools : Unattended(q)' =>
    \/ Unattended(q)
    \/ \E p \in Procs :
         /\ proc[p].pool = q
         /\ \/ Kill(p) \/ CallFails(p) \/ DestroyRefused(p) \/ RmNode(p)

\* A pool that xl can name no more comes about only by a process killed, a call that
\* fails, a destroy that stops half-way, or a name removed late (libxl_cpupool_create,
\* libxl_cpupool_destroy).
THEOREM NamelessPoolsExplained == PoolsSpec => NamelessIsExplained
<1>1. PoolsInv /\ [PoolsNext]_poolsVars => [AllExplained]_poolsVars
  BY NextExplained DEF AllExplained, Explained
<1>2. PoolsSpec => [][AllExplained]_poolsVars
  BY <1>1, PoolsInvariant, PTL DEF PoolsSpec
<1> QED
  BY <1>2 DEF NamelessIsExplained, AllExplained

(***************************************************************************)
(* numa-split.  What it leaves at its end follows from where it is at each *)
(* step, and that holds because nobody else has taken one since it began.  *)
(***************************************************************************)
\* Only numa-split waits for domain 0 and goes from node to node.
Sound(r) == r.pc \in {"poll", "next"} => r.op = "split"

\* What a host is whatever its users do: CPUs are in pools that there are, and Pool 0
\* stays, with domain 0 in it.
Seat ==
  /\ DOMAIN cpu = Cpus /\ \A c \in Cpus : cpu[c] = Free \/ (cpu[c] \in Pools /\ There(cpu[c]))
  /\ There(0) /\ home[0] = 0
  /\ \A p \in Procs : Sound(proc[p])

\* A process that is not disturbed is the only one at work.
Alone ==
  \A p \in Procs \ disturbed : \A q \in Procs \ {p} : At(p, "idle") \/ At(q, "idle")

LEMMA Goer ==
  ASSUME PoolsInv, NEW p \in Procs, NEW r, Go(p, r)
  PROVE  proc'[p] = r /\ \A q \in Procs \ {p} : proc'[q] = proc[q]
BY DEF PoolsInv, PoolShapes, Go

\* Where a step of a process leads, as far as Seat has to know it.
LEMMA SeatGoes ==
  ASSUME PoolsInv, Seat, NEW p \in Procs, NEW r, Go(p, r), Sound(proc'[p])
  PROVE  \A q \in Procs : Sound(proc'[q])
BY Goer DEF Seat

LEMMA SeatSame ==
  ASSUME PoolsInv, Seat, NEW p \in Procs, NEW r, Go(p, r), Sound(proc'[p]),
         UNCHANGED <<cpu, sched, home>>
  PROVE  Seat'
BY SeatGoes DEF Seat, There

\* A CPU moves.
LEMMA SeatMoves ==
  ASSUME PoolsInv, Seat, NEW p \in Procs, NEW r, Go(p, r), Sound(proc'[p]),
         UNCHANGED <<sched, home>>,
         NEW c \in Cpus, NEW q, q = Free \/ (q \in Pools /\ There(q)),
         cpu' = [cpu EXCEPT ![c] = q] \/ cpu' = cpu
  PROVE  Seat'
BY SeatGoes DEF Seat, There

LEMMA CommandsSeat ==
  ASSUME PoolsInv, Seat, NEW p \in Procs, Commands(p)
  PROVE  Seat'
<1>1. PICK r : Begin(p, r)
  BY DEF Commands, Create, Destroy, Rename, CpuAdd, CpuRemove, Migrate, VcpuSet, Split,
         SchedPool, SchedDom
<1>2. \A s : Begin(p, s) => proc'[p] = s
  BY Goer DEF Begin
<1>3. Sound(proc'[p])
  <2>1. CASE Destroy(p) \/ CpuAdd(p) \/ CpuRemove(p)
    BY <1>2, <2>1 DEF Destroy, CpuAdd, CpuRemove, PoolsIdle, Sound
  <2>5. CASE Create(p)
    <3>1. PICK n, s, want, by :
            Begin(p, [PoolsIdle EXCEPT !.pc = "free", !.op = "create", !.name = n, !.kind = s,
                                       !.todo = want, !.new = by])
      BY <2>5 DEF Create
    <3> QED
      BY <1>2, <3>1 DEF PoolsIdle, Sound
  <2>6. CASE Rename(p)
    <3>1. PICK q, n : Begin(p, [PoolsIdle EXCEPT !.pc = "check", !.op = "rename", !.pool = q, !.name = n])
      BY <2>6 DEF Rename
    <3> QED
      BY <1>2, <3>1 DEF PoolsIdle, Sound
  <2>2. CASE Migrate(p) \/ VcpuSet(p) \/ Split(p)
    BY <1>2, <2>2 DEF Migrate, VcpuSet, Split, PoolsIdle, Sound
  <2>3. CASE SchedPool(p)
    <3>1. PICK q, v : Begin(p, [PoolsIdle EXCEPT !.pc = "get", !.op = "rate", !.pool = q,
                                                 !.kind = Credit, !.new = v])
      BY <2>3 DEF SchedPool
    <3> QED
      BY <1>2, <3>1 DEF PoolsIdle, Sound
  <2>4. CASE SchedDom(p)
    <3>1. PICK d, s, v : Begin(p, [PoolsIdle EXCEPT !.pc = "get", !.op = "share", !.dom = d,
                                                    !.kind = s, !.new = v])
      BY <2>4 DEF SchedDom
    <3> QED
      BY <1>2, <3>1 DEF PoolsIdle, Sound
  <2> QED
    BY <2>1, <2>2, <2>3, <2>4, <2>5, <2>6 DEF Commands
<1> QED
  BY <1>1, <1>3, SeatSame DEF Begin, xen

LEMMA StepsSeat ==
  ASSUME PoolsInv, Seat, NEW p \in Procs, Steps(p)
  PROVE  Seat'
<1> DEFINE r == proc[p]
<1>r. Proper(r) /\ DOMAIN r = Fields /\ Sound(r)
  BY PoolsKept DEF Proper, Seat
<1>0. Free \notin Pools /\ 0 \in Pools /\ 0 \in Doms /\ None \notin Scheds
  BY PoolAssumption
<1>g. \A s : Go(p, s) => proc'[p] = s
  BY Goer
<1>n. Sound(PoolsIdle) /\ Sound(Named(r))
  BY <1>r DEF Named, PoolsIdle, Fields, Sound
<1>t. \A S : Sound([r EXCEPT !.todo = S])
  BY <1>r DEF Fields, Sound
<1>1. CASE ReadFree(p) \/ AddRefused(p) \/ Added(p) \/ Check(p) \/ Info(p) \/ RmBegin(p)
  <2>1. \E s : Go(p, s)
    BY <1>1 DEF ReadFree, AddRefused, Added, Check, Info, RmBegin
  <2>2. Sound(proc'[p])
    BY <1>1, <1>g, <1>n, <1>r DEF ReadFree, AddRefused, Added, Check, Info, RmBegin, Sound, Fields
  <2> QED
    BY <1>1, <2>1, <2>2, SeatSame DEF ReadFree, AddRefused, Added, Check, Info, RmBegin, xen
<1>2. CASE NodeFree(p) \/ ReadCpus(p) \/ TakeEnds(p) \/ SplitEnds(p) \/ VcpusBegin(p)
           \/ DestroyRefused(p) \/ PutEnds(p)
  <2>1. \E s : Go(p, s)
    BY <1>2 DEF NodeFree, ReadCpus, TakeEnds, SplitEnds, VcpusBegin, DestroyRefused, PutEnds
  <2>2. Sound(proc'[p])
    BY <1>2, <1>g, <1>n, <1>r DEF NodeFree, ReadCpus, TakeEnds, SplitEnds, VcpusBegin,
       DestroyRefused, PutEnds, Sound, Fields
  <2> QED
    BY <1>2, <2>1, <2>2, SeatSame DEF NodeFree, ReadCpus, TakeEnds, SplitEnds, VcpusBegin,
       DestroyRefused, PutEnds, xen
<1>3. CASE NameAgain(p) \/ VcpusAgain(p)
  BY <1>3 DEF NameAgain, VcpusAgain, xen, Seat, There
<1>4. CASE WriteName(p) \/ RmNode(p) \/ RmEnd(p) \/ SetRate(p) \/ SetShare(p)
  <2>1. \E s : Go(p, s)
    BY <1>4 DEF WriteName, RmNode, RmEnd, SetRate, SetShare
  <2>2. Sound(proc'[p])
    BY <1>4, <1>g, <1>n, <1>r DEF WriteName, RmNode, RmEnd, SetRate, SetShare, Sound, Fields
  <2> QED
    BY <1>4, <2>1, <2>2, SeatSame DEF WriteName, RmNode, RmEnd, SetRate, SetShare, xen
<1>5. CASE VcpusEnd(p) \/ Poll(p) \/ NextNode(p) \/ Get(p)
  <2>1. \E s : Go(p, s)
    BY <1>5 DEF VcpusEnd, Poll, NextNode, Get
  <2>2. Sound(proc'[p])
    BY <1>5, <1>g, <1>n, <1>r DEF VcpusEnd, Poll, NextNode, Get, At, Sound, Fields
  <2> QED
    BY <1>5, <2>1, <2>2, SeatSame DEF VcpusEnd, Poll, NextNode, Get, xen
<1>6. CASE Add(p) \/ Put(p)
  <2>1. PICK c \in Cpus : /\ Go(p, [r EXCEPT !.todo = @ \ {c}])
                         /\ \/ There(r.pool) /\ cpu' = [cpu EXCEPT ![c] = r.pool]
                            \/ cpu' = cpu
    BY <1>6 DEF Add, Put
  <2>2. r.pool \in Pools /\ UNCHANGED <<sched, home>> /\ Sound(proc'[p])
    BY <1>6, <1>r, <1>t, <1>g, <2>1 DEF Add, Put, Proper
  <2>3. PICK s : Go(p, s)
    BY <1>6 DEF Add, Put
  <2>4. CASE cpu' = cpu
    BY <2>2, <2>3, <2>4, SeatSame
  <2>5. CASE There(r.pool) /\ cpu' = [cpu EXCEPT ![c] = r.pool]
    BY <2>2, <2>3, <2>5, SeatMoves
  <2> QED
    BY <2>1, <2>4, <2>5
<1>7. CASE RemoveCpu(p) \/ Take(p)
  <2>1. PICK c \in Cpus : /\ Go(p, [r EXCEPT !.todo = @ \ {c}])
                         /\ \/ cpu' = [cpu EXCEPT ![c] = Free]
                            \/ cpu' = cpu
    BY <1>7 DEF RemoveCpu, Take
  <2>2. UNCHANGED <<sched, home>> /\ Sound(proc'[p])
    BY <1>7, <1>t, <1>g, <2>1 DEF RemoveCpu, Take
  <2>3. PICK s : Go(p, s)
    BY <1>7 DEF RemoveCpu, Take
  <2> QED
    BY <2>1, <2>2, <2>3, SeatMoves
<1>8. CASE Make(p)
  <2>1. PICK q \in Pools : /\ ~There(q)
                          /\ sched' = [sched EXCEPT ![q] = r.kind]
                          /\ Go(p, [r EXCEPT !.pc = "add", !.pool = q])
    BY <1>8 DEF Make
  <2>2. Sound(proc'[p]) /\ UNCHANGED <<cpu, home>>
    BY <1>8, <1>r, <1>g, <2>1 DEF Make, Fields, Sound
  <2>3. \A o \in Pools : There(o) => There(o)'
    BY <2>1 DEF There, PoolsInv, PoolShapes
  <2> QED
    BY <2>1, <2>2, <2>3, <1>0, SeatGoes DEF Seat
<1>9. CASE Drop(p)
  <2>1. /\ sched' = [sched EXCEPT ![r.pool] = None] /\ Go(p, [r EXCEPT !.pc = "rm"])
        /\ UNCHANGED <<cpu, home>> /\ CpusOf(r.pool) = {} /\ DomsOf(r.pool) = {}
    BY <1>9 DEF Drop, Vacant
  <2>2. r.pool # 0 /\ \A c \in Cpus : cpu[c] # r.pool
    BY <2>1, <1>0 DEF CpusOf, DomsOf, Seat
  <2>3. \A o \in Pools \ {r.pool} : There(o)' <=> There(o)
    BY <2>1 DEF There, PoolsInv, PoolShapes
  <2>4. Sound(proc'[p])
    BY <1>r, <1>g, <2>1 DEF Fields, Sound
  <2> QED
    BY <2>1, <2>2, <2>3, <2>4, <1>0, SeatGoes DEF Seat
<1>10. CASE Move(p)
  <2>1. /\ Go(p, PoolsIdle) /\ UNCHANGED <<cpu, sched>>
        /\ home' = home \/ (r.dom # 0 /\ home' = [home EXCEPT ![r.dom] = r.pool])
    BY <1>10 DEF Move
  <2>2. home'[0] = 0
    BY <2>1, <1>0 DEF Seat, PoolsInv, PoolShapes
  <2>3. Sound(proc'[p])
    BY <1>n, <1>g, <2>1
  <2> QED
    BY <2>1, <2>2, <2>3, SeatGoes DEF Seat, There
<1> QED
  BY <1>1, <1>2, <1>3, <1>4, <1>5, <1>6, <1>7, <1>8, <1>9, <1>10 DEF Steps

LEMMA FaultsSeat ==
  ASSUME PoolsInv, Seat, NEW p \in Procs, Kill(p) \/ CallFails(p)
  PROVE  Seat'
<1> DEFINE r == proc[p]
<1>r. DOMAIN r = Fields /\ Sound(r)
  BY PoolsKept DEF Proper, Seat
<1>1. Sound(PoolsIdle) /\ Sound(AfterFailure(r))
  BY <1>r DEF AfterFailure, Named, PoolsIdle, Fields, Sound
<1>2. PICK s : Go(p, s) /\ Sound(s)
  BY <1>1 DEF Kill, CallFails
<1>3. Sound(proc'[p])
  BY <1>2, Goer
<1> QED
  BY <1>2, <1>3, SeatSame DEF Kill, CallFails, xen

LEMMA SeatNext == PoolsInv /\ Seat /\ [PoolsNext]_poolsVars => Seat'
<1> SUFFICES ASSUME PoolsInv, Seat, [PoolsNext]_poolsVars PROVE Seat'
  OBVIOUS
<1>1. CASE \E p \in Procs : Commands(p) \/ Steps(p) \/ Kill(p) \/ CallFails(p)
  BY <1>1, CommandsSeat, StepsSeat, FaultsSeat
<1>2. CASE \E d \in Doms : Follow(d)
  BY <1>2 DEF Follow, Seat, There
<1>3. CASE UNCHANGED poolsVars
  BY <1>3 DEF poolsVars, xen, Seat, There
<1> QED
  BY <1>1, <1>2, <1>3 DEF PoolsNext

LEMMA SeatInit == PoolsInit => Seat
<1> SUFFICES ASSUME PoolsInit PROVE Seat
  OBVIOUS
<1>1. PICK second \in BOOLEAN, kind \in Scheds :
        /\ second => 1 \in Pools
        /\ DOMAIN cpu = Cpus /\ \A c \in Cpus : cpu[c] \in {0, Free} \/ (second /\ cpu[c] = 1)
        /\ sched = [q \in Pools |-> IF q = 0 \/ (second /\ q = 1) THEN kind ELSE None]
  BY DEF PoolsInit
<1>2. /\ home = [d \in Doms |-> 0] /\ proc = [p \in Procs |-> PoolsIdle]
  BY DEF PoolsInit
<1> QED
  BY <1>1, <1>2, Constants DEF Seat, There, PoolsIdle, Sound

\* A step of a process that is at work disturbs nobody.
LEMMA AloneSame ==
  ASSUME PoolsInv, Alone, NEW p \in Procs, ~At(p, "idle"), NEW r, Go(p, r) \/ proc' = proc,
         disturbed' = disturbed
  PROVE  Alone'
BY Goer DEF Alone, At

LEMMA AloneBegin ==
  ASSUME PoolsInv, Alone, NEW p \in Procs, At(p, "idle"), NEW r, Begin(p, r)
  PROVE  Alone'
<1> DEFINE busy == {q \in Procs \ {p} : ~At(q, "idle")}
<1>1. \A q \in Procs \ {p} : proc'[q] = proc[q]
  BY Goer DEF Begin
<1>2. CASE busy = {}
  <2>1. \A q \in Procs \ {p} : At(q, "idle")'
    BY <1>1, <1>2 DEF At
  <2> QED
    BY <2>1 DEF Alone
<1>3. CASE busy # {}
  <2>1. disturbed' = disturbed \cup busy \cup {p}
    BY <1>3 DEF Begin
  <2>2. \A q \in Procs \ disturbed' : q # p /\ At(q, "idle")'
    BY <1>1, <2>1 DEF At
  <2> QED
    BY <2>2 DEF Alone
<1> QED
  BY <1>2, <1>3

\* CPUs of these nodes are in Pool 0 or in none.
Left(S) == \A c \in Cpus : NodeOf[c] \in S => cpu[c] \in {0, Free}

\* These nodes have pools of their names, the first CPU's node Pool 0.
NodesGiven(S) ==
  \A c \in Cpus : NodeOf[c] \in S =>
    /\ cpu[c] # Free /\ name[cpu[c]] = Called[NodeOf[c]]
    /\ NodeOf[c] = Node0 => cpu[c] = 0
    /\ \A e \in NodeCpus(NodeOf[c]) : cpu[e] = cpu[c]

\* The nodes that numa-split did before the one it is at.
Before(r) == Nodes \ (r.nodes \cup {r.node})

\* Pool 0 gets the CPUs of its node and then its name.
Gathering(r) ==
  /\ r.pc \in {"nodefree", "put", "check", "name"}
  /\ r.pool = 0 /\ r.node = Node0 /\ r.nodes = Nodes \ {Node0}
  /\ r.pc \in {"check", "name"} => r.name = Called[Node0]
  /\ \A c \in NodeCpus(Node0) :
       /\ r.pc = "nodefree" => cpu[c] \in {0, Free}
       /\ r.pc = "put" => cpu[c] = IF c \in r.todo THEN Free ELSE 0
       /\ r.pc \in {"check", "name"} => cpu[c] = 0

\* It waits for domain 0, or is about to go to the next node.
Between(r) ==
  /\ r.pc \in {"vcpus", "avail", "poll", "next"}
  /\ NodesGiven(Nodes \ r.nodes)

\* Pool 0 loses the CPUs of another node.
Emptying(r) ==
  /\ r.pc \in {"nodecpus", "take", "make"}
  /\ r.pool = 0 /\ r.node # Node0 /\ r.name = Called[r.node]
  /\ NodesGiven(Before(r))
  /\ r.pc = "take" => r.todo \subseteq NodeCpus(r.node)
  /\ r.pc = "make" => r.todo = {}
  /\ \A c \in NodeCpus(r.node) :
       /\ cpu[c] \in {0, Free}
       /\ r.pc = "take" => c \in r.todo \/ cpu[c] = Free
       /\ r.pc = "make" => cpu[c] = Free

\* The new pool of that node has none but these CPUs; it gets its name before them.
Filling(r) ==
  /\ r.pc \in {"add", "name", "nodefree", "put"}
  /\ r.pool # 0 /\ r.node # Node0
  /\ NodesGiven(Before(r))
  /\ r.pc = "add" => r.todo = {}
  /\ r.pc = "put" => r.todo \subseteq NodeCpus(r.node)
  /\ r.pc \in {"add", "name"} => r.name = Called[r.node]
  /\ r.pc \in {"nodefree", "put"} => name[r.pool] = Called[r.node]
  /\ \A c \in Cpus \ NodeCpus(r.node) : cpu[c] # r.pool
  /\ \A c \in NodeCpus(r.node) :
       cpu[c] = IF r.pc = "put" /\ c \notin r.todo THEN r.pool ELSE Free

\* Where numa-split is, and what it has done to the host so far.
Under(r) ==
  /\ r.kind # None /\ r.node \in Nodes \ r.nodes /\ r.nodes \subseteq Nodes \ {Node0}
  /\ There(r.pool) /\ Left(r.nodes)
Splitting(r) == Under(r) /\ (Gathering(r) \/ Between(r) \/ Emptying(r) \/ Filling(r))

\* What the lemmas below assume of a step of numa-split, and what they prove.
Splits(p) == PoolsInv /\ Seat /\ proc[p].op = "split" /\ Splitting(proc[p])
Advances(p) == proc'[p].op = "split" => Splitting(proc[p])'

LEMMA PoolFacts ==
  ASSUME PoolsInv, NEW p \in Procs
  PROVE  /\ Free \notin Pools /\ 0 \in Pools /\ proc[p].pool \in Pools /\ DOMAIN proc[p] = Fields
         /\ \A s : Go(p, s) => proc'[p] = s
         /\ PoolsIdle.op # "split"
<1>1. Free \notin Pools /\ 0 \in Pools
  BY PoolAssumption
<1>2. proc[p].pool \in Pools /\ DOMAIN proc[p] = Fields
  BY PoolsKept DEF Proper
<1> QED
  BY <1>1, <1>2, Goer DEF PoolsIdle

LEMMA SplitNodeFree ==
  ASSUME NEW p \in Procs, Splits(p), NodeFree(p)
  PROVE  Advances(p)
<1> DEFINE r == proc[p]
<1>1. /\ r.pc = "nodefree" /\ UNCHANGED <<cpu, sched, name>> /\ Free # 0 /\ DOMAIN r = Fields
      /\ proc'[p] = [r EXCEPT !.pc = "put", !.todo = FreeCpus \cap NodeCpus(r.node)]
  BY PoolFacts DEF NodeFree, At, Splits, xen, store
<1>2. /\ proc'[p].pc = "put" /\ proc'[p].todo = FreeCpus \cap NodeCpus(r.node)
      /\ proc'[p].pool = r.pool /\ proc'[p].node = r.node /\ proc'[p].nodes = r.nodes
      /\ proc'[p].kind = r.kind
  BY <1>1 DEF Fields
<1>3. Under(proc[p])'
  BY <1>1, <1>2 DEF Splits, Splitting, Under, There, Left
<1>4. \A c \in NodeCpus(r.node) : c \in proc'[p].todo <=> cpu[c] = Free
  BY <1>2 DEF NodeCpus, FreeCpus, CpusOf
<1>5. CASE Gathering(r)
  BY <1>1, <1>2, <1>3, <1>4, <1>5 DEF Gathering, Advances, Splitting
<1>6. CASE Filling(r)
  <2>1. NodesGiven(Before(proc[p]))'
    BY <1>1, <1>2, <1>6 DEF Filling, Before, NodesGiven
  <2> QED
    BY <1>1, <1>2, <1>3, <1>4, <1>6, <2>1 DEF Filling, Advances, Splitting
<1> QED
  BY <1>1, <1>5, <1>6 DEF Splits, Splitting, Between, Emptying

LEMMA SplitPut ==
  ASSUME NEW p \in Procs, Splits(p), Put(p)
  PROVE  Advances(p)
<1> DEFINE r == proc[p]
<1>1. PICK c \in Cpus :
        /\ First(c, r.todo)
        /\ cpu' = IF cpu[c] = Free /\ There(r.pool) THEN [cpu EXCEPT ![c] = r.pool] ELSE cpu
        /\ Go(p, [r EXCEPT !.todo = @ \ {c}])
  BY DEF Put
<1>2. /\ r.pc = "put" /\ UNCHANGED <<sched, name>> /\ Free # 0 /\ DOMAIN r = Fields
      /\ r.pool \in Pools /\ Free \notin Pools /\ c \in r.todo
      /\ proc'[p] = [r EXCEPT !.todo = @ \ {c}] /\ DOMAIN cpu = Cpus
  BY <1>1, PoolFacts DEF Put, At, Splits, Seat, store, First
<1>3. /\ proc'[p].pc = "put" /\ proc'[p].todo = r.todo \ {c}
      /\ proc'[p].pool = r.pool /\ proc'[p].node = r.node /\ proc'[p].nodes = r.nodes
      /\ proc'[p].kind = r.kind
  BY <1>2 DEF Fields
<1>4. There(r.pool) /\ There(r.pool)' /\ r.kind # None
      /\ r.node \in Nodes \ r.nodes /\ r.nodes \subseteq Nodes \ {Node0} /\ Left(r.nodes)
  BY <1>2 DEF Splits, Splitting, Under, There
<1>5. CASE Gathering(r)
  <2>1. Left(r.nodes)'
    BY <1>1, <1>2, <1>4, <1>5 DEF Gathering, Left
  <2>2. \A e \in NodeCpus(Node0) : cpu'[e] = IF e \in proc'[p].todo THEN Free ELSE 0
    <3> TAKE e \in NodeCpus(Node0)
    <3>1. e \in Cpus /\ cpu[e] = IF e \in r.todo THEN Free ELSE 0
      BY <1>2, <1>5 DEF Gathering, NodeCpus
    <3>2. r.pool = 0
      BY <1>5 DEF Gathering
    <3> QED
      BY <1>1, <1>2, <1>3, <1>4, <3>1, <3>2
  <2>3. Under(proc[p])'
    BY <1>3, <1>4, <2>1 DEF Under
  <2>4. Gathering(proc[p])'
    BY <1>3, <1>5, <2>2 DEF Gathering
  <2> QED
    BY <2>3, <2>4 DEF Advances, Splitting
<1>6. CASE Filling(r)
  <2>1. \A e \in NodeCpus(r.node) : cpu[e] = IF e \notin r.todo THEN r.pool ELSE Free
    BY <1>2, <1>6 DEF Filling
  <2>2. c \in NodeCpus(r.node) /\ c \in Cpus /\ r.pool # 0
    BY <1>2, <1>6 DEF Filling, NodeCpus
  <2>3. cpu' = [cpu EXCEPT ![c] = r.pool]
    BY <1>1, <1>2, <1>4, <2>1, <2>2
  <2>4. /\ \A e \in NodeCpus(r.node) :
             cpu'[e] = IF e \notin proc'[p].todo THEN r.pool ELSE Free
        /\ \A e \in Cpus \ NodeCpus(r.node) : cpu'[e] = cpu[e]
    BY <1>2, <1>3, <2>1, <2>2, <2>3 DEF NodeCpus
  <2>5. Left(r.nodes)'
    BY <1>3, <1>4, <2>4 DEF Left, NodeCpus
  <2>6. NodesGiven(Before(proc[p]))'
    <3>1. NodesGiven(Before(r)) /\ Before(proc[p])' = Before(r)
      BY <1>3, <1>6 DEF Filling, Before
    <3>2. \A n \in Before(r) : n # r.node
      BY DEF Before
    <3> QED
      BY <1>2, <2>4, <3>1, <3>2 DEF NodesGiven, NodeCpus
  <2>7. Under(proc[p])'
    BY <1>3, <1>4, <2>5 DEF Under
  <2>8. Filling(proc[p])'
    BY <1>2, <1>3, <1>6, <2>4, <2>6 DEF Filling
  <2> QED
    BY <2>7, <2>8 DEF Advances, Splitting
<1> QED
  BY <1>2, <1>5, <1>6 DEF Splits, Splitting, Between, Emptying

LEMMA SplitPutEnds ==
  ASSUME NEW p \in Procs, Splits(p), PutEnds(p)
  PROVE  Advances(p)
<1> DEFINE r == proc[p]
<1>1. /\ r.pc = "put" /\ r.todo = {} /\ UNCHANGED <<cpu, sched, name>> /\ Free # 0
      /\ DOMAIN r = Fields /\ r.pool \in Pools /\ Free \notin Pools /\ DOMAIN cpu = Cpus
      /\ proc'[p] = IF r.pool = 0 THEN [r EXCEPT !.pc = "check", !.name = Called[r.node]]
                    ELSE [r EXCEPT !.pc = "next"]
  BY PoolFacts DEF PutEnds, At, Splits, Seat, xen, store
<1>2. /\ proc'[p].pool = r.pool /\ proc'[p].node = r.node /\ proc'[p].nodes = r.nodes
      /\ proc'[p].kind = r.kind
  BY <1>1 DEF Fields
<1>3. Under(proc[p])'
  BY <1>1, <1>2 DEF Splits, Splitting, Under, There, Left
<1>4. CASE Gathering(r)
  <2>1. proc'[p].pc = "check" /\ proc'[p].name = Called[r.node]
    BY <1>1, <1>4 DEF Gathering, Fields
  <2> QED
    BY <1>1, <1>2, <1>3, <1>4, <2>1 DEF Gathering, Advances, Splitting
<1>5. CASE Filling(r)
  <2>1. proc'[p].pc = "next"
    BY <1>1, <1>5 DEF Filling, Fields
  <2>2. \A c \in NodeCpus(r.node) : cpu[c] = r.pool /\ NodeOf[c] = r.node
    BY <1>1, <1>5 DEF Filling, NodeCpus
  <2>3. NodesGiven(Before(r)) /\ name[r.pool] = Called[r.node] /\ r.node # Node0
    BY <1>1, <1>5 DEF Filling
  <2>4. \A c \in Cpus : NodeOf[c] \in Nodes \ r.nodes =>
          NodeOf[c] \in Before(r) \/ c \in NodeCpus(r.node)
    BY DEF Before, NodeCpus
  <2>5. NodesGiven(Nodes \ r.nodes)
    BY <1>1, <2>2, <2>3, <2>4 DEF NodesGiven
  <2>6. Between(proc[p])'
    BY <1>1, <1>2, <2>1, <2>5 DEF Between, NodesGiven
  <2> QED
    BY <1>3, <2>6 DEF Advances, Splitting
<1> QED
  BY <1>1, <1>4, <1>5 DEF Splits, Splitting, Between, Emptying

LEMMA SplitCheck ==
  ASSUME NEW p \in Procs, Splits(p), Check(p)
  PROVE  Advances(p)
<1> DEFINE r == proc[p]
<1>1. /\ r.pc = "check" /\ UNCHANGED <<cpu, sched, name>> /\ DOMAIN r = Fields
      /\ PoolsIdle.op # "split"
      /\ proc'[p] = [r EXCEPT !.pc = "name"] \/ proc'[p] = PoolsIdle
  BY PoolFacts DEF Check, At, Splits, xen, store
<1>2. CASE proc'[p] = [r EXCEPT !.pc = "name"]
  <2>1. /\ proc'[p].pc = "name" /\ proc'[p].name = r.name /\ proc'[p].pool = r.pool
        /\ proc'[p].node = r.node /\ proc'[p].nodes = r.nodes /\ proc'[p].kind = r.kind
    BY <1>1, <1>2 DEF Fields
  <2>2. Under(proc[p])'
    BY <1>1, <2>1 DEF Splits, Splitting, Under, There, Left
  <2>3. Gathering(r)
    BY <1>1 DEF Splits, Splitting, Between, Emptying, Filling
  <2> QED
    BY <1>1, <2>1, <2>2, <2>3 DEF Gathering, Advances, Splitting
<1> QED
  BY <1>1, <1>2 DEF Advances

\* The name is that of Pool 0, or of a pool that has none of the other nodes' CPUs.
LEMMA SplitWriteName ==
  ASSUME NEW p \in Procs, Splits(p), WriteName(p)
  PROVE  Advances(p)
<1> DEFINE r == proc[p]
<1>1. /\ r.pc = "name" /\ UNCHANGED <<cpu, sched>> /\ DOMAIN r = Fields /\ DOMAIN name = Pools
      /\ r.pool \in Pools /\ Free \notin Pools /\ 0 \in Pools /\ Free # 0
      /\ name' = [name EXCEPT ![r.pool] = r.name]
      /\ proc'[p] = IF r.pool = 0 THEN [r EXCEPT !.pc = "vcpus"] ELSE [r EXCEPT !.pc = "nodefree"]
      /\ DOMAIN cpu = Cpus
  BY PoolFacts, PoolsKept DEF WriteName, At, Splits, Seat, xen, Named
<1>2. /\ proc'[p].pool = r.pool /\ proc'[p].node = r.node /\ proc'[p].nodes = r.nodes
      /\ proc'[p].kind = r.kind
  BY <1>1 DEF Fields
<1>3. Under(proc[p])'
  BY <1>1, <1>2 DEF Splits, Splitting, Under, There, Left
<1>4. CASE Gathering(r)
  <2>1. /\ proc'[p].pc = "vcpus" /\ r.nodes = Nodes \ {Node0} /\ r.name = Called[Node0]
        /\ r.pool = 0 /\ \A c \in NodeCpus(Node0) : cpu[c] = 0
    BY <1>1, <1>4 DEF Gathering, Fields
  <2>2. \A c \in Cpus : NodeOf[c] \in Nodes \ r.nodes => NodeOf[c] = Node0 /\ cpu[c] = 0
    BY <2>1 DEF NodeCpus
  <2>3. name'[0] = Called[Node0]
    BY <1>1, <2>1
  <2>4. NodesGiven(Nodes \ proc[p].nodes)'
    BY <1>1, <1>2, <2>1, <2>2, <2>3 DEF NodesGiven, NodeCpus
  <2> QED
    BY <1>3, <2>1, <2>4 DEF Advances, Splitting, Between
<1>5. CASE Filling(r)
  <2>1. /\ proc'[p].pc = "nodefree" /\ r.name = Called[r.node] /\ NodesGiven(Before(r))
        /\ r.pool # 0 /\ r.node # Node0
        /\ \A c \in Cpus \ NodeCpus(r.node) : cpu[c] # r.pool
        /\ \A c \in NodeCpus(r.node) : cpu[c] = Free
    BY <1>1, <1>5 DEF Filling, Fields
  <2>2. \A c \in Cpus : NodeOf[c] \in Before(r) =>
          /\ c \notin NodeCpus(r.node) /\ cpu[c] \in Pools /\ name'[cpu[c]] = name[cpu[c]]
    BY <1>1, <2>1 DEF Before, NodeCpus, NodesGiven, Splits, Seat
  <2>3. NodesGiven(Before(proc[p]))' /\ name'[r.pool] = Called[r.node]
    BY <1>1, <1>2, <2>1, <2>2 DEF NodesGiven, Before
  <2>4. Filling(proc[p])'
    BY <1>1, <1>2, <2>1, <2>3 DEF Filling
  <2> QED
    BY <1>3, <2>4 DEF Advances, Splitting
<1> QED
  BY <1>1, <1>4, <1>5 DEF Splits, Splitting, Between, Emptying

\* It waits for domain 0, or gives up.
LEMMA SplitWaits ==
  ASSUME NEW p \in Procs, Splits(p), VcpusBegin(p) \/ VcpusEnd(p) \/ Poll(p)
  PROVE  Advances(p)
<1> DEFINE r == proc[p]
<1>1. /\ r.pc \in {"vcpus", "avail", "poll"} /\ UNCHANGED <<cpu, sched, name>>
      /\ DOMAIN r = Fields /\ PoolsIdle.op # "split"
      /\ \/ proc'[p] = [r EXCEPT !.pc = "avail"]
         \/ proc'[p] = [r EXCEPT !.pc = "poll", !.tries = Polls]
         \/ proc'[p] = [r EXCEPT !.pc = "next"]
         \/ r.pc = "poll" /\ proc'[p] = [r EXCEPT !.tries = @ - 1]
         \/ proc'[p] = PoolsIdle
  BY PoolFacts DEF VcpusBegin, VcpusEnd, Poll, At, Splits, xen, store
<1>2. CASE proc'[p] # PoolsIdle
  <2>1. /\ proc'[p].pc \in {"avail", "poll", "next"} /\ proc'[p].pool = r.pool
        /\ proc'[p].node = r.node /\ proc'[p].nodes = r.nodes /\ proc'[p].kind = r.kind
    BY <1>1, <1>2 DEF Fields
  <2>2. Under(proc[p])'
    BY <1>1, <2>1 DEF Splits, Splitting, Under, There, Left
  <2>3. Between(r)
    BY <1>1 DEF Splits, Splitting, Gathering, Emptying, Filling
  <2>4. Between(proc[p])'
    BY <1>1, <2>1, <2>3 DEF Between, NodesGiven
  <2> QED
    BY <2>2, <2>4 DEF Advances, Splitting
<1> QED
  BY <1>1, <1>2 DEF Advances

LEMMA SplitNextNode ==
  ASSUME NEW p \in Procs, Splits(p), NextNode(p)
  PROVE  Advances(p)
<1> DEFINE r == proc[p]
<1>1. PICK n \in r.nodes : Go(p, [r EXCEPT !.pc = "nodecpus", !.pool = 0, !.node = n,
                                           !.name = Called[n], !.nodes = @ \ {n}])
  BY DEF NextNode
<1>2. /\ r.pc = "next" /\ UNCHANGED <<cpu, sched, name>> /\ DOMAIN r = Fields
      /\ proc'[p] = [r EXCEPT !.pc = "nodecpus", !.pool = 0, !.node = n,
                              !.name = Called[n], !.nodes = @ \ {n}]
  BY <1>1, PoolFacts DEF NextNode, At, Splits, xen, store
<1>3. /\ proc'[p].pc = "nodecpus" /\ proc'[p].pool = 0 /\ proc'[p].node = n
      /\ proc'[p].name = Called[n] /\ proc'[p].nodes = r.nodes \ {n} /\ proc'[p].kind = r.kind
  BY <1>2 DEF Fields
<1>4. /\ r.nodes \subseteq Nodes \ {Node0} /\ Left(r.nodes) /\ There(0) /\ r.kind # None
      /\ NodesGiven(Nodes \ r.nodes)
  BY <1>2 DEF Splits, Seat, Splitting, Under, Gathering, Between, Emptying, Filling
<1>5. Under(proc[p])'
  BY <1>2, <1>3, <1>4 DEF Under, There, Left
<1>6. Before(proc[p])' = Nodes \ r.nodes
  BY <1>3 DEF Before
<1>7. \A c \in NodeCpus(n) : cpu[c] \in {0, Free}
  BY <1>4 DEF Left, NodeCpus
<1>8. Emptying(proc[p])'
  BY <1>2, <1>3, <1>4, <1>6, <1>7 DEF Emptying, NodesGiven
<1> QED
  BY <1>5, <1>8 DEF Advances, Splitting

LEMMA SplitReadCpus ==
  ASSUME NEW p \in Procs, Splits(p), ReadCpus(p)
  PROVE  Advances(p)
<1> DEFINE r == proc[p]
<1>1. /\ r.pc = "nodecpus" /\ UNCHANGED <<cpu, sched, name>> /\ DOMAIN r = Fields
      /\ proc'[p] = [r EXCEPT !.pc = "take", !.todo = CpusOf(r.pool) \cap NodeCpus(r.node)]
  BY PoolFacts DEF ReadCpus, At, Splits, xen, store
<1>2. /\ proc'[p].pc = "take" /\ proc'[p].todo = CpusOf(r.pool) \cap NodeCpus(r.node)
      /\ proc'[p].pool = r.pool /\ proc'[p].node = r.node /\ proc'[p].nodes = r.nodes
      /\ proc'[p].kind = r.kind /\ proc'[p].name = r.name
  BY <1>1 DEF Fields
<1>3. Under(proc[p])'
  BY <1>1, <1>2 DEF Splits, Splitting, Under, There, Left
<1>4. Emptying(r)
  BY <1>1 DEF Splits, Splitting, Gathering, Between, Filling
<1>5. \A c \in NodeCpus(r.node) : c \in proc'[p].todo \/ cpu[c] = Free
  BY <1>2, <1>4 DEF Emptying, CpusOf, NodeCpus
<1>6. NodesGiven(Before(proc[p]))'
  BY <1>1, <1>2, <1>4 DEF Emptying, Before, NodesGiven
<1>7. Emptying(proc[p])'
  BY <1>1, <1>2, <1>4, <1>5, <1>6 DEF Emptying
<1> QED
  BY <1>3, <1>7 DEF Advances, Splitting

\* The first CPU stays in Pool 0, so Xen does not refuse to take another.
LEMMA SplitTake ==
  ASSUME NEW p \in Procs, Splits(p), Take(p)
  PROVE  Advances(p)
<1> DEFINE r == proc[p]
<1>1. PICK c \in Cpus :
        /\ First(c, r.todo)
        /\ cpu' = IF Removable(r.pool, c) THEN [cpu EXCEPT ![c] = Free] ELSE cpu
        /\ Go(p, [r EXCEPT !.todo = @ \ {c}])
  BY DEF Take
<1>2. /\ r.pc = "take" /\ UNCHANGED <<sched, name>> /\ Free # 0 /\ DOMAIN r = Fields
      /\ c \in r.todo /\ proc'[p] = [r EXCEPT !.todo = @ \ {c}] /\ DOMAIN cpu = Cpus
  BY <1>1, PoolFacts DEF Take, At, Splits, Seat, store, First
<1>3. /\ proc'[p].pc = "take" /\ proc'[p].todo = r.todo \ {c}
      /\ proc'[p].pool = r.pool /\ proc'[p].node = r.node /\ proc'[p].nodes = r.nodes
      /\ proc'[p].kind = r.kind /\ proc'[p].name = r.name
  BY <1>2 DEF Fields
<1>4. /\ Emptying(r) /\ There(r.pool) /\ r.kind # None /\ Left(r.nodes)
      /\ r.node \in Nodes \ r.nodes /\ r.nodes \subseteq Nodes \ {Node0}
  BY <1>2 DEF Splits, Splitting, Under, Gathering, Between, Filling
<1>5. c \in NodeCpus(r.node) /\ cpu[c] \in {0, Free} /\ r.pool = 0 /\ r.node # Node0
  BY <1>2, <1>4 DEF Emptying
<1>6. cpu'[c] = Free
  <2>1. 0 \in Cpus /\ Node0 \in Nodes
    BY Constants
  <2>2. Node0 \in Before(r)
    BY <1>4, <1>5, <2>1 DEF Before
  <2>3. cpu[0] = 0 /\ 0 # c
    BY <1>4, <1>5, <2>1, <2>2 DEF Emptying, NodesGiven, Node0, NodeCpus
  <2>4. cpu[c] = 0 => Removable(r.pool, c)
    BY <1>5, <2>1, <2>3 DEF Removable, CpusOf
  <2> QED
    BY <1>1, <1>2, <1>5, <2>4
<1>7. \A e \in Cpus \ {c} : cpu'[e] = cpu[e]
  BY <1>1, <1>2
<1>8. \A e \in NodeCpus(r.node) :
        e \in Cpus /\ cpu'[e] \in {0, Free} /\ (e \in proc'[p].todo \/ cpu'[e] = Free)
  BY <1>2, <1>3, <1>4, <1>6, <1>7 DEF Emptying, NodeCpus
<1>9. \A e \in Cpus : NodeOf[e] # r.node => cpu'[e] = cpu[e]
  BY <1>5, <1>7 DEF NodeCpus
<1>10. Under(proc[p])'
  BY <1>2, <1>3, <1>4, <1>9 DEF Under, There, Left
<1>11. NodesGiven(Before(proc[p]))'
  <2>1. NodesGiven(Before(r)) /\ Before(proc[p])' = Before(r)
    BY <1>3, <1>4 DEF Emptying, Before
  <2>2. \A n \in Before(r) : n # r.node
    BY DEF Before
  <2> QED
    BY <1>2, <1>9, <2>1, <2>2 DEF NodesGiven, NodeCpus
<1>12. Emptying(proc[p])'
  BY <1>2, <1>3, <1>4, <1>8, <1>11 DEF Emptying
<1> QED
  BY <1>10, <1>12 DEF Advances, Splitting

LEMMA SplitTakeEnds ==
  ASSUME NEW p \in Procs, Splits(p), TakeEnds(p)
  PROVE  Advances(p)
<1> DEFINE r == proc[p]
<1>1. /\ r.pc = "take" /\ r.todo = {} /\ UNCHANGED <<cpu, sched, name>> /\ DOMAIN r = Fields
      /\ proc'[p] = [r EXCEPT !.pc = "make"]
  BY PoolFacts DEF TakeEnds, At, Splits, xen, store
<1>2. /\ proc'[p].pc = "make" /\ proc'[p].todo = {}
      /\ proc'[p].pool = r.pool /\ proc'[p].node = r.node /\ proc'[p].nodes = r.nodes
      /\ proc'[p].kind = r.kind /\ proc'[p].name = r.name
  BY <1>1 DEF Fields
<1>3. Under(proc[p])'
  BY <1>1, <1>2 DEF Splits, Splitting, Under, There, Left
<1>4. Emptying(r)
  BY <1>1 DEF Splits, Splitting, Gathering, Between, Filling
<1>5. NodesGiven(Before(proc[p]))'
  BY <1>1, <1>2, <1>4 DEF Emptying, Before, NodesGiven
<1>6. Emptying(proc[p])'
  BY <1>1, <1>2, <1>4, <1>5 DEF Emptying
<1> QED
  BY <1>3, <1>6 DEF Advances, Splitting

\* A new pool has no CPUs yet.
LEMMA SplitMake ==
  ASSUME NEW p \in Procs, Splits(p), Make(p)
  PROVE  Advances(p)
<1> DEFINE r == proc[p]
<1>1. PICK q \in Pools : /\ ~There(q)
                        /\ sched' = [sched EXCEPT ![q] = r.kind]
                        /\ Go(p, [r EXCEPT !.pc = "add", !.pool = q])
  BY DEF Make
<1>2. /\ r.pc = "make" /\ UNCHANGED <<cpu, name>> /\ DOMAIN r = Fields /\ DOMAIN sched = Pools
      /\ proc'[p] = [r EXCEPT !.pc = "add", !.pool = q]
  BY <1>1, PoolFacts DEF Make, At, Splits, store, PoolsInv, PoolShapes
<1>3. /\ proc'[p].pc = "add" /\ proc'[p].todo = r.todo
      /\ proc'[p].pool = q /\ proc'[p].node = r.node /\ proc'[p].nodes = r.nodes
      /\ proc'[p].kind = r.kind /\ proc'[p].name = r.name
  BY <1>2 DEF Fields
<1>4. /\ q # 0 /\ q # Free /\ \A c \in Cpus : cpu[c] # q
  BY <1>1, PoolFacts DEF Splits, Seat
<1>5. Emptying(r) /\ Under(r)
  BY <1>2 DEF Splits, Splitting, Gathering, Between, Filling
<1>6. Under(proc[p])'
  BY <1>1, <1>2, <1>3, <1>5 DEF Under, There, Left
<1>7. NodesGiven(Before(proc[p]))'
  BY <1>2, <1>3, <1>5 DEF Emptying, Before, NodesGiven
<1>8. Filling(proc[p])'
  BY <1>2, <1>3, <1>4, <1>5, <1>7 DEF Filling, Emptying
<1> QED
  BY <1>6, <1>8 DEF Advances, Splitting

LEMMA SplitAdded ==
  ASSUME NEW p \in Procs, Splits(p), Added(p)
  PROVE  Advances(p)
<1> DEFINE r == proc[p]
<1>1. /\ r.pc = "add" /\ UNCHANGED <<cpu, sched, name>> /\ DOMAIN r = Fields
      /\ proc'[p] = [r EXCEPT !.pc = "name"]
  BY PoolFacts DEF Added, At, Splits, xen, store
<1>2. /\ proc'[p].pc = "name"
      /\ proc'[p].pool = r.pool /\ proc'[p].node = r.node /\ proc'[p].nodes = r.nodes
      /\ proc'[p].kind = r.kind /\ proc'[p].name = r.name
  BY <1>1 DEF Fields
<1>3. Under(proc[p])'
  BY <1>1, <1>2 DEF Splits, Splitting, Under, There, Left
<1>4. Filling(r)
  BY <1>1 DEF Splits, Splitting, Gathering, Between, Emptying
<1>5. NodesGiven(Before(proc[p]))'
  BY <1>1, <1>2, <1>4 DEF Filling, Before, NodesGiven
<1>6. Filling(proc[p])'
  BY <1>1, <1>2, <1>4, <1>5 DEF Filling
<1> QED
  BY <1>3, <1>6 DEF Advances, Splitting

LEMMA SplitAgain ==
  ASSUME NEW p \in Procs, Splits(p), NameAgain(p) \/ VcpusAgain(p)
  PROVE  Advances(p)
<1>1. UNCHANGED <<cpu, sched, name, proc>>
  BY DEF NameAgain, VcpusAgain, xen, store
<1>2. Under(proc[p])'
  BY <1>1 DEF Splits, Splitting, Under, There, Left
<1>3. \A S : NodesGiven(S)' = NodesGiven(S)
  BY <1>1 DEF NodesGiven
<1>4. Gathering(proc[p])' \/ Between(proc[p])' \/ Emptying(proc[p])' \/ Filling(proc[p])'
  BY <1>1 DEF Splits, Splitting, Gathering, Between, Emptying, Filling, NodesGiven, Before
<1> QED
  BY <1>2, <1>4 DEF Advances, Splitting

\* numa-split comes to none of the others, and its pools get no first CPUs.
LEMMA SplitSteps ==
  ASSUME NEW p \in Procs, Splits(p), Steps(p)
  PROVE  Advances(p)
<1> DEFINE r == proc[p]
<1>1. r.pc \notin {"free", "info", "remove", "rm", "rmnode", "rmend", "move", "get", "set"}
  BY DEF Splits, Splitting, Gathering, Between, Emptying, Filling
<1>2. r.pc = "add" => r.todo = {}
  BY DEF Splits, Splitting, Gathering, Between, Emptying, Filling
<1>3. CASE SplitEnds(p)
  BY <1>3, PoolFacts DEF SplitEnds, Advances, Splits
<1>4. ~(ReadFree(p) \/ AddRefused(p) \/ Add(p) \/ Info(p) \/ RemoveCpu(p) \/ Drop(p)
        \/ DestroyRefused(p) \/ RmBegin(p) \/ RmNode(p) \/ RmEnd(p) \/ Move(p) \/ Get(p)
        \/ SetRate(p) \/ SetShare(p))
  BY <1>1, <1>2 DEF ReadFree, AddRefused, Add, Info, RemoveCpu, Drop, DestroyRefused, RmBegin,
     RmNode, RmEnd, Move, Get, SetRate, SetShare, At, First
<1> QED
  BY <1>3, <1>4, SplitNodeFree, SplitPut, SplitPutEnds, SplitCheck, SplitWriteName, SplitWaits,
     SplitNextNode, SplitReadCpus, SplitTake, SplitTakeEnds, SplitMake, SplitAdded, SplitAgain
     DEF Steps

\* A numa-split that has the host for itself is where Splitting says.
Undisturbed == \A p \in Procs \ disturbed : proc[p].op = "split" => Splitting(proc[p])

LEMMA SplittingIsWork == \A r : Splitting(r) => r.pc # "idle"
BY DEF Splitting, Gathering, Between, Emptying, Filling

LEMMA SameSplitting ==
  ASSUME UNCHANGED <<cpu, sched, name, proc, disturbed>>, Undisturbed
  PROVE  Undisturbed'
<1> SUFFICES ASSUME NEW p \in Procs \ disturbed, proc[p].op = "split" PROVE Splitting(proc[p])'
  BY DEF Undisturbed
<1>1. Splitting(proc[p])
  BY DEF Undisturbed
<1>2. Under(proc[p])'
  BY <1>1 DEF Splitting, Under, There, Left
<1>3. Gathering(proc[p])' \/ Between(proc[p])' \/ Emptying(proc[p])' \/ Filling(proc[p])'
  BY <1>1 DEF Splitting, Gathering, Between, Emptying, Filling, NodesGiven, Before
<1> QED
  BY <1>2, <1>3 DEF Splitting

\* A numa-split begins where there is only Pool 0.
LEMMA SplitBegins ==
  ASSUME PoolsInv, Seat, NEW p \in Procs, Commands(p)
  PROVE  Advances(p)
<1>1. \A s : Begin(p, s) => proc'[p] = s
  BY Goer DEF Begin
<1>2. CASE Split(p)
  <2>1. /\ \A q \in Pools : There(q) => q = 0
        /\ proc'[p] = [PoolsIdle EXCEPT !.pc = "nodefree", !.op = "split", !.node = Node0,
                                        !.kind = sched[0], !.nodes = Nodes \ {Node0},
                                   !.num = Cardinality(NodeCpus(Node0))]
        /\ UNCHANGED <<cpu, sched, name>>
    BY <1>1, <1>2 DEF Split, Begin, xen, store
  <2>2. /\ proc'[p].pc = "nodefree" /\ proc'[p].pool = 0 /\ proc'[p].node = Node0
        /\ proc'[p].kind = sched[0] /\ proc'[p].nodes = Nodes \ {Node0}
    BY <2>1 DEF PoolsIdle
  <2>3. \A c \in Cpus : cpu[c] \in {0, Free}
    BY <2>1 DEF Seat
  <2>4. Under(proc[p])'
    BY <2>1, <2>2, <2>3, Constants DEF Under, Left, There, Seat
  <2>5. Gathering(proc[p])'
    BY <2>1, <2>2, <2>3 DEF Gathering, NodeCpus
  <2> QED
    BY <2>4, <2>5 DEF Advances, Splitting
<1>3. CASE ~Split(p)
  <2>1. proc'[p].op # "split"
    <3>1. CASE Destroy(p) \/ CpuAdd(p) \/ CpuRemove(p)
      BY <1>1, <3>1 DEF Destroy, CpuAdd, CpuRemove, PoolsIdle
    <3>2. CASE Migrate(p) \/ VcpuSet(p)
      BY <1>1, <3>2 DEF Migrate, VcpuSet, PoolsIdle
    <3>3. CASE Create(p)
      <4>1. PICK n, s, want, by :
              Begin(p, [PoolsIdle EXCEPT !.pc = "free", !.op = "create", !.name = n, !.kind = s,
                                         !.todo = want, !.new = by])
        BY <3>3 DEF Create
      <4> QED
        BY <1>1, <4>1 DEF PoolsIdle
    <3>4. CASE Rename(p)
      <4>1. PICK q, n :
              Begin(p, [PoolsIdle EXCEPT !.pc = "check", !.op = "rename", !.pool = q, !.name = n])
        BY <3>4 DEF Rename
      <4> QED
        BY <1>1, <4>1 DEF PoolsIdle
    <3>5. CASE SchedPool(p)
      <4>1. PICK q, v : Begin(p, [PoolsIdle EXCEPT !.pc = "get", !.op = "rate", !.pool = q,
                                                   !.kind = Credit, !.new = v])
        BY <3>5 DEF SchedPool
      <4> QED
        BY <1>1, <4>1 DEF PoolsIdle
    <3>6. CASE SchedDom(p)
      <4>1. PICK d, s, v : Begin(p, [PoolsIdle EXCEPT !.pc = "get", !.op = "share", !.dom = d,
                                                      !.kind = s, !.new = v])
        BY <3>6 DEF SchedDom
      <4> QED
        BY <1>1, <4>1 DEF PoolsIdle
    <3> QED
      BY <1>3, <3>1, <3>2, <3>3, <3>4, <3>5, <3>6 DEF Commands
  <2> QED
    BY <2>1 DEF Advances
<1> QED
  BY <1>2, <1>3

\* No command becomes another one.
LEMMA OpStays ==
  ASSUME PoolsInv, NEW p \in Procs, Steps(p)
  PROVE  proc'[p].op = "split" => proc[p].op = "split"
<1> DEFINE r == proc[p]
<1>1. DOMAIN r = Fields /\ PoolsIdle.op # "split" /\ \A s : Go(p, s) => proc'[p] = s
  BY PoolFacts
<1>2. CASE ReadFree(p) \/ Make(p) \/ AddRefused(p) \/ Add(p) \/ Added(p) \/ WriteName(p)
           \/ NameAgain(p) \/ Check(p)
  BY <1>1, <1>2 DEF ReadFree, Make, AddRefused, Add, Added, WriteName, NameAgain, Check, Named, Fields
<1>3. CASE Info(p) \/ RemoveCpu(p) \/ Drop(p) \/ DestroyRefused(p) \/ RmBegin(p) \/ RmNode(p)
           \/ RmEnd(p) \/ Move(p)
  BY <1>1, <1>3 DEF Info, RemoveCpu, Drop, DestroyRefused, RmBegin, RmNode, RmEnd, Move, Fields
<1>4. CASE NodeFree(p) \/ Put(p) \/ PutEnds(p) \/ ReadCpus(p) \/ Take(p) \/ TakeEnds(p)
  BY <1>1, <1>4 DEF NodeFree, Put, PutEnds, ReadCpus, Take, TakeEnds, Fields
<1>5. CASE VcpusBegin(p) \/ VcpusEnd(p) \/ VcpusAgain(p) \/ Poll(p) \/ NextNode(p)
           \/ SplitEnds(p)
  BY <1>1, <1>5 DEF VcpusBegin, VcpusEnd, VcpusAgain, Poll, NextNode, SplitEnds, Fields
<1>6. CASE Get(p) \/ SetRate(p) \/ SetShare(p)
  BY <1>1, <1>6 DEF Get, SetRate, SetShare, Fields
<1> QED
  BY <1>2, <1>3, <1>4, <1>5, <1>6 DEF Steps

\* A step is of a process that is at work, and its own place alone changes.
LEMMA StepsGo ==
  ASSUME PoolsInv, NEW p \in Procs, Steps(p)
  PROVE  /\ ~At(p, "idle") /\ disturbed' = disturbed
         /\ proc' = proc \/ \E s : Go(p, s)
<1>1. CASE ReadFree(p) \/ Make(p) \/ AddRefused(p) \/ Add(p) \/ Added(p) \/ WriteName(p)
           \/ NameAgain(p) \/ Check(p)
  BY <1>1 DEF ReadFree, Make, AddRefused, Add, Added, WriteName, NameAgain, Check, At, Goes
<1>2. CASE Info(p) \/ RemoveCpu(p) \/ Drop(p) \/ DestroyRefused(p) \/ RmBegin(p) \/ RmNode(p)
           \/ RmEnd(p) \/ Move(p)
  BY <1>2 DEF Info, RemoveCpu, Drop, DestroyRefused, RmBegin, RmNode, RmEnd, Move, At, Goes
<1>3. CASE NodeFree(p) \/ Put(p) \/ PutEnds(p) \/ ReadCpus(p) \/ Take(p) \/ TakeEnds(p)
  BY <1>3 DEF NodeFree, Put, PutEnds, ReadCpus, Take, TakeEnds, At, Goes
<1>4. CASE VcpusBegin(p) \/ VcpusEnd(p) \/ VcpusAgain(p) \/ Poll(p) \/ NextNode(p)
           \/ SplitEnds(p)
  BY <1>4 DEF VcpusBegin, VcpusEnd, VcpusAgain, Poll, NextNode, SplitEnds, At, Goes
<1>5. CASE Get(p) \/ SetRate(p) \/ SetShare(p)
  BY <1>5 DEF Get, SetRate, SetShare, At, Goes
<1> QED
  BY <1>1, <1>2, <1>3, <1>4, <1>5 DEF Steps

HostInv == PoolsInv /\ Seat /\ Alone /\ Undisturbed

LEMMA HostCommands ==
  ASSUME HostInv, NEW p \in Procs, Commands(p)
  PROVE  Alone' /\ Undisturbed'
<1>1. PICK s : Begin(p, s)
  BY DEF Commands, Create, Destroy, Rename, CpuAdd, CpuRemove, Migrate, VcpuSet, Split,
         SchedPool, SchedDom
<1>2. Alone'
  BY <1>1, AloneBegin DEF HostInv, Commands
<1>3. \A q \in Procs \ {p} : proc'[q] = proc[q]
  BY <1>1, Goer DEF HostInv, Begin
<1>4. \A q \in Procs \ {p} : q \notin disturbed' => q \notin disturbed /\ At(q, "idle")
  BY <1>1 DEF Begin
<1>5. \A q \in Procs \ {p} : q \notin disturbed' => proc'[q].op # "split"
  BY <1>3, <1>4, SplittingIsWork DEF HostInv, Undisturbed, At
<1> QED
  BY <1>2, <1>5, SplitBegins DEF HostInv, Undisturbed, Advances

LEMMA HostSteps ==
  ASSUME HostInv, NEW p \in Procs, Steps(p)
  PROVE  Alone' /\ Undisturbed'
<1>1. ~At(p, "idle") /\ disturbed' = disturbed /\ (proc' = proc \/ \E s : Go(p, s))
  BY StepsGo DEF HostInv
<1>2. Alone'
  BY <1>1, AloneSame DEF HostInv
<1>3. \A q \in Procs \ {p} : proc'[q] = proc[q]
  BY <1>1, Goer DEF HostInv
<1>4. \A q \in Procs \ {p} : q \notin disturbed' => proc'[q].op # "split"
  BY <1>1, <1>3, SplittingIsWork DEF HostInv, Alone, Undisturbed, At
<1>5. p \notin disturbed' /\ proc'[p].op = "split" => Splitting(proc[p])'
  <2>1. SUFFICES ASSUME p \notin disturbed', proc'[p].op = "split" PROVE Splitting(proc[p])'
    OBVIOUS
  <2>2. Splits(p)
    BY <1>1, <2>1, OpStays DEF HostInv, Undisturbed, Splits
  <2> QED
    BY <2>1, <2>2, SplitSteps DEF Advances
<1> QED
  BY <1>2, <1>4, <1>5 DEF Undisturbed

LEMMA HostNext == HostInv /\ [PoolsNext]_poolsVars => HostInv'
<1> SUFFICES ASSUME HostInv, [PoolsNext]_poolsVars PROVE HostInv'
  OBVIOUS
<1>1. PoolsInv' /\ Seat'
  BY PoolsStep, SeatNext DEF HostInv
<1>2. CASE \E p \in Procs : Commands(p)
  BY <1>1, <1>2, HostCommands DEF HostInv
<1>3. CASE \E p \in Procs : Steps(p)
  BY <1>1, <1>3, HostSteps DEF HostInv
<1>4. CASE \E p \in Procs : Kill(p) \/ CallFails(p)
  <2>1. disturbed' = Procs
    BY <1>4 DEF Kill, CallFails, Fault
  <2> QED
    BY <1>1, <2>1 DEF HostInv, Alone, Undisturbed
<1>5. CASE (\E d \in Doms : Follow(d)) \/ UNCHANGED poolsVars
  <2>1. UNCHANGED <<cpu, sched, name, proc, disturbed>>
    BY <1>5 DEF Follow, poolsVars, xen, store
  <2>2. Alone'
    BY <2>1 DEF HostInv, Alone, At
  <2> QED
    BY <1>1, <2>1, <2>2, SameSplitting DEF HostInv
<1> QED
  BY <1>2, <1>3, <1>4, <1>5 DEF PoolsNext

\* Who disturbs whom, and where a numa-split that nobody disturbs is: the CPUs of each node
\* it has done are in the pool of the node's name, those of the others in Pool 0 or free.
THEOREM HostInvariant == PoolsSpec => []HostInv
<1>1. PoolsInit => Alone /\ Undisturbed
  BY DEF PoolsInit, Alone, Undisturbed, At, PoolsIdle
<1>2. PoolsInit => HostInv
  BY <1>1, PoolsAtFirst, SeatInit DEF HostInv
<1> QED
  BY <1>2, HostNext, PTL DEF PoolsSpec

\* xl cpupool-numa-split, once it comes to its end with nobody else at work and no call
\* failing, has given each node a pool of that node's CPUs and name (main_cpupoolnumasplit).
THEOREM SplitGivesNodes == PoolsSpec => []SplitByNode
<1>1. ASSUME HostInv PROVE SplitByNode
  <2> SUFFICES ASSUME NEW p \in Procs \ disturbed, At(p, "next"), proc[p].nodes = {}
               PROVE  ByNode
    BY DEF SplitByNode
  <2>1. proc[p].op = "split" /\ proc[p].pc = "next"
    BY <1>1 DEF HostInv, Seat, Sound, At
  <2>2. NodesGiven(Nodes)
    BY <1>1, <2>1 DEF HostInv, Undisturbed, Splitting, Gathering, Between, Emptying, Filling
  <2>3. \A c \in Cpus : NodeOf[c] \in Nodes
    BY DEF Nodes
  <2>4. \A m, n \in Nodes : Called[m] = Called[n] => m = n
    BY PoolAssumption
  <2> QED
    BY <2>2, <2>3, <2>4 DEF NodesGiven, ByNode, NodeCpus
<1>2. HostInv => SplitByNode
  BY <1>1
<1> QED
  BY <1>2, HostInvariant, PTL

(***************************************************************************)
(* XlDomains: nonempty names are unique.                                   *)
(***************************************************************************)
LifeFields ==
  {"pc", "what", "id", "name", "new", "config", "restores", "read", "paused", "daemon"}

\* A process that names a domain knows what for.
OfLife(r) ==
  /\ DOMAIN r = LifeFields
  /\ r.pc \in {"check", "commit"} => r.what \in {"make", "preserve", "rename"}

\* A process whose transaction commits, and what it found when it read the names: the
\* transaction being open still, nobody has written a name since.
WillCommit(p) == proc[p].pc = "commit" /\ trans[p] = "open"
Unclaimed(p) == proc[p].new = NoName \/ Find(proc[p].new) \subseteq {proc[p].id}

Shapes ==
  /\ DOMAIN dom = DomIds /\ \A i \in DomIds : DOMAIN dom[i] = {"state", "why", "name"}
  /\ DOMAIN proc = Procs /\ \A p \in Procs : OfLife(proc[p])
  /\ DOMAIN trans = Procs

NamesInv ==
  /\ Shapes
  /\ NamesDistinct
  /\ \A p \in Procs : WillCommit(p) => Unclaimed(p)

\* What most steps do: no domain comes by a name; no transaction is opened; and a process
\* whose transaction is to commit stays where it is.
GainsNoName ==
  \A i \in DomIds :
    Alive(i)' /\ dom'[i].name # NoName => Alive(i) /\ dom'[i].name = dom[i].name
OpensNone == DOMAIN trans' = Procs /\ \A q \in Procs : trans'[q] = "open" => trans[q] = "open"
CommitsKept ==
  \A q \in Procs :
    WillCommit(q)' => WillCommit(q) /\ proc'[q].new = proc[q].new /\ proc'[q].id = proc[q].id

LEMMA NamesQuiet ==
  ASSUME NamesInv, Shapes', GainsNoName, CommitsKept
  PROVE  NamesInv'
<1>1. NamesDistinct'
  BY DEF NamesInv, NamesDistinct, GainsNoName, DomIds
<1>2. ASSUME NEW p \in Procs, WillCommit(p)'
      PROVE  Unclaimed(p)'
  <2>1. Unclaimed(p) /\ proc'[p].new = proc[p].new /\ proc'[p].id = proc[p].id
    BY <1>2 DEF NamesInv, CommitsKept
  <2> QED BY <2>1 DEF Unclaimed, Find, GainsNoName, DomIds
<1> QED BY <1>1, <1>2 DEF NamesInv

LEMMA IdleLife == OfLife(DomainsIdle) /\ DOMAIN DomainsIdle = LifeFields /\ DomainsIdle.pc = "idle"
BY DEF DomainsIdle, LifeFields, OfLife

LEMMA NamesMove ==
  ASSUME NamesInv, NEW p \in Procs, NEW r, OfLife(r), r.pc # "commit",
         Go(p, r), OpensNone
  PROVE  DOMAIN proc' = Procs /\ (\A q \in Procs : OfLife(proc'[q])) /\ CommitsKept
BY DEF NamesInv, Shapes, Go, OpensNone, CommitsKept, WillCommit

LEMMA Went ==
  ASSUME NamesInv, NEW p \in Procs, NEW r, Go(p, r)
  PROVE  DOMAIN proc' = Procs /\ proc'[p] = r /\ \A q \in Procs \ {p} : proc'[q] = proc[q]
BY DEF NamesInv, Shapes, Go

LEMMA NamesExit ==
  ASSUME NamesInv, NEW p \in Procs, Exit(p), OpensNone
  PROVE  DOMAIN proc' = Procs /\ (\A q \in Procs : OfLife(proc'[q])) /\ CommitsKept
BY NamesMove, IdleLife DEF Exit, Go

LEMMA NamesStay ==
  ASSUME NamesInv, UNCHANGED proc, OpensNone
  PROVE  DOMAIN proc' = Procs /\ (\A q \in Procs : OfLife(proc'[q])) /\ CommitsKept
BY DEF NamesInv, Shapes, OpensNone, CommitsKept, WillCommit

LEMMA NoneOpened ==
  ASSUME NamesInv
  PROVE  /\ UNCHANGED trans => OpensNone
         /\ \A p : StoreWritten(p) => OpensNone
         /\ \A p : trans' = [trans EXCEPT ![p] = "none"] => OpensNone
BY DEF NamesInv, Shapes, OpensNone, StoreWritten

\* A domain stops, goes on or goes, which leaves the names.
DomsKept ==
  /\ DOMAIN dom' = DomIds /\ \A i \in DomIds : DOMAIN dom'[i] = {"state", "why", "name"}
  /\ GainsNoName

LEMMA DomsAsTheyWere == ASSUME NamesInv, UNCHANGED dom PROVE DomsKept
BY DEF NamesInv, Shapes, DomsKept, GainsNoName, Alive

LEMMA DomGoes == ASSUME NamesInv, NEW i \in DomIds, dom' = [dom EXCEPT ![i] = Gone] PROVE DomsKept
BY DEF NamesInv, Shapes, DomsKept, GainsNoName, Alive, Gone

LEMMA DomChanges ==
  ASSUME NamesInv, NEW i, i \in DomIds => Alive(i), NEW s, NEW w,
         dom' = [dom EXCEPT ![i].state = s] \/ dom' = [dom EXCEPT ![i].state = s, ![i].why = w]
  PROVE  DomsKept
BY DEF NamesInv, Shapes, DomsKept, GainsNoName, Alive

LEMMA DestroyKeepsNames ==
  ASSUME NamesInv, NEW i, NEW p, DomainDestroy(i, p)
  PROVE  DomsKept /\ OpensNone
BY NoneOpened, DomsAsTheyWere, DomGoes DEF DomainDestroy, Alive

LEMMA NamesTogether ==
  ASSUME NamesInv, DomsKept, OpensNone,
         DOMAIN proc' = Procs /\ (\A q \in Procs : OfLife(proc'[q])) /\ CommitsKept
  PROVE  NamesInv'
<1>1. Shapes'
  BY DEF DomsKept, OpensNone, Shapes
<1> QED BY <1>1, NamesQuiet DEF DomsKept

\* A command begins (main_create, main_restore, main_rename, main_save): it has read names
\* at most outside of a transaction.
LEMMA StartsKeepNames ==
  ASSUME NamesInv, NEW p \in Procs,
         StartCreate(p) \/ StartRestore(p) \/ StartRename(p) \/ StartSave(p)
  PROVE  NamesInv'
<1>1. UNCHANGED <<dom, trans>>
  BY DEF StartCreate, StartRestore, StartRename, StartSave
<1>2. PICK r : Go(p, r) /\ OfLife(r) /\ r.pc # "commit"
  <2> USE DEF LifeFields, OfLife
  <2>1. CASE StartCreate(p)
    <3>1. PICK n \in DomNames, c \in Configs, pause \in BOOLEAN, stay \in BOOLEAN :
            Go(p, [DomainsIdle EXCEPT !.pc = "lock", !.name = n, !.config = c,
                                      !.paused = pause, !.daemon = stay])
      BY <2>1 DEF StartCreate
    <3> DEFINE r == [DomainsIdle EXCEPT !.pc = "lock", !.name = n, !.config = c,
                                        !.paused = pause, !.daemon = stay]
    <3>2. OfLife(r) /\ r.pc # "commit"
      BY IdleLife
    <3> QED BY <3>1, <3>2
  <2>2. CASE StartRestore(p)
    <3>1. PICK pause \in BOOLEAN, stay \in BOOLEAN :
            Go(p, [DomainsIdle EXCEPT !.pc = "lock", !.name = file.name, !.config = file.config,
                                      !.restores = TRUE, !.paused = pause, !.daemon = stay])
      BY <2>2 DEF StartRestore
    <3> DEFINE r == [DomainsIdle EXCEPT !.pc = "lock", !.name = file.name, !.config = file.config,
                                        !.restores = TRUE, !.paused = pause, !.daemon = stay]
    <3>2. OfLife(r) /\ r.pc # "commit"
      BY IdleLife
    <3> QED BY <3>1, <3>2
  <2>3. CASE StartRename(p)
    <3>1. PICK i \in DomIds, n \in DomNames :
            Go(p, [DomainsIdle EXCEPT !.pc = "check", !.what = "rename", !.id = i, !.name = dom[i].name,
                                      !.new = n])
      BY <2>3 DEF StartRename
    <3> DEFINE r == [DomainsIdle EXCEPT !.pc = "check", !.what = "rename", !.id = i, !.name = dom[i].name,
                                        !.new = n]
    <3>2. OfLife(r) /\ r.pc # "commit"
      BY IdleLife
    <3> QED BY <3>1, <3>2
  <2>4. CASE StartSave(p)
    <3>1. PICK i \in DomIds, c \in Configs, checkpoint \in BOOLEAN :
            Go(p, [DomainsIdle EXCEPT !.pc = "suspend", !.id = i, !.name = dom[i].name, !.config = c,
                                      !.what = IF checkpoint THEN "checkpoint" ELSE "save"])
      BY <2>4 DEF StartSave
    <3> DEFINE r == [DomainsIdle EXCEPT !.pc = "suspend", !.id = i, !.name = dom[i].name, !.config = c,
                                        !.what = IF checkpoint THEN "checkpoint" ELSE "save"]
    <3>2. OfLife(r) /\ r.pc # "commit"
      BY IdleLife
    <3> QED BY <3>1, <3>2
  <2> QED BY <2>1, <2>2, <2>3, <2>4
<1> QED BY <1>1, <1>2, NamesMove, NoneOpened, DomsAsTheyWere, NamesTogether

\* create_domain up to the name, and from it on; the new domain has none yet.
LEMMA CreateKeepsNames ==
  ASSUME NamesInv, NEW p \in Procs,
         \/ AcquireLock(p) \/ MakeFails(p) \/ MakeDomain(p) \/ Built(p)
         \/ Unpause(p) \/ Watch(p)
  PROVE  NamesInv'
<1> USE DEF LifeFields, OfLife
<1>0. OfLife(proc[p])
  BY DEF NamesInv, Shapes
<1>1. CASE AcquireLock(p)
  <2>1. UNCHANGED <<dom, trans>> /\ Go(p, [proc[p] EXCEPT !.pc = "make", !.id = 0])
    BY <1>1 DEF AcquireLock
  <2> QED BY <1>0, <2>1, NamesMove, NoneOpened, DomsAsTheyWere, NamesTogether
<1>2. CASE MakeFails(p)
  BY <1>2, DestroyKeepsNames, NamesExit, NamesTogether DEF MakeFails, ErrorOut
<1>3. CASE MakeDomain(p)
  <2>1. PICK i \in DomIds :
          /\ dom[i].state = "none"
          /\ dom' = [dom EXCEPT ![i] = [state |-> "paused", why |-> "none", name |-> NoName]]
          /\ Go(p, [proc[p] EXCEPT !.pc = "check", !.what = "make", !.id = i,
                                   !.new = proc[p].name, !.read = proc[p].restores])
          /\ UNCHANGED trans
    BY <1>3 DEF MakeDomain
  <2>2. DomsKept
    BY <2>1 DEF NamesInv, Shapes, DomsKept, GainsNoName, Alive
  <2> QED BY <1>0, <2>1, <2>2, NamesMove, NoneOpened, NamesTogether
<1>4. CASE Built(p)
  <2>1. UNCHANGED <<dom, trans>> /\ Go(p, [proc[p] EXCEPT !.pc = "unpause"])
    BY <1>4 DEF Built
  <2> QED BY <1>0, <2>1, NamesMove, NoneOpened, DomsAsTheyWere, NamesTogether
<1>5. CASE Unpause(p)
  <2>1. DomsKept
    <3>1. dom' = IF ~proc[p].paused /\ dom[proc[p].id].state = "paused"
                   THEN [dom EXCEPT ![proc[p].id].state = "running"] ELSE dom
      BY <1>5 DEF Unpause
    <3>2. CASE ~proc[p].paused /\ dom[proc[p].id].state = "paused"
      BY <3>1, <3>2, DomChanges DEF Alive
    <3>3. CASE ~(~proc[p].paused /\ dom[proc[p].id].state = "paused")
      BY <3>1, <3>3, DomsAsTheyWere
    <3> QED BY <3>2, <3>3
  <2>2. UNCHANGED trans /\ (Go(p, [proc[p] EXCEPT !.pc = "watch"]) \/ Exit(p))
    BY <1>5 DEF Unpause
  <2> QED BY <1>0, <2>1, <2>2, NamesMove, NamesExit, NoneOpened, NamesTogether
<1>6. CASE Watch(p)
  <2>1. UNCHANGED <<dom, trans>> /\ Go(p, [proc[p] EXCEPT !.pc = "wait"])
    BY <1>6 DEF Watch
  <2> QED BY <1>0, <2>1, NamesMove, NoneOpened, DomsAsTheyWere, NamesTogether
<1> QED BY <1>1, <1>2, <1>3, <1>4, <1>5, <1>6

\* handle_domain_death, up to preserve_domain's own rename.
LEMMA DeathsKeepNames ==
  ASSUME NamesInv, NEW p \in Procs,
         OtherEvent(p) \/ DeathLeaves(p) \/ DeathDestroys(p) \/ DeathRenames(p)
  PROVE  NamesInv'
<1> USE DEF LifeFields, OfLife
<1>0. OfLife(proc[p])
  BY DEF NamesInv, Shapes
<1>1. CASE OtherEvent(p)
  <2>1. UNCHANGED <<dom, trans>> /\ (UNCHANGED proc \/ Exit(p))
    BY <1>1 DEF OtherEvent
  <2> QED BY <2>1, NamesStay, NamesExit, NoneOpened, DomsAsTheyWere, NamesTogether
<1>2. CASE DeathLeaves(p)
  <2>1. UNCHANGED <<dom, trans>> /\ Exit(p)
    BY <1>2 DEF DeathLeaves
  <2> QED BY <2>1, NamesExit, NoneOpened, DomsAsTheyWere, NamesTogether
<1>3. CASE DeathDestroys(p)
  <2>1. /\ proc[p].id \in DomIds /\ dom' = [dom EXCEPT ![proc[p].id] = Gone]
        /\ StoreWritten(p)
        /\ Go(p, [proc[p] EXCEPT !.pc = "lock", !.paused = FALSE]) \/ Exit(p)
    BY <1>3 DEF DeathDestroys, Dies, Alive
  <2> QED BY <1>0, <2>1, NamesMove, NamesExit, NoneOpened, DomGoes, NamesTogether
<1>4. CASE DeathRenames(p)
  <2>1. PICK k \in Stamps :
          Go(p, [proc[p] EXCEPT !.pc = "check", !.what = "preserve", !.new = <<proc[p].name, k>>])
    BY <1>4 DEF DeathRenames
  <2>2. UNCHANGED <<dom, trans>>
    BY <1>4 DEF DeathRenames
  <2> QED BY <1>0, <2>1, <2>2, NamesMove, NoneOpened, DomsAsTheyWere, NamesTogether
<1> QED BY <1>1, <1>2, <1>3, <1>4

\* libxl_domain_rename: what it reads of the names holds as long as its transaction is
\* open, and the name is written only then.
LEMMA RenamesKeepNames ==
  ASSUME NamesInv, NEW p \in Procs,
         RenameChecks(p) \/ RenameRefused(p) \/ RenameCommits(p) \/ RenameRetries(p)
  PROVE  NamesInv'
<1> USE DEF LifeFields, OfLife
<1>0. OfLife(proc[p])
  BY DEF NamesInv, Shapes
<1>1. CASE RenameChecks(p)
  <2> DEFINE r == [proc[p] EXCEPT !.pc = "commit"]
  <2>0. /\ UNCHANGED dom /\ trans' = [trans EXCEPT ![p] = "open"]
        /\ proc[p].pc = "check" /\ Go(p, r)
        /\ Find(proc[p].new) \subseteq {proc[p].id}
    BY <1>1 DEF RenameChecks
  <2>a. OfLife(r) /\ r.new = proc[p].new /\ r.id = proc[p].id
    BY <1>0, <2>0
  <2> HIDE DEF r
  <2>1. /\ UNCHANGED dom /\ trans' = [trans EXCEPT ![p] = "open"]
        /\ DOMAIN proc' = Procs /\ proc'[p] = r /\ \A q \in Procs \ {p} : proc'[q] = proc[q]
        /\ Find(proc[p].new) \subseteq {proc[p].id}
    BY <2>0, Went
  <2>2. Shapes'
    BY <2>1, <2>a DEF NamesInv, Shapes
  <2>3. NamesDistinct'
    BY <2>1 DEF NamesInv, NamesDistinct, Alive
  <2>4. ASSUME NEW q \in Procs, WillCommit(q)' PROVE Unclaimed(q)'
    <3>1. Find(proc[q].new)' = Find(proc'[q].new)
      BY <2>1 DEF Find, Alive
    <3>2. CASE q = p
      <4>1. proc'[p].new = proc[p].new /\ proc'[p].id = proc[p].id
        BY <2>1, <2>a
      <4> QED BY <2>1, <3>1, <3>2, <4>1 DEF Unclaimed
    <3>3. CASE q # p
      <4>1. proc'[q] = proc[q] /\ WillCommit(q)
        BY <2>1, <2>4, <3>3 DEF NamesInv, Shapes, WillCommit
      <4> QED BY <3>1, <4>1 DEF NamesInv, Unclaimed
    <3> QED BY <3>2, <3>3
  <2> QED BY <2>2, <2>3, <2>4 DEF NamesInv
<1>2. CASE RenameRefused(p)
  <2>1. CASE ErrorOut(p)
    BY <2>1, DestroyKeepsNames, NamesExit, NamesTogether DEF ErrorOut
  <2>2. CASE Exit(p) /\ trans' = [trans EXCEPT ![p] = "none"] /\ UNCHANGED dom
    BY <2>2, NamesExit, NoneOpened, DomsAsTheyWere, NamesTogether
  <2> QED BY <1>2, <2>1, <2>2 DEF RenameRefused
<1>3. CASE RenameCommits(p)
  <2>1. /\ Unclaimed(p) /\ StoreWritten(p)
        /\ dom' = IF Alive(proc[p].id) THEN [dom EXCEPT ![proc[p].id].name = proc[p].new] ELSE dom
    BY <1>3 DEF NamesInv, RenameCommits, Committed, WillCommit
  <2>2. DOMAIN proc' = Procs /\ (\A q \in Procs : OfLife(proc'[q]))
    <3>1. OpensNone
      BY <2>1, NoneOpened
    <3>2. \/ Go(p, [proc[p] EXCEPT !.pc = "built"])
          \/ Go(p, [proc[p] EXCEPT !.pc = "lock", !.paused = FALSE])
          \/ Exit(p)
      BY <1>0, <1>3 DEF RenameCommits, Committed
    <3> QED BY <1>0, <3>1, <3>2, NamesMove, NamesExit
  <2>3. Shapes'
    BY <2>1, <2>2 DEF NamesInv, Shapes, StoreWritten
  <2>4. \A q \in Procs : ~WillCommit(q)'
    BY <2>1 DEF WillCommit, StoreWritten
  <2>5. NamesDistinct'
    <3>1. CASE Alive(proc[p].id)
      <4>1. \A i \in DomIds : /\ dom'[i].state = dom[i].state
                              /\ dom'[i].name = IF i = proc[p].id THEN proc[p].new ELSE dom[i].name
        BY <2>1, <3>1 DEF NamesInv, Shapes
      <4>2. \A i \in DomIds : Alive(i)' = Alive(i)
        BY <4>1 DEF Alive
      <4>3. ASSUME NEW i \in DomIds, NEW j \in DomIds, i # j, Alive(i), Alive(j),
                   dom'[i].name # NoName
            PROVE  dom'[i].name # dom'[j].name
        <5>1. CASE i # proc[p].id /\ j # proc[p].id
          BY <4>1, <4>3, <5>1 DEF NamesInv, NamesDistinct
        <5>2. CASE i = proc[p].id \/ j = proc[p].id
          BY <2>1, <4>1, <4>3, <5>2 DEF Unclaimed, Find
        <5> QED BY <5>1, <5>2
      <4> QED BY <4>2, <4>3 DEF NamesDistinct, DomIds
    <3>2. CASE ~Alive(proc[p].id)
      BY <2>1, <3>2 DEF NamesInv, NamesDistinct, Alive
    <3> QED BY <3>1, <3>2
  <2> QED BY <2>3, <2>4, <2>5 DEF NamesInv
<1>4. CASE RenameRetries(p)
  <2>1. /\ UNCHANGED dom /\ trans' = [trans EXCEPT ![p] = "none"]
        /\ proc[p].pc = "commit" /\ Go(p, [proc[p] EXCEPT !.pc = "check"])
    BY <1>4 DEF RenameRetries
  <2> QED BY <1>0, <2>1, NamesMove, NoneOpened, DomsAsTheyWere, NamesTogether
<1> QED BY <1>1, <1>2, <1>3, <1>4

LEMMA SavesKeepNames ==
  ASSUME NamesInv, NEW p \in Procs, SaveSuspends(p) \/ SaveFails(p) \/ SaveEnds(p)
  PROVE  NamesInv'
<1> USE DEF LifeFields, OfLife
<1>0. OfLife(proc[p])
  BY DEF NamesInv, Shapes
<1>1. CASE SaveSuspends(p)
  <2>1. /\ dom[proc[p].id].state = "running"
        /\ dom' = [dom EXCEPT ![proc[p].id].state = "dead", ![proc[p].id].why = "suspend"]
        /\ UNCHANGED trans /\ Go(p, [proc[p] EXCEPT !.pc = "suspended"])
    BY <1>1 DEF SaveSuspends
  <2>2. DomsKept
    BY <2>1, DomChanges DEF Alive
  <2> QED BY <1>0, <2>1, <2>2, NamesMove, NoneOpened, NamesTogether
<1>2. CASE SaveFails(p)
  <2>1. UNCHANGED <<dom, trans>> /\ Exit(p)
    BY <1>2 DEF SaveFails
  <2> QED BY <2>1, NamesExit, NoneOpened, DomsAsTheyWere, NamesTogether
<1>3. CASE SaveEnds(p)
  <2>1. /\ Exit(p)
        /\ (UNCHANGED <<dom, trans>>) \/ DomainDestroy(proc[p].id, p)
    BY <1>3 DEF SaveEnds
  <2> QED BY <2>1, NamesExit, NoneOpened, DomsAsTheyWere, DestroyKeepsNames, NamesTogether
<1> QED BY <1>1, <1>2, <1>3

LEMMA OthersKeepNames ==
  ASSUME NamesInv,
         \/ PauseDomain \/ UnpauseDomain \/ DestroyDomain \/ GuestStops
         \/ \E p \in Procs : Killed(p)
  PROVE  NamesInv'
<1>1. CASE PauseDomain \/ UnpauseDomain
  <2>1. PICK i \in DomIds, s \in {"running", "paused"} :
          Alive(i) /\ dom' = [dom EXCEPT ![i].state = s]
    BY <1>1 DEF PauseDomain, UnpauseDomain, Alive
  <2>2. UNCHANGED <<proc, trans>>
    BY <1>1 DEF PauseDomain, UnpauseDomain
  <2> QED BY <2>1, <2>2, DomChanges, NamesStay, NoneOpened, NamesTogether
<1>2. CASE DestroyDomain
  <2>1. PICK i \in DomIds : dom' = [dom EXCEPT ![i] = Gone]
    BY <1>2 DEF DestroyDomain
  <2>2. UNCHANGED proc /\ StoreWritten(NoProc)
    BY <1>2 DEF DestroyDomain
  <2> QED BY <2>1, <2>2, DomGoes, NamesStay, NoneOpened, NamesTogether
<1>3. CASE GuestStops
  <2>1. PICK i \in DomIds, why \in Reasons :
          Alive(i) /\ dom' = [dom EXCEPT ![i].state = "dead", ![i].why = why]
    BY <1>3 DEF GuestStops, Alive
  <2>2. UNCHANGED <<proc, trans>>
    BY <1>3 DEF GuestStops
  <2> QED BY <2>1, <2>2, DomChanges, NamesStay, NoneOpened, NamesTogether
<1>4. ASSUME NEW p \in Procs, Killed(p) PROVE NamesInv'
  <2>1. UNCHANGED dom /\ trans' = [trans EXCEPT ![p] = "none"] /\ Exit(p)
    BY <1>4 DEF Killed
  <2> QED BY <2>1, NamesExit, NoneOpened, DomsAsTheyWere, NamesTogether
<1> QED BY <1>1, <1>2, <1>3, <1>4

\* In every state nonempty names are unique: libxl_domain_rename reads the names outside
\* of its transaction and takes no lock, but writes only when nobody has written since.
THEOREM NamesAreDistinct == DomainsSpec => []NamesDistinct
<1>1. DomainsInit => NamesInv
  <2> SUFFICES ASSUME DomainsInit PROVE NamesInv
    OBVIOUS
  <2>1. Shapes
    BY IdleLife DEF DomainsInit, Shapes
  <2>2. NamesDistinct /\ \A p \in Procs : ~WillCommit(p)
    BY DEF DomainsInit, NamesDistinct, Alive, WillCommit
  <2> QED BY <2>1, <2>2 DEF NamesInv
<1>2. NamesInv /\ [DomainsNext]_domainsVars => NamesInv'
  <2> SUFFICES ASSUME NamesInv, [DomainsNext]_domainsVars PROVE NamesInv'
    OBVIOUS
  <2>1. CASE UNCHANGED domainsVars
    BY <2>1, NamesStay, NoneOpened, DomsAsTheyWere, NamesTogether DEF domainsVars
  <2>2. CASE DomainsNext
    BY <2>2, StartsKeepNames, CreateKeepsNames, DeathsKeepNames, RenamesKeepNames,
       SavesKeepNames, OthersKeepNames DEF DomainsNext, DomainsGo
  <2> QED BY <2>1, <2>2
<1>3. NamesInv => NamesDistinct
  BY DEF NamesInv
<1> QED BY <1>1, <1>2, <1>3, PTL DEF DomainsSpec

(***************************************************************************)
(* XlMemory: domain 0's target is what was asked for, a guest's is the     *)
(* hypervisor's.                                                           *)
(***************************************************************************)
MemFields ==
  {"pc", "op", "dom", "arg", "new", "free", "need", "tries", "waits", "back", "touched"}

\* Where a process is, or goes on when libxl__fill_dom0_memory_info has returned.
For(r) == IF r.pc \in {"fill", "filled"} THEN r.back ELSE r.pc

\* A process in a command: only one that has called the hypervisor and not come to the end
\* of libxl_set_memory_target has touched its domain, and freemem only ever asks domain 0
\* for less.
OfMem(r) ==
  /\ DOMAIN r = MemFields
  /\ r.op \in {"none", "set", "max", "create"} /\ r.dom \in Domains
  /\ r.touched \in BOOLEAN /\ r.free \in Int /\ r.need \in Int
  /\ r.pc \in {"fill", "filled"} => r.back \in {"begin", "slack", "wait"}
  /\ r.op = "none" => For(r) = "idle"
  /\ r.op = "set" => r.arg \in Sizes
  /\ r.op = "create" => r.dom = Dom0 /\ r.arg \in Int /\ r.arg <= 0
  /\ r.op = "max" => For(r) = "max" /\ ~r.touched
  /\ r.touched => For(r) \in {"begin", "max", "pod", "write"}
  /\ r.pc = "write" => r.touched
  /\ For(r) \in {"info", "slack", "wait", "build", "unlock"} => r.op = "create"

Shaped ==
  /\ DOMAIN memory = {"target", "top", "slack"}
  /\ DOMAIN memory.target = Domains /\ DOMAIN memory.top = Domains
  /\ DOMAIN hypervisor = {"max", "pod", "has", "free"}
  /\ DOMAIN hypervisor.max = Domains /\ DOMAIN hypervisor.pod = Domains
  /\ DOMAIN hypervisor.has = Domains
  /\ DOMAIN proc = Procs /\ DOMAIN txn = Procs
  /\ memory.slack \in Int /\ hypervisor.free \in Int
  /\ hypervisor.has[Dom0] \in 0 .. Word - 1
  /\ memory.target[Dom0] \in {Absent} \cup 0 .. Word - 1

\* As long as the transaction is open, what was read of domain 0's target still holds.
Reads(p) ==
  txn[p] = "open" /\ proc[p].pc \in {"max", "pod", "write"} /\ proc[p].op # "max" /\ proc[p].dom = Dom0
    => memory.target[Dom0] # Absent /\ proc[p].new = Asked(p)

\* And what the hypervisor was told is what will be written, but for those who told it
\* something else since and have not come to their end.
Holds(p, d) == proc[p].touched /\ proc[p].dom = d
Writes(p) ==
  /\ txn[p] = "open" /\ proc[p].pc = "write" /\ proc[p].dom \in Guests \ gaveUp
  /\ \A q \in Procs \ {p} : ~Holds(q, proc[p].dom)
  => hypervisor.pod[proc[p].dom] = proc[p].new

MemInv ==
  /\ Shaped
  /\ Dom0TargetIsOwed
  /\ PodIsTarget
  /\ \A p \in Procs : OfMem(proc[p]) /\ Reads(p) /\ Writes(p)

MemConstants ==
  /\ Dom0 \notin Guests /\ New \in Guests /\ Videoram \in [Guests -> Nat]
  /\ Sizes \subseteq Nat /\ \A n \in Sizes : n < Word
  /\ Size \in [Domains -> Nat] /\ \A d \in Domains : Size[d] < Word
  /\ {Total, Unused, SlackCap, Word} \subseteq Nat

LEMMA MemAssumed == MemConstants
<1>1. /\ Dom0 \notin Guests /\ New \in Guests /\ Videoram \in [Guests -> Nat]
      /\ Size \in [Domains -> Nat] /\ Sizes \subseteq Nat
      /\ \A n \in Sizes \cup Range(Size) : n < Word
      /\ {Total, Unused, SlackCap, Word} \subseteq Nat
  BY XlMemoryAssumption
<1>2. \A d \in Domains : Size[d] \in Range(Size)
  BY <1>1 DEF Range
<1> QED BY <1>1, <1>2 DEF MemConstants

LEMMA IdleMem == ASSUME MemConstants PROVE OfMem(MemoryIdle) /\ MemoryIdle.pc = "idle" /\ ~MemoryIdle.touched
BY DEF MemConstants, MemoryIdle, OfMem, MemFields, For, Domains

LEMMA WentMem ==
  ASSUME MemInv, NEW p \in Procs, NEW r, Go(p, r)
  PROVE  DOMAIN proc' = Procs /\ proc'[p] = r /\ \A q \in Procs \ {p} : proc'[q] = proc[q]
BY DEF MemInv, Shaped, Go

\* A step that writes neither the store nor a target of the hypervisor, and forgets of no
\* touched domain without giving it up.
StillHeld ==
  /\ gaveUp \subseteq gaveUp'
  /\ \A q \in Procs, d \in Guests \ gaveUp' : Holds(q, d) => Holds(q, d)'
StoreStays ==
  /\ memory' = memory /\ owed' = owed
  /\ DOMAIN hypervisor' = {"max", "pod", "has", "free"}
  /\ DOMAIN hypervisor'.max = Domains /\ DOMAIN hypervisor'.has = Domains
  /\ hypervisor'.pod = hypervisor.pod
  /\ hypervisor'.free \in Int /\ hypervisor'.has[Dom0] \in 0 .. Word - 1
OthersWait(p) == DOMAIN txn' = Procs /\ \A q \in Procs \ {p} : txn'[q] = txn[q]

LEMMA MemMoves ==
  ASSUME MemConstants, MemInv, NEW p \in Procs, NEW r, OfMem(r), Go(p, r),
         StillHeld, StoreStays, OthersWait(p), Reads(p)', Writes(p)'
  PROVE  MemInv'
<1>1. DOMAIN proc' = Procs /\ proc'[p] = r /\ \A q \in Procs \ {p} : proc'[q] = proc[q]
  BY WentMem
<1>2. Shaped'
  BY <1>1 DEF MemInv, Shaped, StoreStays, OthersWait
<1>3. Dom0TargetIsOwed'
  BY DEF MemInv, StoreStays, Dom0TargetIsOwed
<1>4. PodIsTarget'
  BY DEF MemInv, StoreStays, StillHeld, PodIsTarget, Holds
<1>5. ASSUME NEW q \in Procs PROVE OfMem(proc'[q]) /\ Reads(q)' /\ Writes(q)'
  <2>1. CASE q = p
    BY <1>1, <2>1
  <2>2. CASE q # p
    <3>1. proc'[q] = proc[q] /\ txn'[q] = txn[q]
      BY <1>1, <2>2 DEF OthersWait
    <3>2. Reads(q)'
      BY <3>1 DEF MemInv, Reads, StoreStays, Asked
    <3>3. Writes(q)'
      BY <3>1 DEF MemInv, Writes, StoreStays, StillHeld
    <3> QED BY <3>1, <3>2, <3>3 DEF MemInv
  <2> QED BY <2>1, <2>2
<1> QED BY <1>2, <1>3, <1>4, <1>5 DEF MemInv

\* Where neither is in question.
LEMMA MemWalks ==
  ASSUME MemConstants, MemInv, NEW p \in Procs, NEW r, OfMem(r), Go(p, r),
         StillHeld, StoreStays, OthersWait(p), r.pc \notin {"max", "pod", "write"} \/ r.op = "max"
  PROVE  MemInv'
<1>1. proc'[p] = r
  BY WentMem
<1>2. Reads(p)' /\ Writes(p)'
  BY <1>1 DEF Reads, Writes, OfMem, For
<1> QED BY <1>2, MemMoves

\* The three ways to leave the touched domains as they are.
LEMMA KeepsHolding ==
  ASSUME MemInv, NEW p \in Procs, NEW r, Go(p, r),
         \/ UNCHANGED gaveUp /\ (proc[p].touched => r.touched /\ r.dom = proc[p].dom)
         \/ LeavesTouched(p)
  PROVE  StillHeld
<1>1. proc'[p] = r /\ \A q \in Procs \ {p} : proc'[q] = proc[q]
  BY WentMem
<1> QED BY <1>1 DEF StillHeld, Holds, LeavesTouched

LEMMA StoreLeft ==
  ASSUME MemInv, UNCHANGED <<memory, hypervisor, owed>>
  PROVE  StoreStays
BY DEF MemInv, Shaped, StoreStays

LEMMA TxLeft ==
  ASSUME MemInv, NEW p \in Procs, UNCHANGED txn \/ TxStarts(p) \/ TxEnds(p)
  PROVE  OthersWait(p)
BY DEF MemInv, Shaped, OthersWait, TxStarts, TxEnds

\* xl mem-set, mem-max and create begin; the lock file changes nothing here.
LEMMA MemBegins ==
  ASSUME MemConstants, MemInv, NEW p \in Procs, MemSet(p) \/ MemMax(p) \/ CreateBegins(p)
  PROVE  MemInv'
<1>0. /\ UNCHANGED <<memory, hypervisor, txn, owed, gaveUp>> /\ ~proc[p].touched
  BY DEF MemSet, MemMax, CreateBegins, MemInv, OfMem, For
<1>1. \E r : OfMem(r) /\ Go(p, r) /\ (r.pc \notin {"max", "pod", "write"} \/ r.op = "max")
  <2>1. CASE MemSet(p)
    <3>1. PICK d \in Domains, n \in Sizes :
            Go(p, [MemoryIdle EXCEPT !.pc = "begin", !.op = "set", !.dom = d, !.arg = n])
      BY <2>1 DEF MemSet
    <3> DEFINE r == [MemoryIdle EXCEPT !.pc = "begin", !.op = "set", !.dom = d, !.arg = n]
    <3>2. OfMem(r) /\ r.pc = "begin"
      BY IdleMem DEF OfMem, MemFields, For, MemoryIdle
    <3> QED BY <3>1, <3>2
  <2>2. CASE MemMax(p)
    <3>1. PICK d \in Domains, n \in Sizes :
            Go(p, [MemoryIdle EXCEPT !.pc = "max", !.op = "max", !.dom = d, !.new = n])
      BY <2>2 DEF MemMax
    <3> DEFINE r == [MemoryIdle EXCEPT !.pc = "max", !.op = "max", !.dom = d, !.new = n]
    <3>2. OfMem(r) /\ r.op = "max"
      BY IdleMem DEF OfMem, MemFields, For, MemoryIdle
    <3> QED BY <3>1, <3>2
  <2>3. CASE CreateBegins(p)
    <3>1. PICK n \in Sizes :
            Go(p, [MemoryIdle EXCEPT !.pc = "info", !.op = "create", !.need = n + Videoram[New],
                                     !.tries = Retries])
      BY <2>3 DEF CreateBegins
    <3> DEFINE r == [MemoryIdle EXCEPT !.pc = "info", !.op = "create", !.need = n + Videoram[New],
                                       !.tries = Retries]
    <3>2. n + Videoram[New] \in Int
      BY DEF MemConstants
    <3>3. OfMem(r) /\ r.pc = "info"
      BY <3>2, IdleMem DEF OfMem, MemFields, For, MemoryIdle
    <3> QED BY <3>1, <3>3
  <2> QED BY <2>1, <2>2, <2>3
<1>2. PICK r : OfMem(r) /\ Go(p, r) /\ (r.pc \notin {"max", "pod", "write"} \/ r.op = "max")
  BY <1>1
<1>3. StillHeld
  BY <1>0, <1>2, KeepsHolding
<1> QED BY <1>0, <1>2, <1>3, StoreLeft, TxLeft, MemWalks

\* libxl__fill_dom0_memory_info begins, again too, and whoever needs it calls it.
LEMMA FillsBegin ==
  ASSUME MemConstants, MemInv, NEW p \in Procs,
         FillBegin(p) \/ BeginFills(p) \/ SlackFills(p)
  PROVE  MemInv'
<1>0. /\ UNCHANGED <<memory, hypervisor, owed, gaveUp>> /\ OfMem(proc[p])
      /\ UNCHANGED txn \/ TxStarts(p)
  BY DEF FillBegin, BeginFills, SlackFills, MemInv
<1>1. \E r : /\ OfMem(r) /\ Go(p, r) /\ r.pc \in {"fill", "filled"}
             /\ r.touched = proc[p].touched /\ r.dom = proc[p].dom
  <2>1. CASE FillBegin(p)
    <3> DEFINE r == [proc[p] EXCEPT !.pc = "filled"]
    <3>1. Go(p, r) /\ proc[p].pc = "fill"
      BY <2>1 DEF FillBegin
    <3>2. OfMem(r) /\ r.pc = "filled" /\ r.touched = proc[p].touched /\ r.dom = proc[p].dom
      BY <1>0, <3>1 DEF OfMem, MemFields, For
    <3> QED BY <3>1, <3>2
  <2>2. CASE BeginFills(p)
    <3> DEFINE r == [proc[p] EXCEPT !.pc = "fill", !.back = "begin"]
    <3>1. Go(p, r) /\ proc[p].pc = "begin"
      BY <2>2 DEF BeginFills
    <3>2. OfMem(r) /\ r.pc = "fill" /\ r.touched = proc[p].touched /\ r.dom = proc[p].dom
      BY <1>0, <3>1 DEF OfMem, MemFields, For
    <3> QED BY <3>1, <3>2
  <2>3. CASE SlackFills(p)
    <3> DEFINE r == [proc[p] EXCEPT !.pc = "fill", !.back = proc[p].pc]
    <3>1. Go(p, r) /\ proc[p].pc \in {"slack", "wait"}
      BY <2>3 DEF SlackFills
    <3>2. OfMem(r) /\ r.pc = "fill" /\ r.touched = proc[p].touched /\ r.dom = proc[p].dom
      BY <1>0, <3>1 DEF OfMem, MemFields, For
    <3> QED BY <3>1, <3>2
  <2> QED BY <2>1, <2>2, <2>3
<1>2. PICK r : /\ OfMem(r) /\ Go(p, r) /\ r.pc \in {"fill", "filled"}
               /\ r.touched = proc[p].touched /\ r.dom = proc[p].dom
  BY <1>1
<1>3. StillHeld
  BY <1>0, <1>2, KeepsHolding
<1> QED BY <1>0, <1>2, <1>3, StoreLeft, TxLeft, MemWalks

\* What the end of a call does to its caller.
LEMMA CallReturns ==
  ASSUME MemConstants, MemInv, NEW p \in Procs, NEW failed \in BOOLEAN, SetEnds(p, failed),
         For(proc[p]) \in {"begin", "max", "pod", "write"}, proc[p].op # "max" 
  PROVE  \E r : OfMem(r) /\ Go(p, r) /\ r.pc \in {"idle", "wait", "unlock"} /\ ~r.touched
<1>0. OfMem(proc[p])
  BY DEF MemInv
<1>1. CASE proc[p].op = "create"
  <2> DEFINE r == [proc[p] EXCEPT !.pc = IF failed THEN "unlock" ELSE "wait",
                                  !.waits = WaitSecs, !.touched = FALSE]
  <2>1. Go(p, r)
    BY <1>1 DEF SetEnds
  <2>2. OfMem(r) /\ r.pc \in {"wait", "unlock"} /\ ~r.touched
    BY <1>0, <1>1 DEF OfMem, MemFields, For
  <2> QED BY <2>1, <2>2
<1>2. CASE proc[p].op # "create"
  BY <1>2, IdleMem DEF SetEnds
<1> QED BY <1>1, <1>2

\* libxl_set_memory_target and libxl_domain_setmaxmem give up: with a domain whose
\* hypervisor target they changed, if they did.
LEMMA CallsGiveUp ==
  ASSUME MemConstants, MemInv, NEW p \in Procs, BeginRefused(p) \/ HypercallFails(p)
  PROVE  MemInv'
<1>0. /\ UNCHANGED <<memory, hypervisor, owed>> /\ OfMem(proc[p]) /\ LeavesTouched(p)
      /\ UNCHANGED txn \/ TxEnds(p)
      /\ proc[p].pc \in {"begin", "max", "pod", "write"}
      /\ \E failed \in BOOLEAN : SetEnds(p, failed)
  BY DEF BeginRefused, HypercallFails, MemInv
<1>1. \E r : OfMem(r) /\ Go(p, r) /\ r.pc \in {"idle", "wait", "unlock"} /\ ~r.touched
  <2>1. CASE proc[p].op # "max"
    BY <1>0, <2>1, CallReturns DEF For
  <2>2. CASE proc[p].op = "max"
    BY <1>0, <2>2, IdleMem DEF SetEnds
  <2> QED BY <2>1, <2>2
<1>2. PICK r : OfMem(r) /\ Go(p, r) /\ r.pc \in {"idle", "wait", "unlock"} /\ ~r.touched
  BY <1>1
<1>3. StillHeld
  BY <1>0, <1>2, KeepsHolding
<1> QED BY <1>0, <1>2, <1>3, StoreLeft, TxLeft, MemWalks

\* The transaction begins, and what is to be written is what is asked for.
LEMMA MemReads ==
  ASSUME MemConstants, MemInv, NEW p \in Procs, SetBegins(p)
  PROVE  MemInv'
<1> DEFINE r == [proc[p] EXCEPT !.pc = IF proc[p].op = "set" THEN "max" ELSE "pod",
                                !.new = Asked(p)]
<1>0. /\ UNCHANGED <<memory, hypervisor, owed, gaveUp>> /\ OfMem(proc[p])
      /\ TxStarts(p) /\ proc[p].pc = "begin" /\ Go(p, r)
      /\ memory.target[proc[p].dom] # Absent
  BY DEF SetBegins, MemInv
<1>1. /\ OfMem(r) /\ r.touched = proc[p].touched /\ r.dom = proc[p].dom
      /\ r.op = proc[p].op /\ r.arg = proc[p].arg /\ r.new = Asked(p) /\ r.pc # "write"
  BY <1>0 DEF OfMem, MemFields, For
<1> HIDE DEF r
<1>2. StillHeld
  BY <1>0, <1>1, KeepsHolding
<1>3. proc'[p] = r
  BY <1>0, WentMem
<1>4. Writes(p)'
  BY <1>1, <1>3 DEF Writes
<1>5. Reads(p)'
  BY <1>0, <1>1, <1>3 DEF Reads, Asked
<1> QED BY <1>0, <1>1, <1>2, <1>4, <1>5, StoreLeft, TxLeft, MemMoves

\* xc_domain_setmaxmem: the limit is in neither property.
LEMMA LimitSet ==
  ASSUME MemConstants, MemInv, NEW p \in Procs, SetMax(p)
  PROVE  MemInv'
<1>0. /\ UNCHANGED <<memory, txn, owed, gaveUp>> /\ OfMem(proc[p]) /\ proc[p].pc = "max"
      /\ hypervisor' = [hypervisor EXCEPT !.max[proc[p].dom] = proc[p].new + Spare]
      /\ Go(p, IF proc[p].op = "max" THEN MemoryIdle ELSE [proc[p] EXCEPT !.pc = "pod"])
  BY DEF SetMax, MemInv
<1>1. StoreStays
  BY <1>0 DEF StoreStays, MemInv, Shaped
<1>2. CASE proc[p].op = "max"
  <2>1. Go(p, MemoryIdle) /\ ~proc[p].touched
    BY <1>0, <1>2 DEF OfMem
  <2>2. StillHeld
    BY <1>0, <2>1, KeepsHolding
  <2> QED BY <1>0, <1>1, <2>1, <2>2, IdleMem, TxLeft, MemWalks
<1>3. CASE proc[p].op # "max"
  <2> DEFINE r == [proc[p] EXCEPT !.pc = "pod"]
  <2>1. Go(p, r)
    BY <1>0, <1>3
  <2>2. /\ OfMem(r) /\ r.touched = proc[p].touched /\ r.dom = proc[p].dom
        /\ r.op = proc[p].op /\ r.arg = proc[p].arg /\ r.new = proc[p].new /\ r.pc = "pod"
    BY <1>0, <1>3 DEF OfMem, MemFields, For
  <2> HIDE DEF r
  <2>3. StillHeld
    BY <1>0, <2>1, <2>2, KeepsHolding
  <2>4. proc'[p] = r
    BY <2>1, WentMem
  <2>5. Writes(p)'
    BY <2>2, <2>4 DEF Writes
  <2>6. Reads(p)'
    BY <1>0, <1>3, <2>2, <2>4 DEF MemInv, Reads, Asked
  <2> QED BY <1>0, <1>1, <2>1, <2>2, <2>3, <2>5, <2>6, TxLeft, MemMoves
<1> QED BY <1>2, <1>3

\* xc_domain_set_pod_target: whoever else has told the hypervisor something of this domain
\* is no longer the last, and this process has touched it.  Domain 0 has no video memory,
\* and less than Word in all.
LEMMA PodSet ==
  ASSUME MemConstants, MemInv, NEW p \in Procs, SetPod(p)
  PROVE  MemInv'
<1>p. PICK d \in Domains : d = proc[p].dom
  BY DEF MemInv, OfMem
<1> DEFINE n == Less(proc[p].new, Video(d))
           r == [proc[p] EXCEPT !.pc = "write", !.new = n, !.touched = TRUE]
<1>0. /\ UNCHANGED <<memory, txn, owed, gaveUp>> /\ OfMem(proc[p]) /\ proc[p].pc = "pod"
      /\ hypervisor' = [hypervisor EXCEPT !.pod[d] = n]
      /\ d = proc[p].dom
  BY <1>p DEF SetPod, MemInv, OfMem
<1>a. Go(p, r)
  <2>1. Go(p, [proc[p] EXCEPT !.pc = "write", !.new = Less(@, Video(proc[p].dom)), !.touched = TRUE])
    BY DEF SetPod
  <2>2. [proc[p] EXCEPT !.pc = "write", !.new = Less(@, Video(proc[p].dom)), !.touched = TRUE] = r
    BY <1>0 DEF OfMem, MemFields
  <2> QED BY <2>1, <2>2
<1>1. /\ OfMem(r) /\ r.touched /\ r.dom = d /\ r.new = n
      /\ r.op = proc[p].op /\ r.arg = proc[p].arg /\ r.pc = "write" /\ proc[p].op # "max"
  BY <1>0 DEF OfMem, MemFields, For
<1>2. d = Dom0 /\ txn[p] = "open" => n = proc[p].new
  <2> SUFFICES ASSUME d = Dom0, txn[p] = "open" PROVE n = proc[p].new
    OBVIOUS
  <2>1. memory.target[Dom0] # Absent /\ proc[p].new = Asked(p)
    BY <1>0, <1>1 DEF MemInv, Reads
  <2>2. Asked(p) \in 0 .. Word - 1
    <3>1. memory.target[Dom0] \in 0 .. Word - 1 /\ Word \in Nat
      BY <2>1 DEF MemInv, Shaped, MemConstants
    <3>2. CASE proc[p].op = "set"
      BY <1>0, <3>1, <3>2 DEF OfMem, MemConstants, Asked
    <3>3. CASE proc[p].op = "create"
      <4>1. proc[p].dom = Dom0 /\ proc[p].arg \in Int /\ proc[p].arg <= 0
        BY <1>0, <3>3 DEF OfMem
      <4> QED BY <3>1, <3>3, <4>1 DEF Asked
    <3> QED BY <1>0, <1>1, <3>2, <3>3 DEF OfMem, For
  <2>3. Video(d) = 0
    BY DEF Video
  <2>4. \A a \in 0 .. Word - 1 : (a - 0) % Word = a
    BY DEF MemConstants
  <2> QED BY <2>1, <2>2, <2>3, <2>4 DEF Less
<1> HIDE DEF r, n
<1>3. DOMAIN proc' = Procs /\ proc'[p] = r /\ \A q \in Procs \ {p} : proc'[q] = proc[q]
  BY <1>a, WentMem
<1>4. Shaped' /\ Dom0TargetIsOwed'
  BY <1>0, <1>3 DEF MemInv, Shaped, Dom0TargetIsOwed
<1>5. hypervisor'.pod[d] = n /\ \A e \in Guests \ {d} : hypervisor'.pod[e] = hypervisor.pod[e]
  BY <1>0 DEF MemInv, Shaped, Domains
<1>6. \A q \in Procs, e \in Guests : Holds(q, e) => Holds(q, e)'
  BY <1>p, <1>1, <1>3 DEF Holds
<1>7. Holds(p, d)'
  BY <1>1, <1>3 DEF Holds
<1>b. ASSUME NEW e \in Guests, \A q \in Procs : ~Holds(q, e)', e \notin gaveUp'
      PROVE  hypervisor'.pod[e] = memory'.target[e]
  <2>1. e # d
    BY <1>7, <1>b
  <2>2. \A q \in Procs : ~Holds(q, e)
    BY <1>6, <1>b
  <2>3. hypervisor.pod[e] = memory.target[e]
    BY <1>0, <1>b, <2>2 DEF MemInv, PodIsTarget, Holds
  <2> QED BY <1>0, <1>5, <2>1, <2>3
<1>8. PodIsTarget'
  BY <1>b DEF PodIsTarget, Holds
<1>9. ASSUME NEW q \in Procs PROVE OfMem(proc'[q]) /\ Reads(q)' /\ Writes(q)'
  <2>1. CASE q = p
    <3>1. Writes(p)'
      BY <1>1, <1>3, <1>5 DEF Writes
    <3>2. Reads(p)'
      BY <1>0, <1>1, <1>2, <1>3 DEF MemInv, Reads, Asked
    <3> QED BY <1>1, <1>3, <2>1, <3>1, <3>2
  <2>2. CASE q # p
    <3>1. proc'[q] = proc[q] /\ txn'[q] = txn[q]
      BY <1>0, <1>3, <2>2
    <3>2. Reads(q)'
      BY <1>0, <3>1 DEF MemInv, Reads, Asked
    <3>3. Writes(q)'
      <4>0. PICK e \in Domains : e = proc[q].dom
        BY DEF MemInv, OfMem
      <4> SUFFICES ASSUME txn[q] = "open", proc[q].pc = "write", e \in Guests \ gaveUp,
                          \A o \in Procs \ {q} : ~Holds(o, e)'
                   PROVE  hypervisor'.pod[e] = proc[q].new
        BY <1>0, <3>1, <4>0 DEF Writes
      <4>1. e # d
        BY <1>7, <2>2
      <4>2. \A o \in Procs \ {q} : ~Holds(o, e)
        BY <1>6
      <4>3. hypervisor.pod[e] = proc[q].new
        BY <4>0, <4>2 DEF MemInv, Writes
      <4> QED BY <1>5, <4>1, <4>3
    <3> QED BY <3>1, <3>2, <3>3 DEF MemInv
  <2> QED BY <2>1, <2>2
<1> QED BY <1>4, <1>8, <1>9 DEF MemInv

\* A write makes every open transaction fail.
LEMMA WritesEndOthers ==
  ASSUME MemInv, NEW p \in Procs, TxWritten(p)
  PROVE  DOMAIN txn' = Procs /\ \A q \in Procs : txn'[q] # "open"
BY DEF MemInv, Shaped, TxWritten

LEMMA AllStale ==
  ASSUME \A q \in Procs : txn'[q] # "open"
  PROVE  \A q \in Procs : Reads(q)' /\ Writes(q)'
BY DEF Reads, Writes

\* The target is written: domain 0's is then what is owed, a guest's what the hypervisor
\* was told, unless another has told it something since.
LEMMA TargetWritten ==
  ASSUME MemConstants, MemInv, NEW p \in Procs, Commit(p)
  PROVE  MemInv'
<1> DEFINE d == proc[p].dom
<1>0. /\ UNCHANGED <<hypervisor, gaveUp>> /\ OfMem(proc[p])
      /\ proc[p].pc = "write" /\ txn[p] = "open" /\ TxWritten(p)
      /\ memory' = [memory EXCEPT !.target[d] = proc[p].new]
      /\ SetEnds(p, FALSE) /\ d \in Domains
      /\ owed' = IF d # Dom0 THEN owed ELSE IF proc[p].op = "set" THEN proc[p].arg
                 ELSE IF -proc[p].arg > owed THEN 0 ELSE owed + proc[p].arg
  BY DEF Commit, MemInv, OfMem
<1>1. PICK r : OfMem(r) /\ Go(p, r) /\ ~r.touched
  <2>1. proc[p].op # "max"
    BY <1>0 DEF OfMem, For
  <2> QED BY <1>0, <2>1, CallReturns DEF For
<1>2. DOMAIN proc' = Procs /\ proc'[p] = r /\ \A q \in Procs \ {p} : proc'[q] = proc[q]
  BY <1>1, WentMem
<1>3. DOMAIN txn' = Procs /\ \A q \in Procs : txn'[q] # "open"
  BY <1>0, WritesEndOthers
<1>4. /\ memory'.target[d] = proc[p].new /\ memory'.slack = memory.slack
      /\ \A e \in Domains \ {d} : memory'.target[e] = memory.target[e]
      /\ DOMAIN memory' = {"target", "top", "slack"} /\ memory'.top = memory.top
      /\ DOMAIN memory'.target = Domains
  BY <1>0 DEF MemInv, Shaped
<1>5. d = Dom0 => proc[p].new = owed' /\ proc[p].new \in 0 .. Word - 1
  <2> SUFFICES ASSUME d = Dom0 PROVE proc[p].new = owed' /\ proc[p].new \in 0 .. Word - 1
    OBVIOUS
  <2>1. memory.target[Dom0] # Absent /\ proc[p].new = Asked(p) /\ proc[p].op \in {"set", "create"}
    BY <1>0 DEF MemInv, Reads, OfMem, For
  <2>2. memory.target[Dom0] \in 0 .. Word - 1 /\ memory.target[Dom0] = owed
    BY <2>1 DEF MemInv, Shaped, Dom0TargetIsOwed
  <2>3. proc[p].new = owed'
    BY <1>0, <2>1, <2>2 DEF Asked
  <2>4. CASE proc[p].op = "set"
    BY <1>0, <2>1, <2>4 DEF OfMem, MemConstants, Asked
  <2>5. CASE proc[p].op = "create"
    <3>1. proc[p].arg \in Int /\ proc[p].arg <= 0 /\ Word \in Nat
      BY <1>0, <2>5 DEF OfMem, MemConstants
    <3> QED BY <2>1, <2>2, <2>3, <2>5, <3>1 DEF Asked
  <2> QED BY <2>1, <2>3, <2>4, <2>5
<1>6. Shaped' /\ Dom0TargetIsOwed'
  <2>1. Dom0 \in Domains
    BY DEF Domains
  <2>2. memory'.target[Dom0] = owed' /\ memory'.target[Dom0] \in {Absent} \cup 0 .. Word - 1
    <3>1. CASE d = Dom0
      BY <1>4, <1>5, <3>1
    <3>2. CASE d # Dom0
      BY <1>0, <1>4, <2>1, <3>2 DEF MemInv, Shaped, Dom0TargetIsOwed
    <3> QED BY <3>1, <3>2
  <2> QED BY <1>0, <1>2, <1>3, <1>4, <2>2 DEF MemInv, Shaped, Dom0TargetIsOwed
<1>7. ASSUME NEW e \in Guests, \A q \in Procs : ~Holds(q, e)', e \notin gaveUp'
      PROVE  hypervisor'.pod[e] = memory'.target[e]
  <2>1. \A q \in Procs \ {p} : ~Holds(q, e)
    BY <1>2, <1>7 DEF Holds
  <2>2. CASE e = d
    BY <1>0, <1>4, <1>7, <2>1, <2>2 DEF MemInv, Writes
  <2>3. CASE e # d
    <3>1. \A q \in Procs : ~Holds(q, e)
      BY <2>1, <2>3 DEF Holds
    <3>2. hypervisor.pod[e] = memory.target[e]
      BY <1>0, <1>7, <3>1 DEF MemInv, PodIsTarget, Holds
    <3> QED BY <1>0, <1>4, <2>3, <3>2 DEF Domains
  <2> QED BY <2>2, <2>3
<1>8. PodIsTarget'
  BY <1>7 DEF PodIsTarget, Holds
<1>9. \A q \in Procs : OfMem(proc'[q]) /\ Reads(q)' /\ Writes(q)'
  BY <1>1, <1>2, <1>3, AllStale DEF MemInv
<1> QED BY <1>6, <1>8, <1>9 DEF MemInv

\* EAGAIN: from the beginning, with the domain touched.
LEMMA WriteRetries ==
  ASSUME MemConstants, MemInv, NEW p \in Procs, CommitRetries(p)
  PROVE  MemInv'
<1> DEFINE r == [proc[p] EXCEPT !.pc = "begin"]
<1>0. /\ UNCHANGED <<memory, hypervisor, owed, gaveUp>> /\ OfMem(proc[p]) /\ proc[p].pc = "write"
      /\ TxEnds(p) /\ Go(p, r)
  BY DEF CommitRetries, Stale, MemInv
<1>1. OfMem(r) /\ r.touched = proc[p].touched /\ r.dom = proc[p].dom /\ r.pc = "begin"
  BY <1>0 DEF OfMem, MemFields, For
<1> HIDE DEF r
<1>2. StillHeld
  BY <1>0, <1>1, KeepsHolding
<1> QED BY <1>0, <1>1, <1>2, StoreLeft, TxLeft, MemWalks

\* libxl__fill_dom0_memory_info ends: what it writes of domain 0's target is what the
\* domain has, which nobody has been asked to change yet.
LEMMA FillEnds ==
  ASSUME MemConstants, MemInv, NEW p \in Procs, FillEnd(p)
  PROVE  MemInv'
<1>0. UNCHANGED <<hypervisor, gaveUp>> /\ OfMem(proc[p]) /\ proc[p].pc = "filled"
  BY DEF FillEnd, MemInv
<1>1. CASE txn[p] = "stale"
  <2> DEFINE r == [proc[p] EXCEPT !.pc = "fill"]
  <2>1. TxEnds(p) /\ UNCHANGED <<memory, owed>> /\ Go(p, r)
    BY <1>1 DEF FillEnd
  <2>2. OfMem(r) /\ r.touched = proc[p].touched /\ r.dom = proc[p].dom /\ r.pc = "fill"
    BY <1>0 DEF OfMem, MemFields, For
  <2> HIDE DEF r
  <2>3. StillHeld
    BY <1>0, <2>1, <2>2, KeepsHolding
  <2> QED BY <1>0, <2>1, <2>2, <2>3, StoreLeft, TxLeft, MemWalks
<1>2. CASE txn[p] # "stale"
  <2> DEFINE r == [proc[p] EXCEPT !.pc = proc[p].back]
  <2>1. /\ memory' = Filled /\ owed' = OrElse(owed, hypervisor.has[Dom0]) /\ Go(p, r)
        /\ IF Filled = memory THEN TxEnds(p) ELSE TxWritten(p)
    BY <1>2 DEF FillEnd
  <2>2. /\ OfMem(r) /\ r.touched = proc[p].touched /\ r.dom = proc[p].dom
        /\ r.pc \in {"begin", "slack", "wait"}
    BY <1>0 DEF OfMem, MemFields, For
  <2> HIDE DEF r
  <2>3. StillHeld
    BY <1>0, <2>1, <2>2, KeepsHolding
  <2>4. /\ DOMAIN Filled = {"target", "top", "slack"}
        /\ DOMAIN Filled.target = Domains /\ DOMAIN Filled.top = Domains
        /\ \A e \in Domains \ {Dom0} : Filled.target[e] = memory.target[e]
        /\ Filled.target[Dom0] = OrElse(memory.target[Dom0], hypervisor.has[Dom0])
        /\ Filled.slack = OrElse(memory.slack, Slack)
    BY DEF MemInv, Shaped, Filled, Domains
  <2>5. CASE Filled = memory
    <3>1. owed' = owed
      BY <2>1, <2>4, <2>5 DEF MemInv, Dom0TargetIsOwed
    <3> QED BY <1>0, <2>1, <2>2, <2>3, <2>5, <3>1, StoreLeft, TxLeft, MemWalks
  <2>6. CASE Filled # memory
    <3>1. DOMAIN txn' = Procs /\ \A q \in Procs : txn'[q] # "open"
      BY <2>1, <2>6, WritesEndOthers
    <3>2. DOMAIN proc' = Procs /\ proc'[p] = r /\ \A q \in Procs \ {p} : proc'[q] = proc[q]
      BY <2>1, WentMem
    <3>3. Slack \in Int
      BY DEF Slack, MemInv, Shaped, MemConstants
    <3>4. memory'.slack \in Int /\ memory'.target[Dom0] \in {Absent} \cup 0 .. Word - 1
      BY <2>1, <2>4, <3>3 DEF MemInv, Shaped, OrElse
    <3>5. Shaped' /\ Dom0TargetIsOwed'
      BY <1>0, <2>1, <2>4, <3>1, <3>2, <3>4 DEF MemInv, Shaped, Dom0TargetIsOwed
    <3>6. \A e \in Guests : memory'.target[e] = memory.target[e]
      BY <2>1, <2>4 DEF MemConstants, Domains
    <3>7. PodIsTarget'
      BY <1>0, <2>3, <3>6 DEF MemInv, PodIsTarget, StillHeld, Holds
    <3>8. \A q \in Procs : OfMem(proc'[q]) /\ Reads(q)' /\ Writes(q)'
      BY <2>2, <3>1, <3>2, AllStale DEF MemInv
    <3> QED BY <3>5, <3>7, <3>8 DEF MemInv
  <2> QED BY <2>5, <2>6
<1> QED BY <1>1, <1>2

\* freemem's own steps.
LEMMA FreeingKeeps ==
  ASSUME MemConstants, MemInv, NEW p \in Procs,
         ReadInfo(p) \/ CompareFree(p) \/ WaitFree(p) \/ WaitTarget(p) \/ Unlock(p)
  PROVE  MemInv'
<1>0. /\ UNCHANGED <<memory, hypervisor, txn, owed, gaveUp>> /\ OfMem(proc[p])
      /\ ~proc[p].touched /\ memory.slack \in Int /\ hypervisor.free \in Int
  BY DEF ReadInfo, CompareFree, WaitFree, WaitTarget, Unlock, MemInv, OfMem,
     For, Shaped
<1>1. \E r : OfMem(r) /\ Go(p, r) /\ r.pc \notin {"max", "pod", "write"}
  <2>1. CASE ReadInfo(p)
    <3> DEFINE r == [proc[p] EXCEPT !.pc = "slack", !.free = Available]
    <3>1. Go(p, r) /\ proc[p].pc = "info"
      BY <2>1 DEF ReadInfo
    <3>2. OfMem(r) /\ r.pc = "slack"
      BY <1>0, <3>1 DEF OfMem, MemFields, For, Available
    <3> QED BY <3>1, <3>2
  <2>2. CASE CompareFree(p)
    <3>1. proc[p].pc = "slack"
      BY <2>2 DEF CompareFree
    <3>2. CASE FreeMemory(p) >= proc[p].need
      <4> DEFINE r == [proc[p] EXCEPT !.pc = "build"]
      <4>1. Go(p, r)
        BY <2>2, <3>2 DEF CompareFree
      <4>2. OfMem(r) /\ r.pc = "build"
        BY <1>0, <3>1 DEF OfMem, MemFields, For
      <4> QED BY <4>1, <4>2
    <3>3. CASE ~(FreeMemory(p) >= proc[p].need)
      <4> DEFINE less == FreeMemory(p) - proc[p].need
                 r == [proc[p] EXCEPT !.pc = "begin", !.dom = Dom0, !.arg = less]
      <4>1. Go(p, r)
        BY <2>2, <3>3 DEF CompareFree
      <4>2. less \in Int /\ less <= 0
        BY <1>0, <3>3 DEF OfMem, FreeMemory
      <4> HIDE DEF less
      <4>3. OfMem(r) /\ r.pc = "begin"
        BY <1>0, <3>1, <4>2 DEF OfMem, MemFields, For, Domains
      <4> QED BY <4>1, <4>3
    <3> QED BY <3>2, <3>3
  <2>3. CASE WaitFree(p)
    <3>1. proc[p].pc = "wait"
      BY <2>3 DEF WaitFree
    <3>2. CASE Less(Available, memory.slack) >= proc[p].need
      <4> DEFINE r == [proc[p] EXCEPT !.pc = "build"]
      <4>1. Go(p, r)
        BY <2>3, <3>2 DEF WaitFree
      <4>2. OfMem(r) /\ r.pc = "build"
        BY <1>0, <3>1 DEF OfMem, MemFields, For
      <4> QED BY <4>1, <4>2
    <3>3. CASE ~(Less(Available, memory.slack) >= proc[p].need)
      <4> DEFINE r == [proc[p] EXCEPT !.waits = @ - 1]
      <4>1. Go(p, r)
        BY <2>3, <3>3 DEF WaitFree
      <4>2. OfMem(r) /\ r.pc = "wait"
        BY <1>0, <3>1 DEF OfMem, MemFields, For
      <4> QED BY <4>1, <4>2
    <3> QED BY <3>2, <3>3
  <2>4. CASE WaitTarget(p)
    <3> DEFINE r == [proc[p] EXCEPT !.pc = IF proc[p].tries > 1 THEN "info" ELSE "unlock", !.tries = @ - 1]
    <3>1. Go(p, r) /\ proc[p].pc = "wait"
      BY <2>4 DEF WaitTarget
    <3>2. OfMem(r) /\ r.pc \in {"info", "unlock"}
      BY <1>0, <3>1 DEF OfMem, MemFields, For
    <3> QED BY <3>1, <3>2
  <2>5. CASE Unlock(p)
    BY <2>5, IdleMem DEF Unlock
  <2> QED BY <2>1, <2>2, <2>3, <2>4, <2>5
<1>2. PICK r : OfMem(r) /\ Go(p, r) /\ r.pc \notin {"max", "pod", "write"}
  BY <1>1
<1>3. StillHeld
  BY <1>0, <1>2, KeepsHolding
<1> QED BY <1>0, <1>2, <1>3, StoreLeft, TxLeft, MemWalks

\* libxl_domain_create_new gives the new guest its target in both.
LEMMA BuildKeeps ==
  ASSUME MemConstants, MemInv, NEW p \in Procs, Build(p)
  PROVE  MemInv'
<1> DEFINE r == [proc[p] EXCEPT !.pc = "unlock"]
           n == proc[p].need
<1>0. /\ UNCHANGED <<owed, gaveUp>> /\ OfMem(proc[p]) /\ proc[p].pc = "build" /\ Go(p, r)
  BY DEF Build, MemInv
<1>1. OfMem(r) /\ r.pc = "unlock" /\ ~r.touched /\ ~proc[p].touched
  BY <1>0 DEF OfMem, MemFields, For
<1> HIDE DEF r
<1>2. StillHeld
  BY <1>0, <1>1, KeepsHolding
<1>3. CASE UNCHANGED <<memory, hypervisor, txn>>
  BY <1>0, <1>1, <1>2, <1>3, StoreLeft, TxLeft, MemWalks
<1>4. CASE /\ memory' = [memory EXCEPT !.target[New] = n - Videoram[New], !.top[New] = n]
           /\ hypervisor' = [hypervisor EXCEPT !.max[New] = n + Spare, !.has[New] = n,
                                               !.pod[New] = n - Videoram[New], !.free = @ - n]
           /\ TxWritten(p)
  <2>0. New \in Domains /\ New # Dom0 /\ Dom0 \in Domains
    BY DEF MemConstants, Domains
  <2>1. DOMAIN txn' = Procs /\ \A q \in Procs : txn'[q] # "open"
    BY <1>4, WritesEndOthers
  <2>2. DOMAIN proc' = Procs /\ proc'[p] = r /\ \A q \in Procs \ {p} : proc'[q] = proc[q]
    BY <1>0, WentMem
  <2>3. /\ DOMAIN memory' = {"target", "top", "slack"}
        /\ DOMAIN memory'.target = Domains /\ DOMAIN memory'.top = Domains
        /\ memory'.slack = memory.slack /\ memory'.target[New] = n - Videoram[New]
        /\ \A d \in Domains \ {New} : memory'.target[d] = memory.target[d]
    BY <1>4, <2>0 DEF MemInv, Shaped
  <2>4. /\ DOMAIN hypervisor' = {"max", "pod", "has", "free"}
        /\ DOMAIN hypervisor'.max = Domains /\ DOMAIN hypervisor'.pod = Domains
        /\ DOMAIN hypervisor'.has = Domains
        /\ hypervisor'.has[Dom0] = hypervisor.has[Dom0] /\ hypervisor'.free = hypervisor.free - n
        /\ hypervisor'.pod[New] = n - Videoram[New]
        /\ \A d \in Domains \ {New} : hypervisor'.pod[d] = hypervisor.pod[d]
    BY <1>4, <2>0 DEF MemInv, Shaped
  <2>5. Shaped' /\ Dom0TargetIsOwed'
    <3>1. hypervisor'.free \in Int
      BY <1>0, <2>4 DEF MemInv, Shaped, OfMem
    <3> QED BY <1>0, <2>0, <2>1, <2>2, <2>3, <2>4, <3>1 DEF MemInv, Shaped, Dom0TargetIsOwed
  <2>6. PodIsTarget'
    BY <1>2, <2>3, <2>4 DEF MemInv, PodIsTarget, StillHeld, Holds, Domains
  <2>7. \A q \in Procs : OfMem(proc'[q]) /\ Reads(q)' /\ Writes(q)'
    BY <1>1, <2>1, <2>2, AllStale DEF MemInv
  <2> QED BY <2>5, <2>6, <2>7 DEF MemInv
<1>5. \/ UNCHANGED <<memory, hypervisor, txn>>
      \/ /\ memory' = [memory EXCEPT !.target[New] = n - Videoram[New], !.top[New] = n]
         /\ hypervisor' = [hypervisor EXCEPT !.max[New] = n + Spare, !.has[New] = n,
                                             !.pod[New] = n - Videoram[New], !.free = @ - n]
         /\ TxWritten(p)
  BY DEF Build
<1> QED BY <1>3, <1>4, <1>5

LEMMA NobodyMoves ==
  ASSUME MemInv, UNCHANGED <<proc, txn, gaveUp>>, StoreStays
  PROVE  MemInv'
<1>1. Shaped' /\ Dom0TargetIsOwed'
  BY DEF MemInv, Shaped, StoreStays, Dom0TargetIsOwed
<1>2. PodIsTarget'
  BY DEF MemInv, StoreStays, PodIsTarget
<1>3. ASSUME NEW q \in Procs PROVE OfMem(proc'[q]) /\ Reads(q)' /\ Writes(q)'
  BY DEF MemInv, StoreStays, Reads, Writes, Holds, Asked
<1> QED BY <1>1, <1>2, <1>3 DEF MemInv

\* A balloon driver that follows the target stays between what was and the target.
LEMMA BalloonKeeps ==
  ASSUME MemConstants, MemInv, NEW d \in Domains, Balloon(d)
  PROVE  MemInv'
<1>1. UNCHANGED <<memory, proc, txn, owed, gaveUp>>
  BY DEF Balloon
<1>2. PICK n, f :
        /\ hypervisor' = [hypervisor EXCEPT !.has[d] = n, !.free = f]
        /\ memory.target[d] # Absent
        /\ \/ /\ hypervisor.has[d] > memory.target[d] + Video(d)
              /\ n = hypervisor.has[d] - 1 /\ f = hypervisor.free + 1
           \/ /\ hypervisor.has[d] < memory.target[d] + Video(d)
              /\ n = hypervisor.has[d] + 1 /\ f = hypervisor.free - 1
  BY DEF Balloon
<1>3. /\ DOMAIN hypervisor' = {"max", "pod", "has", "free"}
      /\ hypervisor'.max = hypervisor.max /\ hypervisor'.pod = hypervisor.pod
      /\ DOMAIN hypervisor'.has = Domains /\ hypervisor'.free = f
      /\ hypervisor'.has[Dom0] = IF d = Dom0 THEN n ELSE hypervisor.has[Dom0]
  BY <1>2 DEF MemInv, Shaped, Domains
<1>4. hypervisor'.free \in Int
  BY <1>2, <1>3 DEF MemInv, Shaped
<1>5. hypervisor'.has[Dom0] \in 0 .. Word - 1
  <2>1. CASE d = Dom0
    <3>1. Video(Dom0) = 0 /\ memory.target[Dom0] \in 0 .. Word - 1 /\ Word \in Nat
          /\ hypervisor.has[Dom0] \in 0 .. Word - 1
      BY <1>2, <2>1 DEF Video, MemInv, Shaped, MemConstants
    <3> QED BY <1>2, <1>3, <2>1, <3>1
  <2>2. CASE d # Dom0
    BY <1>3, <2>2 DEF MemInv, Shaped
  <2> QED BY <2>1, <2>2
<1>6. StoreStays
  BY <1>1, <1>3, <1>4, <1>5 DEF StoreStays, MemInv, Shaped
<1> QED BY <1>1, <1>6, NobodyMoves

LEMMA MemInit == ASSUME MemConstants, MemoryInit PROVE MemInv
<1>1. PICK filled \in BOOLEAN :
        LET there(d) == d # New /\ (d = Dom0 => filled) IN
        memory = [target |-> [d \in Domains |-> IF there(d) THEN Size[d] - Video(d) ELSE Absent],
                  top |-> [d \in Domains |-> IF there(d) THEN Top[d] ELSE Absent],
                  slack |-> Absent]
  BY DEF MemoryInit
<1>2. Dom0 \in Domains /\ New # Dom0 /\ Video(Dom0) = 0 /\ Guests \subseteq Domains
  BY DEF MemConstants, Domains, Video
<1>3. Size[Dom0] \in 0 .. Word - 1 /\ Size[Dom0] - 0 = Size[Dom0]
  BY <1>2 DEF MemConstants
<1>4. /\ hypervisor = [max |-> [d \in Domains |-> Top[d] + Spare],
                       pod |-> [d \in Domains |-> IF d = New THEN Absent ELSE Size[d] - Video(d)],
                       has |-> Size, free |-> Unused]
      /\ proc = [p \in Procs |-> MemoryIdle] /\ txn = [p \in Procs |-> "none"]
      /\ owed = memory.target[Dom0]
  BY DEF MemoryInit
<1>5. memory.target[Dom0] \in {Absent} \cup 0 .. Word - 1
  BY <1>1, <1>2, <1>3
<1>6. Shaped
  <2>1. /\ DOMAIN memory = {"target", "top", "slack"} /\ memory.slack = Absent
        /\ DOMAIN memory.target = Domains /\ DOMAIN memory.top = Domains
    BY <1>1
  <2>2. Absent \in Int /\ Unused \in Int /\ DOMAIN Size = Domains
    BY DEF MemConstants, Absent
  <2> QED BY <1>3, <1>4, <1>5, <2>1, <2>2 DEF Shaped
<1>7. Dom0TargetIsOwed
  BY <1>4 DEF Dom0TargetIsOwed
<1>8. PodIsTarget
  <2>1. \A d \in Guests : d # Dom0 /\ d \in Domains
    BY <1>2 DEF MemConstants
  <2>2. \A d \in Guests : hypervisor.pod[d] = memory.target[d]
    BY <1>1, <1>4, <2>1
  <2> QED BY <2>2 DEF PodIsTarget
<1>9. ASSUME NEW p \in Procs PROVE OfMem(proc[p]) /\ Reads(p) /\ Writes(p)
  BY <1>4, IdleMem DEF Reads, Writes
<1> QED BY <1>6, <1>7, <1>8, <1>9 DEF MemInv

LEMMA MemNext ==
  ASSUME MemConstants, MemInv, [MemoryNext]_memoryVars
  PROVE  MemInv'
<1>1. CASE UNCHANGED memoryVars
  BY <1>1, StoreLeft, NobodyMoves DEF memoryVars
<1>2. ASSUME NEW p \in Procs, MemoryGo(p) PROVE MemInv'
  BY <1>2, FillsBegin, FillEnds, MemReads, CallsGiveUp, LimitSet, PodSet, TargetWritten,
     WriteRetries, FreeingKeeps, BuildKeeps DEF MemoryGo
<1>3. ASSUME NEW p \in Procs, MemSet(p) \/ MemMax(p) \/ CreateBegins(p) PROVE MemInv'
  BY <1>3, MemBegins
<1>4. ASSUME NEW d \in Domains, Balloon(d) PROVE MemInv'
  BY <1>4, BalloonKeeps
<1> QED BY <1>1, <1>2, <1>3, <1>4 DEF MemoryNext

\* The invariant of the memory commands, for any number of them, of domains and of sizes.
THEOREM MemInvariant == MemorySpec => []MemInv
<1>0. MemConstants
  BY MemAssumed
<1>1. MemoryInit => MemInv
  BY <1>0, MemInit
<1>2. MemInv /\ [MemoryNext]_memoryVars => MemInv'
  BY <1>0, MemNext
<1> QED BY <1>1, <1>2, PTL DEF MemorySpec

\* Domain 0's target is the sum of what was asked of it: libxl_set_memory_target's retried
\* transaction reads it again, and whole transactions exclude each other.
THEOREM Dom0TargetOwed == MemorySpec => []Dom0TargetIsOwed
<1>1. MemInv => Dom0TargetIsOwed
  BY DEF MemInv
<1> QED BY <1>1, MemInvariant, PTL

\* A guest's target is the same in the hypervisor and in the store, though only the
\* store's is written in libxl_set_memory_target's transaction, once its callers are done
\* and none of them failed half-way.
THEOREM PodTargetAgrees == MemorySpec => []PodIsTarget
<1>1. MemInv => PodIsTarget
  BY DEF MemInv
<1> QED BY <1>1, MemInvariant, PTL

(***************************************************************************)
(* XlDevices: a cd drive does not get lost, an eject is told of once.      *)
(***************************************************************************)
DevFields == {"pc", "op", "vdev", "kind", "medium", "nic"}

\* A process that removes a disk either detaches it or will add it again.
OfDev(r) ==
  /\ DOMAIN r = DevFields
  /\ r.vdev \in Vdevs \cup {Nothing}
  /\ r.pc \in {"list", "remove", "closing", "add"} => r.vdev \in Vdevs
  /\ r.pc = "list" => r.op = "insert"
  /\ r.pc \in {"remove", "closing"} => r.op \in {"insert", "detach"}
  /\ r.pc = "add" => r.medium \in Media
  /\ r.op = "insert" => r.medium \in Media

Brings(a, v) ==
  proc[a].op = "insert" /\ proc[a].vdev = v /\ proc[a].pc \in {"remove", "closing", "add"}

DriveInv ==
  /\ DOMAIN front = Vdevs /\ DOMAIN proc = Actors
  /\ \A a \in Actors : OfDev(proc[a])
  /\ queue \in Seq(Vdevs \cup {Nothing})
  /\ DriveStays

\* Ejects that nobody has told of yet.
Ejected == {v \in Vdevs : eject[v] = "eject"}
EjectInv ==
  /\ DOMAIN eject = Vdevs /\ ejects \in Nat /\ events \in Nat
  /\ IsFiniteSet(Ejected) /\ Cardinality(Ejected) + events <= ejects

DevConstants ==
  /\ Daemon \notin Procs /\ Nothing \notin Vdevs
  /\ \A m \in Media : KindOf[m] # Nothing
  /\ Empty \in Media

LEMMA DevAssumed == DevConstants
<1>1. /\ Daemon \notin Procs /\ Nothing \notin Media \cup Vdevs \cup ToSet(Kinds)
      /\ KindOf \in [Media -> ToSet(Kinds)] /\ Empty \in Media
  BY XlDevicesAssumption
<1> QED BY <1>1 DEF DevConstants

LEMMA IdleDev == OfDev(DevicesIdle) /\ DevicesIdle.pc = "idle"
BY DEF OfDev, DevFields, DevicesIdle

\* A step takes no drive away but one that is given up, and whoever is to bring one does
\* so still, or has brought it, or it is given up.
DriveKept ==
  \A v \in Vdevs :
    /\ front[v] # Nothing => \/ front'[v] # Nothing \/ v \in gone' \/ ~alive'
                             \/ \E a \in Actors : Brings(a, v)'
    /\ v \in gone => v \in gone' \/ front'[v] # Nothing
    /\ ~alive => ~alive'
    /\ \A a \in Actors :
         Brings(a, v) => \/ front'[v] # Nothing \/ v \in gone' \/ ~alive'
                         \/ \E b \in Actors : Brings(b, v)'

LEMMA DrivesKept ==
  ASSUME DriveInv, DriveKept, DOMAIN front' = Vdevs, queue' \in Seq(Vdevs \cup {Nothing}),
         DOMAIN proc' = Actors, \A a \in Actors : OfDev(proc'[a])
  PROVE  DriveInv'
<1>1. ASSUME NEW v \in Vdevs
      PROVE  \/ front'[v] # Nothing \/ v \in gone' \/ ~alive'
             \/ \E a \in Actors : Brings(a, v)'
  <2>1. \/ front[v] # Nothing \/ v \in gone \/ ~alive
        \/ \E a \in Actors : Brings(a, v)
    BY DEF DriveInv, DriveStays, Brings
  <2> QED BY <2>1 DEF DriveKept
<1>2. DriveStays'
  BY <1>1 DEF DriveStays, Brings
<1> QED BY <1>2 DEF DriveInv

LEMMA WentDev ==
  ASSUME DriveInv, NEW a \in Actors, NEW r, OfDev(r), Go(a, r)
  PROVE  /\ DOMAIN proc' = Actors /\ proc'[a] = r
         /\ \A b \in Actors \ {a} : proc'[b] = proc[b]
         /\ \A b \in Actors : OfDev(proc'[b])
BY DEF DriveInv, Go

\* Most steps leave the drives alone; who is to bring one goes on to, or has given it up.
LEMMA DrivesLeft ==
  ASSUME DriveInv, NEW a \in Actors, NEW r, OfDev(r), Go(a, r),
         UNCHANGED <<alive, front>>, queue' \in Seq(Vdevs \cup {Nothing}), gone \subseteq gone',
         \A v \in Vdevs :
           Brings(a, v) => \/ front[v] # Nothing \/ v \in gone'
                           \/ r.op = "insert" /\ r.vdev = v /\ r.pc \in {"remove", "closing", "add"}
  PROVE  DriveInv'
<1>1. /\ DOMAIN proc' = Actors /\ proc'[a] = r
      /\ \A b \in Actors \ {a} : proc'[b] = proc[b]
      /\ \A b \in Actors : OfDev(proc'[b])
  BY WentDev
<1>2. \A v \in Vdevs, b \in Actors \ {a} : Brings(b, v) => Brings(b, v)'
  BY <1>1 DEF Brings
<1>3. \A v \in Vdevs : Brings(a, v) => front[v] # Nothing \/ v \in gone' \/ Brings(a, v)'
  BY <1>1 DEF Brings
<1>4. DriveKept
  BY <1>2, <1>3 DEF DriveKept
<1> QED BY <1>1, <1>4, DrivesKept DEF DriveInv

LEMMA NobodyDrives ==
  ASSUME DriveInv, UNCHANGED <<front, proc>>, queue' \in Seq(Vdevs \cup {Nothing}), gone' = gone,
         ~alive => ~alive'
  PROVE  DriveInv'
<1>1. DriveKept
  BY DEF DriveKept, Brings
<1> QED BY <1>1, DrivesKept DEF DriveInv

\* Commands begin; what a process is to do with a disk it has not begun.
LEMMA CommandsDrive ==
  ASSUME DriveInv, NEW p \in Procs,
         BlockAttach(p) \/ BlockDetach(p) \/ CdInsert(p) \/ NicAttach(p) \/ NicDetach(p)
  PROVE  DriveInv'
<1>0. /\ UNCHANGED <<alive, front, queue, gone>> /\ p \in Actors /\ proc[p].pc = "idle"
  BY DEF BlockAttach, BlockDetach, CdInsert, NicAttach, NicDetach, Commanded,
     directories, Actors
<1> USE DEF OfDev, DevFields
<1>1. \E r : OfDev(r) /\ Go(p, r)
  <2>1. CASE BlockAttach(p)
    <3>1. PICK v \in Vdevs, m \in Media :
            Go(p, [DevicesIdle EXCEPT !.pc = "add", !.op = "attach", !.vdev = v, !.medium = m])
      BY <2>1 DEF BlockAttach
    <3>2. OfDev([DevicesIdle EXCEPT !.pc = "add", !.op = "attach", !.vdev = v, !.medium = m])
      BY IdleDev
    <3> QED BY <3>1, <3>2
  <2>2. CASE BlockDetach(p)
    <3>1. PICK v \in Vdevs :
            Go(p, [DevicesIdle EXCEPT !.pc = "remove", !.op = "detach", !.vdev = v, !.kind = front[v]])
      BY <2>2 DEF BlockDetach
    <3>2. OfDev([DevicesIdle EXCEPT !.pc = "remove", !.op = "detach", !.vdev = v, !.kind = front[v]])
      BY IdleDev
    <3> QED BY <3>1, <3>2
  <2>3. CASE CdInsert(p)
    <3>1. PICK v \in Vdevs, m \in Media \ Fixed :
            Go(p, [DevicesIdle EXCEPT !.pc = "list", !.op = "insert", !.vdev = v, !.medium = m])
      BY <2>3 DEF CdInsert
    <3>2. OfDev([DevicesIdle EXCEPT !.pc = "list", !.op = "insert", !.vdev = v, !.medium = m])
      BY IdleDev
    <3> QED BY <3>1, <3>2
  <2>4. CASE NicAttach(p)
    <3>1. PICK n \in NewNic : Go(p, [DevicesIdle EXCEPT !.pc = "nic add", !.nic = n])
      BY <2>4 DEF NicAttach
    <3>2. OfDev([DevicesIdle EXCEPT !.pc = "nic add", !.nic = n])
      BY IdleDev
    <3> QED BY <3>1, <3>2
  <2>5. CASE NicDetach(p)
    <3>1. PICK n \in ToSet(nics) : Go(p, [DevicesIdle EXCEPT !.pc = "nic remove", !.nic = n])
      BY <2>5 DEF NicDetach
    <3>2. OfDev([DevicesIdle EXCEPT !.pc = "nic remove", !.nic = n])
      BY IdleDev
    <3> QED BY <3>1, <3>2
  <2> QED BY <2>1, <2>2, <2>3, <2>4, <2>5
<1>2. PICK r : OfDev(r) /\ Go(p, r)
  BY <1>1
<1>3. \A v \in Vdevs : ~Brings(p, v)
  BY <1>0 DEF Brings
<1>4. queue' \in Seq(Vdevs \cup {Nothing})
  BY <1>0 DEF DriveInv
<1> HIDE DEF OfDev, DevFields
<1> QED BY <1>0, <1>2, <1>3, <1>4, DrivesLeft

\* What follows the removal, however it went.
LEMMA AfterRemoval ==
  ASSUME DriveInv, NEW a \in Actors, proc[a].pc \in {"remove", "closing"}, Removed(a)
  PROVE  \E r : /\ OfDev(r) /\ Go(a, r)
                /\ proc[a].op = "insert" => r.op = "insert" /\ r.vdev = proc[a].vdev /\ r.pc = "add"
<1>0. OfDev(proc[a])
  BY DEF DriveInv
<1>1. CASE proc[a].op = "insert"
  <2> DEFINE r == [proc[a] EXCEPT !.pc = "add", !.kind = Nothing]
  <2>1. Go(a, r)
    BY <1>1 DEF Removed
  <2>2. OfDev(r) /\ r.op = "insert" /\ r.vdev = proc[a].vdev /\ r.pc = "add"
    BY <1>0, <1>1 DEF OfDev, DevFields
  <2> QED BY <2>1, <2>2
<1>2. CASE proc[a].op # "insert"
  BY <1>2, IdleDev DEF Removed
<1> QED BY <1>1, <1>2

\* libxl_device_disk_list, libxl__initiate_device_remove.
LEMMA RemovalsDrive ==
  ASSUME DriveInv, NEW a \in Actors,
         ListDisks(a) \/ RemoveBegins(a) \/ RemoveNothing(a) \/ RemoveTimesOut(a)
  PROVE  DriveInv'
<1>0. UNCHANGED <<alive, front, queue, gone>> /\ OfDev(proc[a]) /\ queue' \in Seq(Vdevs \cup {Nothing})
  BY DEF ListDisks, RemoveBegins, RemoveNothing, RemoveTimesOut, directories, DriveInv
<1>1. CASE ListDisks(a)
  <2>1. proc[a].pc = "list"
        /\ \/ Go(a, DevicesIdle)
           \/ Go(a, [proc[a] EXCEPT !.pc = "remove", !.kind = Head(Listed(proc[a].vdev))])
    BY <1>1 DEF ListDisks
  <2>2. \E r : OfDev(r) /\ Go(a, r)
    <3>1. OfDev([proc[a] EXCEPT !.pc = "remove", !.kind = Head(Listed(proc[a].vdev))])
      BY <1>0, <2>1 DEF OfDev, DevFields
    <3> QED BY <2>1, <3>1, IdleDev
  <2>3. PICK r : OfDev(r) /\ Go(a, r)
    BY <2>2
  <2>4. \A v \in Vdevs : ~Brings(a, v)
    BY <2>1 DEF Brings
  <2> QED BY <1>0, <2>3, <2>4, DrivesLeft
<1>2. CASE RemoveBegins(a)
  <2> DEFINE r == [proc[a] EXCEPT !.pc = "closing"]
  <2>1. proc[a].pc = "remove" /\ Go(a, r)
    BY <1>2 DEF RemoveBegins
  <2>2. OfDev(r) /\ r.op = proc[a].op /\ r.vdev = proc[a].vdev /\ r.pc = "closing"
    BY <1>0, <2>1 DEF OfDev, DevFields
  <2> HIDE DEF r
  <2> QED BY <1>0, <2>1, <2>2, DrivesLeft DEF Brings
<1>3. CASE RemoveNothing(a) \/ RemoveTimesOut(a)
  <2>1. proc[a].pc \in {"remove", "closing"} /\ Removed(a)
    BY <1>3 DEF RemoveNothing, RemoveTimesOut
  <2>2. PICK r : /\ OfDev(r) /\ Go(a, r)
                 /\ proc[a].op = "insert" => r.op = "insert" /\ r.vdev = proc[a].vdev /\ r.pc = "add"
    BY <2>1, AfterRemoval
  <2> QED BY <1>0, <2>2, DrivesLeft DEF Brings
<1> QED BY <1>1, <1>2, <1>3

\* The device goes: it was detached, or this process has it to add.
LEMMA RemovalDrives ==
  ASSUME DriveInv, NEW a \in Actors, RemoveEnds(a)
  PROVE  DriveInv'
<1>1. PICK w \in Vdevs : w = proc[a].vdev
  BY DEF RemoveEnds, DriveInv, OfDev
<1>0. /\ proc[a].pc = "closing" /\ OfDev(proc[a]) /\ UNCHANGED <<alive, queue>>
      /\ front' = [front EXCEPT ![w] = Nothing]
      /\ gone' = IF proc[a].op = "detach" THEN gone \cup {w} ELSE gone
      /\ Removed(a) /\ queue' \in Seq(Vdevs \cup {Nothing})
  BY <1>1 DEF RemoveEnds, DeviceDestroy, DriveInv
<1>2. PICK r : /\ OfDev(r) /\ Go(a, r)
               /\ proc[a].op = "insert" => r.op = "insert" /\ r.vdev = proc[a].vdev /\ r.pc = "add"
  BY <1>0, AfterRemoval
<1>3. /\ DOMAIN proc' = Actors /\ proc'[a] = r
      /\ \A b \in Actors \ {a} : proc'[b] = proc[b]
      /\ \A b \in Actors : OfDev(proc'[b])
  BY <1>2, WentDev
<1>4. proc[a].op = "insert" => Brings(a, w)'
  BY <1>1, <1>2, <1>3 DEF Brings
<1>5. proc[a].op \in {"insert", "detach"}
  BY <1>0 DEF OfDev
<1>6. DOMAIN front' = Vdevs /\ \A v \in Vdevs \ {w} : front'[v] = front[v]
  BY <1>0 DEF DriveInv
<1>7. w \in gone' \/ Brings(a, w)'
  BY <1>0, <1>4, <1>5
<1>8. \A v \in Vdevs, b \in Actors : Brings(b, v) => Brings(b, v)' \/ v = w
  BY <1>1, <1>3 DEF Brings
<1>9. DriveKept
  BY <1>0, <1>6, <1>7, <1>8 DEF DriveKept
<1> QED BY <1>0, <1>3, <1>6, <1>9, DrivesKept

\* It is there again, or libxl__device_disk_set_backend refused the medium.
LEMMA AdditionsDrive ==
  ASSUME DevConstants, DriveInv, NEW a \in Actors, DiskAdd(a) \/ AddFails(a)
  PROVE  DriveInv'
<1>1. PICK w \in Vdevs : w = proc[a].vdev
  BY DEF DiskAdd, AddFails, DriveInv, OfDev
<1>0. /\ UNCHANGED <<alive, queue>> /\ Go(a, DevicesIdle) /\ queue' \in Seq(Vdevs \cup {Nothing})
      /\ proc[a].pc = "add" /\ proc[a].medium \in Media
  BY DEF DiskAdd, DiskAdded, AddFails, DriveInv, OfDev
<1>2. CASE DiskAdd(a)
  <2>1. /\ front' = [front EXCEPT ![w] = KindOf[proc[a].medium]]
        /\ gone' = gone \ {w}
    BY <1>1, <1>2 DEF DiskAdd, DiskAdded, GenericAdd
  <2>2. /\ DOMAIN front' = Vdevs /\ front'[w] # Nothing
        /\ \A v \in Vdevs \ {w} : front'[v] = front[v]
    BY <1>0, <2>1 DEF DriveInv, DevConstants
  <2>3. /\ DOMAIN proc' = Actors /\ proc'[a] = DevicesIdle
        /\ \A b \in Actors \ {a} : proc'[b] = proc[b]
        /\ \A b \in Actors : OfDev(proc'[b])
    BY <1>0, IdleDev, WentDev
  <2>4. \A v \in Vdevs, b \in Actors : Brings(b, v) => Brings(b, v)' \/ v = w
    BY <1>1, <2>3 DEF Brings
  <2>5. DriveKept
    BY <1>0, <2>1, <2>2, <2>4 DEF DriveKept
  <2> QED BY <1>0, <2>2, <2>3, <2>5, DrivesKept
<1>3. CASE AddFails(a)
  <2>1. front' = front /\ gone' = IF front[w] = Nothing THEN gone \cup {w} ELSE gone
    BY <1>1, <1>3 DEF AddFails, directories
  <2>2. \A v \in Vdevs : Brings(a, v) => front[v] # Nothing \/ v \in gone'
    BY <1>1, <2>1 DEF Brings
  <2> QED BY <1>0, <2>1, <2>2, IdleDev, DrivesLeft
<1> QED BY <1>2, <1>3

LEMMA NicsDrive ==
  ASSUME DriveInv, NEW a \in Actors, NicAdd(a) \/ NicRemove(a)
  PROVE  DriveInv'
<1>1. /\ UNCHANGED <<alive, front, queue, gone>> /\ Go(a, DevicesIdle)
      /\ proc[a].pc \in {"nic add", "nic remove"} /\ queue' \in Seq(Vdevs \cup {Nothing})
  BY DEF NicAdd, NicRemove, DriveInv
<1>2. \A v \in Vdevs : ~Brings(a, v)
  BY <1>1 DEF Brings
<1> QED BY <1>1, <1>2, IdleDev, DrivesLeft

\* A command that is interrupted, and the daemon that dies, have given up their drive.
LEMMA DeathsDrive ==
  ASSUME DevConstants, DriveInv,
         \/ \E p \in Procs : Interrupted(p)
         \/ \E v \in Vdevs : EjectKills(v)
         \/ DaemonLeaves
  PROVE  DriveInv'
<1>0. UNCHANGED <<alive, front>>
  BY DEF Interrupted, EjectKills, DaemonLeaves, directories
<1>d. Daemon \in Actors /\ OfDev([DevicesIdle EXCEPT !.pc = "off"])
  BY IdleDev DEF Actors, OfDev, DevFields
<1>e. <<>> \in Seq(Vdevs \cup {Nothing})
  OBVIOUS
<1>1. ASSUME NEW p \in Procs, Interrupted(p) PROVE DriveInv'
  <2>1. /\ p \in Actors /\ Go(p, DevicesIdle) /\ queue' \in Seq(Vdevs \cup {Nothing})
        /\ gone' = gone \cup ({proc[p].vdev} \ {Nothing})
    BY <1>1 DEF Actors, Interrupted, DriveInv
  <2>2. \A v \in Vdevs : Brings(p, v) => v \in gone'
    BY <2>1 DEF Brings, DevConstants
  <2> QED BY <1>0, <2>1, <2>2, IdleDev, DrivesLeft
<1>2. ASSUME NEW w \in Vdevs, EjectKills(w) PROVE DriveInv'
  <2>1. /\ proc[Daemon].pc \in {"idle", "closing"} /\ queue' = <<>>
        /\ Go(Daemon, [DevicesIdle EXCEPT !.pc = "off"])
        /\ gone' = gone \cup (IF proc[Daemon].pc = "closing" THEN {proc[Daemon].vdev} ELSE {})
    BY <1>2 DEF EjectKills, Waits
  <2>2. \A v \in Vdevs : Brings(Daemon, v) => v \in gone'
    BY <2>1 DEF Brings
  <2> QED BY <1>0, <1>d, <1>e, <2>1, <2>2, DrivesLeft
<1>3. ASSUME DaemonLeaves PROVE DriveInv'
  <2>1. /\ proc[Daemon].pc = "idle" /\ queue' = <<>> /\ UNCHANGED gone
        /\ Go(Daemon, [DevicesIdle EXCEPT !.pc = "off"])
    BY <1>3 DEF DaemonLeaves, EventsOff
  <2>2. \A v \in Vdevs : ~Brings(Daemon, v)
    BY <2>1 DEF Brings
  <2> QED BY <1>0, <1>d, <1>e, <2>1, <2>2, DrivesLeft
<1> QED BY <1>1, <1>2, <1>3

\* The guest, the watches and the events, which the daemon's next command comes from.
LEMMA EventsDrive ==
  ASSUME DevConstants, DriveInv,
         \/ GuestEjects \/ DaemonEmpties \/ DeathSeen
         \/ \E v \in Vdevs : WatchIdle(v) \/ EjectSeen(v)
  PROVE  DriveInv'
<1>1. CASE GuestEjects
  BY <1>1, NobodyDrives DEF GuestEjects, DriveInv
<1>2. CASE DeathSeen
  <2>1. queue' \in Seq(Vdevs \cup {Nothing}) /\ UNCHANGED <<alive, front, proc, gone>>
    BY <1>2 DEF DeathSeen, directories, DriveInv
  <2> QED BY <2>1, NobodyDrives
<1>3. ASSUME NEW v \in Vdevs, WatchIdle(v) PROVE DriveInv'
  BY <1>3, NobodyDrives DEF WatchIdle, directories, DriveInv
<1>4. ASSUME NEW v \in Vdevs, EjectSeen(v) PROVE DriveInv'
  <2>0. queue' = Append(queue, v) /\ UNCHANGED <<alive, front, proc, gone>>
    BY <1>4 DEF EjectSeen, EjectTaken
  <2>1. queue' \in Seq(Vdevs \cup {Nothing}) /\ UNCHANGED <<alive, front, proc, gone>>
    BY <2>0 DEF DriveInv
  <2> QED BY <2>1, NobodyDrives
<1>5. CASE DaemonEmpties
  <2> DEFINE r == [DevicesIdle EXCEPT !.pc = "list", !.op = "insert", !.vdev = Head(queue),
                                      !.medium = Empty]
  <2>1. /\ UNCHANGED <<alive, front, gone>> /\ proc[Daemon].pc = "idle" /\ Daemon \in Actors
        /\ queue # <<>> /\ Head(queue) # Nothing /\ queue' = Tail(queue) /\ Go(Daemon, r)
    BY <1>5 DEF DaemonEmpties, directories, Actors
  <2>2. Head(queue) \in Vdevs /\ queue' \in Seq(Vdevs \cup {Nothing})
    BY <2>1 DEF DriveInv
  <2>3. OfDev(r)
    BY <2>2, IdleDev DEF OfDev, DevFields, DevConstants
  <2>4. \A v \in Vdevs : ~Brings(Daemon, v)
    BY <2>1 DEF Brings
  <2> QED BY <2>1, <2>2, <2>3, <2>4, DrivesLeft
<1> QED BY <1>1, <1>2, <1>3, <1>4, <1>5

LEMMA DomainDrives ==
  ASSUME DriveInv, DomainDestroyed
  PROVE  DriveInv'
<1>1. /\ alive' = FALSE /\ front' = [v \in Vdevs |-> Nothing] /\ UNCHANGED <<proc, queue, gone>>
  BY DEF DomainDestroyed
<1>2. DriveKept
  BY <1>1 DEF DriveKept
<1> QED BY <1>1, <1>2, DrivesKept DEF DriveInv

LEMMA DriveNext ==
  ASSUME DevConstants, DriveInv, [DevicesNext]_devicesVars
  PROVE  DriveInv'
<1>1. CASE UNCHANGED devicesVars
  BY <1>1, NobodyDrives DEF devicesVars, directories, DriveInv
<1>2. ASSUME NEW a \in Actors, DevicesGo(a) PROVE DriveInv'
  BY <1>2, RemovalsDrive, RemovalDrives, AdditionsDrive, NicsDrive DEF DevicesGo
<1>3. ASSUME DaemonGoes PROVE DriveInv'
  <2>1. Daemon \in Actors
    BY DEF Actors
  <2> QED BY <1>2, <1>3, <2>1, DeathsDrive, EventsDrive DEF DaemonGoes
<1>4. ASSUME NEW p \in Procs, \/ DevicesGo(p) \/ Interrupted(p) \/ NicAttach(p) \/ NicDetach(p)
                              \/ BlockAttach(p) \/ BlockDetach(p) \/ CdInsert(p)
      PROVE  DriveInv'
  <2>1. p \in Actors
    BY DEF Actors
  <2> QED BY <1>2, <1>4, <2>1, CommandsDrive, DeathsDrive
<1> QED BY <1>1, <1>3, <1>4, EventsDrive, DomainDrives DEF DevicesNext

\* A cd drive that is removed to change its medium comes back, whoever else removes and
\* adds it meanwhile, unless it was detached or a command did not get to its end
\* (libxl_cdrom_insert).
THEOREM DrivesStay == DevicesSpec => []DriveStays
<1>0. DevConstants
  BY DevAssumed
<1>1. DevicesInit => DriveInv
  <2> SUFFICES ASSUME DevicesInit PROVE DriveInv
    OBVIOUS
  <2>1. /\ proc = [a \in Actors |-> DevicesIdle] /\ queue = <<>>
        /\ front = [v \in Vdevs |-> KindOf[Empty]]
    BY DEF DevicesInit
  <2>2. DriveStays
    BY <1>0, <2>1 DEF DriveStays, DevConstants
  <2> QED BY <2>1, <2>2, IdleDev DEF DriveInv
<1>2. DriveInv /\ [DevicesNext]_devicesVars => DriveInv'
  BY <1>0, DriveNext
<1>3. DriveInv => DriveStays
  BY DEF DriveInv
<1> QED BY <1>1, <1>2, <1>3, PTL DEF DevicesSpec

\* A write to an eject path that is not the guest's leaves no more ejects than before.
LEMMA EjectsFewer ==
  ASSUME EjectInv, NEW S, Ejected' = Ejected \ S, DOMAIN eject' = Vdevs, UNCHANGED <<ejects, events>>
  PROVE  EjectInv'
<1>1. IsFiniteSet(Ejected \ S) /\ Cardinality(Ejected \ S) <= Cardinality(Ejected)
  <2>1. Ejected \ S \subseteq Ejected
    OBVIOUS
  <2> QED BY <2>1, FS_Subset DEF EjectInv
<1>2. Cardinality(Ejected \ S) \in Nat /\ Cardinality(Ejected) \in Nat
  BY <1>1, FS_CardinalityType DEF EjectInv
<1> QED BY <1>1, <1>2 DEF EjectInv

LEMMA Answered == "" # "eject"
OBVIOUS

LEMMA EjectWritten ==
  ASSUME EjectInv, NEW v \in Vdevs, NEW s, eject' = [eject EXCEPT ![v] = s]
  PROVE  DOMAIN eject' = Vdevs /\ Ejected' = IF s = "eject" THEN Ejected \cup {v} ELSE Ejected \ {v}
BY DEF EjectInv, Ejected

LEMMA EjectNext ==
  ASSUME EjectInv, [DevicesNext]_devicesVars
  PROVE  EjectInv'
<1>1. CASE UNCHANGED <<eject, ejects, events>>
  BY <1>1 DEF EjectInv, Ejected
<1>2. CASE GuestEjects
  <2>1. PICK v \in Vdevs : eject' = [eject EXCEPT ![v] = "eject"]
    BY <1>2 DEF GuestEjects
  <2>2. ejects' = ejects + 1 /\ events' = events
    BY <1>2 DEF GuestEjects
  <2>a. IsFiniteSet(Ejected)
    BY DEF EjectInv
  <2>b. Cardinality(Ejected) \in Nat
    BY <2>a, FS_CardinalityType
  <2>c. /\ IsFiniteSet(Ejected \cup {v})
        /\ Cardinality(Ejected \cup {v}) = IF v \in Ejected THEN Cardinality(Ejected) ELSE Cardinality(Ejected) + 1
    BY <2>a, FS_AddElement
  <2>3. IsFiniteSet(Ejected \cup {v}) /\ Cardinality(Ejected \cup {v}) <= Cardinality(Ejected) + 1
    BY <2>b, <2>c
  <2>4. Cardinality(Ejected \cup {v}) \in Nat
    BY <2>b, <2>c
  <2>5. Ejected' = Ejected \cup {v} /\ DOMAIN eject' = Vdevs
    BY <2>1, EjectWritten
  <2>6. ejects \in Nat /\ events \in Nat /\ Cardinality(Ejected) + events <= ejects
    BY DEF EjectInv
  <2>7. Cardinality(Ejected \cup {v}) + events <= ejects + 1
    BY <2>b, <2>3, <2>4, <2>6
  <2> QED BY <2>2, <2>3, <2>5, <2>6, <2>7 DEF EjectInv
<1>3. ASSUME NEW v \in Vdevs, EjectSeen(v) PROVE EjectInv'
  <2>1. /\ eject[v] = "eject" /\ eject' = [eject EXCEPT ![v] = ""]
        /\ events' = events + 1 /\ ejects' = ejects
    BY <1>3 DEF EjectSeen, EjectTaken
  <2>2. v \in Ejected
    BY <2>1 DEF Ejected
  <2>3. IsFiniteSet(Ejected \ {v}) /\ Cardinality(Ejected \ {v}) = Cardinality(Ejected) - 1
    BY <2>2, FS_RemoveElement DEF EjectInv
  <2>a. IsFiniteSet(Ejected)
    BY DEF EjectInv
  <2>4. Cardinality(Ejected) \in Nat
    BY <2>a, FS_CardinalityType
  <2>5. Ejected' = Ejected \ {v} /\ DOMAIN eject' = Vdevs
    BY <2>1, Answered, EjectWritten
  <2>6. ejects \in Nat /\ events \in Nat /\ Cardinality(Ejected) + events <= ejects
    BY DEF EjectInv
  <2>7. Cardinality(Ejected \ {v}) + (events + 1) <= ejects
    BY <2>3, <2>4, <2>6
  <2>8. events' = events + 1 /\ ejects' = ejects
    BY <2>1
  <2>9. IsFiniteSet(Ejected') /\ Cardinality(Ejected') + events' <= ejects'
    BY <2>3, <2>5, <2>7, <2>8
  <2>10. ejects' \in Nat /\ events' \in Nat
    BY <2>6, <2>8
  <2> QED BY <2>5, <2>9, <2>10 DEF EjectInv
<1>4. ASSUME NEW v \in Vdevs, EjectKills(v) PROVE EjectInv'
  <2>1. eject' = [eject EXCEPT ![v] = ""] /\ UNCHANGED <<ejects, events>>
    BY <1>4 DEF EjectKills
  <2> QED BY <2>1, Answered, EjectWritten, EjectsFewer
<1>5. ASSUME NEW a \in Actors, RemoveEnds(a) \/ DiskAdd(a) PROVE EjectInv'
  <2>1. UNCHANGED <<ejects, events>>
    BY <1>5 DEF RemoveEnds, DiskAdd, DiskAdded
  <2>2. eject' = [eject EXCEPT ![proc[a].vdev] = "none"]
    BY <1>5 DEF RemoveEnds, DeviceDestroy, DiskAdd, DiskAdded, GenericAdd
  <2>3. DOMAIN eject' = Vdevs /\ Ejected' = Ejected \ {proc[a].vdev}
    BY <2>2 DEF EjectInv, Ejected
  <2> QED BY <2>1, <2>3, EjectsFewer
<1>6. CASE DomainDestroyed
  <2>1. eject' = [v \in Vdevs |-> "none"] /\ UNCHANGED <<ejects, events>>
    BY <1>6 DEF DomainDestroyed
  <2>2. Ejected' = Ejected \ Ejected /\ DOMAIN eject' = Vdevs
    BY <2>1 DEF Ejected
  <2> QED BY <2>1, <2>2, EjectsFewer
<1>7. ASSUME NEW a \in Actors,
             \/ ListDisks(a) \/ RemoveBegins(a) \/ RemoveNothing(a) \/ RemoveTimesOut(a)
             \/ AddFails(a) \/ NicAdd(a) \/ NicRemove(a)
      PROVE  UNCHANGED <<eject, ejects, events>>
  BY <1>7 DEF ListDisks, RemoveBegins, RemoveNothing, RemoveTimesOut, AddFails,
     NicAdd, NicRemove, directories
<1>8. ASSUME NEW p \in Procs,
             \/ Interrupted(p) \/ NicAttach(p) \/ NicDetach(p)
             \/ BlockAttach(p) \/ BlockDetach(p) \/ CdInsert(p)
      PROVE  UNCHANGED <<eject, ejects, events>>
  BY <1>8 DEF Interrupted, NicAttach, NicDetach, BlockAttach, BlockDetach,
     CdInsert, directories
<1>9. ASSUME \/ DaemonEmpties \/ DeathSeen \/ DaemonLeaves \/ UNCHANGED devicesVars
             \/ \E v \in Vdevs : WatchIdle(v)
      PROVE  UNCHANGED <<eject, ejects, events>>
  BY <1>9 DEF DaemonEmpties, DeathSeen, DaemonLeaves, WatchIdle, devicesVars, directories
<1>10. Daemon \in Actors /\ Procs \subseteq Actors
  BY DEF Actors
<1>11. ASSUME NEW a \in Actors, DevicesGo(a) PROVE EjectInv'
  BY <1>1, <1>5, <1>7, <1>11 DEF DevicesGo
<1>12. ASSUME DaemonGoes PROVE EjectInv'
  BY <1>1, <1>3, <1>4, <1>9, <1>10, <1>11, <1>12 DEF DaemonGoes
<1> QED BY <1>1, <1>2, <1>6, <1>8, <1>9, <1>10, <1>11, <1>12 DEF DevicesNext

\* The daemon hears of an eject once, though its acknowledgement and every change of the
\* drive fire its watch again (disk_eject_xswatch_callback).
THEOREM EjectsOnce == DevicesSpec => []EjectOnce
<1>1. DevicesInit => EjectInv
  <2> SUFFICES ASSUME DevicesInit PROVE EjectInv
    OBVIOUS
  <2>1. eject = [v \in Vdevs |-> "none"] /\ ejects = 0 /\ events = 0
    BY DEF DevicesInit
  <2>2. Ejected = {}
    BY <2>1 DEF Ejected
  <2> QED BY <2>1, <2>2, FS_EmptySet DEF EjectInv
<1>2. EjectInv /\ [DevicesNext]_devicesVars => EjectInv'
  BY EjectNext
<1>3. EjectInv => EjectOnce
  BY FS_CardinalityType DEF EjectInv, EjectOnce
<1> QED BY <1>1, <1>2, <1>3, PTL DEF DevicesSpec
===============================================================================
