------------------------------- MODULE XlPools -------------------------------
(***************************************************************************)
(* Pools of CPUs and schedulers in xl (test_case/xl_cmdimpl.c) and libxl   *)
(* (console_get_tty/libxl.c): xl cpupool-create, -destroy, -rename,        *)
(* -cpu-add, -cpu-remove, -migrate and -numa-split, vcpu-set and sched-*.  *)
(* The hypervisor has the pools, xenstore their names; no lock is taken.   *)
(***************************************************************************)
EXTENDS XlProcesses, FiniteSets

CONSTANTS
  Cpus, NodeOf, \* the CPUs, numbers, and the node of each
  Pools, Names, \* pool ids, 0 the one there always is, and names
  Called,       \* [nodes -> names]: "Pool-node%d"
  Free, None,   \* a CPU in no pool; no pool, no name, no transaction
  Doms,         \* domains; 0 is domain 0
  Vcpus,        \* virtual CPUs of each domain
  Scheds,       \* schedulers
  Values,       \* numbers that users give for parameters
  Slices, Limits, Weights, Caps, \* of these the valid time slices, rate limits and so on
  Polls,        \* numa-split looks at domain 0 so often
  MaxFaults     \* bound: calls of Xen or xenstored that fail, and processes killed

Credit == "credit"
Sedf == "sedf"
Nodes == {NodeOf[c] : c \in Cpus}
Node0 == NodeOf[0]
NodeCpus(n) == {c \in Cpus : NodeOf[c] = n}

ASSUME PoolAssumption ==
  /\ Cpus \subseteq Nat /\ IsFiniteSet(Cpus) /\ {0} \subseteq Cpus /\ NodeOf \in [Cpus -> Nat]
  /\ Pools \subseteq Nat /\ 0 \in Pools /\ Doms \subseteq Nat /\ 0 \in Doms
  /\ Free \notin Pools /\ None \notin Names \cup Scheds \cup {Credit, Sedf, "open", "stale"}
  /\ Called \in [Nodes -> Names] /\ \A m, n \in Nodes : Called[m] = Called[n] => m = n
  /\ Slices \cup Limits \cup Weights \cup Caps \subseteq Nat /\ Values \subseteq Nat
  /\ {Vcpus, Polls, MaxCalls, MaxFaults} \subseteq Nat
  /\ 1 \in Slices \cap Limits \cap Weights /\ 0 \in Caps

VARIABLES
  cpu,          \* the hypervisor: the pool of each CPU, or Free
  sched,        \* the scheduler of each pool, None when there is no such pool
  home,         \* the pool of each domain
  rate,         \* a pool's time slice and rate limit, for the credit scheduler
  share,        \* a domain's scheduling parameters, as they were last given
  online,       \* virtual CPUs that a domain runs
  name,         \* xenstore: the name of each pool
  avail,        \* and how many of its virtual CPUs a domain may run
  tx,           \* the transactions of the processes
  faults,
  disturbed     \* processes that had not the host for themselves all the time

xen == <<cpu, sched, home, rate, share, online>>
store == <<name, avail>>
poolsVars == <<xen, store, proc, tx, calls, faults, disturbed>>

PoolsIdle == [pc |-> "idle", op |-> "none", pool |-> 0, name |-> None, todo |-> {}, node |-> 0,
              nodes |-> {}, dom |-> 0, num |-> 0, tries |-> 0, kind |-> None, new |-> {}]

\* Defaults of a scheduler; of sedf neither a weight nor a period and a slice.
FreshRate == [slice |-> 1, limit |-> 1]
Fresh(s) == [weight |-> IF s = Sedf THEN 0 ELSE 1, cap |-> 0, period |-> 0, slice |-> 0]

\* A host after a boot, where some CPUs may not be in the pool; or one that was
\* given a second pool.
PoolsInit ==
  /\ \E second \in BOOLEAN, out \in SUBSET Cpus, kind \in Scheds, n \in Names :
       /\ 0 \notin out /\ (second => 1 \in Pools)
       /\ cpu = [c \in Cpus |-> IF c \notin out THEN 0 ELSE IF second THEN 1 ELSE Free]
       /\ sched = [q \in Pools |-> IF q = 0 \/ (second /\ q = 1) THEN kind ELSE None]
       /\ name = [q \in Pools |-> IF second /\ q = 1 THEN n ELSE None]
       /\ share = [d \in Doms |-> Fresh(kind)]
  /\ home = [d \in Doms |-> 0] /\ rate = [q \in Pools |-> FreshRate]
  /\ online = [d \in Doms |-> Vcpus] /\ avail = online
  /\ proc = [p \in Procs |-> PoolsIdle] /\ tx = [p \in Procs |-> None]
  /\ calls = 0 /\ faults = 0 /\ disturbed = {}

There(q) == sched[q] # None
CpusOf(q) == {c \in Cpus : cpu[c] = q}
DomsOf(q) == {d \in Doms : home[d] = q}
FreeCpus == CpusOf(Free)
First(c, S) == c \in S /\ \A e \in S : c <= e

\* cpupool_qualifier_to_cpupoolid and libxl_cpupoolid_to_name: an id is taken as it
\* is, if the store has a name for it; Pool 0 has one when the store has none.
Known(q) == q = 0 \/ name[q] # None

At(p, pc) == proc[p].pc = pc

\* A command begins, and disturbs the others.
Begin(p, r) ==
  /\ calls' = calls + 1 /\ Go(p, r)
  /\ LET busy == {q \in Procs \ {p} : ~At(q, "idle")} IN
     disturbed' = IF busy = {} THEN disturbed \ {p} ELSE disturbed \cup busy \cup {p}
  /\ UNCHANGED <<xen, store, tx, faults>>
Goes == UNCHANGED <<calls, faults, disturbed>>

\* xenstored: a write makes all transactions fail that are open then.
Written(p) == tx' = [q \in Procs |-> IF q = p THEN None ELSE IF tx[q] = "open" THEN "stale" ELSE tx[q]]
TxIs(p, state) == tx' = [tx EXCEPT ![p] = state]

(***************************************************************************)
(* Commands.                                                               *)
(***************************************************************************)
\* libxl_name_to_cpupoolid looks at the pools there are.
NameIsFree(n) == \A q \in Pools : There(q) => name[q] # n

Create(p) ==
  \E n \in Names, s \in Scheds, want \in SUBSET Cpus, by \in {"cpus", "nodes"} :
    /\ NameIsFree(n)
    /\ by = "nodes" => \E S \in (SUBSET Nodes) \ {{}} : want = {c \in Cpus : NodeOf[c] \in S}
    /\ Begin(p, [PoolsIdle EXCEPT !.pc = "free", !.op = "create", !.name = n, !.kind = s,
                                  !.todo = want, !.new = by])

Destroy(p) ==
  \E q \in Pools : Known(q) /\ Begin(p, [PoolsIdle EXCEPT !.pc = "info", !.op = "destroy", !.pool = q])
Rename(p) ==
  \E q \in Pools, n \in Names :
    Known(q) /\ Begin(p, [PoolsIdle EXCEPT !.pc = "check", !.op = "rename", !.pool = q, !.name = n])
CpuAdd(p) ==
  \E q \in Pools :
    /\ Known(q)
    /\ \/ \E c \in Cpus : Begin(p, [PoolsIdle EXCEPT !.pc = "put", !.op = "add", !.pool = q, !.todo = {c}])
       \/ \E n \in Nodes : Begin(p, [PoolsIdle EXCEPT !.pc = "nodefree", !.op = "add", !.pool = q, !.node = n])
CpuRemove(p) ==
  \E q \in Pools :
    /\ Known(q)
    /\ \/ \E c \in Cpus : Begin(p, [PoolsIdle EXCEPT !.pc = "take", !.op = "remove", !.pool = q, !.todo = {c}])
       \/ \E n \in Nodes : Begin(p, [PoolsIdle EXCEPT !.pc = "nodecpus", !.op = "remove", !.pool = q, !.node = n])
Migrate(p) ==
  \E d \in Doms, q \in Pools :
    Known(q) /\ Begin(p, [PoolsIdle EXCEPT !.pc = "move", !.op = "migrate", !.dom = d, !.pool = q])
VcpuSet(p) ==
  \E d \in Doms, n \in 0..Vcpus :
    Begin(p, [PoolsIdle EXCEPT !.pc = "vcpus", !.op = "vcpus", !.dom = d, !.num = n])

SplitAddsNothing(p) == \* a mutant: free CPUs of the node are not put into Pool 0
  /\ \A q \in Pools : There(q) => q = 0
  /\ Begin(p, [PoolsIdle EXCEPT !.pc = "check", !.op = "split", !.node = Node0, !.kind = sched[0],
                                !.name = Called[Node0], !.nodes = Nodes \ {Node0},
                                !.num = Cardinality(NodeCpus(Node0))])

\* Pool 0 is to be that of the first CPU's node.
Split(p) ==
  /\ \A q \in Pools : There(q) => q = 0
  /\ Begin(p, [PoolsIdle EXCEPT !.pc = "nodefree", !.op = "split", !.node = Node0, !.kind = sched[0],
                                !.nodes = Nodes \ {Node0}, !.num = Cardinality(NodeCpus(Node0))])

\* What is given of the parameters: sched-credit -s, and sched-* -d.
SchedPool(p) ==
  \E q \in Pools, which \in (SUBSET {"slice", "limit"}) \ {{}} : \E v \in [which -> Values] :
    Known(q) /\ Begin(p, [PoolsIdle EXCEPT !.pc = "get", !.op = "rate", !.pool = q, !.kind = Credit, !.new = v])
OptionsOf(s) == IF s = Sedf THEN {"weight", "period", "slice"}
                ELSE IF s = Credit THEN {"weight", "cap"} ELSE {"weight"}
SchedDom(p) ==
  \E d \in Doms, s \in Scheds : \E which \in (SUBSET OptionsOf(s)) \ {{}} : \E v \in [which -> Values] :
    Begin(p, [PoolsIdle EXCEPT !.pc = "get", !.op = "share", !.dom = d, !.kind = s, !.new = v])

(***************************************************************************)
(* libxl_cpupool_create, and what main_cpupoolcreate reads before.         *)
(***************************************************************************)
ReadFree(p) ==
  /\ At(p, "free") /\ Goes
  /\ LET r == proc[p]
         ok == IF r.new = "nodes" THEN r.todo \cap FreeCpus # {} ELSE r.todo \subseteq FreeCpus
     IN  Go(p, IF ok THEN [r EXCEPT !.pc = "make", !.todo = @ \cap FreeCpus] ELSE PoolsIdle)
  /\ UNCHANGED <<xen, store, tx>>

\* Xen takes any id that is free.
Make(p) ==
  /\ At(p, "make") /\ Goes
  /\ \E q \in Pools :
       /\ ~There(q)
       /\ sched' = [sched EXCEPT ![q] = proc[p].kind]
       /\ rate' = [rate EXCEPT ![q] = FreshRate]
       /\ Go(p, [proc[p] EXCEPT !.pc = "add", !.pool = q])
  /\ UNCHANGED <<cpu, home, share, online, store, tx>>

AddLeavesIt(p) == \* a mutant: the pool stays
  /\ At(p, "add") /\ Goes
  /\ \E c \in Cpus : First(c, proc[p].todo) /\ ~(cpu[c] = Free /\ There(proc[p].pool))
  /\ Go(p, PoolsIdle)
  /\ UNCHANGED <<xen, store, tx>>

\* A CPU that is not free any more: the pool is destroyed again.
AddRefused(p) ==
  /\ At(p, "add") /\ Goes
  /\ \E c \in Cpus : First(c, proc[p].todo) /\ ~(cpu[c] = Free /\ There(proc[p].pool))
  /\ Go(p, [proc[p] EXCEPT !.pc = "info"])
  /\ UNCHANGED <<xen, store, tx>>

Add(p) ==
  /\ At(p, "add") /\ Goes
  /\ \E c \in Cpus :
       /\ First(c, proc[p].todo) /\ cpu[c] = Free /\ There(proc[p].pool)
       /\ cpu' = [cpu EXCEPT ![c] = proc[p].pool]
       /\ Go(p, [proc[p] EXCEPT !.todo = @ \ {c}])
  /\ UNCHANGED <<sched, home, rate, share, online, store, tx>>

Added(p) ==
  /\ At(p, "add") /\ proc[p].todo = {} /\ Goes
  /\ TxIs(p, "open") /\ Go(p, [proc[p] EXCEPT !.pc = "name"])
  /\ UNCHANGED <<xen, store>>

\* What follows the transaction that writes a name.
Named(r) ==
  IF r.op # "split" THEN PoolsIdle
  ELSE IF r.pool = 0 THEN [r EXCEPT !.pc = "vcpus"] ELSE [r EXCEPT !.pc = "nodefree"]

WriteName(p) ==
  /\ At(p, "name") /\ tx[p] = "open" /\ Goes
  /\ name' = [name EXCEPT ![proc[p].pool] = proc[p].name]
  /\ Written(p) /\ Go(p, Named(proc[p]))
  /\ UNCHANGED <<xen, avail>>

NameAgain(p) ==
  /\ At(p, "name") /\ tx[p] = "stale" /\ Goes
  /\ TxIs(p, "open")
  /\ UNCHANGED <<xen, store, proc>>

(***************************************************************************)
(* libxl_cpupool_rename; libxl_cpupool_destroy, which a failed create calls*)
(* too, with a name in the store or none.                                  *)
(***************************************************************************)
Check(p) ==
  /\ At(p, "check") /\ Goes
  /\ IF There(proc[p].pool) THEN TxIs(p, "open") /\ Go(p, [proc[p] EXCEPT !.pc = "name"])
     ELSE Go(p, PoolsIdle) /\ UNCHANGED tx
  /\ UNCHANGED <<xen, store>>

Info(p) ==
  /\ At(p, "info") /\ There(proc[p].pool) /\ DomsOf(proc[p].pool) = {} /\ Goes
  /\ Go(p, [proc[p] EXCEPT !.pc = "remove", !.todo = CpusOf(proc[p].pool)])
  /\ UNCHANGED <<xen, store, tx>>

\* Xen leaves the last CPU to a pool that has domains.
Removable(q, c) == cpu[c] = q /\ (DomsOf(q) # {} => CpusOf(q) # {c})

RemoveCpu(p) ==
  /\ At(p, "remove") /\ Goes
  /\ \E c \in Cpus :
       /\ First(c, proc[p].todo) /\ Removable(proc[p].pool, c)
       /\ cpu' = [cpu EXCEPT ![c] = Free]
       /\ Go(p, [proc[p] EXCEPT !.todo = @ \ {c}])
  /\ UNCHANGED <<sched, home, rate, share, online, store, tx>>

Vacant(q) == There(q) /\ CpusOf(q) = {} /\ DomsOf(q) = {}
Drop(p) ==
  /\ At(p, "remove") /\ proc[p].todo = {} /\ Vacant(proc[p].pool) /\ Goes
  /\ sched' = [sched EXCEPT ![proc[p].pool] = None]
  /\ Go(p, [proc[p] EXCEPT !.pc = "rm"])
  /\ UNCHANGED <<cpu, home, rate, share, online, store, tx>>

\* What keeps libxl_cpupool_destroy from going on: the pool is left as it is then.
DestroyRefused(p) ==
  /\ \/ At(p, "info") /\ ~(There(proc[p].pool) /\ DomsOf(proc[p].pool) = {})
     \/ At(p, "remove") /\ \E c \in Cpus : First(c, proc[p].todo) /\ ~Removable(proc[p].pool, c)
     \/ At(p, "remove") /\ proc[p].todo = {} /\ ~Vacant(proc[p].pool)
  /\ Goes /\ Go(p, PoolsIdle)
  /\ UNCHANGED <<xen, store, tx>>

RmBegin(p) ==
  /\ At(p, "rm") /\ Goes
  /\ TxIs(p, "open") /\ Go(p, [proc[p] EXCEPT !.pc = "rmnode"])
  /\ UNCHANGED <<xen, store>>

\* xs_rm is not part of the transaction, and makes this one fail too.
RmNode(p) ==
  /\ At(p, "rmnode") /\ Goes
  /\ name' = [name EXCEPT ![proc[p].pool] = None]
  /\ IF name[proc[p].pool] = None THEN UNCHANGED tx
     ELSE tx' = [q \in Procs |-> IF tx[q] = "open" THEN "stale" ELSE tx[q]]
  /\ Go(p, [proc[p] EXCEPT !.pc = "rmend"])
  /\ UNCHANGED <<xen, avail>>

RmEnd(p) ==
  /\ At(p, "rmend") /\ Goes
  /\ TxIs(p, None)
  /\ Go(p, IF tx[p] = "stale" THEN [proc[p] EXCEPT !.pc = "rm"] ELSE PoolsIdle)
  /\ UNCHANGED <<xen, store>>

(***************************************************************************)
(* libxl_cpupool_cpuadd_node and _cpuremove_node: what was read may be no  *)
(* longer so, and a CPU that cannot be moved is passed over.               *)
(***************************************************************************)
NodeFree(p) ==
  /\ At(p, "nodefree") /\ Goes
  /\ Go(p, [proc[p] EXCEPT !.pc = "put", !.todo = FreeCpus \cap NodeCpus(proc[p].node)])
  /\ UNCHANGED <<xen, store, tx>>

Put(p) ==
  /\ At(p, "put") /\ Goes
  /\ \E c \in Cpus :
       /\ First(c, proc[p].todo)
       /\ cpu' = IF cpu[c] = Free /\ There(proc[p].pool) THEN [cpu EXCEPT ![c] = proc[p].pool] ELSE cpu
       /\ Go(p, [proc[p] EXCEPT !.todo = @ \ {c}])
  /\ UNCHANGED <<sched, home, rate, share, online, store, tx>>

\* xl cpupool-cpu-add ends; numa-split renames Pool 0, or goes to the next node.
PutEnds(p) ==
  /\ At(p, "put") /\ proc[p].todo = {} /\ Goes
  /\ LET r == proc[p] IN
     Go(p, IF r.op # "split" THEN PoolsIdle
           ELSE IF r.pool = 0 THEN [r EXCEPT !.pc = "check", !.name = Called[r.node]]
           ELSE [r EXCEPT !.pc = "next"])
  /\ UNCHANGED <<xen, store, tx>>

ReadCpus(p) ==
  /\ At(p, "nodecpus") /\ Goes
  /\ Go(p, [proc[p] EXCEPT !.pc = "take", !.todo = CpusOf(proc[p].pool) \cap NodeCpus(proc[p].node)])
  /\ UNCHANGED <<xen, store, tx>>

Take(p) ==
  /\ At(p, "take") /\ Goes
  /\ \E c \in Cpus :
       /\ First(c, proc[p].todo)
       /\ cpu' = IF Removable(proc[p].pool, c) THEN [cpu EXCEPT ![c] = Free] ELSE cpu
       /\ Go(p, [proc[p] EXCEPT !.todo = @ \ {c}])
  /\ UNCHANGED <<sched, home, rate, share, online, store, tx>>

TakeEnds(p) ==
  /\ At(p, "take") /\ proc[p].todo = {} /\ Goes
  /\ Go(p, IF proc[p].op = "split" THEN [proc[p] EXCEPT !.pc = "make"] ELSE PoolsIdle)
  /\ UNCHANGED <<xen, store, tx>>

\* libxl_cpupool_movedomain: Xen gives the domain the new scheduler's defaults, and
\* does not move domain 0.
Move(p) ==
  /\ At(p, "move") /\ Goes
  /\ LET q == proc[p].pool  d == proc[p].dom IN
     IF d # 0 /\ There(q) /\ CpusOf(q) # {} /\ home[d] # q
       THEN /\ home' = [home EXCEPT ![d] = q]
            /\ share' = [share EXCEPT ![d] = Fresh(sched[q])]
       ELSE UNCHANGED <<home, share>>
  /\ Go(p, PoolsIdle)
  /\ UNCHANGED <<cpu, sched, rate, online, store, tx>>

(***************************************************************************)
(* libxl_set_vcpuonline, and the loop of numa-split that waits for it.     *)
(***************************************************************************)
VcpusBegin(p) ==
  /\ At(p, "vcpus") /\ Goes
  /\ TxIs(p, "open") /\ Go(p, [proc[p] EXCEPT !.pc = "avail"])
  /\ UNCHANGED <<xen, store>>

VcpusEnd(p) ==
  /\ At(p, "avail") /\ tx[p] = "open" /\ Goes
  /\ LET r == proc[p] IN
     /\ avail' = [avail EXCEPT ![r.dom] = IF r.num > Vcpus THEN Vcpus ELSE r.num]
     /\ Go(p, IF r.op = "split" THEN [r EXCEPT !.pc = "poll", !.tries = Polls] ELSE PoolsIdle)
  /\ Written(p)
  /\ UNCHANGED <<xen, name>>

VcpusAgain(p) ==
  /\ At(p, "avail") /\ tx[p] = "stale" /\ Goes
  /\ TxIs(p, "open")
  /\ UNCHANGED <<xen, store, proc>>

\* Domain 0 may be slow; the command then ends, with no error as its result.
Poll(p) ==
  /\ At(p, "poll") /\ Goes
  /\ LET r == proc[p] IN
     Go(p, IF online[0] = r.num THEN [r EXCEPT !.pc = "next"]
           ELSE IF r.tries > 1 THEN [r EXCEPT !.tries = @ - 1]
           ELSE IF online[0] > r.num THEN PoolsIdle ELSE [r EXCEPT !.pc = "next"])
  /\ UNCHANGED <<xen, store, tx>>

\* The node of the first CPU that has none of its own yet.
NextNode(p) ==
  /\ At(p, "next") /\ proc[p].nodes # {} /\ Goes
  /\ \E n \in proc[p].nodes : \E c \in NodeCpus(n) :
       /\ First(c, {e \in Cpus : NodeOf[e] \in proc[p].nodes})
       /\ Go(p, [proc[p] EXCEPT !.pc = "nodecpus", !.pool = 0, !.node = n, !.name = Called[n],
                                !.nodes = @ \ {n}])
  /\ UNCHANGED <<xen, store, tx>>

SplitEnds(p) ==
  /\ At(p, "next") /\ proc[p].nodes = {} /\ Goes
  /\ Go(p, PoolsIdle)
  /\ UNCHANGED <<xen, store, tx>>

(***************************************************************************)
(* sched-credit, sched-credit2 and sched-sedf: all parameters are read, and*)
(* all are written again.                                                  *)
(***************************************************************************)
Merge(given, old) == [f \in DOMAIN old |-> IF f \in DOMAIN given THEN given[f] ELSE old[f]]

\* A sedf domain has a weight, or a period and a slice.
ChangedKeepsWeight(s, given, old) == \* a mutant: the weight stays beside a period
  LET new == Merge(given, old) IN
  IF s = Sedf /\ "weight" \in DOMAIN given THEN [new EXCEPT !.period = 0, !.slice = 0] ELSE new

Changed(s, given, old) ==
  LET new == Merge(given, old) IN
  IF s # Sedf THEN new
  ELSE IF "weight" \in DOMAIN given THEN [new EXCEPT !.period = 0, !.slice = 0]
  ELSE IF {"period", "slice"} \cap DOMAIN given # {} THEN [new EXCEPT !.weight = 0] ELSE new

Get(p) ==
  /\ At(p, "get") /\ Goes
  /\ LET r == proc[p] IN
     Go(p, IF r.op = "rate"
           THEN IF sched[r.pool] = Credit
                THEN [r EXCEPT !.pc = "set", !.new = Merge(@, rate[r.pool])] ELSE PoolsIdle
           ELSE IF sched[home[r.dom]] = r.kind
                THEN [r EXCEPT !.pc = "set", !.new = Changed(r.kind, @, share[r.dom])] ELSE PoolsIdle)
  /\ UNCHANGED <<xen, store, tx>>

RateOk(r) == r.slice \in Slices /\ r.limit \in Limits /\ r.limit <= r.slice
ShareOk(s, r) ==
  /\ s # Sedf => r.weight \in Weights
  /\ s = Credit => r.cap \in Caps

SetRate(p) ==
  /\ At(p, "set") /\ proc[p].op = "rate" /\ Goes
  /\ rate' = IF RateOk(proc[p].new) /\ sched[proc[p].pool] = Credit
             THEN [rate EXCEPT ![proc[p].pool] = proc[p].new] ELSE rate
  /\ Go(p, PoolsIdle)
  /\ UNCHANGED <<cpu, sched, home, share, online, store, tx>>

SetShare(p) ==
  /\ At(p, "set") /\ proc[p].op = "share" /\ Goes
  /\ LET r == proc[p] IN
     share' = IF ShareOk(r.kind, r.new) /\ sched[home[r.dom]] = r.kind
              THEN [share EXCEPT ![r.dom] = r.new] ELSE share
  /\ Go(p, PoolsIdle)
  /\ UNCHANGED <<cpu, sched, home, rate, online, store, tx>>

(***************************************************************************)
(* Failures, and the guests.                                               *)
(***************************************************************************)
Fault == faults < MaxFaults /\ faults' = faults + 1 /\ disturbed' = Procs /\ UNCHANGED calls

Kill(p) ==
  /\ ~At(p, "idle") /\ Fault
  /\ Go(p, PoolsIdle) /\ TxIs(p, None)
  /\ UNCHANGED <<xen, store>>

\* A call of Xen or xenstored fails: a create goes on without its name, or destroys
\* the pool; a CPU of a node is passed over; anything else ends the command.
AfterFailure(r) ==
  IF r.pc = "add" /\ r.todo # {} THEN [r EXCEPT !.pc = "info"]
  ELSE IF r.pc \in {"add", "name"} /\ ~(r.op = "split" /\ r.pool = 0) THEN Named(r)
  ELSE IF r.pc \in {"put", "take"} /\ r.todo # {}
       THEN [r EXCEPT !.todo = @ \ {c \in r.todo : First(c, r.todo)}]
  ELSE PoolsIdle

CallFails(p) ==
  /\ ~At(p, "idle") /\ ~At(p, "next") /\ Fault
  /\ At(p, "put") \/ At(p, "take") => proc[p].todo # {}
  /\ Go(p, AfterFailure(proc[p])) /\ TxIs(p, None)
  /\ UNCHANGED <<xen, store>>

\* A guest starts and stops virtual CPUs as the store says.
Follow(d) ==
  /\ online[d] # avail[d] /\ avail[d] > 0
  /\ online' = [online EXCEPT ![d] = IF avail[d] > @ THEN @ + 1 ELSE @ - 1]
  /\ UNCHANGED <<cpu, sched, home, rate, share, store, proc, tx, calls, faults, disturbed>>

Commands(p) ==
  /\ At(p, "idle") /\ calls < MaxCalls
  /\ \/ Create(p) \/ Destroy(p) \/ Rename(p) \/ CpuAdd(p) \/ CpuRemove(p) \/ Migrate(p)
     \/ VcpuSet(p) \/ Split(p) \/ SchedPool(p) \/ SchedDom(p)

Steps(p) ==
  \/ ReadFree(p) \/ Make(p) \/ AddRefused(p) \/ Add(p) \/ Added(p)
  \/ WriteName(p) \/ NameAgain(p) \/ Check(p)
  \/ Info(p) \/ RemoveCpu(p) \/ Drop(p) \/ DestroyRefused(p) \/ RmBegin(p) \/ RmNode(p) \/ RmEnd(p)
  \/ NodeFree(p) \/ Put(p) \/ PutEnds(p) \/ ReadCpus(p) \/ Take(p) \/ TakeEnds(p) \/ Move(p)
  \/ VcpusBegin(p) \/ VcpusEnd(p) \/ VcpusAgain(p) \/ Poll(p) \/ NextNode(p) \/ SplitEnds(p)
  \/ Get(p) \/ SetRate(p) \/ SetShare(p)

PoolsNext ==
  \/ \E p \in Procs : Commands(p) \/ Steps(p) \/ Kill(p) \/ CallFails(p)
  \/ \E d \in Doms : Follow(d)

PoolsSpec == PoolsInit /\ [][PoolsNext]_poolsVars

(***************************************************************************)
(* Properties.                                                             *)
(***************************************************************************)
\* A pool that no command of xl can name, and that nobody is making or undoing.
Attends(p, q) ==
  /\ proc[p].pool = q
  /\ \/ At(p, "add") \/ At(p, "info") \/ At(p, "remove")
     \/ At(p, "name") /\ proc[p].op \in {"create", "split"}
Unattended(q) == q # 0 /\ There(q) /\ name[q] = None /\ \A p \in Procs : ~Attends(p, q)

\* A pool is left without a name, so that xl can do nothing with it, only if its maker
\* is killed or a call fails, if somebody has put a domain or a CPU into a pool that
\* is being destroyed, or if the name of an older pool with its id is removed late
\* (libxl_cpupool_create, libxl_cpupool_destroy).
NamelessIsExplained ==
  [][\A q \in Pools : Unattended(q)' =>
       \/ Unattended(q)
       \/ \E p \in Procs :
            /\ proc[p].pool = q
            /\ \/ Kill(p) \/ CallFails(p) \/ DestroyRefused(p) \/ RmNode(p)]_poolsVars

\* xl cpupool-numa-split, once it comes to its end with nobody else at work and no
\* call failing, has given each node a pool of that node's CPUs and name.  It adds to
\* Pool 0 before it removes from it "to avoid a cpupool without cpus in between".
ByNode ==
  \A c \in Cpus :
    /\ cpu[c] # Free /\ name[cpu[c]] = Called[NodeOf[c]]
    /\ \A e \in Cpus : cpu[e] = cpu[c] <=> NodeOf[e] = NodeOf[c]
SplitByNode ==
  \A p \in Procs \ disturbed : At(p, "next") /\ proc[p].nodes = {} => ByNode

\* The parameters in the hypervisor are valid together, though each command gives
\* some of them and reads the others: "Ratelimit cannot be greater than timeslice"
\* (libxl_sched_credit_params_set), and a sedf domain that has a weight has neither
\* period nor slice (main_sched_sedf).
ParamsFit ==
  /\ \A q \in Pools : sched[q] = Credit => RateOk(rate[q])
  /\ \A d \in Doms : LET s == sched[home[d]] IN
       /\ ShareOk(s, share[d])
       /\ s = Sedf => share[d].weight = 0 \/ (share[d].period = 0 /\ share[d].slice = 0)
=============================================================================
