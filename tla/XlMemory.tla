------------------------------- MODULE XlMemory -------------------------------
(***************************************************************************)
(* Memory in xl (test_case/xl_cmdimpl.c) and libxl (console_get_tty/       *)
(* libxl.c): xl mem-set and mem-max, and the ballooning of domain 0 that   *)
(* makes room for a new domain.  A domain's target is kept three times: in *)
(* xenstore, where its balloon driver reads it, and in the hypervisor as   *)
(* the limit and as the populate-on-demand target.  libxl writes the store *)
(* in a transaction it retries, and calls the hypervisor in the middle.    *)
(***************************************************************************)
EXTENDS XlProcesses, Functions

CONSTANTS
  Nobody,       \* nobody holds the lock file
  Dom0, Guests, \* the domains, those that xl may still create included
  New,          \* the guest that does not exist yet
  Videoram,     \* [Guests -> its video memory]
  Total,        \* the memory there is
  Unused,       \* what no domain has of it at first
  SlackCap,     \* the 15% of it that bound the slack
  MinDom0,      \* LIBXL_MIN_DOM0_MEM
  Spare,        \* LIBXL_MAXMEM_CONSTANT
  Sizes,        \* the sizes users give
  Size, Top,    \* what a domain has at first, and its static-max
  Word,         \* 2^w: the memory counts are unsigned
  Retries,      \* freemem's loops
  WaitSecs,     \* bound: the seconds it waits for memory
  MaxFailures   \* bound: hypercalls that fail

Domains == {Dom0} \cup Guests
Absent == -1

ASSUME XlMemoryAssumption ==
  /\ Nobody \notin Procs /\ Dom0 \notin Guests /\ New \in Guests
  /\ Videoram \in [Guests -> Nat] /\ {Size, Top} \subseteq [Domains -> Nat] /\ Size[New] = 0
  /\ Total = Unused + FoldFunction(+, 0, Size)
  /\ Sizes \subseteq Nat /\ \A n \in Sizes \cup Range(Size) : n < Word
  /\ {Total, Unused, SlackCap, MinDom0, Spare, Word, Retries, WaitSecs, MaxCalls, MaxFailures} \subseteq Nat

VARIABLES
  memory,       \* xenstore: memory/target, memory/static-max, freemem-slack
  hypervisor,   \* the hypervisor: each domain's limit, PoD target and memory, and what is free
  txn,          \* each process's transaction: "none", "open", or "stale"
  createLock,   \* the one that holds the lock file
  failures,
  owed,         \* what the calls that ended well ask of domain 0 in all
  gaveUp        \* domains that a call left after it had called the hypervisor

memoryVars == <<memory, hypervisor, proc, txn, createLock, calls, failures, owed, gaveUp>>

Video(d) == IF d = Dom0 THEN 0 ELSE Videoram[d]
MemoryIdle == [pc |-> "idle", op |-> "none", dom |-> Dom0, arg |-> 0, new |-> 0, free |-> 0,
               need |-> 0, tries |-> 0, waits |-> 0, back |-> "idle", touched |-> FALSE]

\* A guest's nodes were written when it was built.  Domain 0 has none until they
\* are filled in, or those an older toolstack wrote, which knew no slack.
MemoryInit ==
  /\ \E filled \in BOOLEAN :
       LET there(d) == d # New /\ (d = Dom0 => filled) IN
       memory = [target |-> [d \in Domains |-> IF there(d) THEN Size[d] - Video(d) ELSE Absent],
                 top |-> [d \in Domains |-> IF there(d) THEN Top[d] ELSE Absent],
                 slack |-> Absent]
  /\ hypervisor = [max |-> [d \in Domains |-> Top[d] + Spare],
                   pod |-> [d \in Domains |-> IF d = New THEN Absent ELSE Size[d] - Video(d)],
                   has |-> Size, free |-> Unused]
  /\ proc = [p \in Procs |-> MemoryIdle]
  /\ txn = [p \in Procs |-> "none"]
  /\ createLock = Nobody /\ calls = 0 /\ failures = 0
  /\ owed = memory.target[Dom0] /\ gaveUp = {}

Available == hypervisor.free

Less(a, b) == (a - b) % Word

\* xenstored: a transaction during which another connection wrote does not
\* commit.
TxWritten(p) ==
  txn' = [q \in Procs |-> IF q = p THEN "none" ELSE IF txn[q] = "open" THEN "stale" ELSE txn[q]]
TxStarts(p) == txn' = [txn EXCEPT ![p] = "open"]
TxEnds(p) == txn' = [txn EXCEPT ![p] = "none"]

(***************************************************************************)
(* The commands.                                                           *)
(***************************************************************************)
MemSet(p) ==
  /\ proc[p].pc = "idle" /\ Given
  /\ \E d \in Domains, n \in Sizes :
       Go(p, [MemoryIdle EXCEPT !.pc = "begin", !.op = "set", !.dom = d, !.arg = n])
  /\ UNCHANGED <<memory, hypervisor, txn, createLock, failures, owed, gaveUp>>

\* libxl_domain_setmaxmem reads the target outside of any transaction.
MemMax(p) ==
  /\ proc[p].pc = "idle" /\ Given
  /\ \E d \in Domains, n \in Sizes :
       /\ memory.target[d] # Absent /\ memory.target[d] <= n
       /\ Go(p, [MemoryIdle EXCEPT !.pc = "max", !.op = "max", !.dom = d, !.new = n])
  /\ UNCHANGED <<memory, hypervisor, txn, createLock, failures, owed, gaveUp>>

\* libxl_domain_need_memory: more than what the configuration says.
CreateBegins(p) ==
  /\ proc[p].pc = "idle" /\ Given
  /\ createLock = Nobody /\ createLock' = p
  /\ memory.target[New] = Absent
  /\ \E n \in Sizes :
       Go(p, [MemoryIdle EXCEPT !.pc = "info", !.op = "create", !.need = n + Videoram[New], !.tries = Retries])
  /\ UNCHANGED <<memory, hypervisor, txn, failures, owed, gaveUp>>

(***************************************************************************)
(* libxl__fill_dom0_memory_info, from where its target or its slack is     *)
(* read and is not there.                                                  *)
(***************************************************************************)
FillBegin(p) ==
  /\ proc[p].pc = "fill"
  /\ TxStarts(p)
  /\ Go(p, [proc[p] EXCEPT !.pc = "filled"])
  /\ UNCHANGED <<memory, hypervisor, createLock, calls, failures, owed, gaveUp>>

\* What was read is what is there still, or the transaction does not commit.
OrElse(value, default) == IF value = Absent THEN default ELSE value
Slack == LET rest == Total - hypervisor.has[Dom0] IN IF rest > SlackCap THEN SlackCap ELSE rest
FilledUnlessTwo == \* a mutant: nothing when the first two are there
  IF memory.target[Dom0] # Absent /\ memory.top[Dom0] # Absent THEN memory
  ELSE [memory EXCEPT !.target[Dom0] = OrElse(@, hypervisor.has[Dom0]),
                      !.top[Dom0] = OrElse(@, hypervisor.max[Dom0]),
                      !.slack = OrElse(@, Slack)]

Filled ==
  [memory EXCEPT !.target[Dom0] = OrElse(@, hypervisor.has[Dom0]),
                 !.top[Dom0] = OrElse(@, hypervisor.max[Dom0]),
                 !.slack = OrElse(@, Slack)]

FillEnd(p) ==
  /\ proc[p].pc = "filled"
  /\ IF txn[p] = "stale"
       THEN TxEnds(p) /\ Go(p, [proc[p] EXCEPT !.pc = "fill"]) /\ UNCHANGED <<memory, owed>>
       ELSE /\ memory' = Filled
            /\ owed' = OrElse(owed, hypervisor.has[Dom0])
            /\ IF Filled = memory THEN TxEnds(p) ELSE TxWritten(p)
            /\ Go(p, [proc[p] EXCEPT !.pc = proc[p].back])
  /\ UNCHANGED <<hypervisor, createLock, calls, failures, gaveUp>>

(***************************************************************************)
(* libxl_set_memory_target.                                                *)
(***************************************************************************)
\* The caller: xl mem-set does not look at what it returns; freemem goes on to
\* wait unless a hypercall failed, which then is the negative result.
SetEnds(p, failed) ==
  IF proc[p].op = "create"
    THEN Go(p, [proc[p] EXCEPT !.pc = IF failed THEN "unlock" ELSE "wait",
                               !.waits = WaitSecs, !.touched = FALSE])
    ELSE Go(p, MemoryIdle)

LeavesTouched(p) == gaveUp' = gaveUp \cup (IF proc[p].touched THEN {proc[p].dom} ELSE {})

Asked(p) ==
  LET now == memory.target[proc[p].dom] IN
  IF proc[p].op = "set" THEN proc[p].arg
  ELSE IF -proc[p].arg > now THEN 0 ELSE now + proc[p].arg

Allowed(d, n) ==
  /\ memory.top[d] # Absent /\ n <= memory.top[d]
  /\ d = Dom0 => n >= MinDom0

SetBegins(p) ==
  /\ proc[p].pc = "begin"
  /\ memory.target[proc[p].dom] # Absent /\ Allowed(proc[p].dom, Asked(p))
  /\ TxStarts(p)
  /\ Go(p, [proc[p] EXCEPT !.pc = IF proc[p].op = "set" THEN "max" ELSE "pod", !.new = Asked(p)])
  /\ UNCHANGED <<memory, hypervisor, createLock, calls, failures, owed, gaveUp>>

BeginRefused(p) ==
  /\ proc[p].pc = "begin"
  /\ IF memory.target[proc[p].dom] = Absent THEN proc[p].dom # Dom0
     ELSE ~Allowed(proc[p].dom, Asked(p))
  /\ LeavesTouched(p) /\ SetEnds(p, FALSE)
  /\ UNCHANGED <<memory, hypervisor, txn, createLock, calls, failures, owed>>

BeginFills(p) ==
  /\ proc[p].pc = "begin" /\ proc[p].dom = Dom0 /\ memory.target[Dom0] = Absent
  /\ Go(p, [proc[p] EXCEPT !.pc = "fill", !.back = "begin"])
  /\ UNCHANGED <<memory, hypervisor, txn, createLock, calls, failures, owed, gaveUp>>

\* xc_domain_setmaxmem: when the target is enforced, and for xl mem-max.
SetMax(p) ==
  /\ proc[p].pc = "max"
  /\ hypervisor' = [hypervisor EXCEPT !.max[proc[p].dom] = proc[p].new + Spare]
  /\ Go(p, IF proc[p].op = "max" THEN MemoryIdle ELSE [proc[p] EXCEPT !.pc = "pod"])
  /\ UNCHANGED <<memory, txn, createLock, calls, failures, owed, gaveUp>>

\* xc_domain_set_pod_target: Xen refuses more than the limit.
SetPod(p) ==
  /\ proc[p].pc = "pod"
  /\ Less(proc[p].new, Video(proc[p].dom)) <= hypervisor.max[proc[p].dom]
  /\ hypervisor' = [hypervisor EXCEPT !.pod[proc[p].dom] = Less(proc[p].new, Video(proc[p].dom))]
  /\ Go(p, [proc[p] EXCEPT !.pc = "write", !.new = Less(@, Video(proc[p].dom)), !.touched = TRUE])
  /\ UNCHANGED <<memory, txn, createLock, calls, failures, owed, gaveUp>>

\* One of the two, or, once the target is set, xc_domain_getinfolist or the end of the
\* transaction, for another reason than EAGAIN: not every one gives a negative result.
HypercallFails(p) ==
  /\ proc[p].pc \in {"max", "pod", "write"}
  /\ \/ failures < MaxFailures /\ failures' = failures + 1
     \/ /\ proc[p].pc = "pod" /\ Less(proc[p].new, Video(proc[p].dom)) > hypervisor.max[proc[p].dom]
        /\ UNCHANGED failures
  /\ TxEnds(p) /\ LeavesTouched(p)
  /\ \/ SetEnds(p, TRUE)
     \/ proc[p].pc = "write" /\ SetEnds(p, FALSE)
  /\ UNCHANGED <<memory, hypervisor, createLock, calls, owed>>

Commit(p) ==
  /\ proc[p].pc = "write" /\ txn[p] = "open"
  /\ memory' = [memory EXCEPT !.target[proc[p].dom] = proc[p].new]
  /\ owed' = IF proc[p].dom # Dom0 THEN owed ELSE IF proc[p].op = "set" THEN proc[p].arg
             ELSE IF -proc[p].arg > owed THEN 0 ELSE owed + proc[p].arg
  /\ TxWritten(p) /\ SetEnds(p, FALSE)
  /\ UNCHANGED <<hypervisor, createLock, calls, failures, gaveUp>>

Stale(p) ==
  /\ proc[p].pc = "write" /\ txn[p] = "stale"
  /\ UNCHANGED <<memory, hypervisor, createLock, calls, failures, owed, gaveUp>>

\* Mutants: what was read is not read again; or nothing is tried again.
CommitRetriesUnread(p) == Stale(p) /\ TxStarts(p) /\ Go(p, [proc[p] EXCEPT !.pc = "pod"])
CommitRetriesNot(p) == Stale(p) /\ TxEnds(p) /\ SetEnds(p, FALSE)

\* EAGAIN: goto retry_transaction.
CommitRetries(p) == Stale(p) /\ TxEnds(p) /\ Go(p, [proc[p] EXCEPT !.pc = "begin"])

(***************************************************************************)
(* freemem, under create_domain's lock.                                    *)
(***************************************************************************)
\* libxl_get_free_memory: first the free memory, then the slack.
ReadInfo(p) ==
  /\ proc[p].pc = "info"
  /\ Go(p, [proc[p] EXCEPT !.pc = "slack", !.free = Available])
  /\ UNCHANGED <<memory, hypervisor, txn, createLock, calls, failures, owed, gaveUp>>

\* libxl__get_free_memory_slack.
SlackFills(p) ==
  /\ proc[p].pc \in {"slack", "wait"} /\ memory.slack = Absent
  /\ Go(p, [proc[p] EXCEPT !.pc = "fill", !.back = proc[p].pc])
  /\ UNCHANGED <<memory, hypervisor, txn, createLock, calls, failures, owed, gaveUp>>

FreeMemory(p) == IF proc[p].free > memory.slack THEN proc[p].free - memory.slack ELSE 0

CompareFree(p) ==
  /\ proc[p].pc = "slack" /\ memory.slack # Absent
  /\ Go(p, IF FreeMemory(p) >= proc[p].need THEN [proc[p] EXCEPT !.pc = "build"]
           ELSE [proc[p] EXCEPT !.pc = "begin", !.dom = Dom0, !.arg = FreeMemory(p) - proc[p].need])
  /\ UNCHANGED <<memory, hypervisor, txn, createLock, calls, failures, owed, gaveUp>>

\* libxl_wait_for_free_memory, one second of it.  The difference is unsigned.
WaitFree(p) ==
  /\ proc[p].pc = "wait" /\ memory.slack # Absent /\ proc[p].waits > 0
  /\ Go(p, IF Less(Available, memory.slack) >= proc[p].need THEN [proc[p] EXCEPT !.pc = "build"]
           ELSE [proc[p] EXCEPT !.waits = @ - 1])
  /\ UNCHANGED <<memory, hypervisor, txn, createLock, calls, failures, owed, gaveUp>>

\* libxl_wait_for_memory_target: a second, and no failure, whatever it saw.
WaitTarget(p) ==
  /\ proc[p].pc = "wait" /\ memory.slack # Absent /\ proc[p].waits = 0
  /\ Go(p, [proc[p] EXCEPT !.pc = IF proc[p].tries > 1 THEN "info" ELSE "unlock", !.tries = @ - 1])
  /\ UNCHANGED <<memory, hypervisor, txn, createLock, calls, failures, owed, gaveUp>>

\* libxl_domain_create_new: with the memory free or not at all.
Build(p) ==
  /\ proc[p].pc = "build"
  /\ LET n == proc[p].need IN
     IF n <= Available
       THEN /\ memory' = [memory EXCEPT !.target[New] = n - Videoram[New], !.top[New] = n]
            /\ hypervisor' = [hypervisor EXCEPT !.max[New] = n + Spare, !.has[New] = n,
                                                !.pod[New] = n - Videoram[New], !.free = @ - n]
            /\ TxWritten(p)
       ELSE UNCHANGED <<memory, hypervisor, txn>>
  /\ Go(p, [proc[p] EXCEPT !.pc = "unlock"])
  /\ UNCHANGED <<createLock, calls, failures, owed, gaveUp>>

Unlock(p) ==
  /\ proc[p].pc = "unlock"
  /\ createLock' = Nobody /\ Go(p, MemoryIdle)
  /\ UNCHANGED <<memory, hypervisor, txn, calls, failures, owed, gaveUp>>

\* The balloon driver follows the target in the store, within the limit.
Balloon(d) ==
  /\ memory.target[d] # Absent
  /\ LET aim == memory.target[d] + Video(d) IN
     \/ hypervisor.has[d] > aim /\ hypervisor' = [hypervisor EXCEPT !.has[d] = @ - 1, !.free = @ + 1]
     \/ /\ hypervisor.has[d] < aim /\ hypervisor.has[d] < hypervisor.max[d] /\ Available > 0
        /\ hypervisor' = [hypervisor EXCEPT !.has[d] = @ + 1, !.free = @ - 1]
  /\ UNCHANGED <<memory, proc, txn, createLock, calls, failures, owed, gaveUp>>

MemoryGo(p) ==
  \/ FillBegin(p) \/ FillEnd(p) \/ SetBegins(p) \/ BeginRefused(p) \/ BeginFills(p)
  \/ SetMax(p) \/ SetPod(p) \/ HypercallFails(p) \/ Commit(p) \/ CommitRetries(p)
  \/ ReadInfo(p) \/ SlackFills(p) \/ CompareFree(p) \/ WaitFree(p) \/ WaitTarget(p)
  \/ Build(p) \/ Unlock(p)

MemoryNext ==
  \/ \E p \in Procs : MemoryGo(p) \/ MemSet(p) \/ MemMax(p) \/ CreateBegins(p)
  \/ \E d \in Domains : Balloon(d)

MemorySpec == MemoryInit /\ [][MemoryNext]_memoryVars

\* xl is scheduled; nothing is assumed of guests and their balloon drivers.
MemoryFairSpec == MemorySpec /\ \A p \in Procs : WF_memoryVars(MemoryGo(p))

(***************************************************************************)
(* Properties.                                                             *)
(***************************************************************************)
\* Domain 0's target is what the commands ask for, each counted once: a retried
\* transaction reads it again, so that what freemem takes off is neither lost
\* nor taken twice while others set it.
Dom0TargetIsOwed == memory.target[Dom0] = owed

\* When no call is under way, a guest's target in the hypervisor is the one in
\* the store, though only the store's is written in a transaction: unless a call
\* left after its hypercall.
PodIsTarget ==
  \A d \in Guests :
    (\A p \in Procs : ~(proc[p].touched /\ proc[p].dom = d)) /\ d \notin gaveUp
      => hypervisor.pod[d] = memory.target[d]

\* Every command ends: the transactions' retries, and the loop that fills in
\* the slack and reads it again.
CommandsEnd == \A p \in Procs : proc[p].pc # "idle" ~> proc[p].pc = "idle"

\* "returns how much memory should be left free in the system"
\* (libxl__get_free_memory_slack): freemem waits until that much and what the
\* domain needs is free.
SlackIsLeft ==
  [][\A p \in Procs :
       WaitFree(p) /\ proc'[p].pc = "build" => Available >= memory.slack + proc[p].need]_memoryVars
=============================================================================
