--------------------------- MODULE PersistentPool ---------------------------
(***************************************************************************)
(* The spin-then-park worker pool of                                       *)
(* crates/aegisllm-cpu/src/persistent_pool.rs.  Lane 0 is the thread that  *)
(* calls `dispatch` (one thread: the engine decodes on one); lanes         *)
(* 1..Lanes-1 are the spawned workers.  Every atomic access another thread *)
(* can observe is a step of its own.                                       *)
(*                                                                         *)
(* A closure is identified by the number of the dispatch that owns it; its *)
(* pointer is valid while that dispatch has not returned.  The `lanes`     *)
(* cell always holds the constant Lanes, so the worker's `lane < lanes`    *)
(* test is always true and is left out, as are CPU pinning and the lengths *)
(* of the spin and yield phases.                                           *)
(*                                                                         *)
(* staleLoads is about the memory order.  The announcement of a parking    *)
(* worker (RMW parked; load generation) and the announcement of a job (RMW *)
(* generation; load parked) use Release RMWs and Acquire loads.  Where the *)
(* RMW is a full fence (x86) the later load sees every earlier store:      *)
(* staleLoads = FALSE.  The Release/Acquire orders alone allow either load *)
(* to return the value of before the other thread's RMW: staleLoads = TRUE.*)
(* It is a property of the machine: chosen in the initial state, kept.     *)
(***************************************************************************)
EXTENDS Integers, FiniteSets

CONSTANTS
  Lanes,        \* participating threads, the caller included
  JobSizes,     \* the n a caller passes to dispatch
  MaxDispatch   \* bound: dispatch is called at most this often

ASSUME PoolAssumption ==
  /\ Lanes \in Nat \ {0}
  /\ JobSizes \subseteq Nat
  /\ MaxDispatch \in Nat

VARIABLES
  generation, pending, jobN, job, shutdown, parked,      \* struct Shared
  token,                              \* token[w]: w's unpark token is set
  cpc, cur0,                          \* lane 0: where it is, its loop cursor
  size, ran, issued,                  \* the latest dispatch and its number
  wpc, lastGen, wjob, wn, cur,        \* the locals of each worker
  staleLoads                          \* whether a load may miss the latest RMW

shared == <<generation, pending, jobN, job, shutdown, parked>>
caller == <<cpc, cur0, size, issued>>
locals == <<lastGen, wjob, wn, cur>>
vars == <<generation, pending, jobN, job, shutdown, parked, token, cpc, cur0,
          size, ran, issued, wpc, lastGen, wjob, wn, cur, staleLoads>>

Workers == 1 .. Lanes - 1

(***************************************************************************)
(* run_shard: the contiguous near-equal split of [0, n).                   *)
(***************************************************************************)
(* Mutant: the remainder is forgotten in the start. *)
ShardStartNoRemainder(lane, n) == lane * (n \div Lanes)

ShardStart(lane, n) ==
  LET base == n \div Lanes
      rem  == n % Lanes
  IN  IF lane < rem THEN lane * (base + 1)
                    ELSE rem * (base + 1) + (lane - rem) * base

ShardLen(lane, n) ==
  LET base == n \div Lanes
  IN  IF lane < n % Lanes THEN base + 1 ELSE base

ShardEnd(lane, n) == ShardStart(lane, n) + ShardLen(lane, n)

Indices(n) == 0 .. n - 1

-----------------------------------------------------------------------------
Init ==
  /\ staleLoads \in BOOLEAN
  /\ generation = 0 /\ pending = 0 /\ jobN = 0 /\ job = 0
  /\ shutdown = FALSE /\ parked = 0
  /\ token = [w \in Workers |-> FALSE]
  /\ cpc = "idle" /\ cur0 = 0
  /\ size = 0 /\ ran = [i \in Indices(0) |-> 0] /\ issued = 0
  /\ wpc = [w \in Workers |-> "spin"]
  /\ lastGen = [w \in Workers |-> 0]
  /\ wjob = [w \in Workers |-> 0]
  /\ wn = [w \in Workers |-> 0]
  /\ cur = [w \in Workers |-> 0]

-----------------------------------------------------------------------------
(* Lane 0: dispatch. *)

(* dispatch(0, f): the early return. *)
DispatchNothing ==
  /\ cpc = "idle" /\ issued < MaxDispatch
  /\ issued' = issued + 1
  /\ size' = 0
  /\ ran' = [i \in Indices(0) |-> 0]
  /\ UNCHANGED <<shared, token, cpc, cur0, wpc, locals>>

(* dispatch(n, f) is entered; with one lane the loop runs inline. *)
Dispatch(n) ==
  /\ cpc = "idle" /\ issued < MaxDispatch
  /\ n # 0
  /\ issued' = issued + 1
  /\ size' = n
  /\ ran' = [i \in Indices(n) |-> 0]
  /\ cur0' = ShardStart(0, n)
  /\ cpc' = IF Lanes = 1 THEN "run" ELSE "publish"
  /\ UNCHANGED <<shared, token, wpc, locals>>

PublishJob ==
  /\ cpc = "publish"
  /\ jobN' = size
  /\ job' = issued
  /\ cpc' = "count"
  /\ UNCHANGED <<generation, pending, shutdown, parked, token, cur0, size, ran,
                 issued, wpc, locals>>

(* Mutant: one worker is not counted. *)
SetPendingShort ==
  /\ cpc = "count"
  /\ pending' = Lanes - 2
  /\ cpc' = "bump"
  /\ UNCHANGED <<generation, jobN, job, shutdown, parked, token, cur0, size,
                 ran, issued, wpc, locals>>

SetPending ==
  /\ cpc = "count"
  /\ pending' = Lanes - 1
  /\ cpc' = "bump"
  /\ UNCHANGED <<generation, jobN, job, shutdown, parked, token, cur0, size,
                 ran, issued, wpc, locals>>

BumpGeneration ==
  /\ cpc = "bump"
  /\ generation' = generation + 1
  /\ cpc' = "checkParked"
  /\ UNCHANGED <<pending, jobN, job, shutdown, parked, token, cur0, size, ran,
                 issued, wpc, locals>>

(* Mutant: parked workers are never unparked. *)
CheckParkedNever ==
  /\ cpc = "checkParked"
  /\ cpc' = "run"
  /\ UNCHANGED <<shared, token, cur0, size, ran, issued, wpc, locals>>

(* The unpark loop is skipped when nobody is seen parking.  The cursor of   *)
(* that loop is the first worker.                                           *)
CheckParked ==
  /\ cpc = "checkParked"
  /\ \/ /\ parked # 0
        /\ cpc' = "unpark"
        /\ cur0' = 1
     \/ /\ parked = 0 \/ staleLoads
        /\ cpc' = "run"
        /\ UNCHANGED cur0
  /\ UNCHANGED <<shared, token, size, ran, issued, wpc, locals>>

(* t.unpark() for the next worker of the list, in dispatch and in drop. *)
Unpark ==
  /\ cpc \in {"unpark", "dropUnpark"}
  /\ cur0 \in Workers
  /\ token' = [token EXCEPT ![cur0] = TRUE]
  /\ cur0' = cur0 + 1
  /\ UNCHANGED <<shared, cpc, size, ran, issued, wpc, locals>>

UnparkedAll ==
  /\ cpc = "unpark"
  /\ cur0 \notin Workers
  /\ cpc' = "run"
  /\ cur0' = ShardStart(0, size)
  /\ UNCHANGED <<shared, token, size, ran, issued, wpc, locals>>

(* f(i) for the next index of lane 0's shard. *)
RunOwn ==
  /\ cpc = "run"
  /\ cur0 < ShardEnd(0, size)
  /\ ran' = [ran EXCEPT ![cur0] = @ + 1]
  /\ cur0' = cur0 + 1
  /\ UNCHANGED <<shared, token, cpc, size, issued, wpc, locals>>

OwnDone ==
  /\ cpc = "run"
  /\ cur0 = ShardEnd(0, size)
  /\ cpc' = "await"
  /\ UNCHANGED <<shared, token, cur0, size, ran, issued, wpc, locals>>

(* Mutant: dispatch does not wait. *)
ReturnEarly ==
  /\ cpc = "await"
  /\ cpc' = "idle"
  /\ UNCHANGED <<shared, token, cur0, size, ran, issued, wpc, locals>>

(* The wait for the workers ends; a pool of one lane never sets pending. *)
Return ==
  /\ cpc = "await"
  /\ pending = 0
  /\ cpc' = "idle"
  /\ UNCHANGED <<shared, token, cur0, size, ran, issued, wpc, locals>>

-----------------------------------------------------------------------------
(* Drop owns the pool, so no dispatch is running. *)

DropShutdown ==
  /\ cpc = "idle"
  /\ shutdown' = TRUE
  /\ cpc' = "dropBump"
  /\ UNCHANGED <<generation, pending, jobN, job, parked, token, cur0, size, ran,
                 issued, wpc, locals>>

DropBump ==
  /\ cpc = "dropBump"
  /\ generation' = generation + 1
  /\ cpc' = "dropUnpark"
  /\ cur0' = 1
  /\ UNCHANGED <<pending, jobN, job, shutdown, parked, token, size, ran, issued,
                 wpc, locals>>

DropJoin ==
  /\ cpc = "dropUnpark"
  /\ cur0 \notin Workers
  /\ \A w \in Workers : wpc[w] = "exited"
  /\ cpc' = "closed"
  /\ UNCHANGED <<shared, token, cur0, size, ran, issued, wpc, locals>>

-----------------------------------------------------------------------------
(* worker_loop *)

Goto(w, to) == wpc' = [wpc EXCEPT ![w] = to]

(* The generation load of the waiting loop sees a new generation. *)
SeeGeneration(w) ==
  /\ wpc[w] = "spin"
  /\ generation # lastGen[w]
  /\ lastGen' = [lastGen EXCEPT ![w] = generation]
  /\ Goto(w, "check")
  /\ UNCHANGED <<shared, token, caller, ran, wjob, wn, cur>>

(* It sees none and the spin and yield budgets are used up. *)
BudgetSpent(w) ==
  /\ wpc[w] = "spin"
  /\ generation = lastGen[w] \/ staleLoads
  /\ Goto(w, "announce")
  /\ UNCHANGED <<shared, token, caller, ran, locals>>

AnnouncePark(w) ==
  /\ wpc[w] = "announce"
  /\ parked' = parked + 1
  /\ Goto(w, "recheck")
  /\ UNCHANGED <<generation, pending, jobN, job, shutdown, token, caller, ran,
                 locals>>

(* Mutant: the second look at the generation is dropped. *)
NoRecheck(w) ==
  /\ wpc[w] = "recheck"
  /\ Goto(w, "recheckShutdown")
  /\ UNCHANGED <<shared, token, caller, ran, locals>>

RecheckGeneration(w) ==
  /\ wpc[w] = "recheck"
  /\ \/ /\ generation = lastGen[w] \/ staleLoads
        /\ Goto(w, "recheckShutdown")
     \/ /\ generation # lastGen[w]
        /\ Goto(w, "retract")
  /\ UNCHANGED <<shared, token, caller, ran, locals>>

RecheckShutdown(w) ==
  /\ wpc[w] = "recheckShutdown"
  /\ Goto(w, IF shutdown THEN "retract" ELSE "park")
  /\ UNCHANGED <<shared, token, caller, ran, locals>>

(* park_timeout returns because of the token, which it consumes ... *)
WakeByToken(w) ==
  /\ wpc[w] = "park"
  /\ token[w]
  /\ token' = [token EXCEPT ![w] = FALSE]
  /\ Goto(w, "retract")
  /\ UNCHANGED <<shared, caller, ran, locals>>

(* ... or because the 10 ms are over, or for no reason. *)
WakeByTimeout(w) ==
  /\ wpc[w] = "park"
  /\ ~token[w]
  /\ Goto(w, "retract")
  /\ UNCHANGED <<shared, token, caller, ran, locals>>

(* Mutant: the announcement is not taken back. *)
RetractKeepsCount(w) ==
  /\ wpc[w] = "retract"
  /\ Goto(w, "spin")
  /\ UNCHANGED <<shared, token, caller, ran, locals>>

RetractPark(w) ==
  /\ wpc[w] = "retract"
  /\ parked' = parked - 1
  /\ Goto(w, "spin")
  /\ UNCHANGED <<generation, pending, jobN, job, shutdown, token, caller, ran,
                 locals>>

CheckShutdown(w) ==
  /\ wpc[w] = "check"
  /\ Goto(w, IF shutdown THEN "exited" ELSE "fetch")
  /\ UNCHANGED <<shared, token, caller, ran, locals>>

FetchJob(w) ==
  /\ wpc[w] = "fetch"
  /\ wn' = [wn EXCEPT ![w] = jobN]
  /\ wjob' = [wjob EXCEPT ![w] = job]
  /\ cur' = [cur EXCEPT ![w] = ShardStart(w, jobN)]
  /\ Goto(w, "run")
  /\ UNCHANGED <<shared, token, caller, ran, lastGen>>

(* The closure of an earlier dispatch is gone: calling it does nothing here *)
(* and is excluded by NoDanglingJob.                                        *)
RunShard(w) ==
  /\ wpc[w] = "run"
  /\ cur[w] < ShardEnd(w, wn[w])
  /\ ran' = IF wjob[w] = issued THEN [ran EXCEPT ![cur[w]] = @ + 1] ELSE ran
  /\ cur' = [cur EXCEPT ![w] = @ + 1]
  /\ UNCHANGED <<shared, token, caller, wpc, lastGen, wjob, wn>>

FinishShard(w) ==
  /\ wpc[w] = "run"
  /\ cur[w] = ShardEnd(w, wn[w])
  /\ pending' = pending - 1
  /\ Goto(w, "spin")
  /\ UNCHANGED <<generation, jobN, job, shutdown, parked, token, caller, ran,
                 locals>>

-----------------------------------------------------------------------------
CallerStep ==
  \/ PublishJob \/ SetPending \/ BumpGeneration \/ CheckParked
  \/ Unpark \/ UnparkedAll \/ RunOwn \/ OwnDone \/ Return
  \/ DropBump \/ DropJoin

WorkerStep(w) ==
  \/ SeeGeneration(w) \/ BudgetSpent(w)
  \/ AnnouncePark(w) \/ RecheckGeneration(w) \/ RecheckShutdown(w)
  \/ WakeByToken(w) \/ RetractPark(w)
  \/ CheckShutdown(w) \/ FetchJob(w) \/ RunShard(w) \/ FinishShard(w)

Next ==
  /\ UNCHANGED staleLoads
  /\ \/ DispatchNothing
     \/ \E n \in JobSizes : Dispatch(n)
     \/ DropShutdown
     \/ CallerStep
     \/ \E w \in Workers : WorkerStep(w) \/ WakeByTimeout(w)

SafeSpec == Init /\ [][Next]_vars

(* The scheduler runs every thread that can run, and nobody has to call     *)
(* dispatch or drop.                                                        *)
ThreadFairness ==
  /\ WF_vars(CallerStep /\ UNCHANGED staleLoads)
  /\ \A w \in Workers : WF_vars(WorkerStep(w) /\ UNCHANGED staleLoads)

(* With full fences no 10 ms timeout is ever waited for.  Without them the  *)
(* timeouts expire, and a store is not hidden from a polling load for ever  *)
(* (a load that polls `generation` sees a new value in the end).            *)
StaleFairness ==
  \A w \in Workers :
     /\ WF_vars(staleLoads /\ WakeByTimeout(w) /\ UNCHANGED staleLoads)
     /\ SF_vars(staleLoads /\ SeeGeneration(w) /\ UNCHANGED staleLoads)

Spec == SafeSpec /\ ThreadFairness /\ StaleFairness

-----------------------------------------------------------------------------
CallerPhases == {"idle", "publish", "count", "bump", "checkParked", "unpark",
                 "run", "await", "dropBump", "dropUnpark", "closed"}
WorkerPhases == {"spin", "announce", "recheck", "recheckShutdown", "park",
                 "retract", "check", "fetch", "run", "exited"}

TypeOK ==
  /\ staleLoads \in BOOLEAN
  /\ generation \in Nat /\ pending \in 0 .. Lanes - 1
  /\ jobN \in Nat /\ job \in Nat
  /\ shutdown \in BOOLEAN /\ parked \in 0 .. Lanes - 1
  /\ token \in [Workers -> BOOLEAN]
  /\ cpc \in CallerPhases /\ cur0 \in Nat
  /\ size \in Nat /\ issued \in Nat
  /\ ran \in [Indices(size) -> Nat]
  /\ wpc \in [Workers -> WorkerPhases]
  /\ lastGen \in [Workers -> Nat]
  /\ wjob \in [Workers -> Nat]
  /\ wn \in [Workers -> Nat]
  /\ cur \in [Workers -> Nat]

(* `dispatch returns only after every index has been processed', each once. *)
EachIndexOnce == cpc = "idle" => \A i \in Indices(size) : ran[i] = 1

(* The SAFETY argument for the erased closure: a worker that is about to    *)
(* call through the job pointer holds that of the dispatch in progress.     *)
NoDanglingJob ==
  \A w \in Workers : wpc[w] = "run" =>
     /\ wjob[w] = issued /\ wn[w] = size
     /\ cpc \in {"checkParked", "unpark", "run", "await"}

(* No worker misses a generation: it would never do its share of it, and    *)
(* never take its part off `pending'.                                       *)
NoSkippedGeneration ==
  [][\A w \in Workers : lastGen[w]' # lastGen[w] => lastGen[w]' = lastGen[w] + 1]_vars

(* `CANNOT lose a wakeup': a worker asleep in park_timeout, or past its last *)
(* look at the generation, with a newer one posted has its token, or the     *)
(* unpark loop is yet to reach it.                                           *)
NoLostWakeup ==
  ~staleLoads => \A w \in Workers :
     (wpc[w] \in {"recheckShutdown", "park"} /\ generation # lastGen[w]) =>
        \/ token[w]
        \/ cpc = "checkParked"
        \/ cpc \in {"unpark", "dropUnpark"} /\ cur0 <= w

-----------------------------------------------------------------------------
(***************************************************************************)
(* Why the properties hold: the inductive invariant.                       *)
(***************************************************************************)
Waiting   == {"spin", "announce", "recheck", "recheckShutdown", "park", "retract"}
Announced == {"recheck", "recheckShutdown", "park", "retract"}
Preparing == {"publish", "count", "bump"}                (* generation not posted *)
Posted    == {"checkParked", "unpark", "run", "await"}   (* posted, not returned *)
Leaving   == {"dropBump", "dropUnpark", "closed"}

(* The workers that have not yet taken themselves off `pending'. *)
Owing == {w \in Workers : lastGen[w] # generation \/ wpc[w] \in {"check", "fetch", "run"}}

Parking == {w \in Workers : wpc[w] \in Announced}

(* How far lane l has come in its shard of the dispatch in progress. *)
Progress(l) ==
  IF l = 0
  THEN CASE cpc = "run" -> cur0
         [] cpc = "await" -> ShardEnd(0, size)
         [] OTHER -> ShardStart(0, size)
  ELSE CASE wpc[l] = "run" -> cur[l]
         [] wpc[l] # "run" /\ (l \in Owing \/ cpc \in Preparing) -> ShardStart(l, size)
         [] OTHER -> ShardEnd(l, size)

GenerationInv ==
  \A w \in Workers :
     \/ lastGen[w] = generation
     \/ /\ generation = lastGen[w] + 1
        /\ wpc[w] \in Waiting
        /\ cpc \in Posted \cup {"dropUnpark"}

WorkerInv ==
  \A w \in Workers :
     /\ wpc[w] \in {"fetch", "run"} => cpc \in Posted
     /\ wpc[w] = "check" => cpc \in Posted \cup {"dropUnpark"}
     /\ wpc[w] = "run" => /\ wjob[w] = issued /\ wn[w] = size
                          /\ ShardStart(w, size) <= cur[w]
                          /\ cur[w] <= ShardEnd(w, size)
     /\ wpc[w] = "exited" => cpc \in {"dropUnpark", "closed"}

CallerInv ==
  /\ shutdown <=> cpc \in Leaving
  /\ cpc \in {"publish", "count", "bump", "checkParked"} => cur0 = ShardStart(0, size)
  /\ cpc \in {"unpark", "dropUnpark"} => cur0 >= 1
  /\ cpc = "run" => /\ ShardStart(0, size) <= cur0
                    /\ cur0 <= ShardEnd(0, size)
  /\ cpc \in {"count", "bump"} \cup Posted => (Workers = {} \/ (jobN = size /\ job = issued))

PendingInv ==
  /\ cpc = "bump" => pending = Lanes - 1
  /\ cpc \in Posted => pending = Cardinality(Owing)
  /\ cpc \in {"idle", "publish", "count"} \cup Leaving => pending = 0

ParkedInv == parked = Cardinality(Parking)

RanInv ==
  IF cpc \in Preparing \cup Posted
  THEN \A l \in 0 .. Lanes - 1 :
         \A i \in ShardStart(l, size) .. ShardEnd(l, size) - 1 :
            ran[i] = IF i < Progress(l) THEN 1 ELSE 0
  ELSE \A i \in Indices(size) : ran[i] = 1

IInv ==
  /\ TypeOK
  /\ GenerationInv /\ WorkerInv /\ CallerInv
  /\ PendingInv /\ ParkedInv /\ RanInv

-----------------------------------------------------------------------------
Phase ==
  CASE cpc \in {"idle", "closed"} -> cpc
    [] cpc \in {"dropBump", "dropUnpark"} -> "closing"
    [] OTHER -> "busy"

Promise == INSTANCE ParallelFor WITH phase <- Phase

(* The pool keeps the promise of ParallelFor, its progress included.        *)
KeepsPromise == Promise!Spec
=============================================================================
