---------------------------- MODULE ParallelFor ----------------------------
(***************************************************************************)
(* What a caller of the CPU worker pool is promised by                     *)
(* crates/aegisllm-cpu/src/persistent_pool.rs: `dispatch(n, f)` calls f(i) *)
(* once for every i in [0, n), in any order and on any thread, and returns *)
(* only when all the calls are over; dropping the pool ends it for good.   *)
(*                                                                         *)
(* `size` and `ran` describe the latest call, also after it has returned.  *)
(***************************************************************************)
EXTENDS Integers

CONSTANT JobSizes      \* the values of n a caller passes, naturals

VARIABLES
  phase,   \* "idle", "busy" (inside dispatch), "closing" (inside drop), "closed"
  size,    \* n of the latest dispatch
  ran      \* ran[i]: how often f(i) has been called for the latest dispatch

vars == <<phase, size, ran>>

Indices(n) == 0 .. n - 1

Init ==
  /\ phase = "idle"
  /\ size = 0
  /\ ran = [i \in Indices(0) |-> 0]

(* The pool is handed n calls; none has been made. *)
Call(n) ==
  /\ phase = "idle"
  /\ phase' = "busy"
  /\ size' = n
  /\ ran' = [i \in Indices(n) |-> 0]

(* dispatch(0, f) returns at once. *)
CallNothing ==
  /\ phase = "idle"
  /\ size' = 0
  /\ ran' = [i \in Indices(0) |-> 0]
  /\ UNCHANGED phase

(* Some thread makes a call that nobody has made yet. *)
Run(i) ==
  /\ phase = "busy"
  /\ ran[i] = 0
  /\ ran' = [ran EXCEPT ![i] = 1]
  /\ UNCHANGED <<phase, size>>

Return ==
  /\ phase = "busy"
  /\ \A i \in DOMAIN ran : ran[i] = 1
  /\ phase' = "idle"
  /\ UNCHANGED <<size, ran>>

Drop ==
  /\ phase = "idle"
  /\ phase' = "closing"
  /\ UNCHANGED <<size, ran>>

Joined ==
  /\ phase = "closing"
  /\ phase' = "closed"
  /\ UNCHANGED <<size, ran>>

Next ==
  \/ \E n \in JobSizes : Call(n)
  \/ CallNothing
  \/ \E i \in DOMAIN ran : Run(i)
  \/ Return
  \/ Drop
  \/ Joined

(* Whoever calls dispatch or drop gets the answer: the calls a dispatch is *)
(* made of happen, it returns, and drop joins its workers.  Nobody has to  *)
(* call.                                                                   *)
Fairness == WF_vars((\E i \in DOMAIN ran : Run(i)) \/ Return \/ Joined)

SafeSpec == Init /\ [][Next]_vars
Spec == SafeSpec /\ Fairness
============================================================================
