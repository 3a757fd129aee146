---------------------------- MODULE PinnedArena ----------------------------
(***************************************************************************)
(* PinnedArena (cuda/host_arena.rs): one host allocation from which the    *)
(* rayon workers of prefetch_host_nvfp4_pairs_par take the ranges their    *)
(* weights are read into.  `used` is one atomic counter; a worker adds to  *)
(* it and, when the sum does not fit, stores the old value back in a       *)
(* second step.  When the load is over the used prefix is page-locked.     *)
(*                                                                         *)
(* Its names carry the component's, so that the module of the proofs can   *)
(* extend it together with StagingPool.                                    *)
(***************************************************************************)
EXTENDS Integers

CONSTANTS Loaders,   \* the workers
          Sizes,     \* bytes of packed and scales of a projection
          Capacity,
          Projections  \* bound on the number of calls of reserve

ASSUME ArenaAssumption ==
    /\ Sizes \subseteq Nat \ {0}
    /\ Capacity \in Nat
    /\ Projections \in Nat

VARIABLES
    used,
    started,  \* calls of reserve so far
    pending,  \* the failed reservation a worker has to roll back, or NoRange
    claims,   \* the ranges handed out
    failed,   \* some call has returned the overflow error
    pinned    \* the end of the page-locked prefix, or Unpinned

arenaVars == <<used, started, pending, claims, failed, pinned>>

ByteRange == [start : Nat, size : Sizes]
NoRange == [start |-> 0, size |-> 0]
Unpinned == -1

End(r) == r.start + r.size

ArenaTypeOK ==
    /\ used \in Nat
    /\ started \in 0 .. Projections
    /\ pending \in [Loaders -> ByteRange \cup {NoRange}]
    /\ claims \subseteq ByteRange
    /\ failed \in BOOLEAN
    /\ pinned \in Nat \cup {Unpinned}

ArenaInit ==
    /\ used = 0 /\ started = 0
    /\ pending = [w \in Loaders |-> NoRange]
    /\ claims = {} /\ failed = FALSE /\ pinned = Unpinned

(* Mutant: fetch_add as a load and a store, seen half way: another worker  *)
(* has read the same value.                                                *)
FetchAddTorn(n) == used' \in {used, used + n}

FetchAdd(n) == used' = used + n

(* reserve up to its comparison, which reads nothing that is shared: the   *)
(* range is the caller's, or the addition has to be undone.                *)
Reserve(w) ==
    /\ pinned = Unpinned /\ pending[w] = NoRange /\ started < Projections
    /\ started' = started + 1
    /\ \E n \in Sizes :
        LET range == [start |-> used, size |-> n] IN
        /\ FetchAdd(n)
        /\ IF End(range) > Capacity
           THEN /\ pending' = [pending EXCEPT ![w] = range]
                /\ UNCHANGED claims
           ELSE /\ claims' = claims \cup {range}
                /\ UNCHANGED pending
    /\ UNCHANGED <<failed, pinned>>

(* Mutant: the undo subtracts from the old value. *)
RolledBackTwice(range) == range.start - range.size

(* The value the failed call stores. *)
RolledBack(range) == range.start

(* The store of a failed reserve, and its error. *)
RollBack(w) ==
    /\ pending[w] # NoRange
    /\ used' = RolledBack(pending[w])
    /\ pending' = [pending EXCEPT ![w] = NoRange]
    /\ failed' = TRUE
    /\ UNCHANGED <<started, claims, pinned>>

Quiet == \A w \in Loaders : pending[w] = NoRange

(* Mutant: the prefix is rounded down. *)
PinnedPrefixShort == used - 1

(* What pin_now registers. *)
PinnedPrefix == used

(* pin_now, after every worker has returned.  A load that failed ends      *)
(* before it.                                                              *)
Pin ==
    /\ Quiet /\ ~failed /\ used > 0 /\ pinned = Unpinned
    /\ pinned' = PinnedPrefix
    /\ UNCHANGED <<used, started, pending, claims, failed>>

ArenaNext == Pin \/ \E w \in Loaders : Reserve(w) \/ RollBack(w)

ArenaSpec == ArenaInit /\ [][ArenaNext]_arenaVars

-----------------------------------------------------------------------------
(* Properties *)

(* "reserve exclusively claimed [offset, offset+len)", the SAFETY argument *)
(* of alloc_and_fill and of the loader: the ranges handed out lie in the   *)
(* arena and no two share a byte, whatever failed and was rolled back in   *)
(* between.                                                                *)
ClaimsDisjoint ==
    /\ \A r \in claims : End(r) <= Capacity
    /\ \A r, q \in claims : r # q => End(r) <= q.start \/ End(q) <= r.start

(* Every byte a transfer will read is page-locked: the prefix that is      *)
(* registered reaches to the end of the last range.                        *)
PinCoversClaims ==
    pinned # Unpinned => \A r \in claims : End(r) <= pinned
=============================================================================
