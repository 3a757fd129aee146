------------------------------ MODULE LruPages ------------------------------
(***************************************************************************)
(* What a KV page allocator with eviction promises: a page belongs to at   *)
(* most one sequence, and the sequence that has to make room is one nobody *)
(* is working on and, of those, the one that was used least recently.      *)
(***************************************************************************)
CONSTANTS Pages, Sequences

VARIABLES
    held,     \* the pages of every sequence, {} for one that has none
    before,   \* <<s, t>>: s was last used before t
    working   \* the sequences that must not be evicted

vars == <<held, before, working>>

Holders == {s \in Sequences : held[s] # {}}
Free == Pages \ UNION {held[s] : s \in Sequences}

Init ==
    /\ held = [s \in Sequences |-> {}]
    /\ before = {}
    /\ working \subseteq Sequences

Without(order, s) == {p \in order : p[1] # s /\ p[2] # s}

(* s becomes the most recent of the holders. *)
MostRecent(order, holders, s) == Without(order, s) \cup {<<t, s>> : t \in holders \ {s}}

Use(s) ==
    /\ s \in Holders
    /\ before' = MostRecent(before, Holders, s)
    /\ UNCHANGED <<held, working>>

Allocate(s) ==
    /\ s \notin Holders
    /\ \E P \in (SUBSET Free) \ {{}} : held' = [held EXCEPT ![s] = P]
    /\ before' = MostRecent(before, Holders, s)
    /\ UNCHANGED working

Release(s) ==
    /\ s \in Holders
    /\ held' = [held EXCEPT ![s] = {}]
    /\ before' = Without(before, s)
    /\ UNCHANGED working

Victim(v) ==
    /\ v \in Holders \ working
    /\ \A s \in Holders \ working : <<s, v>> \notin before

(* v gives up its pages for s. *)
Replace(v, s) ==
    /\ Victim(v) /\ s \notin Holders
    /\ \E P \in (SUBSET (Free \cup held[v])) \ {{}} :
          held' = [held EXCEPT ![v] = {}, ![s] = P]
    /\ before' = MostRecent(Without(before, v), Holders \ {v}, s)
    /\ UNCHANGED working

Work ==
    /\ working' \in SUBSET Sequences
    /\ UNCHANGED <<held, before>>

Next ==
    \/ \E s \in Sequences : Use(s) \/ Allocate(s) \/ Release(s)
    \/ \E v, s \in Sequences : Replace(v, s)
    \/ Work

Spec == Init /\ [][Next]_vars
=============================================================================
