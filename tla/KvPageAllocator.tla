-------------------------- MODULE KvPageAllocator --------------------------
(***************************************************************************)
(* PrefillKvPageAllocator and PrefillSlotMapper (executor/prefill/kv.rs):  *)
(* the page tables of the sequences of a paged KV cache, with eviction of  *)
(* the least recently used sequence.                                       *)
(*                                                                         *)
(* The two hash maps have the same keys as long as they are kept in step,  *)
(* and a page table is never empty: an absent key is <<>> in `active` and  *)
(* 0 in `lru_ticks`.  The set of active sequences that is an argument of   *)
(* allocate_or_evict is the caller's state `working`.  `used` is history:  *)
(* the order of last uses as the calls make it, whatever the ticks say.    *)
(***************************************************************************)
EXTENDS Integers, Sequences, FiniteSets

CONSTANTS NumPages,
          PageTokens,
          SequenceIds,
          Tokens,      \* token counts asked for
          MaxClock     \* bound on lru_clock

ASSUME PagesAssumption ==
    /\ NumPages \in Nat
    /\ PageTokens \in Nat \ {0}
    /\ Tokens \subseteq Nat
    /\ MaxClock \in Nat

VARIABLES
    free_pages, active, lru_clock, lru_ticks,
    used,      \* <<s, t>>: s was last used before t
    working,   \* the sequences the caller is working on
    outcome    \* what the last allocate_or_evict returned and was asked for

allocator == <<free_pages, active, lru_clock, lru_ticks, used>>
vars == <<allocator, working, outcome>>

Pages == 0 .. NumPages - 1
Results == {"none", "allocated", "evicted", "out_of_memory"}
NoOutcome == [result |-> "none", sequence |-> {}, need |-> 0]
Contains(s) == active[s] # <<>>
Elements(q) == {q[i] : i \in DOMAIN q}

TypeOK ==
    /\ free_pages \in Seq(Pages)
    /\ active \in [SequenceIds -> Seq(Pages)]
    /\ lru_clock \in 0 .. MaxClock
    /\ lru_ticks \in [SequenceIds -> 0 .. lru_clock]
    /\ \A s \in SequenceIds : lru_ticks[s] = 0 <=> active[s] = <<>>
    /\ used \subseteq SequenceIds \X SequenceIds
    /\ working \subseteq SequenceIds
    /\ outcome.result \in Results /\ outcome.need \in Nat

(* new: the pages in descending order, so that pop gives the lowest. *)
Init ==
    /\ free_pages = [i \in 1 .. NumPages |-> NumPages - i]
    /\ active = [s \in SequenceIds |-> <<>>]
    /\ lru_clock = 0
    /\ lru_ticks = [s \in SequenceIds |-> 0]
    /\ used = {}
    /\ working = {}
    /\ outcome = NoOutcome

(* Mutant: no page for an empty sequence, which then owns nothing but has  *)
(* a tick.                                                                 *)
PagesForTokensNone(tokens) == (tokens + PageTokens - 1) \div PageTokens

PagesForTokens(tokens) ==
    IF tokens = 0 THEN 1 ELSE (tokens + PageTokens - 1) \div PageTokens

(* The last `need` pages, last first, and what remains.                    *)
PopPages(free, need) == [i \in 1 .. need |-> free[Len(free) + 1 - i]]
PopRest(free, need) == SubSeq(free, 1, Len(free) - need)

(* retain with a set of the pages seen: of equal elements the first stays. *)
FirstOccurrences(q) == {i \in DOMAIN q : \A j \in 1 .. i - 1 : q[j] # q[i]}
Retained(q) ==
    LET kept == FirstOccurrences(q) IN
    [k \in 1 .. Cardinality(kept) |->
        q[CHOOSE i \in kept : Cardinality({j \in kept : j <= i}) = k]]

(* alloc_pages: out of `free`, with the tables `owned` and the ticks.      *)
AllocPages(s, need, free, owned, ticks) ==
    /\ lru_clock' = lru_clock + 1
    /\ free_pages' = PopRest(free, need)
    /\ active' = [owned EXCEPT ![s] = PopPages(free, need)]
    /\ lru_ticks' = [ticks EXCEPT ![s] = lru_clock + 1]

(* Mutant: the pages are dropped, not given back. *)
ReleasePagesLost(free, pages) == free

ReleasePages(free, pages) == Retained(free \o pages)

FreeAfter(s) == ReleasePages(free_pages, active[s])

(* The order of last uses without s, and with s as the latest of those     *)
(* that have pages.                                                        *)
Others(order, s) == {p \in order : p[1] # s /\ p[2] # s}
Latest(order, tables, s) ==
    Others(order, s) \cup {<<t, s>> : t \in {u \in SequenceIds \ {s} : tables[u] # <<>>}}

-----------------------------------------------------------------------------
(* Mutant: the clock advances, but the tick is not stored.                 *)
TouchUnseen(s) ==
    /\ lru_clock < MaxClock
    /\ Contains(s)
    /\ lru_clock' = lru_clock + 1
    /\ used' = Latest(used, active, s)
    /\ outcome' = NoOutcome
    /\ UNCHANGED <<free_pages, active, lru_ticks, working>>

Touch(s) ==
    /\ lru_clock < MaxClock
    /\ Contains(s)
    /\ lru_clock' = lru_clock + 1
    /\ lru_ticks' = [lru_ticks EXCEPT ![s] = lru_clock + 1]
    /\ used' = Latest(used, active, s)
    /\ outcome' = NoOutcome
    /\ UNCHANGED <<free_pages, active, working>>

(* allocate; its two refusals change nothing. *)
Allocate(s) ==
    /\ lru_clock < MaxClock
    /\ ~Contains(s)
    /\ \E tokens \in Tokens :
        LET need == PagesForTokens(tokens) IN
        /\ Len(free_pages) >= need
        /\ AllocPages(s, need, free_pages, active, lru_ticks)
    /\ used' = Latest(used, active, s)
    /\ outcome' = NoOutcome
    /\ UNCHANGED working

Evictable(s) == {t \in SequenceIds : lru_ticks[t] # 0 /\ t \notin working /\ t # s}

Oldest(candidates) ==
    {v \in candidates : \A t \in candidates : lru_ticks[v] <= lru_ticks[t]}

Returns(result, s, need) ==
    outcome' = [result |-> result, sequence |-> s, need |-> need]

(* The three ends of allocate_or_evict, and its refusal of a sequence that *)
(* already has pages.                                                      *)
AllocateFromFree(s, need) ==
    /\ Len(free_pages) >= need
    /\ AllocPages(s, need, free_pages, active, lru_ticks)
    /\ used' = Latest(used, active, s)
    /\ Returns("allocated", s, need)

NoVictim(s, need) ==
    /\ Len(free_pages) < need /\ Evictable(s) = {}
    /\ Returns("out_of_memory", s, need)
    /\ UNCHANGED allocator

Evict(s, need) ==
    /\ Len(free_pages) < need
    /\ \E v \in Oldest(Evictable(s)) :
        LET freed == FreeAfter(v)
            owned == [active EXCEPT ![v] = <<>>]
            ticks == [lru_ticks EXCEPT ![v] = 0] IN
        IF Len(freed) < need
        THEN /\ free_pages' = freed /\ active' = owned /\ lru_ticks' = ticks
             /\ used' = Others(used, v)
             /\ Returns("out_of_memory", s, need)
             /\ UNCHANGED lru_clock
        ELSE /\ AllocPages(s, need, freed, owned, ticks)
             /\ used' = Latest(Others(used, v), owned, s)
             /\ Returns("evicted", s, need)

AllocateOrEvict(s) ==
    /\ lru_clock < MaxClock
    /\ \E tokens \in Tokens :
        LET need == PagesForTokens(tokens) IN
        IF Contains(s)
        THEN Returns("out_of_memory", s, need) /\ UNCHANGED allocator
        ELSE AllocateFromFree(s, need) \/ NoVictim(s, need) \/ Evict(s, need)
    /\ UNCHANGED working

(* release_sequence, and release with the pages the sequence now has; a    *)
(* stale table is refused.                                                 *)
Release(s) ==
    /\ Contains(s)
    /\ free_pages' = FreeAfter(s)
    /\ active' = [active EXCEPT ![s] = <<>>]
    /\ lru_ticks' = [lru_ticks EXCEPT ![s] = 0]
    /\ used' = Others(used, s)
    /\ outcome' = NoOutcome
    /\ UNCHANGED <<lru_clock, working>>

(* The caller turns to other sequences. *)
Work ==
    /\ working' \in SUBSET SequenceIds
    /\ outcome' = NoOutcome
    /\ UNCHANGED allocator

Next ==
    \/ \E s \in SequenceIds : Touch(s) \/ Allocate(s) \/ AllocateOrEvict(s) \/ Release(s)
    \/ Work

Spec == Init /\ [][Next]_vars

-----------------------------------------------------------------------------
(* PrefillSlotMapper::physical_slot, for a position its table covers.      *)
(* Mutant: the offset is taken from the position in the sequence. *)
PhysicalSlotShifted(s, position) ==
    active[s][position \div PageTokens + 1] * PageTokens + position

PhysicalSlot(s, position) ==
    active[s][position \div PageTokens + 1] * PageTokens + (position % PageTokens)

Positions(s) == 0 .. Len(active[s]) * PageTokens - 1

Distinct(q) == \A i, j \in DOMAIN q : i # j => q[i] # q[j]

Conserved(free, tables) ==
    /\ Distinct(free)
    /\ \A s \in SequenceIds : Distinct(tables[s])
    /\ \A s \in SequenceIds : Elements(tables[s]) \cap Elements(free) = {}
    /\ \A s, t \in SequenceIds : s # t => Elements(tables[s]) \cap Elements(tables[t]) = {}
    /\ Elements(free) \cup UNION {Elements(tables[s]) : s \in SequenceIds} = Pages

(* Properties *)

(* Every page is on the free list or in one table, once: nothing leaks and *)
(* nothing is handed out twice over any history of allocations, evictions  *)
(* that do not suffice, and releases.                                      *)
PagesConserved == Conserved(free_pages, active)

(* No two positions, of one sequence or of two, share a KV slot.           *)
SlotsIsolated ==
    \A s, t \in SequenceIds : \A p \in Positions(s), q \in Positions(t) :
        <<s, p>> # <<t, q>> => PhysicalSlot(s, p) # PhysicalSlot(t, q)

(* The pages of the sequences. *)
Held(tables) == [s \in SequenceIds |-> Elements(tables[s])]

Lru == INSTANCE LruPages WITH
    Sequences <- SequenceIds, held <- Held(active), before <- used

(* The allocator is an LRU allocator that spares the working sequences:    *)
(* whoever loses its pages to another sequence is the least recently used  *)
(* of those the caller is not working on.  The order of uses is that of the*)
(* calls, so that it fails if a call forgets to update the ticks (touch,   *)
(* alloc_pages) by which allocate_or_evict chooses.                        *)
ImplementsLru == Lru!Spec
=============================================================================
