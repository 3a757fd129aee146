---------------------- MODULE KvPageAllocator_proofs ----------------------
(***************************************************************************)
(* For every number of pages, page size and set of sequences, the page     *)
(* allocator neither loses a page nor hands one out twice, and it is an    *)
(* LRU allocator (LruPages).                                               *)
(*                                                                         *)
(* The data part is three lemmas about the free list: popping splits it in *)
(* two disjoint lists, the retain of release_pages leaves a list without   *)
(* duplicates as it is, and appending a table gives such a list.  The      *)
(* invariant adds to the conservation of pages that no two ticks are       *)
(* equal, without which "the oldest" would not be one sequence, and that   *)
(* the order of the ticks is the order of last uses.                       *)
(***************************************************************************)
EXTENDS KvPageAllocator, FiniteSetTheorems, SequenceTheorems, TLAPS

(* What the four fields of the allocator have to do with each other: the   *)
(* pages are conserved, the two maps have the same keys, no tick is used   *)
(* twice.                                                                  *)
Consistent(free, tables, ticks, clock) ==
    /\ free \in Seq(Pages)
    /\ tables \in [SequenceIds -> Seq(Pages)]
    /\ clock \in 0 .. MaxClock
    /\ ticks \in [SequenceIds -> 0 .. clock]
    /\ \A s \in SequenceIds : ticks[s] = 0 <=> tables[s] = <<>>
    /\ \A s, t \in SequenceIds : ticks[s] # 0 /\ ticks[s] = ticks[t] => s = t
    /\ Conserved(free, tables)

(* The order of the ticks. *)
UsedBefore(ticks) ==
    {p \in SequenceIds \X SequenceIds : ticks[p[1]] # 0 /\ ticks[p[1]] < ticks[p[2]]}

(* The inductive invariant. *)
KInv ==
    /\ Consistent(free_pages, active, lru_ticks, lru_clock)
    /\ used = UsedBefore(lru_ticks)
    /\ working \subseteq SequenceIds
    /\ outcome.result \in Results /\ outcome.need \in Nat

-----------------------------------------------------------------------------
(* Lists of pages *)

(* Popping splits the free list. *)
LEMMA PopSplits ==
    ASSUME NEW free \in Seq(Pages), Distinct(free), NEW need \in 1 .. Len(free)
    PROVE  /\ PopPages(free, need) \in Seq(Pages)
           /\ PopRest(free, need) \in Seq(Pages)
           /\ PopPages(free, need) # <<>>
           /\ Distinct(PopPages(free, need)) /\ Distinct(PopRest(free, need))
           /\ Elements(PopPages(free, need)) \cap Elements(PopRest(free, need)) = {}
           /\ Elements(PopPages(free, need)) \cup Elements(PopRest(free, need)) = Elements(free)
<1> DEFINE n == Len(free)
<1> DEFINE popped == PopPages(free, need)
<1> DEFINE rest == PopRest(free, need)
<1>1. n \in Nat /\ need \in Nat /\ need >= 1 /\ need <= n /\ DOMAIN free = 1 .. n
  OBVIOUS
<1>2. \A i \in 1 .. n : free[i] \in Pages
  BY <1>1
<1>3. /\ DOMAIN popped = 1 .. need
      /\ \A i \in 1 .. need : n + 1 - i \in 1 .. n /\ popped[i] = free[n + 1 - i]
  BY <1>1 DEF PopPages
<1>4. popped \in Seq(Pages) /\ Len(popped) = need
  <2>1. \A i \in 1 .. need : popped[i] \in Pages
    BY <1>2, <1>3
  <2>2. popped \in [1 .. need -> Pages]
    BY <1>3, <2>1 DEF PopPages
  <2> QED BY <1>1, <2>2
<1>5. /\ rest \in Seq(Pages) /\ Len(rest) = n - need /\ DOMAIN rest = 1 .. n - need
      /\ \A i \in 1 .. n - need : i \in 1 .. n /\ rest[i] = free[i]
  <2>1. rest = SubSeq(free, 1, n - need) /\ n - need \in 0 .. n
    BY <1>1 DEF PopRest
  <2>2. rest \in Seq(Pages) /\ Len(rest) = n - need
    <3>1. \A i \in 1 .. n - need : free[i] \in Pages
      BY <1>1, <1>2
    <3> HIDE DEF n, rest
    <3> QED BY <1>1, <2>1, <3>1, SubSeqProperties
  <2>3. \A i \in 1 .. n - need : i \in 1 .. n /\ rest[i] = free[i]
    BY <1>1, <2>1
  <2> QED BY <1>1, <2>2, <2>3
<1>6. popped # <<>>
  BY <1>1, <1>4
<1>7. Distinct(popped)
  <2>1. ASSUME NEW i \in 1 .. need, NEW j \in 1 .. need, i # j PROVE popped[i] # popped[j]
    <3>1. n + 1 - i # n + 1 - j
      BY <1>1, <2>1
    <3> QED BY <1>1, <1>3, <3>1 DEF Distinct
  <2> QED BY <1>3, <2>1 DEF Distinct
<1>8. Distinct(rest)
  BY <1>1, <1>5 DEF Distinct
<1>9. Elements(popped) \cap Elements(rest) = {}
  <2>1. ASSUME NEW i \in 1 .. need, NEW j \in 1 .. n - need PROVE popped[i] # rest[j]
    <3>1. n + 1 - i # j
      BY <1>1
    <3>2. n + 1 - i \in DOMAIN free /\ j \in DOMAIN free
      BY <1>1, <1>3
    <3>3. \A a \in DOMAIN free, b \in DOMAIN free : a # b => free[a] # free[b]
      BY DEF Distinct
    <3>4. free[n + 1 - i] # free[j]
      BY <3>1, <3>2, <3>3, Zenon
    <3> QED BY <1>3, <1>5, <3>4
  <2> QED BY <1>3, <1>5, <2>1 DEF Elements
<1>10. Elements(popped) \cup Elements(rest) = Elements(free)
  <2>1. ASSUME NEW i \in 1 .. n PROVE free[i] \in Elements(popped) \cup Elements(rest)
    <3>1. CASE i <= n - need
      <4>1. i \in DOMAIN rest /\ rest[i] = free[i]
        BY <1>1, <1>5, <3>1
      <4> QED BY <4>1 DEF Elements
    <3>2. CASE ~(i <= n - need)
      <4>1. n + 1 - i \in 1 .. need /\ n + 1 - (n + 1 - i) = i
        BY <1>1, <3>2
      <4>2. n + 1 - i \in DOMAIN popped /\ popped[n + 1 - i] = free[i]
        BY <1>3, <4>1
      <4> QED BY <4>2 DEF Elements
    <3> QED BY <3>1, <3>2
  <2>2. Elements(free) \subseteq Elements(popped) \cup Elements(rest)
    BY <1>1, <2>1 DEF Elements
  <2>3. Elements(popped) \subseteq Elements(free)
    BY <1>1, <1>3 DEF Elements
  <2>4. Elements(rest) \subseteq Elements(free)
    BY <1>1, <1>5 DEF Elements
  <2> QED BY <2>2, <2>3, <2>4
<1> QED BY <1>4, <1>5, <1>6, <1>7, <1>8, <1>9, <1>10

(* retain changes nothing in a list without duplicates. *)
LEMMA RetainedSame ==
    ASSUME NEW q \in Seq(Pages), Distinct(q)
    PROVE  Retained(q) = q
<1> DEFINE n == Len(q)
<1>1. n \in Nat /\ DOMAIN q = 1 .. n
  OBVIOUS
<1>2. FirstOccurrences(q) = 1 .. n
  <2>1. ASSUME NEW i \in 1 .. n, NEW j \in 1 .. i - 1 PROVE q[j] # q[i]
    <3>1. j \in DOMAIN q /\ i \in DOMAIN q /\ j # i
      BY <1>1
    <3> QED BY <3>1 DEF Distinct
  <2> QED BY <1>1, <2>1 DEF FirstOccurrences
<1>3. Cardinality(1 .. n) = n
  BY <1>1, FS_Interval
<1>4. ASSUME NEW k \in 1 .. n
      PROVE  (CHOOSE i \in 1 .. n : Cardinality({j \in 1 .. n : j <= i}) = k) = k
  <2>1. \A i \in 1 .. n : {j \in 1 .. n : j <= i} = 1 .. i
    BY <1>1
  <2>2. \A i \in 1 .. n : Cardinality(1 .. i) = i
    BY <1>1, FS_Interval
  <2>3. \A i \in 1 .. n : Cardinality({j \in 1 .. n : j <= i}) = i
    BY <2>1, <2>2
  <2> QED BY <2>3
<1>5. Retained(q) = [k \in 1 .. n |-> q[k]]
  <2>1. Retained(q) = [k \in 1 .. Cardinality(1 .. n) |->
                          q[CHOOSE i \in 1 .. n : Cardinality({j \in 1 .. n : j <= i}) = k]]
    BY <1>2 DEF Retained
  <2>2. Retained(q) = [k \in 1 .. n |->
                          q[CHOOSE i \in 1 .. n : Cardinality({j \in 1 .. n : j <= i}) = k]]
    BY <1>3, <2>1
  <2> QED BY <1>4, <2>2
<1> QED BY <1>1, <1>5

(* What release_pages makes of disjoint lists. *)
LEMMA ReleasedPages ==
    ASSUME NEW free \in Seq(Pages), NEW pages \in Seq(Pages),
           Distinct(free), Distinct(pages), Elements(pages) \cap Elements(free) = {}
    PROVE  /\ ReleasePages(free, pages) \in Seq(Pages)
           /\ Distinct(ReleasePages(free, pages))
           /\ Elements(ReleasePages(free, pages)) = Elements(free) \cup Elements(pages)
           /\ Len(ReleasePages(free, pages)) = Len(free) + Len(pages)
<1> DEFINE both == free \o pages
<1> DEFINE n == Len(free)
<1> DEFINE m == Len(pages)
<1>1. /\ n \in Nat /\ m \in Nat /\ DOMAIN free = 1 .. n /\ DOMAIN pages = 1 .. m
      /\ both \in Seq(Pages) /\ Len(both) = n + m /\ DOMAIN both = 1 .. n + m
  OBVIOUS
<1>2. \A i \in 1 .. n : both[i] = free[i]
  OBVIOUS
<1>3. \A i \in 1 .. m : both[n + i] = pages[i]
  OBVIOUS
<1>4. \A i \in 1 .. n + m : i \in 1 .. n \/ (i - n \in 1 .. m /\ i = n + (i - n))
  BY <1>1
<1>5. Distinct(both)
  <2>1. ASSUME NEW i \in 1 .. n + m, NEW j \in 1 .. n + m, i < j PROVE both[i] # both[j]
    <3>1. CASE j \in 1 .. n
      <4>1. i \in 1 .. n
        BY <1>1, <2>1, <3>1
      <4> QED BY <1>1, <1>2, <2>1, <3>1, <4>1 DEF Distinct
    <3>2. CASE i \in 1 .. n /\ j - n \in 1 .. m /\ j = n + (j - n)
      <4>1. both[i] = free[i] /\ both[j] = pages[j - n]
        BY <1>2, <1>3, <3>2
      <4>2. free[i] \in Elements(free) /\ pages[j - n] \in Elements(pages)
        BY <1>1, <3>2 DEF Elements
      <4> QED BY <4>1, <4>2
    <3>3. CASE ~(i \in 1 .. n) /\ ~(j \in 1 .. n)
      <4>1. /\ i - n \in 1 .. m /\ i = n + (i - n) /\ j - n \in 1 .. m /\ j = n + (j - n)
            /\ i - n # j - n
        BY <1>1, <1>4, <2>1, <3>3
      <4>2. both[i] = pages[i - n] /\ both[j] = pages[j - n]
        BY <1>3, <4>1
      <4> QED BY <1>1, <4>1, <4>2 DEF Distinct
    <3> QED BY <1>4, <3>1, <3>2, <3>3
  <2>2. \A i, j \in 1 .. n + m : i # j => both[i] # both[j]
    BY <1>1, <2>1
  <2> QED BY <1>1, <2>2 DEF Distinct
<1>6. ReleasePages(free, pages) = both
  BY <1>1, <1>5, RetainedSame DEF ReleasePages
<1>7. Elements(both) = Elements(free) \cup Elements(pages)
  <2>1. \A i \in 1 .. n : i \in 1 .. n + m
    BY <1>1
  <2>2. \A i \in 1 .. m : n + i \in 1 .. n + m
    BY <1>1
  <2>3. Elements(free) \cup Elements(pages) \subseteq Elements(both)
    BY <1>1, <1>2, <1>3, <2>1, <2>2 DEF Elements
  <2>4. \A i \in 1 .. n + m : both[i] \in Elements(free) \cup Elements(pages)
    BY <1>1, <1>2, <1>3, <1>4 DEF Elements
  <2> QED BY <1>1, <2>3, <2>4 DEF Elements
<1> QED BY <1>1, <1>5, <1>6, <1>7

-----------------------------------------------------------------------------
(* The allocator's steps *)

(* Giving popped pages to a sequence without any conserves the pages. *)
LEMMA AllocConserves ==
    ASSUME NEW free \in Seq(Pages), NEW tables \in [SequenceIds -> Seq(Pages)],
           Conserved(free, tables),
           NEW s \in SequenceIds, tables[s] = <<>>, NEW need \in 1 .. Len(free)
    PROVE  Conserved(PopRest(free, need), [tables EXCEPT ![s] = PopPages(free, need)])
<1> DEFINE popped == PopPages(free, need)
<1> DEFINE rest == PopRest(free, need)
<1> DEFINE after == [tables EXCEPT ![s] = popped]
<1>1. Distinct(free)
  BY DEF Conserved
<1>2. /\ Distinct(popped) /\ Distinct(rest)
      /\ Elements(popped) \cap Elements(rest) = {}
      /\ Elements(popped) \cup Elements(rest) = Elements(free)
  BY <1>1, PopSplits
<1>3. /\ after[s] = popped
      /\ \A t \in SequenceIds : t # s => after[t] = tables[t]
  OBVIOUS
<1>4. Elements(tables[s]) = {}
  BY DEF Elements
<1> HIDE DEF popped, rest, after
<1>5. \A t \in SequenceIds : Distinct(after[t])
  BY <1>2, <1>3 DEF Conserved
<1>6. \A t \in SequenceIds : Elements(after[t]) \cap Elements(rest) = {}
  BY <1>2, <1>3 DEF Conserved
<1>7. \A t, u \in SequenceIds : t # u => Elements(after[t]) \cap Elements(after[u]) = {}
  BY <1>2, <1>3 DEF Conserved
<1>8. Elements(rest) \cup UNION {Elements(after[t]) : t \in SequenceIds} = Pages
  <2>1. UNION {Elements(after[t]) : t \in SequenceIds} =
            Elements(popped) \cup UNION {Elements(tables[t]) : t \in SequenceIds}
    BY <1>3, <1>4
  <2> QED BY <1>2, <2>1 DEF Conserved
<1> QED BY <1>2, <1>5, <1>6, <1>7, <1>8 DEF Conserved, popped, rest, after

(* Taking a sequence's table back conserves the pages. *)
LEMMA ReleaseConserves ==
    ASSUME NEW free \in Seq(Pages), NEW tables \in [SequenceIds -> Seq(Pages)],
           Conserved(free, tables), NEW s \in SequenceIds
    PROVE  /\ ReleasePages(free, tables[s]) \in Seq(Pages)
           /\ Elements(ReleasePages(free, tables[s])) = Elements(free) \cup Elements(tables[s])
           /\ Conserved(ReleasePages(free, tables[s]), [tables EXCEPT ![s] = <<>>])
<1> DEFINE freed == ReleasePages(free, tables[s])
<1> DEFINE after == [tables EXCEPT ![s] = <<>>]
<1>1. /\ freed \in Seq(Pages) /\ Distinct(freed)
      /\ Elements(freed) = Elements(free) \cup Elements(tables[s])
  <2>1. /\ Distinct(free) /\ Distinct(tables[s])
        /\ Elements(tables[s]) \cap Elements(free) = {}
    BY DEF Conserved
  <2> QED BY <2>1, ReleasedPages
<1>2. /\ after[s] = <<>>
      /\ \A t \in SequenceIds : t # s => after[t] = tables[t]
  OBVIOUS
<1>3. Elements(after[s]) = {} /\ Distinct(after[s])
  BY <1>2 DEF Elements, Distinct
<1> HIDE DEF freed, after
<1>4. \A t \in SequenceIds : Distinct(after[t])
  BY <1>2, <1>3 DEF Conserved
<1>5. \A t \in SequenceIds : Elements(after[t]) \cap Elements(freed) = {}
  BY <1>1, <1>2, <1>3 DEF Conserved
<1>6. \A t, u \in SequenceIds : t # u => Elements(after[t]) \cap Elements(after[u]) = {}
  BY <1>2, <1>3 DEF Conserved
<1>7. Elements(freed) \cup UNION {Elements(after[t]) : t \in SequenceIds} = Pages
  <2>1. Elements(tables[s]) \cup UNION {Elements(after[t]) : t \in SequenceIds} =
            UNION {Elements(tables[t]) : t \in SequenceIds}
    BY <1>2, <1>3
  <2> QED BY <1>1, <2>1 DEF Conserved
<1> QED BY <1>1, <1>4, <1>5, <1>6, <1>7 DEF Conserved, freed, after

(* A new sequence with the next tick keeps the fields consistent. *)
LEMMA AllocConsistent ==
    ASSUME NEW free, NEW tables, NEW ticks, NEW clock, Consistent(free, tables, ticks, clock),
           NEW s \in SequenceIds, tables[s] = <<>>, NEW need \in 1 .. Len(free),
           clock < MaxClock
    PROVE  Consistent(PopRest(free, need), [tables EXCEPT ![s] = PopPages(free, need)],
                      [ticks EXCEPT ![s] = clock + 1], clock + 1)
<1> DEFINE popped == PopPages(free, need)
<1> DEFINE rest == PopRest(free, need)
<1> DEFINE tables1 == [tables EXCEPT ![s] = popped]
<1> DEFINE ticks1 == [ticks EXCEPT ![s] = clock + 1]
<1>1. /\ free \in Seq(Pages) /\ tables \in [SequenceIds -> Seq(Pages)]
      /\ clock \in 0 .. MaxClock /\ ticks \in [SequenceIds -> 0 .. clock]
      /\ Conserved(free, tables)
  BY DEF Consistent
<1>2. rest \in Seq(Pages) /\ popped \in Seq(Pages) /\ popped # <<>>
  BY <1>1, PopSplits DEF Conserved
<1>3. Conserved(rest, tables1)
  BY <1>1, AllocConserves
<1> HIDE DEF popped, rest
<1>4. clock \in Nat /\ clock + 1 \in 0 .. MaxClock /\ clock + 1 # 0
  BY <1>1, PagesAssumption
<1>5. /\ ticks1[s] = clock + 1 /\ tables1[s] = popped
      /\ \A t \in SequenceIds : t # s => ticks1[t] = ticks[t] /\ tables1[t] = tables[t]
      /\ \A t \in SequenceIds : ticks[t] \in 0 .. clock /\ ticks[t] # clock + 1
  BY <1>1, <1>4
<1>6. tables1 \in [SequenceIds -> Seq(Pages)]
  BY <1>1, <1>2
<1>7. ticks1 \in [SequenceIds -> 0 .. clock + 1]
  <2>1. \A t \in SequenceIds : ticks1[t] \in 0 .. clock + 1
    BY <1>4, <1>5
  <2> QED BY <1>1, <2>1
<1> HIDE DEF tables1, ticks1
<1>8. \A t \in SequenceIds : ticks1[t] = 0 <=> tables1[t] = <<>>
  BY <1>2, <1>4, <1>5 DEF Consistent
<1>9. \A t, u \in SequenceIds : ticks1[t] # 0 /\ ticks1[t] = ticks1[u] => t = u
  BY <1>4, <1>5 DEF Consistent
<1> QED BY <1>2, <1>3, <1>4, <1>6, <1>7, <1>8, <1>9 DEF Consistent, popped, rest, tables1, ticks1

(* So does the removal of a sequence. *)
LEMMA ReleaseConsistent ==
    ASSUME NEW free, NEW tables, NEW ticks, NEW clock, Consistent(free, tables, ticks, clock),
           NEW s \in SequenceIds
    PROVE  Consistent(ReleasePages(free, tables[s]), [tables EXCEPT ![s] = <<>>],
                      [ticks EXCEPT ![s] = 0], clock)
<1> DEFINE freed == ReleasePages(free, tables[s])
<1> DEFINE tables1 == [tables EXCEPT ![s] = <<>>]
<1> DEFINE ticks1 == [ticks EXCEPT ![s] = 0]
<1>1. /\ free \in Seq(Pages) /\ tables \in [SequenceIds -> Seq(Pages)]
      /\ clock \in 0 .. MaxClock /\ ticks \in [SequenceIds -> 0 .. clock]
      /\ Conserved(free, tables)
  BY DEF Consistent
<1>2. freed \in Seq(Pages) /\ Conserved(freed, tables1)
  BY <1>1, ReleaseConserves
<1>3. /\ ticks1[s] = 0 /\ tables1[s] = <<>>
      /\ \A t \in SequenceIds : t # s => ticks1[t] = ticks[t] /\ tables1[t] = tables[t]
  BY <1>1
<1>4. tables1 \in [SequenceIds -> Seq(Pages)]
  <2>1. <<>> \in Seq(Pages)
    OBVIOUS
  <2> QED BY <1>1, <2>1
<1>5. ticks1 \in [SequenceIds -> 0 .. clock]
  BY <1>1, PagesAssumption
<1> HIDE DEF freed, tables1, ticks1
<1>6. \A t \in SequenceIds : ticks1[t] = 0 <=> tables1[t] = <<>>
  BY <1>3 DEF Consistent
<1>7. \A t, u \in SequenceIds : ticks1[t] # 0 /\ ticks1[t] = ticks1[u] => t = u
  BY <1>3 DEF Consistent
<1> QED BY <1>1, <1>2, <1>4, <1>5, <1>6, <1>7 DEF Consistent, freed, tables1, ticks1

(* And a touch. *)
LEMMA TouchConsistent ==
    ASSUME NEW free, NEW tables, NEW ticks, NEW clock, Consistent(free, tables, ticks, clock),
           NEW s \in SequenceIds, tables[s] # <<>>, clock < MaxClock
    PROVE  Consistent(free, tables, [ticks EXCEPT ![s] = clock + 1], clock + 1)
<1> DEFINE ticks1 == [ticks EXCEPT ![s] = clock + 1]
<1>1. /\ free \in Seq(Pages) /\ tables \in [SequenceIds -> Seq(Pages)]
      /\ clock \in 0 .. MaxClock /\ ticks \in [SequenceIds -> 0 .. clock]
      /\ Conserved(free, tables)
  BY DEF Consistent
<1>2. clock \in Nat /\ clock + 1 \in 0 .. MaxClock /\ clock + 1 # 0
  BY <1>1, PagesAssumption
<1>3. /\ ticks1[s] = clock + 1
      /\ \A t \in SequenceIds : t # s => ticks1[t] = ticks[t]
      /\ \A t \in SequenceIds : ticks[t] \in 0 .. clock /\ ticks[t] # clock + 1
  BY <1>1, <1>2
<1>4. ticks1 \in [SequenceIds -> 0 .. clock + 1]
  <2>1. \A t \in SequenceIds : ticks1[t] \in 0 .. clock + 1
    BY <1>2, <1>3
  <2> QED BY <1>1, <2>1
<1> HIDE DEF ticks1
<1>5. \A t \in SequenceIds : ticks1[t] = 0 <=> tables[t] = <<>>
  BY <1>2, <1>3 DEF Consistent
<1>6. \A t, u \in SequenceIds : ticks1[t] # 0 /\ ticks1[t] = ticks1[u] => t = u
  BY <1>2, <1>3 DEF Consistent
<1> QED BY <1>1, <1>2, <1>4, <1>5, <1>6 DEF Consistent, ticks1

(* Every sequence is given at least one page. *)
LEMMA NeedPositive ==
    ASSUME NEW tokens \in Tokens
    PROVE  PagesForTokens(tokens) \in Nat /\ PagesForTokens(tokens) >= 1
<1>1. tokens \in Nat /\ PageTokens \in Nat /\ PageTokens >= 1
  BY PagesAssumption
<1>2. ASSUME tokens # 0
      PROVE  (tokens + PageTokens - 1) \div PageTokens \in Nat
             /\ (tokens + PageTokens - 1) \div PageTokens >= 1
  <2> DEFINE d == (tokens + PageTokens - 1) \div PageTokens
  <2>1. d \in Int /\ tokens + PageTokens - 1 < PageTokens * (d + 1)
    BY <1>1
  <2>2. ASSUME d < 1 PROVE FALSE
    <3>1. PageTokens * (d + 1) <= PageTokens
      BY <1>1, <2>1, <2>2
    <3> HIDE DEF d
    <3> QED BY <1>1, <1>2, <2>1, <3>1
  <2> QED BY <2>1, <2>2
<1> QED BY <1>2 DEF PagesForTokens

-----------------------------------------------------------------------------
(* The abstract state *)

(* A sequence has pages exactly when it has a table. *)
LEMMA HeldByTable ==
    ASSUME NEW tables \in [SequenceIds -> Seq(Pages)], NEW s \in SequenceIds
    PROVE  Held(tables)[s] # {} <=> tables[s] # <<>>
<1>1. tables[s] \in Seq(Pages)
  OBVIOUS
<1>2. ASSUME tables[s] # <<>> PROVE Elements(tables[s]) # {}
  <2>1. 1 \in DOMAIN tables[s]
    BY <1>1, <1>2
  <2> QED BY <2>1 DEF Elements
<1>3. ASSUME tables[s] = <<>> PROVE Elements(tables[s]) = {}
  BY <1>3 DEF Elements
<1> QED BY <1>2, <1>3 DEF Held

(* Changing a table changes what its sequence holds. *)
LEMMA HeldExcept ==
    ASSUME NEW tables \in [SequenceIds -> Seq(Pages)], NEW s \in SequenceIds, NEW pages
    PROVE  Held([tables EXCEPT ![s] = pages]) = [Held(tables) EXCEPT ![s] = Elements(pages)]
<1> DEFINE after == [tables EXCEPT ![s] = pages]
<1>1. after[s] = pages /\ \A t \in SequenceIds : t # s => after[t] = tables[t]
  OBVIOUS
<1> HIDE DEF after
<1>2. \A t \in SequenceIds : Held(after)[t] = IF t = s THEN Elements(pages) ELSE Held(tables)[t]
  BY <1>1 DEF Held
<1>3. Held(after) = [Held(tables) EXCEPT ![s] = Elements(pages)]
  BY <1>2 DEF Held
<1> QED BY <1>3 DEF after

(* A use makes its sequence the most recent of those that hold pages.      *)
LEMMA LatestMostRecent ==
    ASSUME NEW order, NEW tables, NEW s \in SequenceIds, NEW holders \in SUBSET SequenceIds,
           \A t \in SequenceIds : t # s => (t \in holders <=> tables[t] # <<>>)
    PROVE  Latest(order, tables, s) = Lru!MostRecent(order, holders, s)
<1>1. holders \ {s} = {u \in SequenceIds \ {s} : tables[u] # <<>>}
  OBVIOUS
<1>2. Others(order, s) = Lru!Without(order, s)
  BY DEF Others, Lru!Without
<1> QED BY <1>1, <1>2 DEF Latest, Lru!MostRecent

(* The next tick makes its sequence the most recent.                       *)
LEMMA NextTickMostRecent ==
    ASSUME NEW ticks, NEW ticks1, NEW s \in SequenceIds, NEW holders \in SUBSET SequenceIds,
           \A t \in SequenceIds : t # s => (t \in holders <=> ticks[t] # 0),
           \A t \in SequenceIds : t # s => ticks1[t] = ticks[t],
           \A t \in SequenceIds : ticks[t] \in Nat /\ ticks1[s] \in Nat /\ ticks[t] < ticks1[s]
    PROVE  UsedBefore(ticks1) = Lru!MostRecent(UsedBefore(ticks), holders, s)
<1>1. ticks1[s] # 0
  OBVIOUS
<1>2. ASSUME NEW t \in SequenceIds, NEW u \in SequenceIds
      PROVE  <<t, u>> \in UsedBefore(ticks1) <=>
                 <<t, u>> \in Lru!MostRecent(UsedBefore(ticks), holders, s)
  <2>1. <<t, u>> \in UsedBefore(ticks1) <=> ticks1[t] # 0 /\ ticks1[t] < ticks1[u]
    BY DEF UsedBefore
  <2>2. <<t, u>> \in Lru!Without(UsedBefore(ticks), s) <=>
            t # s /\ u # s /\ ticks[t] # 0 /\ ticks[t] < ticks[u]
    BY DEF Lru!Without, UsedBefore
  <2>3. <<t, u>> \in {<<v, s>> : v \in holders \ {s}} <=> u = s /\ t # s /\ t \in holders
    OBVIOUS
  <2>4. <<t, u>> \in Lru!MostRecent(UsedBefore(ticks), holders, s) <=>
            \/ t # s /\ u # s /\ ticks[t] # 0 /\ ticks[t] < ticks[u]
            \/ u = s /\ t # s /\ t \in holders
    BY <2>2, <2>3 DEF Lru!MostRecent
  <2> QED BY <1>1, <2>1, <2>4
<1>3. UsedBefore(ticks1) \subseteq SequenceIds \X SequenceIds
  BY DEF UsedBefore
<1>4. Lru!MostRecent(UsedBefore(ticks), holders, s) \subseteq SequenceIds \X SequenceIds
  BY DEF Lru!MostRecent, Lru!Without, UsedBefore
<1> QED BY <1>2, <1>3, <1>4

(* Removing a tick removes its sequence from the order.                    *)
LEMMA NoTickWithout ==
    ASSUME NEW clock \in Nat, NEW ticks \in [SequenceIds -> 0 .. clock], NEW s \in SequenceIds
    PROVE  UsedBefore([ticks EXCEPT ![s] = 0]) = Lru!Without(UsedBefore(ticks), s)
<1> DEFINE ticks1 == [ticks EXCEPT ![s] = 0]
<1>1. /\ ticks1[s] = 0
      /\ \A t \in SequenceIds : t # s => ticks1[t] = ticks[t]
      /\ \A t \in SequenceIds : ticks[t] \in Nat
  OBVIOUS
<1> HIDE DEF ticks1
<1>2. ASSUME NEW t \in SequenceIds, NEW u \in SequenceIds
      PROVE  <<t, u>> \in UsedBefore(ticks1) <=> <<t, u>> \in Lru!Without(UsedBefore(ticks), s)
  <2>1. <<t, u>> \in UsedBefore(ticks1) <=> ticks1[t] # 0 /\ ticks1[t] < ticks1[u]
    BY DEF UsedBefore
  <2>2. <<t, u>> \in Lru!Without(UsedBefore(ticks), s) <=>
            t # s /\ u # s /\ ticks[t] # 0 /\ ticks[t] < ticks[u]
    BY DEF Lru!Without, UsedBefore
  <2> QED BY <1>1, <2>1, <2>2
<1>3. UsedBefore(ticks1) \subseteq SequenceIds \X SequenceIds
  BY DEF UsedBefore
<1>4. Lru!Without(UsedBefore(ticks), s) \subseteq SequenceIds \X SequenceIds
  BY DEF Lru!Without, UsedBefore
<1>5. UsedBefore(ticks1) = Lru!Without(UsedBefore(ticks), s)
  BY <1>2, <1>3, <1>4
<1> QED BY <1>5 DEF ticks1

-----------------------------------------------------------------------------
(* The specification *)

(* The fresh allocator. *)
LEMMA KInvInit == Init => KInv /\ Lru!Init
<1> SUFFICES ASSUME Init PROVE KInv /\ Lru!Init
  OBVIOUS
<1>1. /\ free_pages \in Seq(Pages) /\ DOMAIN free_pages = 1 .. NumPages
      /\ \A i \in 1 .. NumPages : free_pages[i] = NumPages - i
  <2>1. \A i \in 1 .. NumPages : NumPages - i \in Pages
    BY PagesAssumption DEF Pages
  <2>2. free_pages \in [1 .. NumPages -> Pages]
    BY <2>1 DEF Init
  <2> QED BY <2>2, PagesAssumption DEF Init
<1>2. Distinct(free_pages)
  BY <1>1, PagesAssumption DEF Distinct
<1>3. Elements(free_pages) = Pages
  <2>1. ASSUME NEW p \in Pages PROVE p \in Elements(free_pages)
    <3>1. NumPages - p \in 1 .. NumPages /\ NumPages - (NumPages - p) = p
      BY PagesAssumption DEF Pages
    <3>2. NumPages - p \in DOMAIN free_pages /\ free_pages[NumPages - p] = p
      BY <1>1, <3>1
    <3> QED BY <3>2 DEF Elements
  <2>2. Elements(free_pages) \subseteq Pages
    BY <1>1, PagesAssumption DEF Elements, Pages
  <2> QED BY <2>1, <2>2
<1>4. \A s \in SequenceIds : active[s] = <<>> /\ Elements(active[s]) = {} /\ Distinct(active[s])
  BY DEF Init, Elements, Distinct
<1>5. Conserved(free_pages, active)
  BY <1>2, <1>3, <1>4 DEF Conserved
<1>6. /\ active \in [SequenceIds -> Seq(Pages)] /\ lru_clock \in 0 .. MaxClock
      /\ lru_ticks \in [SequenceIds -> 0 .. lru_clock]
      /\ \A s \in SequenceIds : lru_ticks[s] = 0
  <2>1. <<>> \in Seq(Pages) /\ 0 \in 0 .. 0 /\ 0 \in 0 .. MaxClock
    BY PagesAssumption
  <2> QED BY <2>1 DEF Init
<1>7. KInv
  <2>1. used = UsedBefore(lru_ticks)
    BY <1>6 DEF UsedBefore, Init
  <2> QED BY <1>1, <1>4, <1>5, <1>6, <2>1 DEF KInv, Consistent, Init, NoOutcome, Results
<1>8. Lru!Init
  <2>1. Held(active) = [s \in SequenceIds |-> {}]
    BY <1>4 DEF Held
  <2> QED BY <2>1 DEF Lru!Init, Init
<1> QED BY <1>7, <1>8

(* A touch is a use. *)
LEMMA TouchStep ==
    ASSUME KInv, NEW s \in SequenceIds, Touch(s)
    PROVE  KInv' /\ Lru!Use(s)
<1>1. /\ lru_clock < MaxClock /\ active[s] # <<>> /\ lru_clock' = lru_clock + 1
      /\ lru_ticks' = [lru_ticks EXCEPT ![s] = lru_clock + 1]
      /\ used' = Latest(used, active, s)
      /\ outcome' = NoOutcome /\ UNCHANGED <<free_pages, active, working>>
  BY DEF Touch, Contains
<1>2. Consistent(free_pages, active, lru_ticks, lru_clock) /\ used = UsedBefore(lru_ticks)
  BY DEF KInv
<1>3. Consistent(free_pages, active, lru_ticks', lru_clock + 1)
  BY <1>1, <1>2, TouchConsistent
<1>5. /\ lru_clock \in Nat /\ lru_ticks \in [SequenceIds -> 0 .. lru_clock]
      /\ active \in [SequenceIds -> Seq(Pages)]
  BY <1>2 DEF Consistent
<1>6. \A t \in SequenceIds : t \in Lru!Holders <=> lru_ticks[t] # 0
  BY <1>2, <1>5, HeldByTable DEF Lru!Holders, Consistent
<1>7. UsedBefore(lru_ticks') = Lru!MostRecent(UsedBefore(lru_ticks), Lru!Holders, s)
  <2>1. Lru!Holders \subseteq SequenceIds
    BY DEF Lru!Holders
  <2>2. /\ \A t \in SequenceIds : t # s => lru_ticks'[t] = lru_ticks[t]
        /\ \A t \in SequenceIds : /\ lru_ticks[t] \in Nat /\ lru_ticks'[s] \in Nat
                                  /\ lru_ticks[t] < lru_ticks'[s]
    BY <1>1, <1>5
  <2> HIDE DEF Lru!Holders
  <2> QED BY <1>6, <2>1, <2>2, NextTickMostRecent
<1>8. s \in Lru!Holders
  BY <1>1, <1>5, HeldByTable DEF Lru!Holders
<1>9. Held(active)' = Held(active) /\ working' = working
  BY <1>1 DEF Held
<1>10. used' = Lru!MostRecent(used, Lru!Holders, s)
  <2>1. Lru!Holders \subseteq SequenceIds
    BY DEF Lru!Holders
  <2>2. \A t \in SequenceIds : t \in Lru!Holders <=> active[t] # <<>>
    BY <1>2, <1>6 DEF Consistent
  <2> HIDE DEF Lru!Holders
  <2> QED BY <1>1, <2>1, <2>2, LatestMostRecent
<1>11. KInv'
  <2>1. used' = UsedBefore(lru_ticks')
    BY <1>2, <1>7, <1>10
  <2>2. UsedBefore(lru_ticks)' = UsedBefore(lru_ticks')
    BY DEF UsedBefore
  <2> QED BY <1>1, <1>3, <2>1, <2>2 DEF KInv, NoOutcome, Results
<1>12. Lru!Use(s)
  BY <1>8, <1>9, <1>10 DEF Lru!Use
<1> QED BY <1>11, <1>12

(* A release is a release. *)
LEMMA ReleaseStep ==
    ASSUME KInv, NEW s \in SequenceIds, Release(s)
    PROVE  KInv' /\ Lru!Release(s)
<1>1. /\ active[s] # <<>> /\ free_pages' = ReleasePages(free_pages, active[s])
      /\ active' = [active EXCEPT ![s] = <<>>] /\ lru_ticks' = [lru_ticks EXCEPT ![s] = 0]
      /\ used' = Others(used, s)
      /\ outcome' = NoOutcome /\ UNCHANGED <<lru_clock, working>>
  BY DEF Release, Contains, FreeAfter
<1>2. Consistent(free_pages, active, lru_ticks, lru_clock) /\ used = UsedBefore(lru_ticks)
  BY DEF KInv
<1>3. Consistent(free_pages', active', lru_ticks', lru_clock)
  BY <1>1, <1>2, ReleaseConsistent
<1>5. /\ lru_clock \in Nat /\ lru_ticks \in [SequenceIds -> 0 .. lru_clock]
      /\ active \in [SequenceIds -> Seq(Pages)]
  BY <1>2 DEF Consistent
<1>6. UsedBefore(lru_ticks') = Lru!Without(UsedBefore(lru_ticks), s)
  BY <1>1, <1>5, NoTickWithout
<1>7. s \in Lru!Holders
  BY <1>1, <1>5, HeldByTable DEF Lru!Holders
<1>8. Held(active)' = [Held(active) EXCEPT ![s] = {}]
  <2>1. Elements(<<>>) = {}
    BY DEF Elements
  <2>2. Held(active)' = Held(active')
    BY DEF Held
  <2>3. Held(active') = [Held(active) EXCEPT ![s] = Elements(<<>>)]
    BY <1>1, <1>5, HeldExcept
  <2> QED BY <2>1, <2>2, <2>3, Zenon
<1>9. used' = Lru!Without(used, s)
  BY <1>1 DEF Others, Lru!Without
<1>10. KInv'
  <2>1. used' = UsedBefore(lru_ticks')
    BY <1>2, <1>6, <1>9
  <2>2. UsedBefore(lru_ticks)' = UsedBefore(lru_ticks')
    BY DEF UsedBefore
  <2> QED BY <1>1, <1>3, <2>1, <2>2 DEF KInv, NoOutcome, Results
<1>11. Lru!Release(s)
  BY <1>1, <1>7, <1>8, <1>9 DEF Lru!Release
<1> QED BY <1>10, <1>11

(* alloc_pages is an allocation from the free pages. *)
LEMMA AllocStep ==
    ASSUME KInv, NEW s \in SequenceIds, active[s] = <<>>, lru_clock < MaxClock,
           NEW need \in 1 .. Len(free_pages),
           AllocPages(s, need, free_pages, active, lru_ticks),
           used' = Latest(used, active, s), UNCHANGED working
    PROVE  /\ Consistent(free_pages', active', lru_ticks', lru_clock')
           /\ used' = UsedBefore(lru_ticks') /\ Lru!Allocate(s)
<1>1. /\ lru_clock' = lru_clock + 1 /\ free_pages' = PopRest(free_pages, need)
      /\ active' = [active EXCEPT ![s] = PopPages(free_pages, need)]
      /\ lru_ticks' = [lru_ticks EXCEPT ![s] = lru_clock + 1]
  BY DEF AllocPages
<1>2. Consistent(free_pages, active, lru_ticks, lru_clock) /\ used = UsedBefore(lru_ticks)
  BY DEF KInv
<1>3. Consistent(free_pages', active', lru_ticks', lru_clock')
  BY <1>1, <1>2, AllocConsistent
<1>4. /\ lru_clock \in Nat /\ lru_ticks \in [SequenceIds -> 0 .. lru_clock]
      /\ active \in [SequenceIds -> Seq(Pages)] /\ free_pages \in Seq(Pages)
      /\ Conserved(free_pages, active)
  BY <1>2 DEF Consistent
<1> DEFINE P == Elements(PopPages(free_pages, need))
<1>5. P # {} /\ P \subseteq Elements(free_pages)
  <2>1. /\ PopPages(free_pages, need) \in Seq(Pages) /\ PopPages(free_pages, need) # <<>>
        /\ P \subseteq Elements(free_pages)
    BY <1>4, PopSplits DEF Conserved
  <2>2. 1 \in DOMAIN PopPages(free_pages, need)
    BY <2>1
  <2> QED BY <2>1, <2>2 DEF Elements
<1> HIDE DEF P
<1>6. Elements(free_pages) = Lru!Free
  BY <1>4 DEF Conserved, Lru!Free, Held
<1>7. Held(active)' = [Held(active) EXCEPT ![s] = P]
  <2>1. Held(active)' = Held(active')
    BY DEF Held
  <2> QED BY <1>1, <1>4, <2>1, HeldExcept DEF P
<1>8. \A t \in SequenceIds : t \in Lru!Holders <=> lru_ticks[t] # 0
  BY <1>2, <1>4, HeldByTable DEF Lru!Holders, Consistent
<1>9. UsedBefore(lru_ticks') = Lru!MostRecent(UsedBefore(lru_ticks), Lru!Holders, s)
  <2>1. Lru!Holders \subseteq SequenceIds
    BY DEF Lru!Holders
  <2>2. /\ \A t \in SequenceIds : t # s => lru_ticks'[t] = lru_ticks[t]
        /\ \A t \in SequenceIds : /\ lru_ticks[t] \in Nat /\ lru_ticks'[s] \in Nat
                                  /\ lru_ticks[t] < lru_ticks'[s]
    BY <1>1, <1>4
  <2> HIDE DEF Lru!Holders
  <2> QED BY <1>8, <2>1, <2>2, NextTickMostRecent
<1>10. s \notin Lru!Holders
  BY <1>4, HeldByTable DEF Lru!Holders
<1>11. used' = Lru!MostRecent(used, Lru!Holders, s)
  <2>1. Lru!Holders \subseteq SequenceIds
    BY DEF Lru!Holders
  <2>2. \A t \in SequenceIds : t \in Lru!Holders <=> active[t] # <<>>
    BY <1>2, <1>8 DEF Consistent
  <2> HIDE DEF Lru!Holders
  <2> QED BY <2>1, <2>2, LatestMostRecent
<1>12. Lru!Allocate(s)
  <2>1. P \in (SUBSET Lru!Free) \ {{}}
    BY <1>5, <1>6
  <2>2. \E Q \in (SUBSET Lru!Free) \ {{}} : Held(active)' = [Held(active) EXCEPT ![s] = Q]
    BY <1>7, <2>1
  <2> QED BY <1>10, <1>11, <2>2 DEF Lru!Allocate
<1>13. used' = UsedBefore(lru_ticks')
  BY <1>2, <1>9, <1>11
<1> QED BY <1>3, <1>12, <1>13

(* The oldest evictable sequence is the victim LruPages asks for. *)
LEMMA OldestIsVictim ==
    ASSUME KInv, NEW s \in SequenceIds, active[s] = <<>>, NEW v \in Oldest(Evictable(s))
    PROVE  Lru!Victim(v) /\ v \in SequenceIds /\ v # s
<1>1. /\ v \in SequenceIds /\ lru_ticks[v] # 0 /\ v \notin working /\ v # s
      /\ \A t \in Evictable(s) : lru_ticks[v] <= lru_ticks[t]
  BY DEF Oldest, Evictable
<1>2. /\ lru_ticks \in [SequenceIds -> 0 .. lru_clock] /\ lru_clock \in Nat
      /\ active \in [SequenceIds -> Seq(Pages)]
  BY DEF KInv, Consistent
<1>3. \A t \in SequenceIds : t \in Lru!Holders <=> lru_ticks[t] # 0
  BY <1>2, HeldByTable DEF Lru!Holders, KInv, Consistent
<1>4. v \in Lru!Holders \ working
  BY <1>1, <1>3
<1>5. ASSUME NEW t \in Lru!Holders \ working PROVE <<t, v>> \notin used
  <2>1. t \in SequenceIds /\ lru_ticks[t] # 0 /\ t \notin working
    BY <1>3, <1>5 DEF Lru!Holders
  <2>2. t # s
    BY <2>1 DEF KInv, Consistent
  <2>3. lru_ticks[v] <= lru_ticks[t]
    BY <1>1, <2>1, <2>2 DEF Evictable
  <2> QED BY <1>1, <1>2, <2>1, <2>3 DEF UsedBefore, KInv
<1> QED BY <1>1, <1>4, <1>5 DEF Lru!Victim

(* An eviction replaces its victim, or only removes it when that does not  *)
(* make enough room.                                                       *)
LEMMA EvictStep ==
    ASSUME KInv, NEW s \in SequenceIds, active[s] = <<>>, lru_clock < MaxClock,
           NEW need \in Nat, need >= 1, Evict(s, need), UNCHANGED working
    PROVE  /\ Consistent(free_pages', active', lru_ticks', lru_clock')
           /\ used' = UsedBefore(lru_ticks')
           /\ \E v \in SequenceIds : Lru!Release(v) \/ Lru!Replace(v, s)
<1> DEFINE freed(v) == ReleasePages(free_pages, active[v])
<1> DEFINE owned(v) == [active EXCEPT ![v] = <<>>]
<1> DEFINE ticks(v) == [lru_ticks EXCEPT ![v] = 0]
<1>1. PICK v \in Oldest(Evictable(s)) :
        IF Len(freed(v)) < need
        THEN /\ free_pages' = freed(v) /\ active' = owned(v) /\ lru_ticks' = ticks(v)
             /\ used' = Others(used, v)
             /\ UNCHANGED lru_clock
        ELSE /\ AllocPages(s, need, freed(v), owned(v), ticks(v))
             /\ used' = Latest(Others(used, v), owned(v), s)
  BY DEF Evict, FreeAfter
<1>2. Lru!Victim(v) /\ v \in SequenceIds /\ v # s
  BY OldestIsVictim
<1>3. Consistent(free_pages, active, lru_ticks, lru_clock) /\ used = UsedBefore(lru_ticks)
  BY DEF KInv
<1>4. /\ lru_clock \in Nat /\ lru_ticks \in [SequenceIds -> 0 .. lru_clock]
      /\ active \in [SequenceIds -> Seq(Pages)] /\ free_pages \in Seq(Pages)
      /\ Conserved(free_pages, active)
  BY <1>3 DEF Consistent
<1>5. Consistent(freed(v), owned(v), ticks(v), lru_clock)
  BY <1>2, <1>3, ReleaseConsistent
<1>6. /\ freed(v) \in Seq(Pages)
      /\ Elements(freed(v)) = Elements(free_pages) \cup Elements(active[v])
  BY <1>2, <1>4, ReleaseConserves
<1>7. /\ ticks(v) \in [SequenceIds -> 0 .. lru_clock] /\ owned(v) \in [SequenceIds -> Seq(Pages)]
      /\ Conserved(freed(v), owned(v))
  BY <1>5 DEF Consistent
<1>8. Held(owned(v)) = [Held(active) EXCEPT ![v] = {}]
  <2>1. Elements(<<>>) = {}
    BY DEF Elements
  <2>2. Held(owned(v)) = [Held(active) EXCEPT ![v] = Elements(<<>>)]
    BY <1>2, <1>4, HeldExcept
  <2> QED BY <2>1, <2>2, Zenon
<1>9. UsedBefore(ticks(v)) = Lru!Without(used, v) /\ Others(used, v) = Lru!Without(used, v)
  BY <1>2, <1>3, <1>4, NoTickWithout DEF Others, Lru!Without
<1>10. \A t \in SequenceIds : t \in Lru!Holders <=> lru_ticks[t] # 0
  BY <1>3, <1>4, HeldByTable DEF Lru!Holders, Consistent
<1>11. /\ ticks(v)[v] = 0 /\ owned(v)[s] = <<>>
       /\ \A t \in SequenceIds : t # v => ticks(v)[t] = lru_ticks[t]
  BY <1>2, <1>4
<1>12. Held(active)' = Held(active')
  BY DEF Held
<1> HIDE DEF freed, owned, ticks
<1>13. CASE Len(freed(v)) < need
  <2>1. /\ free_pages' = freed(v) /\ active' = owned(v) /\ lru_ticks' = ticks(v)
        /\ lru_clock' = lru_clock /\ used' = Others(used, v)
    BY <1>1, <1>13
  <2>2. Consistent(free_pages', active', lru_ticks', lru_clock')
    BY <1>5, <2>1
  <2>3. Lru!Release(v)
    BY <1>2, <1>8, <1>9, <1>12, <2>1 DEF Lru!Release, Lru!Victim
  <2> QED BY <1>2, <1>9, <2>1, <2>2, <2>3
<1>14. CASE ~(Len(freed(v)) < need)
  <2> DEFINE P == Elements(PopPages(freed(v), need))
  <2>1. /\ lru_clock' = lru_clock + 1 /\ free_pages' = PopRest(freed(v), need)
        /\ active' = [owned(v) EXCEPT ![s] = PopPages(freed(v), need)]
        /\ lru_ticks' = [ticks(v) EXCEPT ![s] = lru_clock + 1]
        /\ used' = Latest(Others(used, v), owned(v), s)
    BY <1>1, <1>14 DEF AllocPages
  <2>2. need \in 1 .. Len(freed(v))
    BY <1>6, <1>14
  <2>3. Consistent(free_pages', active', lru_ticks', lru_clock')
    BY <1>5, <1>11, <2>1, <2>2, AllocConsistent
  <2>4. P # {} /\ P \subseteq Elements(freed(v))
    <3>1. /\ PopPages(freed(v), need) \in Seq(Pages) /\ PopPages(freed(v), need) # <<>>
          /\ P \subseteq Elements(freed(v))
      BY <1>6, <1>7, <2>2, PopSplits DEF Conserved
    <3>2. 1 \in DOMAIN PopPages(freed(v), need)
      BY <3>1
    <3> QED BY <3>1, <3>2 DEF Elements
  <2>5. Held(active') = [Held(owned(v)) EXCEPT ![s] = P]
    BY <1>7, <2>1, HeldExcept
  <2> HIDE DEF P
  <2>6. Held(active') = [Held(active) EXCEPT ![v] = {}, ![s] = P]
    BY <1>8, <2>5
  <2>7. Elements(free_pages) = Lru!Free /\ Elements(active[v]) = Held(active)[v]
    BY <1>2, <1>4 DEF Conserved, Lru!Free, Held
  <2>8. P \in (SUBSET (Lru!Free \cup Held(active)[v])) \ {{}}
    BY <1>6, <2>4, <2>7
  <2>9. /\ UsedBefore(lru_ticks') = Lru!MostRecent(Lru!Without(used, v), Lru!Holders \ {v}, s)
        /\ used' = Lru!MostRecent(Lru!Without(used, v), Lru!Holders \ {v}, s)
    <3>1. Lru!Holders \ {v} \subseteq SequenceIds
      BY DEF Lru!Holders
    <3>2. \A t \in SequenceIds : t # s => (t \in Lru!Holders \ {v} <=> ticks(v)[t] # 0)
      BY <1>10, <1>11
    <3> HIDE DEF Lru!Holders
    <3> DEFINE T == ticks(v)
    <3> DEFINE H == Lru!Holders \ {v}
    <3>3. /\ H \in SUBSET SequenceIds
          /\ \A t \in SequenceIds : t # s => (t \in H <=> T[t] # 0)
      BY <3>1, <3>2
    <3>4. UsedBefore(T) = Lru!Without(used, v)
      BY <1>9
    <3>5. /\ \A t \in SequenceIds : t # s => lru_ticks'[t] = T[t]
          /\ \A t \in SequenceIds : T[t] \in Nat /\ lru_ticks'[s] \in Nat /\ T[t] < lru_ticks'[s]
      BY <1>4, <1>7, <2>1
    <3> HIDE DEF T, H
    <3>6. UsedBefore(lru_ticks') = Lru!MostRecent(UsedBefore(T), H, s)
      BY <3>3, <3>5, NextTickMostRecent
    <3>7. \A t \in SequenceIds : t # s => (t \in H <=> owned(v)[t] # <<>>)
      BY <1>5, <3>3 DEF Consistent, T
    <3>8. Latest(Others(used, v), owned(v), s) = Lru!MostRecent(Others(used, v), H, s)
      BY <3>3, <3>7, LatestMostRecent
    <3> QED BY <1>9, <2>1, <3>4, <3>6, <3>8 DEF H
  <2>10. s \notin Lru!Holders
    BY <1>4, HeldByTable DEF Lru!Holders
  <2>11. \E Q \in (SUBSET (Lru!Free \cup Held(active)[v])) \ {{}} :
            Held(active)' = [Held(active) EXCEPT ![v] = {}, ![s] = Q]
    BY <1>12, <2>6, <2>8
  <2>12. Lru!Replace(v, s)
    BY <1>2, <1>12, <2>9, <2>10, <2>11 DEF Lru!Replace
  <2> QED BY <1>2, <2>3, <2>9, <2>12
<1> QED BY <1>13, <1>14

(* Every step keeps the invariant and is a step of LruPages or a stutter. *)
LEMMA KStep ==
    ASSUME KInv, [Next]_vars
    PROVE  KInv' /\ (Lru!Next \/ UNCHANGED Lru!vars)
<1>0. UsedBefore(lru_ticks)' = UsedBefore(lru_ticks')
  BY DEF UsedBefore
<1>1. ASSUME NEW s \in SequenceIds, Touch(s) PROVE KInv' /\ Lru!Next
  BY <1>1, TouchStep DEF Lru!Next
<1>2. ASSUME NEW s \in SequenceIds, Release(s) PROVE KInv' /\ Lru!Next
  BY <1>2, ReleaseStep DEF Lru!Next
<1>3. ASSUME NEW s \in SequenceIds, Allocate(s) PROVE KInv' /\ Lru!Next
  <2>1. PICK tokens \in Tokens :
          /\ Len(free_pages) >= PagesForTokens(tokens)
          /\ AllocPages(s, PagesForTokens(tokens), free_pages, active, lru_ticks)
          /\ used' = Latest(used, active, s)
    BY <1>3 DEF Allocate
  <2>2. /\ active[s] = <<>> /\ lru_clock < MaxClock /\ outcome' = NoOutcome
        /\ working' = working
    BY <1>3 DEF Allocate, Contains
  <2>3. free_pages \in Seq(Pages)
    BY DEF KInv, Consistent
  <2>4. PagesForTokens(tokens) \in 1 .. Len(free_pages)
    BY <2>1, <2>3, NeedPositive
  <2>5. /\ Consistent(free_pages', active', lru_ticks', lru_clock')
        /\ used' = UsedBefore(lru_ticks') /\ Lru!Allocate(s)
    BY <2>1, <2>2, <2>4, AllocStep
  <2> QED BY <1>0, <2>2, <2>5 DEF KInv, NoOutcome, Results, Lru!Next
<1>4. ASSUME NEW s \in SequenceIds, AllocateOrEvict(s)
      PROVE  KInv' /\ (Lru!Next \/ UNCHANGED Lru!vars)
  <2>1. PICK tokens \in Tokens :
          IF Contains(s)
          THEN Returns("out_of_memory", s, PagesForTokens(tokens)) /\ UNCHANGED allocator
          ELSE \/ AllocateFromFree(s, PagesForTokens(tokens))
               \/ NoVictim(s, PagesForTokens(tokens))
               \/ Evict(s, PagesForTokens(tokens))
    BY <1>4 DEF AllocateOrEvict
  <2> DEFINE need == PagesForTokens(tokens)
  <2>2. need \in Nat /\ need >= 1
    BY NeedPositive
  <2> HIDE DEF need
  <2>3. lru_clock < MaxClock /\ working' = working /\ free_pages \in Seq(Pages)
    BY <1>4 DEF AllocateOrEvict, KInv, Consistent
  <2>4. outcome'.result \in Results /\ outcome'.need \in Nat
    <3>1. \E r \in Results : Returns(r, s, need)
      BY <2>1 DEF Results, AllocateFromFree, NoVictim, Evict, need
    <3>2. PICK r \in Results : outcome' = [result |-> r, sequence |-> s, need |-> need]
      BY <3>1 DEF Returns
    <3> QED BY <2>2, <3>2
  <2>5. CASE UNCHANGED allocator
    BY <2>3, <2>4, <2>5 DEF KInv, allocator, Lru!vars, Held, UsedBefore
  <2>6. CASE active[s] = <<>> /\ AllocateFromFree(s, need)
    <3>1. need \in 1 .. Len(free_pages)
      BY <2>2, <2>3, <2>6 DEF AllocateFromFree
    <3>2. /\ Consistent(free_pages', active', lru_ticks', lru_clock')
          /\ used' = UsedBefore(lru_ticks') /\ Lru!Allocate(s)
      BY <2>3, <2>6, <3>1, AllocStep DEF AllocateFromFree
    <3> QED BY <1>0, <2>3, <2>4, <3>2 DEF KInv, Lru!Next
  <2>7. CASE active[s] = <<>> /\ Evict(s, need)
    <3>1. /\ Consistent(free_pages', active', lru_ticks', lru_clock')
          /\ used' = UsedBefore(lru_ticks')
          /\ \E v \in SequenceIds : Lru!Release(v) \/ Lru!Replace(v, s)
      BY <2>2, <2>3, <2>7, EvictStep
    <3> QED BY <1>0, <2>3, <2>4, <3>1 DEF KInv, Lru!Next
  <2> QED BY <2>1, <2>5, <2>6, <2>7 DEF Contains, NoVictim, need
<1>5. ASSUME Work PROVE KInv' /\ Lru!Next
  <2>1. Lru!Work
    BY <1>5 DEF Work, Lru!Work, allocator, Held, UsedBefore
  <2>2. KInv'
    BY <1>5 DEF Work, KInv, allocator, NoOutcome, Results
  <2> QED BY <2>1, <2>2 DEF Lru!Next
<1>6. ASSUME UNCHANGED vars PROVE KInv' /\ UNCHANGED Lru!vars
  BY <1>6 DEF vars, allocator, KInv, Lru!vars, Held, UsedBefore
<1> QED BY <1>1, <1>2, <1>3, <1>4, <1>5, <1>6 DEF Next

(* KInv is an invariant of the allocator. *)
THEOREM PagesInvariant == Spec => []KInv
<1>1. KInv /\ [Next]_vars => KInv'
  BY KStep
<1> QED BY <1>1, KInvInit, PTL DEF Spec

(* The allocator is well typed and its two maps have the same keys. *)
THEOREM PagesTyped == Spec => []TypeOK
<1>1. KInv => TypeOK
  BY DEF KInv, Consistent, UsedBefore, TypeOK
<1> QED BY <1>1, PagesInvariant, PTL

(* No page is lost and none has two owners, whatever is allocated, evicted *)
(* and released.                                                           *)
THEOREM PagesSafe == Spec => []PagesConserved
<1>1. KInv => PagesConserved
  BY DEF KInv, Consistent, PagesConserved
<1> QED BY <1>1, PagesInvariant, PTL

(* The allocator implements the LRU specification.                         *)
THEOREM LruRefinement == Spec => ImplementsLru
<1>1. Init => Lru!Init
  BY KInvInit
<1>2. KInv /\ [Next]_vars => [Lru!Next]_(Lru!vars)
  BY KStep
<1> QED BY <1>1, <1>2, PagesInvariant, PTL DEF Spec, ImplementsLru, Lru!Spec

(* A slot determines its page. *)
LEMMA SlotsOfPages ==
    ASSUME NEW a \in Nat, NEW b \in Nat, a < b, NEW i \in 0 .. PageTokens - 1, NEW j \in Nat
    PROVE  a * PageTokens + i < b * PageTokens + j
<1>1. PageTokens \in Nat /\ PageTokens >= 1
  BY PagesAssumption
<1>2. (b - a - 1) \in Nat
  OBVIOUS
<1>3. (b - a - 1) * PageTokens \in Nat
  BY <1>1, <1>2
<1>4. b * PageTokens = a * PageTokens + PageTokens + (b - a - 1) * PageTokens
  BY <1>1
<1> QED BY <1>1, <1>3, <1>4

(* No two positions share a slot: the tables have no page in common, and   *)
(* two positions of one page differ in their offset.                       *)
THEOREM SlotsSafe == Spec => []SlotsIsolated
<1>1. KInv => SlotsIsolated
  <2> SUFFICES ASSUME KInv, NEW s \in SequenceIds, NEW t \in SequenceIds,
                      NEW p \in Positions(s), NEW q \in Positions(t), <<s, p>> # <<t, q>>
               PROVE  PhysicalSlot(s, p) # PhysicalSlot(t, q)
    BY DEF SlotsIsolated
  <2>1. PageTokens \in Nat /\ PageTokens >= 1
    BY PagesAssumption
  <2>2. active[s] \in Seq(Pages) /\ active[t] \in Seq(Pages)
    BY DEF KInv, Consistent
  <2> DEFINE pp == p \div PageTokens
  <2> DEFINE po == p % PageTokens
  <2> DEFINE qp == q \div PageTokens
  <2> DEFINE qo == q % PageTokens
  <2> DEFINE n == Len(active[s])
  <2> DEFINE m == Len(active[t])
  <2>3. n \in Nat /\ m \in Nat
    BY <2>2
  <2>4. /\ p \in Nat /\ p < n * PageTokens /\ q \in Nat /\ q < m * PageTokens
    BY <2>1, <2>3 DEF Positions
  <2>5. /\ pp \in Nat /\ po \in 0 .. PageTokens - 1 /\ p = pp * PageTokens + po
        /\ qp \in Nat /\ qo \in 0 .. PageTokens - 1 /\ q = qp * PageTokens + qo
    BY <2>1, <2>4
  <2> HIDE DEF pp, po, qp, qo, n, m
  <2>6. pp + 1 \in 1 .. n
    <3>1. ASSUME n <= pp PROVE FALSE
      <4>1. n * PageTokens <= pp * PageTokens
        BY <2>1, <2>3, <2>5, <3>1
      <4> QED BY <2>1, <2>3, <2>4, <2>5, <4>1
    <3> QED BY <2>3, <2>5, <3>1
  <2>7. qp + 1 \in 1 .. m
    <3>1. ASSUME m <= qp PROVE FALSE
      <4>1. m * PageTokens <= qp * PageTokens
        BY <2>1, <2>3, <2>5, <3>1
      <4> QED BY <2>1, <2>3, <2>4, <2>5, <4>1
    <3> QED BY <2>3, <2>5, <3>1
  <2> DEFINE a == active[s][pp + 1]
  <2> DEFINE b == active[t][qp + 1]
  <2>8. /\ pp + 1 \in DOMAIN active[s] /\ qp + 1 \in DOMAIN active[t]
        /\ a \in Pages /\ b \in Pages
    BY <2>2, <2>6, <2>7 DEF n, m
  <2>9. a \in Nat /\ b \in Nat
    BY <2>8, PagesAssumption DEF Pages
  <2>10. PhysicalSlot(s, p) = a * PageTokens + po /\ PhysicalSlot(t, q) = b * PageTokens + qo
    BY DEF PhysicalSlot, pp, po, qp, qo
  <2>11. CASE a # b
    <3> HIDE DEF a, b
    <3>1. a < b \/ b < a
      BY <2>9, <2>11
    <3>2. a * PageTokens + po < b * PageTokens + qo \/ b * PageTokens + qo < a * PageTokens + po
      BY <2>5, <2>9, <3>1, SlotsOfPages
    <3>3. a * PageTokens + po \in Int /\ b * PageTokens + qo \in Int
      BY <2>1, <2>5, <2>9
    <3> QED BY <2>10, <3>2, <3>3
  <2>12. CASE a = b
    <3>1. s = t
      <4>1. a \in Elements(active[s]) /\ b \in Elements(active[t])
        BY <2>8 DEF Elements
      <4> QED BY <2>12, <4>1 DEF KInv, Consistent, Conserved
    <3>2. pp = qp
      <4>1. pp + 1 = qp + 1
        BY <2>8, <2>12, <3>1 DEF KInv, Consistent, Conserved, Distinct
      <4> QED BY <2>5, <4>1
    <3>3. po # qo
      BY <2>5, <3>1, <3>2
    <3> HIDE DEF a, b
    <3>4. a * PageTokens \in Int
      BY <2>1, <2>9
    <3> QED BY <2>5, <2>10, <2>12, <3>3, <3>4
  <2> QED BY <2>11, <2>12
<1> QED BY <1>1, PagesInvariant, PTL
=============================================================================
