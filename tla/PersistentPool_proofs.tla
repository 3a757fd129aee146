----------------------- MODULE PersistentPool_proofs -----------------------
(***************************************************************************)
(* The worker pool proved for every number of lanes, every job size and    *)
(* every number of dispatches.                                             *)
(***************************************************************************)
EXTENDS PersistentPool, FiniteSetTheorems, TLAPS

LEMMA LanesType == Lanes \in Nat \ {0}
BY PoolAssumption

LEMMA TimesMonotone ==
  ASSUME NEW a \in Nat, NEW b \in Nat, NEW c \in Nat, a <= b
  PROVE  /\ a * c <= b * c
         /\ (a + 1) * c = a * c + c
OBVIOUS

-----------------------------------------------------------------------------
(* The split of run_shard (persistent_pool.rs): the shards are intervals in *)
(* lane order, pairwise disjoint, that cover [0, n).                        *)

LEMMA ShardSplit ==
  ASSUME NEW n \in Nat
  PROVE  /\ n \div Lanes \in Nat
         /\ n % Lanes \in 0 .. Lanes - 1
         /\ n = Lanes * (n \div Lanes) + (n % Lanes)
BY LanesType

LEMMA ShardType ==
  ASSUME NEW n \in Nat, NEW l \in 0 .. Lanes - 1
  PROVE  /\ ShardStart(l, n) \in Nat
         /\ ShardLen(l, n) \in Nat
         /\ ShardEnd(l, n) \in Nat
         /\ ShardStart(l, n) <= ShardEnd(l, n)
         /\ ShardEnd(l, n) <= n
<1> DEFINE base == n \div Lanes
           rem == n % Lanes
<1>1. /\ base \in Nat /\ rem \in 0 .. Lanes - 1 /\ n = Lanes * base + rem
  BY ShardSplit
<1>2. CASE l < rem
  <2>1. /\ ShardStart(l, n) = l * (base + 1) /\ ShardLen(l, n) = base + 1
        /\ ShardEnd(l, n) = l * (base + 1) + (base + 1)
    BY <1>2 DEF ShardStart, ShardLen, ShardEnd
  <2>2. l * (base + 1) = l * base + l /\ l * base \in Nat
    BY <1>1, LanesType
  <2>3. (l + 1) * base = l * base + base /\ (l + 1) * base <= Lanes * base
    <3>1. l \in Nat /\ l + 1 \in Nat /\ l + 1 <= Lanes /\ Lanes \in Nat
      BY LanesType
    <3> HIDE DEF base
    <3>2. QED BY <1>1, <3>1, TimesMonotone
  <2> HIDE DEF base, rem
  <2>4. QED BY <1>1, <1>2, <2>1, <2>2, <2>3, LanesType
<1>3. CASE ~(l < rem)
  <2>1. /\ ShardStart(l, n) = rem * (base + 1) + (l - rem) * base
        /\ ShardLen(l, n) = base
        /\ ShardEnd(l, n) = rem * (base + 1) + (l - rem) * base + base
    BY <1>3 DEF ShardStart, ShardLen, ShardEnd
  <2>2. /\ rem * (base + 1) + (l - rem) * base = l * base + rem
        /\ l * base \in Nat
    BY <1>1, LanesType
  <2>3. (l + 1) * base = l * base + base /\ (l + 1) * base <= Lanes * base
    <3>1. l \in Nat /\ l + 1 \in Nat /\ l + 1 <= Lanes /\ Lanes \in Nat
      BY LanesType
    <3> HIDE DEF base
    <3>2. QED BY <1>1, <3>1, TimesMonotone
  <2> HIDE DEF base, rem
  <2>4. QED BY <1>1, <1>3, <2>1, <2>2, <2>3, LanesType
<1>4. QED BY <1>2, <1>3

LEMMA LaneOfWorker == Workers \subseteq 0 .. Lanes - 1 /\ 0 \in 0 .. Lanes - 1 /\ 0 \notin Workers
BY LanesType DEF Workers

(* A closed form of the first index of a shard. *)
LEMMA ShardForm ==
  ASSUME NEW n \in Nat, NEW l \in 0 .. Lanes - 1
  PROVE  /\ l < n % Lanes => /\ ShardStart(l, n) = l * (n \div Lanes) + l
                             /\ ShardEnd(l, n) = l * (n \div Lanes) + l + (n \div Lanes) + 1
         /\ ~(l < n % Lanes) => /\ ShardStart(l, n) = l * (n \div Lanes) + (n % Lanes)
                                /\ ShardEnd(l, n) = l * (n \div Lanes) + (n % Lanes) + (n \div Lanes)
BY ShardSplit, LanesType DEF ShardStart, ShardLen, ShardEnd

LEMMA ShardOrder ==
  ASSUME NEW n \in Nat, NEW l \in 0 .. Lanes - 1, NEW m \in 0 .. Lanes - 1, l < m
  PROVE  ShardEnd(l, n) <= ShardStart(m, n)
<1> DEFINE base == n \div Lanes
           rem == n % Lanes
<1>1. /\ base \in Nat /\ rem \in 0 .. Lanes - 1
  BY ShardSplit
<1>2. /\ l < rem => ShardEnd(l, n) = l * base + l + base + 1
      /\ ~(l < rem) => ShardEnd(l, n) = l * base + rem + base
      /\ m < rem => ShardStart(m, n) = m * base + m
      /\ ~(m < rem) => ShardStart(m, n) = m * base + rem
  BY ShardForm
<1>3. l * base + base <= m * base /\ l * base \in Nat /\ m * base \in Nat
  BY <1>1, LanesType
<1> HIDE DEF base, rem
<1>4. QED BY <1>1, <1>2, <1>3, LanesType

LEMMA ShardCover ==
  ASSUME NEW n \in Nat, NEW i \in Indices(n)
  PROVE  \E l \in 0 .. Lanes - 1 : i \in ShardStart(l, n) .. ShardEnd(l, n) - 1
<1> DEFINE base == n \div Lanes
           rem == n % Lanes
<1>1. /\ base \in Nat /\ rem \in 0 .. Lanes - 1 /\ n = Lanes * base + rem
      /\ i \in 0 .. n - 1
  BY ShardSplit DEF Indices
<1>2. CASE i < rem * (base + 1)
  <2> DEFINE l == i \div (base + 1)
  <2>1. l \in Nat /\ i % (base + 1) \in 0 .. base /\ i = (base + 1) * l + (i % (base + 1))
    BY <1>1
  <2>2. (base + 1) * l = l * base + l
    BY <1>1, <2>1
  <2> HIDE DEF base
  <2>3. l < rem
    <3>1. SUFFICES ASSUME l >= rem PROVE FALSE
      BY <1>1, <2>1
    <3>2. (base + 1) * l >= rem * (base + 1)
      BY <1>1, <2>1, <3>1
    <3> HIDE DEF l
    <3>3. (base + 1) * l \in Nat /\ rem * (base + 1) \in Nat
      BY <1>1, <2>1
    <3>4. QED BY <1>1, <1>2, <2>1, <3>2, <3>3
  <2>4. l \in 0 .. Lanes - 1
    BY <1>1, <2>1, <2>3, LanesType
  <2>5. /\ ShardStart(l, n) = l * base + l
        /\ ShardEnd(l, n) = l * base + l + base + 1
    BY <2>3, <2>4, ShardForm DEF base
  <2> HIDE DEF l, rem
  <2>6. l * base \in Nat
    BY <1>1, <2>1
  <2>7. QED BY <1>1, <2>1, <2>2, <2>4, <2>5, <2>6
<1>3. CASE ~(i < rem * (base + 1))
  <2> DEFINE j == i - rem * (base + 1)
             l == rem + (j \div base)
  <2>1. rem * (base + 1) = rem * base + rem /\ rem * base \in Nat
    BY <1>1
  <2>2. j \in Nat
    BY <1>1, <1>3, <2>1
  <2>3. (Lanes - rem) * base = Lanes * base - rem * base /\ Lanes * base \in Nat
    BY <1>1, LanesType
  <2>4. j < (Lanes - rem) * base
    BY <1>1, <2>1, <2>3
  <2>5. base # 0
    BY <1>1, <2>2, <2>4, LanesType
  <2> DEFINE q == j \div base
  <2> HIDE DEF base, j
  <2>6. q \in Nat /\ j % base \in 0 .. base - 1 /\ j = base * q + (j % base)
    BY <1>1, <2>2, <2>5
  <2> HIDE DEF q, rem
  <2>7. q < Lanes - rem
    <3>1. SUFFICES ASSUME q >= Lanes - rem PROVE FALSE
      BY <1>1, <2>6, LanesType
    <3>2. base * q >= (Lanes - rem) * base
      BY <1>1, <2>6, <3>1, LanesType
    <3>3. base * q \in Nat /\ (Lanes - rem) * base \in Int
      BY <1>1, <2>6, LanesType
    <3>4. QED BY <1>1, <2>4, <2>6, <3>2, <3>3
  <2>8. l = rem + q
    BY DEF q
  <2> HIDE DEF l
  <2>9. l \in 0 .. Lanes - 1 /\ ~(l < rem)
    BY <1>1, <2>6, <2>7, <2>8, LanesType
  <2>10. /\ ShardStart(l, n) = l * base + rem
         /\ ShardEnd(l, n) = l * base + rem + base
    BY <2>9, ShardForm DEF base, rem
  <2>11. l * base = rem * base + base * q /\ base * q \in Nat
    BY <1>1, <2>6, <2>8
  <2>12. i = j + rem * base + rem
    BY <1>1, <2>1 DEF j
  <2>13. i \in ShardStart(l, n) .. ShardEnd(l, n) - 1
    BY <1>1, <2>1, <2>6, <2>10, <2>11, <2>12
  <2>14. QED BY <2>9, <2>13
<1>4. QED BY <1>2, <1>3

-----------------------------------------------------------------------------
(* The counters `pending' and `parked' count sets of workers. *)

LEMMA WorkersFinite == IsFiniteSet(Workers) /\ Cardinality(Workers) = Lanes - 1
<1>1. 1 \in Int /\ Lanes - 1 \in Int
  BY LanesType
<1>2. QED BY <1>1, FS_Interval, LanesType DEF Workers

LEMMA SubsetCount ==
  ASSUME NEW S \in SUBSET Workers
  PROVE  /\ IsFiniteSet(S)
         /\ Cardinality(S) \in 0 .. Lanes - 1
         /\ Cardinality(S) = 0 => S = {}
         /\ \A w \in Workers \ S : Cardinality(S \cup {w}) = Cardinality(S) + 1
         /\ \A w \in S : Cardinality(S \ {w}) = Cardinality(S) - 1
<1>1. IsFiniteSet(S) /\ Cardinality(S) <= Lanes - 1
  BY WorkersFinite, FS_Subset
<1>2. Cardinality(S) \in Nat
  BY <1>1, FS_CardinalityType
<1>3. Cardinality(S) = 0 => S = {}
  BY <1>1, FS_EmptySet
<1>4. \A w \in Workers \ S : Cardinality(S \cup {w}) = Cardinality(S) + 1
  BY <1>1, FS_AddElement
<1>5. \A w \in S : Cardinality(S \ {w}) = Cardinality(S) - 1
  BY <1>1, FS_RemoveElement
<1>6. QED BY <1>1, <1>2, <1>3, <1>4, <1>5, LanesType

-----------------------------------------------------------------------------
(* The inductive invariant holds initially. *)

LEMMA InitIInv == Init => IInv
<1> SUFFICES ASSUME Init PROVE IInv
  OBVIOUS
<1> USE DEF Init
<1>1. TypeOK
  <2>1. ran \in [Indices(size) -> Nat]
    BY DEF Indices
  <2>2. pending \in 0 .. Lanes - 1 /\ parked \in 0 .. Lanes - 1
    BY LanesType
  <2>3. QED BY <2>1, <2>2 DEF TypeOK, CallerPhases, WorkerPhases
<1>2. GenerationInv
  BY DEF GenerationInv
<1>3. WorkerInv
  BY DEF WorkerInv
<1>4. CallerInv
  BY DEF CallerInv, Leaving, Posted
<1>5. PendingInv
  BY DEF PendingInv, Posted
<1>6. ParkedInv
  <2>1. Parking = {}
    BY DEF Parking, Announced
  <2>2. QED BY <2>1, FS_EmptySet DEF ParkedInv
<1>7. RanInv
  BY DEF RanInv, Preparing, Posted, Indices
<1>8. QED BY <1>1, <1>2, <1>3, <1>4, <1>5, <1>6, <1>7 DEF IInv

-----------------------------------------------------------------------------
(* Every step preserves each part of it. *)

LEMMA StepGeneration == IInv /\ [Next]_vars => GenerationInv'
<1> SUFFICES ASSUME IInv, [Next]_vars PROVE GenerationInv'
  OBVIOUS
<1> USE DEF IInv, TypeOK, GenerationInv, WorkerInv, CallerInv, Waiting, Posted, Leaving
<1>1. CASE DispatchNothing
  BY <1>1 DEF DispatchNothing, shared, locals
<1>2. ASSUME NEW n \in JobSizes, Dispatch(n) PROVE GenerationInv'
  BY <1>2 DEF Dispatch, shared, locals
<1>3. CASE DropShutdown
  BY <1>3 DEF DropShutdown, locals
<1>4. CASE CallerStep
  <2>1. CASE PublishJob
    BY <2>1 DEF PublishJob, locals
  <2>2. CASE SetPending
    BY <2>2 DEF SetPending, locals
  <2>3. CASE BumpGeneration
    BY <2>3 DEF BumpGeneration, locals, WorkerPhases, CallerPhases
  <2>4. CASE CheckParked
    BY <2>4 DEF CheckParked, shared, locals
  <2>5. CASE Unpark
    BY <2>5 DEF Unpark, shared, locals
  <2>6. CASE UnparkedAll
    BY <2>6 DEF UnparkedAll, shared, locals
  <2>7. CASE RunOwn
    BY <2>7 DEF RunOwn, shared, locals
  <2>8. CASE OwnDone
    BY <2>8 DEF OwnDone, shared, locals
  <2>9. CASE Return
    <3>1. Owing = {}
      BY <2>9, SubsetCount DEF Return, PendingInv, Owing
    <3>2. QED BY <2>9, <3>1 DEF Return, shared, locals, Owing
  <2>10. CASE DropBump
    BY <2>10 DEF DropBump, locals, WorkerPhases, CallerPhases
  <2>11. CASE DropJoin
    BY <2>11 DEF DropJoin, shared, locals
  <2>12. QED
    BY <1>4, <2>1, <2>2, <2>3, <2>4, <2>5, <2>6, <2>7, <2>8, <2>9, <2>10, <2>11
       DEF CallerStep
<1>5. ASSUME NEW w \in Workers, WorkerStep(w) \/ WakeByTimeout(w) PROVE GenerationInv'
  <2> USE DEF Goto
  <2>1. CASE SeeGeneration(w)
    BY <2>1 DEF SeeGeneration, shared, caller
  <2>2. CASE BudgetSpent(w)
    BY <2>2 DEF BudgetSpent, shared, caller, locals
  <2>3. CASE AnnouncePark(w)
    BY <2>3 DEF AnnouncePark, caller, locals
  <2>4. CASE RecheckGeneration(w)
    BY <2>4 DEF RecheckGeneration, shared, caller, locals
  <2>5. CASE RecheckShutdown(w)
    BY <2>5 DEF RecheckShutdown, shared, caller, locals
  <2>6. CASE WakeByToken(w) \/ WakeByTimeout(w)
    BY <2>6 DEF WakeByToken, WakeByTimeout, shared, caller, locals
  <2>7. CASE RetractPark(w)
    BY <2>7 DEF RetractPark, caller, locals
  <2>8. CASE CheckShutdown(w)
    BY <2>8 DEF CheckShutdown, shared, caller, locals
  <2>9. CASE FetchJob(w)
    BY <2>9 DEF FetchJob, shared, caller
  <2>10. CASE RunShard(w)
    BY <2>10 DEF RunShard, shared, caller
  <2>11. CASE FinishShard(w)
    BY <2>11 DEF FinishShard, caller, locals
  <2>12. QED
    BY <1>5, <2>1, <2>2, <2>3, <2>4, <2>5, <2>6, <2>7, <2>8, <2>9, <2>10, <2>11
       DEF WorkerStep
<1>6. CASE UNCHANGED vars
  BY <1>6 DEF vars
<1>7. QED
  BY <1>1, <1>2, <1>3, <1>4, <1>5, <1>6 DEF Next

LEMMA StepWorker == IInv /\ [Next]_vars => WorkerInv'
<1> SUFFICES ASSUME IInv, [Next]_vars PROVE WorkerInv'
  OBVIOUS
<1> USE DEF IInv, TypeOK, GenerationInv, WorkerInv, CallerInv, Waiting, Posted, Leaving
<1>1. CASE DispatchNothing
  BY <1>1 DEF DispatchNothing, shared, locals
<1>2. ASSUME NEW n \in JobSizes, Dispatch(n) PROVE WorkerInv'
  BY <1>2 DEF Dispatch, shared, locals
<1>3. CASE DropShutdown
  BY <1>3 DEF DropShutdown, locals
<1>4. CASE CallerStep
  <2>1. CASE PublishJob
    BY <2>1 DEF PublishJob, locals
  <2>2. CASE SetPending
    BY <2>2 DEF SetPending, locals
  <2>3. CASE BumpGeneration
    BY <2>3 DEF BumpGeneration, locals, WorkerPhases, CallerPhases
  <2>4. CASE CheckParked
    BY <2>4 DEF CheckParked, shared, locals
  <2>5. CASE Unpark
    BY <2>5 DEF Unpark, shared, locals
  <2>6. CASE UnparkedAll
    BY <2>6 DEF UnparkedAll, shared, locals
  <2>7. CASE RunOwn
    BY <2>7 DEF RunOwn, shared, locals
  <2>8. CASE OwnDone
    BY <2>8 DEF OwnDone, shared, locals
  <2>9. CASE Return
    <3>1. Owing = {}
      BY <2>9, SubsetCount DEF Return, PendingInv, Owing
    <3>2. QED BY <2>9, <3>1 DEF Return, shared, locals, Owing
  <2>10. CASE DropBump
    BY <2>10 DEF DropBump, locals, WorkerPhases, CallerPhases
  <2>11. CASE DropJoin
    BY <2>11 DEF DropJoin, shared, locals
  <2>12. QED
    BY <1>4, <2>1, <2>2, <2>3, <2>4, <2>5, <2>6, <2>7, <2>8, <2>9, <2>10, <2>11
       DEF CallerStep
<1>5. ASSUME NEW w \in Workers, WorkerStep(w) \/ WakeByTimeout(w) PROVE WorkerInv'
  <2> USE DEF Goto
  <2>1. CASE SeeGeneration(w)
    BY <2>1 DEF SeeGeneration, shared, caller
  <2>2. CASE BudgetSpent(w)
    BY <2>2 DEF BudgetSpent, shared, caller, locals
  <2>3. CASE AnnouncePark(w)
    BY <2>3 DEF AnnouncePark, caller, locals
  <2>4. CASE RecheckGeneration(w)
    BY <2>4 DEF RecheckGeneration, shared, caller, locals
  <2>5. CASE RecheckShutdown(w)
    BY <2>5 DEF RecheckShutdown, shared, caller, locals
  <2>6. CASE WakeByToken(w) \/ WakeByTimeout(w)
    BY <2>6 DEF WakeByToken, WakeByTimeout, shared, caller, locals
  <2>7. CASE RetractPark(w)
    BY <2>7 DEF RetractPark, caller, locals
  <2>8. CASE CheckShutdown(w)
    BY <2>8 DEF CheckShutdown, shared, caller, locals
  <2>9. CASE FetchJob(w)
    <3>1. jobN = size /\ job = issued
      BY <2>9 DEF FetchJob
    <3>2. ShardStart(w, size) \in Nat /\ ShardStart(w, size) <= ShardEnd(w, size)
      BY ShardType, LaneOfWorker
    <3>3. QED BY <2>9, <3>1, <3>2 DEF FetchJob, shared, caller
  <2>10. CASE RunShard(w)
    <3>1. ShardEnd(w, size) \in Nat /\ ShardStart(w, size) \in Nat
      BY ShardType, LaneOfWorker
    <3>2. QED BY <2>10, <3>1 DEF RunShard, shared, caller
  <2>11. CASE FinishShard(w)
    BY <2>11 DEF FinishShard, caller, locals
  <2>12. QED
    BY <1>5, <2>1, <2>2, <2>3, <2>4, <2>5, <2>6, <2>7, <2>8, <2>9, <2>10, <2>11
       DEF WorkerStep
<1>6. CASE UNCHANGED vars
  BY <1>6 DEF vars
<1>7. QED
  BY <1>1, <1>2, <1>3, <1>4, <1>5, <1>6 DEF Next

LEMMA StepCaller == IInv /\ [Next]_vars => CallerInv'
<1> SUFFICES ASSUME IInv, [Next]_vars PROVE CallerInv'
  OBVIOUS
<1> USE DEF IInv, TypeOK, GenerationInv, WorkerInv, CallerInv, Waiting, Posted, Leaving, Preparing
<1>1. CASE DispatchNothing
  BY <1>1 DEF DispatchNothing, shared, locals
<1>2. ASSUME NEW n \in JobSizes, Dispatch(n) PROVE CallerInv'
  <2>1. /\ n \in Nat /\ 0 \in 0 .. Lanes - 1
        /\ Lanes = 1 => Workers = {}
    BY LanesType, PoolAssumption DEF Workers
  <2>2. ShardStart(0, n) <= ShardEnd(0, n) /\ ShardStart(0, n) \in Nat
    BY <2>1, ShardType
  <2>3. QED BY <1>2, <2>1, <2>2 DEF Dispatch, shared, locals
<1>3. CASE DropShutdown
  BY <1>3 DEF DropShutdown, locals
<1>4. CASE CallerStep
  <2>1. CASE PublishJob
    BY <2>1 DEF PublishJob, locals
  <2>2. CASE SetPending
    BY <2>2 DEF SetPending, locals
  <2>3. CASE BumpGeneration
    BY <2>3 DEF BumpGeneration, locals
  <2>4. CASE CheckParked
    <3>1. ShardStart(0, size) <= ShardEnd(0, size) /\ ShardStart(0, size) \in Nat
      BY ShardType, LanesType
    <3>2. QED BY <2>4, <3>1 DEF CheckParked, shared, locals
  <2>5. CASE Unpark
    BY <2>5 DEF Unpark, shared, locals
  <2>6. CASE UnparkedAll
    <3>1. ShardStart(0, size) <= ShardEnd(0, size) /\ ShardStart(0, size) \in Nat
      BY ShardType, LanesType
    <3>2. QED BY <2>6, <3>1 DEF UnparkedAll, shared, locals
  <2>7. CASE RunOwn
    BY <2>7, ShardType, LanesType DEF RunOwn, shared, locals
  <2>8. CASE OwnDone
    BY <2>8 DEF OwnDone, shared, locals
  <2>9. CASE Return
    BY <2>9 DEF Return, shared, locals
  <2>10. CASE DropBump
    BY <2>10 DEF DropBump, locals
  <2>11. CASE DropJoin
    BY <2>11 DEF DropJoin, shared, locals
  <2>12. QED
    BY <1>4, <2>1, <2>2, <2>3, <2>4, <2>5, <2>6, <2>7, <2>8, <2>9, <2>10, <2>11
       DEF CallerStep
<1>5. ASSUME NEW w \in Workers, WorkerStep(w) \/ WakeByTimeout(w) PROVE CallerInv'
  <2> USE DEF Goto
  <2>1. CASE SeeGeneration(w)
    BY <2>1 DEF SeeGeneration, shared, caller
  <2>2. CASE BudgetSpent(w)
    BY <2>2 DEF BudgetSpent, shared, caller, locals
  <2>3. CASE AnnouncePark(w)
    BY <2>3 DEF AnnouncePark, caller, locals
  <2>4. CASE RecheckGeneration(w)
    BY <2>4 DEF RecheckGeneration, shared, caller, locals
  <2>5. CASE RecheckShutdown(w)
    BY <2>5 DEF RecheckShutdown, shared, caller, locals
  <2>6. CASE WakeByToken(w) \/ WakeByTimeout(w)
    BY <2>6 DEF WakeByToken, WakeByTimeout, shared, caller, locals
  <2>7. CASE RetractPark(w)
    BY <2>7 DEF RetractPark, caller, locals
  <2>8. CASE CheckShutdown(w)
    BY <2>8 DEF CheckShutdown, shared, caller, locals
  <2>9. CASE FetchJob(w)
    BY <2>9 DEF FetchJob, shared, caller
  <2>10. CASE RunShard(w)
    BY <2>10 DEF RunShard, shared, caller
  <2>11. CASE FinishShard(w)
    BY <2>11 DEF FinishShard, caller, locals
  <2>12. QED
    BY <1>5, <2>1, <2>2, <2>3, <2>4, <2>5, <2>6, <2>7, <2>8, <2>9, <2>10, <2>11
       DEF WorkerStep
<1>6. CASE UNCHANGED vars
  BY <1>6 DEF vars
<1>7. QED
  BY <1>1, <1>2, <1>3, <1>4, <1>5, <1>6 DEF Next

LEMMA StepPending == IInv /\ [Next]_vars => PendingInv'
<1> SUFFICES ASSUME IInv, [Next]_vars PROVE PendingInv'
  OBVIOUS
<1> USE DEF IInv, TypeOK, GenerationInv, WorkerInv, CallerInv, PendingInv, Waiting, Preparing, Posted, Leaving
<1>1. CASE DispatchNothing
  BY <1>1 DEF DispatchNothing, shared, locals
<1>2. ASSUME NEW n \in JobSizes, Dispatch(n) PROVE PendingInv'
  <2>1. Lanes = 1 => Workers = {}
    BY DEF Workers
  <2>2. Workers = {} => Owing' = {}
    BY DEF Owing
  <2>3. QED BY <1>2, <2>1, <2>2, FS_EmptySet DEF Dispatch, shared, locals
<1>3. CASE DropShutdown
  BY <1>3 DEF DropShutdown, locals
<1>4. CASE CallerStep
  <2>1. CASE PublishJob
    BY <2>1 DEF PublishJob, locals
  <2>2. CASE SetPending
    BY <2>2 DEF SetPending, locals
  <2>3. CASE BumpGeneration
    <3>1. Owing' = Workers
      BY <2>3 DEF BumpGeneration, locals, Owing
    <3>2. QED BY <2>3, <3>1, WorkersFinite DEF BumpGeneration, locals
  <2>4. CASE CheckParked
    <3>1. Owing' = Owing
      BY <2>4 DEF CheckParked, shared, locals, Owing
    <3>2. QED BY <2>4, <3>1 DEF CheckParked, shared, locals
  <2>5. CASE Unpark
    <3>1. Owing' = Owing
      BY <2>5 DEF Unpark, shared, locals, Owing
    <3>2. QED BY <2>5, <3>1 DEF Unpark, shared, locals
  <2>6. CASE UnparkedAll
    <3>1. Owing' = Owing
      BY <2>6 DEF UnparkedAll, shared, locals, Owing
    <3>2. QED BY <2>6, <3>1 DEF UnparkedAll, shared, locals
  <2>7. CASE RunOwn
    <3>1. Owing' = Owing
      BY <2>7 DEF RunOwn, shared, locals, Owing
    <3>2. QED BY <2>7, <3>1 DEF RunOwn, shared, locals
  <2>8. CASE OwnDone
    <3>1. Owing' = Owing
      BY <2>8 DEF OwnDone, shared, locals, Owing
    <3>2. QED BY <2>8, <3>1 DEF OwnDone, shared, locals
  <2>9. CASE Return
    BY <2>9 DEF Return, shared, locals
  <2>10. CASE DropBump
    BY <2>10 DEF DropBump, locals
  <2>11. CASE DropJoin
    <3>1. Owing' = Owing
      BY <2>11 DEF DropJoin, shared, locals, Owing
    <3>2. QED BY <2>11, <3>1 DEF DropJoin, shared, locals
  <2>12. QED
    BY <1>4, <2>1, <2>2, <2>3, <2>4, <2>5, <2>6, <2>7, <2>8, <2>9, <2>10, <2>11
       DEF CallerStep
<1>5. ASSUME NEW w \in Workers, WorkerStep(w) \/ WakeByTimeout(w) PROVE PendingInv'
  <2> USE DEF Goto
  <2>1. CASE SeeGeneration(w)
    <3>1. Owing' = Owing
      BY <2>1 DEF SeeGeneration, shared, caller, Owing
    <3>2. QED BY <2>1, <3>1 DEF SeeGeneration, shared, caller
  <2>2. CASE BudgetSpent(w)
    <3>1. Owing' = Owing
      BY <2>2 DEF BudgetSpent, shared, caller, locals, Owing
    <3>2. QED BY <2>2, <3>1 DEF BudgetSpent, shared, caller, locals
  <2>3. CASE AnnouncePark(w)
    <3>1. Owing' = Owing
      BY <2>3 DEF AnnouncePark, caller, locals, Owing
    <3>2. QED BY <2>3, <3>1 DEF AnnouncePark, caller, locals
  <2>4. CASE RecheckGeneration(w)
    <3>1. Owing' = Owing
      BY <2>4 DEF RecheckGeneration, shared, caller, locals, Owing
    <3>2. QED BY <2>4, <3>1 DEF RecheckGeneration, shared, caller, locals
  <2>5. CASE RecheckShutdown(w)
    <3>1. Owing' = Owing
      BY <2>5 DEF RecheckShutdown, shared, caller, locals, Owing
    <3>2. QED BY <2>5, <3>1 DEF RecheckShutdown, shared, caller, locals
  <2>6. CASE WakeByToken(w) \/ WakeByTimeout(w)
    <3>1. Owing' = Owing
      BY <2>6 DEF WakeByToken, WakeByTimeout, shared, caller, locals, Owing
    <3>2. QED BY <2>6, <3>1 DEF WakeByToken, WakeByTimeout, shared, caller, locals
  <2>7. CASE RetractPark(w)
    <3>1. Owing' = Owing
      BY <2>7 DEF RetractPark, caller, locals, Owing
    <3>2. QED BY <2>7, <3>1 DEF RetractPark, caller, locals
  <2>8. CASE CheckShutdown(w)
    <3>1. CASE shutdown
      BY <2>8, <3>1 DEF CheckShutdown, shared, caller, locals
    <3>2. CASE ~shutdown
      <4>1. Owing' = Owing
        BY <2>8, <3>2 DEF CheckShutdown, shared, caller, locals, Owing
      <4>2. QED BY <2>8, <4>1 DEF CheckShutdown, shared, caller, locals
    <3>3. QED BY <3>1, <3>2
  <2>9. CASE FetchJob(w)
    <3>1. Owing' = Owing
      BY <2>9 DEF FetchJob, shared, caller, Owing
    <3>2. QED BY <2>9, <3>1 DEF FetchJob, shared, caller
  <2>10. CASE RunShard(w)
    <3>1. Owing' = Owing
      BY <2>10 DEF RunShard, shared, caller, Owing
    <3>2. QED BY <2>10, <3>1 DEF RunShard, shared, caller
  <2>11. CASE FinishShard(w)
    <3>1. w \in Owing /\ Owing' = Owing \ {w}
      BY <2>11 DEF FinishShard, caller, locals, Owing
    <3>2. Cardinality(Owing') = Cardinality(Owing) - 1
      BY <3>1, SubsetCount DEF Owing
    <3>3. QED BY <2>11, <3>2 DEF FinishShard, caller, locals
  <2>12. QED
    BY <1>5, <2>1, <2>2, <2>3, <2>4, <2>5, <2>6, <2>7, <2>8, <2>9, <2>10, <2>11
       DEF WorkerStep
<1>6. CASE UNCHANGED vars
  <2>1. Owing' = Owing
    BY <1>6 DEF vars, Owing
  <2>2. QED BY <1>6, <2>1 DEF vars
<1>7. QED
  BY <1>1, <1>2, <1>3, <1>4, <1>5, <1>6 DEF Next

LEMMA StepParked == IInv /\ [Next]_vars => ParkedInv'
<1> SUFFICES ASSUME IInv, [Next]_vars PROVE ParkedInv'
  OBVIOUS
<1> USE DEF IInv, TypeOK, ParkedInv, Announced
<1>1. CASE DispatchNothing
  <2>1. Parking' = Parking
    BY <1>1 DEF DispatchNothing, shared, locals, Parking
  <2>2. QED BY <1>1, <2>1 DEF DispatchNothing, shared, locals
<1>2. ASSUME NEW n \in JobSizes, Dispatch(n) PROVE ParkedInv'
  <2>1. Parking' = Parking
    BY <1>2 DEF Dispatch, shared, locals, Parking
  <2>2. QED BY <1>2, <2>1 DEF Dispatch, shared, locals
<1>3. CASE DropShutdown
  <2>1. Parking' = Parking
    BY <1>3 DEF DropShutdown, locals, Parking
  <2>2. QED BY <1>3, <2>1 DEF DropShutdown, locals
<1>4. CASE CallerStep
  <2>1. CASE PublishJob
    <3>1. Parking' = Parking
      BY <2>1 DEF PublishJob, locals, Parking
    <3>2. QED BY <2>1, <3>1 DEF PublishJob, locals
  <2>2. CASE SetPending
    <3>1. Parking' = Parking
      BY <2>2 DEF SetPending, locals, Parking
    <3>2. QED BY <2>2, <3>1 DEF SetPending, locals
  <2>3. CASE BumpGeneration
    <3>1. Parking' = Parking
      BY <2>3 DEF BumpGeneration, locals, Parking
    <3>2. QED BY <2>3, <3>1 DEF BumpGeneration, locals
  <2>4. CASE CheckParked
    <3>1. Parking' = Parking
      BY <2>4 DEF CheckParked, shared, locals, Parking
    <3>2. QED BY <2>4, <3>1 DEF CheckParked, shared, locals
  <2>5. CASE Unpark
    <3>1. Parking' = Parking
      BY <2>5 DEF Unpark, shared, locals, Parking
    <3>2. QED BY <2>5, <3>1 DEF Unpark, shared, locals
  <2>6. CASE UnparkedAll
    <3>1. Parking' = Parking
      BY <2>6 DEF UnparkedAll, shared, locals, Parking
    <3>2. QED BY <2>6, <3>1 DEF UnparkedAll, shared, locals
  <2>7. CASE RunOwn
    <3>1. Parking' = Parking
      BY <2>7 DEF RunOwn, shared, locals, Parking
    <3>2. QED BY <2>7, <3>1 DEF RunOwn, shared, locals
  <2>8. CASE OwnDone
    <3>1. Parking' = Parking
      BY <2>8 DEF OwnDone, shared, locals, Parking
    <3>2. QED BY <2>8, <3>1 DEF OwnDone, shared, locals
  <2>9. CASE Return
    <3>1. Parking' = Parking
      BY <2>9 DEF Return, shared, locals, Parking
    <3>2. QED BY <2>9, <3>1 DEF Return, shared, locals
  <2>10. CASE DropBump
    <3>1. Parking' = Parking
      BY <2>10 DEF DropBump, locals, Parking
    <3>2. QED BY <2>10, <3>1 DEF DropBump, locals
  <2>11. CASE DropJoin
    <3>1. Parking' = Parking
      BY <2>11 DEF DropJoin, shared, locals, Parking
    <3>2. QED BY <2>11, <3>1 DEF DropJoin, shared, locals
  <2>12. QED
    BY <1>4, <2>1, <2>2, <2>3, <2>4, <2>5, <2>6, <2>7, <2>8, <2>9, <2>10, <2>11
       DEF CallerStep
<1>5. ASSUME NEW w \in Workers, WorkerStep(w) \/ WakeByTimeout(w) PROVE ParkedInv'
  <2> USE DEF Goto
  <2>1. CASE SeeGeneration(w)
    <3>1. Parking' = Parking
      BY <2>1 DEF SeeGeneration, shared, caller, Parking
    <3>2. QED BY <2>1, <3>1 DEF SeeGeneration, shared, caller
  <2>2. CASE BudgetSpent(w)
    <3>1. Parking' = Parking
      BY <2>2 DEF BudgetSpent, shared, caller, locals, Parking
    <3>2. QED BY <2>2, <3>1 DEF BudgetSpent, shared, caller, locals
  <2>3. CASE AnnouncePark(w)
    <3>1. w \in Workers \ Parking /\ Parking' = Parking \cup {w}
      BY <2>3 DEF AnnouncePark, caller, locals, Parking
    <3>2. Cardinality(Parking') = Cardinality(Parking) + 1
      BY <3>1, SubsetCount DEF Parking
    <3>3. QED BY <2>3, <3>2 DEF AnnouncePark, caller, locals
  <2>4. CASE RecheckGeneration(w)
    <3>1. Parking' = Parking
      BY <2>4 DEF RecheckGeneration, shared, caller, locals, Parking
    <3>2. QED BY <2>4, <3>1 DEF RecheckGeneration, shared, caller, locals
  <2>5. CASE RecheckShutdown(w)
    <3>1. Parking' = Parking
      BY <2>5 DEF RecheckShutdown, shared, caller, locals, Parking
    <3>2. QED BY <2>5, <3>1 DEF RecheckShutdown, shared, caller, locals
  <2>6. CASE WakeByToken(w) \/ WakeByTimeout(w)
    <3>1. Parking' = Parking
      BY <2>6 DEF WakeByToken, WakeByTimeout, shared, caller, locals, Parking
    <3>2. QED BY <2>6, <3>1 DEF WakeByToken, WakeByTimeout, shared, caller, locals
  <2>7. CASE RetractPark(w)
    <3>1. w \in Parking /\ Parking' = Parking \ {w}
      BY <2>7 DEF RetractPark, caller, locals, Parking
    <3>2. Cardinality(Parking') = Cardinality(Parking) - 1
      BY <3>1, SubsetCount DEF Parking
    <3>3. QED BY <2>7, <3>2 DEF RetractPark, caller, locals
  <2>8. CASE CheckShutdown(w)
    <3>1. Parking' = Parking
      BY <2>8 DEF CheckShutdown, shared, caller, locals, Parking
    <3>2. QED BY <2>8, <3>1 DEF CheckShutdown, shared, caller, locals
  <2>9. CASE FetchJob(w)
    <3>1. Parking' = Parking
      BY <2>9 DEF FetchJob, shared, caller, Parking
    <3>2. QED BY <2>9, <3>1 DEF FetchJob, shared, caller
  <2>10. CASE RunShard(w)
    <3>1. Parking' = Parking
      BY <2>10 DEF RunShard, shared, caller, Parking
    <3>2. QED BY <2>10, <3>1 DEF RunShard, shared, caller
  <2>11. CASE FinishShard(w)
    <3>1. Parking' = Parking
      BY <2>11 DEF FinishShard, caller, locals, Parking
    <3>2. QED BY <2>11, <3>1 DEF FinishShard, caller, locals
  <2>12. QED
    BY <1>5, <2>1, <2>2, <2>3, <2>4, <2>5, <2>6, <2>7, <2>8, <2>9, <2>10, <2>11
       DEF WorkerStep
<1>6. CASE UNCHANGED vars
  <2>1. Parking' = Parking
    BY <1>6 DEF vars, Parking
  <2>2. QED BY <1>6, <2>1 DEF vars
<1>7. QED
  BY <1>1, <1>2, <1>3, <1>4, <1>5, <1>6 DEF Next

LEMMA StepType == IInv /\ [Next]_vars => TypeOK'
<1> SUFFICES ASSUME IInv, [Next]_vars PROVE TypeOK'
  OBVIOUS
<1>0. staleLoads' = staleLoads
  BY DEF Next, vars
<1> USE <1>0 DEF IInv, TypeOK, CallerPhases, WorkerPhases
<1>1. CASE DispatchNothing
  BY <1>1 DEF DispatchNothing, shared, locals, Indices
<1>2. ASSUME NEW n \in JobSizes, Dispatch(n) PROVE TypeOK'
  <2>1. n \in Nat /\ ShardStart(0, n) \in Nat
    BY PoolAssumption, ShardType, LaneOfWorker
  <2>2. QED BY <1>2, <2>1 DEF Dispatch, shared, locals
<1>3. CASE DropShutdown
  BY <1>3 DEF DropShutdown, locals
<1>4. CASE CallerStep
  <2>1. CASE PublishJob
    BY <2>1 DEF PublishJob, locals
  <2>2. CASE SetPending
    BY <2>2, LanesType DEF SetPending, locals
  <2>3. CASE BumpGeneration
    BY <2>3 DEF BumpGeneration, locals
  <2>4. CASE CheckParked
    BY <2>4 DEF CheckParked, shared, locals
  <2>5. CASE Unpark
    BY <2>5, LaneOfWorker DEF Unpark, shared, locals
  <2>6. CASE UnparkedAll
    BY <2>6, ShardType, LaneOfWorker DEF UnparkedAll, shared, locals
  <2>7. CASE RunOwn
    <3>1. [ran EXCEPT ![cur0] = @ + 1] \in [Indices(size) -> Nat]
      <4>1. CASE cur0 \in Indices(size)
        <5>1. ran[cur0] + 1 \in Nat
          BY <4>1
        <5>2. QED BY <5>1
      <4>2. CASE cur0 \notin Indices(size)
        BY <4>2
      <4>3. QED BY <4>1, <4>2
    <3>2. QED BY <2>7, <3>1 DEF RunOwn, shared, locals
  <2>8. CASE OwnDone
    BY <2>8 DEF OwnDone, shared, locals
  <2>9. CASE Return
    BY <2>9 DEF Return, shared, locals
  <2>10. CASE DropBump
    BY <2>10 DEF DropBump, locals
  <2>11. CASE DropJoin
    BY <2>11 DEF DropJoin, shared, locals
  <2>12. QED
    BY <1>4, <2>1, <2>2, <2>3, <2>4, <2>5, <2>6, <2>7, <2>8, <2>9, <2>10, <2>11
       DEF CallerStep
<1>5. ASSUME NEW w \in Workers, WorkerStep(w) \/ WakeByTimeout(w) PROVE TypeOK'
  <2> USE DEF Goto
  <2>1. CASE SeeGeneration(w)
    BY <2>1 DEF SeeGeneration, shared, caller
  <2>2. CASE BudgetSpent(w)
    BY <2>2 DEF BudgetSpent, shared, caller, locals
  <2>3. CASE AnnouncePark(w)
    <3>1. parked' \in 0 .. Lanes - 1
      BY StepParked, SubsetCount DEF ParkedInv, Parking
    <3>2. QED BY <2>3, <3>1 DEF AnnouncePark, caller, locals
  <2>4. CASE RecheckGeneration(w)
    BY <2>4 DEF RecheckGeneration, shared, caller, locals
  <2>5. CASE RecheckShutdown(w)
    BY <2>5 DEF RecheckShutdown, shared, caller, locals
  <2>6. CASE WakeByToken(w) \/ WakeByTimeout(w)
    BY <2>6 DEF WakeByToken, WakeByTimeout, shared, caller, locals
  <2>7. CASE RetractPark(w)
    <3>1. parked' \in 0 .. Lanes - 1
      BY StepParked, SubsetCount DEF ParkedInv, Parking
    <3>2. QED BY <2>7, <3>1 DEF RetractPark, caller, locals
  <2>8. CASE CheckShutdown(w)
    BY <2>8 DEF CheckShutdown, shared, caller, locals
  <2>9. CASE FetchJob(w)
    BY <2>9, ShardType, LaneOfWorker DEF FetchJob, shared, caller
  <2>10. CASE RunShard(w)
    <3>1. [ran EXCEPT ![cur[w]] = @ + 1] \in [Indices(size) -> Nat]
      <4>1. CASE cur[w] \in Indices(size)
        <5>1. ran[cur[w]] + 1 \in Nat
          BY <4>1
        <5>2. QED BY <5>1
      <4>2. CASE cur[w] \notin Indices(size)
        BY <4>2
      <4>3. QED BY <4>1, <4>2
    <3>2. QED BY <2>10, <3>1 DEF RunShard, shared, caller
  <2>11. CASE FinishShard(w)
    <3>1. w \in Owing /\ cpc \in Posted
      BY <2>11 DEF FinishShard, Owing, WorkerInv
    <3>2. pending = Cardinality(Owing) /\ Cardinality(Owing \ {w}) = Cardinality(Owing) - 1
      BY <3>1, SubsetCount DEF PendingInv, Owing
    <3>3. Cardinality(Owing) \in 0 .. Lanes - 1 /\ Cardinality(Owing \ {w}) \in 0 .. Lanes - 1
      BY SubsetCount DEF Owing
    <3>4. QED BY <2>11, <3>2, <3>3, LanesType DEF FinishShard, caller, locals
  <2>12. QED
    BY <1>5, <2>1, <2>2, <2>3, <2>4, <2>5, <2>6, <2>7, <2>8, <2>9, <2>10, <2>11
       DEF WorkerStep
<1>6. CASE UNCHANGED vars
  BY <1>6 DEF vars
<1>7. QED
  BY <1>1, <1>2, <1>3, <1>4, <1>5, <1>6 DEF Next

LEMMA ReturnComplete ==
  ASSUME IInv, Return
  PROVE  \A i \in Indices(size) : ran[i] = 1
<1> USE DEF IInv, TypeOK, RanInv, Posted
<1>1. Owing = {}
  BY SubsetCount DEF Return, PendingInv, Owing
<1>2. \A l \in 0 .. Lanes - 1 : Progress(l) = ShardEnd(l, size)
  BY <1>1, LaneOfWorker DEF Return, Progress, Owing, Workers, Preparing
<1>3. ASSUME NEW i \in Indices(size) PROVE ran[i] = 1
  <2>1. PICK l \in 0 .. Lanes - 1 : i \in ShardStart(l, size) .. ShardEnd(l, size) - 1
    BY ShardCover
  <2>2. ShardStart(l, size) \in Nat /\ ShardEnd(l, size) \in Nat
    BY ShardType
  <2>3. QED BY <1>2, <2>1, <2>2 DEF Return
<1>4. QED BY <1>3

LEMMA StepRan == IInv /\ [Next]_vars => RanInv'
<1> SUFFICES ASSUME IInv, [Next]_vars PROVE RanInv'
  OBVIOUS
<1> USE DEF IInv, TypeOK, RanInv, Preparing, Posted
<1>1. CASE DispatchNothing
  BY <1>1 DEF DispatchNothing, shared, locals, Indices
<1>2. ASSUME NEW n \in JobSizes, Dispatch(n) PROVE RanInv'
  <2>1. n \in Nat
    BY PoolAssumption
  <2>2. \A l \in Workers : Progress(l)' = ShardStart(l, n)
    BY <1>2, LaneOfWorker DEF Dispatch, shared, locals, Progress, WorkerInv, Workers
  <2>3. Progress(0)' = ShardStart(0, n)
    BY <1>2 DEF Dispatch, shared, locals, Progress
  <2>4. \A l \in 0 .. Lanes - 1 : Progress(l)' = ShardStart(l, n)
    BY <2>2, <2>3, LanesType DEF Workers
  <2>5. \A l \in 0 .. Lanes - 1 : /\ ShardStart(l, n) \in Nat
                                  /\ ShardEnd(l, n) \in Nat
                                  /\ ShardEnd(l, n) <= n
    BY <2>1, ShardType
  <2>6. QED BY <1>2, <2>1, <2>4, <2>5 DEF Dispatch, shared, locals, Indices
<1>3. CASE DropShutdown
  BY <1>3 DEF DropShutdown, locals
<1>4. CASE CallerStep
  <2>1. CASE PublishJob
    <3>1. cpc \in Preparing \cup Posted =>
             \A l \in 0 .. Lanes - 1 : Progress(l)' = Progress(l)
      BY <2>1, LaneOfWorker DEF PublishJob, locals, Progress, Owing
    <3>2. QED BY <2>1, <3>1 DEF PublishJob, locals
  <2>2. CASE SetPending
    <3>1. cpc \in Preparing \cup Posted =>
             \A l \in 0 .. Lanes - 1 : Progress(l)' = Progress(l)
      BY <2>2, LaneOfWorker DEF SetPending, locals, Progress, Owing
    <3>2. QED BY <2>2, <3>1 DEF SetPending, locals
  <2>3. CASE BumpGeneration
    <3>1. cpc \in Preparing \cup Posted =>
             \A l \in 0 .. Lanes - 1 : Progress(l)' = Progress(l)
      BY <2>3, LaneOfWorker DEF BumpGeneration, locals, Progress, Owing, GenerationInv, WorkerInv
    <3>2. QED BY <2>3, <3>1 DEF BumpGeneration, locals
  <2>4. CASE CheckParked
    <3>1. cpc \in Preparing \cup Posted =>
             \A l \in 0 .. Lanes - 1 : Progress(l)' = Progress(l)
      BY <2>4, LaneOfWorker DEF CheckParked, shared, locals, Progress, Owing, CallerInv
    <3>2. QED BY <2>4, <3>1 DEF CheckParked, shared, locals
  <2>5. CASE Unpark
    <3>1. cpc \in Preparing \cup Posted =>
             \A l \in 0 .. Lanes - 1 : Progress(l)' = Progress(l)
      BY <2>5, LaneOfWorker DEF Unpark, shared, locals, Progress, Owing
    <3>2. QED BY <2>5, <3>1 DEF Unpark, shared, locals
  <2>6. CASE UnparkedAll
    <3>1. cpc \in Preparing \cup Posted =>
             \A l \in 0 .. Lanes - 1 : Progress(l)' = Progress(l)
      BY <2>6, LaneOfWorker DEF UnparkedAll, shared, locals, Progress, Owing
    <3>2. QED BY <2>6, <3>1 DEF UnparkedAll, shared, locals
  <2>7. CASE RunOwn
    <3>1. /\ size \in Nat /\ 0 \in 0 .. Lanes - 1 /\ cur0 \in Nat
          /\ ShardStart(0, size) <= cur0 /\ cur0 < ShardEnd(0, size)
          /\ cpc \in Posted /\ ran' = [ran EXCEPT ![cur0] = @ + 1]
      BY <2>7, LaneOfWorker DEF RunOwn, shared, locals, CallerInv
    <3>2. \A l \in 0 .. Lanes - 1 : /\ ShardStart(l, size) \in Nat
                                    /\ ShardEnd(l, size) \in Nat
                                    /\ ShardEnd(l, size) <= size
      BY <3>1, ShardType
    <3>3. cur0 \in Indices(size)
      BY <3>1, <3>2 DEF Indices
    <3>4. Progress(0) = cur0 /\ Progress(0)' = cur0 + 1
      BY <2>7, LaneOfWorker DEF RunOwn, shared, locals, Progress
    <3>5. \A l \in 0 .. Lanes - 1 : l # 0 => Progress(l)' = Progress(l)
      BY <2>7, LaneOfWorker DEF RunOwn, shared, locals, Progress, Owing
    <3>6. \A l \in 0 .. Lanes - 1 : l # 0 =>
             cur0 \notin ShardStart(l, size) .. ShardEnd(l, size) - 1
      <4>1. ASSUME NEW l \in 0 .. Lanes - 1, l # 0
            PROVE  ShardEnd(l, size) <= ShardStart(0, size) \/ ShardEnd(0, size) <= ShardStart(l, size)
        BY <3>1, <4>1, ShardOrder, LanesType
      <4>2. QED BY <3>1, <3>2, <4>1
    <3>7. ASSUME NEW l \in 0 .. Lanes - 1,
                 NEW i \in ShardStart(l, size) .. ShardEnd(l, size) - 1
          PROVE  ran'[i] = IF i < Progress(l)' THEN 1 ELSE 0
      <4>1. i \in Indices(size) /\ i \in Nat
        BY <3>2 DEF Indices
      <4>2. ran[i] = IF i < Progress(l) THEN 1 ELSE 0
        BY <3>1
      <4>3. CASE l = 0
        BY <3>1, <3>3, <3>4, <4>1, <4>2, <4>3
      <4>4. CASE l # 0
        BY <3>1, <3>3, <3>5, <3>6, <4>1, <4>2, <4>4
      <4>5. QED BY <4>3, <4>4
    <3>8. QED BY <2>7, <3>1, <3>7 DEF RunOwn, shared, locals
  <2>8. CASE OwnDone
    <3>1. cpc \in Preparing \cup Posted =>
             \A l \in 0 .. Lanes - 1 : Progress(l)' = Progress(l)
      BY <2>8, LaneOfWorker DEF OwnDone, shared, locals, Progress, Owing
    <3>2. QED BY <2>8, <3>1 DEF OwnDone, shared, locals
  <2>9. CASE Return
    <3>1. \A i \in Indices(size) : ran[i] = 1
      BY <2>9, ReturnComplete
    <3>2. QED BY <2>9, <3>1 DEF Return, shared, locals
  <2>10. CASE DropBump
    BY <2>10 DEF DropBump, locals
  <2>11. CASE DropJoin
    BY <2>11 DEF DropJoin, shared, locals
  <2>12. QED
    BY <1>4, <2>1, <2>2, <2>3, <2>4, <2>5, <2>6, <2>7, <2>8, <2>9, <2>10, <2>11
       DEF CallerStep
<1>5. ASSUME NEW w \in Workers, WorkerStep(w) \/ WakeByTimeout(w) PROVE RanInv'
  <2> USE DEF Goto
  <2>1. CASE SeeGeneration(w)
    <3>1. cpc \in Preparing \cup Posted =>
             \A l \in 0 .. Lanes - 1 : Progress(l)' = Progress(l)
      BY <2>1, LaneOfWorker DEF SeeGeneration, shared, caller, Progress, Owing, GenerationInv
    <3>2. QED BY <2>1, <3>1 DEF SeeGeneration, shared, caller
  <2>2. CASE BudgetSpent(w)
    <3>1. cpc \in Preparing \cup Posted =>
             \A l \in 0 .. Lanes - 1 : Progress(l)' = Progress(l)
      BY <2>2, LaneOfWorker DEF BudgetSpent, shared, caller, locals, Progress, Owing
    <3>2. QED BY <2>2, <3>1 DEF BudgetSpent, shared, caller, locals
  <2>3. CASE AnnouncePark(w)
    <3>1. cpc \in Preparing \cup Posted =>
             \A l \in 0 .. Lanes - 1 : Progress(l)' = Progress(l)
      BY <2>3, LaneOfWorker DEF AnnouncePark, caller, locals, Progress, Owing
    <3>2. QED BY <2>3, <3>1 DEF AnnouncePark, caller, locals
  <2>4. CASE RecheckGeneration(w)
    <3>1. /\ Owing' = Owing
          /\ \A l \in Workers : wpc'[l] = "run" <=> wpc[l] = "run"
      BY <2>4 DEF RecheckGeneration, shared, caller, locals, Owing
    <3>2. cpc' = cpc /\ cur0' = cur0 /\ size' = size /\ cur' = cur /\ ran' = ran
      BY <2>4 DEF RecheckGeneration, shared, caller, locals
    <3>3. \A l \in 0 .. Lanes - 1 : Progress(l)' = Progress(l)
      <4>1. ASSUME NEW l \in 0 .. Lanes - 1, l = 0 PROVE Progress(l)' = Progress(l)
        BY <3>2, <4>1 DEF Progress
      <4>2. ASSUME NEW l \in 0 .. Lanes - 1, l # 0 PROVE Progress(l)' = Progress(l)
        <5>1. wpc'[l] = "run" <=> wpc[l] = "run"
          BY <3>1, <4>2, LanesType DEF Workers
        <5> QED BY <3>1, <3>2, <4>2, <5>1 DEF Progress
      <4> QED BY <4>1, <4>2
    <3>4. QED BY <3>2, <3>3
  <2>5. CASE RecheckShutdown(w)
    <3>1. cpc \in Preparing \cup Posted =>
             \A l \in 0 .. Lanes - 1 : Progress(l)' = Progress(l)
      BY <2>5, LaneOfWorker DEF RecheckShutdown, shared, caller, locals, Progress, Owing
    <3>2. QED BY <2>5, <3>1 DEF RecheckShutdown, shared, caller, locals
  <2>6. CASE WakeByToken(w) \/ WakeByTimeout(w)
    <3>1. /\ Owing' = Owing
          /\ \A l \in Workers : wpc'[l] = "run" <=> wpc[l] = "run"
      BY <2>6 DEF WakeByToken, WakeByTimeout, shared, caller, locals, Owing
    <3>2. cpc' = cpc /\ cur0' = cur0 /\ size' = size /\ cur' = cur /\ ran' = ran
      BY <2>6 DEF WakeByToken, WakeByTimeout, shared, caller, locals
    <3>3. \A l \in 0 .. Lanes - 1 : Progress(l)' = Progress(l)
      <4>1. ASSUME NEW l \in 0 .. Lanes - 1, l = 0 PROVE Progress(l)' = Progress(l)
        BY <3>2, <4>1 DEF Progress
      <4>2. ASSUME NEW l \in 0 .. Lanes - 1, l # 0 PROVE Progress(l)' = Progress(l)
        <5>1. wpc'[l] = "run" <=> wpc[l] = "run"
          BY <3>1, <4>2, LanesType DEF Workers
        <5> QED BY <3>1, <3>2, <4>2, <5>1 DEF Progress
      <4> QED BY <4>1, <4>2
    <3>4. QED BY <3>2, <3>3
  <2>7. CASE RetractPark(w)
    <3>1. cpc \in Preparing \cup Posted =>
             \A l \in 0 .. Lanes - 1 : Progress(l)' = Progress(l)
      BY <2>7, LaneOfWorker DEF RetractPark, caller, locals, Progress, Owing
    <3>2. QED BY <2>7, <3>1 DEF RetractPark, caller, locals
  <2>8. CASE CheckShutdown(w)
    <3>1. cpc \in Preparing \cup Posted =>
             \A l \in 0 .. Lanes - 1 : Progress(l)' = Progress(l)
      BY <2>8, LaneOfWorker DEF CheckShutdown, shared, caller, locals, Progress, Owing, CallerInv, Leaving
    <3>2. QED BY <2>8, <3>1 DEF CheckShutdown, shared, caller, locals
  <2>9. CASE FetchJob(w)
    <3>1. cpc \in Preparing \cup Posted =>
             \A l \in 0 .. Lanes - 1 : Progress(l)' = Progress(l)
      BY <2>9, LaneOfWorker DEF FetchJob, shared, caller, Progress, Owing, CallerInv, WorkerInv
    <3>2. QED BY <2>9, <3>1 DEF FetchJob, shared, caller
  <2>10. CASE RunShard(w)
    <3>1. /\ size \in Nat /\ w \in 0 .. Lanes - 1 /\ cur[w] \in Nat
          /\ ShardStart(w, size) <= cur[w] /\ cur[w] < ShardEnd(w, size)
          /\ cpc \in Posted /\ ran' = [ran EXCEPT ![cur[w]] = @ + 1]
      BY <2>10, LaneOfWorker DEF RunShard, shared, caller, WorkerInv
    <3>2. \A l \in 0 .. Lanes - 1 : /\ ShardStart(l, size) \in Nat
                                    /\ ShardEnd(l, size) \in Nat
                                    /\ ShardEnd(l, size) <= size
      BY <3>1, ShardType
    <3>3. cur[w] \in Indices(size)
      BY <3>1, <3>2 DEF Indices
    <3>4. Progress(w) = cur[w] /\ Progress(w)' = cur[w] + 1
      BY <2>10, LaneOfWorker DEF RunShard, shared, caller, Progress
    <3>5. \A l \in 0 .. Lanes - 1 : l # w => Progress(l)' = Progress(l)
      BY <2>10, LaneOfWorker DEF RunShard, shared, caller, Progress, Owing
    <3>6. \A l \in 0 .. Lanes - 1 : l # w =>
             cur[w] \notin ShardStart(l, size) .. ShardEnd(l, size) - 1
      <4>1. ASSUME NEW l \in 0 .. Lanes - 1, l # w
            PROVE  ShardEnd(l, size) <= ShardStart(w, size) \/ ShardEnd(w, size) <= ShardStart(l, size)
        BY <3>1, <4>1, ShardOrder, LanesType
      <4>2. QED BY <3>1, <3>2, <4>1
    <3>7. ASSUME NEW l \in 0 .. Lanes - 1,
                 NEW i \in ShardStart(l, size) .. ShardEnd(l, size) - 1
          PROVE  ran'[i] = IF i < Progress(l)' THEN 1 ELSE 0
      <4>1. i \in Indices(size) /\ i \in Nat
        BY <3>2 DEF Indices
      <4>2. ran[i] = IF i < Progress(l) THEN 1 ELSE 0
        BY <3>1
      <4>3. CASE l = w
        BY <3>1, <3>3, <3>4, <4>1, <4>2, <4>3
      <4>4. CASE l # w
        BY <3>1, <3>3, <3>5, <3>6, <4>1, <4>2, <4>4
      <4>5. QED BY <4>3, <4>4
    <3>8. QED BY <2>10, <3>1, <3>7 DEF RunShard, shared, caller
  <2>11. CASE FinishShard(w)
    <3>1. cpc \in Preparing \cup Posted =>
             \A l \in 0 .. Lanes - 1 : Progress(l)' = Progress(l)
      BY <2>11, LaneOfWorker DEF FinishShard, caller, locals, Progress, Owing, GenerationInv, WorkerInv, Waiting
    <3>2. QED BY <2>11, <3>1 DEF FinishShard, caller, locals
  <2>12. QED
    BY <1>5, <2>1, <2>2, <2>3, <2>4, <2>5, <2>6, <2>7, <2>8, <2>9, <2>10, <2>11
       DEF WorkerStep
<1>6. CASE UNCHANGED vars
  <2>1. cpc \in Preparing \cup Posted =>
           \A l \in 0 .. Lanes - 1 : Progress(l)' = Progress(l)
    BY <1>6, LaneOfWorker DEF vars, Progress, Owing
  <2>2. QED BY <1>6, <2>1 DEF vars
<1>7. QED
  BY <1>1, <1>2, <1>3, <1>4, <1>5, <1>6 DEF Next

LEMMA StepIInv == IInv /\ [Next]_vars => IInv'
BY StepType, StepGeneration, StepWorker, StepCaller, StepPending, StepParked, StepRan
   DEF IInv

-----------------------------------------------------------------------------
(* The inductive invariant of the pool: types, and how the counters, the    *)
(* generations and the shards executed so far relate.                       *)
THEOREM PoolInvariant == SafeSpec => []IInv
BY InitIInv, StepIInv, PTL DEF SafeSpec

(* Type correctness: in particular `pending' never goes below zero.         *)
THEOREM PoolTypeOK == SafeSpec => []TypeOK
BY PoolInvariant, PTL DEF IInv

(* When dispatch has returned, every index has been processed exactly once. *)
THEOREM PoolEachIndexOnce == SafeSpec => []EachIndexOnce
<1>1. IInv => EachIndexOnce
  BY DEF IInv, RanInv, EachIndexOnce, Preparing, Posted
<1>2. QED BY PoolInvariant, <1>1, PTL

(* No worker calls through the job pointer of a dispatch that has returned. *)
THEOREM PoolNoDanglingJob == SafeSpec => []NoDanglingJob
<1>1. IInv => NoDanglingJob
  BY DEF IInv, WorkerInv, NoDanglingJob, Posted
<1>2. QED BY PoolInvariant, <1>1, PTL

(* Each worker sees the generations one by one.                             *)
THEOREM PoolNoSkippedGeneration == SafeSpec => NoSkippedGeneration
<1>1. IInv /\ [Next]_vars => [\A w \in Workers : lastGen[w]' # lastGen[w] => lastGen[w]' = lastGen[w] + 1]_vars
  <2>1. SUFFICES ASSUME IInv, Next, NEW v \in Workers, lastGen[v]' # lastGen[v]
                 PROVE  lastGen[v]' = lastGen[v] + 1
    OBVIOUS
  <2>2. lastGen \in [Workers -> Nat]
    BY <2>1 DEF IInv, TypeOK
  <2>3. PICK w \in Workers : SeeGeneration(w)
    BY <2>1 DEF Next, DispatchNothing, Dispatch, DropShutdown, CallerStep, PublishJob,
       SetPending, BumpGeneration, CheckParked, Unpark, UnparkedAll, RunOwn, OwnDone,
       Return, DropBump, DropJoin, WorkerStep, BudgetSpent, AnnouncePark,
       RecheckGeneration, RecheckShutdown, WakeByToken, WakeByTimeout, RetractPark,
       CheckShutdown, FetchJob, RunShard, FinishShard, shared, caller, locals
  <2>4. QED BY <2>1, <2>2, <2>3 DEF SeeGeneration, IInv, GenerationInv
<1>2. QED BY PoolInvariant, <1>1, PTL DEF SafeSpec, NoSkippedGeneration

-----------------------------------------------------------------------------
(* With full fences a wakeup is never lost, so that the park timeout is not *)
(* needed.                                                                  *)

LEMMA StepNoLostWakeup == IInv /\ NoLostWakeup /\ [Next]_vars => NoLostWakeup'
<1>0. staleLoads' = staleLoads \/ ~[Next]_vars
  BY DEF Next, vars
<1> SUFFICES ASSUME IInv, NoLostWakeup, [Next]_vars, ~staleLoads PROVE NoLostWakeup'
  BY <1>0 DEF NoLostWakeup
<1> USE DEF IInv, TypeOK, NoLostWakeup
<1>1. CASE CheckParked
  <2>1. CASE parked = 0
    <3>1. Parking = {}
      BY <2>1, SubsetCount DEF ParkedInv, Parking
    <3>2. QED BY <1>1, <3>1 DEF CheckParked, Parking, Announced, shared, locals
  <2>2. CASE parked # 0
    BY <1>1, <2>2 DEF CheckParked, Workers, shared, locals
  <2>3. QED BY <2>1, <2>2
<1>2. CASE Unpark
  BY <1>2 DEF Unpark, Workers, shared, locals
<1>3. CASE UnparkedAll
  BY <1>3, LanesType DEF UnparkedAll, Workers, CallerInv, shared, locals
<1>4. CASE BumpGeneration
  BY <1>4 DEF BumpGeneration, locals
<1>5. CASE DropBump
  BY <1>5 DEF DropBump, Workers, locals
<1>6. CASE DropJoin
  BY <1>6 DEF DropJoin, shared, locals
<1>7. CASE \/ DispatchNothing \/ (\E n \in JobSizes : Dispatch(n)) \/ DropShutdown
           \/ PublishJob \/ SetPending \/ RunOwn \/ OwnDone \/ Return
  BY <1>7 DEF DispatchNothing, Dispatch, DropShutdown, PublishJob, SetPending, RunOwn,
     OwnDone, Return, shared, locals
<1>8. ASSUME NEW w \in Workers, WorkerStep(w) \/ WakeByTimeout(w) PROVE NoLostWakeup'
  <2> USE DEF Goto
  <2>1. CASE SeeGeneration(w) \/ FetchJob(w) \/ CheckShutdown(w)
    BY <2>1 DEF SeeGeneration, FetchJob, CheckShutdown, shared, caller, locals
  <2>2. CASE BudgetSpent(w) \/ AnnouncePark(w) \/ RetractPark(w)
    BY <2>2 DEF BudgetSpent, AnnouncePark, RetractPark, shared, caller, locals
  <2>3. CASE RecheckGeneration(w) \/ RecheckShutdown(w)
    BY <2>3 DEF RecheckGeneration, RecheckShutdown, shared, caller, locals
  <2>4. CASE WakeByToken(w) \/ WakeByTimeout(w)
    BY <2>4 DEF WakeByToken, WakeByTimeout, shared, caller, locals
  <2>5. CASE RunShard(w) \/ FinishShard(w)
    BY <2>5 DEF RunShard, FinishShard, shared, caller, locals
  <2>6. QED BY <1>8, <2>1, <2>2, <2>3, <2>4, <2>5 DEF WorkerStep
<1>9. CASE UNCHANGED vars
  BY <1>9 DEF vars
<1>10. QED
  BY <1>1, <1>2, <1>3, <1>4, <1>5, <1>6, <1>7, <1>8, <1>9 DEF Next, CallerStep

(* With full fences no worker sleeps through a job: its unpark token is  *)
(* set, or the dispatcher is still about to set it.                         *)
THEOREM PoolNoLostWakeup == SafeSpec => []NoLostWakeup
<1>1. Init => NoLostWakeup
  BY DEF Init, NoLostWakeup
<1>2. QED BY <1>1, StepNoLostWakeup, PoolInvariant, PTL DEF SafeSpec

-----------------------------------------------------------------------------
(* Refinement of ParallelFor. *)

LEMMA RunIsNew ==
  ASSUME IInv,
         NEW l \in 0 .. Lanes - 1, NEW i \in Nat,
         cpc \in Posted, Progress(l) = i,
         ShardStart(l, size) <= i, i < ShardEnd(l, size)
  PROVE  i \in Indices(size) /\ ran[i] = 0
<1>1. /\ ShardStart(l, size) \in Nat /\ ShardEnd(l, size) \in Nat
      /\ ShardEnd(l, size) <= size /\ size \in Nat
  BY ShardType DEF IInv, TypeOK
<1>2. i \in ShardStart(l, size) .. ShardEnd(l, size) - 1
  BY <1>1
<1>3. QED BY <1>1, <1>2 DEF IInv, RanInv, Indices

LEMMA StepPromise == IInv /\ [Next]_vars => [Promise!Next]_(Promise!vars)
<1> SUFFICES ASSUME IInv, [Next]_vars PROVE [Promise!Next]_(Promise!vars)
  OBVIOUS
<1> USE DEF Promise!vars, Phase
<1>1. CASE DispatchNothing
  <2>1. Promise!CallNothing
    BY <1>1 DEF DispatchNothing, Promise!CallNothing, Indices, Promise!Indices
  <2>2. QED BY <2>1 DEF Promise!Next
<1>2. ASSUME NEW n \in JobSizes, Dispatch(n) PROVE Promise!Next
  <2>1. Promise!Call(n)
    BY <1>2 DEF Dispatch, Promise!Call, Indices, Promise!Indices
  <2>2. QED BY <2>1 DEF Promise!Next
<1>3. CASE DropShutdown
  <2>1. Promise!Drop
    BY <1>3 DEF DropShutdown, Promise!Drop
  <2>2. QED BY <2>1 DEF Promise!Next
<1>4. CASE RunOwn
  <2>1. /\ cpc = "run" /\ cur0 < ShardEnd(0, size) /\ ran' = [ran EXCEPT ![cur0] = @ + 1]
        /\ UNCHANGED <<cpc, size>>
    BY <1>4 DEF RunOwn
  <2>2. cur0 \in Indices(size) /\ ran[cur0] = 0
    BY <2>1, RunIsNew, LaneOfWorker DEF IInv, TypeOK, CallerInv, Progress, Posted
  <2>3. Promise!Run(cur0) /\ cur0 \in DOMAIN ran
    BY <2>1, <2>2 DEF Promise!Run, IInv, TypeOK
  <2>4. QED BY <2>3 DEF Promise!Next
<1>5. CASE Return
  <2>1. Promise!Return
    BY <1>5, ReturnComplete DEF Return, Promise!Return, IInv, TypeOK
  <2>2. QED BY <2>1 DEF Promise!Next
<1>6. CASE DropJoin
  <2>1. Promise!Joined
    BY <1>6 DEF DropJoin, Promise!Joined
  <2>2. QED BY <2>1 DEF Promise!Next
<1>7. CASE \/ PublishJob \/ SetPending \/ BumpGeneration \/ CheckParked \/ Unpark
           \/ UnparkedAll \/ OwnDone \/ DropBump
  BY <1>7 DEF PublishJob, SetPending, BumpGeneration, CheckParked, Unpark, UnparkedAll,
     OwnDone, DropBump
<1>8. ASSUME NEW w \in Workers, WorkerStep(w) \/ WakeByTimeout(w)
      PROVE  [Promise!Next]_(Promise!vars)
  <2>1. CASE RunShard(w)
    <3>1. /\ wpc[w] = "run" /\ wjob[w] = issued /\ wn[w] = size /\ cpc \in Posted
          /\ ShardStart(w, size) <= cur[w] /\ cur[w] < ShardEnd(w, size)
          /\ cur[w] \in Nat
      BY <2>1 DEF RunShard, IInv, WorkerInv, TypeOK
    <3>2. ran' = [ran EXCEPT ![cur[w]] = @ + 1] /\ UNCHANGED <<cpc, size>>
      BY <2>1, <3>1 DEF RunShard, caller
    <3>3. cur[w] \in Indices(size) /\ ran[cur[w]] = 0
      <4>1. Progress(w) = cur[w]
        BY <3>1, LaneOfWorker DEF Progress
      <4>2. QED BY <3>1, <4>1, RunIsNew, LaneOfWorker
    <3>4. Promise!Run(cur[w]) /\ cur[w] \in DOMAIN ran
      BY <3>1, <3>2, <3>3 DEF Promise!Run, IInv, TypeOK, Posted
    <3>5. QED BY <3>4 DEF Promise!Next
  <2>2. CASE ~RunShard(w)
    BY <1>8, <2>2 DEF WorkerStep, SeeGeneration, BudgetSpent, AnnouncePark,
       RecheckGeneration, RecheckShutdown, WakeByToken, WakeByTimeout, RetractPark,
       CheckShutdown, FetchJob, FinishShard, caller
  <2>3. QED BY <2>1, <2>2
<1>9. CASE UNCHANGED vars
  BY <1>9 DEF vars
<1>10. QED
  BY <1>1, <1>2, <1>3, <1>4, <1>5, <1>6, <1>7, <1>8, <1>9 DEF Next, CallerStep

(* The pool implements ParallelFor, progress aside.                         *)
THEOREM PoolImplementsParallelFor == SafeSpec => Promise!SafeSpec
<1>1. Init => Promise!Init
  BY DEF Init, Promise!Init, Phase, Indices, Promise!Indices
<1>2. QED BY <1>1, StepPromise, PoolInvariant, PTL DEF SafeSpec, Promise!SafeSpec
=============================================================================
