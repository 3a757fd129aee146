--------------------------- MODULE KvRing_proofs ---------------------------
(***************************************************************************)
(* For every window, context and capacity: a layer that is only given      *)
(* requests that fit (no chunk wraps the ring, no verify batch where       *)
(* positions wrap) never attends to a slot that holds another position.    *)
(***************************************************************************)
EXTENDS KvRing, TLAPS

(* Residues: a slot is in range, positions below the modulus are their own *)
(* slot, and two positions less than a modulus apart have distinct slots.  *)
LEMMA Residue ==
    ASSUME NEW c \in Nat \ {0}, NEW p \in Nat
    PROVE  /\ p % c \in 0 .. c - 1
           /\ p < c => p % c = p
  BY SMT

LEMMA ResidueApart ==
    ASSUME NEW c \in Nat \ {0}, NEW p \in Nat, NEW q \in Nat, p < q, q < p + c
    PROVE  p % c # q % c
<1>1. /\ p = c * (p \div c) + (p % c)
      /\ q = c * (q \div c) + (q % c)
      /\ p \div c \in Nat /\ q \div c \in Nat
  BY SMT
<1>2. SUFFICES ASSUME p % c = q % c PROVE FALSE
  OBVIOUS
<1>3. q - p = c * ((q \div c) - (p \div c))
  BY <1>1, <1>2, SMT
<1>4. (q \div c) - (p \div c) \in Int /\ q - p > 0 /\ q - p < c
  BY <1>1
<1>. DEFINE d == (q \div c) - (p \div c)
<1>5. CASE d <= 0
  <2>1. c * d <= 0
    BY <1>4, <1>5, SMT
  <2>. QED BY <2>1, <1>3, <1>4
<1>6. CASE d >= 1
  <2>1. c * d >= c
    BY <1>4, <1>6, SMT
  <2>. QED BY <2>1, <1>3, <1>4
<1>. QED BY <1>4, <1>5, <1>6

(* The capacity is positive and at most the context; it is the context on  *)
(* a full-attention layer.                                                 *)
LEMMA CapacityFacts ==
    /\ Capacity \in Nat \ {0}
    /\ Capacity <= Context
    /\ Window = 0 => Capacity = Context
  BY RingAssumption DEF RingAssumption, Capacity

(* What a query sees is less than a capacity behind it.                    *)
LEMMA VisibleWithinCapacity ==
    ASSUME NEW q \in Positions, NEW p \in Visible(q)
    PROVE  p \in Positions /\ p <= q /\ q < p + Capacity
  BY RingAssumption DEF RingAssumption, Capacity, Visible, Positions

(* A batch that stays below the capacity is stored without wrapping, by    *)
(* the ring store and by the slot store alike.                             *)
LEMMA NoWrap ==
    ASSUME NEW lo \in Nat, NEW hi \in Nat, hi <= Capacity,
           NEW cache \in [Slots -> Positions \cup {Never}],
           NEW c \in RingStores(lo .. hi - 1, cache) \cup SlotStores(lo .. hi - 1, cache)
    PROVE  /\ c \in [Slots -> Positions \cup {Never}]
           /\ \A s \in Slots : c[s] = IF s \in lo .. hi - 1 THEN s ELSE cache[s]
<1>. DEFINE batch == lo .. hi - 1
<1>1. batch \subseteq Slots /\ Slots \subseteq Positions
  BY CapacityFacts, RingAssumption DEF Slots, Positions, RingAssumption
<1>2. \A p \in batch : SlotOf(p) = p
  <2>. SUFFICES ASSUME NEW p \in batch PROVE p % Capacity = p
    BY DEF SlotOf
  <2>1. p \in Nat /\ p < Capacity /\ Capacity \in Nat \ {0}
    BY CapacityFacts
  <2>. HIDE DEF batch
  <2>. QED BY <2>1, Residue
<1>3. { SlotOf(p) : p \in batch } = batch
  BY <1>2
<1>4. CASE c \in SlotStores(batch, cache)
  BY <1>1, <1>4 DEF SlotStores
<1>5. CASE c \in RingStores(batch, cache)
  <2>1. PICK w \in [batch -> batch] :
              /\ \A s \in batch : SlotOf(w[s]) = s
              /\ c = [s \in Slots |-> IF s \in batch THEN w[s] ELSE cache[s]]
    <3>. DEFINE touched == { SlotOf(p) : p \in batch }
                images == { w \in [touched -> batch] : \A s \in touched : SlotOf(w[s]) = s }
                stored(w) == [s \in Slots |-> IF s \in touched THEN w[s] ELSE cache[s]]
    <3>1. c \in { stored(w) : w \in images }
      BY <1>5 DEF RingStores
    <3>2. touched = batch
      BY <1>3
    <3>. HIDE DEF touched, batch
    <3>. QED BY <3>1, <3>2
  <2>2. \A s \in batch : w[s] = s
    BY <2>1, <1>2
  <2>. QED BY <1>1, <2>1, <2>2
<1>. QED BY <1>4, <1>5

-----------------------------------------------------------------------------
(* A batched forward below the capacity, over a history that is in place:  *)
(* the caches stay well-typed, both hold every position up to the batch's  *)
(* end, and every row reads what it wants.                                 *)
LEMMA BatchFits ==
    ASSUME TypeOK, NEW lo \in Nat, NEW hi \in Nat, lo < hi, hi <= Capacity,
           \A p \in Slots : p < lo => keys[p] = p,
           HasAux => \A p \in Slots : p < lo => aux[p] = p,
           ForwardBatch(lo .. hi - 1)
    PROVE  /\ keys' \in [Slots -> Positions \cup {Never}]
           /\ aux' \in [Slots -> Positions \cup {Never}]
           /\ \A p \in Slots : p < hi => keys'[p] = p
           /\ HasAux => \A p \in Slots : p < hi => aux'[p] = p
           /\ reads' \subseteq [query : Positions, wanted : Positions, found : Positions \cup {Never}]
           /\ AttendsItsWindow'
<1>. DEFINE batch == lo .. hi - 1
            source == IF HasAux THEN aux' ELSE keys'
<1>1. /\ keys' \in RingStores(batch, keys) \cup SlotStores(batch, keys)
      /\ HasAux => aux' \in RingStores(batch, aux) \cup SlotStores(batch, aux)
      /\ ~HasAux => aux' = aux
      /\ reads' = Attend(batch, source)
  BY DEF ForwardBatch
<1>2. /\ keys \in [Slots -> Positions \cup {Never}]
      /\ aux \in [Slots -> Positions \cup {Never}]
  BY DEF TypeOK
<1>3. /\ keys' \in [Slots -> Positions \cup {Never}]
      /\ \A s \in Slots : keys'[s] = IF s \in batch THEN s ELSE keys[s]
  BY <1>1, <1>2, NoWrap
<1>4. /\ aux' \in [Slots -> Positions \cup {Never}]
      /\ HasAux => \A s \in Slots : aux'[s] = IF s \in batch THEN s ELSE aux[s]
  <2>1. CASE HasAux
    BY <1>1, <1>2, <2>1, NoWrap
  <2>2. CASE ~HasAux
    BY <1>1, <1>2, <2>2
  <2>. QED BY <2>1, <2>2
<1>5. /\ \A p \in Slots : p < hi => keys'[p] = p
      /\ HasAux => \A p \in Slots : p < hi => aux'[p] = p
  BY <1>3, <1>4 DEF Slots
<1>6. /\ source \in [Slots -> Positions \cup {Never}]
      /\ \A p \in Slots : p < hi => source[p] = p
  BY <1>3, <1>4, <1>5
<1>7. \A q \in batch, p \in Positions :
          p \in Visible(q) => p % Capacity = p /\ p \in Slots /\ p < hi
  <2>. SUFFICES ASSUME NEW q \in batch, NEW p \in Positions, p \in Visible(q)
                PROVE  p % Capacity = p /\ p \in Slots /\ p < hi
    OBVIOUS
  <2>1. p <= q /\ p \in Nat /\ q < hi
    BY RingAssumption DEF Visible, Positions, RingAssumption
  <2>2. p < Capacity
    BY <2>1, CapacityFacts
  <2>. QED BY <2>1, <2>2, CapacityFacts, Residue DEF Slots
<1>8. batch \subseteq Positions
  BY CapacityFacts, RingAssumption DEF Positions, RingAssumption
<1>9. /\ reads' \subseteq [query : Positions, wanted : Positions, found : Positions \cup {Never}]
      /\ AttendsItsWindow'
  <2>1. \A r \in reads' : \E q \in batch, p \in Positions :
            p \in Visible(q) /\ r = [query |-> q, wanted |-> p, found |-> source[p % Capacity]]
    <3>. HIDE DEF source, batch
    <3>. QED BY <1>1 DEF Attend, Visible
  <2>2. \A r \in reads' : \E q \in batch, p \in Positions :
            r = [query |-> q, wanted |-> p, found |-> p]
    BY <2>1, <1>6, <1>7
  <2>. QED BY <2>2, <1>8 DEF AttendsItsWindow, RightPosition
<1>. QED BY <1>3, <1>4, <1>5, <1>9

(* A layer whose positions are all below the capacity holds every one in   *)
(* the slot of its own number.                                             *)
LEMMA HoldsHistory ==
    ASSUME TypeOK, HoldsLastPositions, position <= Capacity
    PROVE  \A p \in Slots : p < position => keys[p] = p
<1>. SUFFICES ASSUME NEW p \in Slots, p < position PROVE keys[p] = p
  OBVIOUS
<1>1. p \in Positions /\ p \in Nat /\ p < Capacity /\ p + Capacity >= position
  BY CapacityFacts, RingAssumption DEF Slots, Positions, TypeOK, RingAssumption
<1>2. p % Capacity = p
  BY <1>1, CapacityFacts, Residue
<1>. QED BY <1>1, <1>2 DEF HoldsLastPositions

(* Conversely, slots in place up to a position give the ring its history.  *)
LEMMA HistoryHolds ==
    ASSUME NEW n \in Nat, n <= Capacity, NEW cache,
           \A p \in Slots : p < n => cache[p] = p
    PROVE  \A p \in Positions : p < n => cache[p % Capacity] = p
<1>. SUFFICES ASSUME NEW p \in Positions, p < n PROVE cache[p % Capacity] = p
  OBVIOUS
<1>1. p \in Nat /\ p < Capacity /\ p \in Slots
  BY CapacityFacts DEF Positions, Slots
<1>2. p % Capacity = p
  BY <1>1, CapacityFacts, Residue
<1>. QED BY <1>1, <1>2

(* A request's lengths are numbers. *)
LEMMA RequestTypes ==
    ASSUME TypeOK
    PROVE  /\ request.prompt \in 1 .. Context
           /\ request.chunk \in Nat \ {0}
           /\ request.spec \in Nat /\ request.last \in Nat
           /\ position \in Nat /\ position <= Context /\ Context \in Nat
  BY RingAssumption DEF RingAssumption, TypeOK

LEMMA InitRInv == (\A r \in Requests : Fits(r)) /\ Init => RInv
<1>. SUFFICES ASSUME \A r \in Requests : Fits(r), Init PROVE RInv
  OBVIOUS
<1>1. TypeOK
  BY RingAssumption DEF Init, TypeOK, RingAssumption
<1>2. HoldsLastPositions /\ AuxHoldsBatches
  BY CapacityFacts DEF Init, HoldsLastPositions, AuxHoldsBatches, Positions, Slots
<1>. QED BY <1>1, <1>2 DEF Init, RInv, AttendsItsWindow, RightPosition

LEMMA PrefillRInv == RInv /\ PrefillChunk => RInv'
<1>. SUFFICES ASSUME RInv, PrefillChunk PROVE RInv'
  OBVIOUS
<1>. DEFINE end == IF position + request.chunk < request.prompt
                   THEN position + request.chunk ELSE request.prompt
<1>1. TypeOK /\ Fits(request) /\ HoldsLastPositions /\ AuxHoldsBatches
  BY DEF RInv
<1>2. /\ end \in Nat /\ position < end /\ end <= request.prompt
      /\ request.prompt <= Capacity
      /\ ForwardBatch(position .. end - 1)
      /\ position' = end /\ request' = request /\ by' = "prefill"
  BY <1>1, RequestTypes, CapacityFacts DEF PrefillChunk, Chunked, Fits
<1>3. \A p \in Slots : p < position => keys[p] = p
  BY <1>1, <1>2, RequestTypes, CapacityFacts, HoldsHistory
<1>4. HasAux => \A p \in Slots : p < position => aux[p] = p
  BY <1>1, <1>2, RequestTypes DEF AuxHoldsBatches, PrefillChunk
<1>. HIDE DEF end
<1>5. /\ keys' \in [Slots -> Positions \cup {Never}]
      /\ aux' \in [Slots -> Positions \cup {Never}]
      /\ \A p \in Slots : p < end => keys'[p] = p
      /\ HasAux => \A p \in Slots : p < end => aux'[p] = p
      /\ reads' \subseteq [query : Positions, wanted : Positions, found : Positions \cup {Never}]
      /\ AttendsItsWindow'
  <2>1. position \in Nat /\ end <= Capacity
    BY <1>1, <1>2, RequestTypes, CapacityFacts
  <2>. QED BY <1>1, <1>2, <1>3, <1>4, <2>1, BatchFits
<1>6. TypeOK'
  BY <1>1, <1>2, <1>5, RequestTypes, CapacityFacts DEF TypeOK
<1>7. HoldsLastPositions'
  <2>1. end <= Capacity
    BY <1>1, <1>2, RequestTypes, CapacityFacts
  <2>2. \A p \in Positions : p < end => keys'[p % Capacity] = p
    BY <1>2, <1>5, <2>1, HistoryHolds
  <2>. QED BY <1>2, <2>2 DEF HoldsLastPositions
<1>8. AuxHoldsBatches'
  BY <1>2, <1>5 DEF AuxHoldsBatches
<1>. QED BY <1>1, <1>2, <1>5, <1>6, <1>7, <1>8 DEF RInv, Fits

LEMMA DecodeRInv == RInv /\ DecodeStep => RInv'
<1>. SUFFICES ASSUME RInv, DecodeStep PROVE RInv'
  OBVIOUS
<1>1. TypeOK /\ Fits(request) /\ HoldsLastPositions
  BY DEF RInv
<1>2. /\ position \in Positions /\ position \in Nat
      /\ position' = position + 1 /\ request' = request /\ by' = "decode"
      /\ aux' = aux
      /\ keys' = [keys EXCEPT ![position % Capacity] = position]
      /\ reads' = Attend({position}, keys')
  BY <1>1, RequestTypes DEF DecodeStep, RoomForOne, DecodeSlot, SlotOf, Positions
<1>3. \A p \in Positions : p % Capacity \in Slots
  BY CapacityFacts, Residue DEF Positions, Slots
<1>4. keys' \in [Slots -> Positions \cup {Never}]
  BY <1>1, <1>2, <1>3 DEF TypeOK
<1>5. \A p \in Positions :
          p <= position /\ position < p + Capacity => keys'[p % Capacity] = p
  <2>. SUFFICES ASSUME NEW p \in Positions, p <= position, position < p + Capacity
                PROVE  keys'[p % Capacity] = p
    OBVIOUS
  <2>0. p \in Nat /\ Capacity \in Nat \ {0}
    BY CapacityFacts DEF Positions
  <2>1. CASE p = position
    BY <1>1, <1>2, <1>3, <2>1 DEF TypeOK
  <2>2. CASE p < position
    <3>1. keys[p % Capacity] = p
      BY <1>1, <1>2, <2>0, <2>2 DEF HoldsLastPositions
    <3>2. p % Capacity # position % Capacity
      BY <1>2, <2>0, <2>2, ResidueApart
    <3>. QED BY <1>1, <1>2, <1>3, <3>1, <3>2 DEF TypeOK
  <2>. QED BY <1>2, <2>0, <2>1, <2>2
<1>6. HoldsLastPositions'
  BY <1>2, <1>5, CapacityFacts DEF HoldsLastPositions, Positions
<1>7. \A r \in reads' : \E p \in Positions :
          r = [query |-> position, wanted |-> p, found |-> p]
  <2>1. \A r \in reads' : \E p \in Visible(position) :
            r = [query |-> position, wanted |-> p, found |-> keys'[p % Capacity]]
    BY <1>2 DEF Attend
  <2>. QED BY <1>2, <1>5, <2>1, VisibleWithinCapacity
<1>8. TypeOK'
  <2>1. reads' \subseteq [query : Positions, wanted : Positions, found : Positions \cup {Never}]
    <3>. SUFFICES ASSUME NEW r \in reads'
                  PROVE  r \in [query : Positions, wanted : Positions,
                                found : Positions \cup {Never}]
      OBVIOUS
    <3>1. PICK p \in Positions : r = [query |-> position, wanted |-> p, found |-> p]
      BY <1>7
    <3>. QED BY <1>2, <3>1
  <2>2. position' \in 0 .. Context
    BY <1>1, <1>2, RequestTypes DEF Positions
  <2>. QED BY <1>1, <1>2, <1>4, <2>1, <2>2 DEF TypeOK
<1>9. AuxHoldsBatches'
  BY <1>1, <1>2, RequestTypes DEF AuxHoldsBatches, DecodeStep, Chunked
<1>10. AttendsItsWindow'
  BY <1>7 DEF AttendsItsWindow, RightPosition
<1>. QED BY <1>1, <1>2, <1>6, <1>8, <1>9, <1>10 DEF RInv, Fits

LEMMA VerifyRInv == RInv /\ VerifyStep => RInv'
<1>. SUFFICES ASSUME RInv, VerifyStep PROVE RInv'
  OBVIOUS
<1>1. TypeOK /\ Fits(request) /\ HoldsLastPositions /\ AuxHoldsBatches
  BY DEF RInv
<1>2. PICK n \in 1 .. request.spec :
          /\ position + n <= request.last /\ position + n <= Context
          /\ ForwardBatch(position .. position + n - 1)
          /\ \E kept \in KeptLengths(n) : position' = position + kept
  BY DEF VerifyStep
<1>3. /\ request' = request /\ by' = "verify"
      /\ n \in Nat /\ n > 0 /\ position + n <= Capacity
      /\ HasAux => Chunked
      /\ position' \in Nat /\ position' <= position + n
  <2>1. /\ request' = request /\ by' = "verify" /\ request.chunk > 1
        /\ n \in Nat /\ n > 0 /\ request.spec > 0
    BY <1>1, <1>2, RequestTypes DEF VerifyStep
  <2>2. Window = 0 \/ (request.last <= Capacity /\ request.prompt > 1)
    BY <1>1, <2>1, RequestTypes DEF Fits
  <2>3. position + n <= Capacity
    BY <1>1, <1>2, <2>1, <2>2, RequestTypes, CapacityFacts
  <2>4. HasAux => Chunked
    BY <1>1, <2>1, <2>2, RequestTypes, RingAssumption DEF HasAux, Chunked, RingAssumption
  <2>5. position' \in Nat /\ position' <= position + n
    BY <1>1, <1>2, <2>1, RequestTypes DEF KeptLengths
  <2>. QED BY <2>1, <2>3, <2>4, <2>5
<1>4. /\ \A p \in Slots : p < position => keys[p] = p
      /\ HasAux => \A p \in Slots : p < position => aux[p] = p
  <2>1. \A p \in Slots : p < position => keys[p] = p
    BY <1>1, <1>3, RequestTypes, CapacityFacts, HoldsHistory
  <2>2. request.spec > 0
    BY <1>1, <1>3, RequestTypes
  <2>. QED BY <1>1, <1>3, <2>1, <2>2 DEF AuxHoldsBatches
<1>. DEFINE hi == position + n
<1>5. /\ hi \in Nat /\ position < hi /\ hi <= Capacity /\ position \in Nat
      /\ ForwardBatch(position .. hi - 1)
  BY <1>1, <1>2, <1>3, RequestTypes
<1>. HIDE DEF hi
<1>6. /\ keys' \in [Slots -> Positions \cup {Never}]
      /\ aux' \in [Slots -> Positions \cup {Never}]
      /\ \A p \in Slots : p < hi => keys'[p] = p
      /\ HasAux => \A p \in Slots : p < hi => aux'[p] = p
      /\ reads' \subseteq [query : Positions, wanted : Positions, found : Positions \cup {Never}]
      /\ AttendsItsWindow'
  BY <1>1, <1>3, <1>4, <1>5, BatchFits
<1>7. TypeOK'
  BY <1>1, <1>2, <1>3, <1>6, RequestTypes DEF TypeOK
<1>8. HoldsLastPositions'
  <2>1. \A p \in Positions : p < hi => keys'[p % Capacity] = p
    BY <1>5, <1>6, HistoryHolds
  <2>2. \A p \in Positions : p < position' => p < hi
    BY <1>3, <1>5 DEF hi, Positions
  <2>. QED BY <2>1, <2>2 DEF HoldsLastPositions
<1>9. AuxHoldsBatches'
  <2>1. \A p \in Slots : p < position' => p < hi
    BY <1>3, <1>5 DEF hi, Slots
  <2>. QED BY <1>6, <2>1 DEF AuxHoldsBatches
<1>. QED BY <1>1, <1>3, <1>6, <1>7, <1>8, <1>9 DEF RInv, Fits

(* The invariant of a layer that is given only requests that fit. *)
THEOREM RingInvariant == (\A r \in Requests : Fits(r)) => (Spec => []RInv)
<1>. SUFFICES ASSUME \A r \in Requests : Fits(r) PROVE Spec => []RInv
  OBVIOUS
<1>1. Init => RInv
  BY InitRInv
<1>2. RInv /\ [Next]_vars => RInv'
  <2>. SUFFICES ASSUME RInv, [Next]_vars PROVE RInv'
    OBVIOUS
  <2>1. CASE PrefillChunk
    BY <2>1, PrefillRInv
  <2>2. CASE DecodeStep
    BY <2>2, DecodeRInv
  <2>3. CASE VerifyStep
    BY <2>3, VerifyRInv
  <2>4. CASE UNCHANGED vars
    BY <2>4 DEF vars, RInv, TypeOK, Fits, HoldsLastPositions, AuxHoldsBatches, Chunked,
                AttendsItsWindow, RightPosition
  <2>. QED BY <2>1, <2>2, <2>3, <2>4 DEF Next, Returned
<1>. QED BY <1>1, <1>2, PTL DEF Spec

(* No store of such requests leaves the caches and no position the context.*)
THEOREM RingTyped == (\A r \in Requests : Fits(r)) => (Spec => []TypeOK)
<1>1. RInv => TypeOK
  BY DEF RInv
<1>. QED BY <1>1, RingInvariant, PTL

(* Every query of such requests reads the positions it was meant to: for   *)
(* every window, context, storage type, chunk size and batch size.         *)
THEOREM AttendsSafe == (\A r \in Requests : Fits(r)) => (Spec => []AttendsItsWindow)
<1>1. RInv => AttendsItsWindow
  BY DEF RInv
<1>. QED BY <1>1, RingInvariant, PTL

(* Between steps the ring holds the last Capacity positions.               *)
THEOREM HoldsSafe == (\A r \in Requests : Fits(r)) => (Spec => []HoldsLastPositions)
<1>1. RInv => HoldsLastPositions
  BY DEF RInv
<1>. QED BY <1>1, RingInvariant, PTL
=============================================================================
