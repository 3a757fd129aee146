------------------------- MODULE SpecDecode_proofs -------------------------
(***************************************************************************)
(* Greedy speculative decoding is lossless for every vocabulary, draft     *)
(* length, max_tokens and context size, for recurrent and position-        *)
(* addressed targets alike.  SInv says, phase by phase, what of the        *)
(* round's locals is the target's own continuation.                        *)
(***************************************************************************)
EXTENDS SpecDecode, SequenceTheorems, WellFoundedInduction, TLAPS

(* Types that do not depend on the phase. *)
SType ==
    /\ script \in [1 .. ScriptLen -> Token]
    /\ generated \in Seq(Token)
    /\ position \in Nat /\ position < ScriptLen
    /\ kv \in [Positions -> BOOLEAN]
    /\ phase \in Phases

(* The caches hold exactly the committed tokens, in every phase but that   *)
(* of the recurrent state between the verify and the rollback.             *)
Caches ==
    /\ \A p \in Positions : p < position => kv[p]
    /\ recurrent /\ phase # "accept" => rec = [at |-> position, true |-> TRUE]

(* The output is a prefix of the script without EOS; a stop token is last. *)
Output ==
    /\ Len(generated) <= MaxTokens + 1
    /\ \A i \in 1 .. Len(generated) :
        /\ generated[i] = script[i]
        /\ generated[i] \notin EosTokens
        /\ generated[i] \in StopTokens => i = Len(generated) /\ phase = "done"

(* At the head of the loop. *)
AtLoop ==
    phase = "loop" =>
        /\ Len(generated) <= MaxTokens
        /\ next = script[Len(generated) + 1]
        /\ next \notin EosTokens => position = Len(generated)

(* Within a round, until the correction is known. *)
InRound ==
    phase \in {"draft", "verify", "accept"} =>
        /\ Len(generated) = position + 1
        /\ Len(generated) < MaxTokens
        /\ next = script[position + 1]

HasProposals ==
    phase \in {"verify", "accept"} =>
        /\ proposals \in Seq(Token)
        /\ Len(proposals) \in 1 .. NumDraft

(* After the verify: a row that was fed the script predicts its successor  *)
(* and stored true keys; the snapshot is the state before the batch.       *)
Verified ==
    phase = "accept" =>
        /\ preds \in [1 .. Len(proposals) + 1 -> Token]
        /\ recurrent => snap = [at |-> position, true |-> TRUE]
        /\ recurrent /\ (\A k \in 1 .. Len(proposals) + 1 :
                             VerifyTokens[k] = script[position + k]) =>
              rec = [at |-> position + Len(proposals) + 1, true |-> TRUE]
        /\ \A i \in 1 .. Len(proposals) + 1 :
            (\A k \in 1 .. i : VerifyTokens[k] = script[position + k]) =>
                /\ preds[i] = script[position + i + 1]
                /\ kv[position + i - 1]

(* While emitting, the accepted proposals and the correction are the       *)
(* script's next tokens.                                                   *)
Emitting ==
    phase = "emit" =>
        /\ m \in Nat /\ j \in 0 .. m
        /\ Len(generated) = position - m + j
        /\ Len(generated) <= MaxTokens
        /\ \A k \in 1 .. m : proposals[k] = script[position - m + k]
        /\ preds[m + 1] = script[position + 1]

Stopped ==
    phase = "done" =>
        \/ Len(generated) >= MaxTokens
        \/ generated # <<>> /\ generated[Len(generated)] \in StopTokens
        \/ script[Len(generated) + 1] \in EosTokens

Overshoot ==
    Len(generated) = MaxTokens + 1 => generated[Len(generated)] \in StopTokens

SInv == /\ SType
        /\ Caches
        /\ Output
        /\ AtLoop
        /\ InRound
        /\ HasProposals
        /\ Verified
        /\ Emitting
        /\ Stopped
        /\ Overshoot

-----------------------------------------------------------------------------
(* The least-number principle, stated of sets.                             *)
LEMMA LeastNat ==
    ASSUME NEW T, T \subseteq Nat, T # {}
    PROVE  \E x \in T : \A y \in T : x <= y
<1>. DEFINE R == { ss \in Nat \X Nat : ss[1] < ss[2] }
<1>1. IsWellFoundedOn(R, Nat)
  BY NatLessThanWellFounded DEF OpToRel
<1>2. PICK x \in T : \A y \in T : ~(<<y, x>> \in R)
  <2>. HIDE DEF R
  <2>. QED BY <1>1, WFMin
<1>3. ASSUME NEW y \in T PROVE x <= y
  <2>1. <<y, x>> \in Nat \X Nat /\ x \in Nat /\ y \in Nat
    OBVIOUS
  <2>2. ~(y < x)
    BY <1>2, <2>1
  <2>. QED BY <2>1, <2>2
<1>. QED BY <1>3

(* Numbers. *)
LEMMA Bounds ==
    /\ MaxTokens \in Nat /\ NumDraft \in Nat /\ NumDraft > 0
    /\ ScriptLen = MaxTokens + NumDraft /\ ScriptLen \in Nat
  BY SpecAssumption DEF SpecAssumption, ScriptLen

(* VerifyTokens is `next` and then the proposals.                          *)
LEMMA VerifyTokensFacts ==
    ASSUME proposals \in Seq(Token), next \in Token
    PROVE  /\ VerifyTokens \in Seq(Token)
           /\ Len(VerifyTokens) = Len(proposals) + 1
           /\ VerifyTokens[1] = next
           /\ \A k \in 1 .. Len(proposals) : VerifyTokens[k + 1] = proposals[k]
<1>1. <<next>> \in Seq(Token) /\ Len(<<next>>) = 1 /\ <<next>>[1] = next
  OBVIOUS
<1>. QED BY <1>1, ConcatProperties DEF VerifyTokens

(* A batched verify over a history and a recurrent state that are the      *)
(* target's own: every row that was fed the script is right.               *)
LEMMA BatchVerified ==
    ASSUME SType, NEW toks \in Seq(Token), NEW r,
           position + Len(toks) <= ScriptLen,
           \A p \in Positions : p < position => kv[p],
           recurrent => r = [at |-> position, true |-> TRUE],
           VerifyBatched(toks, position, r)
    PROVE  /\ kv' \in [Positions -> BOOLEAN]
           /\ preds' \in [1 .. Len(toks) -> Token]
           /\ \A p \in Positions : p < position => kv'[p]
           /\ \A i \in 1 .. Len(toks) :
                (\A k \in 1 .. i : toks[k] = script[position + k]) =>
                    /\ preds'[i] = script[position + i + 1]
                    /\ kv'[position + i - 1]
           /\ Len(toks) > 0 /\ recurrent
              /\ (\A k \in 1 .. Len(toks) : toks[k] = script[position + k]) =>
                rec' = [at |-> position + Len(toks), true |-> TRUE]
<1>. DEFINE n == Len(toks)
            Row(i) == RowTrue(toks, position, r, i)
<1>0. n \in Nat /\ position \in Nat
  BY DEF SType
<1>1. \A i \in 1 .. n : Row(i) <=> \A k \in 1 .. i : toks[k] = script[position + k]
  BY DEF RowTrue
<1>2. \A i \in 1 .. n : Row(i) \in BOOLEAN
  BY DEF RowTrue
<1>3. /\ kv' = [p \in Positions |-> IF p \in position .. position + n - 1
                                    THEN Row(p - position + 1) ELSE kv[p]]
      /\ preds' \in [1 .. n -> Token]
      /\ \A i \in 1 .. n : Row(i) => preds'[i] = script[position + i + 1]
      /\ recurrent => rec' = [at |-> r.at + n, true |-> Row(n)]
  BY DEF VerifyBatched
<1>. HIDE DEF n, Row
<1>4. kv' \in [Positions -> BOOLEAN]
  <2>. SUFFICES ASSUME NEW p \in Positions
                PROVE  (IF p \in position .. position + n - 1
                        THEN Row(p - position + 1) ELSE kv[p]) \in BOOLEAN
    BY <1>3
  <2>1. CASE p \in position .. position + n - 1
    <3>1. p - position + 1 \in 1 .. n
      BY <1>0, <2>1
    <3>. QED BY <1>2, <2>1, <3>1
  <2>2. CASE ~(p \in position .. position + n - 1)
    BY <2>2 DEF SType
  <2>. QED BY <2>1, <2>2
<1>5. \A p \in Positions : p < position => kv'[p]
  BY <1>0, <1>3 DEF Positions
<1>6. ASSUME NEW i \in 1 .. n, \A k \in 1 .. i : toks[k] = script[position + k]
      PROVE  preds'[i] = script[position + i + 1] /\ kv'[position + i - 1]
  <2>1. Row(i)
    BY <1>1, <1>6
  <2>2. /\ position + i - 1 \in Positions
        /\ position + i - 1 \in position .. position + n - 1
        /\ (position + i - 1) - position + 1 = i
    BY <1>0, Bounds DEF Positions, n
  <2>3. kv'[position + i - 1] = Row(i)
    BY <1>3, <2>2
  <2>. QED BY <1>3, <2>1, <2>3
<1>7. ASSUME n > 0, recurrent, \A k \in 1 .. n : toks[k] = script[position + k]
      PROVE  rec' = [at |-> position + n, true |-> TRUE]
  <2>1. Row(n) /\ Row(n) \in BOOLEAN
    BY <1>0, <1>1, <1>2, <1>7
  <2>2. r.at = position
    BY <1>7
  <2>3. rec' = [at |-> position + n, true |-> Row(n)]
    BY <1>3, <1>7, <2>2
  <2>4. Row(n) = TRUE
    BY <2>1
  <2>. QED BY <2>3, <2>4
<1>. QED BY <1>3, <1>4, <1>5, <1>6, <1>7 DEF n

(* The accepted prefix is the script: the first row was fed the script,    *)
(* and a proposal equal to the prediction of a right row is right.         *)
LEMMA AcceptedPrefix ==
    ASSUME SType, InRound, HasProposals, Verified, phase = "accept",
           NEW a \in 0 .. Len(proposals),
           \A i \in 1 .. a : preds[i] = proposals[i]
    PROVE  \A k \in 1 .. a + 1 : VerifyTokens[k] = script[position + k]
<1>. DEFINE T == { k \in 1 .. a + 1 : VerifyTokens[k] # script[position + k] }
<1>1. /\ proposals \in Seq(Token) /\ next = script[position + 1] /\ next \in Token
      /\ position \in Nat
  BY Bounds DEF SType, InRound, HasProposals
<1>2. SUFFICES ASSUME T # {} PROVE FALSE
  OBVIOUS
<1>3. PICK x \in T : \A y \in T : x <= y
  <2>1. T \subseteq Nat
    BY <1>1
  <2>. QED BY <1>2, <2>1, LeastNat
<1>4. x \in 1 .. a + 1 /\ VerifyTokens[x] # script[position + x]
  OBVIOUS
<1>5. x # 1
  BY <1>1, <1>4, VerifyTokensFacts
<1>6. x - 1 \in 1 .. Len(proposals) /\ x - 1 \in 1 .. a /\ Len(proposals) \in Nat
  BY <1>1, <1>4, <1>5
<1>7. \A k \in 1 .. x - 1 : VerifyTokens[k] = script[position + k]
  <2>. SUFFICES ASSUME NEW k \in 1 .. x - 1 PROVE k \notin T /\ k \in 1 .. a + 1
    OBVIOUS
  <2>. QED BY <1>3, <1>4, <1>6
<1>8. preds[x - 1] = script[position + (x - 1) + 1]
  BY <1>6, <1>7 DEF Verified
<1>9. VerifyTokens[(x - 1) + 1] = proposals[x - 1]
  BY <1>1, <1>6, VerifyTokensFacts
<1>10. (x - 1) + 1 = x /\ position + (x - 1) + 1 = position + x
  BY <1>1, <1>4
<1>. QED BY <1>4, <1>6, <1>8, <1>9, <1>10

-----------------------------------------------------------------------------
(* The invariant, step by step.                                            *)

LEMMA InitSInv == Init => SInv
<1>. SUFFICES ASSUME Init PROVE SInv
  OBVIOUS
<1>1. SType /\ Caches
  BY Bounds DEF Init, SType, Caches, Positions, Phases
<1>. QED BY <1>1, Bounds DEF Init, SInv, Output, AtLoop, InRound, HasProposals, Verified,
                              Emitting, Stopped, Overshoot

(* Pushing the script's next token keeps the output a prefix of it.        *)
LEMMA Pushed ==
    ASSUME SType, Output, NEW t, t = script[Len(generated) + 1],
           Len(generated) <= MaxTokens, t \notin EosTokens,
           generated' = Append(generated, t), UNCHANGED <<script, recurrent>>,
           t \in StopTokens => phase' = "done",
           \A i \in 1 .. Len(generated) : generated[i] \notin StopTokens
    PROVE  /\ generated' \in Seq(Token)
           /\ Len(generated') = Len(generated) + 1
           /\ generated'[Len(generated')] = t
           /\ Output'
<1>1. Len(generated) + 1 \in 1 .. ScriptLen /\ Len(generated) \in Nat
  BY Bounds DEF SType
<1>2. t \in Token
  BY <1>1 DEF SType
<1>3. /\ generated' \in Seq(Token)
      /\ Len(generated') = Len(generated) + 1
      /\ generated'[Len(generated) + 1] = t
      /\ \A i \in 1 .. Len(generated) : generated'[i] = generated[i]
  BY <1>2 DEF SType
<1>4. ASSUME NEW i \in 1 .. Len(generated')
      PROVE  /\ generated'[i] = script[i]
             /\ generated'[i] \notin EosTokens
             /\ generated'[i] \in StopTokens => i = Len(generated') /\ phase' = "done"
  <2>1. CASE i = Len(generated) + 1
    BY <1>3, <2>1
  <2>2. CASE i \in 1 .. Len(generated)
    BY <1>3, <2>2 DEF Output
  <2>. QED BY <1>1, <1>3, <2>1, <2>2
<1>5. Len(generated') <= MaxTokens + 1
  BY <1>1, <1>3, Bounds
<1>. QED BY <1>3, <1>4, <1>5 DEF Output

LEMMA LoopHeadSInv == SInv /\ LoopHead => SInv'
<1>. SUFFICES ASSUME SInv, LoopHead PROVE SInv'
  OBVIOUS
<1>0. /\ SType /\ Caches /\ Output /\ AtLoop /\ Overshoot /\ phase = "loop"
      /\ UNCHANGED <<script, recurrent, next, position, kv, rec, snap, proposals, preds, m, j>>
      /\ Len(generated) \in Nat
  BY DEF SInv, LoopHead, SType
<1>1. CASE Exhausted \/ next \in EosTokens
  <2>1. phase' = "done" /\ generated' = generated
    BY <1>1 DEF LoopHead
  <2>2. Stopped' /\ Overshoot'
    BY <1>0, <1>1, <2>1 DEF AtLoop, Exhausted, Stopped, Overshoot
  <2>. QED BY <1>0, <2>1, <2>2 DEF SInv, SType, Caches, Output, AtLoop, InRound, HasProposals,
                                   Verified, Emitting, Phases
<1>2. CASE ~(Exhausted \/ next \in EosTokens)
  <2>1. /\ generated' = Append(generated, next)
        /\ phase' = IF next \in StopTokens \/ Len(generated) + 1 >= MaxTokens
                    THEN "done" ELSE "draft"
        /\ next = script[Len(generated) + 1]
        /\ Len(generated) < MaxTokens /\ position = Len(generated)
    BY <1>0, <1>2, Bounds DEF LoopHead, AtLoop, Exhausted
  <2>2. /\ generated' \in Seq(Token)
        /\ Len(generated') = Len(generated) + 1
        /\ generated'[Len(generated')] = next
        /\ Output'
    <3>1. \A i \in 1 .. Len(generated) : generated[i] \notin StopTokens
      BY <1>0 DEF Output
    <3>. QED BY <1>0, <1>2, <2>1, <3>1, Bounds, Pushed
  <2>3. SType'
    BY <1>0, <2>1, <2>2 DEF SType, Phases
  <2>4. Caches'
    BY <1>0, <2>1 DEF Caches
  <2>5. InRound'
    BY <1>0, <2>1, <2>2, Bounds DEF InRound
  <2>6. Stopped' /\ Overshoot'
    BY <1>0, <2>1, <2>2, Bounds DEF Stopped, Overshoot
  <2>. QED BY <2>1, <2>2, <2>3, <2>4, <2>5, <2>6
           DEF SInv, AtLoop, HasProposals, Verified, Emitting
<1>. QED BY <1>1, <1>2

LEMMA DraftSInv == SInv /\ Draft => SInv'
<1>. SUFFICES ASSUME SInv, Draft PROVE SInv'
  OBVIOUS
<1>1. /\ phase = "draft" /\ phase' = "verify"
      /\ UNCHANGED <<script, recurrent, generated, next, position, kv, rec, snap, preds, m, j>>
      /\ proposals' \in Drafts
  BY DEF Draft
<1>2. PICK n \in 1 .. NumDraft : proposals' \in [1 .. n -> Token]
  BY <1>1 DEF Drafts, DraftStep
<1>3. proposals' \in Seq(Token) /\ Len(proposals') = n
  BY <1>2, Bounds
<1>. QED BY <1>1, <1>3 DEF SInv, SType, Caches, Output, AtLoop, InRound, HasProposals, Verified,
                           Emitting, Stopped, Overshoot, Phases

LEMMA VerifySInv == SInv /\ Verify => SInv'
<1>. SUFFICES ASSUME SInv, Verify PROVE SInv'
  OBVIOUS
<1>0. /\ SType /\ Caches /\ Output /\ InRound /\ HasProposals /\ phase = "verify"
      /\ UNCHANGED <<script, recurrent, generated, next, position, proposals, m, j>>
      /\ snap' = IF recurrent THEN rec ELSE snap
      /\ Overshoot
  BY DEF SInv, Verify, Saved
<1>1. CASE position + Len(VerifyTokens) > Room
  <2>1. phase' = "error" /\ UNCHANGED <<kv, rec, preds>>
    BY <1>1 DEF Verify, Saved
  <2>. QED BY <1>0, <2>1 DEF SInv, SType, Caches, Output, AtLoop, InRound, HasProposals, Verified,
                             Emitting, Stopped, Overshoot, Phases
<1>2. CASE ~(position + Len(VerifyTokens) > Room)
  <2>1. VerifyBatched(VerifyTokens, position, rec) /\ phase' = "accept"
    BY <1>2 DEF Verify, Saved
  <2>2. /\ proposals \in Seq(Token) /\ Len(proposals) \in 1 .. NumDraft
        /\ Len(generated) = position + 1 /\ Len(generated) < MaxTokens
        /\ next = script[position + 1] /\ position \in Nat
    BY <1>0 DEF InRound, HasProposals, SType
  <2>3. next \in Token
    BY <1>0, <2>2, Bounds DEF SType
  <2>4. /\ VerifyTokens \in Seq(Token)
        /\ Len(VerifyTokens) = Len(proposals) + 1
        /\ position + Len(VerifyTokens) <= ScriptLen
        /\ Len(VerifyTokens) > 0
    BY <2>2, <2>3, VerifyTokensFacts, Bounds
  <2>5. /\ \A p \in Positions : p < position => kv[p]
        /\ recurrent => rec = [at |-> position, true |-> TRUE]
    BY <1>0 DEF Caches
  <2>6. /\ kv' \in [Positions -> BOOLEAN]
        /\ preds' \in [1 .. Len(VerifyTokens) -> Token]
        /\ \A p \in Positions : p < position => kv'[p]
        /\ \A i \in 1 .. Len(VerifyTokens) :
                (\A k \in 1 .. i : VerifyTokens[k] = script[position + k]) =>
                    /\ preds'[i] = script[position + i + 1]
                    /\ kv'[position + i - 1]
        /\ recurrent
              /\ (\A k \in 1 .. Len(VerifyTokens) : VerifyTokens[k] = script[position + k]) =>
                rec' = [at |-> position + Len(VerifyTokens), true |-> TRUE]
    BY <1>0, <2>1, <2>4, <2>5, BatchVerified
  <2>7. VerifyTokens' = VerifyTokens
    BY <1>0 DEF VerifyTokens
  <2>8. Verified'
    <3>1. position + Len(VerifyTokens) = position + Len(proposals) + 1
      BY <2>2, <2>4
    <3>2. recurrent => snap' = [at |-> position, true |-> TRUE]
      BY <1>0, <2>5
    <3>. HIDE DEF VerifyTokens
    <3>. QED BY <1>0, <2>4, <2>6, <2>7, <3>1, <3>2 DEF Verified
  <2>9. SType' /\ Caches'
    BY <1>0, <2>1, <2>6 DEF SType, Caches, Phases
  <2>. QED BY <1>0, <2>1, <2>8, <2>9 DEF SInv, Output, AtLoop, InRound, HasProposals,
                                         Emitting, Stopped, Overshoot
<1>. QED BY <1>1, <1>2

LEMMA AcceptSInv == SInv /\ Accept => SInv'
<1>. SUFFICES ASSUME SInv, Accept PROVE SInv'
  OBVIOUS
<1>0. /\ SType /\ Caches /\ Output /\ InRound /\ HasProposals /\ Verified /\ Overshoot
      /\ phase = "accept" /\ phase' = "emit" /\ j' = 0
      /\ UNCHANGED <<script, recurrent, generated, next, snap, proposals>>
  BY DEF SInv, Accept
<1>1. PICK a \in 0 .. Len(proposals) :
        /\ AcceptLength(a)
        /\ m' = a
        /\ position' = position + a + 1
        /\ IF recurrent /\ a < Len(proposals)
           THEN VerifyBatched(SubSeq(VerifyTokens, 1, a + 1), position, Restored)
           ELSE UNCHANGED <<kv, preds, rec>>
  BY DEF Accept
<1>2. /\ proposals \in Seq(Token) /\ Len(proposals) \in 1 .. NumDraft
      /\ Len(generated) = position + 1 /\ Len(generated) < MaxTokens
      /\ next = script[position + 1] /\ position \in Nat
      /\ a \in Nat /\ a <= NumDraft
  BY <1>0, <1>1, Bounds DEF InRound, HasProposals, SType
<1>3. next \in Token
  BY <1>0, <1>2, Bounds DEF SType
<1>4. \A i \in 1 .. a : preds[i] = proposals[i]
  BY <1>1 DEF AcceptLength
<1>5. \A k \in 1 .. a + 1 : VerifyTokens[k] = script[position + k]
  BY <1>0, <1>4, AcceptedPrefix
<1>6. /\ position' \in Nat /\ position' < ScriptLen
      /\ position' - m' = position + 1
  BY <1>1, <1>2, Bounds
<1>7. /\ kv' \in [Positions -> BOOLEAN]
      /\ preds'[a + 1] = script[position + (a + 1) + 1]
      /\ \A p \in Positions : p < position => kv'[p]
      /\ \A i \in 1 .. a + 1 : kv'[position + i - 1]
      /\ recurrent => rec' = [at |-> position + (a + 1), true |-> TRUE]
  <2>1. CASE recurrent /\ a < Len(proposals)
    <3>. DEFINE toks == SubSeq(VerifyTokens, 1, a + 1)
    <3>1. /\ toks \in Seq(Token) /\ Len(toks) = a + 1
          /\ \A k \in 1 .. a + 1 : toks[k] = VerifyTokens[k]
      <4>1. VerifyTokens \in Seq(Token) /\ Len(VerifyTokens) = Len(proposals) + 1
        BY <1>2, <1>3, VerifyTokensFacts
      <4>. HIDE DEF VerifyTokens
      <4>2. a + 1 <= Len(VerifyTokens) /\ 1 \in 1 .. a + 1 /\ Len(VerifyTokens) \in Nat
        BY <1>2, <2>1, <4>1
      <4>. QED BY <1>2, <4>1, <4>2, SubSeqProperties
    <3>2. VerifyBatched(toks, position, Restored)
      BY <1>1, <2>1
    <3>3. Restored = [at |-> position, true |-> TRUE]
      BY <1>0, <2>1 DEF Restored, Verified
    <3>4. position + Len(toks) <= ScriptLen /\ Len(toks) > 0
      BY <1>2, <3>1, Bounds
    <3>5. \A p \in Positions : p < position => kv[p]
      BY <1>0 DEF Caches
    <3>. HIDE DEF toks
    <3>6. /\ kv' \in [Positions -> BOOLEAN]
          /\ \A p \in Positions : p < position => kv'[p]
          /\ \A i \in 1 .. Len(toks) :
                (\A k \in 1 .. i : toks[k] = script[position + k]) =>
                    /\ preds'[i] = script[position + i + 1]
                    /\ kv'[position + i - 1]
          /\ (\A k \in 1 .. Len(toks) : toks[k] = script[position + k]) =>
                rec' = [at |-> position + Len(toks), true |-> TRUE]
      BY <1>0, <2>1, <3>1, <3>2, <3>3, <3>4, <3>5, BatchVerified
    <3>7. \A i \in 1 .. a + 1 : \A k \in 1 .. i : toks[k] = script[position + k]
      BY <1>2, <1>5, <3>1
    <3>8. /\ \A i \in 1 .. a + 1 : /\ preds'[i] = script[position + i + 1]
                                  /\ kv'[position + i - 1]
          /\ rec' = [at |-> position + (a + 1), true |-> TRUE]
      <4>1. a + 1 \in 1 .. a + 1
        BY <1>2
      <4>. QED BY <3>1, <3>6, <3>7, <4>1
    <3>9. preds'[a + 1] = script[position + (a + 1) + 1]
      <4>1. a + 1 \in 1 .. a + 1
        BY <1>2
      <4>. QED BY <3>8, <4>1
    <3>10. \A i \in 1 .. a + 1 : kv'[position + i - 1]
      BY <3>8
    <3>. QED BY <3>6, <3>8, <3>9, <3>10
  <2>2. CASE ~(recurrent /\ a < Len(proposals))
    <3>1. kv' = kv /\ preds' = preds /\ rec' = rec
      BY <1>1, <2>2
    <3>2. \A i \in 1 .. a + 1 : /\ preds[i] = script[position + i + 1]
                               /\ kv[position + i - 1]
      <4>. SUFFICES ASSUME NEW i \in 1 .. a + 1
                    PROVE  /\ preds[i] = script[position + i + 1]
                           /\ kv[position + i - 1]
        OBVIOUS
      <4>1. i \in 1 .. Len(proposals) + 1 /\ \A k \in 1 .. i : k \in 1 .. a + 1
        BY <1>1, <1>2
      <4>. HIDE DEF VerifyTokens
      <4>. QED BY <1>0, <1>5, <4>1 DEF Verified
    <3>3. recurrent => rec = [at |-> position + (a + 1), true |-> TRUE]
      <4>1. recurrent => a = Len(proposals)
        BY <1>1, <1>2, <2>2
      <4>2. position + Len(proposals) + 1 = position + (Len(proposals) + 1)
        BY <1>2
      <4>. QED BY <1>0, <1>5, <4>1, <4>2 DEF Verified
    <3>4. a + 1 \in 1 .. a + 1
      BY <1>2
    <3>5. preds[a + 1] = script[position + (a + 1) + 1]
      BY <3>2, <3>4
    <3>6. kv \in [Positions -> BOOLEAN] /\ \A p \in Positions : p < position => kv[p]
      BY <1>0 DEF SType, Caches
    <3>7. \A i \in 1 .. a + 1 : kv'[position + i - 1]
      BY <3>1, <3>2
    <3>. HIDE DEF VerifyTokens
    <3>. QED BY <3>1, <3>3, <3>5, <3>6, <3>7
  <2>. QED BY <2>1, <2>2
<1>8. \A p \in Positions : p < position' => kv'[p]
  <2>. SUFFICES ASSUME NEW p \in Positions, p < position', ~(p < position) PROVE kv'[p]
    BY <1>7
  <2>1. p - position + 1 \in 1 .. a + 1 /\ position + (p - position + 1) - 1 = p
    BY <1>1, <1>2, Bounds DEF Positions
  <2>. QED BY <1>7, <2>1
<1>9. SType' /\ Caches'
  <2>1. position + (a + 1) = position'
    BY <1>1, <1>2
  <2>. QED BY <1>0, <1>6, <1>7, <1>8, <2>1 DEF SType, Caches, Phases
<1>10. Emitting'
  <2>1. \A k \in 1 .. a : proposals[k] = script[position + 1 + k]
    <3>. SUFFICES ASSUME NEW k \in 1 .. a PROVE proposals[k] = script[position + 1 + k]
      OBVIOUS
    <3>1. k + 1 \in 1 .. a + 1 /\ k \in 1 .. Len(proposals) /\ position + (k + 1) = position + 1 + k
      BY <1>1, <1>2
    <3>2. VerifyTokens[k + 1] = proposals[k]
      BY <1>2, <1>3, <3>1, VerifyTokensFacts
    <3>. QED BY <1>5, <3>1, <3>2
  <2>2. preds'[m' + 1] = script[position' + 1]
    <3>1. position + (a + 1) + 1 = position' + 1
      BY <1>1, <1>2
    <3>. QED BY <1>1, <1>7, <3>1
  <2>3. /\ m' \in Nat /\ j' \in 0 .. m'
        /\ Len(generated') = position' - m' + j' /\ Len(generated') <= MaxTokens
    BY <1>0, <1>1, <1>2, <1>6, Bounds
  <2>4. \A k \in 1 .. m' : proposals'[k] = script'[position' - m' + k]
    BY <1>0, <1>1, <1>6, <2>1
  <2>. QED BY <1>0, <2>2, <2>3, <2>4 DEF Emitting
<1>. QED BY <1>0, <1>9, <1>10 DEF SInv, Output, AtLoop, InRound, HasProposals, Verified,
                                  Stopped, Overshoot

(* What the emit loop looks at is the script's next token.                 *)
LEMMA EmitTokenIsNext ==
    ASSUME SType, Emitting, phase = "emit"
    PROVE  EmitToken = script[Len(generated) + 1]
<1>1. /\ m \in Nat /\ j \in 0 .. m
      /\ Len(generated) = position - m + j
      /\ position \in Nat /\ Len(generated) \in Nat
  BY DEF Emitting, SType
<1>2. CASE j < m
  <2>1. j + 1 \in 1 .. m /\ position - m + (j + 1) = Len(generated) + 1
    BY <1>1, <1>2
  <2>. QED BY <1>2, <2>1 DEF Emitting, EmitToken
<1>3. CASE ~(j < m)
  <2>1. position = Len(generated)
    BY <1>1, <1>3
  <2>. QED BY <1>3, <2>1 DEF Emitting, EmitToken
<1>. QED BY <1>2, <1>3

LEMMA EmitStepSInv == SInv /\ EmitStep => SInv'
<1>. SUFFICES ASSUME SInv, EmitStep PROVE SInv'
  OBVIOUS
<1>0. /\ SType /\ Caches /\ Output /\ Emitting /\ Overshoot /\ phase = "emit"
      /\ UNCHANGED <<script, recurrent, position, kv, rec, snap>>
  BY DEF SInv, EmitStep
<1>1. /\ m \in Nat /\ j \in 0 .. m
      /\ Len(generated) = position - m + j /\ Len(generated) <= MaxTokens
      /\ position \in Nat /\ Len(generated) \in Nat
      /\ \A i \in 1 .. Len(generated) : generated[i] \notin StopTokens
  BY <1>0 DEF Emitting, SType, Output
<1>2. EmitToken = script[Len(generated) + 1]
  BY <1>0, EmitTokenIsNext
<1>. DEFINE t == EmitToken
<1>. HIDE DEF t
<1>3. CASE HandOver /\ (t \notin EosTokens => j = m)
  <2>1. next' = t /\ phase' = "loop" /\ generated' = generated
    BY <1>3 DEF HandOver, t
  <2>2. AtLoop'
    BY <1>0, <1>1, <1>2, <1>3, <2>1 DEF AtLoop, t
  <2>. QED BY <1>0, <2>1, <2>2 DEF SInv, SType, Caches, Output, InRound, HasProposals, Verified,
                                   Emitting, Stopped, Overshoot, Phases
<1>4. CASE EmitStop
  <2>1. /\ t \in StopTokens /\ t \notin EosTokens
        /\ generated' = Append(generated, t) /\ phase' = "done"
    BY <1>4 DEF EmitStop, t
  <2>2. /\ generated' \in Seq(Token)
        /\ Len(generated') = Len(generated) + 1
        /\ generated'[Len(generated')] = t
        /\ Output'
    BY <1>0, <1>1, <1>2, <2>1, Pushed DEF t
  <2>3. Stopped' /\ Overshoot'
    BY <1>1, <2>1, <2>2 DEF Stopped, Overshoot
  <2>. QED BY <1>0, <2>1, <2>2, <2>3 DEF SInv, SType, Caches, AtLoop, InRound, HasProposals,
                                         Verified, Emitting, Phases
<1>5. CASE EmitAccepted /\ Exhausted
  <2>1. phase' = "done" /\ generated' = generated
    BY <1>5 DEF EmitAccepted
  <2>2. Stopped'
    BY <1>5, <2>1 DEF Stopped, Exhausted
  <2>. QED BY <1>0, <2>1, <2>2 DEF SInv, SType, Caches, Output, AtLoop, InRound, HasProposals,
                                   Verified, Emitting, Overshoot, Phases
<1>6. CASE EmitAccepted /\ ~Exhausted
  <2>1. /\ t \notin EosTokens /\ t \notin StopTokens /\ j < m
        /\ generated' = Append(generated, t) /\ j' = j + 1 /\ phase' = phase
        /\ UNCHANGED <<next, proposals, preds, m>>
    BY <1>6 DEF EmitAccepted, t
  <2>2. /\ generated' \in Seq(Token)
        /\ Len(generated') = Len(generated) + 1
        /\ Output'
    BY <1>0, <1>1, <1>2, <2>1, Pushed DEF t
  <2>3. Len(generated) < MaxTokens
    BY <1>1, <1>6, Bounds DEF Exhausted
  <2>4. Emitting'
    <3>1. j' \in 0 .. m /\ Len(generated') = position - m + j' /\ Len(generated') <= MaxTokens
      BY <1>1, <2>1, <2>2, <2>3, Bounds
    <3>. QED BY <1>0, <2>1, <3>1 DEF Emitting
  <2>5. Overshoot'
    BY <1>1, <2>2, <2>3, Bounds DEF Overshoot
  <2>. QED BY <1>0, <2>1, <2>2, <2>4, <2>5 DEF SInv, SType, Caches, AtLoop, InRound,
                                         HasProposals, Verified, Stopped, Phases
<1>. QED BY <1>3, <1>4, <1>5, <1>6 DEF EmitStep, EmitEos, EmitLast, EmitStop, t

(* The invariant of the speculative loop. *)
THEOREM SpeculativeInvariant == Spec => []SInv
<1>1. SInv /\ [Next]_vars => SInv'
  <2>. SUFFICES ASSUME SInv, [Next]_vars PROVE SInv'
    OBVIOUS
  <2>1. CASE UNCHANGED vars
    BY <2>1 DEF vars, SInv, SType, Caches, Output, AtLoop, InRound, HasProposals, Verified,
                Emitting, Stopped, Overshoot, VerifyTokens
  <2>. QED BY <2>1, LoopHeadSInv, DraftSInv, VerifySInv, AcceptSInv, EmitStepSInv
           DEF Next, Returned
<1>. QED BY <1>1, InitSInv, PTL DEF Spec

(* The locals of a round are well typed: in particular the position stays  *)
(* within the script although a round moves it by more than it emits.      *)
LEMMA TypeKept == TypeOK /\ SInv /\ SInv' /\ [Next]_vars => TypeOK'
<1>. SUFFICES ASSUME TypeOK, SInv, SInv', [Next]_vars PROVE TypeOK'
  OBVIOUS
<1>. USE SpecAssumption
<1>1. SType'
  BY DEF SInv
<1>a. position' \in Positions /\ recurrent' = recurrent
  <2>1. position' \in Positions
    BY <1>1, Bounds DEF SType, Positions
  <2>. QED BY <2>1 DEF Next, LoopHead, Draft, Verify, Accept, EmitStep, Returned, vars
<1>2. CASE LoopHead \/ Returned \/ UNCHANGED vars
  BY <1>1, <1>2 DEF LoopHead, Returned, vars, SType, TypeOK
<1>3. ASSUME NEW toks \in Seq(Token), NEW base \in Nat, NEW r \in [at : Int, true : BOOLEAN],
             VerifyBatched(toks, base, r)
      PROVE  preds' \in Seq(Token) /\ rec' \in [at : Int, true : BOOLEAN]
  <2>1. preds' \in Seq(Token)
    BY <1>3 DEF VerifyBatched
  <2>2. RowTrue(toks, base, r, Len(toks)) \in BOOLEAN
    BY DEF RowTrue
  <2>. QED BY <1>3, <2>1, <2>2 DEF VerifyBatched, TypeOK
<1>4. CASE Draft
  <2>1. proposals' \in Seq(Token)
    BY <1>4 DEF Draft, Drafts, DraftStep
  <2>. QED BY <1>1, <1>4, <2>1 DEF Draft, SType, TypeOK
<1>5. VerifyTokens \in Seq(Token) /\ position \in Nat
  BY DEF VerifyTokens, TypeOK, Positions
<1>6. CASE Verify
  <2>1. preds' \in Seq(Token) /\ rec' \in [at : Int, true : BOOLEAN]
    BY <1>3, <1>5, <1>6 DEF Verify, TypeOK
  <2>. QED BY <1>1, <1>6, <2>1 DEF Verify, Saved, SType, TypeOK
<1>7. CASE Accept
  <2>1. PICK a \in 0 .. Len(proposals) :
          /\ m' = a
          /\ IF recurrent /\ a < Len(proposals)
             THEN VerifyBatched(SubSeq(VerifyTokens, 1, a + 1), position, Restored)
             ELSE UNCHANGED <<kv, preds, rec>>
    BY <1>7 DEF Accept
  <2>2. Len(proposals) \in 1 .. NumDraft
    BY <1>7 DEF Accept, SInv, HasProposals
  <2>3. SubSeq(VerifyTokens, 1, a + 1) \in Seq(Token)
    BY <1>5, <2>1, <2>2 DEF VerifyTokens, TypeOK
  <2>4. preds' \in Seq(Token) /\ rec' \in [at : Int, true : BOOLEAN]
    BY <1>3, <1>5, <2>1, <2>3 DEF Restored, TypeOK
  <2>5. m' \in 0 .. NumDraft /\ j' \in 0 .. NumDraft
    BY <1>7, <2>1, <2>2 DEF Accept
  <2>6. UNCHANGED <<snap, proposals>>
    BY <1>7 DEF Accept
  <2>7. snap' \in [at : Int, true : BOOLEAN] /\ proposals' \in Seq(Token)
    BY <2>6 DEF TypeOK
  <2>. QED BY <1>1, <1>7, <1>a, <2>4, <2>5, <2>7 DEF Accept, SType, TypeOK
<1>8. CASE EmitStep
  <2>1. m' \in 0 .. NumDraft /\ j' \in 0 .. NumDraft
    BY <1>8 DEF EmitStep, EmitEos, EmitStop, EmitLast, EmitAccepted, HandOver, TypeOK
  <2>2. UNCHANGED <<proposals, preds>> \/ (proposals' = <<>> /\ preds' = <<>>)
    BY <1>8 DEF EmitStep, EmitEos, EmitStop, EmitLast, EmitAccepted, HandOver
  <2>3. proposals' \in Seq(Token) /\ preds' \in Seq(Token)
    <3>1. CASE UNCHANGED <<proposals, preds>>
      BY <3>1 DEF TypeOK
    <3>2. CASE proposals' = <<>> /\ preds' = <<>>
      BY <3>2
    <3>. QED BY <2>2, <3>1, <3>2
  <2>4. rec' \in [at : Int, true : BOOLEAN] /\ snap' \in [at : Int, true : BOOLEAN]
    BY <1>8 DEF EmitStep, TypeOK
  <2>5. next' \in Token
    <3>1. CASE phase' = "loop"
      <4>1. next' = script'[Len(generated') + 1] /\ Len(generated') \in 0 .. MaxTokens
        BY <1>1, <3>1 DEF SInv, AtLoop, SType
      <4>2. Len(generated') + 1 \in 1 .. ScriptLen
        BY <4>1 DEF ScriptLen
      <4>. QED BY <1>1, <4>1, <4>2 DEF SType
    <3>2. CASE phase' # "loop"
      BY <1>8, <3>2 DEF EmitStep, EmitEos, EmitStop, EmitLast, EmitAccepted, HandOver, TypeOK
    <3>. QED BY <3>1, <3>2
  <2>. QED BY <1>1, <1>a, <2>1, <2>3, <2>4, <2>5 DEF SType, TypeOK
<1>. QED BY <1>2, <1>4, <1>6, <1>7, <1>8 DEF Next

(* Types of the speculative loop, for every draft length and context.      *)
THEOREM SpeculativeTyped == Spec => []TypeOK
<1>1. Init => TypeOK
  BY Bounds, SpecAssumption DEF Init, TypeOK, Positions, ScriptLen, Phases
<1>. QED BY <1>1, TypeKept, SpeculativeInvariant, PTL DEF Spec

(* No slot of a rejected draft token is read before it is overwritten.     *)
THEOREM CommittedKvSafe == Spec => []CommittedKv
<1>1. SInv => CommittedKv
  BY DEF SInv, Caches, CommittedKv
<1>. QED BY <1>1, SpeculativeInvariant, PTL

(* Every partial accept rolls the recurrent state back to the committed    *)
(* tokens.                                                                 *)
THEOREM RecurrentSafe == Spec => []RecurrentAtPosition
<1>1. SInv => RecurrentAtPosition
  BY DEF SInv, Caches, RecurrentAtPosition
<1>. QED BY <1>1, SpeculativeInvariant, PTL

(* The output is the target's greedy continuation, stopped where the       *)
(* baseline stops.                                                         *)
THEOREM GreedySafe == Spec => []GreedyOutput
<1>1. SInv => GreedyOutput
  <2>. SUFFICES ASSUME SInv PROVE GreedyOutput
    OBVIOUS
  <2>1. DOMAIN generated = 1 .. Len(generated)
    BY DEF SInv, SType
  <2>. QED BY <2>1 DEF SInv, Output, Stopped, GreedyOutput
<1>. QED BY <1>1, SpeculativeInvariant, PTL

(* At most one token beyond max_tokens, and only a stop token.             *)
THEOREM OvershootSafe == Spec => []BoundedOvershoot
<1>1. SInv => BoundedOvershoot
  BY DEF SInv, Output, Overshoot, BoundedOvershoot
<1>. QED BY <1>1, SpeculativeInvariant, PTL

-----------------------------------------------------------------------------
(* Refinement: with its output cut to max_tokens, the speculative loop is  *)
(* the token-at-a-time loop.                                               *)

(* What the cut does to an output that grows by one token.                 *)
LEMMA CappedFacts ==
    ASSUME generated \in Seq(Token), Len(generated) <= MaxTokens
    PROVE  /\ Capped = generated
           /\ \A t \in Token : generated' = Append(generated, t) =>
                Capped' = IF Len(generated) < MaxTokens THEN Append(generated, t) ELSE generated
<1>1. Capped = generated
  BY Bounds DEF Capped
<1>2. ASSUME NEW t \in Token, generated' = Append(generated, t)
      PROVE  Capped' = IF Len(generated) < MaxTokens THEN Append(generated, t) ELSE generated
  <2>0. Len(generated') = Len(generated) + 1 /\ generated' \in Seq(Token) /\ Len(generated) \in Nat
    BY <1>2
  <2>1. CASE Len(generated) < MaxTokens
    BY <1>2, <2>0, <2>1, Bounds DEF Capped
  <2>2. CASE ~(Len(generated) < MaxTokens)
    <3>1. MaxTokens = Len(generated)
      BY <2>0, <2>2, Bounds
    <3>2. Capped' = SubSeq(generated', 1, Len(generated))
      BY <2>0, <3>1, Bounds DEF Capped
    <3>3. SubSeq(generated', 1, Len(generated)) = generated
      BY <1>2, <2>0
    <3>. QED BY <2>2, <3>2, <3>3
  <2>. QED BY <2>1, <2>2
<1>. QED BY <1>1, <1>2

(* The two ways a step of the speculative loop touches the baseline: it    *)
(* pushes the script's next token, or it stops.                            *)
LEMMA PushIsEmit ==
    ASSUME SInv, NEW t, t = script[Len(generated) + 1], Len(generated) < MaxTokens,
           t \notin EosTokens, phase # "done",
           generated' = Append(generated, t), UNCHANGED <<script, recurrent>>,
           phase' = "done" => t \in StopTokens \/ Len(generated) + 1 = MaxTokens,
           phase' # "done" => t \notin StopTokens
    PROVE  Baseline!Emit
<1>1. generated \in Seq(Token) /\ t \in Token
  BY Bounds DEF SInv, SType
<1>2. Capped = generated /\ Capped' = Append(generated, t)
  <2>1. Len(generated) <= MaxTokens
    BY <1>1, Bounds
  <2>. QED BY <1>1, <2>1, CappedFacts
<1>3. (phase = "done") = FALSE /\ (phase' = "done") \in BOOLEAN
  OBVIOUS
<1>. QED BY <1>2, <1>3 DEF Baseline!Emit

LEMMA StopIsFinish ==
    ASSUME SInv, phase # "done", phase' = "done", UNCHANGED <<script, recurrent>>, Capped' = Capped,
           Len(generated) <= MaxTokens,
           Len(generated) = MaxTokens \/ script[Len(generated) + 1] \in EosTokens
    PROVE  Baseline!Finish
<1>1. Capped = generated
  BY CappedFacts DEF SInv, SType
<1>. QED BY <1>1 DEF Baseline!Finish

(* A step that leaves the output alone and does not end the request.       *)
LEMMA QuietIsStutter ==
    ASSUME UNCHANGED <<script, recurrent, generated>>, (phase' = "done") = (phase = "done")
    PROVE  UNCHANGED Baseline!vars
  BY DEF Baseline!vars, Capped

(* Every step of the speculative loop is a step of the baseline or none.   *)
LEMMA StepRefines == SInv /\ [Next]_vars => [Baseline!Next]_(Baseline!vars)
<1>. SUFFICES ASSUME SInv, [Next]_vars PROVE [Baseline!Next]_(Baseline!vars)
  OBVIOUS
<1>0. generated \in Seq(Token) /\ Len(generated) \in Nat
  BY DEF SInv, SType
<1>1. CASE LoopHead
  <2>0. /\ phase = "loop" /\ UNCHANGED <<script, recurrent>> /\ Len(generated) <= MaxTokens
        /\ next = script[Len(generated) + 1]
    BY <1>1 DEF LoopHead, SInv, AtLoop
  <2>1. CASE Exhausted \/ next \in EosTokens
    <3>1. phase' = "done" /\ generated' = generated
      BY <1>1, <2>1 DEF LoopHead
    <3>2. Len(generated) = MaxTokens \/ script[Len(generated) + 1] \in EosTokens
      BY <1>0, <2>0, <2>1, Bounds DEF Exhausted
    <3>. QED BY <2>0, <3>1, <3>2, StopIsFinish DEF Baseline!Next, Capped
  <2>2. CASE ~(Exhausted \/ next \in EosTokens)
    <3>1. /\ generated' = Append(generated, next)
          /\ phase' = IF next \in StopTokens \/ Len(generated) + 1 >= MaxTokens
                      THEN "done" ELSE "draft"
          /\ Len(generated) < MaxTokens
      BY <1>0, <1>1, <2>2, Bounds DEF LoopHead, Exhausted
    <3>2. /\ phase' = "done" => next \in StopTokens \/ Len(generated) + 1 = MaxTokens
          /\ phase' # "done" => next \notin StopTokens
      BY <1>0, <3>1, Bounds
    <3>. QED BY <2>0, <2>2, <3>1, <3>2, PushIsEmit DEF Baseline!Next
  <2>. QED BY <2>1, <2>2
<1>2. CASE Draft \/ Verify \/ Accept \/ UNCHANGED vars
  <2>1. UNCHANGED <<script, recurrent, generated>> /\ (phase' = "done") = (phase = "done")
    BY <1>2 DEF Draft, Verify, Accept, vars
  <2>. QED BY <2>1, QuietIsStutter
<1>3. CASE EmitStep
  <2>0. /\ phase = "emit" /\ UNCHANGED <<script, recurrent>> /\ Len(generated) <= MaxTokens
        /\ EmitToken = script[Len(generated) + 1]
    BY <1>3, EmitTokenIsNext DEF EmitStep, SInv, Emitting
  <2>1. CASE HandOver
    <3>1. UNCHANGED <<script, recurrent, generated>> /\ (phase' = "done") = (phase = "done")
      BY <2>0, <2>1 DEF HandOver
    <3>. QED BY <3>1, QuietIsStutter
  <2>2. CASE EmitStop
    <3>1. /\ EmitToken \in StopTokens /\ EmitToken \notin EosTokens
          /\ generated' = Append(generated, EmitToken) /\ phase' = "done"
      BY <2>2 DEF EmitStop
    <3>2. CASE Len(generated) < MaxTokens
      BY <2>0, <3>1, <3>2, PushIsEmit DEF Baseline!Next
    <3>3. CASE ~(Len(generated) < MaxTokens)
      <4>1. Len(generated) = MaxTokens
        BY <1>0, <2>0, <3>3, Bounds
      <4>2. EmitToken \in Token
        BY SpecAssumption, <3>1 DEF SpecAssumption
      <4>3. Capped' = Capped
        BY <1>0, <2>0, <3>1, <3>3, <4>2, CappedFacts
      <4>. QED BY <2>0, <3>1, <4>1, <4>3, StopIsFinish DEF Baseline!Next
    <3>. QED BY <3>2, <3>3
  <2>3. CASE EmitAccepted
    <3>0. EmitToken \notin EosTokens /\ EmitToken \notin StopTokens
      BY <2>3 DEF EmitAccepted
    <3>1. CASE Exhausted
      <4>1. phase' = "done" /\ generated' = generated
        BY <2>3, <3>1 DEF EmitAccepted
      <4>2. Len(generated) = MaxTokens
        BY <1>0, <2>0, <3>1, Bounds DEF Exhausted
      <4>. QED BY <2>0, <4>1, <4>2, StopIsFinish DEF Baseline!Next, Capped
    <3>2. CASE ~Exhausted
      <4>1. generated' = Append(generated, EmitToken) /\ phase' = phase
        BY <2>3, <3>2 DEF EmitAccepted
      <4>2. Len(generated) < MaxTokens
        BY <1>0, <3>2, Bounds DEF Exhausted
      <4>. QED BY <2>0, <3>0, <4>1, <4>2, PushIsEmit DEF Baseline!Next
    <3>. QED BY <3>1, <3>2
  <2>. QED BY <1>3, <2>1, <2>2, <2>3 DEF EmitStep, EmitEos, EmitLast
<1>. QED BY <1>1, <1>2, <1>3 DEF Next, Returned

(* Speculation is lossless up to the cut: the loop implements the baseline *)
(* decode loop.                                                            *)
THEOREM Lossless == Spec => ImplementsBaseline
<1>1. Init => Baseline!Init
  <2>. SUFFICES ASSUME Init PROVE Baseline!Init
    OBVIOUS
  <2>1. Capped = <<>> /\ (phase = "done") = FALSE
    BY Bounds DEF Init, Capped
  <2>. QED BY <2>1 DEF Init, Baseline!Init
<1>. QED BY <1>1, StepRefines, SpeculativeInvariant, PTL DEF Spec, ImplementsBaseline, Baseline!Spec
=============================================================================
