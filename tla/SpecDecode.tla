----------------------------- MODULE SpecDecode -----------------------------
(***************************************************************************)
(* Greedy speculative decoding: the loop of                                *)
(* CudaLlamaExecutor::generate_speculative_greedy (executor/speculative.rs)*)
(* and generate_speculative_mtp_greedy (executor/mtp.rs), with             *)
(* verify_batched (executor/prefill/mod.rs) and the GDN snapshot / restore.*)
(*                                                                         *)
(* A round pushes `next`, lets the draft propose up to NumDraft tokens,    *)
(* runs the target once over [next] \o proposals, accepts the longest      *)
(* prefix the target agrees with and hands the target's own correction to  *)
(* the next round.  The two loops differ in one thing: the MTP target has  *)
(* recurrent (gated delta net) layers, whose state is not addressed by     *)
(* position and must be rolled back (recurrent = TRUE).                    *)
(*                                                                         *)
(* Positions are relative to the end of the prompt.  What a position of    *)
(* the KV cache holds is abstracted to one bit: kv[p] is TRUE iff the keys *)
(* and values at p were computed from the target's own token at p, in the  *)
(* target's own context.  The recurrent state is the number of tokens it   *)
(* has consumed and the same bit.  The target predicts script[p + 2] from  *)
(* position p when everything it reads is TRUE and anything otherwise; the *)
(* draft proposes anything at any time.                                    *)
(***************************************************************************)
EXTENDS Integers, Sequences

CONSTANTS Token, EosTokens, StopTokens, MaxTokens,
          NumDraft,    \* num_draft_tokens, at least one
          Room         \* kv_context_size minus the prompt's length

ASSUME SpecAssumption ==
    /\ EosTokens \subseteq Token
    /\ StopTokens \subseteq Token
    /\ MaxTokens \in Nat
    /\ NumDraft \in Nat \ {0}
    /\ Room \in Nat

ScriptLen == MaxTokens + NumDraft
Positions == 0 .. ScriptLen
Phases == {"loop", "draft", "verify", "accept", "emit", "done", "error"}

VARIABLES
    script,     \* the target's greedy continuation of the prompt
    recurrent,  \* TRUE: the MTP loop, whose target has GDN layers
    generated,  \* the output
    next,       \* the next token, predicted and not yet pushed
    position,   \* state.position
    kv,         \* the full-attention KV cache
    rec,        \* recurrent + conv state of the GDN layers
    snap,       \* gdn_snapshot
    proposals,  \* this round's draft
    preds,      \* preds / preds_final
    m, j,       \* accepted proposals; index of the emit loop
    phase

vars == <<script, recurrent, generated, next, position, kv, rec, snap, proposals, preds, m, j, phase>>

VerifyTokens == <<next>> \o proposals

TypeOK ==
    /\ script \in [1 .. ScriptLen -> Token]
    /\ recurrent \in BOOLEAN
    /\ generated \in Seq(Token)
    /\ next \in Token
    /\ position \in Positions
    /\ kv \in [Positions -> BOOLEAN]
    /\ rec \in [at : Int, true : BOOLEAN]
    /\ snap \in [at : Int, true : BOOLEAN]
    /\ proposals \in Seq(Token)
    /\ preds \in Seq(Token)
    /\ m \in 0 .. NumDraft
    /\ j \in 0 .. NumDraft
    /\ phase \in Phases

-----------------------------------------------------------------------------
(* verify_batched over `toks` at positions base, base + 1, ..., with the   *)
(* recurrent layers in state r.  Row i reads the cache below base, the     *)
(* rows before it and r; it is true when all of that is.                   *)

RowTrue(toks, base, r, i) ==
    /\ \A p \in Positions : p < base => kv[p]
    /\ \A k \in 1 .. i : toks[k] = script[base + k]
    /\ recurrent => r = [at |-> base, true |-> TRUE]

VerifyBatched(toks, base, r) ==
    LET n == Len(toks) IN
    /\ kv' = [p \in Positions |-> IF p \in base .. base + n - 1
                                  THEN RowTrue(toks, base, r, p - base + 1)
                                  ELSE kv[p]]
    /\ \E q \in [1 .. n -> Token] :
        /\ \A i \in 1 .. n : RowTrue(toks, base, r, i) => q[i] = script[base + i + 1]
        /\ preds' = q
    /\ rec' = IF recurrent
              THEN [at |-> r.at + n, true |-> RowTrue(toks, base, r, n)]
              ELSE rec

-----------------------------------------------------------------------------
(* The state after prefill_prompt: the prompt is in the caches, `next` is  *)
(* the target's first token.                                               *)
Init ==
    /\ script \in [1 .. ScriptLen -> Token]
    /\ recurrent \in BOOLEAN
    /\ next = script[1]
    /\ generated = <<>>
    /\ position = 0
    /\ kv = [p \in Positions |-> FALSE]
    /\ rec = [at |-> 0, true |-> TRUE]
    /\ snap = [at |-> 0, true |-> FALSE]
    /\ proposals = <<>>
    /\ preds = <<>>
    /\ m = 0 /\ j = 0
    /\ phase = "loop"

(* Mutant: `>` for `>=` in the two max_tokens tests. *)
ExhaustedLate == Len(generated) > MaxTokens

Exhausted == Len(generated) >= MaxTokens

(* Mutant: is_eos(next) is not tested before the push. *)
LoopHeadPushesEos ==
    /\ phase = "loop"
    /\ IF Exhausted
       THEN /\ phase' = "done"
            /\ UNCHANGED generated
       ELSE /\ generated' = Append(generated, next)
            /\ phase' = IF next \in StopTokens \/ Len(generated) + 1 >= MaxTokens
                        THEN "done" ELSE "draft"
    /\ UNCHANGED <<script, recurrent, next, position, kv, rec, snap, proposals, preds, m, j>>

(* Mutant: an EOS continues 'outer instead of leaving it. *)
LoopHeadContinues ==
    /\ phase = "loop"
    /\ IF Exhausted \/ next \in EosTokens
       THEN /\ phase' = IF Exhausted THEN "done" ELSE "loop"
            /\ UNCHANGED generated
       ELSE /\ generated' = Append(generated, next)
            /\ phase' = IF next \in StopTokens \/ Len(generated) + 1 >= MaxTokens
                        THEN "done" ELSE "draft"
    /\ UNCHANGED <<script, recurrent, next, position, kv, rec, snap, proposals, preds, m, j>>

(* The head of 'outer: leave on max_tokens or EOS, push a stop token and   *)
(* leave, else push and leave if that was the last token allowed.          *)
LoopHead ==
    /\ phase = "loop"
    /\ IF Exhausted \/ next \in EosTokens
       THEN /\ phase' = "done"
            /\ UNCHANGED generated
       ELSE /\ generated' = Append(generated, next)
            /\ phase' = IF next \in StopTokens \/ Len(generated) + 1 >= MaxTokens
                        THEN "done" ELSE "draft"
    /\ UNCHANGED <<script, recurrent, next, position, kv, rec, snap, proposals, preds, m, j>>

(* One step of a draft network: any token.                                 *)
DraftStep == Token

(* Mutant: the draft loop runs once more than num_draft. *)
DraftsOneMore ==
    { d \in UNION { [1 .. n -> DraftStep] : n \in 1 .. NumDraft + 1 } :
        /\ \A i \in 1 .. Len(d) : d[i] \in EosTokens => i = Len(d)
        /\ Len(d) = NumDraft + 1 \/ d[Len(d)] \in EosTokens }

(* The draft's proposals: num_draft of them, cut short after an EOS.       *)
(* Neither draft writes the target's KV or recurrent state.                *)
Drafts ==
    { d \in UNION { [1 .. n -> DraftStep] : n \in 1 .. NumDraft } :
        /\ \A i \in 1 .. Len(d) : d[i] \in EosTokens => i = Len(d)
        /\ Len(d) = NumDraft \/ d[Len(d)] \in EosTokens }

Draft ==
    /\ phase = "draft"
    /\ proposals' \in Drafts
    /\ phase' = "verify"
    /\ UNCHANGED <<script, recurrent, generated, next, position, kv, rec, snap, preds, m, j>>

(* gdn_snapshot_save: the state before the batch.                          *)
Saved == IF recurrent THEN rec ELSE snap

(* The snapshot, then the batched verify.  prepare_dense_batch rejects a   *)
(* batch that would end beyond kv_context_size before anything is written. *)
Verify ==
    /\ phase = "verify"
    /\ snap' = Saved
    /\ IF position + Len(VerifyTokens) > Room
       THEN /\ phase' = "error"
            /\ UNCHANGED <<kv, rec, preds>>
       ELSE /\ VerifyBatched(VerifyTokens, position, rec)
            /\ phase' = "accept"
    /\ UNCHANGED <<script, recurrent, generated, next, position, proposals, m, j>>

(* Mutant: the scan counts the first proposal the target disagrees with. *)
AcceptLengthLate(a) ==
    /\ \A i \in 1 .. a - 1 : preds[i] = proposals[i]
    /\ a < Len(proposals) => a > 0 /\ preds[a] # proposals[a]

(* a is the length of the longest prefix of the proposals the target       *)
(* predicts.                                                               *)
AcceptLength(a) ==
    /\ \A i \in 1 .. a : preds[i] = proposals[i]
    /\ a < Len(proposals) => preds[a + 1] # proposals[a + 1]

(* Mutant: the prefix is re-run without restoring the snapshot. *)
NotRestored == rec

(* gdn_snapshot_restore: the state the committed prefix is re-run from.    *)
Restored == snap

(* The accepted length, the GDN rollback of a partial accept - restore the *)
(* snapshot and verify the committed prefix again, which also rewrites its *)
(* KV and predictions - and the new position.                              *)
Accept ==
    /\ phase = "accept"
    /\ \E a \in 0 .. Len(proposals) :
        /\ AcceptLength(a)
        /\ m' = a
        /\ position' = position + a + 1
        /\ IF recurrent /\ a < Len(proposals)
           THEN VerifyBatched(SubSeq(VerifyTokens, 1, a + 1), position, Restored)
           ELSE UNCHANGED <<kv, preds, rec>>
    /\ j' = 0
    /\ phase' = "emit"
    /\ UNCHANGED <<script, recurrent, generated, next, snap, proposals>>

(* Mutant: the correction is taken one row early. *)
EmitTokenEarlyRow == IF j < m THEN proposals[j + 1] ELSE preds[IF m > 0 THEN m ELSE 1]

(* The token of iteration j of the emit loop: an accepted proposal, and    *)
(* after the last one the target's own token.                              *)
EmitToken == IF j < m THEN proposals[j + 1] ELSE preds[m + 1]

(* The round's locals go out of scope with the round. *)
HandOver ==
    /\ next' = EmitToken
    /\ phase' = "loop"
    /\ proposals' = <<>> /\ preds' = <<>>
    /\ m' = 0 /\ j' = 0
    /\ UNCHANGED generated

EmitEos == EmitToken \in EosTokens /\ HandOver

EmitStop ==
    /\ EmitToken \in StopTokens \ EosTokens
    /\ generated' = Append(generated, EmitToken)
    /\ phase' = "done"
    /\ UNCHANGED <<next, proposals, preds, m, j>>

EmitLast ==
    /\ EmitToken \notin EosTokens \cup StopTokens
    /\ j = m
    /\ HandOver

EmitAccepted ==
    /\ EmitToken \notin EosTokens \cup StopTokens
    /\ j < m
    /\ IF Exhausted
       THEN phase' = "done" /\ UNCHANGED <<generated, j>>
       ELSE /\ generated' = Append(generated, EmitToken)
            /\ j' = j + 1
            /\ UNCHANGED phase
    /\ UNCHANGED <<next, proposals, preds, m>>

(* One iteration of `for j in 0..=m`.                                      *)
EmitStep ==
    /\ phase = "emit"
    /\ EmitEos \/ EmitStop \/ EmitLast \/ EmitAccepted
    /\ UNCHANGED <<script, recurrent, position, kv, rec, snap>>

Returned == phase \in {"done", "error"} /\ UNCHANGED vars

Next == LoopHead \/ Draft \/ Verify \/ Accept \/ EmitStep \/ Returned

Spec == Init /\ [][Next]_vars

(* The loop is one host thread that only waits for launches it has issued. *)
FairSpec == Spec /\ WF_vars(LoopHead \/ Draft \/ Verify \/ Accept \/ EmitStep)

-----------------------------------------------------------------------------
(* Properties *)

(* Where a decision is taken on it, everything the target will read is     *)
(* its own: below state.position the KV cache holds committed tokens only, *)
(* and no slot of a rejected draft token is read before it is overwritten. *)
(* generate_speculative_greedy relies on this instead of truncating.       *)
CommittedKv ==
    phase \in {"loop", "draft", "verify", "emit"} =>
        \A p \in Positions : p < position => kv[p]

(* When a round starts, the recurrent state has consumed exactly the       *)
(* committed tokens: a partial accept was rolled back and re-advanced to   *)
(* base_pos + m + 1.                                                       *)
RecurrentAtPosition ==
    recurrent /\ phase \in {"loop", "draft", "verify", "emit"} =>
        rec = [at |-> position, true |-> TRUE]

Capped == IF Len(generated) > MaxTokens THEN SubSeq(generated, 1, MaxTokens) ELSE generated

(* The output never leaves the target's greedy continuation, stops at the  *)
(* first stop token and contains no EOS; a request that returns without    *)
(* an error stopped for a reason the baseline loop would have stopped for. *)
GreedyOutput ==
    /\ \A i \in DOMAIN generated :
        /\ generated[i] = script[i]
        /\ generated[i] \notin EosTokens
        /\ generated[i] \in StopTokens => i = Len(generated)
    /\ phase = "done" =>
        \/ Len(generated) >= MaxTokens
        \/ generated # <<>> /\ generated[Len(generated)] \in StopTokens
        \/ script[Len(generated) + 1] \in EosTokens

(* At most one token is pushed beyond max_tokens, and only a stop token.   *)
BoundedOvershoot ==
    /\ Len(generated) <= MaxTokens + 1
    /\ Len(generated) = MaxTokens + 1 => generated[Len(generated)] \in StopTokens

(* The speculative loop, its output cut to max_tokens, implements the      *)
(* token-at-a-time loop.                                                   *)
Baseline == INSTANCE GreedyDecode WITH emitted <- Capped, done <- phase = "done"
ImplementsBaseline == Baseline!Spec

(* Every request returns.                                                  *)
Terminates == <>(phase \in {"done", "error"})
=============================================================================
