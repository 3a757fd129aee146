------------------------------- MODULE KvRing -------------------------------
(***************************************************************************)
(* The KV cache of one attention layer of one sequence in the CUDA         *)
(* executor (executor/full.rs new_state, executor/state.rs CudaKvCache,    *)
(* executor/attention.rs, executor/prefill/layer.rs and the store kernels  *)
(* of cuda/runtime/kv.rs).                                                 *)
(*                                                                         *)
(* A full-attention layer (Window = 0) has a slot for every position of    *)
(* the context.  A sliding-window layer has Window slots and a position is *)
(* stored in slot position % Window, over the position it replaces.  What  *)
(* matters is which position a slot holds: a slot's content is that        *)
(* position, or Never.                                                     *)
(*                                                                         *)
(* Three writers share the cache: the chunked prefill, which stores a      *)
(* whole chunk and then lets every row of it attend; the decode step,      *)
(* which stores one position and attends; and the batched verify of        *)
(* speculative decoding, which is a chunk at the current position whose    *)
(* tail may be rejected.                                                   *)
(*                                                                         *)
(* With FP8 storage a sliding-window layer has two caches: the FP8 one     *)
(* that decode reads, and an f16 copy (prefill_f16_keys) that prefill      *)
(* attention reads.                                                        *)
(***************************************************************************)
EXTENDS Integers, FiniteSets

CONSTANTS Window,      \* layer.window_size; 0 for full attention
          Context,     \* kv_context_size
          Fp8,         \* KV storage is FP8
          Requests     \* records [prompt, chunk, spec, last]: prompt length,
                       \* prefill chunk size, verify batch size (0: token
                       \* decode), end of the last batch max_tokens allows

ASSUME RingAssumption ==
    /\ Window \in Nat
    /\ Context \in Nat \ {0}
    /\ Fp8 \in BOOLEAN
    /\ Requests \subseteq [prompt : 1 .. Context, chunk : Nat \ {0}, spec : Nat, last : Nat]

Capacity == IF Window > 0 /\ Window < Context THEN Window ELSE Context
Slots == 0 .. Capacity - 1
Positions == 0 .. Context - 1
Never == -1

(* A sliding-window FP8 layer keeps an f16 copy for prefill attention. *)
HasAux == Fp8 /\ Window > 0

VARIABLES
    request,   \* the request being served
    position,  \* state.position
    keys,      \* the cache decode reads: slot -> position
    aux,       \* prefill_f16_keys / prefill_f16_values
    reads,     \* what the last attention read: [query, wanted, found]
    by         \* who ran it: "prefill", "decode" or "verify"

vars == <<request, position, keys, aux, reads, by>>

TypeOK ==
    /\ request \in Requests
    /\ position \in 0 .. Context
    /\ keys \in [Slots -> Positions \cup {Never}]
    /\ aux \in [Slots -> Positions \cup {Never}]
    /\ reads \subseteq [query : Positions, wanted : Positions, found : Positions \cup {Never}]
    /\ by \in {"none", "prefill", "decode", "verify"}

-----------------------------------------------------------------------------
(* The positions the query at q attends to. *)
Visible(q) == { p \in Positions : p <= q /\ (Window > 0 => p + Window > q) }

(* What queries qs read from a cache. *)
Attend(qs, cache) ==
    UNION { { [query |-> q, wanted |-> p, found |-> cache[p % Capacity]] :
                p \in Visible(q) } : q \in qs }

(* Where a ring store puts a position. *)
SlotOf(p) == p % Capacity

(* The ring store of a batch.  One launch writes all rows; when several    *)
(* rows of the batch share a slot, any of them may be the last.            *)
RingStores(batch, cache) ==
    LET touched == { SlotOf(p) : p \in batch } IN
    { [s \in Slots |-> IF s \in touched THEN last[s] ELSE cache[s]] :
        last \in { w \in [touched -> batch] : \A s \in touched : SlotOf(w[s]) = s } }

(* The FP8 slot store takes slot_mapping as it is - the position - and     *)
(* drops a row whose slot is not below the capacity.                       *)
SlotStores(batch, cache) ==
    { [s \in Slots |-> IF s \in batch THEN s ELSE cache[s]] }

(* The batched layer: store the batch, then every row attends.             *)
ForwardBatch(batch) ==
    IF HasAux
    THEN /\ aux' \in RingStores(batch, aux)
         /\ keys' \in SlotStores(batch, keys)
         /\ reads' = Attend(batch, aux')
    ELSE /\ keys' \in RingStores(batch, keys)
         /\ reads' = Attend(batch, keys')
         /\ UNCHANGED aux

-----------------------------------------------------------------------------
Init ==
    /\ request \in Requests
    /\ position = 0
    /\ keys = [s \in Slots |-> Never]
    /\ aux = [s \in Slots |-> Never]
    /\ reads = {}
    /\ by = "none"

(* prefill_prompt takes the chunked path when there is more than one token *)
(* and prefill scratch was allocated, which it is for chunk sizes over 1.  *)
Chunked == request.prompt > 1 /\ request.chunk > 1

(* One chunk of prefill_prompt_chunked. *)
PrefillChunk ==
    /\ Chunked
    /\ position < request.prompt
    /\ LET end == IF position + request.chunk < request.prompt
                  THEN position + request.chunk ELSE request.prompt
       IN  /\ ForwardBatch(position .. end - 1)
           /\ position' = end
    /\ by' = "prefill"
    /\ UNCHANGED request

(* Mutant: the modulus is the context, as if the layer were not windowed. *)
DecodeSlotUnwrapped(p) == p % Context

(* A store of one position wraps whatever the storage type is.             *)
DecodeSlot(p) == SlotOf(p)

(* Mutant: the context check is off by one. *)
RoomForOneMore == position <= Context

RoomForOne == position < Context

(* One token through the decode path: a step of the decode loop, or of a   *)
(* prompt that is not prefilled in chunks.  A full context is an error     *)
(* before anything is written.                                             *)
DecodeStep ==
    /\ IF position < request.prompt
       THEN ~Chunked
       ELSE request.spec = 0 /\ position < request.last
    /\ RoomForOne
    /\ keys' = [keys EXCEPT ![DecodeSlot(position)] = position]
    /\ reads' = Attend({position}, keys')
    /\ position' = position + 1
    /\ by' = "decode"
    /\ UNCHANGED <<request, aux>>

(* Mutant: the correction is counted as stored. *)
KeptLengthsOneMore(n) == 1 .. n + 1

(* base_pos + m + 1 for 0 <= m <= K. *)
KeptLengths(n) == 1 .. n

(* A verify batch of up to `spec` tokens that fits the prefill scratch, of *)
(* which a prefix of at least one token is kept.                           *)
VerifyStep ==
    /\ position >= request.prompt
    /\ request.chunk > 1
    /\ \E n \in 1 .. request.spec :
        /\ n <= request.chunk
        /\ position + n <= request.last
        /\ position + n <= Context
        /\ ForwardBatch(position .. position + n - 1)
        /\ \E kept \in KeptLengths(n) : position' = position + kept
    /\ by' = "verify"
    /\ UNCHANGED request

(* The request is over, or the context is. *)
Returned == position >= request.prompt /\ UNCHANGED vars

Next == PrefillChunk \/ DecodeStep \/ VerifyStep \/ Returned

Spec == Init /\ [][Next]_vars

-----------------------------------------------------------------------------
(* Properties *)

RightPosition(rs) == \A r \in rs : r.found = r.wanted

(* Whatever ran last, every query found in its window the keys and values  *)
(* of the positions it was meant to attend to.                             *)
AttendsItsWindow == RightPosition(reads)

(* The last Capacity positions are in their slots between two steps: a     *)
(* decode step of any length of history finds its window.                  *)
HoldsLastPositions ==
    \A p \in Positions :
        p < position /\ p + Capacity >= position => keys[p % Capacity] = p

(* The requests the layer serves correctly: no chunk wraps the ring, and   *)
(* batches with a rejectable tail only where nothing wraps, which is       *)
(* everywhere on a full-attention layer.  A prompt of one token goes       *)
(* through the decode path and so is missing from the f16 copy a verify    *)
(* would read.                                                             *)
Fits(r) ==
    /\ r.prompt <= Capacity \/ r.prompt = 1 \/ r.chunk = 1
    /\ r.spec = 0 \/ Window = 0 \/ (r.last <= Capacity /\ r.prompt > 1)

(* The f16 copy is complete while batches are being run on it.             *)
AuxHoldsBatches ==
    HasAux /\ Chunked /\ (position <= request.prompt \/ request.spec > 0) =>
        \A p \in Slots : p < position => aux[p] = p

RInv == /\ TypeOK
        /\ Fits(request)
        /\ HoldsLastPositions
        /\ AuxHoldsBatches
        /\ AttendsItsWindow

-----------------------------------------------------------------------------
(* What comments of the code promise and the code does not keep for        *)
(* sliding-window layers.                                                  *)

PrefillAttendsWindow == by = "prefill" => AttendsItsWindow
DecodeAttendsWindow  == by = "decode" => AttendsItsWindow
=============================================================================
