----------------------------- MODULE DecodeStep -----------------------------
(***************************************************************************)
(* One request of the CUDA executor: the prompt in chunks                  *)
(* (prefill_prompt_chunked) or token by token (forward_hidden), then decode*)
(* steps (forward_next_token) that run eagerly, are captured as a CUDA     *)
(* graph, or replay it.  The host issues the operations of DecodeProgram   *)
(* and PrefillProgram to a compute and a transfer stream, each in order and*)
(* independent of the other except for events, and waits only where the    *)
(* code does: for the router's choice in pinned memory, for blocking       *)
(* copies to the host, and for the stream.                                 *)
(*                                                                         *)
(* An operation is atomic and yields its value if its inputs are what it   *)
(* takes them to be, all of one position; junk otherwise.  A captured      *)
(* operation is recorded with the buffers and the host's arguments of the  *)
(* step that captured it.                                                  *)
(***************************************************************************)
EXTENDS PrefillProgram

CONSTANTS
    Requests,      \* what to run: model (a sequence of layers), sampler, length
                   \* of the prompt, prefill_chunk_size (1: no prefill scratch)
    Context,       \* kv_context_size
    GraphMax       \* CUDA_GRAPH_ATTN_MAX_SEQ_LEN

ASSUME DecodeAssumption ==
    /\ Context \in Nat \ {0}
    /\ GraphMax \in Nat
    /\ \A r \in Requests :
          r \in [model : Seq(LayerType), sampler : {"greedy", "gpu", "host"},
                 prompt : 1 .. Context, chunk : Nat \ {0}]

VARIABLES
    model, sampler, prompt, chunk,   \* the request, fixed in the initial state
    mem,                 \* device buffers, those ever written
    rows,                \* KV caches: per buffer, position -> value
    queue,               \* issued and not executed, per stream
    fired,               \* events that have been reached
    host,                \* variables of the host: topk, counts, input, acc
    hidden,              \* the buffer that state.hidden names
    capturing, recorded, \* a capture in progress and what it has recorded
    graph,               \* state.decode_graph, <<>> if there is none
    position,            \* state.position
    todo,                \* what the host has yet to do in this step
    step,                \* "idle", or where the host is within a call
    answer               \* what the last call returned

vars == <<model, sampler, prompt, chunk, mem, rows, queue, fired, host, hidden, capturing,
          recorded, graph, position, todo, step, answer>>
chosen == <<model, sampler, prompt, chunk>>

-----------------------------------------------------------------------------
(* Properties of a loaded model (cuda:executor/full.rs).                   *)

HasStagedLayers == \E l \in DOMAIN model : model[l].hostWeights
HasStagedKv     == \E l \in DOMAIN model : model[l].hostKv
Graphable ==
    /\ ~HasStagedKv
    /\ \E l \in DOMAIN model : GpuDriven(model[l])
    /\ \A l \in DOMAIN model : model[l].hostWeights => GpuDriven(model[l])
(* Mutant: layers in host memory do not inhibit the capture.               *)
CanCaptureStaged ==
    /\ position + 1 <= GraphMax
    /\ ~HasStagedKv
    /\ graph = <<>>

CanCapture ==
    /\ position + 1 <= GraphMax
    /\ HasStagedLayers => Graphable
    /\ ~HasStagedKv
    /\ graph = <<>>

Download == <<OnHost("return", "answer", "", 0, {})>>

AfterLayers == FinalLogits(model, HiddenAfter(model, hidden)) \o Argmax(model)
AfterStep   == When(sampler = "gpu", Sampler(model)) \o Download
FirstToken  == FinalLogits(model, hidden)
               \o (CASE sampler = "gpu" -> Sampler(model)
                     [] sampler = "greedy" -> Argmax(model)
                     [] sampler = "host" -> <<>>)
               \o Download

-----------------------------------------------------------------------------
(* Values.                                                                 *)

Read(b) == IF b \in DOMAIN mem THEN mem[b] ELSE None
Row(b, r) == IF b \in DOMAIN rows /\ r \in DOMAIN rows[b] THEN rows[b][r] ELSE None

(* State carried over from the position before; zeroed for the first.      *)
Found(w, p) ==
    LET v == Read(w.buf)
    IN  CASE w.name = "zero" -> v.name = "zero"
          [] w.back > 0 /\ p < w.back -> v = None
          [] OTHER -> v = Val(w.name, w.form, w.layer, w.slot, p - w.back)

(* The position of a kernel is the one its inputs agree on, unless the     *)
(* host has fixed it.                                                      *)
PositionOf(op) ==
    IF op.host # {} \/ op.in = {} THEN op.at
    ELSE LET w == CHOOSE w \in op.in : w.back = 0 /\ w.name # "zero" IN Read(w.buf).pos

InputsFound(op) == \A w \in op.in : Found(w, PositionOf(op))

Result(op) ==
    IF op.name = "junk" \/ ~InputsFound(op) THEN Junk
    ELSE IF op.kind = "zero" THEN Val("zero", "f32", 0, 0, 0)
    ELSE Val(op.name, op.form, op.layer, op.slot, PositionOf(op))

(* An attention finds the rows of every position up to its own.  Its shared*)
(* memory is for GraphMax positions, or more if the host asked for more.   *)
Attended(op) ==
    IF InputsFound(op)
       /\ (PositionOf(op) < GraphMax \/ PositionOf(op) < op.at)
       /\ \A r \in 0 .. PositionOf(op) : Row(op.id, r) = Val("kv", "f32", op.slot, 0, r)
    THEN Val(op.name, op.form, op.layer, 0, PositionOf(op))
    ELSE Junk

(* Arguments that the host fixes at issue: wrong ones spoil the result.    *)
Resolve(op) ==
    IF \A g \in op.host : host[g[1]] = Val(g[2], "f32", op.layer, IF g[2] = "acc" THEN TopK ELSE 0, op.at)
    THEN op ELSE [op EXCEPT !.name = "junk"]

-----------------------------------------------------------------------------
(* The device.                                                             *)

Written(f, b, v) == [c \in DOMAIN f \cup {b} |-> IF c = b THEN v ELSE f[c]]
Over(new, old)   == [r \in DOMAIN new \cup DOMAIN old |-> IF r \in DOMAIN new THEN new[r] ELSE old[r]]
PutRows(f, b, new) == Written(f, b, Over(new, IF b \in DOMAIN f THEN f[b] ELSE <<>>))

(* A key and a value are stored where a buffer on the device says.         *)
Where(op) == Read((CHOOSE w \in op.in : w.name = "position").buf).pos

Effect(op) ==
    CASE op.kind \in {"kernel", "put", "upload", "zero"} ->
            /\ mem' = Written(mem, op.out, Result(op))
            /\ UNCHANGED rows
      [] op.kind = "attend" ->
            /\ mem' = Written(mem, op.out, Attended(op))
            /\ UNCHANGED rows
      [] op.kind = "store" ->
            /\ rows' = PutRows(rows, op.out, [r \in Where(op) - op.slot .. Where(op) |->
                                  IF InputsFound(op) THEN Val(op.name, "f32", op.layer, 0, r) ELSE Junk])
            /\ UNCHANGED mem
      [] op.kind = "load" ->
            /\ rows' = PutRows(rows, op.out, [r \in 0 .. op.at - 1 |-> Row(op.id, r)])
            /\ UNCHANGED mem
      [] op.kind = "save" ->
            /\ rows' = PutRows(rows, op.out, [r \in op.at - op.slot .. op.at |-> Row(op.id, r)])
            /\ UNCHANGED mem
      [] op.kind \in {"record", "wait"} -> UNCHANGED <<mem, rows>>

(* `id' is an event, except for moves and attentions, where it is a cache. *)
Fires(op) == op.kind \in {"record", "kernel"} /\ op.id # <<>>

Execute(s) ==
    /\ queue[s] # <<>>
    /\ LET op == Head(queue[s])
       IN  /\ op.kind = "wait" => op.id \in fired
           /\ Effect(op)
           /\ fired' = IF Fires(op) THEN fired \cup {op.id} ELSE fired
    /\ queue' = [queue EXCEPT ![s] = Tail(@)]
    /\ UNCHANGED <<chosen, host, hidden, capturing, recorded, graph, position, todo, step, answer>>

Compute  == Execute("compute")
Transfer == Execute("transfer")

-----------------------------------------------------------------------------
(* The host.                                                               *)

HostIsNext == Head(todo).stream = "host"

(* The operations up to the next point where the host itself does          *)
(* something.  Nothing depends on when they are issued, only on the order. *)
Segment ==
    LET stops == {i \in DOMAIN todo : todo[i].stream = "host"}
    IN  IF stops = {} THEN todo
        ELSE SubSeq(todo, 1, (CHOOSE i \in stops : \A j \in stops : i <= j) - 1)

OfStream(ops, s) ==
    LET of[n \in 0 .. Len(ops)] ==
            IF n = 0 THEN <<>> ELSE of[n - 1] \o When(ops[n].stream = s, <<ops[n]>>)
    IN  of[Len(ops)]
Enqueue(ops) == queue' = [s \in {"compute", "transfer"} |-> queue[s] \o OfStream(ops, s)]

(* While a capture is in progress nothing runs: what is issued is recorded.*)
Issue ==
    /\ todo # <<>> /\ ~HostIsNext
    /\ LET segment == Segment
           ops == [i \in DOMAIN segment |-> Resolve(segment[i])]
       IN  /\ IF capturing
              THEN recorded' = recorded \o ops /\ UNCHANGED queue
              ELSE Enqueue(ops) /\ UNCHANGED recorded
           /\ todo' = SubSeq(todo, Len(segment) + 1, Len(todo))
    /\ UNCHANGED <<chosen, mem, rows, fired, host, hidden, capturing, graph, position, step, answer>>

AtHost(kind) == todo # <<>> /\ HostIsNext /\ Head(todo).kind = kind

(* Pinned memory is read after the copy into it, a blocking download       *)
(* returns after everything issued to the compute stream.  Either is an    *)
(* error during a capture, and the step returns with the capture open.     *)
Fail ==
    /\ capturing
    /\ AtHost("read") \/ AtHost("download")
    /\ step' = "failed"
    /\ todo' = <<>>
    /\ UNCHANGED <<chosen, mem, rows, queue, fired, host, hidden, capturing, recorded, graph, position, answer>>
HostReads ==
    /\ ~capturing
    /\ \/ AtHost("read") /\ Head(todo).id \in fired
       \/ AtHost("download") /\ queue["compute"] = <<>>
    /\ LET op == Head(todo) IN
          host' = [host EXCEPT ![op.out[1]] = Read((CHOOSE w \in op.in : TRUE).buf)]
    /\ todo' = Tail(todo)
    /\ UNCHANGED <<chosen, mem, rows, queue, fired, hidden, capturing, recorded, graph, position, step, answer>>

(* The host waits for the compute stream; a call ends with an error.       *)
HostWaits ==
    /\ AtHost("sync") /\ queue["compute"] = <<>>
    /\ todo' = Tail(todo)
    /\ UNCHANGED <<chosen, mem, rows, queue, fired, host, hidden, capturing, recorded, graph, position, step, answer>>
Refuse ==
    /\ AtHost("error")
    /\ step' = "refused"
    /\ todo' = <<>>
    /\ UNCHANGED <<chosen, mem, rows, queue, fired, host, hidden, capturing, recorded, graph, position, answer>>

(* The experts on the host (forward_moe_decode_cpu).                       *)
HostExperts ==
    /\ AtHost("experts")
    /\ LET l == Head(todo).layer
           right == /\ host.topk  = Val("topk", "f32", l, 0, position)
                    /\ host.input = Val("ein", "f32", l, 0, position)
       IN  host' = [host EXCEPT !.acc = IF right THEN Val("acc", "f32", l, TopK, position) ELSE Junk]
    /\ todo' = Tail(todo)
    /\ UNCHANGED <<chosen, mem, rows, queue, fired, hidden, capturing, recorded, graph, position, step, answer>>

-----------------------------------------------------------------------------
(* Calls.                                                                  *)

Idle == step = "idle" /\ todo = <<>>

(* prefill_prompt takes one of two ways: in chunks, or token by token with *)
(* forward_hidden and the last one with forward_next_token.                *)
Chunked == prompt > 1 /\ chunk > 1
LeftToPrefill == position < IF Chunked THEN prompt ELSE prompt - 1
FirstStep == IF Chunked THEN prompt ELSE 0

ForwardHidden ==
    /\ Idle /\ LeftToPrefill /\ ~Chunked /\ position < Context
    /\ step' = "hidden"
    /\ todo' = Prologue(model, hidden, position) \o Layers(model, hidden, position, FirstStep)
    /\ answer' = None
    /\ UNCHANGED <<chosen, mem, rows, queue, fired, host, hidden, capturing, recorded, graph, position>>

HiddenDone ==
    /\ step = "hidden" /\ todo = <<>>
    /\ step' = "idle"
    /\ hidden' = HiddenAfter(model, hidden)
    /\ position' = position + 1
    /\ UNCHANGED <<chosen, mem, rows, queue, fired, host, capturing, recorded, graph, todo, answer>>

(* prefill_prompt_chunked; sample_next_from_current_hidden at the end.     *)
PrefillPrompt ==
    /\ Idle /\ LeftToPrefill /\ Chunked
    /\ step' = "chunks"
    /\ answer' = None
    /\ UNCHANGED <<chosen, mem, rows, queue, fired, host, hidden, capturing, recorded, graph, position, todo>>

RowsOfChunk == IF prompt - position < chunk THEN prompt - position ELSE chunk

BeginChunk ==
    /\ step = "chunks" /\ position < prompt
    /\ step' = "chunk"
    /\ todo' = Chunk(model, hidden, position + RowsOfChunk - 1, RowsOfChunk)
    /\ UNCHANGED <<chosen, mem, rows, queue, fired, host, hidden, capturing, recorded, graph, position, answer>>

ChunkDone ==
    /\ step = "chunk" /\ todo = <<>>
    /\ step' = "chunks"
    /\ position' = position + RowsOfChunk
    /\ UNCHANGED <<chosen, mem, rows, queue, fired, host, hidden, capturing, recorded, graph, todo, answer>>

SampleFirst ==
    /\ step = "chunks" /\ position = prompt
    /\ step' = "first"
    /\ todo' = FirstToken
    /\ UNCHANGED <<chosen, mem, rows, queue, fired, host, hidden, capturing, recorded, graph, position, answer>>

(* Mutant: the length of the context is not checked.                       *)
ForwardPastContext ==
    /\ Idle /\ ~LeftToPrefill /\ position \in 0 .. Context
    /\ answer' = None
    /\ step' = "layers"
    /\ todo' = Prologue(model, hidden, position)
    /\ UNCHANGED <<chosen, mem, rows, queue, fired, host, hidden, capturing, recorded, graph, position>>

(* forward_next_token: a replay, or the layers with or without a capture.  *)
ForwardNextToken ==
    /\ Idle /\ ~LeftToPrefill /\ position \in 0 .. Context - 1
    /\ answer' = None
    /\ IF position + 1 <= GraphMax /\ graph # <<>>
       THEN /\ step' = "replay"
            /\ todo' = Prologue(model, hidden, position) \o graph
       ELSE /\ step' = "layers"
            /\ todo' = Prologue(model, hidden, position)
    /\ UNCHANGED <<chosen, mem, rows, queue, fired, host, hidden, capturing, recorded, graph, position>>

BeginLayers ==
    /\ step = "layers" /\ todo = <<>>
    /\ step' = "next"
    /\ capturing' = CanCapture
    /\ recorded' = <<>>
    /\ todo' = Layers(model, hidden, position, FirstStep) \o AfterLayers
    /\ UNCHANGED <<chosen, mem, rows, queue, fired, host, hidden, graph, position, answer>>

(* The buffers have changed names; a graph just captured is run at once.   *)
EndLayers ==
    /\ step = "next" /\ todo = <<>>
    /\ hidden' = HiddenAfter(model, hidden)
    /\ IF capturing
       THEN graph' = recorded /\ Enqueue(recorded)
       ELSE UNCHANGED <<graph, queue>>
    /\ capturing' = FALSE
    /\ recorded' = <<>>
    /\ step' = "replay"
    /\ UNCHANGED <<chosen, mem, rows, fired, host, position, todo, answer>>

AfterReplay ==
    /\ step = "replay" /\ todo = <<>>
    /\ position' = position + 1
    /\ step' = "first"
    /\ todo' = AfterStep
    /\ UNCHANGED <<chosen, mem, rows, queue, fired, host, hidden, capturing, recorded, graph, answer>>

AnswerBuffer == IF sampler = "host" THEN "logits" ELSE "sampled_token"

Return ==
    /\ AtHost("return")
    /\ queue["compute"] = <<>>
    /\ answer' = Read(<<AnswerBuffer, 0>>)
    /\ step' = "idle"
    /\ todo' = <<>>
    /\ UNCHANGED <<chosen, mem, rows, queue, fired, host, hidden, capturing, recorded, graph, position>>

-----------------------------------------------------------------------------
Init ==
    /\ \E r \in Requests :
          model = r.model /\ sampler = r.sampler /\ prompt = r.prompt /\ chunk = r.chunk
    /\ mem = <<>> /\ rows = <<>>
    /\ queue = [s \in {"compute", "transfer"} |-> <<>>]
    /\ fired = {}
    /\ host = [topk |-> None, counts |-> None, input |-> None, acc |-> None]
    /\ hidden = "bufA"
    /\ capturing = FALSE /\ recorded = <<>> /\ graph = <<>>
    /\ position = 0
    /\ todo = <<>>
    /\ step = "idle"
    /\ answer = None

Host == Issue \/ Fail \/ Refuse \/ HostReads \/ HostWaits \/ HostExperts
        \/ HiddenDone \/ BeginChunk \/ ChunkDone \/ SampleFirst
        \/ BeginLayers \/ EndLayers \/ AfterReplay \/ Return

Next == Host \/ Compute \/ Transfer \/ ForwardHidden \/ PrefillPrompt \/ ForwardNextToken

(* A host thread inside a call goes on, and so do the streams.  Nobody has *)
(* to make a call.                                                         *)
Fairness == WF_vars(Host) /\ WF_vars(Compute) /\ WF_vars(Transfer)

Spec == Init /\ [][Next]_vars /\ Fairness

-----------------------------------------------------------------------------
(* Properties.                                                             *)

(* The quantities that the device computes, by the part of the network.    *)
AttentionNames == {"x", "normed", "qg", "q", "k", "v", "gate", "qn", "kn", "vn", "qns", "qr", "kr", "qs", "kv",
                   "ctx", "gctx", "o", "on", "residual", "position", "length"}
DeltaNetNames  == {"qkv", "z", "b", "a", "conv_state", "qkvc", "gates", "recurrent", "mixed"}
MlpNames       == {"normed2", "g", "u", "act", "mlp", "mlpn", "y", "yp"}
PleNames       == {"rowbf16", "row", "proj", "projn", "inputs", "pg", "pgi", "pc", "pcn"}
ExpertNames    == {"rin", "rl", "topk", "ein", "sg", "su", "sact", "sdown", "slog", "shared", "sn", "experts",
                   "eg", "eu", "eact", "eo", "acc", "rn", "sum", "mn", "zero"}
ChunkNames     == {"rl of hidden", "counts", "lists", "offsets", "eoffsets", "pin", "gin", "wgate", "wup", "wdown"}
FinalNames     == {"fh", "logits", "token", "sampled"}
Names == AttentionNames \cup DeltaNetNames \cup MlpNames \cup PleNames \cup ExpertNames \cup ChunkNames
         \cup FinalNames

(* How they are encoded, or quantised with which scale.                    *)
Forms == {"f32", "bf16", "mxfp4", "cutlass", "scaleA", "scaleB", "gate", "up", "down", "shared"}

Values == [name : Names \cup {"none", "junk"}, form : Forms, layer : Nat, slot : Nat, pos : 0 .. Context - 1]

(* Types of the state.                                                     *)
TypeOK ==
    /\ [model |-> model, sampler |-> sampler, prompt |-> prompt, chunk |-> chunk] \in Requests
    /\ \A b \in DOMAIN mem : mem[b] \in Values
    /\ \A b \in DOMAIN rows : DOMAIN rows[b] \subseteq 0 .. Context - 1
    /\ DOMAIN queue = {"compute", "transfer"}
    /\ \A s \in DOMAIN queue : \A i \in DOMAIN queue[s] : queue[s][i].stream \in {"compute", "transfer"}
    /\ \A v \in DOMAIN host : host[v] \in Values
    /\ hidden \in {"bufA", "bufB"}
    /\ capturing \in BOOLEAN
    /\ position \in 0 .. Context
    /\ step \in {"idle", "hidden", "chunks", "chunk", "layers", "next", "replay", "first", "failed", "refused"}
    /\ answer \in Values

(* A call returns the token (or the logits) of its own step: computed from *)
(* its own token through every layer, at its position, from the KV rows    *)
(* and the recurrent state of exactly the positions before, with the       *)
(* experts its own router chose - whether the step ran eagerly, was        *)
(* captured, or was a replay of a graph captured for another position      *)
(* (forward_next_token, cuda:executor/forward.rs).                         *)
TokenOfItsStep ==
    answer # None =>
        answer = Val(CASE sampler = "greedy" -> "token" [] sampler = "gpu" -> "sampled"
                       [] sampler = "host" -> "logits",
                     "f32", Len(model) + 1, 0, position - 1)

(* When the streams have run dry between calls, the host copy of the KV    *)
(* cache of a host-resident layer has the row of every position so far     *)
(* (write-back at the end of forward_layers_device); nothing else will     *)
(* write it, and the next token loads it.                                  *)
HostKvComplete ==
    step = "idle" /\ queue["compute"] = <<>> /\ queue["transfer"] = <<>> =>
        \A l \in DOMAIN model : model[l].hostKv =>
            \A r \in 0 .. position - 1 : Row(<<"host", l>>, r) = Val("kv", "f32", l, 0, r)

(* Every call returns: the streams and the host do not wait for an event   *)
(* that never fires.  A call may return with an error.                     *)
EveryCallReturns == step # "idle" ~> step \in {"idle", "failed", "refused"}

(* The streams never wait for each other: while anything is left to run,   *)
(* one of them can go on, and when nothing is, the router's choice that the*)
(* host is waiting for has arrived (mlp.rs: record_into_compute,           *)
(* transfer_wait_event and their reverse; forward.rs: event_h2d,           *)
(* event_layer_done).  So no wait is issued ahead of the record it is for, *)
(* in any order in which layers of different kinds follow each other, in a *)
(* capture or its replay: CUDA would take it for no wait at all.           *)
StreamsAdvance ==
    /\ \A s \in DOMAIN queue : queue[s] # <<>> =>
          \E u \in DOMAIN queue :
             queue[u] # <<>> /\ (Head(queue[u]).kind = "wait" => Head(queue[u]).id \in fired)
    /\ ~capturing /\ AtHost("read") =>
          Head(todo).id \in fired \/ \E s \in DOMAIN queue : queue[s] # <<>>

(* No call fails for having been captured: what the host needs of the      *)
(* device within a step inhibits the capture (can_capture,                 *)
(* cuda:executor/forward.rs).                                              *)
CaptureNeverFails == step # "failed"

(* It does so for every model but those with experts in VRAM that are not  *)
(* driven by the device, wherever their layers stand.                      *)
CaptureFailsInVram ==
    step = "failed" => \E l \in DOMAIN model : model[l].moe = "each" /\ ~model[l].hostWeights
=============================================================================
