# LumenLLM (`aegisllm`): TLA+ models, model checking and proofs

This directory holds TLA+ specifications of the parts of the engine whose
correctness depends on the order of steps: threads, CUDA streams, caches that
wrap, speculative rounds that are rolled back, a prompt in chunks, a decode step that is captured
and replayed, answers that are parsed while they grow. It contains the modules (`*.tla`), the TLC configurations (`*.cfg`), the proofs
(`*_proofs.tla`) and `PROJECT.json`, which maps every definition to the source
lines it stands for and lists runs, mutants, findings, hazards and theorems.

Source paths are relative to `src/`. `crates/aegisllm-cuda/src/` is shortened
to `cuda:`, `crates/aegisllm-cpu/src/` to `cpu:`, `crates/aegisllm-base/src/`
to `base:` and `crates/aegisllm/src/` to `app:`.

Contents

1. The system: inventory of components
2. Modules and how they relate
3. Module by module: state, actions, code
4. Runs: questions, bounds, results
5. Where the code and its comments disagree
6. Proofs
7. Fairness
8. What is abstracted and what is not modelled
9. Plan
10. Running it

## 1. The system

LumenLLM is a local inference engine for large language models: a command
line and an HTTP server on top of an engine that loads weights, plans where
they live (VRAM, host memory, disk), prefills a prompt, and decodes tokens on
CPU, CUDA or both. One request is served at a time. The crates:

| crate | contents |
|---|---|
| `aegisllm` | command line, engine, HTTP server, parameters, hybrid CPU and CUDA executor |
| `aegisllm-base` | artifacts, tensors, planning, chat templates and parsers, the generic decode loop |
| `aegisllm-cpu` | CPU executor, GEMV kernels, the worker pool they run on |
| `aegisllm-cuda` | CUDA executor: prefill, decode, speculation, MoE, KV cache, staging, loader, kernels |
| `aegisllm-wgpu` | experimental backend |

How the parts interact:

```
 HTTP server / CLI -> engine -> generation loop (base:executor/generation.rs)
        |                          |  or, when enabled, a speculative loop (cuda:executor/{speculative,mtp}.rs)
        v                          v
 streaming chat parser     executor: CPU (cpu:) / CUDA (cuda:) / hybrid (app:executor/hybrid.rs)
                                   |
       +---------------+-----------+------------+-----------------+
       v               v                        v                 v
  worker pool     KV cache of each layer    staging pool       CUDA graph of a decode step
 (CPU kernels)    (ring or full, f16/FP8)   (host weights)     (capture once, replay)
                                                ^
                                   pinned arena, filled by rayon workers at load
```

### 1.1 Components that are modelled

**Worker pool** (`cpu:persistent_pool.rs`). *State*: the `Shared` atomics
`generation`, `pending`, `job_n`, `job_data`/`job_call`, `lanes`, `shutdown`,
`parked`; per worker `last_gen`, its phase and the unpark token the standard
library keeps for it. *Operations*: `dispatch`, `worker_loop`, `drop`.
*Hard*: a closure on the caller's stack is shared with workers through an
erased pointer; workers go to sleep while the caller is about to look whether
anyone sleeps; counters are set before the generation that publishes them;
the memory order of four atomic operations. *Correct when*: every index runs
exactly once before `dispatch` returns; no worker uses a closure of an earlier
dispatch; no wake-up is lost; no generation is skipped; dispatch and drop end.

**Speculative decoding** (`cuda:executor/speculative.rs`,
`cuda:executor/mtp.rs`, `verify_batched` in `cuda:executor/prefill/mod.rs`).
*State*: `generated`, `next`, `state.position`, the KV cache, the recurrent
and convolution state of the gated-delta-net layers and its snapshot, the
proposals and predictions of a round. *Operations*: head of the outer loop,
draft, batched verify, acceptance with roll-back, emit loop. *Hard*: the tail
of a verify batch may be rejected after it was written; recurrent state cannot
be truncated and is restored and run again; three places test EOS, stop tokens
and `max_tokens` in different orders; the batch needs more room than a token.
*Correct when*: the output is what the plain loop would have produced; state
below the position is always that of committed tokens; every request returns.

**KV cache of a layer** (`cuda:executor/{full,state,attention}.rs`,
`cuda:executor/prefill/{mod,layer}.rs`, `cuda:cuda/runtime/kv.rs` and the store
kernels). *State*: per layer one slot per position, or `window_size` slots used
as a ring; an f16 copy for sliding-window FP8 layers. *Operations*: prefill
chunk, decode step, verify batch. *Hard*: three writers with two conventions
for a slot number; a batch is stored before its rows attend; a wrapped slot
belongs to two positions. *Correct when*: each query reads the positions of
its window and nothing else.

**Staging pool** (`cuda:cuda/staging.rs` and its callers in
`cuda:cuda/runtime/linear.rs`). *State*: a ring of VRAM slots, two CUDA streams,
two events per slot. *Operations*: `prepare_async`,
`prepare_native_mxfp4_into_last`, the launch, `mark_kernel_launched`; on the
device, starts and ends of copies and kernels. *Hard*: the host never waits;
a slot is overwritten while older kernels run; an event means what had been
issued when it was recorded. *Correct when*: each kernel reads its own weights
from start to end; a copy waits for no younger kernel than the ring requires, so that
copies overlap with kernels of other slots.

**Pinned arena** (`cuda:cuda/host_arena.rs`, used by the prefetch in
`cuda:cuda/loader.rs`, pinned in `cuda:executor/full.rs`). *State*: one atomic
`used`. *Operations*: `reserve` with roll-back, `pin_now`. *Hard*: the
roll-back stores an old value over the additions of other workers. *Correct
when*: ranges handed out are disjoint and page-locked.

**KV page allocator** (`cuda:executor/prefill/kv.rs`). *State*: free list,
page tables, LRU clock and ticks. *Operations*: `touch`, `allocate`,
`allocate_or_evict`, `release`, `release_sequence`, `physical_slot`. The
engine does not call it at this commit; its unit tests do. *Hard*: two maps in
step over long histories; eviction releases before it knows whether that is
enough. *Correct when*: pages are conserved, slots of two positions never
coincide, and the sequence that makes room is the idle one that was least recently
allocated or touched.

**Prefill and decode** (`cuda:executor/{forward,attention,gdn,mlp,ple,linear_ops}.rs`,
`cuda:executor/prefill/`, `cuda:cuda/runtime/{graph,kv}.rs`). *State*: scratch buffers used by all layers, one set
for a token and one for a chunk of the prompt, two hidden buffers that change names, KV caches in VRAM or in host memory behind two
staging slots, the state of gated-delta-net layers, the captured graph, pinned
copies of the router's choice. *Operations*: `prefill_prompt` (in chunks, or by `forward_hidden`),
`sample_next_from_current_hidden`, `forward_next_token` (eager, capturing,
replaying). *Hard*: several hundred launches a token on two streams that only events
order; one scratch buffer holds several quantities in turn; a graph keeps the
addresses and arguments of the step it was captured in; the router's choice is
needed by the host in the middle of a step. *Correct when*: the token returned
is the one of its own step, whichever way it ran; the streams never wait for each other, nor
the host for what neither will fire; a capture is not started where the step needs the host;
no call hangs.

**Streaming chat parser** (`base:chat_parse.rs`). *State*: the text so far and
the last parse. *Operations*: `push`, `flush`, the parse of a whole answer.
*Hard*: every push parses a longer text again, and the new parse may contradict the
old one; a marker arrives in pieces, and so may a character. *Correct when*: what a streaming client
puts together is what a plain response says.

**HTTP server** (`app:server/http.rs`, token loop of
`base:executor/generation.rs`). *State*: `ServerMetrics`, `active_generations`,
the connection. *Operations*: accept, read, route, three dialects (OpenAI,
Anthropic, Google) with and without streams, record, close. *Hard*: clients
that leave or stall; failures before and after the first token; one thread.
*Correct when*: each response ends once; counters add up; the thread comes
back to `accept`.

### 1.2 Components that are not modelled

| component | state and operations | what is hard | what would make it correct |
|---|---|---|---|
| Prepared state, `cuda:executor/provider.rs` | `Mutex<Option<state>>` | first caller only | a state is given to one request |
| Prefix cache, `cuda:executor/prefix_cache.rs` (called by its tests only) | radix tree, tick, page count; lookup, insert, evict | edge splits, repeated inserts, choice of the victim | page count equals the pages in the tree; LRU |
| Prefill scheduler, `cuda:executor/prefill/scheduler.rs` (called by its tests only) | budget, request states, cancel flag | starvation in list order; a flag nobody reads | budgets are kept; everyone is scheduled |
| Planning, `base:planning/` | placements, budgets | spilling when nothing fits | placements within the budget |
| Hybrid executor, `app:executor/hybrid.rs` | one position, two layer states | error in the middle of a token | layers agree on the position |
| Page-cache helper, `cuda:executor/cache_cleanup.rs` | a pipe and a child process | death of the parent | the helper ends |
| Loader, artifacts, tensor formats, sampling, chat templates, multi-axis rope, parameters, CLI | sequential data transformations | formats, numerics | out of TLA+'s scope here |
| CPU and CUDA kernels, encoders, wgpu | numeric code | floating point | out of TLC's and the provers' reach |

`PROJECT.json` lists the hazards of the modelled components and the most
important ones of the others at the line where they bite; a hazard without a
property says why.

## 2. Modules and how they relate

```
ParallelFor  <--refines--  PersistentPool   <-- PersistentPool_proofs,   MCPersistentPool
GreedyDecode <--refines--  SpecDecode       <-- SpecDecode_proofs,       MCSpecDecode
LruPages     <--refines--  KvPageAllocator  <-- KvPageAllocator_proofs,  MCKvPageAllocator
                           KvRing           <-- KvRing_proofs,           MCKvRing
                           PinnedArena      <-- HostWeights_proofs,      MCHostWeights
                           StagingPool      <-- HostWeights_proofs,      MCHostWeights
DecodeProgram <--extends-- PrefillProgram <--extends-- DecodeStep
                           DecodeStep       <-- DecodeStep_proofs,       MCDecodeStep
                           DecodeStep_proofs <--extends-- DecodeToken_proofs
ChatParser    <--extends-- ChatServer       <-- ChatServer_proofs,       MCChatServer
```

`ParallelFor`, `GreedyDecode` and `LruPages` are abstract specifications: what
a caller of the pool, a reader of the output and a user of the allocator may
rely on. The detailed modules instantiate them with a refinement mapping and
state the refinement as a property. `SpecDecode` and `KvRing` describe the same
round at two levels: `SpecDecode` assumes that a position of the cache is
itself (which is what a full-attention layer provides) and asks whether its
content is committed; `KvRing` asks whether a slot holds the position that is
looked for. `DecodeStep` is the step that `GreedyDecode` takes for granted, and the prompt before it,
launch by launch, for a layer whose slots are positions. `ChatServer` composes
the token loop, the parser and the connection. `DecodeProgram`, `PrefillProgram` and `ChatParser`
are pure: the first two give the operations that a token and a chunk issue, the third the parse
of a text. Definitions whose comment begins with `Mutant:` are wrong variants
of the definition they precede. They are never used by a specification; each
shows that the property named in `PROJECT.json` notices that mistake.

## 3. Module by module

### `PersistentPool` and `ParallelFor`

Lane 0 is the thread that calls `dispatch`; lanes 1 to `Lanes - 1` are the
workers. Every atomic access that another thread can observe is one step.

| code | model |
|---|---|
| `Shared.generation, pending, job_n, shutdown, parked` | variables of these names (`jobN`) |
| `job_data`, `job_call` | `job`: the number of the dispatch that owns the closure |
| unpark token of `std::thread` | `token[w]` |
| program counters, `last_gen`, loop cursors | `cpc`, `cur0`, `wpc`, `lastGen`, `wjob`, `wn`, `cur` |
| how often `f(i)` was called | `ran[i]` (history of the latest dispatch) |
| `run_shard` | `ShardStart`, `ShardLen`, `ShardEnd` |
| `dispatch` | `DispatchNothing`, `Dispatch`, `PublishJob`, `SetPending`, `BumpGeneration`, `CheckParked`, `Unpark`, `UnparkedAll`, `RunOwn`, `OwnDone`, `Return` |
| `worker_loop` | `SeeGeneration` ... `FinishShard` |
| `drop` | `DropShutdown`, `DropBump`, `Unpark`, `DropJoin` |

`staleLoads`, chosen in `Init`, selects the memory model of the parking handshake. The worker
does an RMW on `parked` and then loads `generation`; the dispatcher does an RMW
on `generation` and then loads `parked`. The code gives the RMWs release and
the loads acquire order. On x86 an RMW is a full fence, and one of the two
sees the other (`staleLoads = FALSE`). The orders alone do not promise this:
both loads may return old values (`staleLoads = TRUE`), and then only the
10 ms `park_timeout` wakes the worker. Both cases are checked and proved about.

`ParallelFor` is the promise: a call hands over `n` indices, each is run once,
then the call returns; its `Fairness` says that it does return.

### `SpecDecode` and `GreedyDecode`

`script` is the target model's greedy continuation of the prompt, chosen
arbitrarily in `Init`. A KV position is one bit: computed from the committed
token in the committed context, or not. A row of a batched verify predicts the
script when everything it reads is right, and *anything* otherwise, so that
reading one stale slot shows as a wrong token. The draft proposes anything.

| code | model |
|---|---|
| head of `'outer` | `LoopHead` |
| `mtp_propose`, draft loop of `speculative.rs` | `DraftStep`, `Drafts`, `Draft` |
| `gdn_snapshot_save`, `verify_batched` | `Saved`, `VerifyBatched`, `Verify` |
| acceptance scan, `gdn_snapshot_restore`, second verify | `AcceptLength`, `Restored`, `Accept` |
| `for j in 0..=m` | `EmitStep` |
| `state.position`, GDN state | `position`, `rec = [at, true]` |
| `kv_context_size` minus the prompt | `Room` |

`recurrent` chooses between the MTP loop (with gated-delta-net layers) and the
draft-model loop, which differ only in the roll-back. `GreedyDecode` is the loop of
`base:executor/generation.rs` under greedy sampling. The refinement maps
`emitted` to the output cut to `max_tokens` (see 5).

Beyond these properties the loops differ from the plain loop in ways that are visible
by reading: they always report `finish_reason` "length", ignore sampling
parameters and audio injection, and streaming requests do not use them. Ties
in an argmax may be broken differently by the batched kernel; the model gives
the target one answer per context.

### `KvRing`

One layer. A slot contains a position, or `Never`. `Attend` compares, for each
query and each position of its window, what was wanted with what was found.

| code | model |
|---|---|
| capacity and FP8 choice in `new_state` (`cuda:executor/full.rs`) | `Capacity`, `HasAux` |
| ring store of a batch (`slot % cache_capacity`) | `RingStores`: of rows that share a slot, any may be the last |
| FP8 slot store (`slot < context_size`, no wrap) | `SlotStores` |
| batched layer | `ForwardBatch`: store all rows, then all attend |
| `prefill_prompt_chunked` | `PrefillChunk` |
| `forward_attention_device` | `DecodeStep` |
| `verify_batched` and the position that is kept | `VerifyStep` |

A request is `[prompt, chunk, spec, last]`: prompt length, chunk size, batch
size of the verify (0 for plain decode) and the end of the last batch that
`max_tokens` allows. `Fits` describes the requests for which the layer works:
no chunk wraps the ring, and batches with a rejectable tail run only where
nothing wraps. Outside `Fits` the code is wrong in three ways (see 5).

### `StagingPool`

The host's calls append operations to two in-order queues; the device starts
and finishes copies and kernels and passes waits. While a copy is in progress
its buffer is `Torn`. An event is the number of operations issued on the
stream when it was recorded, which is what `cuEventRecord` captures, and a
wait is until that number is done. `PrepareAsync` takes its slot before it
compares sizes and so may fail after the ring has moved; `HostLength` is the
length that is compared, which for an `OwnedPinnedBuf` is rounded up to pages. `Launch`
may fail and the slot is marked all the same, as `let result = ...;
mark_kernel_launched(...)?; result` does. A failing driver call (copy, event) is
sticky in CUDA and ends the process's use of the device; it is not modelled.

### `PinnedArena`

`Reserve` is the `fetch_add` with the comparison, which reads nothing shared;
`RollBack` is the later store. `claims` collects the ranges handed out. `Pin`
happens after all workers have returned and only if none failed. `failed` and
`Projections` (a bound on the calls) have no counterpart in the struct.
`ArenaInit`, `ArenaNext`, `ArenaSpec` and `ArenaTypeOK` carry the component's name because
`HostWeights_proofs` extends this module together with `StagingPool`.

### `KvPageAllocator` and `LruPages`

Absent keys are `<<>>` in `active` and 0 in `lru_ticks`. `working` is the
argument `active_sequences` of `allocate_or_evict`, kept as a state of the
caller that `Work` changes. `Evict` contains both ends of an eviction: the
pages suffice, or they do not and the victim has lost its table for nothing.
`LruPages` knows sets of pages and an order of last uses. The refinement maps tables to their sets. The
order is a history variable (`used`) that every call updates, whatever it does to the ticks, so that a tick which
is not stored shows as a wrong victim. An insufficient eviction maps to a `Release`, and only an
eviction that gives pages to somebody must pick the least recent idle holder.

### `DecodeProgram`, `PrefillProgram` and `DecodeStep`

A number is abstracted to what it is. A value names its quantity (`"normed"`,
`"kr"`, `"topk"`), its encoding (`form`: which scale, MXFP4, BF16), the layer,
the expert slot and the position in the sequence. An operation lists the
buffers it reads with what the code takes them to hold; when one holds anything
else the result is `Junk`, and junk is never right again. A missing
dependency between streams, a scratch buffer reused too early, a stale graph
and a wrong position thus all end in a wrong answer.

| code | model |
|---|---|
| `forward_attention_device`, the projections, norms, rotation | `Attention`, `ProjectQkvNvfp4`, `ProjectQkvPlain`, `NormQkv`, `Rotate`, `Store`, `Attend` |
| `matvec_*_reuse`, `prepare_nvfp4_input` | `MatvecReuse`, `Prepare`, `Matvec` |
| `forward_gdn_mixer_decode` | `GatedDeltaNet` |
| `forward_mlp_device` and its non-NVFP4 form, `ple.rs` | `DenseMlp`, `GateUp`, `Down`, `PerLayerInputs`, `PleContribution` |
| `forward_moe_decode_device` | `MoeMlp`: `Router`, `ReadBack`, `SharedExpert`, `Routed`, `Combine` |
| the six ways the routed experts run | `m.moe`: `gpu`, `slots`, `cpu`, `staged`, `bulk`, `each` |
| `forward_layers_device` with the KV prefetch and write-back | `Layers`, `Layer`, `Prefetch`, `AwaitStaged`, `WriteBack` |
| `prefill_prompt`: token by token | `LeftToPrefill`, `ForwardHidden`, `HiddenDone`, then `ForwardNextToken` |
| `prefill_prompt_chunked` | `PrefillPrompt`, `BeginChunk`, `ChunkDone`, `SampleFirst`; `Chunk` has what a chunk issues |
| attention of a chunk, KV in VRAM or host memory | `ChunkAttention`, `ChunkGatedAttention`, `ChunkQkv`, `ChunkStore`, `ChunkAttend`, `InVram`, `ThroughHost` |
| dense MLP, delta net, experts of a chunk | `ChunkDenseMlp`, `ChunkDeltaNet`, `ChunkMoe`: `ChunkRouter`, `GroupedExperts`, `GatheredExpert`, `ChunkCombine` |
| what prefill returns as unsupported | `Refusal`, `Refuse` |
| `forward_next_token` | `ForwardNextToken`, `BeginLayers`, `EndLayers`, `AfterReplay`, `Return` |
| capture and replay | `capturing`, `recorded`, `graph` |
| the streams and their events | `queue`, `fired`, `Compute`, `Transfer` |

The host issues in one step everything up to the next place where it does
something itself (`Segment`): only the order in a stream matters. A captured
operation is recorded with the buffers it was given and with what the host had
fixed (the position of a copy, the length that sizes an attention's shared
memory); what it reads from the device (`decode_position`) is read when it is
replayed. A launch runs in one step, so a copy and a kernel that overlap
without an event between them are explored as both orders; torn reads are the
subject of `StagingPool`. Left out: `gate_up_share_quant`, embedding scale, soft caps,
the partial buffers of the split attention, and failing launches other than those a capture causes.

A chunk of n rows that ends at position p is the value of position p; a store
and a move concern n rows, an attention must find every row up to p, and a
recurrent state must be the one of position p - n. The scratch of prefill is a set of
buffers of its own (`OnChunk`; they have the names of a decode step with another number), of which one often serves for several quantities of a decode step
(`Shares`): K is computed in `up`, which the MLP uses later; the two factors of an expert and
their product take two buffers. A kernel that computes another quantity than its counterpart in a
decode step yields another name, which no reader takes. That is how the run
holds prefill to decode; the models in `MCPrefillModels` are those for which the
two agree (see 5), those of `MCRefused` end with an error. Which position a store or a move of a chunk is for is
on the device (`Batch`), as for a decode step (`decode_position`). Of prefill are left out: the rows of images and
audio, multi-axis rope, the fused QKV matrix, the grouped experts on CUTLASS and in
pairs, the BF16 conversion buffers and FP8 KV. Prompts longer than the context are refused before anything
happens and are not among the requests.
After `Fail` the request is over, as the capture stays open. Models
that combine host-resident KV with shared KV or with a sliding window are not
among the instances. `graph.rs` says that captures do not allocate; the gated
attention does allocate a buffer, which CUDA permits, and the model gives it a
name of its own. The wait for the copied experts of the step before is never the one
that decides in a decode step, because the router's read-back is between.

A model is a sequence over `LayerType`, which has every combination of the branches, with the
only condition that experts which run on the CPU or are copied are host-resident. `StreamsAdvance`,
`CaptureFailsInVram` and `TypeOK` are proved for all of these, also for those that prefill and decode do not
compute alike (section 5): none of them says that a value is right. `Values` is the set of values that
have a quantity of the network (`Names`), an encoding (`Forms`) and a position within the context. Events have a name per layer and step (`<<"bulk_done", l, p>>`), where the
code records one `CudaEvent` again and again. CUDA takes a wait for an event that was not
recorded yet for the record before it, or for none; in the model such a wait is never over.
`StreamsAdvance` says that it does not occur.

### `ChatParser` and `ChatServer`

A text is a sequence of characters: `"<"` and the tails that make it a
marker (or one of the strings that begin and end a sequence), `"nl"`, `"fn"` for the head of a call, `"?"` for the replacement
character, `"a"` for the rest. A marker is thus two characters, which can come in two tokens. `Channels`, `Calls`, `Overshoot`,
`Strip`, `Content` are the steps of `parse_gemma` and `parse_qwen`; `live`
tells the streaming variants from the others; `Push` is the difference between
two parses that is sent.

A token is a sequence of characters and bytes; `"lead"` and `"tail"` are the two bytes of one character, which may come in two
tokens. `Text(decoder, tokens)` is `decode_tokens`: the bytes of *all* tokens become characters, then the strings of the
begin and the end of a sequence are removed. A byte without its other half becomes `"?"`; a tokenizer for which
bytes are a fallback makes `"?"` of all bytes next to it as well (`Lost`). The response that is no stream is the `Text` of
all tokens. A stream decodes each token alone (`Piece`), and its parser accumulates these pieces (`Accumulated`); the two
differ when a token cuts a character or a removed string. The tokenizer is a library, modelled from what
`base:text.rs` asks of it.

| code | model |
|---|---|
| `decode_tokens`, of all tokens and of one | `Text`, `Piece` |
| accept loop | `Accept`, `Close` |
| `read_http_request` | `Read` |
| dispatch by path, refused and simple requests | `Reject`, `Answer` |
| handlers, `GenerationGuard` | `Start`, `active`, `DropGuard` |
| token loop with the callback of a stream | `Prefill`, `Token`, `EndOfSequence` |
| `StreamingParser::push`, the three dialects' chunks | `Events`, `Deliver` |
| `record_generation` | `Record` |
| end of a stream, plain response, error response | `Finish`, `Reply`, `WriteResponse` |
| the other end | `Leave`, `Stall`, `wire` |

`past` is a history of what happened to the requests, against which the
counters are compared. Left out: rewriting of arguments into JSON, `detect`,
the event that ends a call (the server ignores it), the text of prompts and
logs. `setup` fixes dialect, parser, decoder, vocabulary and bounds of one server. Of the decoding are left out: tokenizers that
drop a space at the beginning of what they decode, and more than one string that ends a sequence. An error of the decoder
of one token is dropped by the code (`unwrap_or_default`); the only one that `base:text.rs` has itself, an id beyond 32
bits, cannot occur for a token that the model has sampled. `StopTokens` are
the closing markers that the vocabulary has as tokens of their own.

`StreamedText`, `StreamedCalls` and `StreamedReasoning` compare a stream with `Answered`: the plain response to the same tokens, if they
are `Unbroken` (none cuts a character or a removed string), else what the same parser says of the accumulated pieces. Without
that condition they would be false (`StreamedWhole`, see 5).
The conditions under which the streamed text is right are named: `Overshoots`
and `Doubled` exclude two ways in which the content of a later parse is shorter
than that of an earlier one (see 5), `Settled` says that the answer does not end in
the middle of something (a channel, a call outside the channels, a marker), `WholeMarkers` that every
marker is a token of its own, `Indented` that white space follows white space in an answer of Gemma.

## 4. Runs

| run | question | bounds | states |
|---|---|---|---|
| `pool` | with full fences: each index once, no stale closure, no lost wake-up, no skipped generation, and the promise of `ParallelFor` with its progress without the timeout; with release/acquire only: the same, the progress thanks to the timeout | 3 lanes, n in {1, 4}, 2 dispatches, then drop | 108k |
| `spec` | both loops: KV and recurrent state stay committed, output is greedy, at most one token too many, implements `GreedyDecode`, terminates | 4 tokens (one EOS, one stop), `max_tokens` 4, 2 drafts, room 4 | 1.8M |
| `kv` | a windowed FP8 layer, requests that fit: every query finds its window | window 4, context 13, prompts to 9, chunks to 4, verify 2 | 833 |
| `host_weights` | a load: ranges disjoint and pinned under concurrent failures; then its use: kernels read their weights, fences are as old as the ring allows | 3 workers, sizes {2, 3, 8}, 7 units, 7 calls; 2 slots, 4 matvecs, four kinds of linear | 435k |
| `kv_pages` | pages conserved, slots isolated, implements `LruPages` | 3 sequences, 4 pages of 2 tokens, requests of 0, 4 and 5 tokens, clock to 6 | 120k |
| `decode` | each call returns the token of its own step, after a prompt in chunks or token by token, eager, captured or replayed; the host copy of a KV cache is complete; no wait is issued ahead of its record; a capture fails only with experts in VRAM; every call returns | 28 models of two to four layers, prompts of 1 or 2 token by token and of 3 in chunks of 2, context 6, graphs to length 5 | 66k |
| `server` | streamed text, calls and reasoning are those of the plain response, or of the pieces where a token cuts a character; counters add up; one end per response; the thread comes back | answers of up to 4 to 7 tokens, and 2 requests of every kind to 8 servers | 401k |
| `kv_window_prefill`, `kv_window_fp8`, `decode_odd`, `decode_vram_moe`, `server_split` | statements of comments that do not hold (see 5) | | stop at the counterexample |

Why these bounds are enough to be interesting. *Pool*: with n = 1 two
shards are empty, with n = 4 they are uneven; two dispatches let a worker that
parked in the first meet the second; a third lane makes the unpark loop
longer than one step. *Spec*: four output tokens with two drafts give
two full rounds, the second starting from any acceptance of the first, and with `Room` 4
some of them run out of context. *Ring*: a context of 13 wraps a window of 4
three times. *Staging*: four matvecs reuse both slots, the second time with
fences. *Arena*: sizes that fit, that fit only once or twice, and that never fit;
seven calls let failures nest. Arena and pool share no variable, and the pool is explored behind
one load only (`Loaded`). *Pages*: two of the three sequences cannot be served together, so evictions that
suffice and that do not are both common; 4 tokens fill their last page exactly, 5 do not. *Decode*: the models use every
branch of `DecodeProgram` and `PrefillProgram` between them; a prompt of 3 in chunks of 2 has a full chunk and a
shorter one that starts from its state; with graphs to length 5 and a context of 6 a request
captures, replays at other positions and goes back to an eager step; four layers
with host-resident KV use both staging slots twice in a step. *Server*: nine of
the servers have one streaming chat and take every answer over their vocabulary, with whole
markers (5 tokens) and markers in pieces (4 or 5), one with
two calls and text after them (7), one with two reasoning bodies that begin with white space (6), and one for either decoder with characters
cut over tokens inside and outside of calls and reasoning (4); the other eight take every request, twice, from clients
that may leave or stall between any two steps. Where symmetry is declared
(`host_weights`, `kv_pages`) only invariants and a safety refinement are checked, and
workers or sequences occur only through equality.

Deadlock is not checked for `pool`, `decode` and the two `server` runs, which stop (pool
dropped, the context full, every call or connection made); there `KeepsPromise`,
`EveryCallReturns` and `Served` say that nothing stops half-way. The other
specifications have an explicit stuttering step for their end (`Returned`,
`Drained`, `LoadOver`), so that a deadlock anywhere else is reported. For `kv` this means that a batch or token
that the guards wrongly refuse during the prompt is found.

The `kv` run is of a windowed layer. Full attention (`Window = 0`) is
covered by the theorems of `KvRing_proofs` for every context and request.

## 5. Where the code and its comments disagree

Each is a run that TLC answers with a counterexample; `PROJECT.json`,
"findings", quotes the lines.

1. `kv_window_prefill`. On a sliding-window layer a chunk after the first is stored over
   positions that its own earlier rows still attend to.
2. `kv_window_fp8`. With FP8 storage the batched store takes absolute positions
   for slots and drops every position beyond the window; the comment on the
   launch says the mapping is already wrapped. The first tokens after a long
   prompt attend to old or missing positions.
3. `decode_odd`. The hidden buffers change names once per layer. With an odd
   number of layers they end a captured step swapped, the next step puts its
   embedding in the buffer the graph does not start from, and the replay
   computes from old data. With an even number it is right (`decode`).
4. `decode_vram_moe`. Whether a step can be captured depends on host-resident
   layers only. Experts in VRAM that are not driven by the device still send
   the router's choice to the host, which is an error in a capture.

5. `server_split`. A stream decodes each token alone, a plain response all of them. A character
   whose bytes come in two tokens (an emoji, a rare ideograph) reaches a streaming client as replacement characters, in text, in arguments of calls and in
   reasoning, although a comment says that there is one code path for both.

Whether a given model meets 1 and 2 depends on its layers and settings: they
need sliding-window layers together with a prompt in several chunks or FP8
storage, and a history longer than the window.

These are no runs, since the properties are stated so as to hold:

- The emit loop pushes a stop token before it compares with `max_tokens`
  (`cuda:executor/mtp.rs:1065`, `speculative.rs:1025`), so a round may return one token
  more than the plain loop. `BoundedOvershoot` bounds it: one token, a stop
  token, and nothing else differs (`Lossless`).
- `verify_batched` needs room for the whole batch
  (`cuda:executor/prefill/mod.rs:405`), and a speculative request fails near the end of
  the context where the plain loop would finish.
- In a ring the rejected tail of a verify batch has replaced positions that
  are still visible. `Fits` excludes it.
- A comment in the server (`app:server/http.rs:583-585`) says that `/v1/messages`
  always installs the stop token of its chat format; its streams pass none (`StopTokens`).
- `base:chat_parse.rs:42-45` says that markers split over tokens are handled.
  In reasoning, the first piece of a closing marker is sent as reasoning, and a token with text in front of
  the closing marker loses that text when white space at the beginning of the body goes at the same time:
  an open channel of Gemma is trimmed at its end only (`:203-205`), a closed one at both ends (`:194`), and
  reasoning that does not extend what was sent is not sent (`:105-113`). Therefore `StreamedReasoning` has
  the condition `WholeMarkers`, and compares up to white space where `Indented`.
- The strings of the begin and the end of a sequence are removed from what is decoded (`base:text.rs:98-108`), that is, from
  each token of a stream but from the whole of a plain response. One that comes in several ordinary tokens stays in a stream (`Unbroken`).
- A call of Gemma that is opened in the text and closed within a later reasoning channel is not closed in
  what remains without the channels; a plain response keeps its text, a stream drops it (`Settled`).
- When another turn is opened in front of an unfinished call, or "<" precedes a
  split marker, the content shrinks from one parse to the next, and the whole of it is sent again
  (`Overshoots`, `Doubled`).
- `flush` sends nothing: what is held back at the end of an answer is lost in
  a stream and present in a plain response. A Gemma channel without a line
  break is held back in the same way (`Settled`).
- A stray closing marker of a call counts as an end of a call that never
  began; nobody reads that event.
- A stream whose generation fails ends with the finish reason "stop".
- `/metrics` is answered by the only serving thread, so that a reader always
  finds `active_generations` at zero.
- Prefill and decode do not compute the same for every model, and the instances keep to
  those for which they do. Without an input scale of its own the router reads the residual
  in prefill (`cuda:executor/prefill/moe.rs:341`) and its norm in decode (`cuda:executor/mlp.rs:461`),
  although `moe.rs:3` says that it mirrors decode. For NVFP4 weights prefill applies no q/k/v norms
  (`prefill/layer.rs:295-471`) and no per-layer inputs or layer scalar (`layer.rs:1195-1369`).

## 6. Proofs

All theorems are checked by TLAPS without unproved steps. "For every" means: for every value
of the constants that satisfies the module's named assumption.

**Pool** (`PersistentPool_proofs`, from `PoolAssumption`). The inductive
invariant `IInv` relates the counters to sets of workers. None of the properties is
inductive: `EachIndexOnce` needs to know where every lane is in its shard,
that needs `pending` to count precisely the workers that have not finished
(`Owing`), and that needs the generations to be at most one apart.
`RanInv` says `ran[i]` is 1 below each lane's `Progress` and 0 above.
Lemmas about the split (shards are intervals, in order, disjoint and cover
`[0, n)`) carry the last step. From `IInv`: `PoolTypeOK`, `PoolEachIndexOnce`,
`PoolNoDanglingJob`, `PoolNoSkippedGeneration`, and `PoolImplementsParallelFor`
(the safety part of `ParallelFor`), for every number of lanes, jobs and
dispatches and both memory models. `NoLostWakeup` itself has the
hypothesis `~staleLoads`, which is exactly where the memory order matters.

**Speculation** (`SpecDecode_proofs`, from `SpecAssumption`). `SInv` says, for
each phase, how far the script has been pushed, that everything below
`position` is committed, that proposals accepted so far are the script, and
where the recurrent state and its snapshot are. The key lemma: a batched
verify over a committed history is right in every row that was fed the script;
with the acceptance scan it follows that the accepted prefix and the
correction are the script. Theorems: `SpeculativeTyped`, `CommittedKvSafe`, `RecurrentSafe`,
`GreedySafe`, `OvershootSafe`, and the refinement `Lossless`.

**Ring** (`KvRing_proofs`, from `RingAssumption`). `RInv`, under the hypothesis
that every request `Fits`: the ring holds the last `Capacity` positions, and
the f16 copy is complete as long as batches run on it. The arithmetic of
residues is in two lemmas; a batch that does not reach the capacity stores
without wrapping under both conventions, so both stores agree. Theorems
`RingTyped`, `AttendsSafe`, `HoldsSafe`. The hypothesis is a condition on constants; the
runs `kv_window_*` show that it cannot be dropped.

**Arena** (`HostWeights_proofs`, from `ArenaAssumption`). That ranges stay
disjoint is not evident, since a roll-back overwrites other additions. `AInv`
observes that a failed reservation is either the one that crossed the
capacity, or started beyond it; there is at most one of the first kind while
`used` is beyond the capacity, and rolling back the others keeps it there.
Hence whenever a reservation succeeds nothing low is pending and the range
starts above all others. Theorems `ArenaTyped`, `ArenaDisjoint`, `ArenaPinned`.

**Staging** (`HostWeights_proofs`, from `StagingAssumption`). The queues
change at both ends, so the proof gives every operation the number it was
issued with, which stays the same while it waits, and speaks of numbers only.
`StInv` consists of

- `KernelsReady`, `NextReady`: the weights of a kernel are either `Awaited` (the
  copy is still to come, and a wait in front of the kernel is for it) or have
  `Arrived` (and every later copy into that buffer is of a younger call);
- `Fenced`, `NativeFenced`: a copy into a slot has a fence in front of it for every
  older kernel that still reads the slot;
- `Marked`: the event of a slot is behind every kernel that reads it, except
  between the launch and `mark_kernel_launched`; with `next_slot` this gives the
  next fence;
- `InOrder`: two copies into one buffer are those of two calls, in order;
- `Ages`, `FenceAges`: an event of a slot is of a call with that residue, so a
  fence reaches `SlotCount` calls back, whence `FencesAreOld`.

A pass of a wait, a start and a finish of an operation, each host step and its
failing form preserve every part; the lemmas have one step per part. Theorems
`StagingTyped`, `KernelReadsSafe`, `FencesAreOldSafe`, for
every number of slots, set of linears and number of calls. That the two streams never wait for each other needs no
property: an event is the number of operations issued before it, so a wait is always for older work.

**Server** (`ChatServer_proofs`, for every set of setups: dialect, decoder, vocabulary, bounds). The counters
are updated one step after the one that decides how a request ends; `MInv` says
what is owed in between, and that the guard lives exactly as long as its
handler. Theorem `MetricsSafe`.

That a client has the calls of the finished answer (`StreamedCalls`) is not inductive, for the parser
reads the whole answer again at every token, and what it sends is the difference of two
parses. The invariant `SInv` (`AnswersInvariant`) says:

- `Followed`: `parsed.calls` are the calls of the text so far (that of the accumulated pieces);
- `Shown`: a client that has not left has put together exactly these calls, each with all of its arguments;
- `Told`: its finish reason is `tool_calls` if and only if there are any;
- `Ends`, `Phases`: a connection has an end only when it is closed, and a result only
  after the generation; `Types`.

The invariants speak of the accumulated pieces, because that is what the parser of a stream reads (`AccumulatedGrows`: a token
appends its piece). The properties speak of `Answered`. `AnsweredIs` says that the two are one text: by definition where a token cuts
something, and where none does because decoding then distributes over the tokens (`TextPieces`). That has two parts. A character
never lies across the border of two tokens without stray bytes, under either decoder (`CharactersConcat`). And the removal of
the two strings, of which the second sees what the first has left, is part by part although a token may end with `"<"`: a removed
string has a tail that stands in no other token (`StripWhole`, `StripConcat`).

Three facts about texts carry the step of a token. The calls of a content stay and
are extended when it grows (`CallsGrow`), because the parse of a call depends on what is before it
only. The content of a live parse grows with the answer (`ContentGrows`), except that a `"<"`
at its end may be taken back when it turns out to begin a marker. And no call ends at a
`"<"` (`CallsHeld`), so taking it back takes no call back. A push then brings the client from the
calls of one parse to those of the next (`PushKeepsUp`). Places of markers are least elements of sets of
numbers, so these lemmas are by induction over numbers as a set (`LeastNat` from well-foundedness; the
set of `n` of which a lemma holds is all of `Nat`), which needs no operator as parameter. Theorems `ServerTyped`, `OneEndSafe`,
`StreamedCallsSafe`.

The text (`StreamedText`) passes one stage more, which removes the markers that remain, one kind after the
other, so that a removal may form a marker that was not there. Its growth is shown for answers that are
`Clean`: no `"<"` in front of another, no marker of another speaker's turn in an answer of Gemma. (Both are
conditions of `StreamedText`, and `UnspoiledIs` says that they are the same.) A text that does not end with `"<"` is `Ready`:
whatever follows, no marker lies across its end. Cut at such a place, a text loses its markers part by part
(`StripConcat`, `StripsBase`), also those that form anew. The place is `Base`: what the live parse
says of the content before a held `"<"`. Then

- the live text is the trimmed `Base` without markers (`LiveText`), and only grows with the answer (`LiveTextGrows`),
  since the base of a longer answer begins with that of the shorter one (`BaseGrows`, `SaidGrows`);
- it begins the text of the plain response (`WholeTextBegins`), whose tail is longer: the held `"<"`, the body
  of an open channel or call;
- if nothing was held back they are the same (`WholeTextSettled`).

The invariant `TInv` (`TextInvariant`) says that the last parse is that of the answer so far (`Seen`) and
that the client has its text, exactly (`Heard`), with `StreamedTextSafe` from the last two facts.

The reasoning (`StreamedReasoning`) does not only grow: a channel of Gemma loses the white space at its beginning when it
is closed. `ReasoningGains` says which of the two happens at a token: it grows, or it
differs by white space only, the latter only behind two characters of white space in a row (`Lines`). `push` sends nothing in the second
case, so that `RInv` (`ReasoningInvariant`) can say that the client has the reasoning of the parse so far but
for white space, and exactly unless there is such a place. With all channels closed both parses have the
same reasoning (`ReasoningClosed`), whence `StreamedReasoningSafe`.

**Decode** (`DecodeStep_proofs`, from `DecodeAssumption`: any models over `LayerType`, of any number of
layers, any context and any length up to which graphs are used). The program of a step is a sequence of some
hundred operations per layer that depends on the model. `Sound(ops, E)` says that each event that an operation
of `ops` waits for is in `E` or fired earlier in `ops`; `Mild` and `Calm` programs wait for none, or
need nothing of the host either. Each operator of `DecodeProgram` and `PrefillProgram` has a lemma that says
which of these it is; sequences of layers (`FlattenSeq`) and the operations of a stream (`OfStream`, a
recursive function) are handled by induction over numbers as sets.

The invariant cannot speak of the two queues one by one, since what is sound is the order in which the host
issued, which they do not keep. `DInv` says that there is *some* sequence `M` such that

- `Queued(M)`: the queues are the operations of `M` of the one and of the other stream;
- `Ordered(M)`: `M` is sound after what has fired; the graph, what is recorded and what
  the host has yet to do are sound after `M` (the latter also after the recorded operations);
- `CopiesKnown(M)`: the events of the copied experts of a step are known when the next step waits for the last
  of them, and no layer that copies experts is captured;

and `Undisturbed`: unless routed experts stay in VRAM and are not driven by the device, a capture is in
progress only within the layers and what remains of them is calm. A stream that executes removes the first operation
of its kind from `M`, wherever that is; whatever was before it and is still to run belongs to the other stream,
and what waits for its event finds it fired. The first operation of `M` is the head of its queue and can
run, whence `StreamsAdvanceSafe`; `CaptureFailsInVramSafe` is from `Undisturbed`.

`TypeOK` is not inductive, because the host does not say where a row of a KV cache goes: the
kernel reads it from the device (`decode_position`, and `batch.positions` for a chunk). A place outside the context would be
a write outside the cache, and the store of a chunk writes the rows *before* the position it reads as well.
`TInv` (`TypeInvariant`) consists of

- `Situated` and `Held`, the types of the host's and of the device's variables; `Behind` is the number of rows
  before the last of the longest chunk, which is the first one, and the position of a chunk on the
  device (`Fed`) is never below it;
- `Fitting`: each operation that is queued, recorded, in the graph or left to the host yields a value of
  `Values` and writes to the positions of a chunk only ones that are not below `Behind`; a store of several rows takes its
  place from there, and stores at most `Behind` rows before it;
- `Supplied`: in a request whose prompt runs in chunks that position is on the device, or it is the next thing the
  compute stream writes, or the host issues, or nothing has been issued at all. So no store comes before it.

`Fit` (of an operation) and `Within` (of a program) are constant-level, so that each operator of the two programs has
one lemma, composed by concatenation and over the layers like those of `Sound`. Theorem `TypeCorrect`.

**Token** (`DecodeToken_proofs`, from the same assumption). `TokenCorrect == Spec => [](OneStream => TokenOfItsStep)`:
in a request of the class `OneStream` every call returns the token of its own step. The class is part of the
state (`model` and `chunk` are chosen in `Init` and never change), and consists of

- prompts that run token by token (`~Chunked`);
- models whose operations are all of the compute stream (`AllOnDevice`): KV caches in VRAM, no experts or
  experts that the device drives, and a layer that shares a cache shares that of an attention layer before it;
  mixers (full and linear attention), projections of all formats, norms, dense MLPs, shared experts and per-layer
  inputs in any combination, any number of layers, shared caches included;
- an even number of layers, if steps are captured (`Capturable`). This condition cannot be dropped: after an odd
  number the hidden buffers are swapped and the replay is wrong, as the run `decode_odd` shows.

The proof follows the data. A device is a record of buffers and caches. `Leads(d, ops, e)` says that from `d` each
operation of `ops` finds in its inputs what the code takes them to hold, and that `e` is what they leave.
`Turns(l, p, A, ops, B)` says it with facts instead of devices: where the facts `A` hold (a buffer holds this
quantity of this layer, position and form), `ops` run for position `p` leads to the facts `B` and has written
nothing but scratch and the states of layer `l`. Each operator of `DecodeProgram` has a lemma of this form, composed by concatenation.
The programs say where a fact is, and the position only enters through the buffers that the host writes before a step;
therefore one lemma covers the eager step, the capture and the replay of a graph captured at another position
(the parameters `a`, for which it was issued, and `p`, at which it runs). Then

- a layer adds one row to its cache and takes its states one position on (`KeepsOf`), and leaves what the others
  keep (`Kept`), across shared caches and the exchange of the hidden buffers;
- by induction on the number of layers (`Through`) a step leads from `Settled` at its position, where every layer keeps precisely the
  positions before, to `Settled` at the next, with its logits and its token in their buffers;
- `VInv` says of the reachable states that what is queued, executed from the memory as it is, and then what the host has yet
  to issue leads to that end (`Course`), and that a graph, if there is one, is the step of this model at
  some position (`Replayable`).

`VInv` needs the type invariant `TInv` and the order invariant `DInv` (`TypeInvariant`), and no event, since all operations of such a
request are in one queue.

**Pages** (`KvPageAllocator_proofs`, from `PagesAssumption`). `KInv` is
`TypeOK`, conservation, and distinct ticks. Conservation implies that a list
that is given back has no duplicates with the free list, so that the `retain`
that removes duplicates in `release_pages` never removes anything
(`RetainedSame`). Theorems `PagesTyped`, `PagesSafe`, `SlotsSafe`, and
`LruRefinement`.

Only model-checked:

- `TokenOfItsStep` outside of `OneStream`, and `HostKvComplete`: prompts in chunks, host-resident KV, and experts
  that are staged, copied one by one or computed on the CPU. There two streams (or the host between two
  operations) work on the same step, and the argument needs in addition that what is not ordered by an event commutes;
  for chunks it holds only of models for which prefill and decode agree (section 5).
- Liveness everywhere (termination of the speculative loops, progress of the pool, `EveryCallReturns`,
  `Served`): the prover does not handle fairness and `ENABLED`. For the streams of a decode step the theorem
  `StreamsAdvanceSafe` gives the part of it that is an invariant.

## 7. Fairness

*Pool.* `ThreadFairness`: a thread that can take a step takes one, in the
end. With full fences nothing else is assumed, and in particular never that the
10 ms timeout expires. `StaleFairness` applies to the other memory model only: timeouts expire,
and a polling load sees a new value in the end (strong fairness of
`SeeGeneration`, since a worker may look, miss, and look again), which the
hardware's coherence provides. Nobody has to call `dispatch` or `drop`.
`SafeSpec` is the specification without fairness, of which the theorems speak.

*Speculation.* One host thread, which only waits for launches that it has
issued: weak fairness of the loop as a whole. No fairness towards any
particular outcome of drafting.

*Prefill and decode.* Weak fairness of the host inside a call (`Host`) and of each
stream (`Compute`, `Transfer`). A stream at the head of which is a wait for an event that
has not fired is not enabled, so that fairness alone hides no circular wait.

*Server.* Weak fairness of the serving thread (`WF_vars(Serve)`), and none for
clients: `Served` says "back at accept, or a client has stalled", since no
read or write has a timeout.

The other specifications state safety only.

## 8. What is abstracted

Values of tensors, tokens and weights are model values, bits or numbers of
calls. Numerics, tie-breaking in argmax and kernel selection are left out.
Left out of modelled components: CPU pinning and spin lengths (pool); the
choice among attention kernels (ring); bounce buffers, which only
unpinned sources use and no loader builds, and the single-slot `prepare`
functions, which have no caller (staging); what the workers read into their
ranges (arena). Bounds that exist only in the models: `MaxDispatch`, `MaxCalls`,
`Projections`, `MaxClock`, `MaxPrompt`, `limit` of a server; the proofs hold for each value of them.

Two behaviours the models have and no property excludes. An arena
whose roll-backs happen in the wrong order keeps `used` beyond the
capacity although bytes are free; the load has failed by then. And
`allocate_or_evict` may return `OutOfMemory` after having evicted a sequence,
whose cache is lost for nothing.

Not modelled, and why:

- *Kernels, encoders, the wgpu backend, tensor formats, sampling.* Numeric
  code. They are most of the repository's lines, and their correctness is
  about floating-point values.
- *Loader, artifacts, templates, parameters, command line.* I/O and
  text, sequential, covered by unit tests where it matters. The concurrent part
  of the loader, the prefetch, is `PinnedArena`.
- *Kernels of prefill, images and audio.* What `PrefillProgram` leaves out is
  listed in section 3; a batched verify is in `SpecDecode`, windows and FP8 storage in `KvRing`.
- *Prefix cache, prefill scheduler.* The engine calls neither at this
  commit. Reading them: inserting a prefix again replaces its pages but adds
  them to the page count again; an edge that matches in part gives no hit,
  although the doc speaks of the longest common prefix; the victim is
  chosen by comparing ticks of parents; the scheduler does not follow the rest
  of a prompt that is longer than its chunk.
- *Planning.* A sequential computation of a placement from sizes; its loop
  that spills layers until the budget is met is the part worth checking.
- *Hybrid executor, prepared state, page-cache helper.* One sequential walk per
  token, one guarded `take`, two system calls.

## 9. Plan

What remains, in this order:

1. The spill loop of planning as a recursive function, against its budget:
   when it returns a placement, the placement fits.
2. The prefix cache as a prefix-closed set of sequences, with page count and
   LRU against `LruPages`; the prefill scheduler as a bounded queue. Both when
   the engine begins to call them.
3. The verify batch of speculation (`verify_batched`) and the rows of images
   and audio with the operations of `PrefillProgram`.
4. A composition of `SpecDecode` and `KvRing` for a model with both kinds of
   layers, with the condition under which it is lossless.
5. Proofs: `TokenOfItsStep` for prompts in chunks, with a `Turns` lemma for each operator of
   `PrefillProgram`; then for the models of two streams, where `Course` has to speak of the sequence `M` of `DInv`
   instead of one queue, and with it `HostKvComplete`.

## 10. Running it

`tlc -config MCKvRing.cfg MCKvRing` checks a run; `PROJECT.json`, "runs", pairs modules and
configurations. `tlapm KvRing_proofs.tla` checks the proofs of a module. Most
runs end within a minute, `decode` and `spec` within about two minutes. The
proofs of `HostWeights_proofs`, `ChatServer_proofs`, `DecodeStep_proofs` and `DecodeToken_proofs` take some minutes from
nothing, those of every other module about one or two.
