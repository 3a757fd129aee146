--------------------------- MODULE PrefillProgram ---------------------------
(***************************************************************************)
(* What the host issues for one chunk of a prompt (cuda:executor/prefill,  *)
(* with the chunked parts of gdn.rs and ple.rs), in the terms of           *)
(* DecodeProgram.  A chunk of n rows ends at position p, and a value of    *)
(* position p in a buffer of the chunk stands for its n rows.              *)
(*                                                                         *)
(* CudaPrefillScratch is a set of buffers of its own.  They are named like *)
(* the scratch of a decode step, with -1 for its 0 (OnChunk), so that      *)
(* kernels that both paths issue alike are written once.  Rows of KV       *)
(* caches, recurrent states and state.hidden are the ones decode uses.     *)
(*                                                                         *)
(* Quantities have the names they have in a decode step: a kernel that     *)
(* computes something else gives it another name, and its readers get      *)
(* junk.                                                                   *)
(***************************************************************************)
EXTENDS DecodeProgram, Integers

-----------------------------------------------------------------------------
(* The scratch of a chunk.  Some buffers serve for several quantities of a *)
(* decode step: hidden is updated in place, gather_swiglu is the second    *)
(* factor of an expert and its product, gather_out its result and the      *)
(* shared expert's.                                                        *)

Shares == [residual |-> "hidden", post_normed |-> "input_normed", gdn_normed |-> "input_normed",
           expert_gate |-> "gather_intermediate", expert_up |-> "gather_swiglu",
           expert_swiglu |-> "gather_swiglu", moe_acc |-> "gather_out", routed_acc |-> "moe_acc",
           quant_expert |-> "gather_quant", mxfp4_expert |-> "gather_mxfp4"]

OfChunk(b) ==
    IF b[2] # 0 \/ b[1] \in {"", "staging"} THEN b
    ELSE <<IF b[1] \in DOMAIN Shares THEN Shares[b[1]] ELSE b[1], -1>>

(* A state is carried over from the last row of the chunk before.          *)
OnChunk(ops, n) ==
    [i \in DOMAIN ops |->
        [ops[i] EXCEPT !.out = IF ops[i].stream = "host" THEN @ ELSE OfChunk(@),
                       !.in  = {[w EXCEPT !.buf = OfChunk(@), !.back = @ * n] : w \in @}]]

(* Positions, slots and lengths of the chunk (prepare_dense_batch).        *)
Batch == {Want("batch", "position", "f32", 0, 0)}

(* The chunk ends with an error that the code returns for this layer.      *)
Refusal == <<OnHost("error", "", "", 0, {})>>

(* The batched linears of experts, of gated attention and of the shared    *)
(* expert have no CUTLASS variant.                                         *)
Unfused(fmt) == IF fmt = "cutlass" THEN "prequant" ELSE fmt

-----------------------------------------------------------------------------
(* Attention of a chunk.  Q is in gate, K in up, and qkv is the scratch of *)
(* the norms, then the context.                                            *)

From(l, b, xn, f, out, n) == Op("kernel", "compute", out, n, "f32", l, 0, {Want(b, xn, f, l, 0)})

ChunkQkv(l, m) ==
    LET x == "input_normed"
        f == Scale(m, TRUE)
        g == Scale(m, FALSE)
        Quant(b, form) == Quantise(l, 0, x, "normed", b, form)
        All(b, form) == <<From(l, b, "normed", form, "gate", "q"), From(l, b, "normed", form, "up", "k"),
                          From(l, b, "normed", form, "v", "v")>>
    IN  <<K(l, x, "normed", {<<"hidden", "x">>})>>
        \o (CASE m.proj = "plain"    -> All(x, "f32")
              [] m.proj = "native"   -> Quant("mxfp4_hidden", "mxfp4") \o All("mxfp4_hidden", "mxfp4")
              [] m.proj = "cutlass"  -> Quant("cutlass_payload", "cutlass") \o All("cutlass_payload", "cutlass")
              [] m.proj = "prequant" ->
                    Quant("quant_hidden", f) \o <<From(l, "quant_hidden", "normed", f, "gate", "q")>>
                    \o Prepare(l, x, "normed", f, g, "quant_hidden")
                    \o <<From(l, "quant_hidden", "normed", g, "up", "k")>>
                    \o Prepare(l, x, "normed", g, f, "quant_hidden")
                    \o <<From(l, "quant_hidden", "normed", f, "v", "v")>>)

ChunkNormOne(l, b, n, nn) == <<K(l, "qkv", nn, {<<b, n>>}), K(l, b, nn, {<<"qkv", nn>>})>>

(* Only the BF16 and FP8 path has norms and the scale, before the rotation.*)
ChunkNorms(l, m) ==
    When(m.qnorm /\ m.proj = "plain",
         ChunkNormOne(l, "gate", "q", "qn") \o ChunkNormOne(l, "up", "k", "kn")
         \o ChunkNormOne(l, "v", "v", "vn") \o <<K(l, "gate", "qns", {<<"gate", "qn">>})>>)

RotatedKey(l, m) == Also(K(l, "up", "kr", {<<"up", IF m.qnorm THEN "kn" ELSE "k">>}), Batch)

(* `slot' is the number of rows before the last one.                       *)
ChunkStore(l, m, buf, n) ==
    [Also(K(l, "", "kv", {<<"up", "kr">>, <<"v", ValueName(m)>>}), Batch)
        EXCEPT !.kind = "store", !.out = buf, !.slot = n - 1]

ChunkAttend(l, m, query, buf, p) ==
    [Also(K(l, "qkv", "ctx", {<<query, QueryName(m)>>}), Batch)
        EXCEPT !.kind = "attend", !.id = buf, !.slot = IF m.parent = 0 THEN l ELSE m.parent, !.at = p + 1]

(* Host-resident KV: the rows before the chunk go to the first staging     *)
(* slot, the rows of the chunk come back before the host goes on.          *)
ThroughHost(l, m, p, n, query) ==
    LET staging == <<"staging", 0>>
        Moved(kind, k, q, from, to) == [At(Op(kind, "compute", "", "", "", l, k, {}), q) EXCEPT !.id = from, !.out = to]
    IN  <<Moved("load", 0, p + 1 - n, <<"host", l>>, staging), RotatedKey(l, m), ChunkStore(l, m, staging, n),
          ChunkAttend(l, m, query, staging, p), Moved("save", n - 1, p, staging, <<"host", l>>),
          OnHost("sync", "", "", l, {})>>

(* A layer that shares a cache stores its own rows and reads the other's.  *)
InVram(l, m, p, n, query) ==
    <<ChunkStore(l, m, <<"kv", l>>, n),
      ChunkAttend(l, m, query, <<"kv", IF m.parent = 0 THEN l ELSE m.parent>>, p)>>

ChunkAttention(l, m, p, n) ==
    ChunkQkv(l, m) \o ChunkNorms(l, m)
    \o <<Also(K(l, "q_half", QueryName(m), {<<"gate", IF m.qnorm THEN "qns" ELSE "q">>}), Batch)>>
    \o (CASE m.hostKv /\ m.parent # 0 -> Refusal
          [] m.hostKv /\ m.parent = 0 -> ThroughHost(l, m, p, n, "q_half")
          [] ~m.hostKv                -> <<RotatedKey(l, m)>> \o InVram(l, m, p, n, "q_half"))
    \o Matvec(l, 0, m.oproj, "qkv", "ctx", "quant_hidden", "mxfp4_hidden", "input_normed", "o")
    \o When(m.post, <<K(l, "qkv", "on", {<<"input_normed", "o">>})>>)
    \o <<K(l, "hidden", "residual", {<<"hidden", "x">>, IF m.post THEN <<"qkv", "on">> ELSE <<"input_normed", "o">>})>>

(* Attention with an output gate (forward_qwen_fullattn_prefill_chunk).    *)
ChunkGatedAttention(l, m, p, n) ==
    LET Linear(fmt, x, xn, out, nn) == Matvec(l, 0, Unfused(fmt), x, xn, "quant_hidden", "mxfp4_hidden", out, nn)
        x == "input_normed"
    IN  <<K(l, x, "normed", {<<"hidden", "x">>})>>
        \o Linear(m.proj, x, "normed", "q_full", "qg")
        \o <<K(l, "gate", "q", {<<"q_full", "qg">>}), K(l, "attn_gate", "gate", {<<"q_full", "qg">>})>>
        \o Linear(m.proj, x, "normed", "up", "k") \o Linear(m.proj, x, "normed", "v", "v")
        \o When(m.qnorm, ChunkNormOne(l, "gate", "q", "qn") \o ChunkNormOne(l, "up", "k", "kn"))
        \o <<Also(K(l, "gate", "qr", {<<"gate", IF m.qnorm THEN "qn" ELSE "q">>}), Batch)>>
        \o When(m.parent = 0, <<RotatedKey(l, m)>>)
        \o InVram(l, m, p, n, "gate")
        \o <<K(l, "qkv", "gctx", {<<"qkv", "ctx">>, <<"attn_gate", "gate">>})>>
        \o Linear(m.oproj, "qkv", "gctx", x, "o")
        \o <<K(l, "hidden", "residual", {<<"hidden", "x">>, <<x, IF m.post THEN "on" ELSE "o">>})>>

(* The gated delta net issues what a decode step issues, on all rows.      *)
ChunkDeltaNet(l, m) ==
    IF m.proj = "plain" THEN GatedDeltaNet(l, m, "hidden")
    ELSE <<K(l, "gdn_normed", "normed", {<<"hidden", "x">>})>> \o Refusal

-----------------------------------------------------------------------------
(* Dense MLP of a chunk.                                                   *)

IsNvfp4(m) == m.gateup # "plain" /\ m.down # "plain"

(* The activation is fused with the quantisation for both tensor-core      *)
(* formats, and in place for the third.                                    *)
ChunkDown(l, m) ==
    LET Factors == {Want("gate", "g", "f32", l, 0), Want("up", "u", "f32", l, 0)}
        Fused(b, form) == <<Op("kernel", "compute", b, "act", form, l, 0, Factors),
                            From(l, b, "act", form, "input_normed", "mlp")>>
    IN  CASE m.down = "cutlass"  -> Fused("cutlass_payload", "cutlass")
          [] m.down = "native"   -> Fused("mxfp4_intermediate", "mxfp4")
          [] m.down = "prequant" ->
                <<Op("kernel", "compute", "gate", "act", "f32", l, 0, Factors)>>
                \o Matvec(l, 0, "prequant", "gate", "act", "quant_intermediate", "mxfp4_intermediate", "input_normed", "mlp")

AddMlp(l, m, b, normed) ==
    When(m.post, <<K(l, normed, "mlpn", {<<b, "mlp">>})>>)
    \o <<K(l, "hidden", "y", {<<"residual", "residual">>, IF m.post THEN <<normed, "mlpn">> ELSE <<b, "mlp">>})>>

(* Only layers that are not NVFP4 add the per-layer inputs.                *)
ChunkDenseMlp(l, m) ==
    (IF IsNvfp4(m)
     THEN GateUp(l, m) \o ChunkDown(l, m) \o AddMlp(l, m, "input_normed", "qkv")
     ELSE (IF m.gateup = "plain" THEN GateUp(l, m)
           ELSE <<K(l, "post_normed", "normed2", {<<"residual", "residual">>})>> \o Refusal)
          \o <<K(l, "swiglu", "act", {<<"gate", "g">>, <<"up", "u">>})>>
          \o (IF m.down = "plain" THEN <<K(l, "mlp_out", "mlp", {<<"swiglu", "act">>})>> ELSE Refusal)
          \o AddMlp(l, m, "mlp_out", "input_normed")
          \o When(m.ple, PleContribution(l, "hidden")))
    \o Output(l, "hidden", IF m.ple THEN "yp" ELSE "y")

-----------------------------------------------------------------------------
(* Mixture of experts of a chunk.  The rows are sorted by expert on the    *)
(* device; the host needs to know which experts are active.  Two are.      *)

Lists(l) == {Want("expert_lists", "lists", "f32", l, 0)}

(* Without an input scale of its own the router reads hidden, not the      *)
(* normed hidden of a decode step.                                         *)
ChunkRouter(l, m) ==
    (IF m.rscale
     THEN <<K(l, "router_input", "rin", {<<"residual", "residual">>}), K(l, "router_logits", "rl", {<<"router_input", "rin">>})>>
     ELSE <<K(l, "router_logits", "rl of hidden", {<<"residual", "residual">>})>>)
    \o <<K(l, "topk", "topk", {<<"router_logits", "rl">>}),
         K(l, "expert_counts", "counts", {<<"topk", "topk">>}), K(l, "expert_lists", "lists", {<<"topk", "topk">>}),
         OnHost("download", "counts", "counts", l, {Want("expert_counts", "counts", "f32", l, 0)})>>

OfCounts(op, p) == Given(At(op, p), "counts", "counts")

Bulk == [wgate |-> "bulk_gate", wup |-> "bulk_up", wdown |-> "bulk_down"]

(* Weights of the active experts, on the transfer stream.  Nothing makes   *)
(* the copies wait for the kernels of the layer before: the host has       *)
(* waited for them when it downloaded the counts.                          *)
StageExperts(l, p, which) ==
    <<OfCounts(Op("upload", "transfer", Bulk[which], which, "f32", l, 0, {}), p),
      Record("transfer", <<which, l, p>>)>>

Grouped(l, p, which, x, xn, out, n) ==
    <<Wait("compute", <<which, l, p>>),
      K(l, out, n, {<<Bulk[which], which>>, <<"token_offsets", "offsets">>, <<x, xn>>})>>

GroupedExperts(l, m, p) ==
    <<OfCounts(Op("put", "compute", "token_offsets", "offsets", "f32", l, 0, {}), p),
      K(l, "expert_offsets", "eoffsets", {<<"expert_counts", "counts">>}),
      Also(K(l, "permuted_input", "pin", {<<"expert_input", "ein">>, <<"expert_offsets", "eoffsets">>}), Lists(l))>>
    \o StageExperts(l, p, "wgate") \o StageExperts(l, p, "wup") \o StageExperts(l, p, "wdown")
    \o Grouped(l, p, "wgate", "permuted_input", "pin", "permuted_intermediate", "eg")
    \o Grouped(l, p, "wup", "permuted_input", "pin", "permuted_swiglu", "eu")
    \o <<K(l, "permuted_swiglu", "eact", {<<"permuted_intermediate", "eg">>, <<"permuted_swiglu", "eu">>})>>
    \o Grouped(l, p, "wdown", "permuted_swiglu", "eact", "permuted_output", "eo")
    \o <<Accumulate(l, TopK, Lists(l) \cup {Before(l, 1), Want("permuted_output", "eo", "f32", l, 0),
                                            Want("expert_offsets", "eoffsets", "f32", l, 0)})>>

(* Expert by expert, the expert being the host's choice: gather, three     *)
(* linears, add.                                                           *)
GatheredExpert(l, m, k, p) ==
    LET fmt == IF m.gateup = "native" THEN "native" ELSE "prequant"
        Linear(x, xn, out, n) == Matvec(l, k, fmt, x, xn, "quant_expert", "mxfp4_expert", out, n)
        Gather == Op("kernel", "compute", "gather_input", "gin", "f32", l, k,
                     Lists(l) \cup {Want("expert_input", "ein", "f32", l, 0)})
    IN  <<OfCounts(Gather, p)>>
        \o Linear("gather_input", "gin", "expert_gate", "eg") \o Linear("gather_input", "gin", "expert_up", "eu")
        \o <<KS(l, k, "expert_swiglu", "eact", {<<"expert_gate", "eg">>, <<"expert_up", "eu">>})>>
        \o Linear("expert_swiglu", "eact", "moe_acc", "eo")
        \o <<Accumulate(l, k, {Before(l, k), Want("moe_acc", "eo", "f32", l, k)})>>

(* The shared expert's share is in stream1, the sum in routed_acc.         *)
ChunkCombine(l, m) ==
    LET Sum == Want("routed_acc", "acc", "f32", l, TopK)
        Normed == Want("routed_acc", "rn", "f32", l, 0)
    IN  When(m.post, <<Op("kernel", "compute", "moe_acc", "rn", "f32", l, 0, {Sum}),
                       K(l, "routed_acc", "rn", {<<"moe_acc", "rn">>})>>)
        \o <<Also(K(l, "routed_acc", "sum", {<<"stream1", "sn">>}), {IF m.post THEN Normed ELSE Sum}),
             K(l, "moe_acc", "mn", {<<"routed_acc", "sum">>}),
             K(l, "hidden", "y", {<<"residual", "residual">>, <<"moe_acc", "mn">>})>>

ChunkMoe(l, m, p) ==
    <<K(l, "post_normed", "normed2", {<<"residual", "residual">>})>>
    \o (IF ~m.shared THEN Refusal ELSE SharedExpert(l, [m EXCEPT !.gateup = Unfused(@)]))
    \o <<K(l, "stream1", "sn", {<<"moe_acc", "shared">>})>>
    \o ExpertInput(l, m, "expert_input")
    \o ChunkRouter(l, m)
    \o <<Zero("routed_acc")>>
    \o (IF m.hostWeights THEN GroupedExperts(l, m, p) ELSE GatheredExpert(l, m, 1, p) \o GatheredExpert(l, m, 2, p))
    \o ChunkCombine(l, m) \o Output(l, "hidden", "y")

-----------------------------------------------------------------------------
(* A chunk of n rows that ends at position p; its last row becomes         *)
(* state.hidden, in buffer h.                                              *)

ChunkLayer(ms, l, p, n) ==
    LET m == ms[l]
    IN  (CASE m.mixer = "gdn" -> ChunkDeltaNet(l, m)
           [] m.mixer # "gdn" /\ m.gated  -> ChunkGatedAttention(l, m, p, n)
           [] m.mixer # "gdn" /\ ~m.gated -> ChunkAttention(l, m, p, n))
        \o (IF m.moe = "none" THEN ChunkDenseMlp(l, m) ELSE ChunkMoe(l, m, p))

Chunk(ms, h, p, n) ==
    OnChunk(<<Put("batch", "position", "f32", 0, p), Put("hidden", "x", "f32", 1, p)>>
            \o When(\E l \in DOMAIN ms : ms[l].ple,
                    PerLayerInputs("hidden", <<Put("ple_bf16_in", "rowbf16", "f32", 0, p)>>))
            \o FlattenSeq([l \in DOMAIN ms |-> ChunkLayer(ms, l, p, n)]), n)
    \o <<Op("kernel", "compute", h, "x", "f32", Len(ms) + 1, 0,
            {[Want("hidden", "x", "f32", Len(ms) + 1, 0) EXCEPT !.buf = OfChunk(@)]})>>
=============================================================================
