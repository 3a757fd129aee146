--------------------------- MODULE DecodeProgram ---------------------------
(***************************************************************************)
(* What the host issues to the device for one token of the CUDA executor   *)
(* (cuda:executor/{forward,attention,gdn,mlp,ple,linear_ops}.rs).  Nothing *)
(* here has a state: a model is a sequence of layers, and the operators    *)
(* below give the sequence of operations the code issues for it.           *)
(*                                                                         *)
(* Numbers are abstracted to what they are.  A value names a quantity of   *)
(* the network (`name'), how it is encoded (`form'), for which layer and   *)
(* expert slot, and for which position of the sequence.  An operation      *)
(* says which buffers it reads and what it takes them to contain; it       *)
(* produces its value when that is so and junk otherwise (DecodeStep).     *)
(*                                                                         *)
(* A layer is a record:                                                    *)
(*   mixer    "attention" or "gdn"                                         *)
(*   proj     format of q, k, v: "native" (MXFP4 tensor cores), "prequant" *)
(*            (NVFP4 on a quantised input) or "plain" (BF16, FP8)          *)
(*   oproj, gateup, down    format of these, also "cutlass"; for q, k, v   *)
(*            "cutlass" concerns prefill only (PrefillProgram)             *)
(*   sameScale  the projections that share an input share its scale        *)
(*   gated, qnorm, post     output gate, q/k/v norms, sub-layer norms      *)
(*   parent   layer whose KV cache is read instead of an own one, or 0     *)
(*   hostKv   the KV cache lives in host memory                            *)
(*   moe      "none", or how the routed experts run: "gpu" (gathered, all  *)
(*            slots in a launch), "slots" (gathered, slot by slot), "cpu", *)
(*            "staged" (copied, all slots in a launch), "bulk" (copied,    *)
(*            slot by slot) or "each" (one linear at a time)               *)
(*   shared   a shared expert                                              *)
(*   rscale   the router normalises its input with a scale of its own      *)
(*   hostWeights  some linear of the layer is host-resident                *)
(*   ple      per-layer input embeddings                                   *)
(* Experts run on the CPU, or are copied, when they are host-resident.     *)
(***************************************************************************)
EXTENDS Naturals, Sequences, SequencesExt

Formats == {"native", "prequant", "plain", "cutlass"}
LayerType ==
    {m \in [mixer : {"attention", "gdn"}, proj : Formats, oproj : Formats, gateup : Formats, down : Formats,
            sameScale : BOOLEAN, gated : BOOLEAN, qnorm : BOOLEAN, post : BOOLEAN, parent : Nat,
            hostKv : BOOLEAN, moe : {"none", "gpu", "slots", "cpu", "staged", "bulk", "each"},
            shared : BOOLEAN, rscale : BOOLEAN, hostWeights : BOOLEAN, ple : BOOLEAN] :
        m.moe \in {"cpu", "staged", "bulk"} => m.hostWeights}

-----------------------------------------------------------------------------
(* Operations.                                                             *)

None == [name |-> "none", form |-> "f32", layer |-> 0, slot |-> 0, pos |-> 0]
Junk == [None EXCEPT !.name = "junk"]
Val(n, f, l, k, p) == [name |-> n, form |-> f, layer |-> l, slot |-> k, pos |-> p]

(* A buffer is a pair: scratch and 0, or the state of a layer and the      *)
(* layer.  A wanted input: buffer b contains quantity n.  `back' is 1 for  *)
(* a state that is carried over from the position before.                  *)
Want(b, n, f, l, k) ==
    [buf |-> <<b, 0>>, name |-> n, form |-> f, layer |-> l, slot |-> k, back |-> 0]

Op(kind, stream, out, n, f, l, k, in) ==
    [kind |-> kind, stream |-> stream, out |-> <<out, 0>>, name |-> n, form |-> f,
     layer |-> l, slot |-> k, in |-> in, host |-> {}, id |-> <<>>, at |-> 0]

(* A kernel of layer l: `in' is a set of <<buffer, quantity>>.             *)
K(l, out, n, in) ==
    Op("kernel", "compute", out, n, "f32", l, 0, {Want(i[1], i[2], "f32", l, 0) : i \in in})

(* The same for a slot of the router's choice.                             *)
KS(l, k, out, n, in) ==
    Op("kernel", "compute", out, n, "f32", l, k, {Want(i[1], i[2], "f32", l, k) : i \in in})

Also(op, in)  == [op EXCEPT !.in = @ \cup in]
Zero(out)     == Op("zero", "compute", out, "zero", "f32", 0, 0, {})

(* Arguments that the host fixes when it issues the operation: a position, *)
(* and what it takes a variable of its own to hold.                        *)
At(op, p)       == [op EXCEPT !.at = p]
Given(op, v, n) == [op EXCEPT !.host = {<<v, n>>}]
Position      == {Want("decode_position", "position", "f32", 0, 0)}
Length        == {Want("decode_seq_len", "length", "f32", 0, 0)}

Record(s, id) == [Op("record", s, "", "", "", 0, 0, {}) EXCEPT !.id = id]
Wait(s, id)   == [Op("wait", s, "", "", "", 0, 0, {}) EXCEPT !.id = id]
OnHost(kind, out, n, l, in) == Op(kind, "host", out, n, "f32", l, 0, in)

When(c, ops) == IF c THEN ops ELSE <<>>
TopK         == 2                  \* experts that the router chooses

-----------------------------------------------------------------------------
(* Linear layers.  x holds quantity xn; q and mx are the scratch buffers   *)
(* for its two quantised forms.                                            *)

Scale(m, first) == IF first \/ m.sameScale THEN "scaleA" ELSE "scaleB"

Quantise(l, k, x, xn, buf, f) ==
    <<Op("kernel", "compute", buf, xn, f, l, k, {Want(x, xn, "f32", l, k)})>>

(* prepare_nvfp4_input: quantise unless the scratch has the scale wanted.  *)
Prepare(l, x, xn, have, want, buf) == When(have # want, Quantise(l, 0, x, xn, buf, want))

(* matvec_nvfp4_prepared_device_reuse: mx is reused when it is valid.      *)
MatvecReuse(l, fmt, x, xn, q, f, mx, valid, out, n) ==
    IF fmt = "native"
    THEN When(~valid, Quantise(l, 0, x, xn, mx, "mxfp4"))
         \o <<Op("kernel", "compute", out, n, "f32", l, 0, {Want(mx, xn, "mxfp4", l, 0)})>>
    ELSE <<Op("kernel", "compute", out, n, "f32", l, 0, {Want(q, xn, f, l, 0)})>>

(* matvec_cuda_linear_with_scratch and matvec_nvfp4_device_with_scratch.   *)
Matvec(l, k, fmt, x, xn, q, mx, out, n) ==
    CASE fmt = "plain"    -> <<KS(l, k, out, n, {<<x, xn>>})>>
      [] fmt = "native"   -> Quantise(l, k, x, xn, mx, "mxfp4")
                             \o <<Op("kernel", "compute", out, n, "f32", l, k,
                                     {Want(mx, xn, "mxfp4", l, k)})>>
      [] fmt = "cutlass"  -> Quantise(l, k, x, xn, "cutlass_payload", "cutlass")
                             \o <<Op("kernel", "compute", out, n, "f32", l, k,
                                     {Want("cutlass_payload", xn, "cutlass", l, k)})>>
      [] fmt = "prequant" -> Quantise(l, k, x, xn, q, "scaleA")
                             \o <<Op("kernel", "compute", out, n, "f32", l, k,
                                     {Want(q, xn, "scaleA", l, k)})>>

-----------------------------------------------------------------------------
(* Attention (forward_attention_device).                                   *)

ProjectQkvNvfp4(l, m, h) ==
    LET f == Scale(m, TRUE)
        g == Scale(m, FALSE)
        x == "input_normed"
        q == "quant_hidden"
        mx == "mxfp4_hidden"
        valid == m.proj = "native"
    IN  <<K(l, x, "normed", {<<h, "x">>})>> \o Quantise(l, 0, x, "normed", q, f)
        \o (IF m.gated
            THEN MatvecReuse(l, m.proj, x, "normed", q, f, mx, FALSE, "q_full", "qg")
                 \o <<K(l, "q", "q", {<<"q_full", "qg">>}), K(l, "gate_attn", "gate", {<<"q_full", "qg">>})>>
            ELSE MatvecReuse(l, m.proj, x, "normed", q, f, mx, FALSE, "q", "q"))
        \o Prepare(l, x, "normed", f, g, q)
        \o MatvecReuse(l, m.proj, x, "normed", q, g, mx, valid, "k", "k")
        \o Prepare(l, x, "normed", g, f, q)
        \o MatvecReuse(l, m.proj, x, "normed", q, f, mx, valid, "v", "v")

ProjectQkvPlain(l, m, h) ==
    LET x == "input_normed"
    IN  <<K(l, x, "normed", {<<h, "x">>})>>
        \o (IF m.gated
            THEN <<K(l, "q_full", "qg", {<<x, "normed">>}),
                   K(l, "q", "q", {<<"q_full", "qg">>}), K(l, "gate_attn", "gate", {<<"q_full", "qg">>})>>
            ELSE <<K(l, "q", "q", {<<x, "normed">>})>>)
        \o When(m.parent = 0, <<K(l, "k", "k", {<<x, "normed">>}), K(l, "v", "v", {<<x, "normed">>})>>)

(* Norms go through qk_norm_scratch and are copied back; the rotation and  *)
(* the scale are in place.                                                 *)
NormOne(l, b, n, nn) ==
    <<K(l, "qk_norm_scratch", nn, {<<b, n>>}), K(l, b, nn, {<<"qk_norm_scratch", nn>>})>>

NormQkv(l, m) ==
    When(m.qnorm, NormOne(l, "q", "q", "qn"))
    \o When(m.qnorm /\ m.parent = 0, NormOne(l, "k", "k", "kn"))
    \o When(m.qnorm /\ m.parent = 0 /\ ~m.gated, NormOne(l, "v", "v", "vn"))

Rotate(l, m) ==
    <<Also(K(l, "q", "qr", {<<"q", IF m.qnorm THEN "qn" ELSE "q">>}), Position)>>
    \o When(m.parent = 0, <<Also(K(l, "k", "kr", {<<"k", IF m.qnorm THEN "kn" ELSE "k">>}), Position)>>)
    \o When(m.qnorm /\ ~m.gated, <<K(l, "q", "qs", {<<"q", "qr">>})>>)

QueryName(m) == IF m.qnorm /\ ~m.gated THEN "qs" ELSE "qr"
ValueName(m) == IF m.qnorm /\ ~m.gated THEN "vn" ELSE "v"

StagingSlot(l) == <<"staging", (l - 1) % 2>>
KvBuffer(l, m) ==
    IF m.hostKv THEN StagingSlot(l) ELSE <<"kv", IF m.parent = 0 THEN l ELSE m.parent>>

Store(l, m) ==
    [Also(K(l, "", "kv", {<<"k", "kr">>, <<"v", ValueName(m)>>}), Position)
        EXCEPT !.kind = "store", !.out = KvBuffer(l, m)]

(* `slot' of an attention is the layer whose rows it must find, `at' the   *)
(* length that sizes its shared memory when the host issues it.            *)
Attend(l, m, p) ==
    [Also(K(l, "attn_context", "ctx", {<<"q", QueryName(m)>>}), Length)
        EXCEPT !.kind = "attend", !.id = KvBuffer(l, m), !.slot = IF m.parent = 0 THEN l ELSE m.parent,
               !.at = p + 1]

Attention(l, m, h, p) ==
    (IF m.proj = "plain" THEN ProjectQkvPlain(l, m, h) ELSE ProjectQkvNvfp4(l, m, h))
    \o NormQkv(l, m) \o Rotate(l, m)
    \o When(m.parent = 0 \/ m.hostKv, <<Store(l, m)>>)
    \o <<Attend(l, m, p)>>
    \o When(m.gated, <<K(l, "attn_context", "gctx", {<<"attn_context", "ctx">>, <<"gate_attn", "gate">>})>>)
    \o Matvec(l, 0, m.oproj, "attn_context", IF m.gated THEN "gctx" ELSE "ctx",
              "quant_hidden", "mxfp4_hidden", "attn_out", "o")
    \o (IF m.post
        THEN <<K(l, "post_normed", "on", {<<"attn_out", "o">>}),
               K(l, "residual", "residual", {<<h, "x">>, <<"post_normed", "on">>})>>
        ELSE <<K(l, "residual", "residual", {<<h, "x">>, <<"attn_out", "o">>})>>)

-----------------------------------------------------------------------------
(* Gated delta net (forward_gdn_mixer_decode): the convolution and the     *)
(* recurrent state are updated in place, from the position before.         *)

Carried(l, b) == {[Want(b, b, "f32", l, 0) EXCEPT !.buf = <<b, l>>, !.back = 1]}

(* One kernel that reads and writes a state: the output first, then the    *)
(* state, which reads the same inputs.                                     *)
StepState(l, b, out, nn, in) ==
    <<Also(K(l, out, nn, in), Carried(l, b)),
      [Also(K(l, b, b, in), Carried(l, b)) EXCEPT !.out = <<b, l>>]>>

GatedDeltaNet(l, m, h) ==
    LET Proj(out, n) == Matvec(l, 0, m.proj, "gdn_normed", "normed", "quant_hidden", "mxfp4_hidden", out, n)
    IN  <<K(l, "gdn_normed", "normed", {<<h, "x">>})>>
        \o Proj("gdn_qkv", "qkv") \o Proj("gdn_z", "z") \o Proj("gdn_b", "b") \o Proj("gdn_a", "a")
        \o StepState(l, "conv_state", "gdn_qkv_conv", "qkvc", {<<"gdn_qkv", "qkv">>})
        \o <<K(l, "gdn_q_n", "q", {<<"gdn_qkv_conv", "qkvc">>}),
             K(l, "gdn_k_n", "k", {<<"gdn_qkv_conv", "qkvc">>}),
             K(l, "gdn_v", "v", {<<"gdn_qkv_conv", "qkvc">>}),
             K(l, "gdn_gates", "gates", {<<"gdn_b", "b">>, <<"gdn_a", "a">>})>>
        \o StepState(l, "recurrent", "gdn_o", "o",
                     {<<"gdn_q_n", "q">>, <<"gdn_k_n", "k">>, <<"gdn_v", "v">>, <<"gdn_gates", "gates">>})
        \o <<K(l, "gdn_o_norm", "on", {<<"gdn_o", "o">>, <<"gdn_z", "z">>})>>
        \o Matvec(l, 0, m.proj, "gdn_o_norm", "on", "quant_hidden", "mxfp4_hidden", "gdn_mixer_out", "mixed")
        \o <<K(l, "residual", "residual", {<<h, "x">>, <<"gdn_mixer_out", "mixed">>})>>

-----------------------------------------------------------------------------
(* Dense MLP (forward_mlp_device, forward_dense_mlp_non_nvfp4_device).     *)

GateUp(l, m) ==
    LET x == "post_normed"
        q == "quant_hidden"
        mx == "mxfp4_hidden"
        f == Scale(m, TRUE)
        g == Scale(m, FALSE)
        norm == <<K(l, x, "normed2", {<<"residual", "residual">>})>>
        Reuse(fmt, s, valid, out, n) == MatvecReuse(l, fmt, x, "normed2", q, s, mx, valid, out, n)
    IN  CASE m.gateup = "native"  -> norm \o Reuse("native", f, FALSE, "gate", "g") \o Reuse("native", g, TRUE, "up", "u")
          [] m.gateup = "cutlass" ->
                LET From(out, n) == Op("kernel", "compute", out, n, "f32", l, 0,
                                       {Want("cutlass_payload", "normed2", "cutlass", l, 0)})
                IN  norm \o Quantise(l, 0, x, "normed2", "cutlass_payload", "cutlass")
                    \o <<From("gate", "g"), From("up", "u")>>
          [] m.gateup = "prequant" ->
                norm \o Quantise(l, 0, x, "normed2", q, f) \o Reuse("prequant", f, FALSE, "gate", "g")
                \o Prepare(l, x, "normed2", f, g, q) \o Reuse("prequant", g, FALSE, "up", "u")
          [] m.gateup = "plain" ->
                norm \o <<K(l, "gate", "g", {<<x, "normed2">>}), K(l, "up", "u", {<<x, "normed2">>})>>

Down(l, m) ==
    IF m.down = "cutlass"      \* the activation is fused with its quantisation
    THEN <<Op("kernel", "compute", "cutlass_payload", "act", "cutlass", l, 0,
              {Want("gate", "g", "f32", l, 0), Want("up", "u", "f32", l, 0)}),
           Op("kernel", "compute", "mlp_out", "mlp", "f32", l, 0,
              {Want("cutlass_payload", "act", "cutlass", l, 0)})>>
    ELSE <<K(l, "swiglu", "act", {<<"gate", "g">>, <<"up", "u">>})>>
         \o Matvec(l, 0, m.down, "swiglu", "act", "quant_intermediate", "mxfp4_intermediate", "mlp_out", "mlp")

(* Per-layer inputs (cuda:executor/ple.rs).  One BF16 buffer is used for    *)
(* the row of the table, for hidden, and for the input of each projection. *)
PerLayerInputs(h, upload) ==
    upload \o
    <<K(0, "per_layer_inputs", "row", {<<"ple_bf16_in", "rowbf16">>}),
      Op("kernel", "compute", "ple_bf16_in", "x", "bf16", 1, 0, {Want(h, "x", "f32", 1, 0)}),
      Op("kernel", "compute", "ple_projection", "proj", "f32", 0, 0, {Want("ple_bf16_in", "x", "bf16", 1, 0)}),
      K(0, "ple_projection_normed", "projn", {<<"ple_projection", "proj">>}),
      K(0, "per_layer_inputs", "inputs", {<<"per_layer_inputs", "row">>, <<"ple_projection_normed", "projn">>})>>

PleContribution(l, o) ==
    LET Bf16(b, n) == Op("kernel", "compute", "ple_bf16_in", n, "bf16", l, 0, {Want(b, n, "f32", l, 0)})
        Product(out, nn, n) == Op("kernel", "compute", out, nn, "f32", l, 0, {Want("ple_bf16_in", n, "bf16", l, 0)})
    IN  <<Bf16(o, "y"), Product("ple_gate", "pg", "y"),
          Also(K(l, "ple_gate", "pgi", {<<"ple_gate", "pg">>}), {Want("per_layer_inputs", "inputs", "f32", 0, 0)}),
          Bf16("ple_gate", "pgi"), Product("ple_contrib", "pc", "pgi"),
          K(l, "ple_contrib_normed", "pcn", {<<"ple_contrib", "pc">>}),
          K(l, o, "yp", {<<o, "y">>, <<"ple_contrib_normed", "pcn">>})>>

(* The output of layer l is the input `x' of layer l + 1.                  *)
Output(l, o, n) == <<Op("kernel", "compute", o, "x", "f32", l + 1, 0, {Want(o, n, "f32", l, 0)})>>

DenseMlp(l, m, o) ==
    GateUp(l, m) \o Down(l, m)
    \o (IF m.post
        THEN <<K(l, "post_normed", "mlpn", {<<"mlp_out", "mlp">>}),
               K(l, o, "y", {<<"residual", "residual">>, <<"post_normed", "mlpn">>})>>
        ELSE <<K(l, o, "y", {<<"residual", "residual">>, <<"mlp_out", "mlp">>})>>)
    \o When(m.ple, PleContribution(l, o))
    \o Output(l, o, IF m.ple THEN "yp" ELSE "y")

-----------------------------------------------------------------------------
(* Mixture of experts (forward_moe_decode_device).                         *)

GpuDriven(m) == m.moe \in {"gpu", "slots"}
ByCopy(m)    == m.moe \in {"staged", "bulk"}

Router(l, m, p) ==
    <<K(l, "post_normed", "normed2", {<<"residual", "residual">>})>>
    \o (IF m.rscale
        THEN <<K(l, "router_input", "rin", {<<"residual", "residual">>}),
               K(l, "router_logits", "rl", {<<"router_input", "rin">>})>>
        ELSE <<K(l, "router_logits", "rl", {<<"post_normed", "normed2">>})>>)
    \o <<K(l, "packed_topk_device", "topk", {<<"router_logits", "rl">>})>>

(* The host needs the choice: over the transfer stream into pinned memory. *)
ReadBack(l, p) ==
    <<Record("compute", <<"topk_ready", l, p>>), Wait("transfer", <<"topk_ready", l, p>>),
      [Op("kernel", "transfer", "packed_topk_pinned", "topk", "f32", l, 0,
          {Want("packed_topk_device", "topk", "f32", l, 0)}) EXCEPT !.id = <<"pinned", l, p>>]>>

(* hidden_out holds the input of the experts until it gets the result.     *)
ExpertInput(l, m, o) ==
    <<K(l, o, "ein", IF m.post THEN {<<"residual", "residual">>} ELSE {<<"post_normed", "normed2">>})>>

SharedExpert(l, m) ==
    LET Linear(x, xn, out, n) == Matvec(l, 0, m.gateup, x, xn, "quant_expert", "mxfp4_expert", out, n)
    IN  IF m.shared
        THEN Linear("post_normed", "normed2", "expert_gate", "sg")
             \o Linear("post_normed", "normed2", "expert_up", "su")
             \o <<K(l, "expert_swiglu", "sact", {<<"expert_gate", "sg">>, <<"expert_up", "su">>})>>
             \o Linear("expert_swiglu", "sact", "moe_acc", "sdown")
             \o <<K(l, "shared_gate_logit", "slog", {<<"post_normed", "normed2">>}),
                  K(l, "moe_acc", "shared", {<<"moe_acc", "sdown">>, <<"shared_gate_logit", "slog">>})>>
        ELSE <<Zero("moe_acc")>>

(* The norm of zero is zero.                                               *)
SharedNorm(l, m) ==
    IF m.shared THEN <<K(l, "post_normed", "sn", {<<"moe_acc", "shared">>})>>
    ELSE <<[Zero("post_normed") EXCEPT !.in = {Want("moe_acc", "zero", "f32", l, 0)}]>>

(* routed_acc after k of the chosen experts.                               *)
Before(l, k) == IF k = 1 THEN Want("routed_acc", "zero", "f32", l, 0)
                         ELSE Want("routed_acc", "acc", "f32", l, k - 1)
Accumulate(l, k, in) == Op("kernel", "compute", "routed_acc", "acc", "f32", l, k, in)

(* All slots in a launch: one quantised buffer serves three times.         *)
Weights(l) == {Want("bulk_expert", "experts", "f32", l, 0)}
AllSlots(l, o) ==
    LET Quant(x, n, f) == Quantise(l, 0, x, n, "quant_b", f)
        Product(out, nn, n, f) ==
            <<Op("kernel", "compute", out, nn, "f32", l, 0, Weights(l) \cup {Want("quant_b", n, f, l, 0)})>>
    IN  Quant(o, "ein", "gate") \o Product("expert_gate_b", "eg", "ein", "gate")
        \o Quant(o, "ein", "up") \o Product("expert_up_b", "eu", "ein", "up")
        \o <<K(l, "expert_swiglu_b", "eact", {<<"expert_gate_b", "eg">>, <<"expert_up_b", "eu">>})>>
        \o Quant("expert_swiglu_b", "eact", "down") \o Product("expert_out_b", "eo", "eact", "down")
        \o <<Accumulate(l, TopK, {Before(l, 1), Want("expert_out_b", "eo", "f32", l, 0),
                                  Want("packed_topk_device", "topk", "f32", l, 0)})>>

(* Slot by slot, from the copied or gathered weights; the weight of the    *)
(* expert comes from the device (last) or from the host.                   *)
Slot(l, k, o, w, last) ==
    LET Quant(x, n, sl, f) == <<Op("kernel", "compute", "quant_expert", n, f, l, k, {Want(x, n, "f32", l, sl)})>>
        Product(out, nn, n, f) ==
            <<Op("kernel", "compute", out, nn, "f32", l, k, w \cup {Want("quant_expert", n, f, l, k)})>>
    IN  Quant(o, "ein", 0, "gate") \o Product("expert_gate", "eg", "ein", "gate")
        \o Quant(o, "ein", 0, "up") \o Product("expert_up", "eu", "ein", "up")
        \o <<KS(l, k, "expert_swiglu", "eact", {<<"expert_gate", "eg">>, <<"expert_up", "eu">>})>>
        \o Quant("expert_swiglu", "eact", k, "down") \o Product("expert_out", "eo", "eact", "down")
        \o <<Accumulate(l, k, {Before(l, k), Want("expert_out", "eo", "f32", l, k)} \cup last)>>

(* The copies wait for the kernels of the last layer that used the buffer, *)
(* `primed' is that event or <<>>; the kernels wait for the copies.        *)
Copied(l, p, primed, kernels) ==
    When(primed # <<>>, <<Wait("transfer", primed)>>)
    \o <<Given(At(Op("upload", "transfer", "bulk_expert", "experts", "f32", l, 0, {}), p), "topk", "topk"),
         Record("transfer", <<"bulk", l, p>>), Wait("compute", <<"bulk", l, p>>)>>
    \o kernels \o <<Record("compute", <<"bulk_done", l, p>>)>>

(* One linear at a time, the expert being the host's choice.  Host-resident*)
(* experts with equal scales share one quantised input.                    *)
OneByOne(l, m, k, o, p) ==
    LET once == m.hostWeights /\ m.sameScale
        Choice(ops) == [i \in DOMAIN ops |-> At(Given(ops[i], "topk", "topk"), p)]
        Quant(x, n, sl, f) == <<Op("kernel", "compute", "quant_expert", n, f, l, k, {Want(x, n, "f32", l, sl)})>>
        Product(out, nn, in) == <<Op("kernel", "compute", out, nn, "f32", l, k, {in})>>
        Input(f) == IF once THEN Want("quant_gate_up", "ein", "shared", l, 0) ELSE Want("quant_expert", "ein", f, l, k)
    IN  Choice(When(~once, Quant(o, "ein", 0, "gate")) \o Product("expert_gate", "eg", Input("gate"))
               \o When(~once, Quant(o, "ein", 0, "up")) \o Product("expert_up", "eu", Input("up"))
               \o <<KS(l, k, "expert_swiglu", "eact", {<<"expert_gate", "eg">>, <<"expert_up", "eu">>})>>
               \o Quant("expert_swiglu", "eact", k, "down")
               \o Product("expert_out", "eo", Want("quant_expert", "eact", "down", l, k))
               \o <<Accumulate(l, k, {Before(l, k), Want("expert_out", "eo", "f32", l, k)})>>)

Routed(l, m, o, p, primed) ==
    LET FromDevice == {Want("packed_topk_device", "topk", "f32", l, 0)}
        OfHost(ops) == [i \in DOMAIN ops |-> At(Given(ops[i], "topk", "topk"), p)]
        Slots(last) == Slot(l, 1, o, Weights(l), last) \o Slot(l, 2, o, Weights(l), last)
        Gather == <<K(l, "bulk_expert", "experts", {<<"packed_topk_device", "topk">>})>>
    IN  CASE m.moe = "gpu"    -> Gather \o AllSlots(l, o)
          [] m.moe = "slots"  -> Gather \o Slots(FromDevice)
          [] m.moe = "staged" -> Copied(l, p, primed, AllSlots(l, o))
          [] m.moe = "bulk"   -> Copied(l, p, primed, OfHost(Slots({})))
          [] m.moe = "each"   ->
                When(m.hostWeights /\ m.sameScale, Quantise(l, 0, o, "ein", "quant_gate_up", "shared"))
                \o OneByOne(l, m, 1, o, p) \o OneByOne(l, m, 2, o, p)
          [] m.moe = "cpu"    ->
                <<OnHost("experts", "acc", "acc", l, {}),
                  Given(At(Op("upload", "compute", "routed_acc", "acc", "f32", l, TopK, {}), p), "acc", "acc")>>

Combine(l, m, o) ==
    <<Op("kernel", "compute", "expert_out", "rn", "f32", l, 0, {Want("routed_acc", "acc", "f32", l, TopK)}),
      K(l, "moe_acc", "sum", {<<"post_normed", IF m.shared THEN "sn" ELSE "zero">>, <<"expert_out", "rn">>}),
      K(l, o, "mn", {<<"moe_acc", "sum">>}),
      K(l, o, "y", {<<o, "mn">>, <<"residual", "residual">>})>>

MoeMlp(l, m, o, p, primed) ==
    Router(l, m, p)
    \o When(~GpuDriven(m), ReadBack(l, p))
    \o ExpertInput(l, m, o)
    \o When(m.moe = "cpu", <<OnHost("download", "input", "ein", l, {Want(o, "ein", "f32", l, 0)})>>)
    \o SharedExpert(l, m) \o SharedNorm(l, m)
    \o When(~GpuDriven(m), <<[OnHost("read", "topk", "topk", l, {Want("packed_topk_pinned", "topk", "f32", l, 0)})
                                EXCEPT !.id = <<"pinned", l, p>>]>>)
    \o <<Zero("routed_acc")>>
    \o Routed(l, m, o, p, primed) \o Combine(l, m, o) \o Output(l, o, "y")

-----------------------------------------------------------------------------
(* All layers (forward_layers_device).                                     *)

(* Host-resident KV rows 0 .. p - 1 of layer l into its staging slot, and  *)
(* row p of the slot back.                                                 *)
Move(kind, l, p, from, to) ==
    [At(Op(kind, "transfer", "", "", "", l, 0, {}), p) EXCEPT !.id = from, !.out = to]

(* Mutant: the event is recorded only when there was something to copy.    *)
PrefetchQuietly(ms, l, p) ==
    When(l <= Len(ms) /\ ms[l].hostKv /\ p > 0,
         <<Move("load", l, p, <<"host", l>>, StagingSlot(l)), Record("transfer", <<"h2d", l, p>>)>>)

Prefetch(ms, l, p) ==
    When(l <= Len(ms) /\ ms[l].hostKv,
         When(p > 0, <<Move("load", l, p, <<"host", l>>, StagingSlot(l))>>)
         \o <<Record("transfer", <<"h2d", l, p>>)>>)

(* Mutant: the layer does not wait for its KV rows.                        *)
AwaitNothing(m, l, p) == <<>>

AwaitStaged(m, l, p) == When(m.hostKv, <<Wait("compute", <<"h2d", l, p>>)>>)

WriteBack(m, l, p) ==
    When(m.hostKv,
         <<Record("compute", <<"layer_done", l, p>>), Wait("transfer", <<"layer_done", l, p>>),
           Move("save", l, p, StagingSlot(l), <<"host", l>>)>>)

(* Mutant: the copies wait for the kernels of their own layer.             *)
LastCopyOrThis(ms, l, p, first) == IF ByCopy(ms[l]) THEN <<"bulk_done", l, p>> ELSE <<>>

(* The event of the kernels that used the copied experts last, <<>> before *)
(* the first time.  Positions before `first' were not run one by one.      *)
LastCopy(ms, l, p, first) ==
    LET before == {x \in (1 .. Len(ms)) \X {p, p - 1} :
                      ByCopy(ms[x[1]]) /\ x[2] >= first /\ (x[2] = p => x[1] < l)}
        latest == {x \in before : \A y \in before : x[2] > y[2] \/ (x[2] = y[2] /\ x[1] >= y[1])}
    IN  IF latest = {} THEN <<>> ELSE LET x == CHOOSE x \in latest : TRUE IN <<"bulk_done", x[1], x[2]>>

(* Layers read one buffer and write the other; the two then change names.  *)
Other(h) == IF h = "bufA" THEN "bufB" ELSE "bufA"
(* Mutant: the buffers do not change names.                                *)
HiddenNotSwapped(h, l) == h

HiddenOf(h, l) == IF l % 2 = 1 THEN h ELSE Other(h)
Layer(ms, l, h, p, first) ==
    LET m == ms[l]
        x == HiddenOf(h, l)
        o == Other(x)
    IN  Prefetch(ms, l + 1, p) \o AwaitStaged(m, l, p)
        \o (IF m.mixer = "gdn" THEN GatedDeltaNet(l, m, x) ELSE Attention(l, m, x, p))
        \o (IF m.moe = "none" THEN DenseMlp(l, m, o) ELSE MoeMlp(l, m, o, p, LastCopy(ms, l, p, first)))
        \o WriteBack(m, l, p)

Layers(ms, h, p, first) ==
    Prefetch(ms, 1, p) \o FlattenSeq([l \in 1 .. Len(ms) |-> Layer(ms, l, h, p, first)])

(* Where state.hidden points after the layers.                             *)
HiddenAfter(ms, h) == HiddenOf(h, Len(ms) + 1)

-----------------------------------------------------------------------------
(* Before and after the layers.                                            *)

Put(out, n, f, l, p) == At(Op("put", "compute", out, n, f, l, 0, {}), p)

Prologue(ms, h, p) ==
    <<Put(h, "x", "f32", 1, p)>>
    \o When(\E l \in DOMAIN ms : ms[l].ple,
            PerLayerInputs(h, <<Put("ple_bf16_in", "rowbf16", "f32", 0, p)>>))
    \o <<Put("decode_position", "position", "f32", 0, p), Put("decode_seq_len", "length", "f32", 0, p)>>

FinalLogits(ms, h) ==
    <<K(Len(ms) + 1, "final_hidden", "fh", {<<h, "x">>}),
      K(Len(ms) + 1, "logits", "logits", {<<"final_hidden", "fh">>})>>
Argmax(ms) == <<K(Len(ms) + 1, "sampled_token", "token", {<<"logits", "logits">>})>>
Sampler(ms) == <<K(Len(ms) + 1, "sampled_token", "sampled", {<<"logits", "logits">>})>>
=============================================================================
