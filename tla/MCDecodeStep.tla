---------------------------- MODULE MCDecodeStep ----------------------------
(* Two-layer models that between them use every branch of DecodeProgram.   *)
EXTENDS DecodeStep

Base == [mixer |-> "attention", proj |-> "prequant", oproj |-> "prequant", gateup |-> "prequant",
         down |-> "prequant", sameScale |-> TRUE, gated |-> FALSE, qnorm |-> FALSE, post |-> FALSE,
         parent |-> 0, hostKv |-> FALSE, moe |-> "none", shared |-> FALSE, hostWeights |-> FALSE,
         rscale |-> FALSE, ple |-> FALSE]

Plain   == [Base EXCEPT !.proj = "plain", !.oproj = "plain", !.gateup = "plain", !.down = "plain"]
Native  == [Base EXCEPT !.proj = "native", !.oproj = "native", !.gateup = "native", !.down = "native"]
Cutlass == [Base EXCEPT !.oproj = "cutlass", !.gateup = "cutlass", !.down = "cutlass"]
Gemma   == [Plain EXCEPT !.qnorm = TRUE, !.post = TRUE, !.ple = TRUE]
Qwen    == [Base EXCEPT !.sameScale = FALSE, !.gated = TRUE, !.qnorm = TRUE]
Gdn     == [Plain EXCEPT !.mixer = "gdn", !.proj = "prequant"]
OnRam   == [Base EXCEPT !.hostKv = TRUE]
Moe(how, ram) == [Base EXCEPT !.moe = how, !.hostWeights = ram, !.shared = TRUE]

Scaled(m) == [m EXCEPT !.rscale = TRUE]

MCModels ==
    { <<Base, Cutlass>>,
      <<[Base EXCEPT !.sameScale = FALSE], Native>>,
      <<Gemma, [Gemma EXCEPT !.parent = 1]>>,
      <<Qwen, [Gdn EXCEPT !.down = "native"]>>,
      <<Gdn, [Plain EXCEPT !.gated = TRUE, !.qnorm = TRUE]>>,
      <<OnRam, OnRam>>,
      <<OnRam, Plain, [OnRam EXCEPT !.hostWeights = TRUE], OnRam>>,
      <<Moe("gpu", TRUE), Moe("slots", FALSE)>>,
      <<Moe("cpu", TRUE), [Moe("cpu", TRUE) EXCEPT !.hostKv = TRUE, !.shared = FALSE, !.post = TRUE]>>,
      <<Moe("staged", TRUE), Moe("bulk", TRUE)>>,
      <<[Moe("staged", TRUE) EXCEPT !.hostKv = TRUE], Base>>,
      <<Moe("each", TRUE), [Moe("each", TRUE) EXCEPT !.sameScale = FALSE]>>,
      <<Moe("each", FALSE), Moe("each", FALSE)>> }

(* Models whose prompts run in chunks.                                     *)
MCPrefillModels ==
    { <<[Base EXCEPT !.sameScale = FALSE], Native>>,
      <<[Cutlass EXCEPT !.proj = "cutlass"], [Base EXCEPT !.post = TRUE]>>,
      <<Gemma, [Gemma EXCEPT !.parent = 1]>>,
      <<Qwen, [Gdn EXCEPT !.proj = "plain"]>>,
      <<[Gdn EXCEPT !.proj = "plain"], [Plain EXCEPT !.gated = TRUE, !.qnorm = TRUE]>>,
      <<OnRam, Plain, [OnRam EXCEPT !.hostWeights = TRUE], OnRam>>,
      <<Scaled(Moe("gpu", TRUE)), Scaled(Moe("slots", FALSE))>>,
      <<Scaled([Moe("staged", TRUE) EXCEPT !.post = TRUE]), Scaled(Moe("bulk", TRUE))>>,
      <<Scaled([Moe("gpu", FALSE) EXCEPT !.gateup = "native"]), Scaled([Moe("slots", FALSE) EXCEPT !.post = TRUE])>> }

(* Models that chunks are refused for.                                     *)
MCRefused ==
    { <<Gdn, Gdn>>, <<OnRam, [OnRam EXCEPT !.parent = 1]>>,
      <<Moe("gpu", TRUE), [Moe("gpu", TRUE) EXCEPT !.shared = FALSE]>>,
      <<[Base EXCEPT !.gateup = "plain"], Base>>, <<[Base EXCEPT !.down = "plain"], Base>> }

Asked(models, samplers, length, size) ==
    { [model |-> m, sampler |-> s, prompt |-> length, chunk |-> size] : m \in models, s \in samplers }

MCRequests ==
    Asked(MCModels, {"greedy"}, 2, 1)
    \cup Asked({<<Base, Cutlass>>, <<OnRam, OnRam>>, <<Moe("gpu", TRUE), Moe("slots", FALSE)>>}, {"gpu", "host"}, 2, 1)
    \cup Asked({<<Base, Cutlass>>, <<OnRam, OnRam>>}, {"gpu"}, 1, 2)
    \cup Asked(MCPrefillModels, {"greedy"}, 3, 2)
    \cup Asked({<<Base, Native>>}, {"gpu", "host"}, 3, 2)
    \cup Asked(MCRefused, {"greedy"}, 3, 2)

(* An odd number of layers.                                                *)
MCOdd == Asked({<<Base, Base, Base>>}, {"greedy"}, 2, 1)

(* Experts in VRAM that are not driven by the device.                      *)
MCVram == Asked({<<Moe("each", FALSE), Moe("each", FALSE)>>}, {"greedy"}, 2, 1)
=============================================================================
