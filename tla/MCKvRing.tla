------------------------------ MODULE MCKvRing ------------------------------
(***************************************************************************)
(* Requests for the runs of KvRing.                                        *)
(***************************************************************************)
EXTENDS KvRing

CONSTANTS MaxPrompt,   \* longest prompt
          MaxChunk,    \* largest prefill chunk
          MaxSpec      \* largest verify batch

MCRequests ==
    [prompt : 1 .. MaxPrompt, chunk : 1 .. MaxChunk, spec : 0 .. MaxSpec,
     last : {Capacity, Context, Context + 1}]

(* The requests the layer serves correctly.                                *)
MCFittingRequests == { r \in MCRequests : Fits(r) }
=============================================================================
