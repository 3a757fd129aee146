---------------------------- MODULE MCSpecDecode ----------------------------
(***************************************************************************)
(* Instances of SpecDecode for TLC: two ordinary tokens, one EOS, one stop *)
(* token.                                                                  *)
(***************************************************************************)
EXTENDS SpecDecode

CONSTANTS a, b, eos, stop

MCToken == {a, b, eos, stop}
MCEos == {eos}
MCStop == {stop}
=============================================================================
