------------------------ MODULE MCKvPageAllocator ------------------------
(***************************************************************************)
(* Sequences for the runs of KvPageAllocator.                              *)
(***************************************************************************)
EXTENDS KvPageAllocator, TLC

CONSTANTS s1, s2, s3

MCSequences == {s1, s2, s3}
MCSymmetry == Permutations(MCSequences)
=============================================================================
