--------------------------- MODULE MCHostWeights ---------------------------
(***************************************************************************)
(* Host weights for TLC: a load fills and pins the arena, then matvecs     *)
(* stream their weights from it through the staging pool.  The two share   *)
(* no variable, so that one load stands for all in front of the pool:      *)
(* three projections that fill the arena.                                  *)
(***************************************************************************)
EXTENDS StagingPool, PinnedArena, TLC

CONSTANTS w1, w2, w3

MCLoaders == {w1, w2, w3}
MCSymmetry == Permutations(MCLoaders)

(* The arena linears of the NVFP4 and native MXFP4 loaders, a MatFormer    *)
(* slice of whole pages in a buffer of its own, and one that is refused:   *)
(* OwnedPinnedBuf::len is the page-rounded length.                         *)
MCLinears == { [bytes |-> 8, variant |-> "arena", native |-> FALSE],
               [bytes |-> 8, variant |-> "arena", native |-> TRUE],
               [bytes |-> 8, variant |-> "pinned", native |-> FALSE],
               [bytes |-> 6, variant |-> "pinned", native |-> FALSE] }

Loaded == /\ pinned # Unpinned
          /\ claims = { [start |-> 0, size |-> 2], [start |-> 2, size |-> 2],
                        [start |-> 4, size |-> 3] }

Load  == ArenaNext /\ UNCHANGED vars
Serve == Loaded /\ Next /\ UNCHANGED arenaVars

(* Any other load ends here, failed or pinned.                             *)
LoadOver == /\ ~Loaded
            /\ Quiet
            /\ pinned # Unpinned \/ failed \/ started = Projections
            /\ UNCHANGED <<vars, arenaVars>>

HostInit == Init /\ ArenaInit
HostNext == Load \/ Serve \/ LoadOver
HostSpec == HostInit /\ [][HostNext]_<<vars, arenaVars>>
=============================================================================
