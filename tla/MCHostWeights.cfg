\* Three workers and seven calls of reserve on an arena of seven units:
\* reservations fail while others are between their two steps.  Then four
\* matvecs on two slots: every slot is reused.
CONSTANTS
    w1 = w1
    w2 = w2
    w3 = w3
    Loaders <- MCLoaders
    Sizes = {2, 3, 8}
    Capacity = 7
    Projections = 7
    SlotCount = 2
    PageSize = 4
    MaxCalls = 4
    Linears <- MCLinears
SPECIFICATION HostSpec
SYMMETRY MCSymmetry
INVARIANTS
    ArenaTypeOK
    ClaimsDisjoint
    PinCoversClaims
    TypeOK
    KernelReadsItsWeights
    FencesAreOld
