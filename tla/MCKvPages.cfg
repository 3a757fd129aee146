\* Three sequences of one page, of two full ones or of three, on four pages:
\* evictions that suffice and evictions that do not are common.
CONSTANTS
    s1 = s1
    s2 = s2
    s3 = s3
    SequenceIds <- MCSequences
    NumPages = 4
    PageTokens = 2
    Tokens = {0, 4, 5}
    MaxClock = 6
SPECIFICATION Spec
SYMMETRY MCSymmetry
INVARIANTS
    TypeOK
    PagesConserved
    SlotsIsolated
PROPERTIES
    ImplementsLru
