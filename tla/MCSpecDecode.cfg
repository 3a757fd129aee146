\* Both loops, up to two proposals a round; a round that starts two positions before the end of the context fails.
CONSTANTS
    a = a
    b = b
    eos = eos
    stop = stop
    Token <- MCToken
    EosTokens <- MCEos
    StopTokens <- MCStop
    MaxTokens = 4
    NumDraft = 2
    Room = 4
SPECIFICATION FairSpec
INVARIANTS
    TypeOK
    CommittedKv
    RecurrentAtPosition
    GreedyOutput
    BoundedOvershoot
PROPERTIES
    ImplementsBaseline
    Terminates
