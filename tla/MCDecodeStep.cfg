\* Even numbers of layers: the prompt in chunks or one by one, then capture,
\* replay and eager steps.
CONSTANTS
    Requests <- MCRequests
    Context = 6
    GraphMax = 5
SPECIFICATION Spec
INVARIANTS
    TypeOK
    TokenOfItsStep
    HostKvComplete
    StreamsAdvance
    CaptureFailsInVram
PROPERTIES
    EveryCallReturns
CHECK_DEADLOCK FALSE
