\* A sliding-window layer: prompts within the window or prefilled token by token, verify batches within the window; decode wraps the ring up to three times.
CONSTANTS
    Window = 4
    Context = 13
    Fp8 = TRUE
    MaxPrompt = 9
    MaxChunk = 4
    MaxSpec = 2
    Requests <- MCFittingRequests
SPECIFICATION Spec
INVARIANTS
    TypeOK
    AttendsItsWindow
    HoldsLastPositions
