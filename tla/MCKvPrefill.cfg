\* A sliding-window layer and a prompt longer than the window, in chunks.
CONSTANTS
    Window = 4
    Context = 8
    Fp8 = FALSE
    MaxPrompt = 6
    MaxChunk = 2
    MaxSpec = 0
    Requests <- MCRequests
SPECIFICATION Spec
INVARIANTS
    PrefillAttendsWindow
