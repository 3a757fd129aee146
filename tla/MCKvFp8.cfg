\* A sliding-window layer with FP8 storage: decode after a prompt longer than the window.
CONSTANTS
    Window = 4
    Context = 8
    Fp8 = TRUE
    MaxPrompt = 6
    MaxChunk = 2
    MaxSpec = 0
    Requests <- MCRequests
SPECIFICATION Spec
INVARIANTS
    DecodeAttendsWindow
