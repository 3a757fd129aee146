\* Experts in VRAM, router read back by the host inside a capture.
CONSTANTS
    Requests <- MCVram
    Context = 5
    GraphMax = 3
SPECIFICATION Spec
INVARIANTS
    CaptureNeverFails
CHECK_DEADLOCK FALSE
