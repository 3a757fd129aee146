\* An odd number of layers: the captured step leaves the hidden buffers swapped.
CONSTANTS
    Requests <- MCOdd
    Context = 5
    GraphMax = 3
SPECIFICATION Spec
INVARIANTS
    TokenOfItsStep
CHECK_DEADLOCK FALSE
