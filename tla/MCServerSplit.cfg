\* Answers of three tokens, one of which may be half a character.
CONSTANT Setups <- SplitSetups
SPECIFICATION Spec
INVARIANT StreamedWhole
CHECK_DEADLOCK FALSE
