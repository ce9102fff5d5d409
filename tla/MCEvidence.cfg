CONSTANT None = None
SPECIFICATION Spec
INVARIANT ContradictionBlocks
CHECK_DEADLOCK FALSE
