SPECIFICATION Spec
CONSTANT MaxLen = 5
INVARIANTS SpelledAsListed
CHECK_DEADLOCK FALSE
