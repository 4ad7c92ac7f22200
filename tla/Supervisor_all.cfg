SPECIFICATION Spec
CONSTANT MaxSeq = 3
CHECK_DEADLOCK FALSE
INVARIANTS TypeOK InOrder GroupKilled OneCommand
PROPERTIES Answered
