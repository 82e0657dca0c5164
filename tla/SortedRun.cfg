CONSTANT MaxKey = 4
SPECIFICATION Spec
INVARIANT TypeOK
INVARIANT IndexOfSSTWithKeyCorrect
INVARIANT IteratorYieldsSuffix
PROPERTY IteratorTerminates
CHECK_DEADLOCK FALSE
