SPECIFICATION Spec
CONSTANT p1 = p1
CONSTANT p2 = p2
CONSTANT p3 = p3
CONSTANT Invocation = {p1, p2, p3}
CONSTANT File <- MCFile
CONSTANT Outputs <- Sequential
CONSTANT Attempts = 2
CONSTANT MaxFaults = 2
CONSTANT MaxCrashes = 1
CONSTANT Overlap = FALSE
INVARIANT TypeOK
INVARIANT NoPartialOutput
INVARIANT OriginalKept
INVARIANT IInv
PROPERTY FailureIsUndone
PROPERTY SuccessWritesAll
PROPERTY LeavesNothingBehind
CHECK_DEADLOCK FALSE
