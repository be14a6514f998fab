SPECIFICATION Spec
CONSTANT p1 = p1
CONSTANT p2 = p2
CONSTANT p3 = p3
CONSTANT Invocation = {p1}
CONSTANT File <- MCFile
CONSTANT Outputs <- One
CONSTANT Attempts = 2
CONSTANT MaxFaults = 2
CONSTANT MaxCrashes = 0
CONSTANT Overlap = FALSE
PROPERTY FailurePreservesOutputs
CHECK_DEADLOCK FALSE
