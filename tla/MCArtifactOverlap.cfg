SPECIFICATION Spec
CONSTANT p1 = p1
CONSTANT p2 = p2
CONSTANT p3 = p3
CONSTANT Invocation = {p1, p2}
CONSTANT File <- MCFile
CONSTANT Outputs <- Concurrent
CONSTANT Attempts = 2
CONSTANT MaxFaults = 1
CONSTANT MaxCrashes = 1
CONSTANT Overlap = TRUE
INVARIANT NoPartialOutput
INVARIANT SharedOutputsWhole
CHECK_DEADLOCK FALSE
