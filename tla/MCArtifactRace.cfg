SPECIFICATION Spec
CONSTANT p1 = p1
CONSTANT p2 = p2
CONSTANT p3 = p3
CONSTANT Invocation = {p1, p2, p3}
CONSTANT File <- OneFile
CONSTANT Outputs <- Race
CONSTANT Attempts = 2
CONSTANT MaxFaults = 1
CONSTANT MaxCrashes = 0
CONSTANT Overlap = TRUE
INVARIANT NoIncompleteArtifact
CHECK_DEADLOCK FALSE
SYMMETRY Alike
