SPECIFICATION Spec
CONSTANT v = v
CONSTANT w = w
CONSTANT Variable = {v, w}
CONSTANT MaxLabel = 11
CONSTANT Units <- MCUnits
INVARIANT Converges
CHECK_DEADLOCK FALSE
