SPECIFICATION Spec
CONSTANT v = v
CONSTANT w = w
CONSTANT Variable = {v, w}
CONSTANT MaxLabel = 11
CONSTANT Units <- MCUnits
INVARIANT TypeOK
INVARIANT ExecutionCovered
INVARIANT ResolvedIsAssigned
INVARIANT TopLevelConverges
PROPERTY RefinementRemovesEdges
PROPERTY AnalysisEnds
CHECK_DEADLOCK FALSE
