SPECIFICATION Spec
CONSTANT ModuleCount <- MCModuleCount
CONSTANT Name <- MCName
CONSTANT Projects <- MCProjects
INVARIANT TypeOK
INVARIANT IndegreeCounts
INVARIANT ProvidersFirst
INVARIANT CycleDiagnosedIffCyclic
INVARIANT NeverUnordered
INVARIANT StableOrder
CHECK_DEADLOCK FALSE
