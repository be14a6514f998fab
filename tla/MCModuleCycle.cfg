SPECIFICATION Spec
CONSTANT ModuleCount <- MCModuleCount
CONSTANT Name <- MCName
CONSTANT Projects <- MCProjects
INVARIANT NamedDependencyIsCyclic
CHECK_DEADLOCK FALSE
