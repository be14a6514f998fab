SPECIFICATION Spec
CONSTANT main = main
CONSTANT lib = lib
CONSTANT other = other
CONSTANT missing = missing
CONSTANT inc = inc
CONSTANT self = self
CONSTANT Name = {main, lib, other}
CONSTANT Request = {inc, self}
CONSTANT Resolve <- MCResolve
CONSTANT NotFound = missing
CONSTANT Macro = {a}
CONSTANT Predefined = {}
CONSTANT Marker <- MCMarker
CONSTANT Inputs = 2
CONSTANT MainName = main
CONSTANT MaxInput = 5
CONSTANT MaxBytes = 7
CONSTANT MaxDepth = 2
CONSTANT MaxFiles = 2
CONSTANT MaxNesting = 2
INVARIANT TypeOK
INVARIANT OutputIsSelection
INVARIANT OriginsKept
INVARIANT GroupsStayInTheirFile
INVARIANT BudgetIsCumulative
INVARIANT NoSourceWithinItself
CHECK_DEADLOCK FALSE
