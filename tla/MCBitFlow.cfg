SPECIFICATION Spec
CONSTANT NodeCount <- MCNodeCount
CONSTANT Fact <- MCFact
CONSTANT Problems <- MCProblems
INVARIANT TypeOK
INVARIANT QueueMatchesFlags
INVARIANT SolvedAtDone
INVARIANT LeastAtDone
INVARIANT SuccessorsFlowBack
PROPERTY Terminates
CHECK_DEADLOCK FALSE
