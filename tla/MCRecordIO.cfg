SPECIFICATION Spec
CONSTANT u1 = u1
CONSTANT fort1 = fort1
CONSTANT named = named
CONSTANT Unit = {u1}
CONSTANT Name = {fort1, named}
CONSTANT DefaultName <- MCDefaultName
CONSTANT FormOf <- MCFormOf
CONSTANT Word = {0, 1}
CONSTANT Record = {1, 2}
CONSTANT Recl = 2
CONSTANT MaxCells = 4
CONSTANT MaxFaults = 2
CONSTANT MaxItems = 1
CONSTANT Options <- MCOptions
CONSTANT Scratch <- MCScratch
INVARIANT TypeOK
INVARIANT RecordsOnDisk
INVARIANT CleanFileIsItsRecords
INVARIANT DirectRecordsKept
INVARIANT ReadsWhatWasWritten
PROPERTY ImplementsSequentialFile
PROPERTY StatementsMoveByRecords
CHECK_DEADLOCK FALSE
