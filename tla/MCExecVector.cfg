SPECIFICATION ExecSpec
CONSTANTS
  MemSize = 28
  HeapBase = 5
  HeapTop = 7
  Align = 2
  RegCells = 1
  Files <- TwoFiles
  Stack = 28
  Stacks = {0, 26}
  EntryPoints = {0, 9}
  ArgLists <- MCArgs
  GoArgs = 3
  EnvLen = 3
  MaxSteps = 2
INVARIANT VectorGiven
CHECK_DEADLOCK FALSE
