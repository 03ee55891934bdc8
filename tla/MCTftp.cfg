SPECIFICATION FairSpec
CONSTANTS
  BlkSize = 2
  Word = 3
  Port = {1, 2}
  FileLen = {3, 4, 6}
  ReadLen = {3}
  WriteLen = {1, 3}
  MaxWritten = 4
  SeekTo = {3}
  Cap = 2
  Faults = {"lose", "dup", "swap", "fail", "nosend"}
  MaxFaults = 3
INVARIANTS ReadsRight StoresRight
PROPERTIES CallsReturn
CHECK_DEADLOCK FALSE
