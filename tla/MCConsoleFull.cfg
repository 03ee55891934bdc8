SPECIFICATION ConsoleSpec
CONSTANTS
  Bits = 8
  Rows = 2
  Cols = 4
  WordBytes = 4
  LineSize = 3
  HistMax = 3
  MaxCmds = 4
  Prompt <- MCPrompt
  Printable = {"a", "!"}
  ConKeys = {"bs", "nl"}
INVARIANT TextFound
CHECK_DEADLOCK FALSE
