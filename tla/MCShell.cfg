SPECIFICATION MCSpec
CONSTANTS
  Bits = 8
  Rows = 2
  Cols = 4
  WordBytes = 4
  LineSize = 4
  HistMax = 3
  MaxCmds = 4
  Prompt <- MCPrompt
  Printable = {"a", "!"}
  ConKeys = {"DELETE", "DELLINE", "bs", "nl", "tab", "esc", "[", "A", "B", "C", "D"}
  Groups <- MCGroups
  CmdMax = 4
  MaxInLine = 2
  MaxArgs = 2
  LineChars <- MCLineChars
  LineMax = 4
  MemSize = 28
  HeapBase = 5
  HeapTop = 7
  Align = 2
  RegCells = 1
  Files <- MCFiles
  Stack = 28
  Stacks = {0, 26}
  EntryPoints = {0, 9}
  ArgLists <- LongArgs
  GoArgs = 3
  EnvLen = 3
  MaxSteps = 2
  OpenMax = 10
  NFile = 6
  NTerm = 2
  MaxFiles = 3
  MaxHeld = 4
  Texts <- MCTexts
  Patterns <- MCPatterns
  UrlParts <- MCUrls
  NameSz = 3
  PortMod = 64
  ByteBits = 2
  Quads <- MCQuads
  ArgVecs <- MCArgVecs
  OptPattern <- MCPattern
  Formats <- MCFormats
  OneK = 2
  BlkSz = 2
  NDir = 2
  PerGroup = 3
  InodeSz = 1
  DescSz = 1
  NPart = 2
  SizeMod = 64
  Disks <- MCDisks
  Paths <- MCPaths
  Lens = {1, 3, 16}
  SeekTo = {3, 5}
  MaxFaults = 1
INVARIANTS EchoRight BangRight CommandRight LibraryRight ArgsRight Descriptors
INVARIANTS ReadRight NamesRight NoLeak
PROPERTIES RecallRight LoadRight
CHECK_DEADLOCK FALSE
