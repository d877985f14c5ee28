CONSTANTS
  Lines <- MCLines
  MaxLines = 4
  scanHeaderLines = 3
  ParamNames = {"size", "name"}
  None = None
  Invalid = Invalid
  Requests <- MCRequests
  FileNames <- MCFileNames
  ToolName <- MCToolName
  Contents <- MCContents
  Directories <- MCDirectories
  LiveDirectories <- MCLiveDirectories
  RawArguments <- MCRawArguments
  Alphabetical <- MCAlphabetical
  FlagOf <- MCFlagOf
SPECIFICATION DiagSpec
INVARIANTS FirstOccurrenceWins LastDeclarationWins RefusedIsWarned ArgvIsFaithful ExitTellsOutcome FirstFileWins
