CONSTANTS
  Callers = {c1, c2}
  None = None
  Paths <- MCPaths
  Defaults <- MCDefaults
  Name <- MCName
  Files <- MCFiles
SPECIFICATION FairFileSpec
INVARIANTS FileTypeOK MapsAgree OneNameEach ImportsMatchBody ImportsDistinct
PROPERTIES IsNaming Answered
