SPECIFICATION Spec
CONSTANTS
  Names <- MCNames
  FolderPath <- MCFolderPath
  FilePath <- MCFilePath
  Existing <- MCExisting
  Predefined <- MCPredefined
  MaxRequests = 2
  MaxSent = 2
  MaxForeign = 0
  None = None
INVARIANT ActiveIsInTree
CHECK_DEADLOCK FALSE
