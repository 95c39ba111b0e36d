SPECIFICATION Spec
CONSTANTS
  Names <- MCNames
  FolderPath <- MCFolderPath
  FilePath <- MCFilePath
  Existing <- MCExisting
  Predefined <- MCPredefined
  MaxRequests = 2
  MaxSent = 2
  MaxForeign = 1
  None = None
INVARIANTS TypeOK SelectionIsActive BusyIsPending ExpandedHasSubfolders ViewIsCurrent
CHECK_DEADLOCK FALSE
