SPECIFICATION FairSpec
CONSTANTS
  Folder = {root, dir}
  Root = root
  Name = {a, b, exe}
  Valid = {a, b}
  None = None
INVARIANTS TypeOK OneUpload NothingForgotten
PROPERTIES InOrder GetsItsTurn
