SPECIFICATION Spec
CONSTANTS
  NumberOfCards = 3
  Forms <- MCForms
  MaxClicks = 2
INVARIANT OnlySubmitInShowAll
CHECK_DEADLOCK FALSE
