SPECIFICATION Spec
CONSTANTS
  NumberOfCards = 3
  Forms <- MCForms
  MaxClicks = 2
INVARIANTS TypeOK EarlierCardsAnswered ButtonsFollowCards CanGoOn
PROPERTY GoesToVisibleCards
CHECK_DEADLOCK FALSE
