\* Four clicks, up to three requests under way; pages of 1 and 2.
SPECIFICATION BrowsingSpec
CONSTANTS
  Decks = {1, 2}
  Notes = {1, 2, 3}
  Cards <- MCCards
  PageSizes = {0, 1}
  MaxPageLimit = 2
  DefaultLimit = 2
  MaxPending = 3
  MaxClicks = 4
INVARIANTS
  BrowsingTypeOK
  ShownAsAsked
  PagingComplete
