CONSTANTS
  Commands <- MCCommands
  MAX_ITEMS = 20
SPECIFICATION Spec
INVARIANTS
  TypeOK
  ReviewedEntryIsPacts
  ClearReviewIsBounded
  EveryCapabilityIsShown
  ItemsShowTheirFields
CHECK_DEADLOCK FALSE
