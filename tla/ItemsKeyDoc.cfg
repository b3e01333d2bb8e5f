CONSTANTS
  Commands <- MCCommands
  MAX_ITEMS = 20
SPECIFICATION Spec
INVARIANT KeyNotInTransferIsShown
CHECK_DEADLOCK FALSE
