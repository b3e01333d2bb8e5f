CONSTANTS
  Commands = {}
  MAX_ITEMS = 20
SPECIFICATION MCSpec
INVARIANTS
  FieldsAreThePayload
  TemplateFits
  NoFieldAddsStructure
  CodeIsTheScope
  TransfersAreReviewedByKind
PROPERTY
  OnlyTheOSRefuses
CHECK_DEADLOCK FALSE
