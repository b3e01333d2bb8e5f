CONSTANTS
  Reviews <- MCReviews
  BATCH_BYTES = 3
  BATCH_ITEMS = 3
SPECIFICATION FairSpec
INVARIANTS
  TypeOK
  ApprovedSawEverything
  StepFitsHeap
PROPERTY ReviewEnds
CHECK_DEADLOCK FALSE
