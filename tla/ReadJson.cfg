CONSTANTS
  Chars <- MCChars
  Reads <- MCReads
  MAX_TOKENS = 7
  MaxLen = 17
SPECIFICATION MCSpec
INVARIANTS
  TokensAreTheDocument
  NoDocumentIsRefused
  LookupsFollowNesting
  MembersAreUnambiguous
  ShownTextIsTheValue
CHECK_DEADLOCK FALSE
