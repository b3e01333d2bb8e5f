CONSTANTS
  Values <- RenderedValues
  VALUE_BUF = 300
  HASH_LEN = 1
  KEY_LEN = 2
  Reserved <- MCReserved
  MaxLen = 9
  BASE = 3
  MAX_DIGITS = 3
  MAX_EXP = 1
  OUT = 5
  Numerals <- MCNumerals
  SCALE = 3
SPECIFICATION MCSpec
INVARIANTS
  ValuesAreWhole
  ArgumentsFit
  PrincipalsAreTheForms
  FeeIsExact
CHECK_DEADLOCK FALSE
