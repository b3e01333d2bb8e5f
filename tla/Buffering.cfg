CONSTANTS
  Byte <- MCByte
  RAM_CAP = 4
  FLASH_CAP = 6
  TEMPLATE_BUF = 2
  MAX_TRANSFER_BODY = 2
  Chunks <- MCChunks
  Templates <- MCTemplates
SPECIFICATION Spec
INVARIANTS
  TypeOK
  OnePosition
PROPERTIES
  ImplementsTxBuffer
  FlashOnlyOnOverflow
