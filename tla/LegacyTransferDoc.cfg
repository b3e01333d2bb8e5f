CONSTANTS
  Apdus <- Slices
  PATH_LEN = 1
  LEGACY_CHUNK_SIZE = 4
  LEGACY_LOCAL_BUFFER_SIZE = 3
  NUM_ITEMS = 2
  FLASH_CAP = 8
  U8 = 8
SPECIFICATION Spec
INVARIANT ShortApduCompletes
