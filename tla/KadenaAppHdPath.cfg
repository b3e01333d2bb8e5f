CONSTANTS
  Commands <- MCCommands
  Data <- MCData
  Pieces <- MCPieces
  PATH_WORDS = 3
  HDPATH_0 = 8
  HDPATH_1 = 9
  HASH_LEN = 2
  LEGACY_CHUNK_SIZE = 4
  FLASH_CAP = 6
  TEMPLATE_AT = 3
  Verdict <- MCVerdict
  Build <- MCBuild
  Clobbered = Clobbered
  Nil = Nil
SPECIFICATION MCSpec
INVARIANT SigningUsesHdPath
