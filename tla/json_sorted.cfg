SPECIFICATION Spec
CONSTANTS
  NULL = NULL
  IntMax = 200
  Reallocates = FALSE
  NestingLimit = 3
  DefaultBufferSize = 8
  TextDocs = {}
  PatchDocs <- MCPatchDocs
  Lengths = {}
  Memory = {}
  Damage = {}
  HandPatches = {}
INVARIANT PatchTurnsItself
CHECK_DEADLOCK FALSE
