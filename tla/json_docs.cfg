SPECIFICATION Spec
CONSTANTS
  NULL = NULL
  IntMax = 200
  Reallocates = FALSE
  NestingLimit = 3
  DefaultBufferSize = 8
  TextDocs <- MCTextDocs
  PatchDocs <- MCPatchDocs
  Lengths <- MCLengths
  Memory <- MCMemory
  Damage <- MCDamage
  HandPatches <- MCHandPatches
INVARIANTS RoundTrip ReadsWhatItSays NothingLost BuffersHold
  MinifyKeeps PointersLead PatchesTurn ReportIsTrue
PROPERTY OnlyOrderChanges
CHECK_DEADLOCK FALSE
