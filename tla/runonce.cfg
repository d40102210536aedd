SPECIFICATION Spec
CONSTANTS
  Proc = {p1, p2, p3}
  NoFile = NoFile
  Nobody = Nobody
SYMMETRY Symmetric
INVARIANTS OneInstance FileNamesInstance
PROPERTIES KillsOnlyElder RefusedForInstance
CHECK_DEADLOCK FALSE
