SPECIFICATION MCSpec
CONSTANTS
  Node = {1, 2, 3, 4, 5}
  Name = {"a", "A"}
  Fold <- MCFold
  Kind = {"list", "text", "plain"}
  NULL = NULL
INVARIANTS Intact NothingLeaks
PROPERTIES Implements
CHECK_DEADLOCK FALSE
