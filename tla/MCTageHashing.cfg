CONSTANTS
  TableNum = 2
  IndexSize = 4
  Pcs = {1, 5}
  MaxBranches = 3

SPECIFICATION Spec
INVARIANT IndexFoldsHistory
CHECK_DEADLOCK FALSE
