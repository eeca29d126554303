CONSTANTS
  Capacity = 3
  Width = 2
  Requests = {0, 1, 2, 4}
  MaxRetires = 8
  H = 4
  WinCap = 2
  Ports = {0, 1}
  Masks = {{0}, {0, 1}}
  Extras = {0, 1}
  Delays = {0, 3, 6}
  MaxPos = 8
SPECIFICATION Spec
INVARIANT TypeOK MinAllocMatches
PROPERTY FifoRefinement WindowRefinement
\* The call sequences are bounded by MaxRetires and MaxPos.
CHECK_DEADLOCK FALSE
