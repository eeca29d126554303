CONSTANTS
  Bbls <- MCBbls
  BblInfo <- MCBblInfo
  BranchOf <- MCBranchOf
  TableNum = 1
  IndexSize = 1
  NumRegs = 3
  LineSize = 16
  FetchBytesPerCycle = 16
  PhaseLength = 16
  L1iLats <- MCL1iLats
  JoinDeltas <- MCJoinDeltas
  CSimDeltas <- MCCSimDeltas
  NoBbl = NoBbl
  MaxBbls = 4
  MaxSched = 3
SPECIFICATION Spec
PROPERTY PredictsTerminatingBranch
\* The thread's instruction stream is bounded by MaxBbls and MaxSched.
CHECK_DEADLOCK FALSE
