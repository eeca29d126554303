CONSTANTS
  Bbls <- MCBbls
  BblInfo <- MCBblInfo
  NumRegs = 3
  LineSize = 16
  PhaseLength = 16
  L1dLats <- MCL1dLats
  JoinDeltas <- MCJoinDeltas
  CSimDeltas <- MCCSimDeltas
  MemSlots = 1
  Addrs <- MCAddrs
  NoAddr = NoAddr
  NoBbl = NoBbl
  MaxBbls = 4
  MaxSched = 3
SPECIFICATION Spec
INVARIANT  MemoryOrdering RegisterDataflow
PROPERTY MemOpsMatched CurCycleMonotone
\* The thread's instruction stream is bounded by MaxBbls and MaxSched.
CHECK_DEADLOCK FALSE
