CONSTANTS
  Bbls <- IssueBbls
  BblInfo <- IssueBblInfo
  NumRegs = 3
  OooWidth = 2
  PrfPorts = 2
  RobCap = 3
  LqCap = 1
  SqCap = 1
  UqCap = 2
  PhaseLength = 16
  Addrs <- MCAddrs
  GarbageAddrs <- OneGarbageAddr
  GarbageCycles <- MCGarbageCycles
  InsWinCap = 8
  WinHorizon = 32
  JoinDeltas <- MCJoinDeltas
  CSimDeltas <- MCCSimDeltas
  MemSlots = 1
  NoBbl = NoBbl
  MaxBbls = 3
  MaxSched = 3
SPECIFICATION Spec
INVARIANT IssueWidthRespected
\* The thread's instruction stream is bounded by MaxBbls and MaxSched.
CHECK_DEADLOCK FALSE
