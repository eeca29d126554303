\* Three threads share two cores, so the scheduler must deschedule and
\* migrate threads at the barrier.
CONSTANTS
  Threads = {t1, t2, t3}
  Cores = {c1, c2}
  NoCore = NoCore
  PhaseLength = 16
  BblLats = {4, 20}
  JoinDeltas <- MCJoinDeltas
  MaxBbls = 1
  MaxPhases = 10
SPECIFICATION Spec
INVARIANT TypeOK SingleWriter PhaseEndAligned
PROPERTY Termination
\* Every thread exits after MaxBbls BBLs; the process then ends.
CHECK_DEADLOCK FALSE
