--------------------------- MODULE MCPhaseBarrier ---------------------------
(* Model values for PhaseBarrier: notifyJoin may return a target behind     *)
(* the core (a core that ran ahead before its thread left) or ahead of it.  *)
EXTENDS PhaseBarrier

MCJoinDeltas == {-4, 8}
=============================================================================
