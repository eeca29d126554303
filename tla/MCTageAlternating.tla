-------------------------- MODULE MCTageAlternating --------------------------
(***************************************************************************)
(* Scenario S6 of the specification: one branch PC whose outcomes follow a *)
(* fixed repeating pattern (taken, not taken, ...) forever.  FetchModel    *)
(* calls predict() once per dynamic instance of the branch, so the driver  *)
(* below is weakly fair.  The history window and all tables are finite, so *)
(* the behaviour ends in a cycle that TLC can examine.                     *)
(***************************************************************************)
EXTENDS Tage, Sequences

CONSTANTS ScenarioPc, Pattern

VARIABLE phase   \* position in Pattern of the next outcome

MCTableNum == 2
MCIndexSize == 2
MCAlternating == <<TRUE, FALSE>>

scenarioVars == <<vars, phase>>

ScenarioInit == Init /\ phase = 1

ScenarioNext ==
  /\ Predict(ScenarioPc, Pattern[phase])
  /\ phase' = IF phase = Len(Pattern) THEN 1 ELSE phase + 1
  /\ UNCHANGED branches

ScenarioSpec == ScenarioInit /\ [][ScenarioNext]_scenarioVars /\ WF_scenarioVars(ScenarioNext)

(* S6: after a warm-up, every instance of a branch with a periodic outcome *)
(* pattern is predicted correctly by predict().                            *)
EventuallyAlwaysCorrect == <>[]predictResult
=============================================================================
