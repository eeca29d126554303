------------------------------ MODULE FetchModel ------------------------------
(***************************************************************************)
(* The FetchModel timing core of src/src/MeMo/FetchModel.{h,cpp}: the core *)
(* skeleton (deferred BBL, decode clock, register scoreboard, phase loop,  *)
(* join/leave/contextSwitch/cSim) with the frontend driven by a TAGE       *)
(* predictor.  BranchFunc captures the conditional branch that ends the    *)
(* running BBL; the next BblFunc simulates the deferred BBL, predicts the  *)
(* captured branch, and on a misprediction restarts fetch at the commit    *)
(* cycle of the deferred BBL's last uop.                                   *)
(*                                                                         *)
(* The predictor is the Tage module, instantiated on this module's copy of *)
(* its variables.  The filter cache l1i answers each fetch with a latency  *)
(* from L1iLats; the wrong-path fetches only touch l1i and the contention  *)
(* recorder, so they change no state of the core.  The taken/not-taken     *)
(* NPCs only feed those fetches and the unused branch_target argument.     *)
(***************************************************************************)
EXTENDS Integers, Sequences, FiniteSets, FiniteSetsExt

CONSTANTS
  Bbls, BblInfo,     \* BBLs and their [bytes, instrs, uops]
  BranchOf,          \* BranchOf[b]: PC of the conditional branch ending b, 0 if none
  TableNum, IndexSize,
  NumRegs, LineSize, FetchBytesPerCycle,
  PhaseLength, L1iLats, JoinDeltas, CSimDeltas,
  NoBbl, MaxBbls, MaxSched

Regs == 0..(NumRegs - 1)
BranchPcs == {BranchOf[b] : b \in Bbls} \ {0}

ASSUME NoBbl \notin Bbls /\ FetchBytesPerCycle \in Nat \ {0}
ASSUME \A d \in CSimDeltas : d >= 0
ASSUME \A b \in Bbls : \A i \in DOMAIN BblInfo[b].uops : i > 1 =>
         BblInfo[b].uops[i].decCycle >= BblInfo[b].uops[i - 1].decCycle

FETCH_STAGE == 1
DECODE_STAGE == 4
ISSUE_STAGE == 7
DISPATCH_STAGE == 13

VARIABLES
  curCycle, decodeCycle, phaseEndCycle, regScoreboard, prevBbl,
  branchPc, branchTaken, instrs, mispredBranches,
  \* BranchPredictorTage* branchPred
  historyBuffer, basePredictor, tage, useAltOnNa, providerIndex,
  providerPredIndex, altProviderIndex, providerPred, altProviderPred,
  predictResult,
  \* environment, as in CacheModel, plus the branch still to be delivered
  owned, ctx, pendingBranch, globPhaseCycles, bblCalls, schedCalls,
  \* ghosts: simulated uops; the branch that ended the BBL last executed here;
  \* [at |-> Len(trace), cycle |-> lastCommitCycle] of every misprediction
  trace, streamBranch, redirects

T == INSTANCE Tage WITH Pcs <- BranchPcs, MaxBranches <- 0, branches <- 0

tageVars == <<historyBuffer, basePredictor, tage, useAltOnNa, providerIndex,
              providerPredIndex, altProviderIndex, providerPred, altProviderPred,
              predictResult>>
coreVars == <<curCycle, decodeCycle, phaseEndCycle, regScoreboard, prevBbl,
              branchPc, branchTaken, instrs, mispredBranches>>
envVars == <<owned, ctx, pendingBranch, globPhaseCycles, bblCalls, schedCalls>>
vars == <<coreVars, tageVars, envVars, trace, streamBranch, redirects>>

Max2(a, b) == IF a >= b THEN a ELSE b

RECURSIVE LatSums(_)
(* Total latency of n l1i accesses. *)
LatSums(n) == IF n = 0 THEN {0} ELSE {s + l : s \in LatSums(n - 1), l \in L1iLats}

-----------------------------------------------------------------------------
(* Mutant forms of the helpers below.                                      *)
RecordFirstDest(sb, rd, commit) == [sb EXCEPT ![rd[1]] = commit]
FetchNotRedirected(fetchCycle, lastCommitCycle, mispred) == fetchCycle

(* Both destinations become ready at commit. *)
RecordDependences(sb, rd, commit) == [sb EXCEPT ![rd[1]] = commit, ![rd[2]] = commit]

(* "fetchCycle = lastCommitCycle" after a misprediction.                  *)
FetchRedirect(fetchCycle, lastCommitCycle, mispred) ==
  IF mispred THEN lastCommitCycle ELSE fetchCycle

(* One iteration of the simplified dispatch loop: no LSU and no curCycle   *)
(* bump from dispatch (commented out in the code).                         *)
SimUop(st, u) ==
  LET dec    == st.decodeCycle + (u.decCycle - st.prevDecCycle)
      cur    == Max2(st.curCycle, dec)
      sb     == [st.regScoreboard EXCEPT ![0] = cur]
      disp   == Max2(Max2(sb[u.rs[1]], sb[u.rs[2]]), cur + (DISPATCH_STAGE - ISSUE_STAGE))
      commit == disp + u.lat
  IN [curCycle |-> cur, decodeCycle |-> dec, prevDecCycle |-> u.decCycle,
      regScoreboard |-> RecordDependences(sb, u.rd, commit),
      lastCommitCycle |-> commit,
      log |-> Append(st.log, [rs |-> u.rs, rd |-> u.rd, dispatch |-> disp, commit |-> commit])]

RECURSIVE SimUops(_, _, _)
SimUops(st, uops, i) == IF i > Len(uops) THEN st ELSE SimUops(SimUop(st, uops[i]), uops, i + 1)

(* Number of l1i accesses of the ifetch loop, striding by                  *)
(* min(lineSize, fetch_bytes_per_cycle) over [bblAddr, bblAddr + bytes).   *)
FetchAccesses(b) ==
  LET stride == IF LineSize < FetchBytesPerCycle THEN LineSize ELSE FetchBytesPerCycle
  IN (BblInfo[b].bytes + stride - 1) \div stride

(* The while loop of BblFunc, as in CacheModel.                            *)
PhaseLoop(cur) ==
  LET behind == IF cur > phaseEndCycle
                THEN (cur - phaseEndCycle + PhaseLength - 1) \div PhaseLength ELSE 0
  IN \E calls \in 0..behind, moved \in BOOLEAN :
       /\ moved => calls > 0
       /\ ~moved => calls = behind
       /\ phaseEndCycle' = phaseEndCycle + calls * PhaseLength
       /\ globPhaseCycles' = globPhaseCycles + calls * PhaseLength
       /\ owned' = ~moved /\ ctx' = IF moved THEN "gone" ELSE "own"

-----------------------------------------------------------------------------
(* branch(): capture the conditional branch ending the running BBL.        *)
BranchFunc(pc, taken) ==
  /\ owned /\ pendingBranch = pc /\ pc # 0
  /\ branchPc' = pc /\ branchTaken' = taken
  /\ pendingBranch' = 0 /\ streamBranch' = pc
  /\ UNCHANGED <<curCycle, decodeCycle, phaseEndCycle, regScoreboard, prevBbl, instrs,
                 mispredBranches, tageVars, owned, ctx, globPhaseCycles,
                 bblCalls, schedCalls, trace, redirects>>

(* bbl() on the first BBL since scheduled: nothing simulated, branchPc     *)
(* left as it is.                                                          *)
FirstBbl(b) ==
  /\ PhaseLoop(curCycle)
  /\ UNCHANGED <<curCycle, decodeCycle, regScoreboard, branchPc, branchTaken, instrs,
                 mispredBranches, tageVars, trace, redirects>>

(* bbl() otherwise: simulate prevBbl, predict the captured branch (if any) *)
(* with TAGE, redirect fetch on a misprediction, fetch b, clear branchPc.  *)
SimulateBbl(b) ==
  LET st == SimUops([curCycle |-> curCycle, decodeCycle |-> decodeCycle, prevDecCycle |-> 0,
                     regScoreboard |-> regScoreboard, lastCommitCycle |-> 0, log |-> <<>>],
                    BblInfo[prevBbl].uops, 1)
      predicted == branchPc # 0
      mispred == predicted /\
                 branchTaken # T!GetPrediction(T!GetTagePredictions(branchPc))
      fetchCycle == FetchRedirect(st.decodeCycle - (DECODE_STAGE - FETCH_STAGE),
                                  st.lastCommitCycle, mispred)
  IN /\ IF predicted THEN T!Predict(branchPc, branchTaken) ELSE UNCHANGED tageVars
     /\ mispredBranches' = IF mispred THEN mispredBranches + 1 ELSE mispredBranches
     /\ redirects' = IF mispred
                     THEN redirects \cup {[at |-> Len(trace \o st.log), cycle |-> st.lastCommitCycle]}
                     ELSE redirects
     /\ \E fetchLat \in LatSums(FetchAccesses(b)) :
          decodeCycle' = Max2(st.decodeCycle + 1,
                              fetchCycle + fetchLat + (DECODE_STAGE - FETCH_STAGE))
     /\ curCycle' = st.curCycle
     /\ regScoreboard' = st.regScoreboard
     /\ instrs' = instrs + BblInfo[prevBbl].instrs
     /\ branchPc' = 0 /\ UNCHANGED branchTaken
     /\ trace' = trace \o st.log
     /\ PhaseLoop(st.curCycle)

BblFunc(b) ==
  /\ owned /\ pendingBranch = 0 /\ bblCalls < MaxBbls
  /\ IF prevBbl = NoBbl THEN FirstBbl(b) ELSE SimulateBbl(b)
  /\ prevBbl' = b
  /\ pendingBranch' = BranchOf[b] /\ streamBranch' = 0
  /\ bblCalls' = bblCalls + 1
  /\ UNCHANGED schedCalls

AdvanceDecodeBack(target) ==
  /\ decodeCycle' = decodeCycle - (target - curCycle)
  /\ curCycle' = target

Advance(target) ==
  /\ decodeCycle' = decodeCycle + (target - curCycle)
  /\ curCycle' = target

AdvanceIfLater(targetCycle) ==
  IF targetCycle > curCycle THEN Advance(targetCycle) ELSE UNCHANGED <<curCycle, decodeCycle>>

Leave ==
  /\ owned /\ schedCalls < MaxSched
  /\ owned' = FALSE /\ ctx' = "own"
  /\ schedCalls' = schedCalls + 1
  /\ UNCHANGED <<coreVars, tageVars, pendingBranch, globPhaseCycles, bblCalls,
                 trace, streamBranch, redirects>>

(* contextSwitch(-1) drops the deferred BBL but not branchPc.              *)
ContextSwitch(gid) ==
  /\ ~owned /\ schedCalls < MaxSched
  /\ IF gid = -1 THEN prevBbl' = NoBbl /\ ctx' = "free"
                 ELSE UNCHANGED <<prevBbl, ctx>>
  /\ schedCalls' = schedCalls + 1
  /\ UNCHANGED <<curCycle, decodeCycle, phaseEndCycle, regScoreboard, branchPc, branchTaken,
                 instrs, mispredBranches, tageVars, owned, pendingBranch,
                 globPhaseCycles, bblCalls, trace, streamBranch, redirects>>

(* join(); a thread arriving at a handed-away context may be before or     *)
(* after the branch of its current BBL, whose predecessor ran elsewhere.   *)
Join(delta) ==
  /\ ~owned /\ schedCalls < MaxSched
  /\ ctx # "gone"
  /\ curCycle + delta >= 0
  /\ AdvanceIfLater(curCycle + delta)
  /\ phaseEndCycle' = globPhaseCycles + PhaseLength
  /\ owned' = TRUE /\ ctx' = "own"
  /\ IF ctx = "own" THEN UNCHANGED <<pendingBranch, streamBranch>>
     ELSE /\ pendingBranch' \in {0} \cup BranchPcs
          /\ streamBranch' = 0
  /\ schedCalls' = schedCalls + 1
  /\ UNCHANGED <<regScoreboard, prevBbl, branchPc, branchTaken, instrs, mispredBranches,
                 tageVars, globPhaseCycles, bblCalls, trace, redirects>>

OtherCoresPhase ==
  /\ ~owned /\ schedCalls < MaxSched
  /\ globPhaseCycles' = globPhaseCycles + PhaseLength
  /\ schedCalls' = schedCalls + 1
  /\ UNCHANGED <<coreVars, tageVars, owned, ctx, pendingBranch, bblCalls,
                 trace, streamBranch, redirects>>

(* cSimStart()/cSimEnd() *)
CSimAdvance(delta) ==
  /\ schedCalls < MaxSched
  /\ AdvanceIfLater(curCycle + delta)
  /\ schedCalls' = schedCalls + 1
  /\ UNCHANGED <<phaseEndCycle, regScoreboard, prevBbl, branchPc, branchTaken, instrs,
                 mispredBranches, tageVars, owned, ctx, pendingBranch,
                 globPhaseCycles, bblCalls, trace, streamBranch, redirects>>
CSimStart(delta) == CSimAdvance(delta)
CSimEnd(delta) == CSimAdvance(delta)

-----------------------------------------------------------------------------
(* The constructor, including new BranchPredictorTage(...).                *)
Init ==
  /\ curCycle = 0 /\ decodeCycle = DECODE_STAGE /\ phaseEndCycle = PhaseLength
  /\ regScoreboard = [r \in Regs |-> 0]
  /\ prevBbl = NoBbl
  /\ branchPc = 0 /\ branchTaken \in BOOLEAN   \* left uninitialised
  /\ instrs = 0 /\ mispredBranches = 0
  /\ T!InitPredictor
  /\ owned = FALSE /\ ctx = "free" /\ pendingBranch = 0
  /\ globPhaseCycles = 0 /\ bblCalls = 0 /\ schedCalls = 0
  /\ trace = <<>> /\ streamBranch = 0 /\ redirects = {}

Next ==
  \/ \E pc \in BranchPcs, taken \in BOOLEAN : BranchFunc(pc, taken)
  \/ \E b \in Bbls : BblFunc(b)
  \/ Leave
  \/ \E gid \in {-1, 0} : ContextSwitch(gid)
  \/ \E d \in JoinDeltas : Join(d)
  \/ OtherCoresPhase
  \/ \E d \in CSimDeltas : CSimStart(d) \/ CSimEnd(d)

Spec == Init /\ [][Next]_vars
-----------------------------------------------------------------------------
(* Types of the core state, and of the TAGE predictor it owns.             *)
TypeOK ==
  /\ curCycle \in Nat /\ decodeCycle \in Nat /\ phaseEndCycle \in Nat
  /\ regScoreboard \in [Regs -> Nat]
  /\ prevBbl \in Bbls \cup {NoBbl}
  /\ branchPc \in BranchPcs \cup {0} /\ branchTaken \in BOOLEAN
  /\ mispredBranches \in 0..bblCalls
  /\ T!TypeOK

(* Misprediction penalty (spec S3): after bbl() finds the captured branch  *)
(* mispredicted, no uop simulated later on this core dispatches before the *)
(* branch BBL's last commit plus the fetch-to-decode and issue-to-dispatch *)
(* delays, whatever joins, switches and phase moves come in between.       *)
MispredictRefill ==
  \A r \in redirects : \A j \in (r.at + 1)..Len(trace) :
    trace[j].dispatch >= r.cycle + (DECODE_STAGE - FETCH_STAGE) + (DISPATCH_STAGE - ISSUE_STAGE)

(* Register dataflow through regScoreboard, as in CacheModel.              *)
RegisterDataflow ==
  \A j \in DOMAIN trace : \A s \in {1, 2} :
    LET r == trace[j].rs[s]
        writers == {i \in 1..(j - 1) : r \in {trace[i].rd[1], trace[i].rd[2]}}
    IN r # 0 /\ writers # {} => trace[j].dispatch >= trace[Max(writers)].commit

(* branchPc is "the pending branch that terminates the previous BBL": when *)
(* bbl() predicts a branch, it is the branch delivered since the last      *)
(* BblFunc, not one left from a BBL that contextSwitch(-1) dropped.        *)
PredictsTerminatingBranch ==
  [][bblCalls' = bblCalls + 1 /\ prevBbl # NoBbl /\ branchPc # 0 =>
       branchPc = streamBranch]_vars
=============================================================================
