---------------------------- MODULE PhaseBarrier ----------------------------
(***************************************************************************)
(* Several cores of one kind and the threads that run on them, composed    *)
(* through the global phase barrier.  The core side is the code shared by  *)
(* CacheModel, FetchModel and IssueModel: the constructor's phase clock,   *)
(* join() and leave(), and the loop of BblFunc that calls TakeBarrier      *)
(* whenever the core has run past its phaseEndCycle.  bbl() itself is      *)
(* abstracted to the cycles it adds to curCycle (the single-core modules   *)
(* model it in full).                                                      *)
(*                                                                         *)
(* TakeBarrier and the scheduler are outside src/ and follow spec.md: the  *)
(* barrier is a rendezvous of every thread that holds a core; when the     *)
(* last one arrives the global phase advances, and the scheduler may take  *)
(* a thread's core away, give a waiting thread a core (calling join() on   *)
(* it), or leave it waiting.  TakeBarrier returns the thread's new cid.    *)
(***************************************************************************)
EXTENDS Integers, FiniteSets

CONSTANTS
  Threads,         \* software threads
  Cores,           \* hardware contexts, one core object each
  NoCore,          \* a thread without a context (getCid of a thread not running)
  PhaseLength,     \* zinfo->phaseLength
  BblLats,         \* cycles one bbl() may add to curCycle
  JoinDeltas,      \* notifyJoin(curCycle) - curCycle
  MaxBbls,         \* BBLs each thread runs before it exits
  MaxPhases        \* bound on the phases the model explores

VARIABLES
  curCycle,        \* [Cores -> Nat]: each core's curCycle
  phaseEndCycle,   \* [Cores -> Nat]: each core's phaseEndCycle
  cid,             \* [Threads -> Cores \cup {NoCore}]: getCid(tid)
  core,            \* [Threads -> Cores \cup {NoCore}]: BblFunc's local `core`
  callCid,         \* [Threads -> Cores \cup {NoCore}]: the cid passed to TakeBarrier
  pc,              \* [Threads -> ThreadPcs]
  globPhaseCycles, \* zinfo->globPhaseCycles
  bbls             \* [Threads -> 0..MaxBbls]: BBLs run so far

vars == <<curCycle, phaseEndCycle, cid, core, callCid, pc, globPhaseCycles, bbls>>

(* "new": not yet scheduled; "app": running the application between        *)
(* callbacks; "loop": in the while loop of BblFunc; "sync": inside          *)
(* TakeBarrier; "ret": TakeBarrier has returned; "done": exited.            *)
ThreadPcs == {"new", "app", "loop", "sync", "ret", "done"}

(* A core is free when no thread holds it. *)
Free(c) == \A t \in Threads : cid[t] # c

-----------------------------------------------------------------------------
(* Mutant form of Join: advances to the notifyJoin target even if earlier. *)
JoinAlwaysAdvance(cur, d) == cur + d

(* Mutant form of JoinPhaseEnd: keeps the core's old phaseEndCycle.       *)
JoinKeepsPhaseEnd(old, glob) == old

(* join(): advance to the recorder's target when it is later.             *)
Join(cur, d) == IF cur + d > cur THEN cur + d ELSE cur

(* join(): the next stopping point is one phase past the global clock.     *)
JoinPhaseEnd(old, glob) == glob + PhaseLength

(* A thread gains core c: the scheduler calls join() on that core.         *)
Admit(t, c, d) ==
  /\ pc[t] = "new" /\ Free(c)
  /\ curCycle' = [curCycle EXCEPT ![c] = Join(@, d)]
  /\ phaseEndCycle' = [phaseEndCycle EXCEPT ![c] = JoinPhaseEnd(@, globPhaseCycles)]
  /\ cid' = [cid EXCEPT ![t] = c]
  /\ pc' = [pc EXCEPT ![t] = "app"]
  /\ UNCHANGED <<core, callCid, globPhaseCycles, bbls>>

(* BblFunc entry: core = cores[tid]; core->bbl() simulates the BBL.        *)
BblFunc(t, lat) ==
  /\ pc[t] = "app" /\ bbls[t] < MaxBbls
  /\ core' = [core EXCEPT ![t] = cid[t]]
  /\ curCycle' = [curCycle EXCEPT ![cid[t]] = @ + lat]
  /\ bbls' = [bbls EXCEPT ![t] = @ + 1]
  /\ pc' = [pc EXCEPT ![t] = "loop"]
  /\ UNCHANGED <<phaseEndCycle, cid, callCid, globPhaseCycles>>

(* Mutant form of Loop: the stopping point is not moved.                  *)
LoopNoIncrement(t) ==
  LET c == core[t] IN
  IF curCycle[c] > phaseEndCycle[c]
  THEN /\ callCid' = [callCid EXCEPT ![t] = cid[t]]
       /\ pc' = [pc EXCEPT ![t] = "sync"]
       /\ UNCHANGED <<phaseEndCycle, curCycle, cid, core, globPhaseCycles, bbls>>
  ELSE /\ pc' = [pc EXCEPT ![t] = "app"]
       /\ UNCHANGED <<phaseEndCycle, curCycle, cid, core, callCid, globPhaseCycles, bbls>>

(* One test of the while loop: past the stopping point, move it one phase  *)
(* on and call TakeBarrier(tid, getCid(tid)); otherwise return.            *)
Loop(t) ==
  LET c == core[t] IN
  IF curCycle[c] > phaseEndCycle[c]
  THEN /\ phaseEndCycle' = [phaseEndCycle EXCEPT ![c] = @ + PhaseLength]
       /\ callCid' = [callCid EXCEPT ![t] = cid[t]]
       /\ pc' = [pc EXCEPT ![t] = "sync"]
       /\ UNCHANGED <<curCycle, cid, core, globPhaseCycles, bbls>>
  ELSE /\ pc' = [pc EXCEPT ![t] = "app"]
       /\ UNCHANGED <<phaseEndCycle, curCycle, cid, core, callCid, globPhaseCycles, bbls>>

LoopStep(t) == pc[t] = "loop" /\ Loop(t)

(* The barrier opens when every thread holding a core waits in it.  The    *)
(* phase ends, and the scheduler assigns cores to some of the waiting      *)
(* threads, as many as it can: a thread keeping its core is not joined, a  *)
(* thread gaining one is.  Threads left without a core keep waiting.       *)
Release ==
  LET waiting == {t \in Threads : pc[t] = "sync"}
      glob    == globPhaseCycles + PhaseLength
      Kept(a, t) == a[t] = cid[t]
  IN /\ waiting # {}
     /\ \A t \in Threads : cid[t] # NoCore => pc[t] = "sync"
     /\ globPhaseCycles < MaxPhases * PhaseLength
     /\ \E a \in [waiting -> Cores \cup {NoCore}], d \in [Cores -> JoinDeltas] :
          LET given  == {t \in waiting : a[t] # NoCore}
              joined == {a[t] : t \in {u \in given : ~Kept(a, u)}}
          IN /\ \A t, u \in given : t # u => a[t] # a[u]
             /\ Cardinality(given) = IF Cardinality(waiting) < Cardinality(Cores)
                                     THEN Cardinality(waiting) ELSE Cardinality(Cores)
             /\ curCycle' = [c \in Cores |-> IF c \in joined THEN Join(curCycle[c], d[c])
                                             ELSE curCycle[c]]
             /\ phaseEndCycle' = [c \in Cores |-> IF c \in joined
                                                  THEN JoinPhaseEnd(phaseEndCycle[c], glob)
                                                  ELSE phaseEndCycle[c]]
             /\ cid' = [t \in Threads |-> IF t \in waiting THEN a[t] ELSE cid[t]]
             /\ pc' = [t \in Threads |-> IF t \in given THEN "ret" ELSE pc[t]]
     /\ globPhaseCycles' = glob
     /\ UNCHANGED <<core, callCid, bbls>>

(* Mutant form of Return: never breaks out of the loop.                   *)
ReturnNoBreak(t) ==
  /\ pc' = [pc EXCEPT ![t] = "loop"]

(* After TakeBarrier: a new cid means the context was handed away, and the *)
(* only safe option is to return at once; the same cid loops again.       *)
Return(t) ==
  /\ pc' = [pc EXCEPT ![t] = IF cid[t] # callCid[t] THEN "app" ELSE "loop"]

ReturnStep(t) ==
  /\ pc[t] = "ret" /\ Return(t)
  /\ UNCHANGED <<curCycle, phaseEndCycle, cid, core, callCid, globPhaseCycles, bbls>>

(* The thread exits: the scheduler calls leave(), which changes no core    *)
(* state the model keeps, and frees the context.                           *)
Exit(t) ==
  /\ pc[t] = "app" /\ bbls[t] = MaxBbls
  /\ cid' = [cid EXCEPT ![t] = NoCore]
  /\ pc' = [pc EXCEPT ![t] = "done"]
  /\ UNCHANGED <<curCycle, phaseEndCycle, core, callCid, globPhaseCycles, bbls>>

-----------------------------------------------------------------------------
(* The constructors: curCycle 0, phaseEndCycle one phase on.               *)
Init ==
  /\ curCycle = [c \in Cores |-> 0]
  /\ phaseEndCycle = [c \in Cores |-> PhaseLength]
  /\ cid = [t \in Threads |-> NoCore]
  /\ core = [t \in Threads |-> NoCore]
  /\ callCid = [t \in Threads |-> NoCore]
  /\ pc = [t \in Threads |-> "new"]
  /\ globPhaseCycles = 0
  /\ bbls = [t \in Threads |-> 0]

ThreadStep(t) ==
  \/ \E c \in Cores, d \in JoinDeltas : Admit(t, c, d)
  \/ \E lat \in BblLats : BblFunc(t, lat)
  \/ LoopStep(t)
  \/ ReturnStep(t)
  \/ Exit(t)

Next == Release \/ \E t \in Threads : ThreadStep(t)

(* Every thread keeps running its application while it can, and the        *)
(* barrier opens once everyone holding a core has arrived.                 *)
Fairness == WF_vars(Release) /\ \A t \in Threads : WF_vars(ThreadStep(t))

Spec == Init /\ [][Next]_vars /\ Fairness

-----------------------------------------------------------------------------
(* Types; a thread in the loop works on a core object.                     *)
TypeOK ==
  /\ curCycle \in [Cores -> Nat] /\ phaseEndCycle \in [Cores -> Nat]
  /\ cid \in [Threads -> Cores \cup {NoCore}]
  /\ core \in [Threads -> Cores \cup {NoCore}]
  /\ callCid \in [Threads -> Cores \cup {NoCore}]
  /\ pc \in [Threads -> ThreadPcs]
  /\ globPhaseCycles \in Nat
  /\ bbls \in [Threads -> 0..MaxBbls]
  /\ \A t \in Threads : pc[t] = "loop" => core[t] \in Cores

(* The thread that touches a core's state: in the loop, the core object it *)
(* captured on entry; running or just back from TakeBarrier, its context.  *)
Touches(t, c) ==
  \/ pc[t] = "loop" /\ core[t] = c
  \/ pc[t] \in {"app", "ret"} /\ cid[t] = c

(* Single writer (spec.md, scheduling model): the break on newCid != cid   *)
(* in BblFunc keeps a migrated thread from racing the thread that now owns *)
(* its old core, so no two threads ever touch one core.                    *)
SingleWriter ==
  \A c \in Cores : Cardinality({t \in Threads : Touches(t, c)}) <= 1

(* Phase accounting, which the BblFunc comment fears may double-count: a   *)
(* running thread's core stops exactly one phase past the global clock,    *)
(* whether the thread stayed, migrated, or came back to the same core      *)
(* after another thread used it.                                           *)
PhaseEndAligned ==
  \A t \in Threads :
    /\ pc[t] \in {"app", "ret"} /\ cid[t] # NoCore
         => phaseEndCycle[cid[t]] = globPhaseCycles + PhaseLength
    /\ pc[t] = "loop" => phaseEndCycle[core[t]] = globPhaseCycles + PhaseLength

(* Every thread runs to completion: no thread waits in the barrier loop    *)
(* forever, whatever the scheduler does with the cores.                    *)
Termination == <>(\A t \in Threads : pc[t] = "done")
=============================================================================
