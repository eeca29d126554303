------------------------------- MODULE MCLegos -------------------------------
(* The two legos.h structures IssueModel builds on, each driven by          *)
(* arbitrary calls and shown to implement its contract: a ReorderBuffer    *)
(* (markRetire with any requested cycle) implements ReorderBufferFifo      *)
(* under the mapping that takes the history of the cycles it retired at;   *)
(* a WindowStructure (schedule, advancePos, longAdvance) implements        *)
(* WindowCalendar under the mapping that reads the ring slot of every      *)
(* cycle of the horizon.  The two structures share no state, so each       *)
(* behaviour drives one of them (`subject`, fixed at Init): this checks    *)
(* each against its contract without multiplying their state spaces.      *)
EXTENDS ReorderBuffer, WindowStructure, Sequences

CONSTANTS
  Capacity, Width, Requests, MaxRetires,     \* the ReorderBuffer and its calls
  H, WinCap, Ports, Masks, Extras, Delays,   \* the window and its calls
  MaxPos                                     \* no call once the window is past it

VARIABLES rob,        \* the ReorderBuffer
          retireLog,  \* history: the cycle every markRetire retired at
          win,        \* the WindowStructure
          subject     \* the structure this behaviour drives

vars == <<rob, retireLog, win, subject>>

RobAbs == INSTANCE ReorderBufferFifo WITH retired <- retireLog

(* The horizon's cycles, and what the ring holds for each of them.         *)
Ahead == win.pos..(win.pos + H - 1)

WinAbs == INSTANCE WindowCalendar
            WITH Cap <- WinCap, Cycles <- 0..(MaxPos + Max(Delays)),
                 now <- win.pos,
                 res <- {r \in Ahead \X Ports : r[2] \in win.ring[Slot(win, r[1])].ports},
                 waiting <- [c \in {d \in Ahead : win.ring[Slot(win, d)].uops > 0} |->
                               win.ring[Slot(win, c)].uops]

Init == /\ rob = NewRob(Capacity) /\ retireLog = <<>>
        /\ win = NewWindow(H)
        /\ subject \in {"rob", "win"}

(* markRetire(c), as IssueModel calls it after each uop.                   *)
Retire(c) ==
  /\ subject = "rob" /\ Len(retireLog) < MaxRetires
  /\ rob' = MarkRetire(rob, c, Width)
  /\ retireLog' = Append(retireLog, rob'.curRetireCycle)
  /\ UNCHANGED <<win, subject>>

(* insWindow->advancePos(curCycle), as in the decode, issue-width and RF   *)
(* stalls of IssueModel::bbl.                                              *)
WinAdvancePos ==
  /\ subject = "win" /\ win.pos < MaxPos
  /\ win' = AdvancePos(win)
  /\ UNCHANGED <<rob, retireLog, subject>>

(* insWindow->longAdvance(curCycle, target), as in IssueModel::advance.    *)
WinLongAdvance(d) ==
  /\ subject = "win" /\ win.pos < MaxPos
  /\ win' = LongAdvance(win, win.pos + d)
  /\ UNCHANGED <<rob, retireLog, subject>>

(* insWindow->schedule(curCycle, dispatchCycle, portMask, extraSlots).      *)
WinSchedule(d, mask, x) ==
  /\ subject = "win" /\ win.pos < MaxPos
  /\ win' = Schedule(win, win.pos + d, mask, x, WinCap).win
  /\ UNCHANGED <<rob, retireLog, subject>>

Next ==
  \/ \E c \in Requests : Retire(c)
  \/ WinAdvancePos
  \/ WinLongAdvance(H + 1)
  \/ \E d \in Delays, mask \in Masks, x \in Extras : WinSchedule(d, mask, x)

Spec == Init /\ [][Next]_vars

(* Types of the ring, its index and the retire bundle, and of the window.  *)
TypeOK ==
  /\ rob.buf \in [0..(Capacity - 1) -> Nat]
  /\ rob.idx \in 0..(Capacity - 1)
  /\ rob.curCycleRetires \in 1..Width \/ retireLog = <<>>
  /\ win.pos \in Nat
  /\ win.ring \in [0..(H - 1) -> [ports : SUBSET Ports, uops : 0..WinCap]]
  /\ Occupancy(win) <= WinCap

(* The ring, its index and the retire bundle implement the FIFO contract: *)
(* each markRetire retires at the earliest admissible cycle.               *)
FifoRefinement == RobAbs!Spec

(* minAllocCycle() of the ring is the retire cycle of the entry Capacity   *)
(* insertions back (0 before the ring has wrapped).                        *)
MinAllocMatches == MinAllocCycle(rob) = RobAbs!AllocCycle

(* The window's ring implements the absolute-cycle calendar: every         *)
(* schedule() takes the earliest free cycle and port once the window has   *)
(* room, pushes curCycle only as far as the horizon needs, and no          *)
(* reservation of a past cycle survives into the cycle H later that reuses *)
(* its slot.                                                               *)
WindowRefinement == WinAbs!Spec
=============================================================================
