--------------------------- MODULE WindowStructure ---------------------------
(***************************************************************************)
(* WindowStructure of legos.h, IssueModel's instruction window insWindow.  *)
(* legos.h is not part of this repository; these operators follow spec.md *)
(* (sections 3, 4.6 and 4.7): a per-cycle port scheduler with a sliding    *)
(* horizon and a capacity of ins_win_cap uops.  schedule() finds the       *)
(* earliest cycle >= minCycle at which a port of portMask is free for      *)
(* extraSlots + 1 consecutive cycles, pushing curCycle forward while the   *)
(* window is full or the reservation would fall past the horizon;          *)
(* advancePos() moves one cycle on, longAdvance() several.                 *)
(*                                                                         *)
(* A window is a value, so that bbl() can thread it through its uops: the  *)
(* position `pos` (the core's curCycle) and a ring of one slot per cycle   *)
(* of the horizon, cycle c in slot c % H, holding the ports reserved in    *)
(* that cycle and the number of uops that dispatch in it.                  *)
(***************************************************************************)
EXTENDS Integers, FiniteSets, FiniteSetsExt

EmptySlot == [ports |-> {}, uops |-> 0]

(* A window of horizon h with nothing scheduled.                           *)
NewWindow(h) == [pos |-> 0, ring |-> [i \in 0..(h - 1) |-> EmptySlot]]

Horizon(w) == Cardinality(DOMAIN w.ring)
Slot(w, c) == c % Horizon(w)

(* Ports reserved in cycle c; nothing lies past the horizon.               *)
BusyAt(w, c) == IF c < w.pos + Horizon(w) THEN w.ring[Slot(w, c)].ports ELSE {}

(* The uops waiting in the window to dispatch.                             *)
Occupancy(w) == MapThenSumSet(LAMBDA i : w.ring[i].uops, DOMAIN w.ring)

(* Mutant form of AdvancePos: the slot left behind keeps its reservations. *)
AdvanceNoClear(w) == [w EXCEPT !.pos = @ + 1]

(* advancePos(curCycle): the current cycle's uops dispatch and leave, its  *)
(* slot is freed for cycle pos + H, and the window moves one cycle on.     *)
AdvancePos(w) == [w EXCEPT !.ring[Slot(w, w.pos)] = EmptySlot, !.pos = @ + 1]

(* longAdvance(curCycle, target): advancePos until pos reaches target.     *)
RECURSIVE LongAdvance(_, _)
LongAdvance(w, target) == IF w.pos >= target THEN w ELSE LongAdvance(AdvancePos(w), target)

(* Mutant form of FreePorts: the last cycle of the request is not checked. *)
FreePortsShort(w, mask, c, extra) == {p \in mask : \A k \in 0..(extra - 1) : p \notin BusyAt(w, c + k)}

(* Ports of mask free in each of the cycles c .. c + extra.                *)
FreePorts(w, mask, c, extra) == {p \in mask : \A k \in 0..extra : p \notin BusyAt(w, c + k)}

(* Mutant form of MakeRoom: a window holding cap uops takes one more.     *)
RECURSIVE MakeRoomLate(_, _)
MakeRoomLate(w, cap) == IF Occupancy(w) <= cap THEN w ELSE MakeRoomLate(AdvancePos(w), cap)

(* While the window is full, curCycle moves on until a uop has left.       *)
RECURSIVE MakeRoom(_, _)
MakeRoom(w, cap) == IF Occupancy(w) < cap THEN w ELSE MakeRoom(AdvancePos(w), cap)

(* schedule(curCycle, dispatchCycle, portMask, extraSlots): the earliest  *)
(* fit at or after minCycle and the current cycle, on the lowest free port *)
(* of the mask; curCycle is pushed until the last reserved cycle is inside *)
(* the horizon.  Cycles from pos + H on are free, which bounds the search. *)
Schedule(w, minCycle, mask, extra, cap) ==
  LET w1   == MakeRoom(w, cap)
      from == IF minCycle > w1.pos THEN minCycle ELSE w1.pos
      c    == Min({x \in from..(from + Horizon(w1)) : FreePorts(w1, mask, x, extra) # {}})
      p    == Min(FreePorts(w1, mask, c, extra))
      w2   == LongAdvance(w1, c + extra - Horizon(w1) + 1)
      held == {Slot(w2, c + k) : k \in 0..extra}
  IN [win   |-> [w2 EXCEPT !.ring = [i \in DOMAIN @ |->
                   IF i \in held
                   THEN [ports |-> @[i].ports \cup {p},
                         uops  |-> @[i].uops + (IF i = Slot(w2, c) THEN 1 ELSE 0)]
                   ELSE @[i]]],
      cycle |-> c,
      port  |-> p]
=============================================================================
