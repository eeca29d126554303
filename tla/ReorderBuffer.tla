--------------------------- MODULE ReorderBuffer ---------------------------
(***************************************************************************)
(* ReorderBuffer(capacity, width) and CycleQueue(capacity) of legos.h,     *)
(* which IssueModel uses for its ROB, load queue, store queue and uop      *)
(* queue.  legos.h is not part of this repository; these operators follow  *)
(* spec.md section 4: a ReorderBuffer is a FIFO of retire cycles,          *)
(* minAllocCycle() is the earliest cycle an insertion may occur given the  *)
(* capacity and the width, markRetire(cycle) records a retirement; a       *)
(* CycleQueue is the same FIFO for the uop-queue bandwidth, markLeave()    *)
(* recording an exit.                                                      *)
(*                                                                         *)
(* A buffer is a value, so that one bbl() step can thread it through the   *)
(* uops of a BBL: a ring `buf` of the last `capacity` retire cycles, the   *)
(* slot `idx` written next (the oldest entry), and the retire bundle       *)
(* (`curRetireCycle`, `curCycleRetires`) that bounds retirements per cycle.*)
(***************************************************************************)
EXTENDS Naturals, FiniteSets

(* A new structure of the given capacity: every slot free since cycle 0.   *)
NewRob(capacity) ==
  [buf |-> [i \in 0..(capacity - 1) |-> 0], idx |-> 0,
   curRetireCycle |-> 0, curCycleRetires |-> 0]

RingSize(r) == Cardinality(DOMAIN r.buf)

(* The slot after i in the ring. *)
NextSlot(r, i) == (i + 1) % RingSize(r)

(* Mutant form of MinAllocCycle: reads the newest entry.                 *)
MinAllocNewest(r) == r.buf[(r.idx + RingSize(r) - 1) % RingSize(r)]

(* minAllocCycle(): an insertion reuses the slot of the entry inserted     *)
(* `capacity` insertions ago, so it may not happen before that retired.    *)
MinAllocCycle(r) == r.buf[r.idx]

(* Mutant form of RetireCycle: the bundle admits width + 1 retirements.    *)
RetireCycleOverfull(r, c, width) ==
  IF c > r.curRetireCycle THEN c
  ELSE IF r.curCycleRetires <= width THEN r.curRetireCycle
  ELSE r.curRetireCycle + 1

(* The cycle markRetire(c) retires at: in order, never before c, and at    *)
(* most `width` retirements per cycle.                                     *)
RetireCycle(r, c, width) ==
  IF c > r.curRetireCycle THEN c
  ELSE IF r.curCycleRetires < width THEN r.curRetireCycle
  ELSE r.curRetireCycle + 1

(* markRetire(c): record the retirement in the oldest slot.                *)
MarkRetire(r, c, width) ==
  LET rc == RetireCycle(r, c, width)
  IN [buf |-> [r.buf EXCEPT ![r.idx] = rc],
      idx |-> NextSlot(r, r.idx),
      curRetireCycle |-> rc,
      curCycleRetires |-> IF rc = r.curRetireCycle THEN r.curCycleRetires + 1 ELSE 1]

(* CycleQueue::markLeave(c): the uop queue frees its oldest entry at c.    *)
MarkLeave(q, c) ==
  [q EXCEPT !.buf[q.idx] = c, !.idx = NextSlot(q, q.idx)]
=============================================================================
