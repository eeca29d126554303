--------------------------- MODULE WindowCalendar ---------------------------
(***************************************************************************)
(* What an instruction window of horizon H, capacity Cap and ports Ports   *)
(* promises, stated over absolute cycles rather than a ring: the           *)
(* reservations `res` (cycle, port) still ahead of the current cycle       *)
(* `now`, and the bag `waiting` of the dispatch cycles of the uops not yet *)
(* dispatched.  A schedule request first waits for room, then takes the   *)
(* earliest cycle, and the lowest port, free for the whole request, then   *)
(* moves `now` just far enough for the request to end inside the horizon.  *)
(***************************************************************************)
EXTENDS Integers, FiniteSets, FiniteSetsExt, Bags

CONSTANTS H, Cap, Ports, Masks, Extras, Cycles

VARIABLES now, res, waiting

Busy(c) == {p \in Ports : <<c, p>> \in res}

(* The uops still waiting once every cycle before n has passed.            *)
WaitingFrom(n) == MapThenSumSet(LAMBDA d : waiting[d], {d \in DOMAIN waiting : d >= n})

(* What is left of the waiting uops once every cycle before n has passed.  *)
WaitingAfter(n) == [d \in {e \in DOMAIN waiting : e >= n} |-> waiting[d]]

Free(mask, c, extra) == {p \in mask : \A k \in 0..extra : p \notin Busy(c + k)}

Init == now = 0 /\ res = {} /\ waiting = EmptyBag

(* Time passes: the cycles before the new `now` are forgotten.             *)
Advance ==
  /\ now' > now
  /\ res' = {r \in res : r[1] >= now'}
  /\ waiting' = WaitingAfter(now')

Schedule(minCycle, mask, extra) ==
  LET room == Min({n \in now..(now + H) : WaitingFrom(n) < Cap})
      from == IF minCycle > room THEN minCycle ELSE room
      c    == Min({x \in from..(from + H) : Free(mask, x, extra) # {}})
      p    == Min(Free(mask, c, extra))
      n    == IF c + extra - H + 1 > room THEN c + extra - H + 1 ELSE room
  IN /\ now' = n
     /\ res' = {r \in res : r[1] >= n} \cup {<<c + k, p>> : k \in 0..extra}
     /\ waiting' = WaitingAfter(n) (+) SetToBag({c})

Next == Advance \/ \E m \in Cycles, mask \in Masks, x \in Extras : Schedule(m, mask, x)

Spec == Init /\ [][Next]_<<now, res, waiting>>
=============================================================================
