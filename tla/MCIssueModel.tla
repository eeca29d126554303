---------------------------- MODULE MCIssueModel ----------------------------
(* Programs for IssueModel.  The LSU program: b1 is a one-cycle op, a    *)
(* store of r1, a fence and a load; b2 is a store address, a load and a    *)
(* 10-cycle op writing r1 and r2, which b1's store waits for when b1       *)
(* follows b2; b3 is two loads, which contend for the load queue.  The     *)
(* issue program (c1): two uops that read two old registers each, then     *)
(* two that read none.  The forwarding program (s4, spec S4): a 10-cycle  *)
(* op feeding a store, then a load of the same address.                   *)
EXTENDS IssueModel

(* Memory uops go to port 1, the others to port 0; a uop longer than one   *)
(* cycle holds its port for one more cycle (extraSlots).                   *)
MCUop(ty, rs, rd, lat, dec) ==
  [type |-> ty, rs |-> rs, rd |-> rd, lat |-> lat, decCycle |-> dec,
   portMask |-> IF ty \in {"LOAD", "STORE", "STORE_ADDR"} THEN {1} ELSE {0},
   extraSlots |-> IF lat > 1 THEN 1 ELSE 0]

LsuBbls == {"b1", "b2", "b3"}
LsuBblInfo ==
  [b \in LsuBbls |->
     IF b = "b3"
     THEN [instrs |-> 2,
           uops |-> <<MCUop("LOAD", <<0, 0>>, <<0, 0>>, 0, 0),
                      MCUop("LOAD", <<0, 0>>, <<0, 0>>, 0, 0)>>]
     ELSE IF b = "b1"
     THEN [instrs |-> 4,
           uops |-> <<MCUop("GENERAL", <<0, 0>>, <<0, 0>>, 1, 0),
                      MCUop("STORE", <<1, 0>>, <<0, 0>>, 0, 0),
                      MCUop("FENCE", <<0, 0>>, <<0, 0>>, 1, 1),
                      MCUop("LOAD", <<0, 0>>, <<2, 0>>, 0, 1)>>]
     ELSE [instrs |-> 3,
           uops |-> <<MCUop("STORE_ADDR", <<2, 0>>, <<0, 0>>, 1, 0),
                      MCUop("LOAD", <<0, 0>>, <<0, 0>>, 0, 0),
                      MCUop("GENERAL", <<1, 0>>, <<1, 2>>, 10, 1)>>]]

IssueBbls == {"c1"}
IssueBblInfo ==
  [b \in IssueBbls |->
     [instrs |-> 4,
      uops |-> <<MCUop("GENERAL", <<1, 2>>, <<0, 0>>, 1, 0),
                 MCUop("GENERAL", <<1, 2>>, <<0, 0>>, 1, 0),
                 MCUop("GENERAL", <<0, 0>>, <<0, 0>>, 1, 0),
                 MCUop("GENERAL", <<0, 0>>, <<0, 0>>, 1, 0)>>]]

(* Four uops that each read two registers written long before.            *)
RfBbls == {"r4"}
RfBblInfo ==
  [b \in RfBbls |->
     [instrs |-> 4,
      uops |-> [i \in 1..4 |-> MCUop("GENERAL", <<1, 2>>, <<0, 0>>, 1, 0)]]]

FwdBbls == {"s4"}
FwdBblInfo ==
  [b \in FwdBbls |->
     [instrs |-> 3,
      uops |-> <<MCUop("GENERAL", <<0, 0>>, <<1, 0>>, 10, 0),
                 MCUop("STORE", <<1, 0>>, <<0, 0>>, 0, 0),
                 MCUop("LOAD", <<0, 0>>, <<0, 0>>, 0, 2)>>]]

MCAddrs == {512}
MCGarbageAddrs == {0, 512}
OneGarbageAddr == {512}
MCGarbageCycles == {0, 20}
MCJoinDeltas == {-4, 4}
MCCSimDeltas == {4}
=============================================================================
