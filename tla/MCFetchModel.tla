---------------------------- MODULE MCFetchModel ----------------------------
(* A two-BBL program for FetchModel: b1 is a 10-cycle op writing r1 and r2 *)
(* and a dependent op, and ends in the conditional branch at PC 1; b2 reads *)
(* r2 and ends without a conditional branch.                               *)
EXTENDS FetchModel

MCUop(rs, rd, lat, dec) == [rs |-> rs, rd |-> rd, lat |-> lat, decCycle |-> dec]

MCBbls == {"b1", "b2"}
MCBblInfo ==
  [b \in MCBbls |->
     IF b = "b1"
     THEN [bytes |-> 20, instrs |-> 2,
           uops |-> <<MCUop(<<0, 0>>, <<1, 2>>, 10, 0),
                      MCUop(<<1, 0>>, <<0, 0>>, 1, 1)>>]
     ELSE [bytes |-> 8, instrs |-> 1,
           uops |-> <<MCUop(<<2, 0>>, <<1, 0>>, 1, 0)>>]]
MCBranchOf == [b \in MCBbls |-> IF b = "b1" THEN 1 ELSE 0]
MCL1iLats == {0, 2}
MCJoinDeltas == {-4, 4}
MCCSimDeltas == {4}
=============================================================================
