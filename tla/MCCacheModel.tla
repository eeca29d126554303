---------------------------- MODULE MCCacheModel ----------------------------
(* A two-BBL program for CacheModel: b1 has a long-latency load feeding a   *)
(* 16-cycle store address, an independent 1-cycle store address and a     *)
(* store; b2 has a fence, a two-destination ALU op and a load. The second  *)
(* store address commits before the first, so the store only waits for    *)
(* the first if lastStoreAddrCommitCycle keeps the maximum.                *)
EXTENDS CacheModel

MCUop(ty, rs, rd, lat, dec) == [type |-> ty, rs |-> rs, rd |-> rd, lat |-> lat, decCycle |-> dec]

MCBbls == {"b1", "b2"}
MCBblInfo ==
  [b \in MCBbls |->
     IF b = "b1"
     THEN [bytes |-> 20, instrs |-> 3,
           uops |-> <<MCUop("LOAD", <<0, 0>>, <<1, 0>>, 0, 0),
                      MCUop("STORE_ADDR", <<1, 0>>, <<0, 0>>, 16, 0),
                      MCUop("STORE_ADDR", <<0, 0>>, <<0, 0>>, 1, 1),
                      MCUop("STORE", <<2, 0>>, <<0, 0>>, 0, 1)>>]
     ELSE [bytes |-> 8, instrs |-> 2,
           uops |-> <<MCUop("FENCE", <<0, 0>>, <<0, 0>>, 1, 0),
                      MCUop("GENERAL", <<1, 0>>, <<1, 2>>, 10, 0),
                      MCUop("LOAD", <<2, 0>>, <<0, 0>>, 0, 1)>>]]
MCL1dLats == {0, 30}
MCJoinDeltas == {-4, 4}
MCCSimDeltas == {4}
MCAddrs == {"A"}
=============================================================================
