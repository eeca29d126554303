------------------------------- MODULE MCTage -------------------------------
(* Two tagged tables of four entries; PCs 1 and 5 share every tagged index *)
(* (PC mod 4) but differ in tag, so entries of one branch alias the other. *)
EXTENDS Tage

MCTableNum == 2
MCIndexSize == 2
MCPcs == {1, 5}
MCMaxBranches == 9
=============================================================================
