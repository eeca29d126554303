---------------------------- MODULE MCTageHashing ----------------------------
(***************************************************************************)
(* Checks GetTageIndex against the index hashing the specification         *)
(* describes (section 4.2): the last hist_lengths[t] outcomes folded into  *)
(* an index_size-bit value, exactly as GetTageTag folds them into 14 bits, *)
(* xor the PC.                                                             *)
(***************************************************************************)
EXTENDS Tage

(* Reference: the fold of GetTageTag at width IndexSize, xor PC & mask.    *)
SpecIndexFold == [t \in Tables |->
                    FoldHistory(IndexSize, [j \in 0..(IndexSize - 1) |-> {}],
                                0, hist_lengths[t] - 1)]

SpecTageIndex(pc, t) ==
  SumFunction([j \in 0..(IndexSize - 1) |-> 2^j * ((Parity(SpecIndexFold[t][j]) + Bit(pc, j)) % 2)])

(* The tagged-table index of every branch is the folded global history    *)
(* xor the PC, as section 4.2 describes GetTageIndex.                      *)
IndexFoldsHistory ==
  \A pc \in Pcs, t \in Tables : GetTageIndex(pc, t) = SpecTageIndex(pc, t)
=============================================================================
