-------------------------------- MODULE Tage --------------------------------
(***************************************************************************)
(* The TAGE conditional-branch direction predictor of src/src/tage.cpp.    *)
(*                                                                         *)
(* State: the 64-bit global history, the 128-entry base predictor of       *)
(* 3-bit counters, TableNum tagged tables of 2^IndexSize entries each, the *)
(* useAltOnNa counter, and the lookup scratch (providerIndex, ...) that    *)
(* GetTagePredictions leaves behind for UpdatePredictor.                   *)
(*                                                                         *)
(* The only operation the repository uses is predict(): GetPrediction     *)
(* followed by UpdatePredictor on the same PC, as one step.  Index and tag *)
(* hashing are pure operators that fold the history exactly as the code    *)
(* does, including mybitset::set ignoring its value argument.             *)
(***************************************************************************)
EXTENDS Integers, FiniteSets, FiniteSetsExt, Functions

CONSTANTS
  TableNum,     \* table_num: number of tagged tables (<= 8)
  IndexSize,    \* index_size: log2 of the number of entries of a table
  Pcs,          \* branch PCs (naturals) presented to predict()
  MaxBranches   \* bound on the number of predict() calls

ASSUME TableNum \in 1..8
ASSUME IndexSize \in 1..16
ASSUME Pcs \subseteq Nat
ASSUME MaxBranches \in Nat

\* Size definitions of tage.h.
T0_COUNTER_MAX == 7
TI_COUNTER_MAX == 7
USE_ALT_COUNTER_MAX == 7
BASE_PREDICTOR_SIZE == 128
TAGE_TAG_SIZE == 14
HIST_BUFFER_SIZE == 64
hist_lengths == [t \in 1..8 |-> 8 * t]   \* HIST_LENGTH_1 .. HIST_LENGTH_8

Tables == 1..TableNum
Entries == 0..(2^IndexSize - 1)
HistPos == 0..(HIST_BUFFER_SIZE - 1)
TageEntry == [counter : 0..TI_COUNTER_MAX,
              tag     : 0..(2^TAGE_TAG_SIZE - 1),
              useful  : BOOLEAN]

VARIABLES
  historyBuffer,     \* bit i of the history, 0 = newest outcome
  basePredictor,     \* 3-bit counters indexed by PC mod 128
  tage,              \* tage[t][i]: entry i of tagged table t
  useAltOnNa,        \* 3-bit counter preferring alt when provider is new
  providerIndex,     \* scratch of the last lookup: provider table (0 = base)
  providerPredIndex, \* scratch: provider entry index
  altProviderIndex,  \* scratch: alt provider table (0 = base)
  providerPred,      \* scratch: provider's direction
  altProviderPred,   \* scratch: alt provider's direction
  predictResult,     \* value returned by the last predict(): taken == pred
  branches           \* number of predict() calls so far (model bound)

predVars == <<historyBuffer, basePredictor, tage, useAltOnNa, providerIndex,
              providerPredIndex, altProviderIndex, providerPred,
              altProviderPred, predictResult>>
vars == <<predVars, branches>>

-----------------------------------------------------------------------------
(* Bit helpers over naturals; history bits are 0 or 1.                     *)
Bit(x, i) == (x \div 2^i) % 2
B2N(b) == IF b THEN 1 ELSE 0

(* The folding loop of GetTageTag/GetTageIndex over a window of width w,   *)
(* for sm = 0, lg = hist_length-1 while sm <= lg: shift left, xor the old  *)
(* top bit and history[sm] into bit 0, the old bit w/2-1 and history[lg]   *)
(* into bit w/2.  The loop is linear over GF(2), so it is computed once    *)
(* symbolically: bit j of the result is the parity of the history bits in  *)
(* fold[j] (a set; xor is symmetric difference).                           *)
RECURSIVE FoldHistory(_, _, _, _)
FoldHistory(w, fold, sm, lg) ==
  IF sm > lg THEN fold
  ELSE FoldHistory(w, [j \in 0..(w - 1) |->
                         CASE j = 0        -> SymDiff(fold[w - 1], {sm})
                           [] j = w \div 2 -> SymDiff(fold[(w \div 2) - 1], {lg})
                           [] OTHER        -> fold[j - 1]],
                   sm + 1, lg - 1)

(* The same loop in GetTageIndex runs on a mybitset whose set(pos, val)    *)
(* always writes 1: history bits, lastVal and midVal are all discarded and *)
(* the folded value depends on the table only.                             *)
RECURSIVE FoldMyBitset(_, _, _)
FoldMyBitset(s, sm, lg) ==
  IF sm > lg THEN s
  ELSE LET shifted == (2 * s) % 2^IndexSize
           low     == shifted + (1 - Bit(shifted, 0))
       IN FoldMyBitset(low + (1 - Bit(low, IndexSize \div 2)) * 2^(IndexSize \div 2),
                       sm + 1, lg - 1)

TagFold == [t \in Tables |->
              FoldHistory(TAGE_TAG_SIZE, [j \in 0..(TAGE_TAG_SIZE - 1) |-> {}],
                          0, hist_lengths[t] - 1)]
IndexFold == [t \in Tables |-> FoldMyBitset(0, 0, hist_lengths[t] - 1)]

Parity(positions) == Cardinality({p \in positions : historyBuffer[p] = 1}) % 2

(* subHistory.to_ulong() ^ (PC & idx_mask)                                 *)
GetTageIndex(pc, t) ==
  SumFunction([j \in 0..(IndexSize - 1) |-> 2^j * ((Bit(IndexFold[t], j) + Bit(pc, j)) % 2)])

(* subHistory.to_ulong() ^ (PC & tag_mask)                                 *)
GetTageTag(pc, t) ==
  SumFunction([j \in 0..(TAGE_TAG_SIZE - 1) |-> 2^j * ((Parity(TagFold[t][j]) + Bit(pc, j)) % 2)])

BaseIndex(pc) == pc % BASE_PREDICTOR_SIZE

-----------------------------------------------------------------------------
(* GetTagePredictions: the provider is the longest-history table whose     *)
(* tag matches, the alt provider the next one; a missing one falls back to *)
(* the base predictor.  Alt reads a tagged counter with >=, the provider   *)
(* with > (kept from the code).  Returns the scratch as a record.          *)
GetTagePredictions(pc) ==
  LET hits == {t \in Tables : tage[t][GetTageIndex(pc, t)].tag = GetTageTag(pc, t)}
      prov == IF hits = {} THEN 0 ELSE Max(hits)
      rest == hits \ {prov}
      alt  == IF rest = {} THEN 0 ELSE Max(rest)
      baseTaken == basePredictor[BaseIndex(pc)] > T0_COUNTER_MAX \div 2
  IN [providerIndex     |-> prov,
      providerPredIndex |-> IF prov = 0 THEN BaseIndex(pc) ELSE GetTageIndex(pc, prov),
      providerPred      |-> IF prov = 0 THEN baseTaken
                            ELSE tage[prov][GetTageIndex(pc, prov)].counter > TI_COUNTER_MAX \div 2,
      altProviderIndex  |-> alt,
      altProviderPred   |-> IF alt = 0 THEN baseTaken
                            ELSE tage[alt][GetTageIndex(pc, alt)].counter >= TI_COUNTER_MAX \div 2,
      usefulBitNull     |-> prov # 0 /\ ~tage[prov][GetTageIndex(pc, prov)].useful]

(* GetPrediction: use alt when the provider is not useful and useAltOnNa   *)
(* is above half.                                                          *)
GetPrediction(l) ==
  IF l.usefulBitNull /\ useAltOnNa > USE_ALT_COUNTER_MAX \div 2
  THEN l.altProviderPred ELSE l.providerPred

(* Mutant: the increment guard is off by one.                             *)
CounterStepOffByOne(c, resolveDir) ==
  IF ~resolveDir /\ c > 0 THEN c - 1
  ELSE IF resolveDir /\ c <= T0_COUNTER_MAX THEN c + 1
  ELSE c

(* UpdateProviderCounter's saturating step (bound T0_COUNTER_MAX for both  *)
(* base and tagged counters, as in the code).                              *)
CounterStep(c, resolveDir) ==
  IF ~resolveDir /\ c > 0 THEN c - 1
  ELSE IF resolveDir /\ c < T0_COUNTER_MAX THEN c + 1
  ELSE c

NewEntry(pc, t) == [counter |-> TI_COUNTER_MAX \div 2, tag |-> GetTageTag(pc, t), useful |-> FALSE]

(* Mutant: allocation ignores the useful bit of the victim.                *)
AllocateNoUsefulGuard(tg, pc, prov) ==
  LET cand == (prov + 1)..TableNum
      free == cand
      stop == IF free = {} THEN TableNum + 1 ELSE Min(free)
  IN [t \in Tables |->
        IF t = stop THEN [tg[t] EXCEPT ![GetTageIndex(pc, t)] = NewEntry(pc, t)]
        ELSE IF t \in cand /\ t < stop THEN [tg[t] EXCEPT ![GetTageIndex(pc, t)].useful = FALSE]
        ELSE tg[t]]

(* Mutant: the allocation loop starts at the provider's own table.         *)
AllocateFromProvider(tg, pc, prov) ==
  LET cand == Max({prov, 1})..TableNum
      free == {t \in cand : ~tg[t][GetTageIndex(pc, t)].useful}
      stop == IF free = {} THEN TableNum + 1 ELSE Min(free)
  IN [t \in Tables |->
        IF t = stop THEN [tg[t] EXCEPT ![GetTageIndex(pc, t)] = NewEntry(pc, t)]
        ELSE IF t \in cand /\ t < stop THEN [tg[t] EXCEPT ![GetTageIndex(pc, t)].useful = FALSE]
        ELSE tg[t]]

(* AllocateNewEntries: walk the tables longer than the provider; the first *)
(* whose cell is not useful receives a fresh entry (MAX_ALLOCATIONS = 1),  *)
(* every useful cell passed over before it has its useful bit cleared.     *)
AllocateNewEntries(tg, pc, prov) ==
  LET cand == (prov + 1)..TableNum
      free == {t \in cand : ~tg[t][GetTageIndex(pc, t)].useful}
      stop == IF free = {} THEN TableNum + 1 ELSE Min(free)
  IN [t \in Tables |->
        IF t = stop THEN [tg[t] EXCEPT ![GetTageIndex(pc, t)] = NewEntry(pc, t)]
        ELSE IF t \in cand /\ t < stop THEN [tg[t] EXCEPT ![GetTageIndex(pc, t)].useful = FALSE]
        ELSE tg[t]]

(* UpdateHistory: shift left, newest outcome into bit 0.                   *)
UpdateHistory(resolveDir) ==
  [i \in HistPos |-> IF i = 0 THEN B2N(resolveDir) ELSE historyBuffer[i - 1]]

(* UpdatePredictor, driven by the scratch l of the preceding lookup:      *)
(* counter update, allocation on a misprediction, useful bit and           *)
(* useAltOnNa when alt and provider disagree, history shift.               *)
UpdatePredictor(pc, resolveDir, predDir, l) ==
  LET prov     == l.providerIndex
      idx      == l.providerPredIndex
      t1       == IF prov = 0 THEN tage
                  ELSE [tage EXCEPT ![prov][idx].counter = CounterStep(@, resolveDir)]
      t2       == IF resolveDir # predDir THEN AllocateNewEntries(t1, pc, prov) ELSE t1
      disagree == l.altProviderPred # l.providerPred
      altRight == l.altProviderPred = resolveDir
  IN /\ basePredictor' = IF prov = 0
                         THEN [basePredictor EXCEPT ![idx] = CounterStep(@, resolveDir)]
                         ELSE basePredictor
     /\ tage' = IF disagree /\ prov > 0
                THEN [t2 EXCEPT ![prov][idx].useful = ~altRight]
                ELSE t2
     /\ useAltOnNa' = CASE ~disagree -> useAltOnNa
                        [] altRight  -> IF useAltOnNa < USE_ALT_COUNTER_MAX THEN useAltOnNa + 1 ELSE useAltOnNa
                        [] OTHER     -> IF useAltOnNa > 0 THEN useAltOnNa - 1 ELSE useAltOnNa
     /\ historyBuffer' = UpdateHistory(resolveDir)

(* predict(branchPc, taken, target): predict, update, return taken==pred.  *)
Predict(pc, taken) ==
  LET l    == GetTagePredictions(pc)
      pred == GetPrediction(l)
  IN /\ UpdatePredictor(pc, taken, pred, l)
     /\ providerIndex' = l.providerIndex
     /\ providerPredIndex' = l.providerPredIndex
     /\ altProviderIndex' = l.altProviderIndex
     /\ providerPred' = l.providerPred
     /\ altProviderPred' = l.altProviderPred
     /\ predictResult' = (taken = pred)

(* BranchPredictorTage constructor.                                        *)
InitPredictor ==
  /\ historyBuffer = [i \in HistPos |-> 0]
  /\ basePredictor = [i \in 0..(BASE_PREDICTOR_SIZE - 1) |-> T0_COUNTER_MAX \div 2]
  /\ tage = [t \in Tables |-> [i \in Entries |-> [counter |-> 0, tag |-> 0, useful |-> FALSE]]]
  /\ useAltOnNa = 0
  /\ providerIndex = -1
  /\ altProviderIndex = -1
  /\ providerPredIndex = 99999
  /\ providerPred = FALSE
  /\ altProviderPred = FALSE
  /\ predictResult = TRUE

Init == InitPredictor /\ branches = 0

(* FetchModel calls predict() with any conditional branch it meets.        *)
Next ==
  /\ branches < MaxBranches
  /\ \E pc \in Pcs, taken \in BOOLEAN : Predict(pc, taken)
  /\ branches' = branches + 1

Spec == Init /\ [][Next]_vars

-----------------------------------------------------------------------------
(* Types of the predictor state; the counters stay within their saturation *)
(* bounds under UpdateProviderCounter and the useAltOnNa update.           *)
TypeOK ==
  /\ historyBuffer \in [HistPos -> {0, 1}]
  /\ basePredictor \in [0..(BASE_PREDICTOR_SIZE - 1) -> 0..T0_COUNTER_MAX]
  /\ tage \in [Tables -> [Entries -> TageEntry]]
  /\ useAltOnNa \in 0..USE_ALT_COUNTER_MAX
  /\ providerIndex \in {-1} \cup 0..TableNum
  /\ altProviderIndex \in {-1} \cup 0..TableNum
  /\ predictResult \in BOOLEAN
  /\ branches \in 0..MaxBranches

(* A tagged entry whose useful bit is set is never evicted: whatever step  *)
(* is taken, it keeps its tag (AllocateNewEntries only ages it).           *)
UsefulEntryNotReplaced ==
  [][\A t \in Tables, i \in Entries :
        tage[t][i].useful => tage'[t][i].tag = tage[t][i].tag]_vars

(* An update never disturbs the tables at or below the provider's history  *)
(* length: their tags are kept and the provider's counter moves by at most *)
(* one (allocation only reaches strictly longer tables).                   *)
NoAllocationAtOrBelowProvider ==
  [][\A t \in Tables : t <= providerIndex' =>
        \A i \in Entries : /\ tage'[t][i].tag = tage[t][i].tag
                           /\ tage'[t][i].counter - tage[t][i].counter \in {-1, 0, 1}]_vars

=============================================================================
