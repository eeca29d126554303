------------------------------ MODULE CacheModel ------------------------------
(***************************************************************************)
(* The CacheModel timing core of src/src/MeMo/CacheModel.{h,cpp}: one core *)
(* driven by the instrumentation callbacks of the thread that owns it.     *)
(*                                                                         *)
(*  - LoadFunc/StoreFunc/PredLoadFunc/PredStoreFunc buffer the addresses   *)
(*    of the memory ops of the BBL being executed;                         *)
(*  - BblFunc simulates the previous BBL uop by uop (decode clock, register *)
(*    scoreboard, LSU ordering against store addresses and fences), fetches *)
(*    the new BBL, then yields at the phase barrier while curCycle is past  *)
(*    phaseEndCycle, possibly losing the core;                             *)
(*  - join/leave/contextSwitch/cSimStart/cSimEnd come from the scheduler   *)
(*    and the contention model.                                            *)
(*                                                                         *)
(* External collaborators are abstracted to their contracts: the filter    *)
(* cache answers a request at reqCycle + a latency from L1dLats; the       *)
(* contention recorder returns join and cSim targets; TakeBarrier either   *)
(* keeps the thread on this core or moves it away.  cRec.record calls and  *)
(* the periodic stats dump change no state of the core and are omitted.    *)
(*                                                                         *)
(* The ghost variable trace records every simulated uop with its dispatch  *)
(* and commit cycles, in program order, for the ordering properties.       *)
(***************************************************************************)
EXTENDS Integers, Sequences, FiniteSets, FiniteSetsExt

CONSTANTS
  Bbls,          \* basic blocks the thread may execute
  BblInfo,       \* BblInfo[b]: [bytes, instrs, uops: Seq of DynUop records]
  NumRegs,       \* architectural registers 0..NumRegs-1 (0 = none)
  LineSize,      \* 1 << lineBits
  PhaseLength,   \* zinfo->phaseLength
  L1dLats,       \* latencies the filter cache may add to a data access
  JoinDeltas,    \* cRec.notifyJoin(curCycle) - curCycle, may be negative
  CSimDeltas,    \* cRec.cSimStart/End(curCycle) - curCycle, >= 0
  MemSlots,      \* capacity of loadAddrs/storeAddrs (256 in the code)
  Addrs,         \* data addresses the thread may access
  NoAddr,        \* the predicated-false sentinel (Address)-1
  NoBbl,         \* prevBbl == nullptr
  MaxBbls,       \* bound on BblFunc calls
  MaxSched       \* bound on scheduler and contention-model calls

UopTypes == {"GENERAL", "LOAD", "STORE", "STORE_ADDR", "FENCE"}
Regs == 0..(NumRegs - 1)

ASSUME NoAddr \notin Addrs /\ NoBbl \notin Bbls
ASSUME \A b \in Bbls :
         /\ BblInfo[b].bytes \in Nat /\ BblInfo[b].instrs \in Nat
         /\ \A i \in DOMAIN BblInfo[b].uops :
              LET u == BblInfo[b].uops[i] IN
              /\ u.type \in UopTypes /\ u.lat \in Nat /\ u.decCycle \in Nat
              /\ {u.rs[1], u.rs[2], u.rd[1], u.rd[2]} \subseteq Regs
ASSUME \A d \in CSimDeltas : d >= 0
\* The decoder numbers decode cycles in program order, so decDiff never wraps.
ASSUME \A b \in Bbls : \A i \in DOMAIN BblInfo[b].uops : i > 1 =>
         BblInfo[b].uops[i].decCycle >= BblInfo[b].uops[i - 1].decCycle
\* Every BBL's loads and stores fit in loadAddrs/storeAddrs.
ASSUME \A b \in Bbls : \A ty \in {"LOAD", "STORE"} :
         Cardinality({i \in DOMAIN BblInfo[b].uops : BblInfo[b].uops[i].type = ty}) <= MemSlots

\* Pipeline constants of CacheModel.cpp.
FETCH_STAGE == 1
DECODE_STAGE == 4
ISSUE_STAGE == 7
DISPATCH_STAGE == 13
L1I_LAT == 3
L1D_LAT == 4

VARIABLES
  curCycle, decodeCycle, phaseEndCycle,
  regScoreboard,                 \* [Regs -> cycle]
  prevBbl,                       \* deferred BBL or NoBbl
  loadAddrs, storeAddrs,         \* [0..MemSlots-1 -> Addrs \cup {NoAddr}]
  loads, stores,
  lastStoreCommitCycle, lastStoreAddrCommitCycle,
  instrs,
  \* environment: the owning thread's instrumentation and the scheduler
  owned,                         \* a thread runs on this core
  ctx,                           \* "own": the thread that left resumes here; "gone": it
                                 \* migrated away; "free": handed away or never used
  pendingOps,                    \* memory ops of the current BBL not yet delivered
  globPhaseCycles,               \* zinfo->globPhaseCycles
  bblCalls, schedCalls,          \* model bounds
  trace                          \* ghost: simulated uops with their timing

coreVars == <<curCycle, decodeCycle, phaseEndCycle, regScoreboard, prevBbl,
              loadAddrs, storeAddrs, loads, stores, lastStoreCommitCycle,
              lastStoreAddrCommitCycle, instrs>>
envVars == <<owned, ctx, pendingOps, globPhaseCycles, bblCalls, schedCalls>>
vars == <<coreVars, envVars, trace>>

Max2(a, b) == IF a >= b THEN a ELSE b

(* Kinds of the memory callbacks BBL b issues, in program order.           *)
MemOpsOf(b) == LET u == BblInfo[b].uops
                   isMem(i) == u[i].type \in {"LOAD", "STORE"}
               IN [k \in 1..Cardinality({i \in DOMAIN u : isMem(i)}) |->
                     u[CHOOSE i \in DOMAIN u :
                         isMem(i) /\ Cardinality({j \in 1..i : isMem(j)}) = k].type]
CountOf(b, ty) == Cardinality({i \in DOMAIN BblInfo[b].uops : BblInfo[b].uops[i].type = ty})

-----------------------------------------------------------------------------
(* Mutant forms of the helpers below.                                      *)
FenceIgnoresStores(ty, commit, lsac, lsc) ==
  CASE ty = "STORE_ADDR" -> Max2(lsac, commit)
    [] ty = "FENCE" -> Max2(commit, lsac)
    [] OTHER -> lsac
RecordFirstDest(sb, rd, commit) == [sb EXCEPT ![rd[1]] = commit]

(* lastStoreAddrCommitCycle after a uop of type ty commits at commit:      *)
(* store addresses raise it, a fence raises it past every older store.     *)
StoreAddrBarrier(ty, commit, lsac, lsc) ==
  CASE ty = "STORE_ADDR" -> Max2(lsac, commit)
    [] ty = "FENCE" -> Max2(commit, Max2(lsac, lsc))
    [] OTHER -> lsac

(* "Record dependences": both destinations become ready at commit.         *)
RecordDependences(sb, rd, commit) == [sb EXCEPT ![rd[1]] = commit, ![rd[2]] = commit]

(* One iteration of the dispatch/IW loop of bbl() for uop u, on the loop   *)
(* state st; lat is the filter-cache latency l1d adds if u accesses it.    *)
SimUop(st, u, lat) ==
  LET decDiff  == u.decCycle - st.prevDecCycle   \* uint32_t: no wrap, decCycles ascend
      dec      == st.decodeCycle + decDiff
      cur1     == Max2(st.curCycle, dec)
      sb       == [st.regScoreboard EXCEPT ![0] = cur1]
      cOps     == Max2(sb[u.rs[1]], sb[u.rs[2]])
      disp0    == Max2(cOps, cur1 + (DISPATCH_STAGE - ISSUE_STAGE))
      memDisp  == Max2(st.lastStoreAddrCommitCycle + 1, disp0)
      ldAddr   == loadAddrs[st.loadIdx]
      disp     == IF u.type \in {"LOAD", "STORE"} THEN memDisp ELSE disp0
      commit   == CASE u.type = "LOAD" ->
                         IF ldAddr = NoAddr THEN memDisp ELSE memDisp + lat + L1D_LAT
                    [] u.type = "STORE" -> memDisp + lat + L1D_LAT
                    [] OTHER -> disp0 + u.lat
      lsc      == IF u.type = "STORE" THEN Max2(st.lastStoreCommitCycle, commit)
                  ELSE st.lastStoreCommitCycle
      lsac     == StoreAddrBarrier(u.type, commit, st.lastStoreAddrCommitCycle,
                                   st.lastStoreCommitCycle)
  IN [curCycle                 |-> Max2(cur1, disp0),
      decodeCycle              |-> dec,
      prevDecCycle             |-> u.decCycle,
      regScoreboard            |-> RecordDependences(sb, u.rd, commit),
      lastStoreCommitCycle     |-> lsc,
      lastStoreAddrCommitCycle |-> lsac,
      loadIdx                  |-> IF u.type = "LOAD" THEN st.loadIdx + 1 ELSE st.loadIdx,
      storeIdx                 |-> IF u.type = "STORE" THEN st.storeIdx + 1 ELSE st.storeIdx,
      log                      |-> Append(st.log, [type |-> u.type, rs |-> u.rs, rd |-> u.rd,
                                                   dispatch |-> disp, commit |-> commit])]

RECURSIVE SimUops(_, _, _, _)
SimUops(st, uops, lats, i) ==
  IF i > Len(uops) THEN st ELSE SimUops(SimUop(st, uops[i], lats[i]), uops, lats, i + 1)

(* Fetch of the current BBL: one L1I access per line-size stride of       *)
(* [bblAddr, bblAddr + bytes), then the fetch/decode coupling.            *)
FetchDecode(dec, b) ==
  LET lines      == (BblInfo[b].bytes + LineSize - 1) \div LineSize
      fetchCycle == dec - (DECODE_STAGE - FETCH_STAGE) + lines * L1I_LAT
  IN Max2(dec + 1, fetchCycle + (DECODE_STAGE - FETCH_STAGE))

(* The while loop of BblFunc: yield at every phase end curCycle has passed; *)
(* TakeBarrier may hand the thread to another core at any call.            *)
PhaseLoop(cur) ==
  LET behind == IF cur > phaseEndCycle
                THEN (cur - phaseEndCycle + PhaseLength - 1) \div PhaseLength ELSE 0
  IN \E calls \in 0..behind, moved \in BOOLEAN :
       /\ moved => calls > 0
       /\ ~moved => calls = behind
       /\ phaseEndCycle' = phaseEndCycle + calls * PhaseLength
       /\ globPhaseCycles' = globPhaseCycles + calls * PhaseLength
       /\ owned' = ~moved
       /\ ctx' = IF moved THEN "gone" ELSE "own"

-----------------------------------------------------------------------------
(* Memory callbacks: the instrumentation delivers the ops of the running   *)
(* BBL in program order; a predicated op may be predicated false.          *)
LoadFunc(addr) ==
  /\ owned /\ pendingOps # <<>> /\ Head(pendingOps) = "LOAD"
  /\ loadAddrs' = [loadAddrs EXCEPT ![loads] = addr]
  /\ loads' = loads + 1
  /\ pendingOps' = Tail(pendingOps)
  /\ UNCHANGED <<curCycle, decodeCycle, phaseEndCycle, regScoreboard, prevBbl, storeAddrs,
                 stores, lastStoreCommitCycle, lastStoreAddrCommitCycle, instrs,
                 owned, ctx, globPhaseCycles, bblCalls, schedCalls, trace>>

StoreFunc(addr) ==
  /\ owned /\ pendingOps # <<>> /\ Head(pendingOps) = "STORE"
  /\ storeAddrs' = [storeAddrs EXCEPT ![stores] = addr]
  /\ stores' = stores + 1
  /\ pendingOps' = Tail(pendingOps)
  /\ UNCHANGED <<curCycle, decodeCycle, phaseEndCycle, regScoreboard, prevBbl, loadAddrs,
                 loads, lastStoreCommitCycle, lastStoreAddrCommitCycle, instrs,
                 owned, ctx, globPhaseCycles, bblCalls, schedCalls, trace>>

(* predFalseLoad/predFalseStore buffer the sentinel (Address)-1.          *)
PredFalseLoad == LoadFunc(NoAddr)
PredFalseStore == StoreFunc(NoAddr)

PredLoadFunc(addr, pred) == IF pred THEN LoadFunc(addr) ELSE PredFalseLoad
PredStoreFunc(addr, pred) == IF pred THEN StoreFunc(addr) ELSE PredFalseStore

(* bbl() on the first BBL since the thread was scheduled: nothing to       *)
(* simulate; the ops the core buffered before are killed.                  *)
FirstBblKeepsOps(b) ==
  /\ PhaseLoop(curCycle)
  /\ UNCHANGED <<curCycle, decodeCycle, regScoreboard, lastStoreCommitCycle,
                 lastStoreAddrCommitCycle, instrs, trace, loads, stores>>
FirstBbl(b) ==
  /\ PhaseLoop(curCycle)
  /\ loads' = 0 /\ stores' = 0
  /\ UNCHANGED <<curCycle, decodeCycle, regScoreboard, lastStoreCommitCycle,
                 lastStoreAddrCommitCycle, instrs, trace>>

(* bbl() otherwise: simulate the deferred BBL prevBbl uop by uop, fetch     *)
(* the current BBL b, then the phase loop on the new curCycle.             *)
SimulateBbl(b) ==
  LET uops == BblInfo[prevBbl].uops IN
  \E lats \in [DOMAIN uops -> L1dLats] :
    LET st == SimUops([curCycle |-> curCycle, decodeCycle |-> decodeCycle,
                       prevDecCycle |-> 0, regScoreboard |-> regScoreboard,
                       lastStoreCommitCycle |-> lastStoreCommitCycle,
                       lastStoreAddrCommitCycle |-> lastStoreAddrCommitCycle,
                       loadIdx |-> 0, storeIdx |-> 0, log |-> <<>>],
                      uops, lats, 1)
    IN /\ curCycle' = st.curCycle
       /\ decodeCycle' = FetchDecode(st.decodeCycle, b)
       /\ regScoreboard' = st.regScoreboard
       /\ lastStoreCommitCycle' = st.lastStoreCommitCycle
       /\ lastStoreAddrCommitCycle' = st.lastStoreAddrCommitCycle
       /\ instrs' = instrs + BblInfo[prevBbl].instrs
       /\ loads' = 0 /\ stores' = 0
       /\ trace' = trace \o st.log
       /\ PhaseLoop(st.curCycle)

(* BblFunc: bbl() then the phase-barrier loop.                             *)
BblFunc(b) ==
  /\ owned /\ pendingOps = <<>> /\ bblCalls < MaxBbls
  /\ IF prevBbl = NoBbl THEN FirstBbl(b) ELSE SimulateBbl(b)
  /\ prevBbl' = b
  /\ pendingOps' = MemOpsOf(b)
  /\ bblCalls' = bblCalls + 1
  /\ UNCHANGED <<loadAddrs, storeAddrs, schedCalls>>

(* advance(targetCycle): decode keeps its distance to curCycle.            *)
Advance(target) ==
  /\ decodeCycle' = decodeCycle + (target - curCycle)
  /\ curCycle' = target

AdvanceUnguarded(targetCycle) == Advance(targetCycle)
(* "if (targetCycle > curCycle) advance(targetCycle)" *)
AdvanceIfLater(targetCycle) ==
  IF targetCycle > curCycle THEN Advance(targetCycle) ELSE UNCHANGED <<curCycle, decodeCycle>>

(* Suffixes of the memory ops of a BBL: where a thread arriving from       *)
(* another core may be in its instruction stream.                          *)
StreamPositions == {<<>>} \cup
  UNION {{SubSeq(MemOpsOf(b), k, Len(MemOpsOf(b))) : k \in 1..Len(MemOpsOf(b))} : b \in Bbls}

(* Scheduler: the thread blocks (e.g. in a syscall) and leaves the core;   *)
(* leave() only notifies the contention recorder.                          *)
Leave ==
  /\ owned /\ schedCalls < MaxSched
  /\ owned' = FALSE /\ ctx' = "own"
  /\ schedCalls' = schedCalls + 1
  /\ UNCHANGED <<coreVars, pendingOps, globPhaseCycles, bblCalls, trace>>

(* contextSwitch(gid): -1 hands the context away and drops the deferred    *)
(* BBL (the filter cache invalidation is external).                        *)
ContextSwitch(gid) ==
  /\ ~owned /\ schedCalls < MaxSched
  /\ IF gid = -1 THEN prevBbl' = NoBbl /\ ctx' = "free"
                 ELSE UNCHANGED <<prevBbl, ctx>>
  /\ schedCalls' = schedCalls + 1
  /\ UNCHANGED <<curCycle, decodeCycle, phaseEndCycle, regScoreboard, loadAddrs, storeAddrs,
                 loads, stores, lastStoreCommitCycle, lastStoreAddrCommitCycle, instrs,
                 owned, pendingOps, globPhaseCycles, bblCalls, trace>>

(* join(): the thread that left resumes where it was; a context handed     *)
(* away by contextSwitch(-1) receives a thread at any stream point.  The   *)
(* scheduler hands a context away before reusing it after a migration.     *)
Join(delta) ==
  /\ ~owned /\ schedCalls < MaxSched
  /\ ctx # "gone"
  /\ curCycle + delta >= 0
  /\ AdvanceIfLater(curCycle + delta)
  /\ phaseEndCycle' = globPhaseCycles + PhaseLength
  /\ owned' = TRUE /\ ctx' = "own"
  /\ IF ctx = "own" THEN UNCHANGED pendingOps ELSE pendingOps' \in StreamPositions
  /\ schedCalls' = schedCalls + 1
  /\ UNCHANGED <<regScoreboard, prevBbl, loadAddrs, storeAddrs, loads, stores,
                 lastStoreCommitCycle, lastStoreAddrCommitCycle, instrs,
                 globPhaseCycles, bblCalls, trace>>

(* Other cores complete a phase while this one holds no thread.            *)
OtherCoresPhase ==
  /\ ~owned /\ schedCalls < MaxSched
  /\ globPhaseCycles' = globPhaseCycles + PhaseLength
  /\ schedCalls' = schedCalls + 1
  /\ UNCHANGED <<coreVars, owned, ctx, pendingOps, bblCalls, trace>>

(* cSimStart()/cSimEnd(): the recorder's target is asserted >= curCycle.   *)
CSimAdvance(delta) ==
  /\ schedCalls < MaxSched
  /\ AdvanceIfLater(curCycle + delta)
  /\ schedCalls' = schedCalls + 1
  /\ UNCHANGED <<phaseEndCycle, regScoreboard, prevBbl, loadAddrs, storeAddrs, loads, stores,
                 lastStoreCommitCycle, lastStoreAddrCommitCycle, instrs,
                 owned, ctx, pendingOps, globPhaseCycles, bblCalls, trace>>
CSimStart(delta) == CSimAdvance(delta)
CSimEnd(delta) == CSimAdvance(delta)

-----------------------------------------------------------------------------
(* The constructor; loads/stores are not initialised there, but the first  *)
(* bbl() on a core resets them before they are read.                       *)
Init ==
  /\ curCycle = 0
  /\ decodeCycle = DECODE_STAGE
  /\ phaseEndCycle = PhaseLength
  /\ regScoreboard = [r \in Regs |-> 0]
  /\ prevBbl = NoBbl
  /\ loadAddrs \in [0..(MemSlots - 1) -> Addrs \cup {NoAddr}]
  /\ storeAddrs \in [0..(MemSlots - 1) -> Addrs \cup {NoAddr}]
  /\ loads = 0 /\ stores = 0
  /\ lastStoreCommitCycle = 0 /\ lastStoreAddrCommitCycle = 0
  /\ instrs = 0
  /\ owned = FALSE /\ ctx = "free" /\ pendingOps = <<>>
  /\ globPhaseCycles = 0
  /\ bblCalls = 0 /\ schedCalls = 0
  /\ trace = <<>>

Next ==
  \/ \E a \in Addrs : LoadFunc(a) \/ StoreFunc(a)
  \/ \E a \in Addrs, p \in BOOLEAN : PredLoadFunc(a, p) \/ PredStoreFunc(a, p)
  \/ \E b \in Bbls : BblFunc(b)
  \/ Leave
  \/ \E gid \in {-1, 0} : ContextSwitch(gid)
  \/ \E d \in JoinDeltas : Join(d)
  \/ OtherCoresPhase
  \/ \E d \in CSimDeltas : CSimStart(d) \/ CSimEnd(d)

Spec == Init /\ [][Next]_vars

-----------------------------------------------------------------------------
(* Types of the core state; loads/stores never exceed the capacity of      *)
(* loadAddrs/storeAddrs, which load()/store() index without a check.       *)
TypeOK ==
  /\ curCycle \in Nat /\ decodeCycle \in Nat /\ phaseEndCycle \in Nat
  /\ regScoreboard \in [Regs -> Nat]
  /\ prevBbl \in Bbls \cup {NoBbl}
  /\ loads \in 0..MemSlots /\ stores \in 0..MemSlots
  /\ lastStoreCommitCycle \in Nat /\ lastStoreAddrCommitCycle \in Nat
  /\ owned \in BOOLEAN /\ ctx \in {"own", "gone", "free"}
  /\ pendingOps \in Seq({"LOAD", "STORE"})

(* LSU ordering of bbl(): a load or store dispatches only after every older *)
(* STORE_ADDR and FENCE uop has committed, and after every store that an   *)
(* older fence orders before it; the lastStoreAddrCommitCycle /            *)
(* lastStoreCommitCycle maxima carry this across BBLs, joins and switches. *)
MemoryOrdering ==
  \A j \in DOMAIN trace : trace[j].type \in {"LOAD", "STORE"} =>
    \A i \in 1..(j - 1) :
      /\ trace[i].type \in {"STORE_ADDR", "FENCE"} => trace[j].dispatch > trace[i].commit
      /\ (trace[i].type = "STORE" /\ \E k \in (i + 1)..(j - 1) : trace[k].type = "FENCE")
           => trace[j].dispatch > trace[i].commit

(* Register dataflow through regScoreboard: a uop dispatches no earlier    *)
(* than the commit of the latest older uop that wrote a register it reads; *)
(* register 0 carries no dependence.                                       *)
RegisterDataflow ==
  \A j \in DOMAIN trace : \A s \in {1, 2} :
    LET r == trace[j].rs[s]
        writers == {i \in 1..(j - 1) : r \in {trace[i].rd[1], trace[i].rd[2]}}
    IN r # 0 /\ writers # {} => trace[j].dispatch >= trace[Max(writers)].commit

(* The fatal assertions after the uop loop of bbl(): the BBL being          *)
(* simulated consumes exactly the addresses its callbacks buffered, even   *)
(* when a thread reaches the core in the middle of a BBL.                  *)
MemOpsMatched ==
  [][bblCalls' = bblCalls + 1 /\ prevBbl # NoBbl =>
       /\ CountOf(prevBbl, "LOAD") = loads
       /\ CountOf(prevBbl, "STORE") = stores]_vars

(* curCycle never goes back: join() advances only to a later notifyJoin    *)
(* target, and cSimStart/cSimEnd only forward.                             *)
CurCycleMonotone == [][curCycle' >= curCycle]_vars
=============================================================================
