------------------------------ MODULE IssueModel ------------------------------
(***************************************************************************)
(* The IssueModel timing core of src/src/MeMo/IssueModel.{h,cpp}: the core *)
(* skeleton (deferred BBL, decode clock, scoreboard, phase loop, join/     *)
(* leave/contextSwitch/cSim) with the backend's structural hazards: the    *)
(* uop queue gating decode, the issue-width throttle, RF read-port stalls, *)
(* the ROB, load and store queues (ReorderBuffer values), the instruction  *)
(* window scheduler, the LSU ordering and the store-forwarding array.      *)
(*                                                                         *)
(* The memory callbacks of IssueModel are empty, so loadAddrs/storeAddrs   *)
(* are never written: they hold whatever the allocation left, a constant   *)
(* chosen at Init.  The constructor does not initialise                    *)
(* lastStoreCommitCycle, lastStoreAddrCommitCycle or fwdArray either; Init *)
(* picks them from GarbageCycles and GarbageAddrs.  The address each memory*)
(* uop really accesses (which the core never sees) is a ghost in `trace`.  *)
(*                                                                         *)
(* The instruction window insWindow is a WindowStructure value (legos.h,  *)
(* not in this repository; see WindowStructure.tla): every advancePos,     *)
(* longAdvance and schedule call of the code moves it, and its position    *)
(* is the core's curCycle.                                                 *)
(***************************************************************************)
EXTENDS Integers, Sequences, FiniteSets, FiniteSetsExt, ReorderBuffer, WindowStructure

CONSTANTS
  Bbls, BblInfo,          \* BBLs and their [instrs, uops]
  NumRegs,
  OooWidth, PrfPorts,     \* ooo_width, ooo_prf_ports
  RobCap, LqCap, SqCap, UqCap,
  PhaseLength,
  Addrs,                  \* addresses memory uops access
  GarbageAddrs,           \* values an address slot holds before it is written
  GarbageCycles,          \* values a cycle counter holds before it is written
  InsWinCap, WinHorizon,  \* ins_win_cap and the window's horizon
  JoinDeltas, CSimDeltas,
  MemSlots, NoBbl, MaxBbls, MaxSched

Regs == 0..(NumRegs - 1)

ASSUME NoBbl \notin Bbls /\ OooWidth \in Nat \ {0} /\ PrfPorts \in Nat \ {0}
ASSUME \A d \in CSimDeltas : d >= 0
ASSUME \A b \in Bbls : \A i \in DOMAIN BblInfo[b].uops : i > 1 =>
         BblInfo[b].uops[i].decCycle >= BblInfo[b].uops[i - 1].decCycle

DECODE_STAGE == 4
ISSUE_STAGE == 7
DISPATCH_STAGE == 13
L1D_LAT == 4
FWD_ENTRIES == 32

FwdIdx(a) == (a \div 4) % FWD_ENTRIES
FwdSlots == {FwdIdx(a) : a \in Addrs \cup GarbageAddrs}

VARIABLES
  curCycle, decodeCycle, phaseEndCycle, regScoreboard, prevBbl,
  loadAddrs, storeAddrs, lastStoreCommitCycle, lastStoreAddrCommitCycle,
  curCycleRFReads, curCycleIssuedUops,
  rob, loadQueue, storeQueue, uopQueue, fwdArray, instrs, insWindow,
  \* environment, as in CacheModel
  owned, globPhaseCycles, bblCalls, schedCalls,
  \* ghost: every simulated uop with its issue, dispatch, commit, retire
  \* cycles and the address it really accesses
  trace

coreVars == <<curCycle, decodeCycle, phaseEndCycle, regScoreboard, prevBbl,
              loadAddrs, storeAddrs, lastStoreCommitCycle, lastStoreAddrCommitCycle,
              curCycleRFReads, curCycleIssuedUops,
              rob, loadQueue, storeQueue, uopQueue, fwdArray, instrs, insWindow>>
envVars == <<owned, globPhaseCycles, bblCalls, schedCalls>>
vars == <<coreVars, envVars, trace>>

Max2(a, b) == IF a >= b THEN a ELSE b
MemAccess == {"LOAD", "STORE"}

-----------------------------------------------------------------------------
(* Mutant forms of the helpers below.                                      *)
IssueDispatchNoRob(cOps, c2, c3) == Max2(cOps, c3 + (DISPATCH_STAGE - ISSUE_STAGE))
RecordFirstDest(sb, rd, commit) == [sb EXCEPT ![rd[1]] = commit]
FenceBarrierNoStores(commit, lsac, lsc, lat) == Max2(commit, lsac)

(* "Model RAT + ROB + RS delay between issue and dispatch".                *)
IssueDispatch(cOps, c2, c3) == Max2(cOps, Max2(c2, c3) + (DISPATCH_STAGE - ISSUE_STAGE))

RecordDependences(sb, rd, commit) == [sb EXCEPT ![rd[1]] = commit, ![rd[2]] = commit]

(* A FENCE forces future load serialisation: the store-address barrier    *)
(* moves past its own commit and every older store's completion.           *)
FenceBarrier(commit, lsac, lsc, lat) == Max2(commit, Max2(lsac, lsc + lat))

(* Decode without waiting for a uop-queue slot.                           *)
DecodeGateNoSlot(st, u) ==
  LET dec  == st.dec + (u.decCycle - st.prevDec)
      jump == dec > st.cur
      cur  == IF jump THEN dec ELSE st.cur
  IN [st EXCEPT !.dec = dec, !.prevDec = u.decCycle, !.cur = cur, !.win = LongAdvance(@, cur),
                !.issued = IF jump THEN 0 ELSE @, !.rf = IF jump THEN 0 ELSE @,
                !.uq = MarkLeave(@, cur), !.leave = cur]

(* Decode-stage gating: decode waits for a uop-queue slot; if it runs past *)
(* curCycle, advancePos is called cdDiff times (a longAdvance to dec) and  *)
(* the per-cycle counters reset; then the uop leaves the uop queue.        *)
DecodeGate(st, u) ==
  LET dec  == Max2(st.dec + (u.decCycle - st.prevDec), MinAllocCycle(st.uq))
      jump == dec > st.cur
      cur  == IF jump THEN dec ELSE st.cur
  IN [st EXCEPT !.dec = dec, !.prevDec = u.decCycle, !.cur = cur, !.win = LongAdvance(@, cur),
                !.issued = IF jump THEN 0 ELSE @, !.rf = IF jump THEN 0 ELSE @,
                !.uq = MarkLeave(@, cur), !.leave = cur]

(* Issue-width throttle: a full cycle stalls one cycle; then count the uop. *)
IssueThrottle(st) ==
  LET full == st.issued >= OooWidth
  IN [st EXCEPT !.win = IF full THEN AdvancePos(@) ELSE @, !.cur = IF full THEN @ + 1 ELSE @,
                !.rf = IF full THEN 0 ELSE @,
                !.issued = (IF full THEN 0 ELSE @) + 1]

(* The RF reads of a uop: each source not ready by the issue cycle cur is  *)
(* read from the register file rather than bypassed.                       *)
RFReads(cur, c0, c1) == (IF c0 < cur THEN 1 ELSE 0) + (IF c1 < cur THEN 1 ELSE 0)

(* Mutant form of RFReadStall: the reads are counted but never stall.      *)
RFReadStallNoStall(st, c0, c1) ==
  [st EXCEPT !.rf = @ + RFReads(st.cur, c0, c1)]

(* RF read stalls: operands not bypassed need an RF port; past the ports,  *)
(* deduct them, reset the issued count to 0 and stall one cycle.           *)
RFReadStall(st, c0, c1) ==
  LET reads == st.rf + RFReads(st.cur, c0, c1)
      over  == reads > PrfPorts
  IN [st EXCEPT !.rf = IF over THEN reads - PrfPorts ELSE reads,
                !.issued = IF over THEN 0 ELSE @,
                !.win = IF over THEN AdvancePos(@) ELSE @, !.cur = IF over THEN @ + 1 ELSE @]

(* Mutant form of QueueSlotDispatch: the queue slot is not waited for.    *)
QueueSlotIgnored(q, disp, lsac) == Max2(disp, lsac + 1)

(* A load or store waits for a slot of its queue (minAllocCycle), then     *)
(* for every older store address to be resolved.                          *)
QueueSlotDispatch(q, disp, lsac) == Max2(Max2(disp, MinAllocCycle(q)), lsac + 1)

(* LSU simulation of one uop dispatched (after schedule) at disp: loads and *)
(* stores wait for a queue slot and for every older store address; a load  *)
(* takes the forwarded store's cycle when its fwdArray slot holds its      *)
(* address; a store fills the slot; STORE_ADDR and FENCE push the         *)
(* store-address barrier.                                                  *)
Lsu(st, u, disp) ==
  CASE u.type = "LOAD" ->
         LET d   == QueueSlotDispatch(st.lq, disp, st.lsac)
             a   == loadAddrs[st.loadIdx + 1]
             req == d + L1D_LAT
             e   == st.fwd[FwdIdx(a)]
             c   == IF e.addr = a THEN Max2(req, e.storeCycle) ELSE req
         IN [st EXCEPT !.disp = d, !.commit = c, !.loadIdx = @ + 1,
                       !.lq = MarkRetire(@, c, OooWidth)]
    [] u.type = "STORE" ->
         LET d   == QueueSlotDispatch(st.sq, disp, st.lsac)
             a   == storeAddrs[st.storeIdx + 1]
             req == d + L1D_LAT
         IN [st EXCEPT !.disp = d, !.commit = req, !.storeIdx = @ + 1,
                       !.fwd[FwdIdx(a)] = [addr |-> a, storeCycle |-> req],
                       !.lsc = Max2(@, req), !.sq = MarkRetire(@, req, OooWidth)]
    [] u.type = "STORE_ADDR" ->
         [st EXCEPT !.disp = disp, !.commit = disp + u.lat, !.lsac = Max2(@, disp + u.lat)]
    [] u.type = "FENCE" ->
         [st EXCEPT !.disp = disp, !.commit = disp + u.lat,
                    !.lsac = FenceBarrier(disp + u.lat, @, st.lsc, u.lat)]
    [] OTHER ->
         [st EXCEPT !.disp = disp, !.commit = disp + u.lat]

(* Mutant form of WindowSchedule: curCycle passed by value, so the window *)
(* moves and the core's clock stays behind.                                *)
WindowScheduleByValue(st, disp, u) ==
  LET sch == Schedule(st.win, disp, u.portMask, u.extraSlots, InsWinCap)
  IN [st EXCEPT !.win = sch.win, !.disp = sch.cycle, !.slot = sch.cycle, !.port = sch.port]

(* The core after schedule() returned sch: the dispatch cycle becomes the  *)
(* slot found, curCycle the window's new position, and if that moved the   *)
(* per-cycle counters reset.                                               *)
ScheduledAt(st, sch) ==
  [st EXCEPT !.win = sch.win, !.cur = sch.win.pos, !.disp = sch.cycle,
             !.slot = sch.cycle, !.port = sch.port,
             !.issued = IF sch.win.pos > st.cur THEN 0 ELSE @,
             !.rf = IF sch.win.pos > st.cur THEN 0 ELSE @]

(* insWindow->schedule(curCycle, dispatchCycle, portMask, extraSlots).    *)
WindowSchedule(st, disp, u) ==
  ScheduledAt(st, Schedule(st.win, disp, u.portMask, u.extraSlots, InsWinCap))

(* The LSU takes the dispatch cycle schedule() found.                     *)
LsuAt(st, u) == Lsu(st, u, st.disp)

(* The end of an iteration: the uop enters the ROB, its destinations are   *)
(* recorded in the scoreboard, and the ghost log takes its cycles.         *)
RetireUop(s, u, issue, rfReads, addr) ==
  LET r == MarkRetire(s.rob, s.commit, OooWidth)
  IN [s EXCEPT !.rob = r, !.sb = RecordDependences(@, u.rd, s.commit),
               !.log = Append(@, [type |-> u.type, rs |-> u.rs, rd |-> u.rd,
                                  issue |-> issue, rfReads |-> rfReads,
                                  dispatch |-> s.disp, commit |-> s.commit,
                                  retire |-> r.curRetireCycle,
                                  qRetire |-> CASE u.type = "LOAD" -> s.lq.curRetireCycle
                                                [] u.type = "STORE" -> s.sq.curRetireCycle
                                                [] OTHER -> 0,
                                  slot |-> s.slot, port |-> s.port, extra |-> u.extraSlots,
                                  dec |-> s.dec, leave |-> s.leave,
                                  addr |-> addr])]

(* One iteration of the dispatch/IW loop of bbl(), with the ghost address *)
(* ch.addr of a memory uop.                                               *)
SimUop(st, u, ch) ==
  LET s1 == IssueThrottle(DecodeGate(st, u))
      sb == [s1.sb EXCEPT ![0] = s1.cur]
      c0 == sb[u.rs[1]]
      c1 == sb[u.rs[2]]
      s2 == RFReadStall([s1 EXCEPT !.sb = sb], c0, c1)
      s3 == WindowSchedule(s2, IssueDispatch(Max2(c0, c1), MinAllocCycle(s2.rob), s2.cur), u)
  IN RetireUop(LsuAt(s3, u), u, s2.cur, RFReads(s1.cur, c0, c1), ch.addr)

RECURSIVE SimUops(_, _, _, _)
SimUops(st, uops, chs, i) ==
  IF i > Len(uops) THEN st ELSE SimUops(SimUop(st, uops[i], chs[i]), uops, chs, i + 1)

(* The ghost addresses of a BBL's memory uops.                            *)
UopOutcomes(uops) ==
  {chs \in [DOMAIN uops -> [addr : Addrs \cup {0}]] :
     \A i \in DOMAIN uops : (chs[i].addr = 0) <=> (uops[i].type \notin MemAccess)}

(* The while loop of BblFunc, as in CacheModel.                            *)
PhaseLoop(cur) ==
  LET behind == IF cur > phaseEndCycle
                THEN (cur - phaseEndCycle + PhaseLength - 1) \div PhaseLength ELSE 0
  IN \E calls \in 0..behind, moved \in BOOLEAN :
       /\ moved => calls > 0
       /\ ~moved => calls = behind
       /\ phaseEndCycle' = phaseEndCycle + calls * PhaseLength
       /\ globPhaseCycles' = globPhaseCycles + calls * PhaseLength
       /\ owned' = ~moved

-----------------------------------------------------------------------------
(* bbl() on the first BBL since scheduled: nothing simulated.              *)
FirstBbl(b) ==
  /\ PhaseLoop(curCycle)
  /\ UNCHANGED <<curCycle, decodeCycle, regScoreboard, lastStoreCommitCycle,
                 lastStoreAddrCommitCycle, curCycleRFReads, curCycleIssuedUops,
                 rob, loadQueue, storeQueue, uopQueue, fwdArray, instrs, insWindow, trace>>

(* bbl() otherwise: run the dispatch/IW loop over the uops of prevBbl.     *)
SimulateBbl(b) ==
  LET us  == BblInfo[prevBbl].uops
      st0 == [cur |-> curCycle, dec |-> decodeCycle, prevDec |-> 0, sb |-> regScoreboard,
              rf |-> curCycleRFReads, issued |-> curCycleIssuedUops,
              lsac |-> lastStoreAddrCommitCycle, lsc |-> lastStoreCommitCycle,
              rob |-> rob, lq |-> loadQueue, sq |-> storeQueue, uq |-> uopQueue,
              fwd |-> fwdArray, loadIdx |-> 0, storeIdx |-> 0, win |-> insWindow,
              disp |-> 0, leave |-> 0, slot |-> 0, port |-> 0, commit |-> 0, log |-> <<>>]
  IN \E chs \in UopOutcomes(us) :
       LET st == SimUops(st0, us, chs, 1)
       IN /\ curCycle' = st.cur /\ decodeCycle' = st.dec
          /\ regScoreboard' = st.sb
          /\ curCycleRFReads' = st.rf /\ curCycleIssuedUops' = st.issued
          /\ lastStoreAddrCommitCycle' = st.lsac /\ lastStoreCommitCycle' = st.lsc
          /\ rob' = st.rob /\ loadQueue' = st.lq /\ storeQueue' = st.sq
          /\ uopQueue' = st.uq /\ fwdArray' = st.fwd /\ insWindow' = st.win
          /\ instrs' = instrs + BblInfo[prevBbl].instrs
          /\ trace' = trace \o st.log
          /\ PhaseLoop(st.cur)

BblFunc(b) ==
  /\ owned /\ bblCalls < MaxBbls
  /\ IF prevBbl = NoBbl THEN FirstBbl(b) ELSE SimulateBbl(b)
  /\ prevBbl' = b
  /\ bblCalls' = bblCalls + 1
  /\ UNCHANGED <<loadAddrs, storeAddrs, schedCalls>>

(* advance(): decode and the window move in lockstep with curCycle         *)
(* (longAdvance), and the per-cycle counters reset.                        *)
Advance(target) ==
  /\ decodeCycle' = decodeCycle + (target - curCycle)
  /\ insWindow' = LongAdvance(insWindow, target)
  /\ curCycle' = insWindow'.pos
  /\ curCycleRFReads' = 0 /\ curCycleIssuedUops' = 0

AdvanceIfLater(targetCycle) ==
  IF targetCycle > curCycle THEN Advance(targetCycle)
  ELSE UNCHANGED <<curCycle, decodeCycle, curCycleRFReads, curCycleIssuedUops, insWindow>>

AdvanceFrozen == <<phaseEndCycle, regScoreboard, prevBbl, loadAddrs, storeAddrs,
                   lastStoreCommitCycle, lastStoreAddrCommitCycle, rob, loadQueue,
                   storeQueue, uopQueue, fwdArray, instrs>>

Leave ==
  /\ owned /\ schedCalls < MaxSched
  /\ owned' = FALSE
  /\ schedCalls' = schedCalls + 1
  /\ UNCHANGED <<coreVars, globPhaseCycles, bblCalls, trace>>

ContextSwitch(gid) ==
  /\ ~owned /\ schedCalls < MaxSched
  /\ prevBbl' = IF gid = -1 THEN NoBbl ELSE prevBbl
  /\ schedCalls' = schedCalls + 1
  /\ UNCHANGED <<curCycle, decodeCycle, phaseEndCycle, regScoreboard, loadAddrs, storeAddrs,
                 lastStoreCommitCycle, lastStoreAddrCommitCycle, curCycleRFReads,
                 curCycleIssuedUops, rob, loadQueue, storeQueue, uopQueue, fwdArray,
                 instrs, insWindow, owned, globPhaseCycles, bblCalls, trace>>

Join(delta) ==
  /\ ~owned /\ schedCalls < MaxSched
  /\ curCycle + delta >= 0
  /\ AdvanceIfLater(curCycle + delta)
  /\ phaseEndCycle' = globPhaseCycles + PhaseLength
  /\ owned' = TRUE
  /\ schedCalls' = schedCalls + 1
  /\ UNCHANGED <<regScoreboard, prevBbl, loadAddrs, storeAddrs, lastStoreCommitCycle,
                 lastStoreAddrCommitCycle, rob, loadQueue, storeQueue, uopQueue,
                 fwdArray, instrs, globPhaseCycles, bblCalls, trace>>

OtherCoresPhase ==
  /\ ~owned /\ schedCalls < MaxSched
  /\ globPhaseCycles' = globPhaseCycles + PhaseLength
  /\ schedCalls' = schedCalls + 1
  /\ UNCHANGED <<coreVars, owned, bblCalls, trace>>

CSimAdvance(delta) ==
  /\ schedCalls < MaxSched
  /\ AdvanceIfLater(curCycle + delta)
  /\ schedCalls' = schedCalls + 1
  /\ UNCHANGED <<AdvanceFrozen, owned, globPhaseCycles, bblCalls, trace>>
CSimStart(delta) == CSimAdvance(delta)
CSimEnd(delta) == CSimAdvance(delta)

-----------------------------------------------------------------------------
(* The constructor; it leaves the LSU barriers, the forwarding array and   *)
(* the address buffers uninitialised.                                      *)
Init ==
  /\ curCycle = 0 /\ decodeCycle = DECODE_STAGE /\ phaseEndCycle = PhaseLength
  /\ regScoreboard = [r \in Regs |-> 0]
  /\ prevBbl = NoBbl
  /\ curCycleRFReads = 0 /\ curCycleIssuedUops = 0 /\ instrs = 0
  /\ rob = NewRob(RobCap) /\ loadQueue = NewRob(LqCap) /\ storeQueue = NewRob(SqCap)
  /\ uopQueue = NewRob(UqCap) /\ insWindow = NewWindow(WinHorizon)
  /\ loadAddrs \in [1..MemSlots -> GarbageAddrs]
  /\ storeAddrs \in [1..MemSlots -> GarbageAddrs]
  /\ lastStoreCommitCycle \in GarbageCycles /\ lastStoreAddrCommitCycle \in GarbageCycles
  /\ fwdArray \in [FwdSlots -> [addr : GarbageAddrs, storeCycle : GarbageCycles]]
  /\ owned = FALSE /\ globPhaseCycles = 0 /\ bblCalls = 0 /\ schedCalls = 0
  /\ trace = <<>>

Next ==
  \/ \E b \in Bbls : BblFunc(b)
  \/ Leave
  \/ \E gid \in {-1, 0} : ContextSwitch(gid)
  \/ \E d \in JoinDeltas : Join(d)
  \/ OtherCoresPhase
  \/ \E d \in CSimDeltas : CSimStart(d) \/ CSimEnd(d)

Spec == Init /\ [][Next]_vars

-----------------------------------------------------------------------------
(* Types of the core state; the per-cycle issue counter never exceeds the  *)
(* issue width.                                                            *)
TypeOK ==
  /\ curCycle \in Nat /\ decodeCycle \in Nat /\ phaseEndCycle \in Nat
  /\ regScoreboard \in [Regs -> Nat]
  /\ prevBbl \in Bbls \cup {NoBbl}
  /\ curCycleIssuedUops \in 0..OooWidth
  /\ curCycleRFReads \in Nat
  /\ \A q \in {rob, loadQueue, storeQueue, uopQueue} : q.idx \in DOMAIN q.buf
  /\ owned \in BOOLEAN
  /\ insWindow.pos = curCycle

(* LSU ordering, as in CacheModel: a load or store dispatches only after   *)
(* every older STORE_ADDR and FENCE has committed, and after every store   *)
(* an older fence orders before it.                                        *)
MemoryOrdering ==
  \A j \in DOMAIN trace : trace[j].type \in MemAccess =>
    \A i \in 1..(j - 1) :
      /\ trace[i].type \in {"STORE_ADDR", "FENCE"} => trace[j].dispatch > trace[i].commit
      /\ (trace[i].type = "STORE" /\ \E k \in (i + 1)..(j - 1) : trace[k].type = "FENCE")
           => trace[j].dispatch > trace[i].commit

(* Register dataflow through regScoreboard.                                *)
RegisterDataflow ==
  \A j \in DOMAIN trace : \A s \in {1, 2} :
    LET r == trace[j].rs[s]
        writers == {i \in 1..(j - 1) : r \in {trace[i].rd[1], trace[i].rd[2]}}
    IN r # 0 /\ writers # {} => trace[j].dispatch >= trace[Max(writers)].commit

(* ROB capacity: at most rob_cap uops are in flight, so a uop dispatches   *)
(* no earlier than the retirement of the uop rob_cap places older, across  *)
(* BBLs, context switches and advances.                                    *)
RobOccupancy ==
  \A j \in DOMAIN trace : j > RobCap => trace[j].dispatch >= trace[j - RobCap].retire

(* Uop-queue capacity: decode waits for a uop-queue slot, so a uop is     *)
(* decoded no earlier than the cycle the uop issue_queue_cap places older  *)
(* left the uop queue (markLeave at decode, before the issue-width stall), *)
(* across BBLs, context switches and advances.                             *)
UopQueueOccupancy ==
  \A j \in DOMAIN trace : j > UqCap => trace[j].dec >= trace[j - UqCap].leave

(* Load and store queue capacity: a load (store) dispatches no earlier    *)
(* than the load (store) queue retirement of the load (store) load_queue_cap *)
(* (store_queue_cap) places older in program order, across BBLs, context  *)
(* switches and advances.                                                  *)
LsqOccupancy ==
  \A j \in DOMAIN trace : \A ty \in MemAccess :
    LET cap   == IF ty = "LOAD" THEN LqCap ELSE SqCap
        older == {i \in 1..(j - 1) : trace[i].type = ty}
        slot  == {i \in older : Cardinality({k \in older : k >= i}) = cap}
    IN trace[j].type = ty => \A i \in slot : trace[j].dispatch >= trace[i].qRetire

(* The issue-width throttle ("we can only issue 4 uops/cycle"): no more    *)
(* than ooo_width uops issue in any cycle.                                 *)
IssueWidthRespected ==
  \A c \in {trace[j].issue : j \in DOMAIN trace} :
    Cardinality({j \in DOMAIN trace : trace[j].issue = c}) <= OooWidth

(* The RF read ports (spec S5): the RF reads of the uops issued in any     *)
(* span of cycles a..b fit in the ports of those cycles, with the ports of *)
(* one more cycle for the reads carried into the span by curCycleRFReads. *)
RFPortBandwidth ==
  \A a, b \in {trace[j].issue : j \in DOMAIN trace} : a <= b =>
    MapThenSumSet(LAMBDA j : trace[j].rfReads, {j \in DOMAIN trace : trace[j].issue \in a..b})
      <= PrfPorts * (b - a + 2)

(* Store-to-load forwarding (spec S4, invariant 6): a load of the address  *)
(* an older store wrote, with no store to the same fwdArray slot between   *)
(* them, completes no earlier than that store.                             *)
ForwardedLoadWaits ==
  \A j \in DOMAIN trace : trace[j].type = "LOAD" =>
    \A i \in 1..(j - 1) :
      (/\ trace[i].type = "STORE" /\ trace[i].addr = trace[j].addr
       /\ ~\E k \in (i + 1)..(j - 1) :
             trace[k].type = "STORE" /\ FwdIdx(trace[k].addr) = FwdIdx(trace[j].addr))
        => trace[j].commit >= trace[i].commit

(* Instruction window capacity (ins_win_cap): the uops that schedule()    *)
(* placed at curCycle or later, in this BBL or any earlier one, never      *)
(* exceed ins_win_cap, across advancePos, longAdvance after join() or     *)
(* cSimStart/End, and the pushes of schedule() itself.                     *)
WindowOccupancy ==
  Cardinality({j \in DOMAIN trace : trace[j].slot >= curCycle}) <= InsWinCap

(* Port reservations (spec 4.7): two uops that schedule() put on the same  *)
(* port never hold it in a common cycle, extraSlots included, even when    *)
(* the window's ring has wrapped since the older one was placed.           *)
PortsExclusive ==
  \A i, j \in DOMAIN trace :
    i < j /\ trace[i].port = trace[j].port =>
      \/ trace[i].slot + trace[i].extra < trace[j].slot
      \/ trace[j].slot + trace[j].extra < trace[i].slot
=============================================================================
