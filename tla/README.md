# TLA+ models of the MeMo-Tracer timing cores

This directory holds TLA+ models of the timing cores of MeMo-Tracer (`src/`),
the TLC configurations that check them, and `PROJECT.json`, which maps every
definition to the source lines it translates and lists runs, mutants, findings
and hazards.

## 1. The system

MeMo-Tracer is a zsim-derived, trace-driven timing model. Pin instrumentation
calls a core's callbacks for the thread that owns the core:

* `BblFunc(tid, bblAddr, bblInfo)` runs at the head of every basic block (BBL);
* `LoadFunc`/`StoreFunc`/`PredLoadFunc`/`PredStoreFunc` run per memory op;
* `BranchFunc` runs per conditional branch.

The scheduler calls `join`, `leave` and `contextSwitch(gid)`. The contention
model calls `cSimStart`/`cSimEnd`. A core simulates a BBL one BBL late
(`prevBbl`), once the addresses of its memory ops are known.

### Components, their state and operations

| Component | Source | State | Operations |
|---|---|---|---|
| TAGE predictor | `src/tage.{h,cpp}` | 64-bit history, 128 base counters, `table_num` tagged tables of (counter, tag, useful), `useAltOnNa`, lookup scratch (provider, alt and their predictions) | `predict` = `GetPrediction` (lookup) then `UpdatePredictor` (counter, allocation, useful bit, useAltOnNa, history) |
| `mybitset` | `src/mybitset.h` | a word and a length | `get`, `set`, `<<=`, `to_ulong`; used only by `GetTageIndex` |
| CacheModel | `src/MeMo/CacheModel.{h,cpp}` | `curCycle`, `decodeCycle`, `phaseEndCycle`, `regScoreboard`, `prevBbl`, `loadAddrs`/`storeAddrs` with `loads`/`stores`, `lastStoreCommitCycle`, `lastStoreAddrCommitCycle`, `instrs` | memory callbacks, `bbl` (decode, scoreboard, LSU ordering, filter cache, frontend), `BblFunc` phase-barrier loop, `join`, `leave`, `contextSwitch`, `cSimStart`, `cSimEnd`, `advance` |
| FetchModel | `src/MeMo/FetchModel.{h,cpp}` | the CacheModel skeleton plus `branchPc`/`branchTaken`/NPCs, a TAGE instance, `lastCommitCycle` | `branch` captures the branch; `bbl` also predicts, fetches the wrong path on a mispredict and stalls fetch until `lastCommitCycle` |
| IssueModel | `src/MeMo/IssueModel.{h,cpp}` | the skeleton plus issue-width and RF-port counters, ROB, IW, LQ, SQ, uop queue, a store-forwarding array | `bbl` with the issue-width limit, RF-port stalls, window scheduling, forwarding and queue occupancy; the memory callbacks are empty |
| BasicBlockMap | `src/BasicBlockMap.h` | a static table | lookup only |

External collaborators are not in `src/`: the filter cache, the contention
recorder (`cRec`), the scheduler and barrier (`TakeBarrier`), the decoder
(`DynUop`), and the legos `ReorderBuffer`/`CycleQueue`/`WindowStructure`.
They enter the models only through their contracts.

### How the parts interact

FetchModel owns a TAGE predictor and calls `predict` once per captured
branch. All three cores share the callback protocol with the scheduler. The
protocol has three parts:

* a memory op is buffered, then consumed by the next `bbl`;
* `TakeBarrier` can move the thread to another core inside the phase loop;
* `contextSwitch(-1)` cancels the deferred BBL.

### Hard behaviours

* Interleaving of the callback stream with the scheduler. A thread can be
  moved mid-loop, reach a core in the middle of a BBL, be cancelled, or
  rejoin with a join target behind the core's clock.
* Cross-BBL ordering state:
  * `lastStoreAddrCommitCycle` and `lastStoreCommitCycle` are running maxima;
  * the scoreboard carries dependences across BBLs and context switches.
* Numeric edges:
  * `uint32_t` differences (`decDiff`, `cdDiff`);
  * unguarded fixed arrays (`loadAddrs[256]`);
  * a zero tag on never-allocated TAGE entries.
* Predictor learning over long branch sequences. Allocation, useful-bit aging
  and the history fold only go wrong after many steps.

### Properties each component needs

* TAGE:
  * a useful entry is never evicted;
  * allocation happens only above the provider;
  * the index and tag fold the history;
  * a periodic branch is eventually predicted correctly.
* Cores:
  * loads and stores wait for older store addresses and fences;
  * dataflow through the scoreboard is respected;
  * the mem-op assertions hold under any scheduling;
  * `curCycle` never decreases.
* IssueModel:
  * at most `ooo_width` uops issue per cycle;
  * the RF reads per span of cycles fit in the RF ports;
  * forwarding compares only addresses that were written;
  * no uop dispatches before the uop `rob_cap` places older has retired;
  * the ring-buffer ROB implements a FIFO of retire cycles.
* Phase barrier:
  * one thread at a time touches a core;
  * a running core stops one phase past the global clock;
  * every thread eventually leaves the barrier loop.
* FetchModel:
  * a predicted branch is the one that ended the simulated BBL;
  * the mispredict penalty delays every later uop.

## 2. Plan

Modules, in order of importance. A tick marks what exists.

1. [x] `Tage` — the predictor, with an MC module per question:
   * `MCTage` checks the safety properties;
   * `MCTageAlternating` checks learning;
   * `MCTageHashing` compares the hashing with a reference fold.
2. [x] `CacheModel` — the core skeleton with every callback, and `MCCacheModel`.
3. [x] `FetchModel` — extends the skeleton with `branch` and the mispredict
   path. It composes `Tage` by `INSTANCE` and checks:
   * the stale `branchPc` kept by the first-BBL path (a violation run);
   * that no later uop dispatches before a mispredicted branch's refill.
4. [x] `ReorderBuffer` — `ReorderBuffer` and `CycleQueue`, modelled from
   the spec because `legos.h` is not in the repository. `ReorderBufferFifo`
   is their abstract specification. `WindowStructure` (the instruction
   window) is modelled from the spec too, with `WindowCalendar` as its
   abstract specification. `MCLegos` checks both refinements.
5. [x] `IssueModel` — composes `ReorderBuffer` and `WindowStructure` and
   checks:
   * a violation run on the issue-width bound;
   * a run on forwarding with addresses that are never written;
   * LSU ordering, dataflow, ROB, load/store-queue and window occupancy and
     exclusive port reservations in a passing run.
6. [x] `PhaseBarrier` — several cores of one kind sharing `TakeBarrier` and
   `globPhaseCycles`. It checks the single-writer rule, the phase accounting
   the `BblFunc` comment worries about, and termination.

## 3. Modules

### `Tage.tla`

**Variables.** They are the members of `BranchPredictorTage`. The parameters
are `TableNum`, `IndexSize`, the PCs `Pcs`, and the bound `MaxBranches`.

**Actions.** `Next` is one `predict(pc, taken)` call, which is one atomic step
because the code has no concurrency inside it. It does three things:

* `GetTagePredictions` computes the lookup;
* `GetPrediction` chooses between provider and alt;
* `UpdatePredictor` changes state: the counter step, then
  `AllocateNewEntries` on a mispredict, then `SetU`/`useAltOnNa`, then
  `UpdateHistory`.

**The folds.** The history folds of `GetTageIndex`/`GetTageTag` are computed
once, symbolically:

* bit j of the folded value is the parity of a fixed set of history
  positions (`FoldHistory`);
* the index fold is `FoldMyBitset`, because `mybitset::set` ignores its value.

This keeps the hashes cheap to evaluate.

**The counter bound.** The `>`/`>=` readings and the `T0_COUNTER_MAX` bound
shared by both kinds of counter are kept as in the code.

### `CacheModel.tla`

**Variables.** Those of `CacheModel`, plus the environment:

* `owned`: whether a thread runs on the core;
* `ctx`: what became of the context the core last ran. `"own"`: the thread
  that left will resume here. `"gone"`: it migrated away (set by
  `PhaseLoop` when TakeBarrier moves it). `"free"`: `contextSwitch(-1)`
  handed the context away, or it was never used. `Join` requires
  `ctx # "gone"`, since the scheduler hands a context away before reusing it.
  With `"own"` the thread resumes mid-BBL with its pending ops. Otherwise a
  thread arrives at any point of its stream;
* `pendingOps`: the memory ops the current BBL still has to deliver;
* `globPhaseCycles`;
* two call bounds;
* the ghost `trace`: every simulated uop with its dispatch and commit cycle.

**Actions.** One per callback:

* `LoadFunc`, `StoreFunc`, `PredLoadFunc`, `PredStoreFunc`; a predicated-off
  op buffers the sentinel address (`PredFalseLoad`, `PredFalseStore`);
* `BblFunc` = `FirstBbl` or `SimulateBbl`, then `PhaseLoop`;
* `Leave`, `ContextSwitch`, `Join`, `CSimStart`, `CSimEnd`;
* `OtherCoresPhase`, where other cores advance the global phase.

`SimulateBbl` folds `SimUop` over the uops of `prevBbl`. Each application is
one iteration of the dispatch loop of `bbl()`, as in the code. The frontend
(`FetchDecode`) and the barrier loop are part of the same action.

**Environment contracts.**

* The filter cache answers at `reqCycle + lat`, with `lat` taken from
  `L1dLats` and chosen per access.
* `notifyJoin` may return a target behind `curCycle` (`JoinDeltas`).
* cSim targets are never behind (`CSimDeltas`).
* `TakeBarrier` may move the thread at any iteration.
* A thread arriving at a context that was handed away (`contextSwitch(-1)`
  happened) may be anywhere in a BBL.

**Omitted.** `cRec.record` and the periodic stats dump change nothing the core
reads.

### `FetchModel.tla`

**Variables.** The FetchModel members (`branchPc`, `branchTaken`,
`mispredBranches` and the skeleton), and the ten variables of `Tage`. The
predictor is `T == INSTANCE Tage WITH Pcs <- BranchPcs, ...`, so the TAGE
step inside `bbl()` is `T!Predict`, the same definition `MCTage` checks. The
environment is that of CacheModel with one change. In place of `pendingOps`,
`pendingBranch` holds the conditional branch (`BranchOf[b]`) that the running
BBL still has to deliver. Two ghosts support the properties:

* `streamBranch` is the branch delivered since the last `BblFunc`;
* `redirects` records, for each misprediction, the trace position and
  `lastCommitCycle`.

**Actions.**

* `BranchFunc` is `branch()`.
* `BblFunc` is `FirstBbl` or `SimulateBbl`, then `PhaseLoop`.
* `Leave`, `ContextSwitch`, `Join`, `CSimStart`, `CSimEnd` and
  `OtherCoresPhase` work as in CacheModel. A thread arriving at a
  handed-away context may still owe its current BBL's branch.

`SimulateBbl` has these steps:

1. the uop loop, with no LSU and no `curCycle` bump from dispatch;
2. `fetchCycle = decodeCycle - 3`;
3. `T!Predict` when `branchPc != 0`, and `FetchRedirect` to
   `lastCommitCycle` on a misprediction;
4. `branchPc = 0`;
5. the ifetch loop, where `FetchAccesses` counts the accesses and `LatSums`
   sums their latencies;
6. the decode update.

**Omitted.** The wrong-path fetch loop and the NPCs. The loop only reads
`l1i` and writes `cRec`, both external, so it changes no core state.
`branchTaken` is left uninitialised by the constructor. `Init` picks either
value for it, and it is read only after `branch()` sets it.

### `ReorderBuffer.tla`, `ReorderBufferFifo.tla`, `WindowStructure.tla`, `WindowCalendar.tla`, `MCLegos.tla`

`legos.h` is not in the repository, so these follow spec.md §4. In the
model a buffer is a record value, so that one `bbl()` step can thread it
through the uops of a BBL. The record has:

* `buf`, a ring of the last `capacity` retire cycles;
* `idx`, the slot written next, which holds the oldest entry;
* the retire bundle `curRetireCycle`/`curCycleRetires`.

The operators are:

* `MinAllocCycle` is `minAllocCycle()`: the retire cycle of the entry
  inserted `capacity` insertions ago;
* `MarkRetire` is `markRetire(c)`: the entry retires at `RetireCycle`, which
  is in order, never before `c`, and at most `width` per cycle;
* `MarkLeave` is `CycleQueue::markLeave`.

`ReorderBufferFifo` is the abstract contract. It keeps only the sequence
`retired` of retire cycles. Each retirement is at the earliest cycle that is
no earlier than the request or the previous retirement and has fewer than
`Width` retirements. An allocation may happen at the retire cycle of the
entry `Capacity` places back. `MCLegos` drives the ring with every
sequence of requests. A ghost `retireLog` maps it to the abstract state
(`RobAbs == INSTANCE ReorderBufferFifo WITH retired <- retireLog`).

`WindowStructure` is the instruction window (spec.md §3, §4.6, §4.7), also a
record value: the position `pos` (the core's `curCycle`) and a ring with one
slot per cycle of the horizon. Cycle c lives in slot c mod H. Each slot holds
the ports reserved in that cycle and the number of uops that dispatch in it.

* `AdvancePos` frees the current cycle's slot and moves one cycle on.
* `LongAdvance` repeats it up to a target.
* `Schedule` does three things:
  1. `MakeRoom` advances while the window holds `cap` uops;
  2. it takes the earliest cycle at or after the request and `pos` where a
     port of the mask is free for `extraSlots + 1` cycles, on the lowest
     such port;
  3. it advances until the last reserved cycle is inside the horizon, then
     reserves.

`WindowCalendar` is the abstract contract, over absolute cycles instead of a
ring: a current cycle, a set of (cycle, port) reservations and a bag of
waiting dispatch cycles. `MCLegos` maps the ring to it: each slot of the
horizon becomes its absolute cycle. A fixed `subject` variable makes each
behaviour drive either the ROB or the window, so the run explores the two
structures separately rather than their product.

### `IssueModel.tla`

**Variables.** The IssueModel members:

* the skeleton: `curCycle`, `decodeCycle`, `phaseEndCycle`,
  `regScoreboard`, `prevBbl`, `instrs`;
* the issue counters `curCycleIssuedUops` and `curCycleRFReads`;
* `rob`, `loadQueue`, `storeQueue` and `uopQueue`, as `ReorderBuffer`
  values;
* the LSU state: `loadAddrs`, `storeAddrs`, `lastStoreCommitCycle`,
  `lastStoreAddrCommitCycle` and `fwdArray`.

The environment is CacheModel's, without pending memory ops. IssueModel's
`LoadFunc` and `StoreFunc` are empty, so there are none. A ghost `trace`
records every simulated uop's issue, dispatch, commit and retire cycles and
its address.

**Uninitialised state.** The constructor leaves three things uninitialised:
`lastStoreCommitCycle`, `lastStoreAddrCommitCycle` and `fwdArray`. The
callbacks never write `loadAddrs` or `storeAddrs`. `Init` picks all of these
from small sets of garbage values (`GarbageCycles`, `GarbageAddrs`).

**Actions.** `BblFunc` is `FirstBbl` or `SimulateBbl`, then `PhaseLoop`.
`SimulateBbl` folds `SimUop` over the uops. Each `SimUop` step runs the
code's order:

1. `DecodeGate`: decode stalls and the uop queue. The uop leaves the uop
   queue at `curCycle` (line 153), which is before the issue-width stall, so
   the leave cycle can be one less than the cycle the uop issues. The log
   keeps both the decode cycle and the leave cycle (`dec`, `leave`);
2. `IssueThrottle`: the issue-width limit;
3. `RFReadStall`: the RF read ports, including the counter reset of line
   177;
4. `IssueDispatch`: the ROB and the RAT/RS delay;
5. `WindowSchedule`: `insWindow->schedule()` on the `WindowStructure` value
   `insWindow`. The dispatch cycle becomes the cycle found, and `curCycle`
   becomes the window's position. If that moved, the counters reset
   (`ScheduledAt`);
6. `Lsu` (`LsuAt`): load, store, store-address and fence, with the queue
   slots (`QueueSlotDispatch`) and the forwarding array;
7. `RetireUop`: `MarkRetire` on the ROB and `RecordDependences`.

Every `advancePos` call of the code is an `AdvancePos` of `insWindow`: the
`cdDiff` loop of `DecodeGate` (a `LongAdvance`), the issue-width stall and the
RF stall. `curCycle` and `insWindow.pos` therefore move together, and
`TypeOK` states this. `UopOutcomes` chooses only the ghost address of each
memory uop.

`Leave`, `ContextSwitch`, `Join`, `CSimStart`, `CSimEnd` and `Advance` are
the callbacks. `Advance` resets the issue counters and calls `LongAdvance` on
the window, as `advance()` does. The window's horizon is `WinHorizon` (32).
The code's is 8192. No dispatch in the runs is more than 32 cycles ahead, so
the horizon push is never taken in `issue_core`, as it would not be with
8192. `legos_refinement` exercises the horizon push.

### `PhaseBarrier.tla`

This module composes several cores and threads through the global barrier.
The core side is the code the three cores share (`CacheModel.cpp` is the one
mapped):

* the constructor's `curCycle`/`phaseEndCycle`;
* `join()` (`Join`, `JoinPhaseEnd`);
* `leave()` (`Exit`);
* the `BblFunc` loop, with the local `core` captured on entry (`BblFunc`,
  `Loop`) and the break on `newCid != cid` (`Return`).

`bbl()` is abstracted to the cycles it adds (`BblLats`). The single-core
modules model it in full.

`TakeBarrier` and the scheduler are not in `src/`. `Release` follows
spec.md's contract:

* the barrier opens when every thread that holds a context waits in it;
* the global phase advances;
* the scheduler gives contexts to as many waiting threads as it can.

A thread that keeps its context is not joined. A thread that gains one,
including a thread that returns to the same context after another thread
used it, is joined. Each thread has a `pc` (new, app, loop, sync, ret, done)
and keeps `callCid`, the cid it passed to `TakeBarrier`.

## 4. Runs

| Run | Expect | What it shows |
|---|---|---|
| `tage_safety` (`MCTage.cfg`) | pass | Over all streams of 9 branches from PCs {1,5}, with 2 tables of 4 cells, allocation never overwrites a useful entry (`UsefulEntryNotReplaced`). It never touches the provider's table or a shorter one (`NoAllocationAtOrBelowProvider`). About 61k states. |
| `tage_alternating` (`MCTageAlternating.cfg`) | violation | `EventuallyAlwaysCorrect`. TLC finds a lasso in which one PC alternating taken/not-taken is mispredicted forever. |
| `tage_index_hash` (`MCTageHashing.cfg`) | violation | `IndexFoldsHistory`. The code's index differs from the history fold of the spec in the initial state already. |
| `cache_core` (`MCCacheModel.cfg`) | pass | `MemoryOrdering`, `RegisterDataflow`, `MemOpsMatched` and `CurCycleMonotone` hold under all interleavings of callbacks, preemption, migration, cancellation, joins and cSim advances. About 700k states in about 35 s. |
| `fetch_core` (`MCFetchModel.cfg`) | pass | With TAGE composed in, `MispredictRefill` and `RegisterDataflow` hold under every interleaving: after a mispredicted branch, no later uop dispatches before the branch BBL's last commit + 3 + 6. About 163k states in about 12 s. |
| `fetch_stale_branch` (`MCFetchModelStale.cfg`) | violation | `PredictsTerminatingBranch`. A thread joins an empty core in the middle of b1 and delivers b1's branch. `bbl(b2)` takes the first-BBL path and keeps `branchPc`. The next `bbl()` predicts PC 1 as the end of b2, which has no conditional branch. |
| `legos_refinement` (`MCLegos.cfg`) | pass | The ring buffer implements `ReorderBufferFifo` (`FifoRefinement`). `MinAllocMatches`: `minAllocCycle()` is the retire cycle of the entry `capacity` places back, for capacity 3, width 2 and every request sequence of 8 retirements over {0,1,2,4}. The window ring implements `WindowCalendar` (`WindowRefinement`) through full windows, horizon pushes and ring wrap-around, with horizon 4, capacity 2, two ports, masks {0} and {0,1}, and reservations of 1 or 2 cycles. About 1.1k states. |
| `issue_core` (`MCIssueModel.cfg`) | pass | With the instruction window composed in, eight properties hold under every interleaving and every garbage value of the LSU barriers (garbage only delays, so these properties cannot detect it): `TypeOK`, `MemoryOrdering`, `RegisterDataflow`, `RobOccupancy`, `LsqOccupancy`, `WindowOccupancy`, `PortsExclusive` and `UopQueueOccupancy`. No uop dispatches before the uop `RobCap` places older has retired, and no load or store dispatches before its queue slot is free. The window never holds more than `ins_win_cap` uops from this or earlier BBLs, and no two uops hold one port in a common cycle. No uop decodes before the uop `UqCap` places older has left the uop queue. A stronger form, measured against that uop's issue cycle, does not hold, and this is by design: spec.md, line 147, and the code both mark the leave before the issue-width stall. About 6.6k states in about 12 s. |
| `issue_width` (`MCIssueWidth.cfg`) | violation | `IssueWidthRespected`. With width 2 and 2 RF ports, the second uop of a cycle needs two RF reads and stalls. Line 177 resets the issued count to 0, so two more uops issue in the new cycle: three uops in cycle 9. |
| `issue_forwarding` (`MCIssueForward.cfg`) | violation | `ForwardedLoadWaits`. A load reads the address a store just wrote. The uninitialised `storeAddrs` slot holds 512 and `loadAddrs` holds 0, so the forwarding array misses and the load commits before the store. |
| `issue_one_port` (`MCIssueOnePort.cfg`) | violation | `RFPortBandwidth`: the RF reads of the uops issued in any span of cycles a..b are at most `PrfPorts * (b - a + 2)`; the extra cycle covers reads carried in by `curCycleRFReads`. With 2 ports it holds. With 1 port it is violated. Each two-read uop deducts one port and stalls one cycle, so the four uops issue in four consecutive cycles with eight reads. |
| `phase_barrier` (`MCPhaseBarrier.cfg`) | pass | With three threads on two cores and every scheduler choice, four properties hold: `SingleWriter`, `PhaseEndAligned`, `Termination` and `TypeOK`. No two threads ever touch one core: the break on a new cid keeps a migrated thread off its old core. Every running thread's core stops exactly one phase past `globPhaseCycles`, including after a thread returns to a core another thread used, so no phase is double-counted. Every thread runs to completion. About 43k states in a few seconds. |

Every property of a passing run has a mutant in `PROJECT.json` that TLC
catches, for example a fence that ignores `lastStoreCommitCycle`, or a
`join` that advances to an earlier target.


### Findings

1. **The index ignores the history.** `mybitset::set` ignores `val`
   (`src/mybitset.h:23`). As a result, `GetTageIndex` ignores the global
   history.
2. **An alternating branch is never learned.** Because of (1), the two
   histories of an alternating branch map to the same cell of every table.
   Each misprediction reallocates that cell with the other context's tag, so
   the branch is never learned. Spec scenario S6 expects accuracy near 100%.

3. **A stale `branchPc` is predicted (FetchModel).** The first-BBL path of
   `bbl()` (`FetchModel.cpp:130-134`) and `contextSwitch(-1)` do not clear
   `branchPc`. spec.md calls it "the pending branch that terminates the
   previous BBL". A thread that reaches a core mid-BBL therefore trains TAGE
   with a branch attributed to the wrong BBL. It may also charge that BBL a
   misprediction penalty.
4. **More than `ooo_width` uops issue in one cycle (IssueModel).** After an
   RF-port stall, `bbl()` steps to the next cycle and sets
   `curCycleIssuedUops = 0` (`IssueModel.cpp:177`). The stalled uop then
   issues in that cycle without being counted. The comment at :156 says "we
   can only issue 4 uops/cycle", but with width 2 TLC finds three.
5. **Forwarding reads addresses that are never written (IssueModel).**
   `LoadFunc` and `StoreFunc` are empty (`IssueModel.cpp:334-335`), so
   `bbl()` indexes `loadAddrs`/`storeAddrs` that hold whatever the memory
   held. The constructor also leaves `fwdArray` uninitialised. A load of the
   address an older store wrote can therefore miss the store and commit
   before it, against spec scenario S4.
6. **One RF port passes two reads per cycle (IssueModel).** The RF-stall
   code deducts `ooo_prf_ports` once and stalls one cycle per uop
   (`IssueModel.cpp:175-178`). That is enough when the ports are at least
   the two reads a uop can have. With `prf_ports = 1`, which `OOOParams`
   allows, `curCycleRFReads` grows by one per two-read uop. Each such uop
   still stalls only one cycle.

A seventh disagreement was seen while modelling but has no run, because
the other six each need one. spec.md §8 invariant 4 says `regScoreboard[i]`
never decreases. `bbl()` overwrites it with the writer's commit cycle
(`CacheModel.cpp:239-240`). Take a load that writes r1 through a slow
filter-cache access, followed by an independent one-cycle op that also
writes r1. The op commits first, so in the uop log r1's ready cycle goes
down. Both writes happen inside one `bbl()` call, so the scoreboard seen
between callbacks never decreases.

1. **Scenario:** in `MCCacheModel` with b2's ALU op made independent of r1.
2. **Result:** TLC reaches this state at depth 7.
3. **Consequences:**
   * Readers see the younger writer's value, which is what renaming means.
   * `RegisterDataflow` checks exactly that.
   * The spec's invariant is the one that is too strong.

### Bounds and why they are enough

**TAGE.**

* 2 tables make both provider>alt and allocation above the provider
  possible.
* `IndexSize = 2` gives 4 cells per table.
* PCs 1 and 5 alias in the index but not in the tag, so they compete for
  cells.
* 9 branches reach allocations that pass over a useful entry. With 7
  branches, the allocation-from-provider mutant is not reached.

**CacheModel.** The program has two BBLs of 3–4 uops. Between them they
contain:

* a long-latency load feeding a 16-cycle store address, an independent
  1-cycle store address and a store. The second store address commits first.
  The store therefore waits for the first store address only if
  `lastStoreAddrCommitCycle` keeps the running maximum (`CacheModel.cpp:225`).
  The latency has to be 16: dispatch never moves back, and the store's
  dispatch is at least 12 cycles after the first store address;
* a fence, a two-destination ALU op and a dependent load.

The other bounds:

* filter-cache latencies {0, 30}, large enough that a store outlives a later
  fence;
* join deltas {-4, 4} (behind and ahead);
* 4 `BblFunc` calls and 3 scheduler calls.

These reach every uop type after every other, across a BBL boundary, and
after a preemption or migration.

**FetchModel.** The program has two BBLs:

* b1 holds a 10-cycle op that writes r1 and r2, then a dependent op, and
  ends in the branch at PC 1;
* b2 reads r2 and has no branch.

The other bounds:

* 1 TAGE table with 2 cells, enough for either prediction and for a
  misprediction;
* `L1iLats` {0, 2};
* 4 `BblFunc` calls and 3 scheduler calls.

These reach a mispredict followed by another simulated BBL, and a dependence
through the second destination. They also reach the mid-BBL join. With 5
`BblFunc` calls the run has 1.46M states and takes 2 minutes, and it finds
nothing new.

**ReorderBuffer.** Capacity 3 and width 2 wrap the ring twice in 8
retirements and fill a retire bundle. Requests {0,1,2,4} include a request
earlier than the last retirement, an equal one and a later one.

**IssueModel.** Three programs are used, one per run:

* `LsuBbls` (the passing run): b1 holds a 1-cycle op, a store, a fence and a
  load. b2 holds a store address, a load and a 10-cycle op that writes r1
  and r2, which b1's store reads. b3 holds two loads, which contend for the
  one-entry load queue.
* In every program, memory uops use port 1 and the others port 0. A uop of
  more than one cycle holds its port for one extra cycle (`extraSlots`).
* `IssueBbls` has two uops with two source reads each, then two with none.
* `RfBbls` has four uops with two source reads each. Under width 2 without
  RF stalls, they would issue 8 reads in 2 cycles, above the bound of 6;
  with 2 ports this program satisfies the bound.
* `FwdBbls` holds a 10-cycle op, a store of its result and a load.

The other bounds:

* `OooWidth` 2, `PrfPorts` 2, `RobCap` 3, queues of 1 or 2 entries: small
  enough that every queue fills within two BBLs;
* garbage values {0, 20} for the uninitialised barriers, one address in the
  passing run and two in the forwarding run;
* `InsWinCap` 2 in the passing run, so the window fills and `schedule()`
  pushes `curCycle`, and 8 in the violation runs. A cap of 2 pushes
  `curCycle` before the third uop of a cycle, and that masks the
  issue-width bug;
* `WinHorizon` 32 (see above); `MemSlots` 2, for b3's two loads;
* 3 `BblFunc` calls and 3 scheduler calls.

With `RobCap` 2, the ROB delays every uop so much that the fence and
dataflow mutants are masked. 3 is the smallest capacity at which they show.

**PhaseBarrier.** The instance has three threads on two cores. The scheduler
must therefore deschedule a thread, migrate it, and return it to a core
another thread used. Each thread runs one BBL of 4 or 20 cycles with a
16-cycle phase, so a BBL can cross two phase ends. `notifyJoin` returns
-4 or +8 cycles. `MaxPhases` = 10 never stops the correct model:
`Termination` would fail if it did. A loop that does
not move `phaseEndCycle` is caught by `Termination`.

**A remark on spec.md invariant 4.** spec.md says `regScoreboard[i]` never
decreases. It does decrease: `bbl()` overwrites a destination with its
writer's commit cycle (`CacheModel.cpp:238-240`), so a later, independent and
shorter write lowers it. That is the write-after-write renaming the timing
model needs. The models check dataflow (`RegisterDataflow`) instead of
monotonicity.

## 5. Fairness

The safety runs assume no fairness. `tage_alternating` assumes weak fairness
of the scenario's `predict` step. This is justified because FetchModel calls
`predict` for every captured branch of every simulated BBL, so the branch
stream of a running thread does not stop.

`phase_barrier` assumes weak fairness of each thread's steps and of the
barrier's release. Each application thread keeps delivering callbacks until
it exits. The barrier opens once every thread holding a context has arrived;
that is its contract in spec.md.

## 6. Not modelled, and why

* **The barrier and scheduler internals.** `TakeBarrier` and the scheduler
  are outside `src/`. `PhaseBarrier` uses their contract: a rendezvous, then
  any work-conserving reassignment of contexts.
* **`WindowStructure`'s real horizon.** `legos.h` is not in the repository.
  The window is modelled from spec.md, with a horizon of 32 instead of
  8192 cycles. The runs never schedule that far ahead. spec.md's "scheduling
  past the IW horizon" abort is unreachable in the model, because
  `Schedule` pushes `curCycle` first.
* **FetchModel's wrong-path fetches.** They touch only the external `l1i`
  and `cRec`.
* **`BasicBlockMap`.** A static lookup with no state changes.
* **`instrs == total_pcount`.** `total_pcount` is updated outside `src/`.
* **Filter-cache contents.** The cache is external; it enters only through
  its latency.
* **Decoder.** `decCycle` values are assumed to ascend within a BBL, so
  `decDiff` never wraps.
* **Memory-op count.** Every BBL is assumed to fit in `loadAddrs` and
  `storeAddrs`. These are hazards recorded in `PROJECT.json`, not checked
  properties.
