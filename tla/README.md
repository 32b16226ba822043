# SIMTiX: TLA+ models, model checking and proofs

SIMTiX is a small GPU-style accelerator in SystemVerilog. A host (a five-stage RISC-V core on
the chip, or the Arm processing system on the ZCU102 board) writes a kernel address and a
thread count into command registers and sets GO. A dispatcher starts the warp pool. The pool
spawns warps of `NUM_LANES` threads into its slots, runs them through one shared issue pipeline
with a reconvergence stack per slot, and hands loads, stores and atomics to a memory engine. On
the board the engine's line requests go through an L1 data cache and an AXI master to DDR. When
the last warp has ended the dispatcher sets DONE and the host reads the results. Around the
design stand Python programs: a generator of application cases with their golden results, the
runners and sweeps that simulate them and keep the tables, and the engine that draws and checks
the figures of the documentation.

This directory holds the TLA+ modules that model those parts, the TLC configurations that check
them on small instances, and the TLAPS proofs of what was proved for every instance. Paths below
are relative to the repository; `tla/PROJECT.json` lists, for every definition that models code,
the lines it models.

## 1. Inventory

| Part | Source | State it keeps | Operations | Model |
|---|---|---|---|---|
| Reconvergence stack | `rtl/accel/warp_pool.sv` | per slot: `sp`, `stk_npc`, `stk_rpc`, `stk_mask`, `wstate` | advance, jump, uniform or divergent branch, pop at the join, ecall | `SimtStack`, `ThreadExec` |
| Warp pool | `rtl/accel/warp_pool.sv` | slots, F/X/B stages, `pend_x`/`pend_f`, `ld_out`, `sb_wait`, unit delay lines and queues, SFU, barriers, `next_wid` | start, spawn, fetch, issue, stall and sleep, write back, wake, barrier release, done | `WarpPool` |
| Memory engine | `rtl/accel/mem_engine.sv` | input register, contexts, tag table, request stage, AMO line buffer, scratchpad, resume register | accept, coalesce and send, answer, AMO round, scratch lane, write back, resume | `MemEngine`, `AtomicMemory`, `MemOps` |
| L1 data cache | `rtl/accel/l1_dcache.sv` | input and skid registers, ways, miss registers, writes in flight, prefetch, answers owed | hit, join, miss, fill, write through, prefetch, invalidate | `L1DCache`, `LineMemory` |
| AXI line master | `rtl/accel/axi_line_master.sv` | AR and AW/W staging, beats of each ID, tags of writes in flight | read, write, collect beats, respond | `AxiLineMaster`, `MemPath` |
| Dispatcher and command registers | `rtl/accel/simt_accel.sv`, `mmio_regs.sv` | `go_pulse`, `n_threads`, `dstate`, `cyc_count`, `cycles` | GO, launch, run, finish, rest | `Dispatcher` |
| Host poll loops | `sw/ps_host/main.c`, `kernels/mnist/mnist_driver.S`, README | place in the loop, time to the next access | write N, write GO, poll BUSY, poll DONE, read CYCLES | `Dispatcher` |
| Host core | `rtl/cpu/*.v`, `rtl/soc/chip_top.sv`, `soc_top.sv` | PC, four stage registers, register file, data memory, `clr_cnt`, `wr_pending` | one clock: fetch, decode, execute, memory, write back, with stalls, flushes and forwarding | `HostPipeline`, `HostISA`, `HostOps` |
| AXI-Lite slave, IRAM, counters | `rtl/soc/simt_ps_top.sv` | one access in flight, IRAM, hit and miss counters | read, write, GO with cache invalidate | its timing in `Dispatcher`, its GO in `MemPath` |
| Application suite | `sim/gen_apps.py`, `kernels/apps/*.S`, `tests/tb_apps.sv` | memory image and allocator, launches, golden words; memory and shared memory while it runs | allocate, generate a case, place kernels; load, store, amo, barrier, next launch | `Fp32`, `AppCases`, `AppScans`, `AppKernels`, `AppSuite` |
| Runners and sweeps | `sim/run_xsim.py`, `lane_sweep.py`, `app_sweep.py`, `amo_sweep.py`, `board_sim.py`, `vortex_compare.py`, `kernels/apps/build.py` | files: kernel images, manifests, work directories, CSV tables | generate, clean, build, simulate, collect, merge, compare, and dying at any of them | `Toolflow` |
| Figure engine and figures | `docs/figs/datapath_tikz/*.py`, `chip_top_tikz/*.py`, `arch_v2_tikz/*.py` | shapes, wires, labels, groups; `.tex` and `.pdf` files | draw, compact, shift, verify, emit, typeset | `FigEngine`, `ChipTop`, `Datapath`, `FigBuild` |
| Arithmetic units | `simt_fpu.sv`, `fp_divsqrt.sv`, multiplier, dot product, shuffle in `warp_pool.sv` | pipeline registers | one result per operation | as latencies in `WarpPool` |
| Reference cores `lane.sv`, `warp.sv`; ROMs; board benchmarks; other testbenches; plots; FPGA and ASIC flows | | | | not modelled, reasons in section 8 |

How the parts meet: the host writes the command registers and reads STATUS and CYCLES; the
dispatcher and the pool exchange `start` and `done`; the pool and the memory engine exchange an
issue port (`in_*`), a write-back port that cannot be refused (`wb_*`) and a resume port
(`rs_*`); the engine and the memory exchange granted, tagged requests and answers in any order;
on the board that memory is the cache, and the cache and the AXI master exchange lines by miss
register and write tag. The scripts meet only in files: the manifest `gen_apps.py` writes is
what the testbench reads, the log of a simulation is what a sweep puts in a table, and the table
is what the comparison and the plots read.

What is hard in the hardware is concurrency within one clock domain. Every register is updated
at every edge from values read before it, several producers want one port, answers come back in
any order and after any delay, a warp sleeps until an event that may happen in the very cycle it
falls asleep, a slot is reused while the results of its former warp are travelling, an atomic is
four phases of a shared port, a line is fetched while a write to it is on its way, and a level
such as DONE outlives the grid it belongs to. What is hard in the software is what survives
between executions: logs, manifests and tables of a run that failed or was killed half way. And
two programs claim exactness: the generator, whose sequential golden results must be those of a
parallel machine, and `verify()`, whose sampling must not let a defective figure pass. The
hazards are listed one by one, with their lines and the properties aimed at them, in
`PROJECT.json`.

What makes each part correct:

* **Stack**: every lane executes exactly the instructions of its own thread; no pattern of
  divergences needs more frames than there are; no lane is lost.
* **Pool**: every operand read is the one that in-order execution would read; no wake-up is
  lost; no result lands in a reused slot; every warp of the grid runs once; a barrier holds its
  block together; done comes after the last warp.
* **Memory engine**: every lane of a memory instruction takes effect once, an atomic in one
  moment; a warp is told only when its registers hold the results; every instruction completes.
* **L1 and AXI master**: a line memory in which a read returns the last write accepted before
  it, no cached copy is older than memory, and every request is answered once.
* **Launch**: every GO runs one grid, and a host that leaves its poll loop has the results and
  the cycle count of its own grid.
* **Host core**: the pipeline executes programs as if one instruction ran at a time.
* **Application suite**: the golden words are the result of every order in which warps and
  threads may run.
* **Runners**: a row of a table was measured by the execution that wrote it; groups are never
  mixed; an exit status of 0 means everything was simulated and checked now.
* **Figures**: a figure that is built has no wire through a block, no two nets that touch, no
  label on a block, and a hop at every crossing.

## 2. Plan

In place, checked and proved: `SimtStack` against `ThreadExec`, `WarpPool`, `Dispatcher` with its
hosts, `HostPipeline` against `HostISA`, `MemEngine` against `AtomicMemory`, `L1DCache` and
`AxiLineMaster` against `LineMemory`, the runners, and of the application suite that launches do
not race. In place and checked: the golden words of the suite, the figure engine.

Left, in order:

1. Proofs: that more of the generator's cases are well laid out (the stencils, `zbtest`, `mlp`);
   shorter proofs of the pool and the path.
2. Composition of `WarpPool` and `MemEngine`: the free-form memory of the pool replaced by the
   engine.
3. Pure operators with reference definitions: byte and half-word extraction and merging, the
   AMO functions at a width, the multiplier's decomposition, packed dot products, shuffles,
   spawn arithmetic with its widths.

## 3. Modules and how they correspond to the code

Names are the source's where TLA+ allows it. A definition whose comment begins with "Mutant" is
a deliberately wrong variant of the one that follows; none is part of a specification.

**`ThreadExec`** is the abstract machine: each lane a thread with a PC of its own. **`SimtStack`**
is one slot's stack. Between fetch and the end of stage X (B for control flow) a slot is in
flight and nothing else touches its stack, so one instruction is one action: `Advance`, the
jumps, the uniform and the divergent branch, `Pop`, `Ecall`. An instruction is its kind and
offset; which active lanes take a branch is free. `lane_pc` is a history of the lanes as threads.

**`WarpPool`** is cycle-accurate: `Cycle(in)` is one clock edge, whose input says what the memory
engine and the iterative divider finish. It has fetch selection, the X stage with hazards and
sleeping, stage B, the unit delay lines and result queues, write-port arbitration with squash,
spawning in blocks, barriers, and done. Kernels are straight lines of instruction classes;
values are the tags of the instructions that produced them, which is what
"the operand is the right one" needs.

**`MemOps`** has the memory instruction and what its lanes do one after another.
**`AtomicMemory`** is the promise: a step lets some lanes of at most one global and one scratch
instruction take effect. **`MemEngine`** is one clock per step. `Cycle(n, gnt, rt)` is the edge
at which instruction `n` (or none) is accepted, the request on the port is granted or not, and
the request with tag `rt` (or none) is answered. `conf` holds the build: `BYP` (the memory may
answer a request in its own cycle; no input register, request stage or resume register), `AGG`
and `APAR`. The fields a context latches are those of its instruction, so a context keeps the
instruction's number; a freed context is normalised because every use of one is guarded by
`c_busy`. The memory behind the port is external: it takes a request in the cycle it grants it
and answers in any order; `MemPath` justifies it for the board. Accesses are whole words.

**`LineMemory`** is what the engine may rely on: a write takes effect when its request is
accepted, a read returns the line as it was when accepted, every request is answered once.
**`L1DCache`** has the cache's wires as operators of the inputs they depend on (upstream request,
downstream grant and response, invalidation) and its registers as variables; `CacheClock` is one
edge. **`AxiLineMaster`** adds the staging registers, the beat buffers and the write FIFO.
**`MemPath`** clocks both together with an AXI memory that takes addresses and beats when it
likes, interleaves reads of different IDs, performs a write when it answers it and keeps only the
order of writes with one ID; with an engine that offers requests; and with a host that writes
GO, and memory between grids. `LineMemory` runs beside it, fed with the requests granted and the
answers given. A GO written while a grid runs invalidates the cache under it; reads open at that
moment may then see a later write of their line. The engine keeps an AMO's line to itself for
as long as it holds it, so no atomic depends on such a read.

**`Dispatcher`** has the register write path, the dispatcher's four states and three hosts: the
AXI-Lite host of `ps_host`, which cannot poll before its write response; `mnist_driver.S` on the
pipelined core with its two loops and the exact spacing of its loads; and the loop printed in
the README. The pool is the time its grid takes, at least `MinRun` clocks.

**`HostOps`** and **`HostISA`** are the instruction classes and the sequential machine.
**`HostPipeline`** is the five-stage core with its hazard and forwarding units, and the two
sources of `mem_ready`: `soc_top`'s data RAM, which clears itself after reset, and `chip_top`'s
one-cycle weight-ROM handshake.

**`Fp32`** is the arithmetic of `gen_apps.py` (exact fractions, one rounding, gradual underflow)
and, independently, that of `simt_fpu.sv` on finite operands: one with exponent 0 reads as zero,
`pack_round` gives zero below the range and infinity above it, and `fmadd` returns an addend whose
exponent is far above the product's. `GoldMatches` compares the two. The format has `MB` mantissa
and `EB` exponent bits. **`AppCases`** has the allocator, the placement
of the kernels, and every application with its launches and golden words, in the sequential
order of the Python code; the two prefix sums, whose launches recurse, are in **`AppScans`**.
**`AppKernels`** has what the threads and warps of each `.S` file load
and store. **`AppSuite`** runs a case as `tb_apps.sv` does: launches in order, units of a launch
in any order, with loads, stores, atomics, the barrier of `scan.S` and the single accesses of
`bfs.S` as steps.

**`Toolflow`** is a sequence of executions of the scripts over the files they share. A row is its
provenance: group, case, launch, the execution that simulated it, the one that generated its
manifest, the one that wrote it down. Every tool may fail, a pool's workers interleave, a script
may be killed at every step with the buffered part of its open file lost, and a kernel may be
edited in between. A simulation can pass only if the images of the kernels its cases use fit.

**`FigEngine`** is `dp_engine.py` in ticks of 0.05 mm: shapes, wires, `verify()` with its samples,
crossings, the pen's path with hops, junctions, `compact` and `shift`. **`ChipTop`** and
**`Datapath`** are the two verified figures with their coordinates. **`FigBuild`** is the build:
draw, tighten, verify, emit, typeset, finish, with failures, kills and edits between builds. Its
properties use an exact geometry of their own.

The `MC*` modules give instances: kernels, programs, instructions, cases, command lines,
layouts. `SimtStackProofs`, `WarpPoolProofs`, `DispatcherProofs`, `MemEngineProofs`,
`MemPathProofs`, `HostPipelineProofs`, `ToolflowProofs` and `AppSuiteProofs` hold the proofs.

## 4. Runs and what they show

| Run | Instance | Shows |
|---|---|---|
| `stack` | 4 lanes, every kernel of 3 words and the control skeletons of vadd, SpMV, Collatz, BFS and a call, every branch outcome, at most 2 trips of a loop | masks nest, `NUM_LANES` frames suffice and joins chain (`StackShape`); active lanes stand where their threads are (`LockStep`); lanes are kept (`LanesKept`); steps are thread steps (`ThreadSteps`); the repository's kernels retire with every lane at its own ecall (`WarpRetires`) |
| `pool_pairs` | 2 slots, 3 warps, every pair of 13 instruction kinds and 5 kernel skeletons, 2 loads of a warp in flight | operands fresh and in order (`CaptureFresh`, `ReadsInOrder`); pend bits exact, reused slots clean, parked warps owned by an engine, queues bounded (`Bookkeeping`); sleepers have a waker and barriers are entered drained (`WaitsSound`) |
| `pool_blocks` | 4 slots in groups of 1, 2 or 4, none to 5 warps | blocks spawn whole (`OneBlock`); block members are within one barrier of each other (`BarrierRound`); warps run once and done is last (`GridExact`); every grid completes (`GridCompletes`) |
| `launch` | both drivers, 3 launches, grids up to 16 clocks and empty ones, pauses up to 7 | `OneGridPerGo`, `ReadsOwnGrid`, `CyclesOwn`, and polls end (`PollEnds`) |
| `launch_readme` | the README's loop on the pipelined core | finding 1 |
| `mem_engine` | 2 lanes, 2 warps, 2 contexts, 2 tags, lines of 2 words, 3 instructions, 4 builds | request counts exact, an AMO's line untouched while it is held, results before the resume (`AnswersOwned`); refinement of `AtomicMemory` (`ImplementsAtomic`); every instruction completes (`EveryOpResumes`) |
| `l1` | 2 lines of 2 beats on 1 way, 2 miss registers, 3 tags, 3 requests, prefetch on, 2 GOs, also during a grid | answers are those of a line memory (`AnswersRight`); cached copies are current (`CopiesCurrent`); every open request is in exactly one place (`Accounted`); all are answered (`EveryAnswered`) |
| `host_programs` | every program of 4 words over 13 mutually dependent instructions (`lui` and `auipc` among them); with weight loads, every program in which nothing behind one asks for a flush, as in `mnist_driver.S` | registers and addresses keep their ranges (`TypeOK`); refinement of `HostISA` (`ImplementsISA`) |
| `host_weight_stall` | a jump right behind a weight load | finding 2 |
| `apps` | 28 different small cases of all applications, 4 lanes, 2+5-bit floats, 4-bit bytes | golden words in memory after every order (`GoldMatches`); no unit reads what another of its launch stores (`NoRace`); each launch runs its own kernel and stores into its own buffers (`LaunchSound`) |
| `toolflow` | 2 executions out of 9 command lines, 1 kernel edit | `RowsFresh`, `GroupsWhole`, `CompareFair`, `PassIsComplete` |
| `figures` | both shipped figures, about 400 sketches, 2 builds | what is built is clean (`AcceptedIsClean`), crossings are hopped once (`CrossingsHopped`), tightening keeps the drawing (`TighteningSound`) |

All runs check for deadlock but three in which the system really stops: a retired warp
(`stack`), the last execution (`toolflow`), the last build (`figures`).

### Bounds and why they are enough

* Four lanes give a divergence inside a divergence with lanes left over on each side, which is
  what depth, joins and order of execution depend on; the proofs remove the bound. Three words
  allow forward, backward and self branches, and wrapping.
* Grids of no warp up to three (`pool_pairs`) and five (`pool_blocks`) include the empty one. Two
  slots and three warps give a running warp beside a sleeping one and a slot that is reused.
  Pairs of instructions cover every producer against every consumer, including the same unit
  twice; queues of depth one make every arbitration loss matter. Four slots are the least with
  three group sizes and a partial last block.
* Two contexts and two tags let every request race another and exhaust the tags; a third
  instruction reuses a context and a tag. The instructions' lanes share a word, a line, or
  neither, so coalescing, multi-round AMOs, parallel AMO lanes and two-line instructions occur.
  `LD_MAX = 2` with two contexts also makes contexts run out, which the default build
  (`MEM_CTX = 2 * NUM_WARPS`) never does and a build with fewer contexts does.
* Two lines on one way evict each other; two miss registers let fills race and, with the
  prefetch, run out; a write replaces part of a line; three requests fill input register, skid
  entry and a miss at once. That a line is in one way at most says nothing with one way; the proof
  has it for any number. Two GOs let an invalidation meet every stage of a request.
* Grids from the shortest possible to longer than a whole turn of the driver's loop, and pauses
  longer than the launch pipeline, cover every alignment of poll and DONE; the proofs hold for
  all values.
* Four words hold every pair of instructions at every distance at which the pipeline can forward
  or stall.
* Two mantissa bits have ties, carries into the next exponent and exact values; sums of three
  products meet them all. Drawn words are multiples of `2^-DRAW`, as those of `rand_f32` are of
  2^-52, and five exponent bits keep products and sums of them in the normal range, as eight do in
  the suite: the golden arithmetic and the unit differ on subnormals (section 7), and neither the
  run's data nor the suite's has any. Graphs of four vertices have a vertex reached over two
  edges in one level, which is the race BFS has to survive.
* Two executions are the least that can mix: the second meets whatever the first left. Two
  cases with one and two launches make a manifest or a table that is cut short differ from a
  whole one.
* The sketches move a crossing, the end of a stub, a thin block and a label tick by tick across
  the limits of `verify()`, for every kind of block. Wires with a free end in a corridor that
  compaction cuts carry that end across what stood on its left; `verify()` refuses those that land
  on a block.

### Fairness

`WF(Clock)` (or `Next`, `Cycle`) says the clock runs. In `WarpPool` two further conditions say
that the memory engine finishes an operation it holds and that the iterative divider ends;
`mem_engine` and the divider's counter justify them. In `MemEngine` the condition is that cycles
in which something can happen do not stop: the memory does not refuse grant and answer for ever.
An instance issues a bounded number of instructions and no step of the engine undoes another, so
each cycle that changes something is progress. In `MemPath` the clock goes on while a clock
without new requests would change something, and the memory takes every address and beat and
answers every request in the end, which AXI obliges it to. In `MCSimtStackLive` loops have at
most `MaxTrips` trips; a kernel that loops for ever does not retire.

## 5. What is proved

All proofs are checked by TLAPS with SMT, Zenon and the temporal prover LS4.

**`SimtStackProofs`**, for every number of lanes, every program memory size and every kernel.
`StackInv == TypeOK /\ NestedMasks /\ FrameBudget /\ JoinChain /\ LockStep` is inductive
(`StackInvariant`). `DepthSuffices`, the fact of interest, says that a warp whose top mask still
has two lanes has a free frame. It is not inductive: a pop may return to a frame about which it
says nothing. `FrameBudget` says of every frame that its height and the number of its lanes sum
to at most `NL`; a divergence gives each side at least one lane, so the sum is kept. `JoinChain`
(a frame's PC is the join PC of the frame above) is what makes a pop land the lanes where their
threads are, and so carries `LockStep` over pops. From the invariant follow `TypeCorrect`,
`ShapeKept` (the property `StackShape` of the run), `LanesInLockStep`, and the action properties
`NoLaneLost` and `StepsAreThreadSteps` (every step but an ecall under a divergent
mask is a step or a stutter of the threads).

**`WarpPoolProofs`**, for every number of slots, set of units and latencies, queue depth, number
of memory operations and of outstanding loads, register names, grid and straight-line kernel that
ends in an ecall. `PoolInv` is inductive (`PoolSafe`) and gives `TypeOK`, `CaptureFresh`,
`Bookkeeping` and `WaitsSound`. None of these is inductive alone, and each needs the others: that
a PC stays inside the kernel needs to know at which instruction a parked warp stands (`Parked`);
that a context captured at fetch is still fresh at issue needs that an engine resumes only the
warp it parked (`EngineOwns`), hence that identifiers of memory operations are not reused while
one is out (`MemOK`); that a pending bit stands for exactly one result (`PendOne`) needs that the
hazard check stops a second writer; that a reused slot is clean (`FreeClean`) needs that an ecall
waits for the scoreboard; and a sleeper keeps its waker (`Sleepers`) because whatever removes the
last result for it also clears `sb_wait` in the same clock.

Two more invariants of the same module stand on `PoolInv`. `ValuesRight` says of every register that is not pending
that it holds what its last earlier writer wrote, and of every result in flight that it is the one
the next reader expects; `InOrder` (`ReadsInOrder`) follows although results come back in any
order. `GridInv` carries the rest: blocks are taken whole until the last (`Aligned`), the warps of
a group are of one block (`SameBlock`), every warp identifier below `next_wid` is in one slot or
retired (`Once`). `BarrierRound` is not inductive, because it says nothing of two warps that both
wait; `Rounds` says that of two warps of a block exactly one waits if and only if they have
arrived at a different number of barriers.

**`MemEngineProofs`**, for every number of lanes, warps, contexts, tags and words, every line and
scratchpad size, all builds and every library of instructions. `EngInv` is inductive and gives
`EngineTypes` and `OwnedAnswers`. `AnswersOwned` needs that a request that is out belongs to a
context that wants it (`TagsOk`), that while a line is locked the request stage can only hold the
AMO's own read (`StageOk`, `OneLock`), that the words an AMO has not touched are those of memory
(`LineOk`), and, for "resumed only when every lane has its result", that each lane is pending, in
a load that is out, or served (`ServedOk`); a scratch instruction with no lane left would wait for
ever without `ScratchOk`. `BlockAssumption` (`NW % BLK = 0`: slots and blocks are powers of two,
a block within the slots) keeps the block-wide view inside the scratchpad.

Its second half proves `EngineIsAtomic`: every behaviour of the engine, for the same
parameters, is one of `AtomicMemory` (`ImplementsAtomic`). `AtomInv` is `EngInv` with what the
refinement mapping has to know. `IdsOk`: one context holds an instruction, and none the one still
in the input register or one whose warp was told, so `LeftOf` does not count a lane twice and what
has taken effect stays so. `RequestsOk`: a request that is out asks for lanes of one line, which
its context no longer has pending (but for the read of an AMO, whose lanes take effect later).
`RegsOk`: the register of a load's lane is filled only when no request for it is out, and one
request out has the lane, so the result shown (`ResOf`) does not change when the answer is
delivered. `RoundsOk`:
what an AMO has read, changed and returned so far is what the lanes applied so far would find one
after the other (`Good`), and no lane was applied before a lower one on its word. That last part
is what the proof turns on: the round applies lanes in the order the build picks them, one in a
cycle or the first of every word, while the abstract memory applies them in lane order at the grant
of the write; `GoodNext` shows that lanes of different words commute and lanes of one word
keep their order. The order of lanes is a recursive function in `MemOps`; facts about it hold for
every number of lanes by the least lane that breaks them (`LaneInduction`), so the function is
first shown to exist (`FoundExists`) and then described lane by lane (`FoundServed`, `Agree`,
`StoresLeave`). Given `AtomInv`, a clock cycle makes the lanes of at most one global and one
scratch instruction take effect (`TookStep`, `TakesOf`), leaves in both memories what those lanes
leave (`GlobalEffect`, `ScratchEffect`) and gives each of them what it found (`ResStep`).

**`MemPathProofs`**, for every number of lines, words, tags, ways, sets and miss registers, with
prefetch or without, for every set of byte enables, a GO at any time, and an AXI memory that
delays, interleaves and reorders as the model allows. The proof is in two layers. `Busy` is the
bookkeeping and is inductive by itself: a request is in one place (`InPlaces`), a miss register
lacks its line exactly while its read is at AR or with memory and the beats received are the first
of that line (`Reads`), and FIFO, table, counter and writes in flight are about the same writes in
the same order (`Writes`). It gives `EveryRequestPlaced`. `PathInv` adds the values. `Due(l)` is
line `l` of memory with the writes in flight applied, and every other copy is stated by it: the
account of `LineMemory` is `Due` with the writes in the input register and in the skid applied in
that order (`Taken`); a held read is to return what its line will be when its turn comes, a waiter
of a valid miss `Due`, a waiter of a stale one something the line has been since it was accepted
(`Fresh`, with `Asked` for what each place knows of its request); a line with a valid miss has no
write in flight, is fetched once and is in no way (`Misses`); a way holds `Due` while a grid runs
(`Copies`). `CopiesCurrent` and `AnswersRight` each need the other's part: a hit is right because
copies are current, and copies stay current because what fills them was fetched while no write to
the line was on its way. They are `AnswersAreRight` and `CopiesStayCurrent`.

**`DispatcherProofs`**, for all bounds and any set of hosts without the README's loop.
`LaunchInv == TypeOK /\ OneGridPerGo /\ PoolInStep /\ HostInStep` is inductive
(`LaunchInvariant`). `OneGridPerGo` alone is not: it needs that the pool runs exactly while the
dispatcher is in `D_RUN` with counter and time left adding up (`PoolInStep`), and that a host
outside its poll loops has nothing on its way and cannot look at DONE in the one clock in which
it is stale (`HostInStep`). It yields `LaunchTypes`, `GridPerGo`, `OwnGrid` and `OwnCycles`.

**`ToolflowProofs`**, for every set of command lines, suite, set of kernels and number of
executions. `RowsFresh` and `GroupsWhole` speak of the tables only and are not inductive: what a
table gets was in a worker's result, before that in a log, and the log came from a manifest.
`FlowInv` follows the row back along that path: past its data generation a unit has a manifest of
the running execution (`DataNow`), past the cleaning of its work directory it finds no log or one
of its own (`LogsMine`, which needs that no two units share a directory), what it collects is its
own (`ResultsMine`), the tables are in order also while one is open and its rows are pending
(`TablesOk`), and rows present at the start stay, are pending, or are of a group that is run
again (`OthersKept`). A kill in the middle of a write keeps all of this, because a part of the
pending rows is in order when the whole is. Results: `FreshRows` and `WholeGroups`.

The same module proves what an exit status of 0 is worth. `FairComparison` (`CompareFair`) needs
`CompareNow`: rows of one group are of one sweep, so what a comparison has pending is too.
`CompletePass` (`PassIsComplete`) needs `EndInv`: the manifest a unit simulates is whole from the
end of its generation on (`DataWhole`), and a log that says PASS is a log of this execution with
all launches of the suite (`AllPassed`). It assumes `SuiteAssumption`, that the set `w8` has one
case, as `prepare` asks for (`--only gemmrb`). The assumption is needed: `prepare` looks only
whether a manifest is there, and with a second case a manifest that a killed generator cut short
would be simulated and pass; TLC finds that execution when the suite is given two.

**`HostPipelineProofs`**, for every ROM and register file size, word width, memory image and set
of programs. `PipelineTypes` is the type invariant. `PipelineRefinesISA` is the step part of
`ImplementsISA`: each clock executes exactly the next instruction of `HostISA` or none. It assumes
`CalmPrograms`: what follows a weight load uses its result or is of a kind that asks for no flush.
That hypothesis is what finding 2 is about: the run `host_weight_stall` has a program outside it
and violates the refinement; the programs of `host_programs` with weight loads are exactly the
calm ones. `PipeInv` ties each stage to the program (`InD`, `InE`, `InM`), says that an operand
read in ID is current unless a stage in front will forward it (`Operands`), and what the hazard
unit keeps from standing behind a load, a jump and a weight load (`BehindLoad`, `BehindJump`,
`BehindWeight`).

**`AppSuiteProofs`**, for every number of lanes, every arithmetic and every content of the
buffers. Whether a launch races is a question about the image the generator writes: the
parameter blocks and, for SpMV, row pointers and columns say which words each warp reads and
stores. `WellLaid` asks of a case that its launches run kernels without AMOs (all but `kmeans`,
`kmeans_u` and `bfs`), and that no warp of a launch stores what another warp of it reads or
stores, or any parameter or index. For such cases `RaceFree` proves `NoRace` and, if each kernel
is whole in its slot (`Placed`), `StoresSound` proves `LaunchSound`. Neither is inductive: that a
warp which has loaded would load the same again needs that nothing it reads was stored since,
hence that the others store where the image says, hence that parameters and indices are still
those of the image, also after earlier launches. `LaidInv` says so (`MemLaid`, `UnitGood`). Its
proof rests on one lemma for each kernel: the stores are a function of the words read, and the
places read and stored are a function of parameters and indices (`KernelSame`, `ReadsSame`,
`SpotsSame`). That `WellLaid` is no empty hypothesis is `GemmSuiteSound`: the cases `gemm` of the
generator builds, plain of any size and blocked of any size it accepts, are well laid out, so both
properties hold for every suite of them. It follows the allocator through three buffers and a
parameter block (`AllocFacts`, `GemmBuilt`) and shows that the block indices of `gemm_rb.S` are
inside `C` and give every word to one warp (`RbInside`, `GemmRbOwned`, by uniqueness of quotient
and remainder). Its only hypothesis besides the sizes is `GemmFits`: `n` is a power of two, addresses and sizes
fit a word, and `place_kernels` has left the image of the kernel whole.

Assumptions are those on the constants, each named in the module that declares them:
`NLAssumption`, `PcAssumption`, `ProgramsAssumption` (stack); `NWAssumption`, `UnitAssumption`,
`SizeAssumption`, `RegAssumption`, `KernelAssumption` (pool); `HostAssumption`, `SizeAssumption`,
`BoundAssumption` (launch); `SizeAssumption`, `BlockAssumption`, `OpAssumption`,
`EngineAssumption` (memory engine); `PathAssumption`, `CacheAssumption`, `EnableAssumption`
(cache and AXI master: sizes are positive, line addresses are numbers that start at 0, a write
replaces words of a line); `FormatAssumption`, `LanesAssumption` (application suite: a mantissa
of at least one bit, an exponent of at least two, and a lane); `SizeAssumption`, `ProgramAssumption`, `ImageAssumption` (host core);
`ToolflowAssumption`, `SuiteAssumption` and `InvocationsAssumption`, which says that a script
writes its own table, that its units have work directories of their own, and that a sweep
generates what it simulates. TLC evaluates them in every run.

## 6. What is only model-checked

* Liveness: `WarpRetires`, `GridCompletes`, `PollEnds`, `EveryOpResumes`, `EveryAnswered`, and the
  fairness of `ImplementsISA`. They need fairness and `ENABLED`, out of the prover's reach.
* `GoldMatches` of `AppSuite`: the golden words are folds over data, and that two of them agree is
  an induction. `NoRace` and `LaunchSound` where `AppSuiteProofs` does not reach: kernels with
  AMOs, whose threads do share words, and, for the other generators, that the cases they build are
  well laid out (the prefix sums recurse, an SpMV is drawn by a fold over its rows); the run has
  them.
* `FigBuild` (`AcceptedIsClean`, `CrossingsHopped`, `TighteningSound`): sampled geometry, with
  folds over wires, checked on the figures and the sketches.

## 7. Findings

1. `launch_readme`: the README's one-loop poll on the pipelined core takes the DONE of the
   previous grid for its own on a second launch. `mnist_driver.S` polls BUSY first.
2. `host_weight_stall`: `FlushE` clears ID/EX in a cycle in which `StallAll` holds the stages
   around it, so a jump, taken branch or load-use pair right behind a weight load is lost. The
   driver always uses the loaded weight in the next instruction and does not meet it.

Noticed while modelling, with no run of their own:

* `docs/isa.md:18` says an ecall retires a thread; the code retires the slot, so lanes waiting in
  lower frames end with it (`ThreadSteps` excludes that step). The repository's kernels
  reconverge first, which `WarpRetires` shows.
* A comment at `warp_pool.sv:1066` says the unit queues are empty once every warp is done; a
  result for x0 sets no pending bit and may still be on its way. It writes nothing.
* `gen_apps.py:106` aligns buffers to 32 bytes, which is less than a line at 16 lanes; no kernel
  depends on it.
* `gen_apps.py:455` notices kernels built for another lane count only in the default directory,
  and `--only` is ignored for the fixed suites (`:462`).
* `run_xsim.py apps` takes the manifest it finds: one that a killed generator cut short after a
  complete case passes (`run_xsim.py:66`; `PassIsComplete` speaks of the scripts that generate).
* `board_sim.py:78` keys its rows without the number of warps and the defines;
  `plot_lanes.py:31` sums the rows of a lane count whatever suite they are of.
* `build_init.py:35` and `mnist_quant.py:19` accept a download cut short as a cached one.
* `gen_chip_top.py:151` renders the preview after the PDF; a kill between them leaves an older
  preview.
* `fr2f` keeps subnormals (`gen_apps.py:85`) while the unit reads and writes them as zero
  (`simt_fpu.sv:47`, `:126`), so golden word and memory would differ on data that reach them. The
  suites do not: replayed with the generator's seeds, none of the multiply-adds of the small, the
  large or the board suite has a nonzero result below 2^-126. With an exponent range narrow enough
  for the drawn words to fall below it, `GoldMatches` is violated.
* The addend-dominant shortcut of `fmadd` (`simt_fpu.sv:293`) returns the addend also when the
  correctly rounded sum is its predecessor: at `s1f_pos0 = 77`, with an addend that is a power of
  two and a product of the other sign whose significand `prod3` is above 2^47, the product is more
  than half the gap below the addend. `gen_apps.py:24` counts on one correct rounding. No
  multiply-add of the three suites meets it; of the 4x4x3 matrix products of `MCAppSuite`, the
  streams 26 and 40 would, and `GoldMatches` is violated on them.
* A wire's free end inside a corridor wider than twice the gap moves past what stood to its left
  (`dp_engine.py:559`). `verify()` runs after compaction and refuses the figure when it then touches
  something, not when it lands in the clear (`TighteningSound` excludes figures with such an end).
* A kill of a sweep between `lane_sweep.py:67` and the end of the write loses the rows of earlier
  sweeps. `GroupsWhole` exempts executions that were killed; `CompareFair` says the comparison
  refuses what is left.
* Two lines of one net that share a stretch of a trunk may be hopped more than once
  (`dp_engine.py:605`, `:645`); `CrossingsHopped` assumes there is none.

## 8. What is not modelled, and why

* Floating-point, multiplier and dot-product data paths of the RTL: 32-bit data paths are out of
  TLC's reach. `Fp32` has the results of add, multiply, fmadd, min, max and the conversions at a
  small width, not the alignment and shifting that produce them, and no FP16, NaN, compare, divide
  or square root.
* The composition of pool and memory engine: each is checked against what the other's ports allow
  (`WarpPool.Inputs` is any completion the engine's ports can report of an operation it holds).
* A CSV line cut in its middle by a kill: `Toolflow` loses whole rows of the buffered part. A torn
  last line would be kept by `lane_sweep.py:65` and `board_sim.py:79`.
* Sub-word accesses of the memory engine and of the host's memories: planned as pure operators.
* Endless streams: loads without end hold scratch accesses off (`mem_engine.sv:506`), and cache
  hits without end hold waiting answers and write acknowledgements off (`l1_dcache.sv:387`). Only
  kernels that never end produce one; the runs are bounded.
* Thread counts near 2^32, where `total_warps` wraps (`warp_pool.sv:1437`): the model counts
  warps.
* Instruction encodings and ROM contents: constant data, abstracted to classes and inputs.
* `lane.sv` and `warp.sv`: reference cores of earlier milestones that no top instantiates.
* Plots, the learning PDF, MNIST training and viewers: text, drawing and numerical optimisation.
* Board builds and benchmarks, other testbenches, debug windows, FPGA and ASIC scripts, and the
  baselines: I/O, reporting and tooling around the design.
