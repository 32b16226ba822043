------------------------------ MODULE WarpPool ------------------------------
(***************************************************************************)
(* The multi-warp issue engine of rtl/accel/warp_pool.sv: block spawning,  *)
(* round-robin fetch (stage F), issue (stage X), control flow (stage B),   *)
(* the register scoreboard with its sleep and wake-up, the result queues   *)
(* of the multi-cycle units, the divide/sqrt unit, the block barrier and   *)
(* grid completion.  The design is synchronous, and what can go wrong in   *)
(* it are coincidences within one clock, so one clock edge is one step:    *)
(* every register takes its next value from the registers before the edge  *)
(* and from the inputs of that cycle.                                      *)
(*                                                                         *)
(* A kernel is the straight line of instructions a warp executes, each     *)
(* with its class, its destination and the registers it reads (the SIMT    *)
(* stack is the matter of SimtStack; a "pop" is the cycle it takes to drop *)
(* a frame).  A register holds the position of the instruction that wrote  *)
(* it, 0 for the spawn seed.  The memory engine is seen from the pool: it  *)
(* holds operations, writes load data back and finishes them in any order  *)
(* and after any delay.                                                    *)
(***************************************************************************)
EXTENDS Integers, Sequences, FiniteSets

CONSTANTS
  NW,         \* NUM_WARPS: hardware slots, a power of two
  Units,      \* multi-cycle units, highest priority on the integer port first
  Lat,        \* issue-to-result latency of each unit
  RQ_DEPTH,   \* operations in flight per unit (pipe and result queue)
  MEM_OPS,    \* operations the memory engine can hold
  LD_MAX,     \* loads a warp may have outstanding
  Regs,       \* registers; "x0" among them is hardwired
  FRegs,      \* the floating-point ones
  Kernels,    \* the kernels considered
  MaxWarps    \* largest grid considered, in warps

Slots   == 0 .. NW - 1
UnitSet == {Units[i] : i \in DOMAIN Units}
Plain   == {"alu", "ctl", "pop", "load", "store", "amo", "sfu", "bar", "ecall"}
Classes == Plain \cup UnitSet
Instr   == [cls : Classes, rd : Regs, use : SUBSET Regs]

ASSUME NWAssumption     == NW \in Nat \ {0}
ASSUME UnitAssumption   == /\ Units \in Seq(STRING) /\ Lat \in [UnitSet -> Nat \ {0}]
                           /\ UnitSet \cap Plain = {}
ASSUME SizeAssumption   == {RQ_DEPTH, MEM_OPS, LD_MAX, MaxWarps} \subseteq Nat \ {0}
ASSUME RegAssumption    == "x0" \in Regs /\ FRegs \subseteq Regs \ {"x0"}
ASSUME KernelAssumption == \A k \in Kernels :
                             /\ k \in Seq(Instr) /\ k # <<>>
                             /\ k[Len(k)].cls = "ecall"
                             /\ \A i \in DOMAIN k :
                                  k[i].cls \in {"pop", "store", "bar", "ecall"} => k[i].rd = "x0"

VARIABLES
  kernel,     \* instruction memory, as the instructions a warp executes
  running,    \* a grid is in progress
  done,       \* 1-cycle pulse when it completes
  grid,       \* [total_warps, next_wid, blk]: blk = 2^blk_lg warps per block
  wstate,     \* per slot: W_EMPTY, W_RUN, W_MEM, W_SFU, W_DONE, W_BAR
  pc,         \* per slot: PC of its top frame, as a position in the kernel
  wid,        \* per slot: warp index (warp_base / WARP_SIZE)
  inflight,   \* slots with an instruction in X or B
  rr_ptr,     \* round-robin fetch pointer
  x,          \* stage X registers [v, w, pc]
  b,          \* stage B registers [v, w, fall]
  sb_wait,    \* slots asleep after a scoreboard stall
  sb_wfull,   \* slots whose (last) sleep was for a full unit
  pend,       \* per slot: registers with a result outstanding
  ld_out,     \* per slot: loads outstanding
  rf,         \* per slot and register: the instruction whose result it holds
  q,          \* per unit: operations in its pipe and result queue, oldest first
  sfu,        \* divide/sqrt unit [st, w, rd, val]
  mem,        \* memory engine: a set of operations, told apart by their id
  retired,    \* history: warps that have retired in this grid
  arrived     \* history: parity of the barriers each slot has arrived at

pipe  == <<inflight, rr_ptr, x, b>>
board == <<sb_wait, sb_wfull, pend, ld_out, rf>>
units == <<q, sfu, mem>>
vars  == <<kernel, running, done, grid, wstate, pc, wid, pipe, board, units,
           retired, arrived>>

MemIds  == 1 .. MEM_OPS
WStates == {"W_EMPTY", "W_RUN", "W_MEM", "W_SFU", "W_DONE", "W_BAR"}

SmallestOf(S) == CHOOSE n \in S : \A m \in S : n <= m

-----------------------------------------------------------------------------
(* Inputs of a cycle: whether the memory engine takes an operation, which  *)
(* register file it writes load data to, the operation it finishes (0:     *)
(* none), whether it holds an FP operation, and whether the divide/sqrt    *)
(* core is through its last active lane.                                   *)
Inputs ==
  {in \in [rdy : BOOLEAN, wb : {"none", "x", "f"}, fin : {0} \cup MemIds,
           fpb : BOOLEAN, sdone : BOOLEAN] :
     /\ in.fin # 0 => \E m \in mem : m.id = in.fin
     /\ IF mem = {} THEN in.rdy ELSE in.rdy => Cardinality(mem) < MEM_OPS
     /\ in.wb = "x" => \E m \in mem : m.cls # "store" /\ m.rd \notin FRegs \cup {"x0"}
     /\ in.wb = "f" => in.fpb /\ \E m \in mem : m.cls = "load" /\ m.rd \in FRegs
     /\ in.fpb => \E m \in mem : m.fp
     /\ in.sdone => sfu.st = "SFU_RUN"}

(* Stage F: the first fetchable slot at or after rr_ptr.                   *)
Fetchable(k) == wstate[k] = "W_RUN" /\ k \notin inflight \cup sb_wait
fetch_valid  == \E k \in Slots : Fetchable(k)
fetch_w ==
  (rr_ptr + SmallestOf({d \in Slots : Fetchable((rr_ptr + d) % NW)})) % NW

(* Mutant: the pointer is not cut to the width of a slot number.           *)
rr_next_wide == fetch_w + 1
rr_next      == (fetch_w + 1) % NW

(* Mutant: a group counts as free as soon as one of its slots is.          *)
GroupFree_any(g) ==
  \E k \in Slots : k \div grid.blk = g /\ wstate[k] \in {"W_EMPTY", "W_DONE"}

(* Mutant: the last block is counted as a whole one.                       *)
NextWid_no_clamp == grid.next_wid + grid.blk

(* Block spawning: the lowest group of blk slots that is entirely free     *)
(* takes the next blk warps of the grid, or what is left of it.            *)
Group(k) == k \div grid.blk
GroupFree(g) ==
  \A k \in Slots : Group(k) = g => wstate[k] \in {"W_EMPTY", "W_DONE"}
FreeGroups  == {g \in 0 .. (NW \div grid.blk) - 1 : GroupFree(g)}
spawning    == grid.next_wid < grid.total_warps /\ FreeGroups # {}
SpawnWid(k) == grid.next_wid + (k % grid.blk)
spawn_en    == {k \in Slots : /\ spawning /\ Group(k) = SmallestOf(FreeGroups)
                              /\ SpawnWid(k) < grid.total_warps}

NextWid     == IF grid.total_warps - grid.next_wid < grid.blk
                 THEN grid.total_warps ELSE grid.next_wid + grid.blk

(* Mutant: the release does not wait for warps parked on an engine.        *)
bar_release_parked ==
  {k \in Slots : /\ wstate[k] = "W_BAR"
                 /\ \A j \in Slots : Group(j) = Group(k) => wstate[j] # "W_RUN"}

(* Barrier release: every slot of the group waits, has exited or is empty. *)
bar_release ==
  {k \in Slots : /\ wstate[k] = "W_BAR"
                 /\ \A j \in Slots : Group(j) = Group(k) =>
                                       wstate[j] \in {"W_BAR", "W_DONE", "W_EMPTY"}}

-----------------------------------------------------------------------------
(* Stage X.  Its instruction is the one captured at fetch.                 *)
instr == kernel[x.pc]

(* Mutants: sources are not checked; an ecall does not wait.               *)
RegHaz_no_raw == instr.rd \in pend[x.w]
EcallHaz_none == FALSE

(* A register it reads or writes is pending; an ecall waits for results; a *)
(* warp has a bounded number of loads out, and none when it goes on to a   *)
(* store, AMO, barrier or ecall.                                           *)
RegHaz   == (instr.use \cup {instr.rd}) \cap pend[x.w] # {}
EcallHaz == instr.cls = "ecall" /\ pend[x.w] # {}
LoadHaz  == instr.cls = "load" /\ ld_out[x.w] >= LD_MAX
OrderHaz == instr.cls \in {"store", "amo", "bar", "ecall"} /\ ld_out[x.w] # 0
sb_haz   == RegHaz \/ EcallHaz \/ LoadHaz \/ OrderHaz

(* Its unit is full.                                                       *)
sb_full == instr.cls \in UnitSet /\ Len(q[instr.cls]) >= RQ_DEPTH

exec     == x.v /\ instr.cls # "pop"
sb_stall == exec /\ (sb_haz \/ sb_full)
issue    == exec /\ ~sb_stall

(* Writeback: a unit's oldest result goes out when its port is free.  The  *)
(* memory engine comes first, then (f-file) the divide/sqrt unit, then the *)
(* units in order of priority; a single-cycle operation comes last.        *)
Vld(u)  == q[u] # <<>> /\ Head(q[u]).t = 0
IsFp(u) == Head(q[u]).rd \in FRegs
sfu_wb_fire(in) == sfu.st = "SFU_WB" /\ ~in.fpb
wb_fire(in) ==
  {Units[i] : i \in {i \in DOMAIN Units :
     /\ Vld(Units[i])
     /\ IF IsFp(Units[i])
          THEN in.wb # "f" /\ ~sfu_wb_fire(in)
          ELSE /\ in.wb # "x"
               /\ \A j \in 1 .. i - 1 : ~(Vld(Units[j]) /\ ~IsFp(Units[j]))}}
squash_wb(in) == in.wb = "x" \/ \E u \in wb_fire(in) : ~IsFp(u)

(* The operation the memory engine finishes.                               *)
fin_op(in) == {m \in mem : m.id = in.fin}
me_rs_ld(in, w) == \E m \in fin_op(in) : m.cls = "load" /\ m.w = w
me_rs_st(in, w) == \E m \in fin_op(in) : m.cls # "load" /\ m.w = w

(* Mutant: a finished load wakes nobody.                                   *)
sb_own_no_load(in, w) == \E u \in wb_fire(in) : Head(q[u]).w = w

(* Wake-up events.                                                         *)
sb_any(in)    == wb_fire(in) # {}
sb_own(in, w) == (\E u \in wb_fire(in) : Head(q[u]).w = w) \/ me_rs_ld(in, w)
sb_wake(in)   == {k \in Slots : IF k \in sb_wfull THEN sb_any(in) ELSE sb_own(in, k)}

(* The ways stage X resolves, other than a stall, a retry or a pop.        *)
do_unit       == issue /\ instr.cls \in UnitSet
do_bar        == issue /\ instr.cls = "bar"
do_ecall      == issue /\ instr.cls = "ecall"
do_sfu        == issue /\ instr.cls = "sfu" /\ sfu.st = "SFU_IDLE"
do_mem(in)    == issue /\ instr.cls \in {"load", "store", "amo"} /\ in.rdy
ld_inc(in)    == do_mem(in) /\ instr.cls = "load"
parks_mem(in) == do_mem(in) /\ instr.cls # "load"
do_alu(in)    == issue /\ instr.cls = "alu" /\ ~squash_wb(in)
do_ctl(in)    == issue /\ instr.cls = "ctl" /\ ~squash_wb(in)

(* The instruction leaves X with its PC past it in the top frame.          *)
pc_step(in) ==
  (x.v /\ instr.cls = "pop") \/ do_unit \/ do_bar \/ ld_inc(in) \/ do_alu(in)

any_busy ==
  \/ grid.next_wid # grid.total_warps
  \/ \E k \in Slots : wstate[k] \in {"W_RUN", "W_MEM", "W_SFU", "W_BAR"}
  \/ mem # {}

-----------------------------------------------------------------------------
(* Next values of the registers, one group per conjunct of Cycle.  Where   *)
(* the code assigns a register more than once in a cycle the last          *)
(* assignment wins, so the cases go from the last to the first.            *)
NextWstate(in) == [k \in Slots |->
  IF sfu_wb_fire(in) /\ sfu.w = k         THEN "W_RUN"
  ELSE IF me_rs_st(in, k)                 THEN "W_RUN"
  ELSE IF do_ecall /\ x.w = k             THEN "W_DONE"
  ELSE IF do_bar /\ x.w = k               THEN "W_BAR"
  ELSE IF do_sfu /\ x.w = k               THEN "W_SFU"
  ELSE IF parks_mem(in) /\ x.w = k        THEN "W_MEM"
  ELSE IF k \in bar_release \cup spawn_en THEN "W_RUN"
  ELSE wstate[k]]

NextPc(in) == [k \in Slots |->
  IF sfu_wb_fire(in) /\ sfu.w = k         THEN pc[k] + 1
  ELSE IF me_rs_st(in, k)                 THEN pc[k] + 1
  ELSE IF b.v /\ b.w = k                  THEN b.fall
  ELSE IF pc_step(in) /\ x.w = k          THEN x.pc + 1
  ELSE IF k \in spawn_en                  THEN 1
  ELSE pc[k]]

SpawnStep ==
  /\ wid' = [k \in Slots |-> IF k \in spawn_en THEN SpawnWid(k) ELSE wid[k]]
  /\ grid' = IF spawning THEN [grid EXCEPT !.next_wid = NextWid] ELSE grid

(* Mutant: a jump gives its warp back to fetch at X, before stage B.       *)
Resolved_early(in) == IF x.v THEN {x.w} ELSE {}

(* Warps whose instruction resolves: all in X but control flow, and B's.   *)
Resolved(in) ==
  (IF x.v /\ ~do_ctl(in) THEN {x.w} ELSE {}) \cup (IF b.v THEN {b.w} ELSE {})

PipeStep(in) ==
  /\ x' = IF fetch_valid THEN [v |-> TRUE, w |-> fetch_w, pc |-> pc[fetch_w]]
                         ELSE [x EXCEPT !.v = FALSE]
  /\ rr_ptr' = IF fetch_valid THEN rr_next ELSE rr_ptr
  /\ b' = IF do_ctl(in) THEN [v |-> TRUE, w |-> x.w, fall |-> x.pc + 1]
                        ELSE [b EXCEPT !.v = FALSE]
  /\ inflight' = (inflight \ Resolved(in))
                 \cup (IF fetch_valid THEN {fetch_w} ELSE {})

(* Mutant: the stall is judged by the stored reason of the last sleep.     *)
StallSleeps_stored(in) == x.w \notin sb_wake(in)

(* A warp that stalls sleeps, unless the event it would wait for comes in  *)
(* this very cycle.                                                        *)
StallSleeps(in) == ~(IF sb_haz THEN sb_own(in, x.w) ELSE sb_any(in))

BoardStep(in) ==
  /\ sb_wait'  = (sb_wait \ sb_wake(in))
                 \cup (IF sb_stall /\ StallSleeps(in) THEN {x.w} ELSE {})
  /\ sb_wfull' = IF ~sb_stall THEN sb_wfull
                 ELSE IF sb_haz THEN sb_wfull \ {x.w} ELSE sb_wfull \cup {x.w}
  /\ pend' = [k \in Slots |->
       (pend[k] \ ( {Head(q[u]).rd : u \in {u \in wb_fire(in) : Head(q[u]).w = k}}
                    \cup {m.rd : m \in {m \in fin_op(in) : m.cls = "load" /\ m.w = k}} ))
       \cup (IF (do_unit \/ ld_inc(in)) /\ x.w = k THEN {instr.rd} \ {"x0"} ELSE {})]
  /\ ld_out' = [k \in Slots |-> ld_out[k] + (IF ld_inc(in) /\ x.w = k THEN 1 ELSE 0)
                                         - (IF me_rs_ld(in, k) THEN 1 ELSE 0)]

(* Register writes of a cycle: results of the units and of the divide/sqrt *)
(* unit, load and AMO data (the last lane is written by the time the       *)
(* operation finishes) and a committed single-cycle operation.  x0 and a   *)
(* store have nothing to write.                                            *)
Writes(in) ==
  {[w |-> o.w, rd |-> o.rd, val |-> o.val] :
     o \in {Head(q[u]) : u \in wb_fire(in)} \cup fin_op(in)
          \cup (IF sfu_wb_fire(in) THEN {sfu} ELSE {})
          \cup (IF do_alu(in) \/ do_ctl(in)
                  THEN {[w |-> x.w, rd |-> instr.rd, val |-> x.pc]} ELSE {})}

(* A register of a spawned slot reads as its seed until it is written.     *)
RegStep(in) ==
  rf' = [k \in Slots |-> [r \in Regs |->
           LET new == {o \in Writes(in) : o.w = k /\ o.rd = r /\ r # "x0"} IN
           IF new # {} THEN (CHOOSE o \in new : TRUE).val
           ELSE IF k \in spawn_en THEN 0 ELSE rf[k][r]]]

(* A queue's operations age by a cycle; a written result leaves; an issued *)
(* operation enters.                                                       *)
Aged(s)   == [i \in DOMAIN s |-> [s[i] EXCEPT !.t = IF @ = 0 THEN 0 ELSE @ - 1]]
Popped(in, u) == IF u \in wb_fire(in) THEN Tail(q[u]) ELSE q[u]

UnitStep(in) ==
  /\ q' = [u \in UnitSet |->
       Aged(Popped(in, u)) \o
       (IF do_unit /\ instr.cls = u
          THEN <<[w |-> x.w, rd |-> instr.rd, val |-> x.pc, t |-> Lat[u]]>> ELSE <<>>)]
  /\ sfu' = IF do_sfu THEN [st |-> "SFU_RUN", w |-> x.w, rd |-> instr.rd, val |-> x.pc]
            ELSE IF in.sdone THEN [sfu EXCEPT !.st = "SFU_WB"]
            ELSE IF sfu_wb_fire(in) THEN [sfu EXCEPT !.st = "SFU_IDLE"]
            ELSE sfu
  /\ mem' = (mem \ fin_op(in)) \cup
       (IF do_mem(in)
          THEN {[id |-> SmallestOf({i \in MemIds : \A m \in mem : m.id # i}),
                 w |-> x.w, cls |-> instr.cls, rd |-> instr.rd, val |-> x.pc,
                 fp |-> ({instr.rd} \cup instr.use) \cap FRegs # {}]}
          ELSE {})

HistoryStep ==
  /\ retired' = IF do_ecall THEN retired \cup {wid[x.w]} ELSE retired
  /\ arrived' = [k \in Slots |-> IF k \in spawn_en THEN 0
                                 ELSE IF do_bar /\ x.w = k THEN 1 - arrived[k]
                                 ELSE arrived[k]]

(* One clock of a running grid.                                            *)
Cycle(in) ==
  /\ running
  /\ wstate' = NextWstate(in)
  /\ pc' = NextPc(in)
  /\ SpawnStep
  /\ PipeStep(in)
  /\ BoardStep(in)
  /\ RegStep(in)
  /\ UnitStep(in)
  /\ running' = any_busy
  /\ done' = ~any_busy
  /\ HistoryStep
  /\ UNCHANGED kernel

-----------------------------------------------------------------------------
Blocks == {n \in 1 .. NW : \E g \in 0 .. NW : n = 2 ^ g}

(* start: latch a grid and clear every slot.  The memory engine has no     *)
(* clear; it is idle whenever the pool is.                                 *)
Start(total, blk) ==
  /\ ~running
  /\ running' = TRUE
  /\ done' = FALSE
  /\ grid' = [total_warps |-> total, next_wid |-> 0, blk |-> blk]
  /\ wstate' = [i \in Slots |-> "W_EMPTY"]
  /\ inflight' = {} /\ rr_ptr' = 0
  /\ x' = [x EXCEPT !.v = FALSE] /\ b' = [b EXCEPT !.v = FALSE]
  /\ sb_wait' = {} /\ sb_wfull' = {}
  /\ pend' = [i \in Slots |-> {}] /\ ld_out' = [i \in Slots |-> 0]
  /\ q' = [u \in UnitSet |-> <<>>]
  /\ sfu' = [sfu EXCEPT !.st = "SFU_IDLE"]
  /\ retired' = {}
  /\ UNCHANGED <<kernel, pc, wid, rf, mem, arrived>>

(* One clock of an idle pool: done falls, and results left in a queue      *)
(* drain (none has a register to write, see SlotClean).                    *)
Idle ==
  /\ ~running
  /\ done \/ \E u \in UnitSet : q[u] # <<>>
  /\ LET in == [rdy |-> TRUE, wb |-> "none", fin |-> 0, fpb |-> FALSE, sdone |-> FALSE]
     IN  q' = [u \in UnitSet |-> Aged(Popped(in, u))]
  /\ done' = FALSE
  /\ UNCHANGED <<kernel, running, grid, wstate, pc, wid, pipe, board, sfu, mem,
                 retired, arrived>>

(* The state after reset.                                                  *)
Init ==
  /\ kernel \in Kernels
  /\ running = FALSE /\ done = FALSE
  /\ grid = [total_warps |-> 0, next_wid |-> 0, blk |-> 1]
  /\ wstate = [k \in Slots |-> "W_EMPTY"]
  /\ pc = [k \in Slots |-> 1] /\ wid = [k \in Slots |-> 0]
  /\ inflight = {} /\ rr_ptr = 0
  /\ x = [v |-> FALSE, w |-> 0, pc |-> 1] /\ b = [v |-> FALSE, w |-> 0, fall |-> 1]
  /\ sb_wait = {} /\ sb_wfull = {}
  /\ pend = [k \in Slots |-> {}] /\ ld_out = [k \in Slots |-> 0]
  /\ q = [u \in UnitSet |-> <<>>]
  /\ rf = [k \in Slots |-> [r \in Regs |-> 0]]
  /\ sfu = [st |-> "SFU_IDLE", w |-> 0, rd |-> "x0", val |-> 0]
  /\ mem = {} /\ retired = {} /\ arrived = [k \in Slots |-> 0]

Next ==
  \/ \E in \in Inputs : Cycle(in)
  \/ \E total \in 0 .. MaxWarps, blk \in Blocks : Start(total, blk)
  \/ Idle

(* The clock runs; the memory engine finishes what it holds and the        *)
(* divide/sqrt core its lanes.                                             *)
Fairness ==
  /\ WF_vars(\E in \in Inputs : Cycle(in))
  /\ WF_vars(\E in \in Inputs : in.fin # 0 /\ Cycle(in))
  /\ WF_vars(\E in \in Inputs : in.sdone /\ Cycle(in))

Spec == Init /\ [][Next]_vars /\ Fairness
-----------------------------------------------------------------------------
(* Operations in flight in the units, as pairs of a unit and a position.   *)
UnitOps     == UNION {{<<u, i>> : i \in DOMAIN q[u]} : u \in UnitSet}
Op(o)       == q[o[1]][o[2]]
Loads       == {m \in mem : m.cls = "load"}
Free        == {k \in Slots : wstate[k] \in {"W_EMPTY", "W_DONE"}}

(* The registers hold values of their types; in particular the wrapping    *)
(* pointers stay inside the slots.                                         *)
TypeOK ==
  /\ kernel \in Kernels
  /\ running \in BOOLEAN /\ done \in BOOLEAN
  /\ grid \in [total_warps : 0 .. MaxWarps, next_wid : 0 .. MaxWarps, blk : Blocks]
  /\ wstate \in [Slots -> WStates]
  /\ pc \in [Slots -> 1 .. Len(kernel)]
  /\ wid \in [Slots -> 0 .. MaxWarps]
  /\ inflight \subseteq Slots /\ rr_ptr \in Slots
  /\ x \in [v : BOOLEAN, w : Slots, pc : 1 .. Len(kernel)]
  /\ b \in [v : BOOLEAN, w : Slots, fall : 1 .. Len(kernel)]
  /\ sb_wait \subseteq Slots /\ sb_wfull \subseteq Slots
  /\ pend \in [Slots -> SUBSET (Regs \ {"x0"})]
  /\ ld_out \in [Slots -> 0 .. LD_MAX]
  /\ rf \in [Slots -> [Regs -> 0 .. Len(kernel)]]
  /\ DOMAIN q = UnitSet
  /\ \A o \in UnitOps :
       Op(o) \in [w : Slots, rd : Regs, val : 1 .. Len(kernel), t : 0 .. Lat[o[1]]]
  /\ sfu \in [st : {"SFU_IDLE", "SFU_RUN", "SFU_WB"}, w : Slots, rd : Regs,
              val : 0 .. Len(kernel)]
  /\ mem \subseteq [id : MemIds, w : Slots, cls : {"load", "store", "amo"}, rd : Regs,
                    val : 1 .. Len(kernel), fp : BOOLEAN]
  /\ retired \subseteq 0 .. MaxWarps
  /\ arrived \in [Slots -> {0, 1}]

(* "The fetched warp's TOS context is stable across F->X": what stage X    *)
(* holds is still its warp's PC, a warp in X or B runs, is awake and is in *)
(* one stage only, and exactly those warps are barred from fetch.          *)
CaptureFresh ==
  /\ inflight = (IF x.v THEN {x.w} ELSE {}) \cup (IF b.v THEN {b.w} ELSE {})
  /\ \A k \in inflight : wstate[k] = "W_RUN" /\ k \notin sb_wait
  /\ x.v => x.pc = pc[x.w]
  /\ x.v /\ b.v => x.w # b.w

(* The instruction before position p of the kernel that last writes r.     *)
LastWriter(p, r) ==
  LET W == {i \in 1 .. p - 1 : kernel[i].rd = r}
  IN  IF W = {} THEN 0 ELSE CHOOSE i \in W : \A j \in W : j <= i

(* In-order semantics: an instruction the scoreboard lets through reads,   *)
(* in every register it uses, the result of the last instruction before it *)
(* that writes the register, or the spawn seed.  Out-of-order writeback, a *)
(* slot's previous warp and retries do not show.                           *)
ReadsInOrder ==
  issue => \A r \in instr.use \ {"x0"} : rf[x.w][r] = LastWriter(x.pc, r)

(* A pending bit stands for exactly one result in flight ("never for the   *)
(* same register": a pending rd is not reissued), and ld_out counts the    *)
(* loads of the slot.                                                      *)
PendExact ==
  \A k \in Slots :
    /\ ld_out[k] = Cardinality({m \in Loads : m.w = k})
    /\ \A r \in Regs \ {"x0"} :
         Cardinality({o \in UnitOps : Op(o).w = k /\ Op(o).rd = r})
           + Cardinality({m \in Loads : m.w = k /\ m.rd = r})
         = IF r \in pend[k] THEN 1 ELSE 0

(* A slot that is free to be spawned into has nothing in flight that would *)
(* write its registers, and no memory operation.                           *)
SlotClean ==
  \A k \in Free :
    /\ \A o \in UnitOps : Op(o).w = k => Op(o).rd = "x0"
    /\ \A m \in mem : m.w # k
    /\ sfu.st = "SFU_IDLE" \/ sfu.w # k

(* A parked warp is parked on an engine that has its operation and nothing *)
(* else of it: a store or AMO never runs beside an earlier load of its     *)
(* warp, and no warp waits for an engine that did not take its operation.  *)
EngineOwns ==
  \A k \in Slots :
    /\ wstate[k] = "W_MEM" <=> \E m \in mem : m.w = k /\ m.cls # "load"
    /\ wstate[k] = "W_MEM" => \E m \in mem : {n \in mem : n.w = k} = {m}
    /\ wstate[k] = "W_SFU" <=> sfu.st # "SFU_IDLE" /\ sfu.w = k

(* "The DEPTH-entry queue never overflows", though results wait in it for  *)
(* as long as the port is taken.                                           *)
QueueBound == \A u \in UnitSet : Len(q[u]) <= RQ_DEPTH

(* Bookkeeping: in every interleaving of issues, engine completions and    *)
(* write-backs the scoreboard, the slots, the engines and the unit queues  *)
(* agree on what is in flight (warp_pool.sv, pend, ld_out, wstate, rdy).   *)
Bookkeeping == PendExact /\ SlotClean /\ EngineOwns /\ QueueBound

(* Every sleeper has its waker: a warp asleep on a register or its loads   *)
(* has a result of its own in flight, one asleep on a full unit has a unit *)
(* with a result to write.  (Judging a stall by the reason of the last     *)
(* sleep broke this: "8-warp GEMM-RB hung".)                               *)
SleeperHasWaker ==
  \A k \in sb_wait :
    /\ wstate[k] = "W_RUN"
    /\ IF k \in sb_wfull
         THEN UnitOps # {}
         ELSE (\E o \in UnitOps : Op(o).w = k) \/ (\E m \in Loads : m.w = k)

(* "A barrier orders loads before it against stores after it": a warp at   *)
(* the barrier has no memory operation in flight.                          *)
BarrierDrained ==
  \A k \in Slots : wstate[k] = "W_BAR" => \A m \in mem : m.w # k

(* WaitsSound: whoever waits waits for something that will come: a sleeper *)
(* has its waker, and a warp at a barrier has nothing of its own left to   *)
(* wait for but the other warps (warp_pool.sv, sb_wake, sb_haz, do_bar).   *)
WaitsSound == SleeperHasWaker /\ BarrierDrained

(* Warps of one block are never more than a barrier apart: of two live     *)
(* ones that have arrived at different barriers, the one ahead waits.      *)
BarrierRound ==
  \A j, k \in Slots \ Free :
    Group(j) = Group(k) /\ arrived[j] # arrived[k] =>
      (wstate[j] = "W_BAR") # (wstate[k] = "W_BAR")

(* A group of slots hosts one block at a time: its live warps belong to    *)
(* the same block, so they share a barrier and a shared window.            *)
OneBlock ==
  \A j, k \in Slots \ Free :
    Group(j) = Group(k) => wid[j] \div grid.blk = wid[k] \div grid.blk

(* Every warp of the grid runs exactly once: the warps spawned so far are  *)
(* in a slot or have retired, not both, and none is in two slots.          *)
WarpsOnce ==
  LET live == {wid[k] : k \in Slots \ Free} IN
  running => /\ live \cap retired = {}
             /\ live \cup retired = 0 .. grid.next_wid - 1
             /\ Cardinality(live) = Cardinality(Slots \ Free)
             /\ grid.next_wid <= grid.total_warps

(* done means done: every warp of the grid has retired and every store has *)
(* reached memory.                                                         *)
DoneMeansDone ==
  done => retired = 0 .. grid.total_warps - 1 /\ mem = {}

(* GridExact: between start and done every warp runs once and nothing is   *)
(* left behind, whatever the block size and the tail of the grid           *)
(* (warp_pool.sv, next_wid, any_busy, done).                               *)
GridExact == WarpsOnce /\ DoneMeansDone

(* Every launched grid completes.                                          *)
GridCompletes == running ~> ~running
=============================================================================
