------------------------------ MODULE SimtStack ------------------------------
(***************************************************************************)
(* The SIMT reconvergence stack of one warp slot (rtl/accel/warp_pool.sv). *)
(* The top frame gives the warp's PC and its active mask.  Between the     *)
(* fetch of an instruction and the end of stage X (stage B for control     *)
(* flow) the slot is in flight and no other step touches its stack, so one *)
(* instruction is one action here; WarpPool models the pipeline stages and *)
(* the other slots.                                                        *)
(*                                                                         *)
(* Data are abstracted: an instruction is its kind and, for a relative     *)
(* branch or jump, its signed word offset.  "op" stands for every          *)
(* instruction that ends with the fall-through PC in the top frame: ALU,   *)
(* FP, mul, dot, shuffle, load, and, once the engine that parked the warp  *)
(* resumes it, store, AMO, divide and barrier.  Which active lanes take a  *)
(* branch is a free choice.                                                *)
(***************************************************************************)
EXTENDS Integers, FiniteSets

CONSTANTS
  NL,         \* NUM_LANES
  PCN,        \* number of instruction words: PCs are the numbers 0..PCN-1
  EntryPc,    \* kernel_pc
  Programs    \* the kernels considered

Lanes == 0 .. NL - 1
Pc    == 0 .. PCN - 1
Instr == [op : {"op", "branch", "jal", "jalr", "ecall"}, imm : Int]

ASSUME NLAssumption       == NL \in Nat \ {0}
ASSUME PcAssumption       == PCN \in Nat \ {0} /\ EntryPc \in Pc
ASSUME ProgramsAssumption == \A p \in Programs : p \in [Pc -> Instr]

VARIABLES
  imem,       \* the kernel in the instruction memory
  wstate,     \* "W_RUN" or "W_DONE" (the parked states resume where they left)
  sp,         \* index of the top frame
  stk_npc,    \* per frame: PC
  stk_rpc,    \* per frame: join PC at which the frame pops
  stk_mask,   \* per frame: lanes
  lane_pc     \* history: PC of each lane when it runs as a thread of its own

stack == <<sp, stk_npc, stk_rpc, stk_mask>>
vars  == <<imem, wstate, stack, lane_pc>>

SDEPTH     == NL               \* frames of the stack
Frames     == 0 .. SDEPTH - 1
RPC_BOTTOM == PCN              \* 32'hFFFF_FFFF, not the address of a word

(* The X-stage view of the top frame.                                      *)
cur_pc   == stk_npc[sp]
cur_mask == stk_mask[sp]
instr    == imem[cur_pc]

(* Mutants: no wrap at the PC's width; offset counted from the next word.  *)
br_target_nowrap == cur_pc + instr.imm
br_target_offset == (cur_pc + 1 + instr.imm) % PCN
fallthru  == (cur_pc + 1) % PCN
br_target == (cur_pc + instr.imm) % PCN

(* The grid's last warp has a tail mask: lanes 0..m-1 for some m > 0.      *)
SpawnMasks == {0 .. m - 1 : m \in 1 .. NL}

Init ==
  /\ imem \in Programs
  /\ wstate = "W_RUN"
  /\ sp = 0
  /\ stk_npc = [i \in Frames |-> EntryPc]
  /\ stk_rpc = [i \in Frames |-> RPC_BOTTOM]
  /\ \E m \in SpawnMasks : stk_mask = [i \in Frames |-> m]
  /\ lane_pc = [l \in Lanes |-> EntryPc]

-----------------------------------------------------------------------------
(* The active lanes go where f says; the others stay where they are.       *)
MoveLanes(f(_)) ==
  lane_pc' = [l \in Lanes |-> IF l \in cur_mask THEN f(l) ELSE lane_pc[l]]

(* Mutant: the lowest pushed frame never pops.                             *)
do_pop_off_by_one == sp > 1 /\ cur_pc = stk_rpc[sp]

do_pop == sp # 0 /\ cur_pc = stk_rpc[sp]

(* Mutant: the popped frame's mask is written over the union mask.         *)
Pop_no_union ==
  /\ wstate = "W_RUN" /\ do_pop
  /\ sp' = sp - 1
  /\ stk_mask' = [stk_mask EXCEPT ![sp - 1] = cur_mask]
  /\ UNCHANGED <<imem, wstate, stk_npc, stk_rpc, lane_pc>>

(* The frame's lanes have reached its join: drop it, execute nothing.      *)
Pop ==
  /\ wstate = "W_RUN" /\ do_pop
  /\ sp' = sp - 1
  /\ UNCHANGED <<imem, wstate, stk_npc, stk_rpc, stk_mask, lane_pc>>

(* An instruction that is not control flow.                                *)
Advance ==
  /\ wstate = "W_RUN" /\ ~do_pop
  /\ instr.op = "op"
  /\ stk_npc' = [stk_npc EXCEPT ![sp] = fallthru]
  /\ MoveLanes(LAMBDA l : fallthru)
  /\ UNCHANGED <<imem, wstate, sp, stk_rpc, stk_mask>>

(* jal, and jalr, whose target is the lead lane's (assumed uniform).       *)
Jump ==
  /\ wstate = "W_RUN" /\ ~do_pop
  /\ \E t \in Pc :
       /\ \/ instr.op = "jal" /\ t = br_target
          \/ instr.op = "jalr"
       /\ stk_npc' = [stk_npc EXCEPT ![sp] = t]
       /\ MoveLanes(LAMBDA l : t)
  /\ UNCHANGED <<imem, wstate, sp, stk_rpc, stk_mask>>

(* A branch on which the active lanes agree only retargets the top frame.  *)
BranchUniform(taken) ==
  /\ taken \in {cur_mask, {}}
  /\ stk_npc' = [stk_npc EXCEPT ![sp] =
                   IF taken = cur_mask THEN br_target ELSE fallthru]
  /\ UNCHANGED <<sp, stk_rpc, stk_mask>>

(* Mutant: the frame below is not moved to the join.                       *)
Push_no_join(npc, join, lanes) ==
  LET top == (sp + 1) % SDEPTH IN
  /\ stk_npc'  = [stk_npc  EXCEPT ![top] = npc]
  /\ stk_mask' = [stk_mask EXCEPT ![top] = lanes]
  /\ stk_rpc'  = [stk_rpc  EXCEPT ![top] = join]
  /\ sp' = top

(* The frame pushed by a divergent branch: where its lanes go on, where    *)
(* they join, and which they are.  The lanes left behind wait in the frame *)
(* below, at the join, under the union mask.                               *)
Push(npc, join, lanes) ==
  LET top == (sp + 1) % SDEPTH IN
  /\ stk_npc'  = [stk_npc  EXCEPT ![sp] = join, ![top] = npc]
  /\ stk_mask' = [stk_mask EXCEPT ![top] = lanes]
  /\ stk_rpc'  = [stk_rpc  EXCEPT ![top] = join]
  /\ sp' = top

(* Mutant: the wrong lanes go first.                                       *)
BranchDivergent_lanes(taken) ==
  /\ taken \notin {cur_mask, {}}
  /\ IF instr.imm > 0
       THEN Push(fallthru, br_target, taken)
       ELSE Push(br_target, fallthru, taken)

(* Forward (an if): the fall-through lanes run up to the target first.     *)
(* Backward (a loop): the taken lanes loop until they fall through.        *)
BranchDivergent(taken) ==
  /\ taken \notin {cur_mask, {}}
  /\ IF instr.imm > 0
       THEN Push(fallthru, br_target, cur_mask \ taken)
       ELSE Push(br_target, fallthru, taken)

Branch(taken) ==
  /\ wstate = "W_RUN" /\ ~do_pop
  /\ instr.op = "branch"
  /\ BranchUniform(taken) \/ BranchDivergent(taken)
  /\ MoveLanes(LAMBDA l : IF l \in taken THEN br_target ELSE fallthru)
  /\ UNCHANGED <<imem, wstate>>

(* ecall: the slot is done, whatever frames are below the top one.         *)
Ecall ==
  /\ wstate = "W_RUN" /\ ~do_pop
  /\ instr.op = "ecall"
  /\ wstate' = "W_DONE"
  /\ UNCHANGED <<imem, stack, lane_pc>>

Next ==
  \/ Pop
  \/ Advance
  \/ Jump
  \/ \E taken \in SUBSET cur_mask : Branch(taken)
  \/ Ecall

Spec == Init /\ [][Next]_vars

-----------------------------------------------------------------------------
(* Lanes of the warp that have not retired.                                *)
live == IF wstate = "W_RUN" THEN stk_mask[0] ELSE {}

(* Every register of the stack holds a value of its width.                 *)
TypeOK ==
  /\ imem \in [Pc -> Instr]
  /\ wstate \in {"W_RUN", "W_DONE"}
  /\ sp \in Frames
  /\ stk_npc \in [Frames -> Pc]
  /\ stk_rpc \in [Frames -> Pc \cup {RPC_BOTTOM}]
  /\ stk_mask \in [Frames -> SUBSET Lanes]
  /\ lane_pc \in [Lanes -> Pc]

(* "a divergent branch pushes a frame whose mask is a strict, non-empty    *)
(* subset of the mask below it": going up the live frames, the masks       *)
(* strictly shrink and none is empty.                                      *)
NestedMasks ==
  /\ \A i \in 0 .. sp : stk_mask[i] # {}
  /\ \A i, j \in 0 .. sp :
       i < j => stk_mask[j] \subseteq stk_mask[i] /\ stk_mask[j] # stk_mask[i]

(* "so no warp ever holds more than NL frames: NL is enough for any        *)
(* program": a warp that can still diverge (two or more active lanes) has  *)
(* a free frame above its top one, so the push never wraps onto a live     *)
(* frame.                                                                  *)
DepthSuffices == Cardinality(cur_mask) >= 2 => sp + 1 <= SDEPTH - 1

(* Each live frame waits at the join PC of the frame above it.             *)
JoinChain == \A i \in 0 .. sp - 1 : stk_npc[i] = stk_rpc[i + 1]

(* StackShape: the three together, what keeps a long run of divergences,   *)
(* loops and joins inside the stack and brings every lane back             *)
(* (warp_pool.sv, stage B and do_pop).                                     *)
StackShape == NestedMasks /\ DepthSuffices /\ JoinChain

(* The instruction the warp executes is, for each lane under the active    *)
(* mask, the next instruction of that lane's own thread; and every lane    *)
(* left behind stands at the PC of the highest frame that holds it.        *)
LockStep ==
  \A i \in 0 .. sp : \A l \in stk_mask[i] :
    (\A j \in 0 .. sp : j > i => l \notin stk_mask[j]) => lane_pc[l] = stk_npc[i]

(* No launched lane is dropped from the warp, and none is added, by any    *)
(* sequence of divergences and joins.                                      *)
LanesKept == [][stk_mask'[0] = stk_mask[0]]_vars

Threads == INSTANCE ThreadExec

(* Whatever the kernel, each step of the warp is a step of its lanes as    *)
(* threads, except an ecall executed in a divergent frame (sp # 0).        *)
ThreadSteps ==
  [][(sp = 0 \/ wstate' = "W_RUN") => [Threads!Next]_<<imem, live, lane_pc>>]_vars

(* What a divergence needs of the stack: a mask shrinks by a lane or more  *)
(* with each frame, so a frame's height and its lanes together fit in NL.  *)
FrameBudget == \A i \in 0 .. sp : Cardinality(stk_mask[i]) + i <= NL
=============================================================================
