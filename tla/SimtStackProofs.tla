--------------------------- MODULE SimtStackProofs ---------------------------
(***************************************************************************)
(* Proofs about SimtStack, for every number of lanes and every kernel.     *)
(***************************************************************************)
EXTENDS SimtStack, FiniteSetTheorems, TLAPS

(* A remainder lies below its divisor, and a number that does already is   *)
(* its own remainder.                                                      *)
LEMMA ModRange ==
  ASSUME NEW a \in Int, NEW n \in Nat \ {0}
  PROVE  a % n \in 0 .. n - 1
BY SMT

LEMMA ModSmall ==
  ASSUME NEW n \in Nat \ {0}, NEW a \in 0 .. n - 1
  PROVE  a % n = a
BY SMT

(* Sets of lanes are finite and have at most NL members.                   *)
LEMMA LanesFinite ==
  ASSUME NEW S \in SUBSET Lanes
  PROVE  IsFiniteSet(S) /\ Cardinality(S) \in Nat /\ Cardinality(S) <= NL
<1>1. IsFiniteSet(Lanes) /\ Cardinality(Lanes) = NL
  BY NLAssumption, FS_Interval DEF Lanes
<1>2. QED
  BY <1>1, FS_Subset, FS_CardinalityType

(* The PCs an instruction computes are PCs.                                *)
LEMMA PcsInRange ==
  ASSUME TypeOK
  PROVE  cur_pc \in Pc /\ fallthru \in Pc /\ br_target \in Pc /\ cur_mask \in SUBSET Lanes
<1>1. cur_pc \in Pc /\ cur_mask \in SUBSET Lanes
  BY DEF TypeOK, cur_pc, cur_mask
<1>2. instr.imm \in Int
  BY <1>1 DEF TypeOK, instr, Instr
<1>3. cur_pc + 1 \in Int /\ cur_pc + instr.imm \in Int
  BY <1>1, <1>2 DEF Pc
<1>4. fallthru \in Pc /\ br_target \in Pc
  BY <1>3, PcAssumption, ModRange DEF fallthru, br_target, Pc
<1>5. QED
  BY <1>1, <1>4

-----------------------------------------------------------------------------
(***************************************************************************)
(* The inductive invariant.  DepthSuffices is not inductive: that a free   *)
(* frame is left follows from the lanes the frames below have given up,    *)
(* which FrameBudget counts.                                               *)
(***************************************************************************)
StackInv == TypeOK /\ NestedMasks /\ FrameBudget /\ JoinChain /\ LockStep

LEMMA InitStackInv == Init => StackInv
<1> SUFFICES ASSUME Init PROVE StackInv
  OBVIOUS
<1>1. 0 \in Frames /\ sp = 0
  BY NLAssumption DEF Init, Frames, SDEPTH
<1>2. PICK m \in SpawnMasks : stk_mask = [i \in Frames |-> m]
  BY DEF Init
<1>3. m \in SUBSET Lanes /\ m # {}
  <2>1. PICK k \in 1 .. NL : m = 0 .. k - 1
    BY <1>2 DEF SpawnMasks
  <2>2. 0 \in m /\ \A l \in m : l \in Lanes
    BY <2>1, NLAssumption DEF Lanes
  <2>3. QED
    BY <2>2
<1>4. TypeOK
  BY <1>1, <1>2, <1>3, PcAssumption, ProgramsAssumption DEF Init, TypeOK
<1>5. NestedMasks
  BY <1>1, <1>2, <1>3 DEF NestedMasks
<1>6. FrameBudget
  BY <1>1, <1>2, <1>3, LanesFinite DEF FrameBudget
<1>7. JoinChain
  BY <1>1 DEF JoinChain
<1>8. LockStep
  BY <1>1, <1>2, <1>3 DEF LockStep, Init, Frames
<1>9. QED
  BY <1>4, <1>5, <1>6, <1>7, <1>8 DEF StackInv

(* A push stays inside the stack: the mask it leaves on top is a proper    *)
(* part of one with at most NL - sp lanes.                                 *)
LEMMA PushFits ==
  ASSUME StackInv, NEW lanes \in SUBSET cur_mask, lanes # {}, lanes # cur_mask
  PROVE  /\ (sp + 1) % SDEPTH = sp + 1
         /\ sp + 1 \in Frames
         /\ Cardinality(lanes) + (sp + 1) <= NL
<1>1. cur_mask \in SUBSET Lanes /\ sp \in Frames /\ sp \in Nat
  BY DEF StackInv, TypeOK, cur_mask, Frames
<1>2. IsFiniteSet(cur_mask) /\ Cardinality(cur_mask) \in Nat
  BY <1>1, LanesFinite
<1>3. /\ IsFiniteSet(lanes) /\ Cardinality(lanes) \in Nat
      /\ Cardinality(lanes) <= Cardinality(cur_mask)
      /\ Cardinality(lanes) # Cardinality(cur_mask)
  BY <1>2, FS_Subset, FS_CardinalityType
<1>4. Cardinality(lanes) # 0
  BY <1>3, FS_EmptySet
<1>5. Cardinality(cur_mask) + sp <= NL
  BY <1>1 DEF StackInv, FrameBudget, cur_mask
<1>6. Cardinality(lanes) + (sp + 1) <= NL /\ sp + 1 <= NL - 1
  BY <1>1, <1>2, <1>3, <1>4, <1>5, NLAssumption
<1>7. sp + 1 \in 0 .. SDEPTH - 1
  BY <1>1, <1>6, NLAssumption DEF SDEPTH
<1>8. QED
  BY <1>6, <1>7, ModSmall, NLAssumption DEF SDEPTH, Frames

-----------------------------------------------------------------------------
(* The three kinds of change a step makes to the stack: the top frame is   *)
(* retargeted and its lanes with it, a frame is popped, a frame is pushed. *)
Retarget(t) ==
  /\ stk_npc' = [stk_npc EXCEPT ![sp] = t]
  /\ lane_pc' = [l \in Lanes |-> IF l \in cur_mask THEN t ELSE lane_pc[l]]
  /\ UNCHANGED <<imem, wstate, sp, stk_rpc, stk_mask>>

Diverge(npc, join, lanes) ==
  /\ Push(npc, join, lanes)
  /\ lane_pc' = [l \in Lanes |-> IF l \in lanes THEN npc
                                ELSE IF l \in cur_mask THEN join ELSE lane_pc[l]]
  /\ UNCHANGED <<imem, wstate>>

(* Retargeting the top frame keeps the invariant: the frames below and     *)
(* their lanes do not move.                                                *)
LEMMA RetargetKeeps ==
  ASSUME StackInv, NEW t \in Pc, Retarget(t)
  PROVE  StackInv'
<1> USE DEF Retarget
<1>1. sp \in Frames /\ sp \in Nat
  BY DEF StackInv, TypeOK, Frames
<1>2. TypeOK'
  BY <1>1 DEF StackInv, TypeOK
<1>3. NestedMasks' /\ FrameBudget'
  BY DEF StackInv, NestedMasks, FrameBudget
<1>4. JoinChain'
  BY <1>1 DEF StackInv, TypeOK, JoinChain, Frames
<1>5. LockStep'
  <2> SUFFICES ASSUME NEW i \in 0 .. sp, NEW l \in stk_mask[i],
                      \A j \in 0 .. sp : j > i => l \notin stk_mask[j]
               PROVE  lane_pc'[l] = stk_npc'[i]
    BY DEF LockStep
  <2>1. i \in Frames /\ l \in Lanes
    BY <1>1, NLAssumption DEF StackInv, TypeOK, Frames, SDEPTH
  <2>2. CASE i = sp
    BY <2>1, <2>2, <1>1 DEF cur_mask, StackInv, TypeOK
  <2>3. CASE i # sp
    <3>1. l \notin cur_mask
      BY <2>3, <1>1 DEF cur_mask
    <3>2. lane_pc[l] = stk_npc[i]
      BY DEF StackInv, LockStep
    <3>3. QED
      BY <3>1, <3>2, <2>1, <2>3, <1>1 DEF StackInv, TypeOK
  <2>4. QED
    BY <2>2, <2>3
<1>6. QED
  BY <1>2, <1>3, <1>4, <1>5 DEF StackInv

(* Popping keeps it: the lanes of the popped frame stand at its join, and  *)
(* by JoinChain that is where the frame below waits.                       *)
LEMMA PopKeeps ==
  ASSUME StackInv, Pop
  PROVE  StackInv'
<1> USE DEF Pop, do_pop
<1>1. sp \in Frames /\ sp \in Nat /\ sp - 1 \in Frames /\ sp - 1 \in Nat
  BY NLAssumption DEF StackInv, TypeOK, Frames, SDEPTH
<1>2. \A i \in 0 .. sp - 1 : i \in 0 .. sp
  BY <1>1
<1>3. TypeOK'
  BY <1>1 DEF StackInv, TypeOK
<1>4. NestedMasks' /\ FrameBudget' /\ JoinChain'
  BY <1>1, <1>2 DEF StackInv, NestedMasks, FrameBudget, JoinChain
<1>5. LockStep'
  <2> SUFFICES ASSUME NEW i \in 0 .. sp - 1, NEW l \in stk_mask[i],
                      \A j \in 0 .. sp - 1 : j > i => l \notin stk_mask[j]
               PROVE  lane_pc[l] = stk_npc[i]
    BY DEF LockStep
  <2>1. CASE l \notin stk_mask[sp]
    <3>1. \A j \in 0 .. sp : j > i => l \notin stk_mask[j]
      BY <2>1, <1>1
    <3>2. QED
      BY <3>1, <1>2 DEF StackInv, LockStep
  <2>2. CASE l \in stk_mask[sp]
    <3>1. l \in stk_mask[sp - 1]
      BY <2>2, <1>1 DEF StackInv, NestedMasks
    <3>2. i = sp - 1
      BY <3>1, <1>1
    <3>3. lane_pc[l] = stk_npc[sp]
      BY <2>2, <1>1 DEF StackInv, LockStep
    <3>4. stk_npc[sp - 1] = stk_rpc[sp]
      BY <1>1 DEF StackInv, JoinChain
    <3>5. QED
      BY <3>2, <3>3, <3>4 DEF cur_pc
  <2>3. QED
    BY <2>1, <2>2
<1>6. QED
  BY <1>3, <1>4, <1>5 DEF StackInv

(* Pushing keeps it: the new mask is a proper part of the old top one, the *)
(* lanes left behind stand at the join.                                    *)
LEMMA DivergeKeeps ==
  ASSUME StackInv, NEW npc \in Pc, NEW join \in Pc,
         NEW lanes \in SUBSET cur_mask, lanes # {}, lanes # cur_mask,
         Diverge(npc, join, lanes)
  PROVE  StackInv'
<1>1. /\ sp \in Frames /\ sp \in Nat /\ sp + 1 \in Frames
      /\ (sp + 1) % SDEPTH = sp + 1
      /\ Cardinality(lanes) + (sp + 1) <= NL
  BY PushFits DEF StackInv, TypeOK, Frames
<1>2. /\ stk_npc'  = [stk_npc  EXCEPT ![sp] = join, ![sp + 1] = npc]
      /\ stk_mask' = [stk_mask EXCEPT ![sp + 1] = lanes]
      /\ stk_rpc'  = [stk_rpc  EXCEPT ![sp + 1] = join]
      /\ sp' = sp + 1
  BY <1>1 DEF Diverge, Push
<1>3. lanes \in SUBSET Lanes /\ cur_mask = stk_mask[sp]
  BY <1>1 DEF StackInv, TypeOK, cur_mask
<1>4. TypeOK'
  BY <1>1, <1>2, <1>3 DEF Diverge, StackInv, TypeOK
<1>5. /\ \A i \in 0 .. sp : i \in Frames /\ stk_mask'[i] = stk_mask[i]
      /\ stk_mask'[sp + 1] = lanes
      /\ \A i \in 0 .. sp + 1 : i \in 0 .. sp \/ i = sp + 1
  <2>1. \A i \in 0 .. sp : i \in Frames /\ i # sp + 1
    BY <1>1, NLAssumption DEF Frames, SDEPTH
  <2>2. \A i \in 0 .. sp + 1 : i \in 0 .. sp \/ i = sp + 1
    BY <1>1
  <2>3. QED
    BY <2>1, <2>2, <1>1, <1>2 DEF StackInv, TypeOK
<1>6. NestedMasks'
  <2>1. \A i \in 0 .. sp + 1 : stk_mask'[i] # {}
    BY <1>5 DEF StackInv, NestedMasks
  <2>2. ASSUME NEW i \in 0 .. sp + 1, NEW j \in 0 .. sp + 1, i < j
        PROVE  stk_mask'[j] \subseteq stk_mask'[i] /\ stk_mask'[j] # stk_mask'[i]
    <3>1. i \in 0 .. sp
      BY <2>2, <1>1
    <3>2. CASE j \in 0 .. sp
      BY <2>2, <3>1, <3>2, <1>5 DEF StackInv, NestedMasks
    <3>3. CASE j = sp + 1
      <4>1. stk_mask[sp] \subseteq stk_mask[i]
        BY <3>1, <1>1 DEF StackInv, NestedMasks
      <4>2. QED
        BY <4>1, <3>1, <3>3, <1>3, <1>5
    <3>4. QED
      BY <3>2, <3>3, <1>5
  <2>3. QED
    BY <2>1, <2>2, <1>2 DEF NestedMasks
<1>7. FrameBudget'
  BY <1>1, <1>2, <1>5 DEF StackInv, FrameBudget
<1>8. JoinChain'
  <2> SUFFICES ASSUME NEW i \in 0 .. sp
               PROVE  stk_npc'[i] = stk_rpc'[i + 1]
    <3>1. sp' - 1 = sp
      BY <1>1, <1>2
    <3>2. QED
      BY <3>1 DEF JoinChain
  <2>1. CASE i = sp
    BY <2>1, <1>1, <1>2 DEF StackInv, TypeOK
  <2>2. CASE i # sp
    <3>1. i \in 0 .. sp - 1 /\ i + 1 \in 0 .. sp /\ i + 1 # sp + 1
      BY <2>2, <1>1
    <3>2. i \in Frames /\ i + 1 \in Frames /\ i # sp + 1
      BY <3>1, <1>5, <1>1
    <3>3. stk_npc'[i] = stk_npc[i] /\ stk_rpc'[i + 1] = stk_rpc[i + 1]
      BY <2>2, <3>1, <3>2, <1>2 DEF StackInv, TypeOK
    <3>4. QED
      BY <3>1, <3>3 DEF StackInv, JoinChain
  <2>3. QED
    BY <2>1, <2>2
<1>9. LockStep'
  <2> SUFFICES ASSUME NEW i \in 0 .. sp + 1, NEW l \in stk_mask'[i],
                      \A j \in 0 .. sp + 1 : j > i => l \notin stk_mask'[j]
               PROVE  lane_pc'[l] = stk_npc'[i]
    BY <1>2 DEF LockStep
  <2>0. l \in Lanes
    BY <1>3, <1>5 DEF StackInv, TypeOK
  <2>1. CASE i = sp + 1
    BY <2>0, <2>1, <1>1, <1>2, <1>5 DEF Diverge, StackInv, TypeOK
  <2>2. CASE i \in 0 .. sp
    <3>1. l \notin lanes /\ l \in stk_mask[i]
      BY <2>2, <1>1, <1>5
    <3>2. CASE i = sp
      BY <2>0, <3>1, <3>2, <1>1, <1>2, <1>3 DEF Diverge, StackInv, TypeOK
    <3>3. CASE i # sp
      <4>1. \A j \in 0 .. sp : j > i => l \notin stk_mask[j]
        BY <1>5, <1>1
      <4>2. lane_pc[l] = stk_npc[i] /\ l \notin cur_mask
        BY <4>1, <3>1, <3>3, <2>2, <1>1, <1>3 DEF StackInv, LockStep
      <4>3. stk_npc'[i] = stk_npc[i]
        BY <2>2, <3>3, <1>1, <1>2, <1>5 DEF StackInv, TypeOK
      <4>4. QED
        BY <4>2, <4>3, <3>1, <2>0 DEF Diverge
    <3>4. QED
      BY <3>2, <3>3
  <2>3. QED
    BY <2>1, <2>2, <1>5
<1>10. QED
  BY <1>4, <1>6, <1>7, <1>8, <1>9 DEF StackInv

(* A branch is one of those changes.                                       *)
LEMMA BranchKeeps ==
  ASSUME StackInv, NEW taken \in SUBSET cur_mask, Branch(taken)
  PROVE  StackInv'
<1>1. fallthru \in Pc /\ br_target \in Pc
  BY PcsInRange DEF StackInv
<1>2. CASE BranchUniform(taken)
  <2>1. CASE taken = cur_mask
    <3>1. Retarget(br_target)
      BY <1>2, <2>1 DEF Branch, BranchUniform, MoveLanes, Retarget
    <3>2. QED
      BY <3>1, <1>1, RetargetKeeps
  <2>2. CASE taken = {} /\ taken # cur_mask
    <3>1. Retarget(fallthru)
      BY <1>2, <2>2 DEF Branch, BranchUniform, MoveLanes, Retarget
    <3>2. QED
      BY <3>1, <1>1, RetargetKeeps
  <2>3. QED
    BY <1>2, <2>1, <2>2 DEF BranchUniform
<1>3. CASE BranchDivergent(taken)
  <2> DEFINE rest == cur_mask \ taken
  <2>1. taken # {} /\ taken # cur_mask /\ rest # {} /\ rest # cur_mask
    BY <1>3 DEF BranchDivergent
  <2>2. CASE instr.imm > 0
    <3>1. Diverge(fallthru, br_target, rest)
      BY <1>3, <2>2 DEF Branch, BranchDivergent, MoveLanes, Diverge
    <3>2. QED
      BY <3>1, <2>1, <1>1, DivergeKeeps
  <2>3. CASE ~(instr.imm > 0)
    <3>1. Diverge(br_target, fallthru, taken)
      BY <1>3, <2>3 DEF Branch, BranchDivergent, MoveLanes, Diverge
    <3>2. QED
      BY <3>1, <2>1, <1>1, DivergeKeeps
  <2>4. QED
    BY <2>2, <2>3
<1>4. QED
  BY <1>2, <1>3 DEF Branch

LEMMA NextStackInv == StackInv /\ [Next]_vars => StackInv'
<1> SUFFICES ASSUME StackInv, [Next]_vars PROVE StackInv'
  OBVIOUS
<1>0. fallthru \in Pc /\ br_target \in Pc
  BY PcsInRange DEF StackInv
<1>1. CASE Pop
  BY <1>1, PopKeeps
<1>2. CASE Advance
  <2>1. Retarget(fallthru)
    BY <1>2 DEF Advance, MoveLanes, Retarget
  <2>2. QED
    BY <2>1, <1>0, RetargetKeeps
<1>3. CASE Jump
  <2>1. PICK t \in Pc : Retarget(t)
    BY <1>3 DEF Jump, MoveLanes, Retarget
  <2>2. QED
    BY <2>1, RetargetKeeps
<1>4. CASE \E taken \in SUBSET cur_mask : Branch(taken)
  BY <1>4, BranchKeeps
<1>5. CASE Ecall
  BY <1>5 DEF Ecall, stack, StackInv, TypeOK, NestedMasks, FrameBudget, JoinChain, LockStep
<1>6. CASE UNCHANGED vars
  BY <1>6 DEF vars, stack, StackInv, TypeOK, NestedMasks, FrameBudget, JoinChain, LockStep
<1>7. QED
  BY <1>1, <1>2, <1>3, <1>4, <1>5, <1>6 DEF Next

(* The inductive invariant holds of every behaviour of the stack.          *)
THEOREM StackInvariant == Spec => []StackInv
<1>1. QED
  BY InitStackInv, NextStackInv, PTL DEF Spec

(* The stack registers always hold values of their types.                  *)
THEOREM TypeCorrect == Spec => []TypeOK
<1>1. StackInv => TypeOK
  BY DEF StackInv
<1>2. QED
  BY <1>1, StackInvariant, PTL

(* Masks strictly shrink up the stack and none is empty.                   *)
THEOREM MasksNested == Spec => []NestedMasks
<1>1. StackInv => NestedMasks
  BY DEF StackInv
<1>2. QED
  BY <1>1, StackInvariant, PTL

(* SDEPTH = NUM_LANES frames are enough for any kernel.                    *)
THEOREM DepthIsEnough == Spec => []DepthSuffices
<1>1. StackInv => DepthSuffices
  <2> SUFFICES ASSUME StackInv, Cardinality(cur_mask) >= 2
               PROVE  sp + 1 <= SDEPTH - 1
    BY DEF DepthSuffices
  <2>1. sp \in Nat /\ cur_mask \in SUBSET Lanes
    BY DEF StackInv, TypeOK, Frames, cur_mask
  <2>2. Cardinality(cur_mask) \in Nat
    BY <2>1, LanesFinite
  <2>3. Cardinality(cur_mask) + sp <= NL
    BY <2>1 DEF StackInv, FrameBudget, cur_mask
  <2>4. QED
    BY <2>1, <2>2, <2>3, NLAssumption DEF SDEPTH
<1>2. QED
  BY <1>1, StackInvariant, PTL

(* Each frame waits where the frame above it joins.                        *)
THEOREM JoinsMatch == Spec => []JoinChain
<1>1. StackInv => JoinChain
  BY DEF StackInv
<1>2. QED
  BY <1>1, StackInvariant, PTL

(* The shape of the stack: nested masks, room for every divergence, every  *)
(* frame at the join of the frame above it (warp_pool.sv, stage B, do_pop).*)
THEOREM ShapeKept == Spec => []StackShape
<1>1. NestedMasks /\ DepthSuffices /\ JoinChain => StackShape
  BY DEF StackShape
<1>2. QED
  BY <1>1, MasksNested, DepthIsEnough, JoinsMatch, PTL

(* The active lanes execute the next instruction of their own threads.     *)
THEOREM LanesInLockStep == Spec => []LockStep
<1>1. StackInv => LockStep
  BY DEF StackInv
<1>2. QED
  BY <1>1, StackInvariant, PTL

(* No step changes the mask of the bottom frame.                           *)
LEMMA BottomMaskKept ==
  ASSUME StackInv, Next
  PROVE  stk_mask'[0] = stk_mask[0]
<1>1. CASE Pop \/ Advance \/ Jump \/ Ecall
  BY <1>1 DEF Pop, Advance, Jump, Ecall, stack
<1>2. ASSUME NEW taken \in SUBSET cur_mask, Branch(taken)
      PROVE  stk_mask'[0] = stk_mask[0]
  <2>1. CASE BranchUniform(taken)
    BY <2>1 DEF BranchUniform
  <2>2. CASE BranchDivergent(taken)
    <3>1. PICK lanes \in SUBSET cur_mask :
            /\ lanes # {} /\ lanes # cur_mask
            /\ stk_mask' = [stk_mask EXCEPT ![(sp + 1) % SDEPTH] = lanes]
      <4>1. taken # {} /\ taken # cur_mask
        BY <2>2 DEF BranchDivergent
      <4>2. CASE instr.imm > 0
        BY <4>1, <4>2, <2>2 DEF BranchDivergent, Push
      <4>3. CASE ~(instr.imm > 0)
        BY <4>1, <4>3, <2>2 DEF BranchDivergent, Push
      <4>4. QED
        BY <4>2, <4>3
    <3>2. (sp + 1) % SDEPTH # 0
      <4>1. (sp + 1) % SDEPTH = sp + 1
        BY <3>1, PushFits
      <4>2. QED
        BY <4>1 DEF StackInv, TypeOK, Frames
    <3>3. QED
      BY <3>1, <3>2 DEF StackInv, TypeOK
  <2>3. QED
    BY <1>2, <2>1, <2>2 DEF Branch
<1>3. QED
  BY <1>1, <1>2 DEF Next

(* Divergence neither loses nor invents a lane.                            *)
THEOREM NoLaneLost == Spec => LanesKept
<1>1. StackInv /\ [Next]_vars => [stk_mask'[0] = stk_mask[0]]_vars
  BY BottomMaskKept
<1>2. QED
  BY <1>1, StackInvariant, PTL DEF Spec, LanesKept

(* Lanes that move do so as their own thread's instruction says.           *)
LEMMA MoveIsThreadStep ==
  ASSUME StackInv, Next, wstate = "W_RUN", wstate' = wstate, imem' = imem,
         DOMAIN lane_pc' = Lanes,
         \A l \in Lanes : lane_pc'[l] # lane_pc[l] =>
                 l \in cur_mask /\ lane_pc'[l] \in Threads!Successors(cur_pc)
  PROVE  Threads!Step
<1>1. sp \in Frames /\ sp \in Nat
  BY DEF StackInv, TypeOK, Frames
<1>2. cur_mask \subseteq stk_mask[0]
  BY <1>1 DEF StackInv, NestedMasks, cur_mask
<1>3. live = stk_mask[0] /\ live' = live
  BY BottomMaskKept DEF live
<1>4. \A l \in cur_mask : lane_pc[l] = cur_pc
  BY <1>1 DEF StackInv, LockStep, cur_mask, cur_pc
<1>5. QED
  BY <1>2, <1>3, <1>4 DEF Threads!Step

(* Every kernel's steps, but for an ecall in a divergent frame, are steps  *)
(* of its lanes as independent threads.                                    *)
THEOREM StepsAreThreadSteps == Spec => ThreadSteps
<1> DEFINE A == (sp = 0 \/ wstate' = "W_RUN") => [Threads!Next]_<<imem, live, lane_pc>>
<1>1. StackInv /\ [Next]_vars => [A]_vars
  <2> SUFFICES ASSUME StackInv, Next, sp = 0 \/ wstate' = "W_RUN"
               PROVE  Threads!Next \/ UNCHANGED <<imem, live, lane_pc>>
    OBVIOUS
  <2>0. /\ Threads!Fall(cur_pc) = fallthru /\ Threads!Target(cur_pc) = br_target
        /\ instr = imem[cur_pc]
    BY DEF Threads!Fall, Threads!Target, fallthru, br_target, instr
  <2>1. CASE Pop
    BY <2>1, BottomMaskKept DEF Pop, live
  <2>2. CASE Advance
    <3>1. Threads!Successors(cur_pc) = {fallthru}
      BY <2>0, <2>2 DEF Advance, Threads!Successors
    <3>2. QED
      BY <3>1, <2>2, MoveIsThreadStep DEF Advance, MoveLanes, Threads!Next
  <2>3. CASE Jump
    <3>1. PICK t \in Pc :
            /\ (instr.op = "jal" /\ t = br_target) \/ instr.op = "jalr"
            /\ MoveLanes(LAMBDA l : t)
      BY <2>3 DEF Jump
    <3>2. t \in Threads!Successors(cur_pc)
      <4>1. CASE instr.op = "jal" /\ t = br_target
        BY <4>1, <2>0 DEF Threads!Successors
      <4>2. CASE instr.op = "jalr"
        BY <4>2, <2>0 DEF Threads!Successors, Threads!Pc, Pc
      <4>3. QED
        BY <3>1, <4>1, <4>2
    <3>3. QED
      BY <3>1, <3>2, <2>3, MoveIsThreadStep DEF Jump, MoveLanes, Threads!Next
  <2>4. ASSUME NEW taken \in SUBSET cur_mask, Branch(taken)
        PROVE  Threads!Next
    <3>1. Threads!Successors(cur_pc) = {fallthru, br_target}
      BY <2>0, <2>4 DEF Branch, Threads!Successors
    <3>2. QED
      BY <3>1, <2>4, MoveIsThreadStep DEF Branch, MoveLanes, Threads!Next
  <2>5. CASE Ecall
    <3>1. sp = 0 /\ live = cur_mask /\ live' = {}
      BY <2>5 DEF Ecall, live, cur_mask
    <3>2. \A l \in cur_mask : lane_pc[l] = cur_pc
      BY <3>1 DEF StackInv, LockStep, cur_mask, cur_pc
    <3>3. Threads!Retire
      BY <3>1, <3>2, <2>0, <2>5 DEF Ecall, Threads!Retire
    <3>4. QED
      BY <3>3 DEF Threads!Next
  <2>6. QED
    BY <2>1, <2>2, <2>3, <2>4, <2>5 DEF Next
<1>2. QED
  BY <1>1, StackInvariant, PTL DEF Spec, ThreadSteps
=============================================================================
