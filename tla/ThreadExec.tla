----------------------------- MODULE ThreadExec -----------------------------
(***************************************************************************)
(* What the SIMT programming model promises to a kernel author: every lane *)
(* of a warp is a thread of its own.  It has its own program counter, runs *)
(* the kernel in program order from kernel_pc, decides its own branches    *)
(* and retires at an ecall.  Lanes may advance together or apart: nothing  *)
(* is said here of masks, stacks or reconvergence.  SimtStack is shown to  *)
(* implement this module.                                                  *)
(***************************************************************************)
EXTENDS Integers

CONSTANTS
  Lanes,      \* the lanes of the warp
  PCN,        \* number of instruction words: PCs are the numbers 0..PCN-1
  EntryPc,    \* kernel_pc
  Programs    \* the kernels considered

VARIABLES
  imem,       \* the kernel, a function from PCs to instructions
  live,       \* lanes launched and not retired yet
  lane_pc     \* PC of each lane

Pc == 0 .. PCN - 1

(* PC arithmetic wraps at the width of the PC register.                    *)
Fall(pc)     == (pc + 1) % PCN
Target(pc)   == (pc + imem[pc].imm) % PCN

(* Where a thread at pc may be after its instruction: a branch is free to  *)
(* go either way, jalr goes wherever its register points.                  *)
Successors(pc) ==
  CASE imem[pc].op = "op"     -> {Fall(pc)}
    [] imem[pc].op = "branch" -> {Fall(pc), Target(pc)}
    [] imem[pc].op = "jal"    -> {Target(pc)}
    [] imem[pc].op = "jalr"   -> Pc
    [] OTHER                  -> {}

Init ==
  /\ imem \in Programs
  /\ live \in SUBSET Lanes
  /\ lane_pc = [l \in Lanes |-> EntryPc]

(* Some of the live lanes execute one instruction each, the others wait.   *)
Step ==
  /\ \A l \in Lanes : lane_pc'[l] # lane_pc[l] =>
                        /\ l \in live
                        /\ lane_pc'[l] \in Successors(lane_pc[l])
  /\ DOMAIN lane_pc' = Lanes
  /\ UNCHANGED <<imem, live>>

(* Lanes that stand at an ecall retire.                                    *)
Retire ==
  /\ live' \in SUBSET live
  /\ \A l \in live \ live' : imem[lane_pc[l]].op = "ecall"
  /\ UNCHANGED <<imem, lane_pc>>

Next == Step \/ Retire

Spec == Init /\ [][Next]_<<imem, live, lane_pc>>
=============================================================================
