--------------------------- MODULE MCSimtStackLive ---------------------------
(***************************************************************************)
(* SimtStack with loops that end, for liveness.                            *)
(***************************************************************************)
EXTENDS MCSimtStack

CONSTANT MaxTrips   \* backward branches a lane takes before its loop ends

VARIABLE trips      \* backward branches taken by each lane

MCInit == Init /\ trips = [l \in Lanes |-> 0]

(* A lane's own loop ends: it takes at most MaxTrips backward branches.    *)
MCBranch(taken) ==
  /\ Branch(taken)
  /\ trips' = [l \in Lanes |-> IF l \in taken /\ instr.imm <= 0
                                 THEN trips[l] + 1 ELSE trips[l]]
  /\ \A l \in Lanes : trips'[l] <= MaxTrips

MCNext ==
  \/ Pop /\ UNCHANGED trips
  \/ Advance /\ UNCHANGED trips
  \/ Jump /\ UNCHANGED trips
  \/ \E taken \in SUBSET cur_mask : MCBranch(taken)
  \/ Ecall /\ UNCHANGED trips

mcvars == <<vars, trips>>

MCSpec == MCInit /\ [][MCNext]_mcvars /\ WF_mcvars(MCNext)

(* WarpRetires: every thread's own loops end, so the warp retires, and     *)
(* then every one of its lanes has come to its own ecall: no pattern of    *)
(* divergence of the repository's kernels leaves a lane waiting at a join, *)
(* neither for ever nor past the end of the warp, which an ecall under a   *)
(* divergent mask would do (warp_pool.sv, do_pop and is_ecall).            *)
OwnEcall(l) == imem[lane_pc[l]].op = "ecall"
WarpRetires ==
  imem \in RepoKernels => <>(wstate = "W_DONE" /\ \A l \in stk_mask[0] : OwnEcall(l))
=============================================================================
