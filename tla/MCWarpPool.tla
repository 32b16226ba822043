----------------------------- MODULE MCWarpPool -----------------------------
(* Kernels for the model checker: every kernel of two instructions (and an *)
(* ecall) over a small library, and the skeletons of kernels the           *)
(* repository runs.                                                        *)
EXTENDS WarpPool

TwoUnits == <<"fpc", "mul">>
UnitLat  == [u \in {"fpc", "mul"} |-> IF u = "fpc" THEN 2 ELSE 1]

I(c, d, u) == [cls |-> c, rd |-> d, use |-> u]
Alu   == I("alu", "a", {"a"})
Ctl   == I("ctl", "x0", {"a"})
Pop   == I("pop", "x0", {})
Lw    == I("load", "a", {"b"})
Flw   == I("load", "f", {"b"})
Sw    == I("store", "x0", {"a", "b"})
Fsw   == I("store", "x0", {"b", "f"})
Amo   == I("amo", "a", {"a", "b"})
Mul   == I("mul", "a", {"a"})
FcvtX0 == I("fpc", "x0", {"f"})
Fma   == I("fpc", "f", {"f"})
Fcvt  == I("fpc", "a", {"f"})
Fdiv  == I("sfu", "f", {"f"})
Bar   == I("bar", "x0", {})
Ecall == I("ecall", "x0", {})

Library == {Alu, Ctl, Pop, Lw, Flw, Sw, Fsw, Amo, Mul, Fma, Fcvt, Fdiv, Bar}

Pairs     == {<<i, j, Ecall>> : i, j \in Library}
Skeletons ==
  {<<Lw, Flw, Fma, Fsw, Ecall>>,       \* GEMM inner product
   <<Lw, Fcvt, Sw, Ecall>>,            \* a result that overwrites a load's
   <<Sw, Bar, Lw, Bar, Ecall>>,        \* tile exchange across a barrier
   <<Flw, Fdiv, Fsw, Ecall>>,          \* softmax normalisation
   <<Lw, Amo, Ctl, Pop, Ecall>>}       \* histogram under a branch
(* A result nobody waits for may outlive its warp.                         *)
DeadResult == {<<FcvtX0, Ecall>>}
IssueKernels == Pairs \cup Skeletons \cup DeadResult

Barriers ==
  {<<Bar, Ecall>>, <<Sw, Bar, Ecall>>, <<Bar, Bar, Ecall>>,
   <<Lw, Sw, Bar, Ecall>>,             \* a load waited for before the barrier
   <<Fma, Fcvt, Bar, Ecall>>}          \* a chain through a unit
=============================================================================
