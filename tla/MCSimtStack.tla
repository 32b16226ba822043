----------------------------- MODULE MCSimtStack -----------------------------
(***************************************************************************)
(* The kernels SimtStack is checked on: every kernel of three words, and   *)
(* the control skeletons of the repository's kernels.                      *)
(***************************************************************************)
EXTENDS SimtStack

Op(k, imm) == [op |-> k, imm |-> imm]
I  == Op("op", 0)
B(imm) == Op("branch", imm)
E  == Op("ecall", 0)
Kernel(s) == [p \in Pc |-> IF p + 1 \in DOMAIN s THEN s[p + 1] ELSE E]

(* Every kernel of three words before the ecalls: branches both ways, past *)
(* one another, onto themselves and around the ends of the memory, jumps,  *)
(* and ecalls in any place.                                                *)
ShortKernels ==
  {Kernel(s) : s \in [1 .. 3 -> {I, E, Op("jal", 1)} \cup {B(k) : k \in {-2, -1, 1, 2}}]}

(* The control flow of the repository's kernels, one "op" per basic block: *)
(* the bounds check of kernels/vadd, the divergent loop of apps/spmv.S,    *)
(* the nested ifs in a loop of collatz/collatz.S, and apps/bfs.S.          *)
Vadd    == Kernel(<<B(2), I, E>>)
Spmv    == Kernel(<<B(3), I, B(-1), E>>)
Collatz == Kernel(<<B(5), B(2), I, B(2), I, B(-5), E>>)
Bfs     == Kernel(<<B(7), B(4), B(2), I, B(-2), B(2), I, E>>)
Call    == Kernel(<<Op("jal", 2), E, B(2), I, Op("jal", -3)>>)
(* A call that returns wherever its register says.                         *)
Return  == Kernel(<<B(3), I, Op("jal", 2), E, Op("jalr", 0)>>)
RepoKernels == {Vadd, Spmv, Collatz, Bfs, Call}

AllKernels == ShortKernels \cup RepoKernels \cup {Return}
=============================================================================
