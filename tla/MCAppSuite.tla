----------------------------- MODULE MCAppSuite -----------------------------
(* Small instances of every application of sim/gen_apps.py, for TLC.  The  *)
(* streams stay clear of what the suite's data never meets either: an      *)
(* fmadd that returns an addend which its product should have changed (the *)
(* streams 26 and 40 of the 4x4x3 gemm have one).                          *)
EXTENDS AppSuite, AppScans

(* Words of kernels/apps/<kernel>.hex, in KERNELS order.                   *)
HexWords == [gemm |-> 30, spmv |-> 26, stencil |-> 33, kmeans |-> 49, bfs |-> 30,
             scan |-> 52, scan_add |-> 14, mlp |-> 46, gemm_rb |-> 98, scan_seg |-> 45,
             scan_segadd |-> 22, stencil_rb |-> 55, kmeans_u |-> 94, zbtest |-> 30,
             spmv_z |-> 24]

Stream(seed) == [i \in 0..999 |-> (i * i * 3 + i * 29 + seed * 41) % 251]
Scale == fr2f(<<1, 4>>)
Zp    == fr2f(FrInt(3))

(* Every tree of four vertices with one further edge.                      *)
Trees == {p \in [1..3 -> 0..2] : \A v \in 1..3 : p[v] < v}
MCCases ==
  {gemm(Stream(s), 4, 4, 3, FALSE) : s \in 0..3}
    \cup {gemm(Stream(2), 8, 16, 2, TRUE), spmv(Stream(5), 6, 3, 2, FALSE),
          spmv(Stream(6), 6, 3, 2, TRUE), stencil(Stream(1), 2, 4, 2, 0),
          stencil(Stream(3), 4, 2, 3, 2), kmeans(Stream(4), 3, 2, FALSE),
          kmeans(Stream(7), 4, 2, TRUE), scan(Stream(8), 32), scan(Stream(9), 16),
          scanseg(Stream(10), 24, 4), zbtest(Stream(11), 6),
          mlp(Stream(12), 2, <<4, 5, 3>>, Scale, Zp)}
    \cup {bfs(p, {e}) : p \in Trees, e \in {<<0, 3>>, <<2, 3>>, <<1, 1>>}}
=============================================================================
