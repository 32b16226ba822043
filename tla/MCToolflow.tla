---------------------------- MODULE MCToolflow ----------------------------
(* Small instances of Toolflow: two cases a suite, two variants a sweep. *)
EXTENDS Toolflow

Case(name, launches) == [name |-> name, launches |-> launches]
MCSuite ==
  [s \in {"small", "large", "board", "w8", "sync"} |->
     CASE s = "small" -> <<Case("gemm32", 1), Case("scan2k", 2)>>
       [] s = "large" -> <<Case("gemm64", 1), Case("scan64k", 2)>>
       [] s = "board" -> <<Case("bfs", 2), Case("mlp", 1)>>
       [] s = "w8" -> <<Case("gemmrb", 1)>>
       [] OTHER -> <<Case("hist", 2)>>]
MCKernels == <<"gemm", "scan">>
MCSlotsAt == [v \in -1..1 |-> IF v = 1 THEN 2 ELSE 1]
MCUses ==
  [c \in {"gemm32", "gemm64", "gemmrb", "scan2k", "scan64k", "bfs", "mlp", "hist"} |->
     IF c \in {"gemm32", "gemm64", "gemmrb"} THEN {"gemm"} ELSE {"scan"}]
MCVortexRows == Launches(MCSuite["small"], 2)
MCInvocations ==
  {lane_sweep(<<4, 8>>, "small"), lane_sweep(<<8>>, "large"), app_sweep("small", <<"base", "ser">>),
   amo_sweep(<<"lat0", "axi">>), board_sim("board", <<"24", "48">>), run_xsim("apps"),
   run_xsim("apps_w8"), vortex_compare, kernel_build}
=============================================================================
