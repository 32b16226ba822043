--------------------------- MODULE MCHostPipeline ---------------------------
(* Programs for the model checker: every program over a small library.     *)
EXTENDS HostPipeline

I(o, d, s1, s2, n) == [op |-> o, rd |-> d, rs1 |-> s1, rs2 |-> s2, imm |-> n]

(* Registers 1 and 2 feed each other, so that nearly every pair of         *)
(* neighbours is a hazard.                                                 *)
Library ==
  {I("opimm", 1, 1, 0, 1), I("op", 2, 1, 2, 0), I("op", 1, 2, 1, 0),
   I("load", 1, 1, 0, 0), I("load", 2, 1, 0, 1),
   I("store", 0, 1, 2, 0), I("store", 0, 2, 1, 0),
   I("bne", 0, 1, 2, 2), I("beq", 0, 2, 1, 0),
   I("jal", 1, 0, 0, 2), I("jalr", 2, 1, 0, 1),
   I("lui", 1, 2, 0, 2), I("auipc", 2, 1, 0, 1)}
Weights == {I("wload", 1, 1, 0, 0), I("wload", 2, 1, 0, 0)}

Image         == {[a \in Addr |-> (a + 1) % WORDS]}
WithWeights   == [Pc -> Library \cup Weights]

(* Every program without weight loads, and those in the shape of           *)
(* mnist_driver.S: no flush may come from right behind a weight load.      *)
DriverShaped  == {p \in WithWeights : Calm(p)}

(* lw t0, (w); jal: a jump behind a weight load.                           *)
JumpBehind    == {[n \in Pc |-> IF n = 0 THEN I("wload", 1, 1, 0, 0)
                                ELSE IF n = 1 THEN I("jal", 0, 0, 0, 2)
                                ELSE I("opimm", 2, 2, 0, 1)]}
=============================================================================
