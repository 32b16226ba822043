---------------------------- MODULE HostPipeline ----------------------------
(***************************************************************************)
(* The host core of rtl/cpu/riscv_pipeline.v with its hazard and           *)
(* forwarding units, and what the two SoCs do to mem_ready: soc_top's data *)
(* RAM holds it low while it clears after reset (rtl/cpu/data_mem.v),      *)
(* chip_top drops it for the first cycle of a weight-ROM read              *)
(* (rtl/soc/chip_top.sv).  One clock edge is one step.  Stage registers    *)
(* are named by their stage; v tells an instruction from a bubble, which   *)
(* the code shows by cleared control bits.                                 *)
(***************************************************************************)
EXTENDS HostOps

VARIABLES
  prog,           \* the driver ROM
  PC,             \* fetch PC
  D,              \* IF/ID  [v, i, pc]
  E,              \* ID/EX  [v, i, pc, rd1, rd2]
  M,              \* EX/MEM [v, i, pc, alu, wd]
  W,              \* MEM/WB [v, i, pc, res]
  rf,             \* register file
  mem,            \* data memory
  clr_cnt,        \* next word to clear, AddrN when clearing is over
  wr_pending      \* a weight read was issued in the last cycle

vars == <<prog, PC, D, E, M, W, rf, mem, clr_cnt, wr_pending>>

NOP == [op |-> "opimm", rd |-> 0, rs1 |-> 0, rs2 |-> 0, imm |-> 0]

-----------------------------------------------------------------------------
(* The memory side: mem_ready of either SoC, and the word a load reads.    *)
clearing  == clr_cnt # AddrN
wrom_en   == M.v /\ M.i.op = "wload"
mem_ready == ~clearing /\ (wrom_en => wr_pending)
StallAll  == ~mem_ready
ReadDataM == IF M.i.op = "wload" THEN Weight(AddrOf(M.alu)) ELSE mem[AddrOf(M.alu)]

(* Writeback, with the register file's read-during-write bypass.           *)
ResultW   == W.res
Writes(s, r) == s.v /\ RegWrite(s.i) /\ s.i.rd # 0 /\ s.i.rd = r
(* Mutant: no bypass, a read sees the register before this cycle's write.  *)
ReadReg_no_bypass(r) == rf[r]
ReadReg(r) == IF Writes(W, r) THEN ResultW ELSE rf[r]

(* Forwarding: the value of a source register in EX, from MEM first.       *)
Forward(r, v) == IF Writes(M, r) THEN M.alu ELSE IF Writes(W, r) THEN ResultW ELSE v

-----------------------------------------------------------------------------
(* Execute.                                                                *)
SrcA       == Forward(E.i.rs1, E.rd1)
SrcB       == Forward(E.i.rs2, E.rd2)
ALUResultE == Alu(E.i, E.pc, SrcA, SrcB)
PCSrcE     == E.v /\ Taken(E.i, SrcA, SrcB)
PCTargetE  == Target(E.i, E.pc, SrcA)

(* Hazard unit.                                                            *)
load_use_hazard ==
  E.v /\ IsLoad(E.i) /\ E.i.rd # 0 /\ E.i.rd \in {D.i.rs1, D.i.rs2}
FlushD == PCSrcE
FlushE == load_use_hazard \/ PCSrcE

(* Mutant: the fetch PC does not wrap at its width.                        *)
PCPlus4F_wide == PC + 1
PCPlus4F      == (PC + 1) % PCN

(* One clock.  PC, IF/ID, EX/MEM and MEM/WB hold while StallAll; ID/EX is  *)
(* cleared by FlushE first and holds after that.                           *)
Fetch ==
  /\ PC' = IF load_use_hazard \/ StallAll THEN PC
           ELSE IF PCSrcE THEN PCTargetE ELSE PCPlus4F
  /\ D' = IF StallAll \/ load_use_hazard THEN D
          ELSE IF FlushD THEN [v |-> FALSE, i |-> NOP, pc |-> 0]
          ELSE [v |-> TRUE, i |-> prog[PC], pc |-> PC]

Bubble == [v |-> FALSE, i |-> NOP, pc |-> 0, rd1 |-> 0, rd2 |-> 0]
Decode ==
  E' = IF FlushE THEN Bubble
       ELSE IF StallAll THEN E
       ELSE [v |-> D.v, i |-> D.i, pc |-> D.pc,
             rd1 |-> ReadReg(D.i.rs1), rd2 |-> ReadReg(D.i.rs2)]

Execute ==
  M' = IF StallAll THEN M
       ELSE [v |-> E.v, i |-> E.i, pc |-> E.pc, alu |-> ALUResultE, wd |-> SrcB]

(* ResultW's choice is made on the way into MEM/WB.                        *)
Memory ==
  /\ W' = IF StallAll THEN W
          ELSE [v |-> M.v, i |-> M.i, pc |-> M.pc,
                res |-> IF IsLoad(M.i) THEN ReadDataM
                        ELSE IF Jump(M.i) THEN (M.pc + 1) % PCN ELSE M.alu]
  /\ mem' = IF clearing THEN [mem EXCEPT ![clr_cnt] = 0]
            ELSE IF M.v /\ M.i.op = "store" /\ mem_ready
                   THEN [mem EXCEPT ![AddrOf(M.alu)] = M.wd] ELSE mem
  /\ clr_cnt' = IF clearing THEN clr_cnt + 1 ELSE clr_cnt
  /\ wr_pending' = (wrom_en /\ ~wr_pending)

Writeback ==
  rf' = IF W.v /\ RegWrite(W.i) THEN Write(rf, W.i.rd, ResultW) ELSE rf

Clock == Fetch /\ Decode /\ Execute /\ Memory /\ Writeback /\ UNCHANGED prog

-----------------------------------------------------------------------------
(* The architectural state: an instruction takes effect when it leaves     *)
(* MEM, so a result in MEM/WB counts as written, and the PC is that of the *)
(* oldest instruction before it.  Words still to be cleared count as zero. *)
ArchPc   == IF M.v THEN M.pc ELSE IF E.v THEN E.pc ELSE IF D.v THEN D.pc ELSE PC
ArchRegs == IF W.v /\ RegWrite(W.i) THEN Write(rf, W.i.rd, ResultW) ELSE rf
ArchMem  == [a \in Addr |-> IF a >= clr_cnt THEN 0 ELSE mem[a]]

(* A program that reads weights runs on chip_top, whose memory does not    *)
(* clear itself; the others run on soc_top, which has no weight ROM.       *)
UsesWeights == \E n \in Pc : prog[n].op = "wload"

(* After reset.                                                            *)
Init ==
  /\ prog \in Programs
  /\ PC = 0
  /\ D = [v |-> FALSE, i |-> NOP, pc |-> 0]
  /\ E = Bubble
  /\ M = [v |-> FALSE, i |-> NOP, pc |-> 0, alu |-> 0, wd |-> 0]
  /\ W = [v |-> FALSE, i |-> NOP, pc |-> 0, res |-> 0]
  /\ rf = [r \in Regs |-> 0]
  /\ mem \in Images
  /\ clr_cnt = IF UsesWeights THEN AddrN ELSE 0
  /\ wr_pending = FALSE

Spec == Init /\ [][Clock]_vars /\ WF_vars(Clock)

-----------------------------------------------------------------------------
(* The programs the pipeline runs correctly.  While a weight load waits in *)
(* MEM, FlushE would wipe what is behind it in EX; so what follows a       *)
(* weight load either uses its result, and is held back in ID, or is of a  *)
(* kind that never asks for a flush, as in mnist_driver.S.                 *)
Flushless == {"op", "opimm", "store", "lui", "auipc"}
Calm(p) ==
  \A n \in Pc : p[n].op = "wload" =>
    LET q == p[(n + 1) % PCN]
    IN  q.op \in Flushless \/ (p[n].rd # 0 /\ p[n].rd \in {q.rs1, q.rs2})

(* Stage registers hold values of their types; PCs and words keep inside   *)
(* their width.                                                            *)
TypeOK ==
  /\ prog \in Programs /\ PC \in Pc
  /\ D \in [v : BOOLEAN, i : Instr, pc : Pc]
  /\ E \in [v : BOOLEAN, i : Instr, pc : Pc, rd1 : Word, rd2 : Word]
  /\ M \in [v : BOOLEAN, i : Instr, pc : Pc, alu : Word, wd : Word]
  /\ W \in [v : BOOLEAN, i : Instr, pc : Pc, res : Word]
  /\ rf \in [Regs -> Word] /\ mem \in [Addr -> Word]
  /\ clr_cnt \in 0 .. AddrN /\ wr_pending \in BOOLEAN

(* The pipeline implements the instruction set: whatever the forwarding,   *)
(* the stalls and the flushes, programs run as if one instruction executed *)
(* at a time, and keep running.                                            *)
ISA == INSTANCE HostISA WITH pc <- ArchPc, regs <- ArchRegs, dmem <- ArchMem
ImplementsISA == ISA!Spec
=============================================================================
