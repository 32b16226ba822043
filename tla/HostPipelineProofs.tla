------------------------- MODULE HostPipelineProofs -------------------------
(***************************************************************************)
(* Proofs about the host core: its registers keep their types              *)
(* (PipelineTypes), and for every program that asks for no flush from      *)
(* behind a weight load, its steps are those of the instruction set: each  *)
(* clock executes one instruction or none (PipelineRefinesISA).  The       *)
(* second needs PipeInv, which ties each stage to the program, says which  *)
(* stage still owes a register its value, and what the hazard unit keeps   *)
(* from standing behind what.                                              *)
(***************************************************************************)
EXTENDS HostPipeline, TLAPS

-----------------------------------------------------------------------------
(* Programs the theorem on the instruction set is about.                   *)
CalmPrograms == \A p \in Programs : Calm(p)

(* What an instruction computes on registers R, and where it goes next.    *)
AluOn(i, p, R)  == Alu(i, p, R[i.rs1], R[i.rs2])
NextPc(i, p, R) == IF Taken(i, R[i.rs1], R[i.rs2]) THEN Target(i, p, R[i.rs1])
                   ELSE (p + 1) % PCN

(* PC of the oldest instruction in the front of the pipeline.              *)
FrontD == IF D.v THEN D.pc ELSE PC
FrontE == IF E.v THEN E.pc ELSE FrontD

(* Nothing is in flight while the RAM clears.                              *)
Cleared == clearing => ~D.v /\ ~E.v /\ ~M.v /\ ~W.v

(* Each stage holds the instruction its PC names, and the stages hold      *)
(* successive instructions of the program.                                 *)
InD == D.v => D.i = prog[D.pc] /\ PC = (D.pc + 1) % PCN
InE == E.v => D.v /\ E.i = prog[E.pc] /\ D.pc = (E.pc + 1) % PCN
InM == M.v => /\ M.i = prog[M.pc]
              /\ M.alu = AluOn(M.i, M.pc, ArchRegs)
              /\ M.wd = ArchRegs[M.i.rs2]
              /\ FrontE = NextPc(M.i, M.pc, ArchRegs)

(* A value read in ID is current unless a stage in front will forward.     *)
Operand(r, v) == Writes(M, r) \/ Writes(W, r) \/ v = rf[r]
Operands == E.v => Operand(E.i.rs1, E.rd1) /\ Operand(E.i.rs2, E.rd2)

(* What is behind a load, a jump and a weight load.                        *)
BehindLoad   == E.v /\ M.v /\ IsLoad(M.i) /\ M.i.rd # 0
                  => M.i.rd \notin {E.i.rs1, E.i.rs2}
BehindJump   == M.v /\ Jump(M.i) => ~E.v
BehindWeight == M.v /\ M.i.op = "wload" /\ E.v => E.i.op \in Flushless

PipeInv ==
  /\ TypeOK /\ rf[0] = 0
  /\ Cleared /\ InD /\ InE /\ InM /\ Operands
  /\ BehindLoad /\ BehindJump /\ BehindWeight

(* What the instruction in MEM leaves there, and the registers once it has *)
(* left.                                                                   *)
Result == IF IsLoad(M.i) THEN ReadDataM
          ELSE IF Jump(M.i) THEN (M.pc + 1) % PCN ELSE M.alu
After  == IF M.v /\ RegWrite(M.i) THEN Write(ArchRegs, M.i.rd, Result) ELSE ArchRegs

-----------------------------------------------------------------------------
(* ModIn: a remainder is below the divisor.                                *)
LEMMA ModIn ==
  ASSUME NEW a \in Nat, NEW c \in Nat \ {0}
  PROVE  a % c \in 0 .. c - 1
BY SMT

(* OpsIn: what instructions compute keeps inside its width (HostOps).      *)
LEMMA OpsIn ==
  ASSUME NEW i \in Instr, NEW a \in Word, NEW b \in Word, NEW p \in Pc
  PROVE  /\ Alu(i, p, a, b) \in Word /\ Target(i, p, a) \in Pc
         /\ AddrOf(a) \in Addr /\ Weight(AddrOf(a)) \in Word
         /\ (p + 1) % PCN \in Pc /\ (p + 1) % PCN \in Word
<1> i.imm \in Nat /\ a \in Nat /\ b \in Nat /\ p \in Nat BY SizeAssumption DEF Instr, Word, Pc
<1> PCN \in Nat \ {0} /\ WORDS \in Nat \ {0} /\ AddrN \in Nat \ {0} /\ PCN <= WORDS
  BY SizeAssumption
<1>1. (a + b) % WORDS \in Word /\ (a + i.imm) % WORDS \in Word /\ (p + i.imm) % WORDS \in Word
  BY ModIn, a + b \in Nat, a + i.imm \in Nat, p + i.imm \in Nat DEF Word
<1>2. (a + i.imm) % PCN \in Pc /\ (p + i.imm) % PCN \in Pc BY ModIn, p + i.imm \in Nat, a + i.imm \in Nat DEF Pc
<1>3. a % AddrN \in Addr BY ModIn DEF Addr
<1>4. ((a % AddrN) + 1) % WORDS \in Word BY <1>3, ModIn, (a % AddrN) + 1 \in Nat DEF Addr, Word
<1>5. (p + 1) % PCN \in Pc BY ModIn, p + 1 \in Nat DEF Pc
<1>6. Pc \subseteq Word /\ i.imm \in Word BY DEF Pc, Word, Instr
<1> QED BY <1>1, <1>2, <1>3, <1>4, <1>5, <1>6 DEF Alu, Target, AddrOf, Weight

(* WriteIn: writing a word into a register file leaves a register file   *)
(* (register_file.v).                                                      *)
LEMMA WriteIn ==
  ASSUME NEW R \in [Regs -> Word], NEW d \in Regs, NEW v \in Word
  PROVE  Write(R, d, v) \in [Regs -> Word]
<1> 0 \in Word BY SizeAssumption DEF Word
<1> QED BY DEF Write

(* StageTypes: what the stages compute from well-typed registers.          *)
LEMMA StageTypes ==
  ASSUME TypeOK
  PROVE  /\ SrcA \in Word /\ SrcB \in Word /\ ALUResultE \in Word
         /\ PCTargetE \in Pc /\ PCPlus4F \in Pc
         /\ prog[PC] \in Instr /\ prog \in [Pc -> Instr]
         /\ ArchRegs \in [Regs -> Word] /\ Result \in Word
         /\ \A r \in Regs : ReadReg(r) \in Word
         /\ AddrOf(M.alu) \in Addr
<1>1. prog \in [Pc -> Instr] /\ prog[PC] \in Instr BY ProgramAssumption DEF TypeOK
<1>2. /\ E.i \in Instr /\ E.i.rs1 \in Regs /\ E.i.rs2 \in Regs /\ E.rd1 \in Word /\ E.rd2 \in Word
      /\ E.pc \in Pc /\ PC \in Pc
      /\ M.i \in Instr /\ M.alu \in Word /\ M.pc \in Pc
      /\ W.i \in Instr /\ W.i.rd \in Regs /\ W.res \in Word
      /\ rf \in [Regs -> Word] /\ mem \in [Addr -> Word]
  BY DEF TypeOK, Instr
<1>3. SrcA \in Word /\ SrcB \in Word BY <1>2 DEF SrcA, SrcB, Forward, ResultW
<1>4. ALUResultE \in Word /\ PCTargetE \in Pc BY <1>2, <1>3, OpsIn DEF ALUResultE, PCTargetE
<1>5. PCPlus4F \in Pc /\ (M.pc + 1) % PCN \in Word BY <1>2, OpsIn DEF PCPlus4F
<1>6. AddrOf(M.alu) \in Addr /\ Weight(AddrOf(M.alu)) \in Word BY <1>2, OpsIn
<1>7. ReadDataM \in Word BY <1>2, <1>6 DEF ReadDataM
<1>8. Result \in Word BY <1>2, <1>5, <1>7 DEF Result
<1>9. ArchRegs \in [Regs -> Word] BY <1>2, WriteIn DEF ArchRegs, ResultW
<1>10. \A r \in Regs : ReadReg(r) \in Word BY <1>2 DEF ReadReg, ResultW
<1> QED BY <1>1, <1>3, <1>4, <1>5, <1>6, <1>8, <1>9, <1>10

(* NopType: a bubble's instruction is one (Init, the cleared registers).   *)
LEMMA NopType == NOP \in Instr /\ 0 \in Pc /\ 0 \in Word /\ 0 \in Regs /\ NOP.op = "opimm"
<1> 0 \in Pc /\ 0 \in Word /\ 0 \in Regs BY SizeAssumption DEF Pc, Word, Regs
<1> QED BY DEF NOP, Instr, Ops

(* TypeInit, TypeStep: TypeOK is inductive.                                *)
LEMMA TypeInit == Init => TypeOK
<1> SUFFICES ASSUME Init PROVE TypeOK OBVIOUS
<1>1. mem \in [Addr -> Word] BY ImageAssumption DEF Init
<1>2. clr_cnt \in 0 .. AddrN BY SizeAssumption DEF Init
<1>3. rf \in [Regs -> Word] BY NopType DEF Init
<1> QED BY <1>1, <1>2, <1>3, NopType DEF Init, TypeOK, Bubble

LEMMA TypeStep == TypeOK /\ [Clock]_vars => TypeOK'
<1> SUFFICES ASSUME TypeOK, [Clock]_vars PROVE TypeOK' OBVIOUS
<1>1. CASE UNCHANGED vars BY <1>1 DEF vars, TypeOK
<1>2. CASE Clock
  <2> USE <1>2
  <2>1. prog' \in Programs BY DEF Clock, TypeOK
  <2>2. PC' \in Pc BY StageTypes DEF Clock, Fetch, TypeOK
  <2>3. D' \in [v : BOOLEAN, i : Instr, pc : Pc]
    BY StageTypes, NopType DEF Clock, Fetch, TypeOK
  <2>4. E' \in [v : BOOLEAN, i : Instr, pc : Pc, rd1 : Word, rd2 : Word]
    <3>1. ReadReg(D.i.rs1) \in Word /\ ReadReg(D.i.rs2) \in Word
      BY StageTypes DEF TypeOK, Instr
    <3> QED BY <3>1, NopType DEF Clock, Decode, Bubble, TypeOK
  <2>5. M' \in [v : BOOLEAN, i : Instr, pc : Pc, alu : Word, wd : Word]
    BY StageTypes DEF Clock, Execute, TypeOK
  <2>6. W' \in [v : BOOLEAN, i : Instr, pc : Pc, res : Word]
    BY StageTypes DEF Clock, Memory, TypeOK, Result
  <2>7. rf' \in [Regs -> Word] BY StageTypes DEF Clock, Writeback, ArchRegs
  <2>8. mem' \in [Addr -> Word]
    <3>1. M.wd \in Word /\ mem \in [Addr -> Word] BY DEF TypeOK
    <3> QED BY <3>1, NopType DEF Clock, Memory
  <2>9. clr_cnt' \in 0 .. AddrN
    BY SizeAssumption DEF Clock, Memory, clearing, TypeOK
  <2>10. wr_pending' \in BOOLEAN BY DEF Clock, Memory
  <2> QED BY <2>1, <2>2, <2>3, <2>4, <2>5, <2>6, <2>7, <2>8, <2>9, <2>10 DEF TypeOK
<1> QED BY <1>1, <1>2

(* PipelineTypes: in every build and for every program, the stage          *)
(* registers hold instructions and values of their widths, and the PCs, the*)
(* branch targets among them, stay in the ROM (riscv_pipeline.v).          *)
THEOREM PipelineTypes == Spec => []TypeOK
<1>1. Init => TypeOK BY TypeInit
<1>2. TypeOK /\ [Clock]_vars => TypeOK' BY TypeStep
<1> QED BY <1>1, <1>2, PTL DEF Spec

-----------------------------------------------------------------------------
(* ReadIsArch: a register read in ID is the one the instruction in         *)
(* MEM/WB has written, whether from the file or past it (register_file.v). *)
LEMMA ReadIsArch ==
  ASSUME TypeOK, rf[0] = 0, NEW r \in Regs
  PROVE  /\ ReadReg(r) = ArchRegs[r] /\ ArchRegs[0] = 0
         /\ ~Writes(W, r) => ArchRegs[r] = rf[r]
<1>1. /\ W.i \in Instr /\ W.i.rd \in Regs /\ W.res \in Word /\ rf \in [Regs -> Word] /\ 0 \in Regs
  BY NopType DEF TypeOK, Instr
<1>2. \A q \in Regs : Write(rf, W.i.rd, W.res)[q]
                         = IF q # W.i.rd THEN rf[q] ELSE IF W.i.rd = 0 THEN 0 ELSE W.res
  BY <1>1 DEF Write
<1>3. \A q \in Regs : ReadReg(q) = ArchRegs[q] /\ (~Writes(W, q) => ArchRegs[q] = rf[q])
  BY <1>1, <1>2 DEF ReadReg, ArchRegs, Writes, ResultW
<1>4. ArchRegs[0] = 0 BY <1>1, <1>2 DEF ArchRegs, ResultW
<1> QED BY <1>3, <1>4

(* Forwarded: an operand of the instruction in EX is the register as the   *)
(* instructions in front of it leave it, whichever stage holds the value,  *)
(* because no load and no jump stands right in front of its reader         *)
(* (forwarding_unit.v, hazard_unit.v).                                     *)
LEMMA Forwarded ==
  ASSUME PipeInv, E.v
  PROVE  SrcA = After[E.i.rs1] /\ SrcB = After[E.i.rs2]
<1>1. TypeOK /\ rf[0] = 0 BY DEF PipeInv
<1>2. /\ E.i.rs1 \in Regs /\ E.i.rs2 \in Regs /\ M.i.rd \in Regs /\ 0 \in Regs
  BY NopType, <1>1 DEF TypeOK, Instr
<1>3. ArchRegs \in [Regs -> Word] /\ Result \in Word BY <1>1, StageTypes
<1> DEFINE Wr == Write(ArchRegs, M.i.rd, Result)
<1>w. \A q \in Regs : Wr[q] = IF q # M.i.rd THEN ArchRegs[q]
                              ELSE IF M.i.rd = 0 THEN 0 ELSE Result
  BY <1>2, <1>3 DEF Write
<1>a. After = IF M.v /\ RegWrite(M.i) THEN Wr ELSE ArchRegs BY DEF After
<1> HIDE DEF Wr
<1>4. ASSUME NEW r \in {E.i.rs1, E.i.rs2}, NEW v, Operand(r, v)
      PROVE  Forward(r, v) = After[r]
  <2>1. r \in Regs BY <1>2
  <2>2. CASE Writes(M, r)
    <3>1. M.v /\ RegWrite(M.i) /\ M.i.rd # 0 /\ M.i.rd = r BY <2>2 DEF Writes
    <3>2. ~IsLoad(M.i) /\ ~Jump(M.i) BY <3>1 DEF PipeInv, BehindLoad, BehindJump
    <3>3. After[r] = M.alu BY <1>w, <1>a, <2>1, <3>1, <3>2 DEF Result
    <3> QED BY <2>2, <3>3 DEF Forward
  <2>3. CASE ~Writes(M, r)
    <3>1. After[r] = ArchRegs[r]
      <4>1. ArchRegs[0] = 0 BY <1>1, <2>1, ReadIsArch
      <4> QED BY <1>2, <1>w, <1>a, <2>1, <2>3, <4>1 DEF Writes
    <3>2. Forward(r, v) = ReadReg(r)
      BY <1>4, <2>3 DEF Forward, ReadReg, Operand
    <3> QED BY <1>1, <2>1, <3>1, <3>2, ReadIsArch
  <2> QED BY <2>2, <2>3
<1>5. Operand(E.i.rs1, E.rd1) /\ Operand(E.i.rs2, E.rd2) BY DEF PipeInv, Operands
<1> QED BY <1>4, <1>5 DEF SrcA, SrcB

(* Calmly: nothing is flushed while the pipeline stalls, so a stall holds  *)
(* every stage (riscv_pipeline.v, FlushE over StallAll).                   *)
LEMMA Calmly ==
  ASSUME PipeInv
  PROVE  /\ ~(PCSrcE /\ load_use_hazard)
         /\ StallAll => ~FlushE
         /\ FlushE => E.v
<1>1. ~(PCSrcE /\ load_use_hazard) BY DEF PCSrcE, load_use_hazard, Taken, IsLoad, Jump
<1>2. FlushE => E.v BY DEF FlushE, PCSrcE, load_use_hazard
<1>3. ASSUME StallAll, E.v PROVE ~FlushE
  <2>1. ~clearing BY <1>3 DEF PipeInv, Cleared
  <2>2. M.v /\ M.i.op = "wload" BY <1>3, <2>1 DEF StallAll, mem_ready, wrom_en
  <2>3. E.i.op \in Flushless BY <1>3, <2>2 DEF PipeInv, BehindWeight
  <2> QED BY <2>3 DEF Flushless, FlushE, PCSrcE, load_use_hazard, Taken, IsLoad, Jump
<1> QED BY <1>1, <1>2, <1>3

(* Held: a clock that stalls changes no stage and no architectural         *)
(* register.                                                               *)
LEMMA Held ==
  ASSUME PipeInv, Clock, StallAll
  PROVE  /\ UNCHANGED <<prog, PC, D, E, M, W, ArchRegs>>
         /\ rf' = ArchRegs
<1>1. ~FlushE BY Calmly
<1>2. UNCHANGED <<prog, PC, D, E, M, W>>
  BY <1>1 DEF Clock, Fetch, Decode, Execute, Memory, FlushE
<1>3. rf' = ArchRegs BY DEF Clock, Writeback, ArchRegs
<1>4. ArchRegs' = ArchRegs
  <2>1. W.i.rd \in Regs /\ W.res \in Word /\ rf \in [Regs -> Word]
    BY DEF PipeInv, TypeOK, Instr
  <2>2. Write(Write(rf, W.i.rd, W.res), W.i.rd, W.res) = Write(rf, W.i.rd, W.res)
    BY <2>1 DEF Write
  <2> QED BY <1>2, <1>3, <2>2 DEF ArchRegs, ResultW
<1> QED BY <1>2, <1>3, <1>4

(* Moved: what a clock that does not stall does to the stages.             *)
LEMMA Moved ==
  ASSUME PipeInv, Clock, ~StallAll
  PROVE  /\ rf' = ArchRegs /\ ArchRegs' = After /\ UNCHANGED prog
         /\ M' = [v |-> E.v, i |-> E.i, pc |-> E.pc, alu |-> ALUResultE, wd |-> SrcB]
         /\ W' = [v |-> M.v, i |-> M.i, pc |-> M.pc, res |-> Result]
         /\ FlushE => E' = Bubble
         /\ ~FlushE =>
              /\ E' = [v |-> D.v, i |-> D.i, pc |-> D.pc,
                       rd1 |-> ReadReg(D.i.rs1), rd2 |-> ReadReg(D.i.rs2)]
              /\ D' = [v |-> TRUE, i |-> prog[PC], pc |-> PC]
              /\ PC' = (PC + 1) % PCN
         /\ load_use_hazard => UNCHANGED <<PC, D>>
         /\ PCSrcE => PC' = PCTargetE /\ ~D'.v
<1>1. rf' = ArchRegs BY DEF Clock, Writeback, ArchRegs
<1>2. W' = [v |-> M.v, i |-> M.i, pc |-> M.pc, res |-> Result] BY DEF Clock, Memory, Result
<1>3. ArchRegs' = After BY <1>1, <1>2 DEF ArchRegs, After, ResultW
<1>4. M' = [v |-> E.v, i |-> E.i, pc |-> E.pc, alu |-> ALUResultE, wd |-> SrcB]
  BY DEF Clock, Execute
<1>5. (FlushE => E' = Bubble)
      /\ (~FlushE => E' = [v |-> D.v, i |-> D.i, pc |-> D.pc,
                           rd1 |-> ReadReg(D.i.rs1), rd2 |-> ReadReg(D.i.rs2)])
  BY DEF Clock, Decode
<1>6. /\ ~FlushE => /\ D' = [v |-> TRUE, i |-> prog[PC], pc |-> PC]
                    /\ PC' = (PC + 1) % PCN
      /\ load_use_hazard => UNCHANGED <<PC, D>>
      /\ PCSrcE => PC' = PCTargetE /\ ~D'.v
  BY Calmly DEF Clock, Fetch, FlushD, FlushE, PCPlus4F
<1>7. UNCHANGED prog BY DEF Clock
<1> QED BY <1>1, <1>2, <1>3, <1>4, <1>5, <1>6, <1>7

-----------------------------------------------------------------------------
(* PipeInit, PipeStep: PipeInv is inductive.                               *)
LEMMA PipeInit == Init => PipeInv
<1> SUFFICES ASSUME Init PROVE PipeInv OBVIOUS
<1>1. TypeOK BY TypeInit
<1>2. rf[0] = 0 /\ ~D.v /\ ~E.v /\ ~M.v /\ ~W.v BY NopType DEF Init, Bubble
<1> QED
  BY <1>1, <1>2 DEF PipeInv, Cleared, InD, InE, InM, Operands, BehindLoad, BehindJump,
                    BehindWeight

(* HeldInv: a stall keeps the invariant.                                   *)
LEMMA HeldInv ==
  ASSUME PipeInv, Clock, StallAll
  PROVE  PipeInv'
<1>1. UNCHANGED <<prog, PC, D, E, M, W, ArchRegs>> /\ rf' = ArchRegs BY Held
<1>2. TypeOK' BY TypeStep DEF PipeInv
<1>3. /\ TypeOK /\ rf[0] = 0 /\ 0 \in Regs /\ E.i.rs1 \in Regs /\ E.i.rs2 \in Regs
  BY NopType DEF PipeInv, TypeOK, Instr
<1>4. rf'[0] = 0 BY <1>1, <1>3, ReadIsArch
<1>5. Cleared'
  <2>1. clearing' => clearing BY DEF Clock, Memory, clearing
  <2> QED BY <1>1, <2>1 DEF PipeInv, Cleared
<1>6. InD' /\ InE' BY <1>1 DEF PipeInv, InD, InE
<1>7. InM' BY <1>1 DEF PipeInv, InM, FrontE, FrontD
<1>8. Operands'
  <2>1. ASSUME NEW r \in Regs, NEW v, Operand(r, v)
        PROVE  Writes(M, r) \/ Writes(W, r) \/ v = rf'[r]
    BY <1>1, <1>3, <2>1, ReadIsArch DEF Operand
  <2> QED BY <1>1, <1>3, <2>1 DEF PipeInv, Operands, Operand
<1>9. BehindLoad' /\ BehindJump' /\ BehindWeight'
  BY <1>1 DEF PipeInv, BehindLoad, BehindJump, BehindWeight
<1> QED BY <1>2, <1>4, <1>5, <1>6, <1>7, <1>8, <1>9 DEF PipeInv

(* MovedInv: a clock that moves the stages keeps it.                       *)
LEMMA MovedInv ==
  ASSUME CalmPrograms, PipeInv, Clock, ~StallAll
  PROVE  PipeInv'
<1> TypeOK BY DEF PipeInv
<1>1. TypeOK' BY TypeStep
<1>2. /\ rf' = ArchRegs /\ ArchRegs' = After /\ prog' = prog
      /\ M' = [v |-> E.v, i |-> E.i, pc |-> E.pc, alu |-> ALUResultE, wd |-> SrcB]
  BY Moved
<1>3. \/ PCSrcE /\ E.v /\ E' = Bubble /\ PC' = PCTargetE /\ ~D'.v
      \/ load_use_hazard /\ ~PCSrcE /\ E.v /\ E' = Bubble /\ UNCHANGED <<PC, D>>
      \/ /\ ~PCSrcE /\ ~load_use_hazard
         /\ E' = [v |-> D.v, i |-> D.i, pc |-> D.pc,
                  rd1 |-> ReadReg(D.i.rs1), rd2 |-> ReadReg(D.i.rs2)]
         /\ D' = [v |-> TRUE, i |-> prog[PC], pc |-> PC]
         /\ PC' = (PC + 1) % PCN
  BY Moved, Calmly DEF FlushE
<1>4. ~Bubble.v BY DEF Bubble
<1>5. rf'[0] = 0 BY <1>2, ReadIsArch, NopType DEF PipeInv
<1>6. Cleared'
  <2>1. ~clearing BY DEF StallAll, mem_ready
  <2>2. ~clearing' BY <2>1 DEF Clock, Memory, clearing
  <2> QED BY <2>2 DEF Cleared
<1>7. InD' BY <1>2, <1>3 DEF PipeInv, InD
<1>8. InE' BY <1>2, <1>3, <1>4 DEF PipeInv, InD, InE
<1>9. InM'
  <2> SUFFICES ASSUME E.v
               PROVE  /\ E.i = prog[E.pc]
                      /\ ALUResultE = AluOn(E.i, E.pc, After)
                      /\ SrcB = After[E.i.rs2]
                      /\ FrontE' = NextPc(E.i, E.pc, After)
    BY <1>2 DEF InM
  <2>1. SrcA = After[E.i.rs1] /\ SrcB = After[E.i.rs2] BY Forwarded
  <2>2. D.v /\ E.i = prog[E.pc] /\ D.pc = (E.pc + 1) % PCN BY DEF PipeInv, InE
  <2>3. PCSrcE <=> Taken(E.i, SrcA, SrcB) BY DEF PCSrcE
  <2>4. NextPc(E.i, E.pc, After) = IF PCSrcE THEN PCTargetE ELSE D.pc
    BY <2>1, <2>2, <2>3 DEF NextPc, PCTargetE
  <2>5. FrontE' = IF PCSrcE THEN PCTargetE ELSE D.pc
    BY <1>3, <1>4, <2>2 DEF FrontE, FrontD
  <2> QED BY <2>1, <2>2, <2>4, <2>5 DEF ALUResultE, AluOn
<1>10. Operands'
  <2>1. ASSUME E'.v
        PROVE  /\ E'.i = D.i /\ D.i.rs1 \in Regs /\ D.i.rs2 \in Regs
               /\ E'.rd1 = ReadReg(D.i.rs1) /\ E'.rd2 = ReadReg(D.i.rs2)
    BY <1>3, <1>4, <2>1 DEF TypeOK, Instr
  <2>2. \A r \in Regs : ReadReg(r) = rf'[r] BY <1>2, ReadIsArch DEF PipeInv
  <2> QED BY <2>1, <2>2 DEF Operands, Operand
<1>11. BehindLoad'
  BY <1>2, <1>3, <1>4 DEF BehindLoad, load_use_hazard
<1>12. BehindJump'
  BY <1>2, <1>3, <1>4 DEF BehindJump, PCSrcE, Taken
<1>13. BehindWeight'
  <2> SUFFICES ASSUME E.v, E.i.op = "wload", E'.v PROVE E'.i.op \in Flushless
    BY <1>2 DEF BehindWeight
  <2>1. E'.i = D.i /\ ~load_use_hazard BY <1>3, <1>4
  <2>2. /\ D.v /\ E.i = prog[E.pc] /\ D.i = prog[(E.pc + 1) % PCN]
    BY DEF PipeInv, InE, InD
  <2>3. prog \in Programs /\ E.pc \in Pc BY DEF TypeOK
  <2>4. D.i.op \in Flushless \/ (E.i.rd # 0 /\ E.i.rd \in {D.i.rs1, D.i.rs2})
    BY <2>2, <2>3 DEF CalmPrograms, Calm
  <2> QED BY <2>1, <2>4 DEF load_use_hazard, IsLoad
<1> QED
  BY <1>1, <1>5, <1>6, <1>7, <1>8, <1>9, <1>10, <1>11, <1>12, <1>13 DEF PipeInv

LEMMA PipeStep ==
  ASSUME CalmPrograms, PipeInv, [Clock]_vars
  PROVE  PipeInv'
<1>1. CASE Clock /\ StallAll BY <1>1, HeldInv
<1>2. CASE Clock /\ ~StallAll BY <1>2, MovedInv
<1>3. CASE UNCHANGED vars
  <2>1. UNCHANGED <<prog, PC, D, E, M, W, rf, mem, clr_cnt, wr_pending>> BY <1>3 DEF vars
  <2>2. TypeOK' BY <1>3, TypeStep DEF PipeInv
  <2>3. ArchRegs' = ArchRegs BY <2>1 DEF ArchRegs, ResultW
  <2>4. InM' /\ Operands' /\ Cleared'
    BY <2>1, <2>3 DEF PipeInv, InM, FrontE, FrontD, Operands, Operand, Cleared, clearing
  <2>5. InD' /\ InE' /\ BehindLoad' /\ BehindJump' /\ BehindWeight' /\ rf'[0] = 0
    BY <2>1 DEF PipeInv, InD, InE, BehindLoad, BehindJump, BehindWeight
  <2> QED BY <2>2, <2>4, <2>5 DEF PipeInv
<1> QED BY <1>1, <1>2, <1>3

-----------------------------------------------------------------------------
(* SameOps: the operators of the instruction set are those of the pipeline.*)
LEMMA SameOps ==
  /\ ISA!Addr = Addr /\ ISA!Regs = Regs
  /\ \A i, p, a, b : ISA!Alu(i, p, a, b) = Alu(i, p, a, b)
  /\ \A i, a, b : ISA!Taken(i, a, b) = Taken(i, a, b)
  /\ \A i, p, a : ISA!Target(i, p, a) = Target(i, p, a)
  /\ \A i : ISA!RegWrite(i) = RegWrite(i) /\ ISA!Jump(i) = Jump(i)
  /\ \A x : ISA!AddrOf(x) = AddrOf(x) /\ ISA!Weight(x) = Weight(x)
  /\ \A r, d, x : ISA!Write(r, d, x) = Write(r, d, x)
BY DEF ISA!Addr, Addr, ISA!Regs, Regs, ISA!Alu, Alu, ISA!Taken, Taken, ISA!Target, Target,
       ISA!RegWrite, RegWrite, ISA!Jump, Jump, ISA!AddrOf, AddrOf, ISA!Weight, Weight,
       ISA!Write, Write

(* RefinesInit: a reset core is the instruction set's initial state.       *)
LEMMA RefinesInit == Init => ISA!Init
<1> SUFFICES ASSUME Init PROVE ISA!Init OBVIOUS
<1>1. ArchPc = 0 BY DEF Init, ArchPc, Bubble
<1>2. ArchRegs = [r \in Regs |-> 0] BY DEF Init, ArchRegs
<1>3. ArchMem \in Images \cup {[a \in Addr |-> 0]}
  <2>1. CASE UsesWeights
    <3>1. mem \in [Addr -> Word] /\ mem \in Images BY ImageAssumption DEF Init
    <3>2. \A a \in Addr : ~(a >= clr_cnt)
      BY <2>1, SizeAssumption DEF Init, Addr
    <3>3. ArchMem = [a \in Addr |-> mem[a]] BY <3>2 DEF ArchMem
    <3>4. ArchMem = mem BY <3>1, <3>3
    <3> QED BY <3>1, <3>4
  <2>2. CASE ~UsesWeights
    <3>1. \A a \in Addr : a >= clr_cnt BY <2>2, SizeAssumption DEF Init, Addr
    <3>2. ArchMem = [a \in Addr |-> 0] BY <3>1 DEF ArchMem
    <3> QED BY <3>2
  <2> QED BY <2>1, <2>2
<1>4. prog \in Programs BY DEF Init
<1> QED BY <1>1, <1>2, <1>3, <1>4, SameOps DEF ISA!Init

(* HeldRefines: a clock that stalls, the clearing ones among them, changes *)
(* nothing a program can see.                                              *)
LEMMA HeldRefines ==
  ASSUME PipeInv, Clock, StallAll
  PROVE  UNCHANGED ISA!vars
<1>1. UNCHANGED <<prog, PC, D, E, M, W, ArchRegs>> BY Held
<1>2. ArchPc' = ArchPc BY <1>1 DEF ArchPc
<1>3. ArchMem' = ArchMem
  <2>1. mem \in [Addr -> Word] /\ clr_cnt \in 0 .. AddrN BY DEF PipeInv, TypeOK
  <2>2. CASE clearing
    <3>1. mem' = [mem EXCEPT ![clr_cnt] = 0] /\ clr_cnt' = clr_cnt + 1
      BY <2>2 DEF Clock, Memory
    <3>2. ASSUME NEW a \in Addr
          PROVE  (IF a >= clr_cnt' THEN 0 ELSE mem'[a]) = (IF a >= clr_cnt THEN 0 ELSE mem[a])
      BY <2>1, <3>1, SizeAssumption DEF Addr
    <3> QED BY <3>2 DEF ArchMem
  <2>3. CASE ~clearing
    <3>1. mem' = mem /\ clr_cnt' = clr_cnt BY <2>3 DEF Clock, Memory, StallAll
    <3> QED BY <3>1 DEF ArchMem
  <2> QED BY <2>2, <2>3
<1> QED BY <1>1, <1>2, <1>3 DEF ISA!vars

(* MovedRefines: a clock that moves the stages executes the instruction in *)
(* MEM, if there is one.                                                   *)
LEMMA MovedRefines ==
  ASSUME PipeInv, Clock, ~StallAll
  PROVE  ISA!Step \/ UNCHANGED ISA!vars
<1>1. /\ ArchRegs' = After /\ prog' = prog
      /\ M' = [v |-> E.v, i |-> E.i, pc |-> E.pc, alu |-> ALUResultE, wd |-> SrcB]
  BY Moved
<1>2. ArchPc' = FrontE
  <2>1. CASE E.v BY <1>1, <2>1 DEF ArchPc, FrontE
  <2>2. CASE ~E.v
    <3>1. ~FlushE BY <2>2, Calmly
    <3>2. E'.v = D.v /\ E'.pc = D.pc /\ D'.v /\ D'.pc = PC BY <3>1, Moved
    <3> QED BY <1>1, <2>2, <3>2 DEF ArchPc, FrontE, FrontD
  <2> QED BY <2>1, <2>2
<1>3. ArchMem = mem /\ ArchMem' = mem'
  <2>1. ~clearing BY DEF StallAll, mem_ready
  <2>2. clr_cnt = AddrN /\ clr_cnt' = AddrN BY <2>1 DEF clearing, Clock, Memory
  <2>3. mem \in [Addr -> Word] /\ mem' \in [Addr -> Word] BY TypeStep DEF PipeInv, TypeOK
  <2>4. \A a \in Addr : ~(a >= AddrN) BY SizeAssumption DEF Addr
  <2>5. ArchMem = [a \in Addr |-> mem[a]] BY <2>2, <2>4 DEF ArchMem
  <2>6. ArchMem' = [a \in Addr |-> mem'[a]] BY <2>2, <2>4 DEF ArchMem
  <2> QED BY <2>3, <2>5, <2>6
<1>4. mem' = IF M.v /\ M.i.op = "store" THEN [mem EXCEPT ![AddrOf(M.alu)] = M.wd] ELSE mem
  BY DEF Clock, Memory, StallAll, mem_ready
<1>5. CASE M.v
  <2>1. /\ M.i = prog[M.pc] /\ M.alu = AluOn(M.i, M.pc, ArchRegs) /\ M.wd = ArchRegs[M.i.rs2]
        /\ FrontE = NextPc(M.i, M.pc, ArchRegs)
    BY <1>5 DEF PipeInv, InM
  <2>2. ArchPc = M.pc BY <1>5 DEF ArchPc
  <2> DEFINE i == M.i
             a == ArchRegs[i.rs1]
             b == ArchRegs[i.rs2]
             m == AddrOf(Alu(i, ArchPc, a, b))
             v == CASE i.op = "load"  -> ArchMem[m]
                    [] i.op = "wload" -> Weight(m)
                    [] Jump(i)        -> (ArchPc + 1) % PCN
                    [] OTHER          -> Alu(i, ArchPc, a, b)
  <2>3. m = AddrOf(M.alu) /\ Alu(i, ArchPc, a, b) = M.alu BY <2>1, <2>2 DEF AluOn
  <2>4. v = Result
    BY <1>3, <2>2, <2>3 DEF Result, IsLoad, ReadDataM, Jump
  <2>5. ArchPc' = IF Taken(i, a, b) THEN Target(i, ArchPc, a) ELSE (ArchPc + 1) % PCN
    BY <1>2, <2>1, <2>2 DEF NextPc
  <2>6. ArchRegs' = IF RegWrite(i) THEN Write(ArchRegs, i.rd, v) ELSE ArchRegs
    BY <1>1, <1>5, <2>4 DEF After
  <2>7. ArchMem' = IF i.op = "store" THEN [ArchMem EXCEPT ![m] = b] ELSE ArchMem
    BY <1>3, <1>4, <1>5, <2>1, <2>3
  <2>8. i = prog[ArchPc] BY <2>1, <2>2
  <2>9. ISA!AddrOf(ISA!Alu(i, ArchPc, a, b)) = m BY SameOps
  <2>10. (CASE i.op = "load"   -> ArchMem[m]
            [] i.op = "wload"  -> ISA!Weight(m)
            [] ISA!Jump(i)     -> (ArchPc + 1) % PCN
            [] OTHER           -> ISA!Alu(i, ArchPc, a, b)) = v
    BY SameOps
  <2>11. ISA!RegWrite(i) = RegWrite(i) /\ ISA!Write(ArchRegs, i.rd, v) = Write(ArchRegs, i.rd, v)
    BY SameOps
  <2>12. /\ ISA!Taken(i, a, b) = Taken(i, a, b)
         /\ ISA!Target(i, ArchPc, a) = Target(i, ArchPc, a)
    BY SameOps
  <2> HIDE DEF i, a, b, m, v
  <2> QED BY <1>1, <2>5, <2>6, <2>7, <2>8, <2>9, <2>10, <2>11, <2>12 DEF ISA!Step, a, b
<1>6. CASE ~M.v
  <2>1. ArchPc = FrontE BY <1>6 DEF ArchPc, FrontE, FrontD
  <2>2. ArchRegs' = ArchRegs BY <1>1, <1>6 DEF After
  <2>3. ArchMem' = ArchMem BY <1>3, <1>4, <1>6
  <2> QED BY <1>1, <1>2, <2>1, <2>2, <2>3 DEF ISA!vars
<1> QED BY <1>5, <1>6

(* RefinesStep: every clock is a step of the instruction set or none.      *)
LEMMA RefinesStep ==
  ASSUME PipeInv, [Clock]_vars
  PROVE  [ISA!Step]_(ISA!vars)
<1>1. CASE Clock /\ StallAll BY <1>1, HeldRefines
<1>2. CASE Clock /\ ~StallAll BY <1>2, MovedRefines
<1>3. CASE UNCHANGED vars
  BY <1>3 DEF vars, ISA!vars, ArchPc, ArchRegs, ArchMem, ResultW
<1> QED BY <1>1, <1>2, <1>3

(* PipelineRefinesISA: forwarding, load-use bubbles, flushes, the RAM that *)
(* clears itself and the wait for a weight are invisible: what a program   *)
(* does, in every build, is what the instruction set says it does, one     *)
(* instruction at a time and none skipped, repeated or half executed       *)
(* (riscv_pipeline.v, hazard_unit.v, forwarding_unit.v).  It holds of Calm *)
(* programs only: docs/ai4_mnist.md calls the wait for a weight transparent*)
(* and a jump right behind a weight load is lost.                          *)
THEOREM PipelineRefinesISA ==
  ASSUME CalmPrograms
  PROVE  Spec => ISA!Init /\ [][ISA!Step]_(ISA!vars)
<1>1. Init => PipeInv BY PipeInit
<1>2. PipeInv /\ [Clock]_vars => PipeInv' BY PipeStep
<1>3. Init => ISA!Init BY RefinesInit
<1>4. PipeInv /\ [Clock]_vars => [ISA!Step]_(ISA!vars) BY RefinesStep
<1> QED BY <1>1, <1>2, <1>3, <1>4, PTL DEF Spec

=============================================================================
