------------------------------- MODULE HostOps -------------------------------
(***************************************************************************)
(* Instructions of the host core and what each computes.  Instructions are *)
(* the classes rtl/cpu/control_unit.v decodes to different pipeline        *)
(* controls; words are small numbers.                                      *)
(***************************************************************************)
EXTENDS Naturals

CONSTANTS
  PCN,        \* instruction words: PCs are the numbers 0..PCN-1
  WORDS,      \* values of a data word: 0..WORDS-1, PCs among them
  AddrN,      \* data memory words
  RegN,       \* registers 0..RegN-1, 0 hardwired
  Programs,   \* the driver programs considered
  Images      \* initial contents of the data memory considered

Pc      == 0 .. PCN - 1
Word    == 0 .. WORDS - 1
Addr    == 0 .. AddrN - 1
Regs    == 0 .. RegN - 1
Ops     == {"op", "opimm", "load", "wload", "store", "beq", "bne", "jal", "jalr",
            "lui", "auipc"}
Instr   == [op : Ops, rd : Regs, rs1 : Regs, rs2 : Regs, imm : Word]

ASSUME SizeAssumption    == {PCN, WORDS, AddrN, RegN} \subseteq Nat \ {0} /\ PCN <= WORDS
ASSUME ProgramAssumption == \A p \in Programs : p \in [Pc -> Instr]
ASSUME ImageAssumption   == Images \subseteq [Addr -> Word]

(* Control signals of an instruction.                                      *)
RegWrite(i) == i.op \notin {"store", "beq", "bne"}
IsLoad(i)   == i.op \in {"load", "wload"}
Jump(i)     == i.op \in {"jal", "jalr"}

(* The effective address, and the read-only weight at it.                  *)
AddrOf(v)   == v % AddrN
Weight(a)   == (a + 1) % WORDS

(* ALU result at PC p on operands a and b, and the outcome of a branch on  *)
(* them.                                                                   *)
Alu(i, p, a, b) ==
  CASE i.op = "op"    -> (a + b) % WORDS
    [] i.op = "lui"   -> i.imm
    [] i.op = "auipc" -> (p + i.imm) % WORDS
    [] OTHER          -> (a + i.imm) % WORDS
Taken(i, a, b) ==
  \/ Jump(i)
  \/ i.op = "beq" /\ a = b
  \/ i.op = "bne" /\ a # b
Target(i, p, a) == IF i.op = "jalr" THEN (a + i.imm) % PCN ELSE (p + i.imm) % PCN

Write(r, d, v) == [r EXCEPT ![d] = IF d = 0 THEN 0 ELSE v]
=============================================================================
