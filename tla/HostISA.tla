------------------------------- MODULE HostISA -------------------------------
(***************************************************************************)
(* What the host core promises its driver programs: RV32I, one instruction *)
(* at a time.  A load reads the data memory, a "wload" the read-only       *)
(* weight store, whatever they cost in cycles.                             *)
(***************************************************************************)
EXTENDS HostOps

VARIABLES
  prog,       \* the driver ROM
  pc,         \* architectural PC
  regs,       \* register file
  dmem        \* data memory

vars == <<prog, pc, regs, dmem>>

Init ==
  /\ prog \in Programs
  /\ pc = 0
  /\ regs = [r \in Regs |-> 0]
  /\ dmem \in Images \cup {[a \in Addr |-> 0]}

(* Execute the instruction at pc.                                          *)
Step ==
  LET i == prog[pc]
      a == regs[i.rs1]
      b == regs[i.rs2]
      m == AddrOf(Alu(i, pc, a, b))
      v == CASE i.op = "load"  -> dmem[m]
             [] i.op = "wload" -> Weight(m)
             [] Jump(i)        -> (pc + 1) % PCN
             [] OTHER          -> Alu(i, pc, a, b)
  IN
  /\ pc' = IF Taken(i, a, b) THEN Target(i, pc, a) ELSE (pc + 1) % PCN
  /\ regs' = IF RegWrite(i) THEN Write(regs, i.rd, v) ELSE regs
  /\ dmem' = IF i.op = "store" THEN [dmem EXCEPT ![m] = b] ELSE dmem
  /\ UNCHANGED prog

Spec == Init /\ [][Step]_vars /\ WF_vars(Step)
=============================================================================
