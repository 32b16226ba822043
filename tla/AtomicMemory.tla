---------------------------- MODULE AtomicMemory ----------------------------
(***************************************************************************)
(* What the memory engine promises the warps: every lane of an instruction *)
(* takes effect exactly once, at one moment between the issue of the       *)
(* instruction and the resume of its warp; lanes that take effect together *)
(* do so in lane order; an AMO reads and writes its word in that moment.   *)
(***************************************************************************)
EXTENDS MemOps

VARIABLES
  op,         \* the instructions issued so far, in order
  left,       \* per instruction, lanes that have not taken effect
  res,        \* per instruction and lane, the value its register receives
  resumed,    \* instructions whose warp was told
  mem, scr    \* global memory and scratchpad

vars == <<op, left, res, resumed, mem, scr>>

Init ==
  /\ op = << >> /\ left = << >> /\ res = << >> /\ resumed = {}
  /\ mem = MemInit /\ scr = ScrInit

Ids == 1 .. Len(op)

(* The lanes of instruction n that take effect in a step.                  *)
Took(n)   == left[n] \ left'[n]
Active(b) == {n \in Ids : Took(n) # {} /\ op[n].scratch = b}
Apply(S, m) == IF S = {} THEN m ELSE LET n == CHOOSE n \in S : TRUE
                                     IN After(op[n], Took(n), m)

(* A warp issues an instruction, or none does.                             *)
Issue ==
  \/ op' = op
  \/ \E p \in OpLib : op' = Append(op, p) /\ left'[Len(op')] = p.mask
                      /\ res'[Len(op')] = [l \in Lane |-> None]

(* Lanes of at most one global and one scratch instruction take effect,    *)
(* and the registers of those lanes are to receive what they found.        *)
Effect ==
  /\ \A n \in Ids : left'[n] \subseteq left[n]
  /\ Cardinality(Active(FALSE)) <= 1 /\ mem' = Apply(Active(FALSE), mem)
  /\ Cardinality(Active(TRUE)) <= 1  /\ scr' = Apply(Active(TRUE), scr)
  /\ \A n \in Ids : res'[n] = [l \in Lane |->
       IF l \in Took(n) /\ Returns(op[n])
       THEN Result(op[n], l, Took(n), IF op[n].scratch THEN scr ELSE mem)
       ELSE res[n][l]]

(* Warps whose instruction is complete are told so.                        *)
Resume == resumed \subseteq resumed' /\ \A n \in resumed' : n \in Ids /\ left'[n] = {}

Step == Issue /\ Effect /\ Resume

Spec == Init /\ [][Step]_vars
=============================================================================
