--------------------------- MODULE WarpPoolProofs ---------------------------
(***************************************************************************)
(* Proofs about the warp pool: in every interleaving of fetch, issue,      *)
(* write-back and engine completions its registers keep their types, the   *)
(* context captured at fetch is fresh at issue, the scoreboard agrees with *)
(* what is in flight, and whoever waits waits for something that will      *)
(* come. All follow from the inductive invariant PoolInv.  A clock is one  *)
(* action with many parts, so the proof of its step first says what a      *)
(* clock does to one register at a time (StateStep, PcStep, QStep,         *)
(* PendStep, MemStep, LoadsStep, SfuStep), and then takes the invariant    *)
(* conjunct by conjunct.                                                   *)
(* Two more invariants stand on it. ValuesRight is the order of a warp's   *)
(* program: results come back in any order, and an instruction that issues *)
(* still reads what the last instruction before it wrote. GridInv is the   *)
(* grid: a group of slots hosts one block at a time, the warps of a block  *)
(* stay within a barrier of each other, every warp of the grid runs        *)
(* exactly once, and done means done.                                      *)
(***************************************************************************)
EXTENDS WarpPool, FunctionTheorems, FiniteSetTheorems, SequenceTheorems, TLAPS

(* SmallestOf picks a least element: of the free groups, of the slots that *)
(* can be fetched and of the free identifiers it returns one there is.     *)
LEMMA Smallest ==
  ASSUME NEW S \in SUBSET Nat, S # {}
  PROVE  SmallestOf(S) \in S /\ \A m \in S : SmallestOf(S) <= m
<1> DEFINE R == {ss \in Nat \X Nat : ss[1] < ss[2]}
<1>1. IsWellFoundedOn(R, Nat) BY NatLessThanWellFounded, Zenon DEF OpToRel
<1>2. PICK n \in S : \A m \in S : ~ (<<m, n>> \in R)
  <2> HIDE DEF R
  <2> QED BY <1>1, WFMin
<1>3. ASSUME NEW m \in S PROVE n <= m
  <2>1. m \in Nat /\ n \in Nat OBVIOUS
  <2>2. ASSUME m < n PROVE <<m, n>> \in R BY <2>1, <2>2
  <2> QED BY <1>2, <2>1, <2>2
<1> QED BY <1>2, <1>3 DEF SmallestOf

(* The round-robin search of stage F ends on a slot that can be fetched,   *)
(* and the pointer stays among the slots.                                  *)
LEMMA Fetched ==
  ASSUME rr_ptr \in Slots, fetch_valid
  PROVE  fetch_w \in Slots /\ Fetchable(fetch_w) /\ rr_next \in Slots
<1> DEFINE D == {d \in Slots : Fetchable((rr_ptr + d) % NW)}
<1> USE NWAssumption DEF Slots
<1>1. D \in SUBSET Nat OBVIOUS
<1>2. PICK k \in Slots : Fetchable(k) BY DEF fetch_valid
<1>3. D # {}
  <2> DEFINE d == IF k >= rr_ptr THEN k - rr_ptr ELSE k - rr_ptr + NW
  <2>1. d \in Slots OBVIOUS
  <2>2. (rr_ptr + d) % NW = k OBVIOUS
  <2> QED BY <1>2, <2>1, <2>2
<1>4. PICK e \in Slots : e = SmallestOf(D) /\ Fetchable((rr_ptr + e) % NW)
  BY <1>1, <1>3, Smallest
<1>5. fetch_w = (rr_ptr + e) % NW BY <1>4 DEF fetch_w
<1>6. \A n \in Nat : n % NW \in Slots BY SMT
<1>7. rr_ptr + e \in Nat OBVIOUS
<1>8. fetch_w \in Slots BY <1>5, <1>6, <1>7
<1>9. rr_next \in Slots BY <1>6, <1>8 DEF rr_next
<1> QED BY <1>4, <1>5, <1>8, <1>9

(* Quotient and remainder.                                                 *)
LEMMA Divide ==
  ASSUME NEW k \in Nat, NEW n \in Nat \ {0}
  PROVE  /\ k \div n \in Nat /\ k % n \in 0 .. n - 1
         /\ k = n * (k \div n) + (k % n)
OBVIOUS

(* A number is written as a multiple and a remainder in one way.           *)
LEMMA DivideUnique ==
  ASSUME NEW n \in Nat \ {0}, NEW a \in Nat, NEW c \in 0 .. n - 1
  PROVE  (n * a + c) \div n = a /\ (n * a + c) % n = c
OBVIOUS

(* The positions of the queue of unit u, the records it holds, and their   *)
(* form.                                                                   *)
Pos(u) == 1 .. Len(q[u])
OpRec == [w : Slots, rd : Regs, val : Nat, t : Nat]
QueueOK == q \in [UnitSet -> Seq(OpRec)]

(* Operation o is operation p some cycles later.                           *)
Moved(o, p) == o.w = p.w /\ o.rd = p.rd /\ o.val = p.val /\ o.t <= p.t

(* A cycle ages the operations of a queue and changes nothing else.        *)
LEMMA AgedSeq ==
  ASSUME NEW s \in Seq(OpRec)
  PROVE  /\ Aged(s) \in Seq(OpRec) /\ Len(Aged(s)) = Len(s)
         /\ \A i \in 1 .. Len(s) : Moved(Aged(s)[i], s[i])
<1>1. DOMAIN s = 1 .. Len(s) /\ Len(s) \in Nat BY LenProperties
<1>2. ASSUME NEW i \in 1 .. Len(s)
      PROVE  /\ Aged(s)[i] \in OpRec /\ Moved(Aged(s)[i], s[i])
  <2>1. s[i] \in OpRec OBVIOUS
  <2> DEFINE n == IF s[i].t = 0 THEN 0 ELSE s[i].t - 1
  <2>2. n \in Nat /\ n <= s[i].t BY <2>1 DEF OpRec
  <2>3. Aged(s)[i] = [s[i] EXCEPT !.t = n] BY <1>1 DEF Aged
  <2> HIDE DEF n
  <2>4. [s[i] EXCEPT !.t = n] \in OpRec BY <2>1, <2>2 DEF OpRec
  <2>5. Moved([s[i] EXCEPT !.t = n], s[i]) BY <2>1, <2>2 DEF OpRec, Moved
  <2> QED BY <2>3, <2>4, <2>5
<1>3. Aged(s) = [i \in 1 .. Len(s) |-> Aged(s)[i]] BY <1>1 DEF Aged
<1>4. Aged(s) \in [1 .. Len(s) -> OpRec] BY <1>2, <1>3
<1>5. Aged(s) \in Seq(OpRec) BY <1>1, <1>4
<1>6. Len(Aged(s)) = Len(s) BY <1>1, <1>4, <1>5, LenProperties
<1> QED BY <1>2, <1>5, <1>6

(* The number of operations that leave unit u. *)
Gone(in, u) == IF u \in wb_fire(in) THEN 1 ELSE 0

(* What the queue of unit u is without the result that leaves it.          *)
LEMMA PoppedSeq ==
  ASSUME QueueOK, NEW in, NEW u \in UnitSet
  PROVE  /\ Popped(in, u) \in Seq(OpRec)
         /\ Len(q[u]) \in Nat /\ Gone(in, u) <= Len(q[u])
         /\ Len(Popped(in, u)) = Len(q[u]) - Gone(in, u)
         /\ \A i \in 1 .. Len(q[u]) - Gone(in, u) : Popped(in, u)[i] = q[u][i + Gone(in, u)]
<1>1. q[u] \in Seq(OpRec) BY DEF QueueOK
<1>2. CASE u \in wb_fire(in)
  <2>1. q[u] # << >> BY <1>2 DEF wb_fire, Vld
  <2> QED BY <1>1, <1>2, <2>1 DEF Popped, Gone
<1>3. CASE u \notin wb_fire(in) BY <1>1, <1>3 DEF Popped, Gone
<1> QED BY <1>2, <1>3

(* An operation enters unit u from stage X, and what it carries.           *)
Enters(u) == do_unit /\ instr.cls = u
Entry(u) == [w |-> x.w, rd |-> instr.rd, val |-> x.pc, t |-> Lat[u]]

(* What a clock does to the queue of unit u. *)
LEMMA QueueStep ==
  ASSUME QueueOK, NEW in, UnitStep(in), NEW u \in UnitSet, Entry(u) \in OpRec
  PROVE  /\ q'[u] \in Seq(OpRec)
         /\ Len(q[u]) \in Nat /\ Gone(in, u) <= Len(q[u])
         /\ Len(q'[u]) = Len(q[u]) - Gone(in, u) + (IF Enters(u) THEN 1 ELSE 0)
         /\ \A i \in 1 .. Len(q[u]) - Gone(in, u) : Moved(q'[u][i], q[u][i + Gone(in, u)])
         /\ Enters(u) => q'[u][Len(q'[u])] = Entry(u)
<1> DEFINE p == Popped(in, u)
           g == Aged(p)
           e == IF Enters(u) THEN <<Entry(u)>> ELSE << >>
<1>1. p \in Seq(OpRec) /\ g \in Seq(OpRec) /\ Len(g) = Len(p) BY PoppedSeq, AgedSeq
<1>2. e \in Seq(OpRec) /\ Len(e) = IF Enters(u) THEN 1 ELSE 0 OBVIOUS
<1>3. q'[u] = g \o e BY DEF UnitStep, Enters, Entry
<1>4. Len(g) = Len(q[u]) - Gone(in, u) /\ Len(q[u]) \in Nat /\ Gone(in, u) <= Len(q[u])
      /\ Len(g) \in Nat BY <1>1, PoppedSeq, LenProperties
<1>5. \A i \in 1 .. Len(g) : Moved(g[i], q[u][i + Gone(in, u)])
  BY <1>1, <1>4, PoppedSeq, AgedSeq
<1> HIDE DEF p, g
<1>6. /\ q'[u] \in Seq(OpRec) /\ Len(q'[u]) = Len(g) + Len(e)
      /\ \A i \in 1 .. Len(g) : q'[u][i] = g[i]
      /\ Enters(u) => q'[u][Len(g) + 1] = Entry(u)
  BY <1>1, <1>2, <1>3, <1>4
<1> QED BY <1>2, <1>4, <1>5, <1>6

-----------------------------------------------------------------------------
(* Operations o and p write the same register, one that is not x0.         *)
Same(o, p) == o.w = p.w /\ o.rd = p.rd /\ o.rd # "x0"
(* The loads of slot k in the memory engine; the positions of the kernel.  *)
LoadsOf(k) == {m \in Loads : m.w = k}
Positions == 1 .. Len(kernel)
(* PoolInv, part by part.  What a queue holds stands for instructions,     *)
(* with a latency left that is not above that of its unit.                 *)
QueueVals == \A u \in UnitSet : \A i \in Pos(u) : q[u][i].val \in Positions /\ q[u][i].t <= Lat[u]
(* The memory engine tells its operations apart by their identifiers.      *)
MemOK   == IsFiniteSet(mem) /\ \A m, n \in mem : m.id = n.id => m = n
(* Operation o is that of the instruction at position p, and no earlier    *)
(* result for its register is outstanding.                                 *)
IsAt(p, o, cls) == o.val = p /\ kernel[p].cls = cls /\ kernel[p].rd = o.rd /\ o.rd \notin pend[o.w]
(* An operation that parks its warp is that of the instruction at the      *)
(* warp's PC, and a jump in B is the one at its warp's PC.                 *)
Parked ==
  /\ \A m \in mem : m.cls # "load" => IsAt(pc[m.w], m, m.cls)
  /\ sfu.st # "SFU_IDLE" => IsAt(pc[sfu.w], sfu, "sfu")
  /\ b.v => b.fall = pc[b.w] + 1 /\ kernel[pc[b.w]].cls = "ctl"
(* The scoreboard: what is in flight for a register has its bit, a bit has *)
(* an operation in flight, and no two operations are in flight for one     *)
(* register.                                                               *)
PendOne ==
  /\ \A u \in UnitSet : \A i \in Pos(u) : q[u][i].rd # "x0" => q[u][i].rd \in pend[q[u][i].w]
  /\ \A m \in Loads : m.rd # "x0" => m.rd \in pend[m.w]
  /\ \A k \in Slots : \A r \in pend[k] :
       \/ \E u \in UnitSet : \E i \in Pos(u) : q[u][i].w = k /\ q[u][i].rd = r
       \/ \E m \in Loads : m.w = k /\ m.rd = r
  /\ \A u, v \in UnitSet : \A i \in Pos(u), j \in Pos(v) :
       Same(q[u][i], q[v][j]) => u = v /\ i = j
  /\ \A m, n \in Loads : Same(m, n) => m = n
  /\ \A u \in UnitSet : \A i \in Pos(u) : \A m \in Loads : ~ Same(q[u][i], m)
(* The counter of outstanding loads counts them.                           *)
LdCount == \A k \in Slots : ld_out[k] = Cardinality(LoadsOf(k))
(* A slot that can be spawned into owes nothing; a warp at a barrier has   *)
(* no load out.                                                            *)
FreeState == {"W_EMPTY", "W_DONE"}
FreeClean == \A k \in Slots : wstate[k] \in FreeState => pend[k] = {} /\ ld_out[k] = 0
BarClean == \A k \in Slots : wstate[k] = "W_BAR" => ld_out[k] = 0
(* A sleeper has its waker, said with the positions of the queues.         *)
Sleepers ==
  \A k \in sb_wait :
    /\ wstate[k] = "W_RUN"
    /\ IF k \in sb_wfull THEN \E u \in UnitSet : Pos(u) # {}
       ELSE \/ \E u \in UnitSet : \E i \in Pos(u) : q[u][i].w = k
            \/ LoadsOf(k) # {}
(* A pool that does not run hosts no warp and has no memory operation.     *)
Resting == ~running => (\A k \in Slots : wstate[k] \in FreeState) /\ mem = {}

(* The inductive invariant.  TypeOK alone is not inductive: that a PC      *)
(* stays inside the kernel needs to know which instruction a parked warp   *)
(* is at (Parked), that ld_out stays within LD_MAX needs that it counts    *)
(* (LdCount), that CaptureFresh holds needs that an engine resumes only    *)
(* its own warp (EngineOwns), and that needs that identifiers are not      *)
(* reused (MemOK).                                                         *)
PoolInv ==
  /\ TypeOK /\ QueueOK /\ QueueVals /\ CaptureFresh /\ MemOK /\ Parked /\ PendOne /\ LdCount
  /\ FreeClean /\ BarClean /\ EngineOwns /\ QueueBound /\ Sleepers /\ Resting

-----------------------------------------------------------------------------
(* An instruction that is not an ecall has a successor. *)
LEMMA Decoded ==
  ASSUME TypeOK, NEW p \in Positions
  PROVE  /\ Len(kernel) \in Nat /\ 1 \in Positions
         /\ kernel[p] \in Instr
         /\ kernel[p].cls # "ecall" => p + 1 \in Positions
         /\ kernel[p].cls \in UnitSet => kernel[p].cls \notin Plain
         /\ kernel[p].cls \in {"pop", "store", "bar", "ecall"} => kernel[p].rd = "x0"
<1>1. /\ kernel \in Seq(Instr) /\ kernel # << >> /\ kernel[Len(kernel)].cls = "ecall"
      /\ \A i \in DOMAIN kernel :
           kernel[i].cls \in {"pop", "store", "bar", "ecall"} => kernel[i].rd = "x0"
  BY KernelAssumption DEF TypeOK
<1>2. Len(kernel) \in Nat /\ DOMAIN kernel = 1 .. Len(kernel) BY <1>1
<1>3. kernel[p] \in Instr BY <1>1 DEF Positions
<1>4. kernel[p].cls # "ecall" => p + 1 \in Positions BY <1>1, <1>2 DEF Positions
<1>5. 1 \in Positions BY <1>2 DEF Positions
<1> QED BY <1>1, <1>2, <1>3, <1>4, <1>5, UnitAssumption DEF Positions

(* The warp in X runs, and its instruction is the one at its PC. *)
LEMMA InX ==
  ASSUME TypeOK, CaptureFresh
  PROVE  /\ x.w \in Slots /\ x.pc \in Positions
         /\ x.v => wstate[x.w] = "W_RUN" /\ x.w \notin sb_wait /\ x.pc = pc[x.w] /\ x.w \in inflight
         /\ b.v => wstate[b.w] = "W_RUN" /\ b.w \notin sb_wait /\ b.w \in inflight
         /\ b.w \in Slots
         /\ \A k \in inflight : wstate[k] = "W_RUN" /\ ((x.v /\ x.w = k) \/ (b.v /\ b.w = k))
<1>1. x.v => x.w \in inflight BY DEF CaptureFresh
<1>2. b.v => b.w \in inflight BY DEF CaptureFresh
<1>3. \A k \in inflight : (x.v /\ x.w = k) \/ (b.v /\ b.w = k) BY DEF CaptureFresh
<1> QED BY <1>1, <1>2, <1>3 DEF TypeOK, CaptureFresh, Positions

(* Only a free slot is spawned into. *)
LEMMA Spawned ==
  ASSUME NEW k \in spawn_en
  PROVE  wstate[k] \in FreeState
<1>1. FreeGroups \in SUBSET Nat /\ FreeGroups # {} BY DEF spawn_en, spawning, FreeGroups
<1>2. SmallestOf(FreeGroups) \in FreeGroups BY <1>1, Smallest
<1> QED BY <1>2 DEF spawn_en, FreeGroups, GroupFree, FreeState

(* At most one operation finishes in a clock. *)
LEMMA Finished ==
  ASSUME MemOK, NEW in
  PROVE  /\ fin_op(in) \subseteq mem
         /\ \A m, n \in fin_op(in) : m = n
         /\ \A m \in fin_op(in) : fin_op(in) = {m}
BY DEF MemOK, fin_op

(* The ways stage X may resolve exclude one another. *)
LEMMA XCases ==
  ASSUME TypeOK, CaptureFresh, NEW in
  PROVE  /\ do_ecall => instr.cls = "ecall"
         /\ do_bar => instr.cls = "bar"
         /\ do_sfu => instr.cls = "sfu"
         /\ parks_mem(in) => instr.cls \in {"store", "amo"}
         /\ ld_inc(in) => instr.cls = "load"
         /\ do_unit => instr.cls \in UnitSet
         /\ do_unit \/ do_bar \/ do_ecall \/ do_sfu \/ do_mem(in) \/ do_alu(in) \/ do_ctl(in) => issue
         /\ issue => x.v /\ instr.cls # "pop" /\ ~ sb_haz /\ ~ sb_full
         /\ do_mem(in) => ld_inc(in) \/ parks_mem(in)
         /\ instr.cls \in UnitSet => instr.cls \notin Plain
<1>1. instr.cls \in UnitSet => instr.cls \notin Plain BY InX, Decoded DEF instr
<1> QED BY <1>1 DEF do_ecall, do_bar, do_sfu, parks_mem, ld_inc, do_unit, do_mem, do_alu, do_ctl, issue, exec,
      sb_stall

(* How a clock changes the state of a slot. *)
LEMMA StateStep ==
  ASSUME PoolInv, NEW in \in Inputs, Cycle(in), NEW k \in Slots
  PROVE  /\ wstate[k] = "W_SFU" =>
              sfu.w = k /\ wstate'[k] = IF sfu_wb_fire(in) THEN "W_RUN" ELSE "W_SFU"
         /\ wstate[k] = "W_MEM" => wstate'[k] = IF me_rs_st(in, k) THEN "W_RUN" ELSE "W_MEM"
         /\ wstate[k] = "W_BAR" => wstate'[k] = IF k \in bar_release THEN "W_RUN" ELSE "W_BAR"
         /\ wstate[k] \in FreeState => wstate'[k] = IF k \in spawn_en THEN "W_RUN" ELSE wstate[k]
         /\ wstate[k] = "W_RUN" => wstate'[k] =
              IF x.w # k THEN "W_RUN" ELSE IF do_ecall THEN "W_DONE" ELSE IF do_bar THEN "W_BAR"
              ELSE IF do_sfu THEN "W_SFU" ELSE IF parks_mem(in) THEN "W_MEM" ELSE "W_RUN"
<1> USE DEF PoolInv
<1>1. wstate'[k] = NextWstate(in)[k] BY DEF Cycle
<1>2. sfu_wb_fire(in) /\ sfu.w = k => wstate[k] = "W_SFU" BY DEF sfu_wb_fire, EngineOwns
<1>3. me_rs_st(in, k) => wstate[k] = "W_MEM" BY Finished DEF me_rs_st, EngineOwns
<1>4. x.w = k /\ (do_ecall \/ do_bar \/ do_sfu \/ parks_mem(in)) => wstate[k] = "W_RUN"
  BY InX, XCases DEF parks_mem
<1>5. k \in bar_release => wstate[k] = "W_BAR" BY DEF bar_release
<1>6. k \in spawn_en => wstate[k] \in FreeState BY Spawned
<1>7. wstate[k] = "W_SFU" => sfu.w = k BY DEF EngineOwns
<1> QED BY <1>1, <1>2, <1>3, <1>4, <1>5, <1>6, <1>7 DEF NextWstate, FreeState

(* How a clock changes the PC of a slot. *)
LEMMA PcStep ==
  ASSUME PoolInv, NEW in \in Inputs, Cycle(in), NEW k \in Slots
  PROVE  /\ wstate[k] = "W_SFU" => pc'[k] = IF sfu_wb_fire(in) THEN pc[k] + 1 ELSE pc[k]
         /\ wstate[k] = "W_MEM" => pc'[k] = IF me_rs_st(in, k) THEN pc[k] + 1 ELSE pc[k]
         /\ wstate[k] = "W_BAR" => pc'[k] = pc[k]
         /\ wstate[k] \in FreeState => pc'[k] = IF k \in spawn_en THEN 1 ELSE pc[k]
         /\ wstate[k] = "W_RUN" =>
              pc'[k] = IF (b.v /\ b.w = k) \/ (x.w = k /\ pc_step(in)) THEN pc[k] + 1 ELSE pc[k]
<1> USE DEF PoolInv
<1>1. pc'[k] = NextPc(in)[k] BY DEF Cycle
<1>2. sfu_wb_fire(in) /\ sfu.w = k => wstate[k] = "W_SFU" BY DEF sfu_wb_fire, EngineOwns
<1>3. me_rs_st(in, k) => wstate[k] = "W_MEM" BY Finished DEF me_rs_st, EngineOwns
<1>4. x.w = k /\ pc_step(in) => wstate[k] = "W_RUN" /\ x.pc = pc[k]
  BY InX, XCases DEF pc_step, ld_inc
<1>5. b.v /\ b.w = k => wstate[k] = "W_RUN" /\ b.fall = pc[k] + 1 BY InX DEF Parked
<1>6. k \in spawn_en => wstate[k] \in FreeState BY Spawned
<1>7. wstate[k] = "W_SFU" => sfu.w = k BY DEF EngineOwns
<1> QED BY <1>1, <1>2, <1>3, <1>4, <1>5, <1>6, <1>7 DEF NextPc, FreeState

-----------------------------------------------------------------------------
(* A fetched warp is not touched in the clock of its fetch. *)
LEMMA FetchStep ==
  ASSUME PoolInv, NEW in \in Inputs, Cycle(in), fetch_valid
  PROVE  /\ fetch_w \in Slots /\ fetch_w \notin inflight /\ fetch_w \notin sb_wait
         /\ wstate[fetch_w] = "W_RUN" /\ wstate'[fetch_w] = "W_RUN"
         /\ pc'[fetch_w] = pc[fetch_w] /\ fetch_w \notin sb_wait'
<1> USE DEF PoolInv
<1> DEFINE f == fetch_w
<1>1. f \in Slots /\ Fetchable(f) BY Fetched DEF TypeOK
<1>2. wstate[f] = "W_RUN" /\ f \notin inflight /\ f \notin sb_wait BY <1>1 DEF Fetchable
<1>3. (x.v => x.w # f) /\ (b.v => b.w # f) BY <1>2, InX
<1> HIDE DEF f
<1>4. wstate'[f] = "W_RUN" BY <1>1, <1>2, <1>3, StateStep, XCases DEF parks_mem
<1>5. pc'[f] = pc[f] BY <1>1, <1>2, <1>3, PcStep, XCases DEF pc_step, ld_inc
<1>6. f \notin sb_wait' BY <1>2, <1>3 DEF Cycle, BoardStep, sb_stall, exec
<1> QED BY <1>1, <1>2, <1>4, <1>5, <1>6 DEF f

(* The control-flow instruction that enters B leaves its warp as it is. *)
LEMMA CtlStep ==
  ASSUME PoolInv, NEW in \in Inputs, Cycle(in), do_ctl(in)
  PROVE  /\ x.v /\ x.w \in Slots /\ wstate'[x.w] = "W_RUN" /\ x.w \notin sb_wait'
         /\ pc'[x.w] = pc[x.w] /\ x.pc = pc[x.w] /\ instr.cls = "ctl"
<1> USE DEF PoolInv
<1>1. instr.cls = "ctl" /\ issue BY DEF do_ctl
<1>2. x.v /\ x.w \in Slots /\ wstate[x.w] = "W_RUN" /\ x.w \notin sb_wait /\ x.pc = pc[x.w] BY <1>1, InX, XCases
<1>3. ~ do_ecall /\ ~ do_bar /\ ~ do_sfu /\ ~ parks_mem(in) /\ ~ pc_step(in)
  BY <1>1, XCases DEF pc_step, do_alu, Plain
<1>4. wstate'[x.w] = "W_RUN" BY <1>2, <1>3, StateStep
<1>5. ~ (b.v /\ b.w = x.w) BY <1>2 DEF CaptureFresh
<1>6. pc'[x.w] = pc[x.w] BY <1>2, <1>3, <1>5, PcStep
<1>7. x.w \notin sb_wait' BY <1>1, <1>2 DEF Cycle, BoardStep, issue
<1> QED BY <1>1, <1>2, <1>4, <1>6, <1>7

(* The fetched context stays fresh: no other stage writes the PC of a warp *)
(* between its fetch and its issue.                                        *)
LEMMA CaptureStep ==
  ASSUME PoolInv, NEW in \in Inputs, Cycle(in)
  PROVE  CaptureFresh'
<1> USE DEF PoolInv
<1>1. PipeStep(in) BY DEF Cycle
<1>2. x'.v = fetch_valid /\ (fetch_valid => x'.w = fetch_w /\ x'.pc = pc[fetch_w])
  BY <1>1 DEF PipeStep, TypeOK, fetch_valid
<1>3. b'.v = do_ctl(in) /\ (do_ctl(in) => b'.w = x.w)
  BY <1>1 DEF PipeStep, TypeOK, do_ctl, issue, exec
<1>4. inflight \ Resolved(in) = IF do_ctl(in) THEN {x.w} ELSE {}
  BY CtlStep DEF CaptureFresh, Resolved
<1>5. inflight' = (IF x'.v THEN {x'.w} ELSE {}) \cup (IF b'.v THEN {b'.w} ELSE {})
  BY <1>1, <1>2, <1>3, <1>4 DEF PipeStep
<1>6. x'.v /\ b'.v => x'.w # b'.w BY <1>2, <1>3, FetchStep, CtlStep, InX
<1>7. x'.v => x'.pc = pc'[x'.w] BY <1>2, FetchStep
<1>8. \A k \in inflight' : wstate'[k] = "W_RUN" /\ k \notin sb_wait'
  BY <1>2, <1>3, <1>5, FetchStep, CtlStep
<1> QED BY <1>5, <1>6, <1>7, <1>8 DEF CaptureFresh

(* The registers of the pipeline and of the scoreboard after a clock. *)
LEMMA ParkedTypes ==
  ASSUME PoolInv, NEW in \in Inputs, Cycle(in), NEW k \in Slots
  PROVE  pc'[k] \in Positions
<1> USE DEF PoolInv
<1>1. pc[k] \in Positions /\ 1 \in Positions BY Decoded DEF TypeOK, Positions
<1>2. ASSUME kernel[pc[k]].cls # "ecall" PROVE pc[k] + 1 \in Positions BY <1>1, <1>2, Decoded
<1>3. CASE wstate[k] = "W_SFU"
  <2>1. kernel[pc[k]].cls = "sfu" BY <1>3 DEF EngineOwns, Parked, IsAt
  <2> QED BY <1>1, <1>2, <1>3, <2>1, PcStep
<1>4. CASE wstate[k] = "W_MEM"
  <2>1. PICK m \in mem : m.w = k /\ m.cls # "load" BY <1>4 DEF EngineOwns
  <2>2. kernel[pc[k]].cls = m.cls /\ m.cls # "ecall" BY <2>1 DEF Parked, IsAt, TypeOK
  <2> QED BY <1>1, <1>2, <1>4, <2>2, PcStep
<1>5. CASE wstate[k] \in {"W_BAR"} \cup FreeState BY <1>1, <1>5, PcStep
<1>6. CASE wstate[k] = "W_RUN"
  <2>1. b.v /\ b.w = k => kernel[pc[k]].cls = "ctl" BY DEF Parked
  <2>2. x.w = k /\ pc_step(in) => kernel[pc[k]].cls # "ecall"
    <3> SUFFICES ASSUME x.w = k, pc_step(in) PROVE kernel[pc[k]].cls # "ecall" OBVIOUS
    <3>1. x.v BY XCases DEF pc_step, ld_inc
    <3>2. instr = kernel[pc[k]] BY <3>1, InX DEF instr
    <3>3. instr.cls # "ecall" BY XCases DEF pc_step, do_alu, Plain
    <3> QED BY <3>2, <3>3
  <2> QED BY <1>1, <1>2, <1>6, <2>1, <2>2, PcStep
<1> QED BY <1>3, <1>4, <1>5, <1>6 DEF TypeOK, WStates, FreeState

-----------------------------------------------------------------------------
(* The operation a warp gives to the memory engine, and its identifier. *)
FreeIds == {i \in MemIds : \A m \in mem : m.id # i}
(* The record of that operation, and the records there are.                *)
NewOp == [id |-> SmallestOf(FreeIds), w |-> x.w, cls |-> instr.cls, rd |-> instr.rd, val |-> x.pc,
          fp |-> ({instr.rd} \cup instr.use) \cap FRegs # {}]
MemOp == [id : MemIds, w : Slots, cls : {"load", "store", "amo"}, rd : Regs, val : Positions,
          fp : BOOLEAN]

(* The memory engine takes an operation only when it has room, so an       *)
(* identifier is free.                                                     *)
LEMMA FreshId ==
  ASSUME TypeOK, MemOK, NEW in \in Inputs, in.rdy
  PROVE  SmallestOf(FreeIds) \in FreeIds
<1>1. MEM_OPS \in Nat \ {0} BY SizeAssumption
<1>2. Cardinality(mem) \in Nat /\ Cardinality(mem) < MEM_OPS
  <2>1. Cardinality(mem) \in Nat BY FS_CardinalityType DEF MemOK
  <2>2. CASE mem = {} BY <1>1, <2>2, FS_EmptySet
  <2>3. CASE mem # {} BY <2>1, <2>3 DEF Inputs
  <2> QED BY <2>1, <2>2, <2>3
<1>3. Cardinality(MemIds) = MEM_OPS BY <1>1, FS_Interval DEF MemIds
<1>4. FreeIds # {}
  <2> SUFFICES ASSUME FreeIds = {} PROVE FALSE OBVIOUS
  <2> DEFINE f == [m \in mem |-> m.id]
  <2>1. f \in [mem -> MemIds] BY DEF TypeOK
  <2>2. \A i \in MemIds : \E m \in mem : f[m] = i BY DEF FreeIds
  <2> HIDE DEF f
  <2>3. f \in Surjection(mem, MemIds) BY <2>1, <2>2 DEF Surjection
  <2>4. Cardinality(MemIds) <= Cardinality(mem) BY <2>3, FS_Surjection DEF MemOK
  <2> QED BY <1>1, <1>2, <1>3, <2>4
<1>5. FreeIds \in SUBSET Nat BY <1>1 DEF FreeIds, MemIds
<1> QED BY <1>4, <1>5, Smallest

(* What a clock does to the memory engine's operations. *)
LEMMA MemStep ==
  ASSUME PoolInv, NEW in \in Inputs, Cycle(in)
  PROVE  /\ mem' = (mem \ fin_op(in)) \cup (IF do_mem(in) THEN {NewOp} ELSE {})
         /\ do_mem(in) => /\ NewOp \in MemOp /\ NewOp \notin mem /\ \A m \in mem : m.id # NewOp.id
                          /\ NewOp.w = x.w /\ NewOp.cls = instr.cls /\ NewOp.rd = instr.rd
                          /\ NewOp.val = x.pc
<1> USE DEF PoolInv
<1>1. mem' = (mem \ fin_op(in)) \cup (IF do_mem(in) THEN {NewOp} ELSE {})
  BY DEF Cycle, UnitStep, NewOp, FreeIds
<1>2. ASSUME do_mem(in)
      PROVE  /\ NewOp \in MemOp /\ NewOp \notin mem /\ \A m \in mem : m.id # NewOp.id
             /\ NewOp.w = x.w /\ NewOp.cls = instr.cls /\ NewOp.rd = instr.rd /\ NewOp.val = x.pc
  <2>1. SmallestOf(FreeIds) \in FreeIds BY <1>2, FreshId DEF do_mem
  <2>2. instr \in Instr /\ instr.cls \in {"load", "store", "amo"} BY <1>2, InX, Decoded DEF instr, do_mem
  <2>3. x.w \in Slots /\ x.pc \in Positions BY InX
  <2>4. /\ NewOp.w = x.w /\ NewOp.cls = instr.cls /\ NewOp.rd = instr.rd /\ NewOp.val = x.pc
        /\ NewOp.id \in FreeIds /\ NewOp \in MemOp
    BY <2>1, <2>2, <2>3 DEF NewOp, MemOp, FreeIds, Instr
  <2>5. \A m \in mem : m.id # NewOp.id BY <2>4 DEF FreeIds
  <2> QED BY <2>4, <2>5
<1> QED BY <1>1, <1>2

(* The memory engine's operations keep their form and their identifiers.   *)
LEMMA MemOkStep ==
  ASSUME PoolInv, NEW in \in Inputs, Cycle(in)
  PROVE  MemOK' /\ mem' \in SUBSET MemOp
<1> USE DEF PoolInv
<1>1. IsFiniteSet(mem \ fin_op(in)) BY FS_Difference DEF MemOK
<1>2. IsFiniteSet(mem')
  <2>1. CASE do_mem(in) BY <1>1, <2>1, MemStep, FS_AddElement
  <2>2. CASE ~ do_mem(in) BY <1>1, <2>2, MemStep
  <2> QED BY <2>1, <2>2
<1>3. \A m, n \in mem' : m.id = n.id => m = n BY MemStep DEF MemOK
<1>4. mem' \in SUBSET MemOp
  <2>1. mem \in SUBSET MemOp BY DEF TypeOK, MemOp, Positions
  <2>2. \A m \in mem' : m \in mem \/ (do_mem(in) /\ m = NewOp) BY MemStep
  <2>3. do_mem(in) => NewOp \in MemOp BY MemStep
  <2> QED BY <2>1, <2>2, <2>3
<1> QED BY <1>2, <1>3, <1>4 DEF MemOK

(* The loads of a slot, and the counter that goes with them. *)
LEMMA LoadsStep ==
  ASSUME PoolInv, NEW in \in Inputs, Cycle(in), NEW k \in Slots
  PROVE  /\ LoadsOf(k)' = (LoadsOf(k) \ fin_op(in)) \cup (IF ld_inc(in) /\ x.w = k THEN {NewOp} ELSE {})
         /\ me_rs_ld(in, k) <=> LoadsOf(k) \cap fin_op(in) # {}
         /\ ld_out'[k] = Cardinality(LoadsOf(k)') /\ ld_out'[k] \in 0 .. LD_MAX
<1> USE DEF PoolInv
<1> DEFINE L == LoadsOf(k)
           N == L \ fin_op(in)
<1>1. LoadsOf(k)' = N \cup (IF ld_inc(in) /\ x.w = k THEN {NewOp} ELSE {})
  BY MemStep DEF LoadsOf, Loads, ld_inc
<1>2. me_rs_ld(in, k) <=> L \cap fin_op(in) # {} BY Finished DEF me_rs_ld, LoadsOf, Loads
<1>3. IsFiniteSet(L) BY FS_Subset DEF MemOK, LoadsOf, Loads
<1>4. Cardinality(L) = ld_out[k] /\ ld_out[k] \in 0 .. LD_MAX /\ LD_MAX \in Nat
  BY SizeAssumption DEF LdCount, TypeOK
<1>5. IsFiniteSet(N) /\ Cardinality(N) = ld_out[k] - (IF me_rs_ld(in, k) THEN 1 ELSE 0)
  <2>1. CASE me_rs_ld(in, k)
    <3>1. PICK m \in L : m \in fin_op(in) BY <1>2, <2>1
    <3>2. N = L \ {m} BY <3>1, Finished
    <3> HIDE DEF L, N
    <3> QED BY <1>3, <1>4, <2>1, <3>1, <3>2, FS_RemoveElement
  <2>2. CASE ~ me_rs_ld(in, k)
    <3>1. N = L BY <1>2, <2>2
    <3> HIDE DEF L, N
    <3> QED BY <1>3, <1>4, <2>2, <3>1
  <2> QED BY <2>1, <2>2
<1>6. ld_out'[k] = ld_out[k] + (IF ld_inc(in) /\ x.w = k THEN 1 ELSE 0) - (IF me_rs_ld(in, k) THEN 1 ELSE 0)
  BY DEF Cycle, BoardStep
<1>7. ld_inc(in) => NewOp \notin N BY MemStep DEF ld_inc, LoadsOf, Loads
<1>8. ld_inc(in) /\ x.w = k => ld_out[k] < LD_MAX
  <2>1. ld_inc(in) => instr.cls = "load" /\ ~ LoadHaz BY XCases DEF ld_inc, sb_haz
  <2> QED BY <1>4, <2>1 DEF LoadHaz
<1>9. Cardinality(N) >= 0 BY <1>5, FS_CardinalityType
<1> HIDE DEF L, N
<1> DEFINE gone == IF me_rs_ld(in, k) THEN 1 ELSE 0
<1>10. gone \in {0, 1} OBVIOUS
<1>12. ld_out'[k] = Cardinality(LoadsOf(k)')
  <2>1. CASE ld_inc(in) /\ x.w = k
    <3>1. ld_out'[k] = ld_out[k] + 1 - gone BY <1>6, <2>1
    <3>2. Cardinality(N) = ld_out[k] - gone /\ IsFiniteSet(N) BY <1>5
    <3>3. LoadsOf(k)' = N \cup {NewOp} BY <1>1, <2>1
    <3>4. Cardinality(N \cup {NewOp}) = Cardinality(N) + 1 BY <1>7, <2>1, <3>2, FS_AddElement
    <3> HIDE DEF gone
    <3> QED BY <1>4, <1>10, <3>1, <3>2, <3>3, <3>4
  <2>2. CASE ~ (ld_inc(in) /\ x.w = k)
    <3>1. ld_out'[k] = ld_out[k] + 0 - gone BY <1>6, <2>2
    <3>2. LoadsOf(k)' = N BY <1>1, <2>2
    <3> HIDE DEF gone
    <3> QED BY <1>4, <1>5, <1>10, <3>1, <3>2 DEF gone
  <2> QED BY <2>1, <2>2
<1>11. ld_out'[k] \in 0 .. LD_MAX BY <1>4, <1>5, <1>6, <1>8, <1>9
<1> QED BY <1>1, <1>2, <1>11, <1>12 DEF L, N

-----------------------------------------------------------------------------
(* Where the operations of unit u come from and where they go in a clock.  *)
LEMMA QStep ==
  ASSUME PoolInv, NEW in \in Inputs, Cycle(in), NEW u \in UnitSet
  PROVE  /\ q'[u] \in Seq(OpRec) /\ Len(q[u]) \in Nat /\ Len(q'[u]) \in Nat
         /\ Gone(in, u) \in 0 .. 1
         /\ Len(q'[u]) = Len(q[u]) - Gone(in, u) + (IF Enters(u) THEN 1 ELSE 0)
         /\ \A j \in Pos(u)' : \/ Enters(u) /\ j = Len(q'[u]) /\ q'[u][j] = Entry(u)
                               \/ /\ j + Gone(in, u) \in Pos(u)
                                  /\ Moved(q'[u][j], q[u][j + Gone(in, u)])
         /\ \A i \in Pos(u) : \/ u \in wb_fire(in) /\ i = 1
                              \/ /\ i - Gone(in, u) \in Pos(u)'
                                 /\ Moved(q'[u][i - Gone(in, u)], q[u][i])
         /\ Enters(u) => Len(q'[u]) \in Pos(u)' /\ q'[u][Len(q'[u])] = Entry(u)
<1> USE DEF PoolInv
<1>1. Entry(u) \in OpRec
  <2>1. x.w \in Slots /\ x.pc \in Positions /\ instr \in Instr BY InX, Decoded DEF instr
  <2>2. x.pc \in Nat BY <2>1 DEF Positions
  <2>3. Lat[u] \in Nat BY UnitAssumption
  <2> QED BY <2>1, <2>2, <2>3 DEF Entry, OpRec, Instr
<1>2. UnitStep(in) BY DEF Cycle
<1> DEFINE g == Gone(in, u)
           e == IF Enters(u) THEN 1 ELSE 0
<1>3. /\ q'[u] \in Seq(OpRec) /\ Len(q[u]) \in Nat /\ g <= Len(q[u])
      /\ Len(q'[u]) = Len(q[u]) - g + e
      /\ \A i \in 1 .. Len(q[u]) - g : Moved(q'[u][i], q[u][i + g])
      /\ Enters(u) => q'[u][Len(q'[u])] = Entry(u)
  BY <1>1, <1>2, QueueStep
<1>4. g \in 0 .. 1 /\ (g = 1 <=> u \in wb_fire(in)) /\ e \in 0 .. 1 /\ (e = 1 <=> Enters(u)) BY DEF Gone
<1>5. Len(q'[u]) \in Nat BY <1>3, LenProperties
<1> HIDE DEF g, e
<1>6. \A j \in Pos(u)' : \/ Enters(u) /\ j = Len(q'[u]) /\ q'[u][j] = Entry(u)
                         \/ j + g \in Pos(u) /\ Moved(q'[u][j], q[u][j + g])
  <2> SUFFICES ASSUME NEW j \in 1 .. Len(q'[u])
               PROVE \/ Enters(u) /\ j = Len(q'[u]) /\ q'[u][j] = Entry(u)
                     \/ j + g \in 1 .. Len(q[u]) /\ Moved(q'[u][j], q[u][j + g])
    BY DEF Pos
  <2>1. CASE j <= Len(q[u]) - g
    <3>1. j \in 1 .. Len(q[u]) - g /\ j + g \in 1 .. Len(q[u]) BY <1>3, <1>4, <2>1
    <3> QED BY <1>3, <3>1
  <2>2. CASE ~ (j <= Len(q[u]) - g)
    <3>1. e = 1 /\ j = Len(q'[u]) BY <1>3, <1>4, <1>5, <2>2
    <3> QED BY <1>3, <1>4, <3>1
  <2> QED BY <2>1, <2>2
<1>7. \A i \in Pos(u) : \/ u \in wb_fire(in) /\ i = 1
                        \/ i - g \in Pos(u)' /\ Moved(q'[u][i - g], q[u][i])
  <2> SUFFICES ASSUME NEW i \in 1 .. Len(q[u]), ~ (u \in wb_fire(in) /\ i = 1)
               PROVE  i - g \in 1 .. Len(q'[u]) /\ Moved(q'[u][i - g], q[u][i])
    BY DEF Pos
  <2>1. i - g \in 1 .. Len(q[u]) - g /\ i - g \in 1 .. Len(q'[u]) /\ (i - g) + g = i BY <1>3, <1>4
  <2> QED BY <1>3, <2>1
<1>8. Enters(u) => Len(q'[u]) \in Pos(u)' BY <1>3, <1>4, <1>5 DEF Pos
<1>9. Len(q'[u]) = Len(q[u]) - g + (IF Enters(u) THEN 1 ELSE 0) BY <1>3 DEF e
<1> QED BY <1>3, <1>4, <1>5, <1>6, <1>7, <1>8, <1>9 DEF g

(* The queues keep their form, and no queue overflows. *)
LEMMA QueueInvStep ==
  ASSUME PoolInv, NEW in \in Inputs, Cycle(in)
  PROVE  QueueOK' /\ QueueVals' /\ QueueBound'
<1> USE DEF PoolInv
<1>1. QueueOK'
  <2>1. q' = [u \in UnitSet |-> q'[u]] BY DEF Cycle, UnitStep
  <2>2. \A u \in UnitSet : q'[u] \in Seq(OpRec) BY QStep
  <2> QED BY <2>1, <2>2 DEF QueueOK
<1>2. QueueVals'
  <2> SUFFICES ASSUME NEW u \in UnitSet, NEW j \in Pos(u)'
               PROVE  q'[u][j].val \in Positions /\ q'[u][j].t <= Lat[u]
    BY DEF QueueVals, Positions, Cycle
  <2>1. q'[u][j] \in OpRec BY QStep DEF Pos
  <2>2. CASE q'[u][j] = Entry(u)
    <3>1. Lat[u] \in Nat BY UnitAssumption
    <3> QED BY <2>2, <3>1, InX DEF Entry
  <2>3. CASE \E i \in Pos(u) : Moved(q'[u][j], q[u][i])
    <3>1. PICK i \in Pos(u) : Moved(q'[u][j], q[u][i]) BY <2>3
    <3>2. q[u][i] \in OpRec BY DEF Pos, QueueOK
    <3>3. q[u][i].val \in Positions /\ q[u][i].t <= Lat[u] BY DEF QueueVals
    <3>4. Lat[u] \in Nat BY UnitAssumption
    <3> QED BY <2>1, <3>1, <3>2, <3>3, <3>4 DEF Moved, OpRec
  <2> QED BY <2>2, <2>3, QStep
<1>3. QueueBound'
  <2> SUFFICES ASSUME NEW u \in UnitSet PROVE Len(q'[u]) <= RQ_DEPTH BY DEF QueueBound
  <2>1. Len(q[u]) <= RQ_DEPTH /\ RQ_DEPTH \in Nat BY SizeAssumption DEF QueueBound
  <2>2. Enters(u) => Len(q[u]) < RQ_DEPTH
    <3>1. Enters(u) => ~ sb_full /\ instr.cls = u BY XCases DEF Enters
    <3>2. Len(q[u]) \in Nat BY QStep
    <3> QED BY <2>1, <3>1, <3>2 DEF sb_full
  <2>3. Len(q[u]) \in Nat /\ Gone(in, u) \in 0 .. 1 BY QStep
  <2>4. CASE Enters(u)
    <3>1. Len(q'[u]) = Len(q[u]) - Gone(in, u) + 1 BY <2>4, QStep
    <3> QED BY <2>1, <2>2, <2>3, <2>4, <3>1
  <2>5. CASE ~ Enters(u)
    <3>1. Len(q'[u]) = Len(q[u]) - Gone(in, u) + 0 BY <2>5, QStep
    <3> QED BY <2>1, <2>3, <3>1
  <2> QED BY <2>4, <2>5
<1> QED BY <1>1, <1>2, <1>3

(* A result that leaves is the oldest of its unit. *)
LEMMA Fired ==
  ASSUME PoolInv, NEW in, NEW u \in wb_fire(in)
  PROVE  u \in UnitSet /\ 1 \in Pos(u) /\ Head(q[u]) = q[u][1] /\ Gone(in, u) = 1
<1> USE DEF PoolInv
<1>1. u \in UnitSet /\ q[u] # << >> BY DEF wb_fire, UnitSet, Vld
<1>2. q[u] \in Seq(OpRec) BY <1>1 DEF QueueOK
<1> QED BY <1>1, <1>2 DEF Pos, Gone

(* The result outstanding for register r of slot k arrives. *)
Cleared(in, k, r) ==
  \/ \E u \in wb_fire(in) : q[u][1].w = k /\ q[u][1].rd = r
  \/ \E m \in fin_op(in) : m.cls = "load" /\ m.w = k /\ m.rd = r

(* The instruction in X makes register r of slot k pending. *)
Claimed(in, k, r) == (do_unit \/ ld_inc(in)) /\ x.w = k /\ instr.rd = r /\ r # "x0"

(* A bit of the scoreboard is set when its instruction issues and cleared  *)
(* when the result arrives; it is never set twice.                         *)
LEMMA PendStep ==
  ASSUME PoolInv, NEW in \in Inputs, Cycle(in), NEW k \in Slots
  PROVE  /\ \A r : r \in pend'[k] <=> (r \in pend[k] /\ ~ Cleared(in, k, r)) \/ Claimed(in, k, r)
         /\ \A r : Claimed(in, k, r) => r \notin pend[k] /\ r \in Regs \ {"x0"}
         /\ pend'[k] \in SUBSET (Regs \ {"x0"})
<1> USE DEF PoolInv
<1> DEFINE heads == {Head(q[u]).rd : u \in {u \in wb_fire(in) : Head(q[u]).w = k}}
           lds == {m.rd : m \in {m \in fin_op(in) : m.cls = "load" /\ m.w = k}}
           new == IF (do_unit \/ ld_inc(in)) /\ x.w = k THEN {instr.rd} \ {"x0"} ELSE {}
<1>1. pend'[k] = (pend[k] \ (heads \cup lds)) \cup new BY DEF Cycle, BoardStep
<1>2. \A r : r \in heads \cup lds <=> Cleared(in, k, r) BY Fired DEF Cleared
<1>3. \A r : r \in new <=> Claimed(in, k, r) BY DEF Claimed
<1>4. \A r : Claimed(in, k, r) => r \notin pend[k] /\ r \in Regs \ {"x0"}
  <2>1. do_unit \/ ld_inc(in) => ~ RegHaz BY XCases DEF sb_haz, ld_inc
  <2>2. instr.rd \in Regs BY InX, Decoded DEF instr, Instr
  <2> QED BY <2>1, <2>2 DEF Claimed, RegHaz
<1> HIDE DEF heads, lds, new
<1>5. pend[k] \in SUBSET (Regs \ {"x0"}) BY DEF TypeOK
<1>6. \A r : r \in pend'[k] <=> (r \in pend[k] /\ r \notin heads \cup lds) \/ r \in new BY <1>1
<1>7. \A r : r \in pend'[k] <=> (r \in pend[k] /\ ~ Cleared(in, k, r)) \/ Claimed(in, k, r)
  BY <1>2, <1>3, <1>6
<1>8. pend'[k] \in SUBSET (Regs \ {"x0"}) BY <1>4, <1>5, <1>7
<1> QED BY <1>4, <1>7, <1>8

(* Which loads are in the memory engine after a clock.                     *)
LEMMA LoadSetStep ==
  ASSUME PoolInv, NEW in \in Inputs, Cycle(in)
  PROVE  /\ \A m : m \in Loads' <=> (m \in Loads /\ m \notin fin_op(in)) \/ (ld_inc(in) /\ m = NewOp)
         /\ ld_inc(in) => NewOp.w = x.w /\ NewOp.rd = instr.rd /\ NewOp.val = x.pc /\ NewOp.cls = "load"
BY MemStep DEF Loads, ld_inc, PoolInv

-----------------------------------------------------------------------------
(* A result in flight is the only one for its register. *)
LEMMA PendOneStep ==
  ASSUME PoolInv, NEW in \in Inputs, Cycle(in)
  PROVE  PendOne'
<1> USE DEF PoolInv
<1> DEFINE C == do_unit \/ ld_inc(in)
<1>1. /\ \A u \in UnitSet : \A i \in Pos(u) : q[u][i].rd # "x0" => q[u][i].rd \in pend[q[u][i].w]
      /\ \A m \in Loads : m.rd # "x0" => m.rd \in pend[m.w]
      /\ \A k \in Slots : \A r \in pend[k] :
           \/ \E u \in UnitSet : \E i \in Pos(u) : q[u][i].w = k /\ q[u][i].rd = r
           \/ \E m \in Loads : m.w = k /\ m.rd = r
      /\ \A u, v \in UnitSet : \A i \in Pos(u), j \in Pos(v) :
           Same(q[u][i], q[v][j]) => u = v /\ i = j
      /\ \A m, n \in Loads : Same(m, n) => m = n
      /\ \A u \in UnitSet : \A i \in Pos(u) : \A m \in Loads : ~ Same(q[u][i], m)
  BY DEF PendOne
<1>2. \A u \in UnitSet : \A i \in Pos(u) : q[u][i].w \in Slots
  <2>1. \A u \in UnitSet : \A i \in Pos(u) : q[u][i] \in OpRec BY DEF Pos, QueueOK
  <2> QED BY <2>1 DEF OpRec
<1>3. \A m \in Loads : m.w \in Slots BY DEF Loads, TypeOK
<1>4. \A m \in fin_op(in) : m.cls = "load" => m \in Loads BY DEF fin_op, Loads
<1>5. C => x.w \in Slots /\ (instr.rd # "x0" => instr.rd \notin pend[x.w] /\ Claimed(in, x.w, instr.rd))
  BY InX, PendStep DEF Claimed
(* An operation that stays keeps its bit. *)
<1>6. ASSUME NEW u \in UnitSet, NEW i \in Pos(u), ~ (u \in wb_fire(in) /\ i = 1), q[u][i].rd # "x0"
      PROVE  ~ Cleared(in, q[u][i].w, q[u][i].rd) /\ q[u][i].rd \in pend'[q[u][i].w]
  <2>1. ~ Cleared(in, q[u][i].w, q[u][i].rd)
    <3>1. ASSUME NEW v \in wb_fire(in), q[v][1].w = q[u][i].w, q[v][1].rd = q[u][i].rd PROVE FALSE
      <4>1. v \in UnitSet /\ 1 \in Pos(v) BY Fired
      <4>2. Same(q[v][1], q[u][i]) BY <1>6, <3>1 DEF Same
      <4>3. v = u /\ 1 = i BY <1>1, <4>1, <4>2
      <4> QED BY <1>6, <4>3
    <3>2. ASSUME NEW m \in fin_op(in), m.cls = "load", m.w = q[u][i].w, m.rd = q[u][i].rd PROVE FALSE
      <4>1. Same(q[u][i], m) BY <1>6, <3>2 DEF Same
      <4> QED BY <1>1, <1>4, <3>2, <4>1
    <3> QED BY <3>1, <3>2 DEF Cleared
  <2> QED BY <1>1, <1>2, <1>6, <2>1, PendStep
<1>7. ASSUME NEW m \in Loads, m \notin fin_op(in), m.rd # "x0"
      PROVE  ~ Cleared(in, m.w, m.rd) /\ m.rd \in pend'[m.w]
  <2>1. ~ Cleared(in, m.w, m.rd)
    <3>1. ASSUME NEW v \in wb_fire(in), q[v][1].w = m.w, q[v][1].rd = m.rd PROVE FALSE
      <4>1. v \in UnitSet /\ 1 \in Pos(v) BY Fired
      <4>2. Same(q[v][1], m) BY <1>7, <3>1 DEF Same
      <4> QED BY <1>1, <4>1, <4>2
    <3>2. ASSUME NEW n \in fin_op(in), n.cls = "load", n.w = m.w, n.rd = m.rd PROVE FALSE
      <4>1. Same(n, m) BY <1>7, <3>2 DEF Same
      <4> QED BY <1>1, <1>4, <1>7, <3>2, <4>1
    <3> QED BY <3>1, <3>2 DEF Cleared
  <2> QED BY <1>1, <1>3, <1>7, <2>1, PendStep
(* Where an operation of the next state comes from. *)
<1>8. ASSUME NEW u \in UnitSet, NEW j \in Pos(u)'
      PROVE  \/ /\ do_unit /\ instr.cls = u /\ j = Len(q'[u])
                /\ q'[u][j].w = x.w /\ q'[u][j].rd = instr.rd
             \/ /\ j + Gone(in, u) \in Pos(u) /\ ~ (u \in wb_fire(in) /\ j + Gone(in, u) = 1)
                /\ q'[u][j].w = q[u][j + Gone(in, u)].w /\ q'[u][j].rd = q[u][j + Gone(in, u)].rd
  <2>1. j \in Nat /\ j >= 1 BY QStep DEF Pos
  <2>2. u \in wb_fire(in) => Gone(in, u) = 1 BY DEF Gone
  <2>3. u \in wb_fire(in) => j + Gone(in, u) # 1 BY <2>1, <2>2
  <2>4. \/ do_unit /\ instr.cls = u /\ j = Len(q'[u]) /\ q'[u][j] = Entry(u)
        \/ j + Gone(in, u) \in Pos(u) /\ Moved(q'[u][j], q[u][j + Gone(in, u)])
    BY QStep DEF Enters
  <2> QED BY <2>3, <2>4 DEF Entry, Moved
<1>9. ASSUME NEW m \in Loads'
      PROVE  \/ ld_inc(in) /\ m = NewOp /\ m.w = x.w /\ m.rd = instr.rd
             \/ m \in Loads /\ m \notin fin_op(in)
  BY LoadSetStep
<1>11. \A u \in UnitSet : \A j \in Pos(u)' : q'[u][j].rd # "x0" => q'[u][j].rd \in pend'[q'[u][j].w]
  <2> SUFFICES ASSUME NEW u \in UnitSet, NEW j \in Pos(u)', q'[u][j].rd # "x0"
               PROVE  q'[u][j].rd \in pend'[q'[u][j].w] OBVIOUS
  <2>1. CASE do_unit /\ q'[u][j].w = x.w /\ q'[u][j].rd = instr.rd BY <1>5, <2>1, PendStep
  <2>2. CASE /\ j + Gone(in, u) \in Pos(u) /\ ~ (u \in wb_fire(in) /\ j + Gone(in, u) = 1)
             /\ q'[u][j].w = q[u][j + Gone(in, u)].w /\ q'[u][j].rd = q[u][j + Gone(in, u)].rd
    BY <1>6, <2>2
  <2> QED BY <1>8, <2>1, <2>2
<1>12. \A m \in Loads' : m.rd # "x0" => m.rd \in pend'[m.w]
  <2> SUFFICES ASSUME NEW m \in Loads', m.rd # "x0" PROVE m.rd \in pend'[m.w] OBVIOUS
  <2>1. CASE ld_inc(in) /\ m.w = x.w /\ m.rd = instr.rd BY <1>5, <2>1, PendStep
  <2>2. CASE m \in Loads /\ m \notin fin_op(in) BY <1>7, <2>2
  <2> QED BY <1>9, <2>1, <2>2
<1>13. \A k \in Slots : \A r \in pend'[k] :
           \/ \E u \in UnitSet : \E i \in Pos(u)' : q'[u][i].w = k /\ q'[u][i].rd = r
           \/ \E m \in Loads' : m.w = k /\ m.rd = r
  <2> SUFFICES ASSUME NEW k \in Slots, NEW r \in pend'[k]
               PROVE \/ \E u \in UnitSet : \E i \in Pos(u)' : q'[u][i].w = k /\ q'[u][i].rd = r
                     \/ \E m \in Loads' : m.w = k /\ m.rd = r
    OBVIOUS
  <2>1. CASE Claimed(in, k, r)
    <3>1. CASE do_unit
      <4>1. instr.cls \in UnitSet /\ Enters(instr.cls) BY <3>1, XCases DEF Enters
      <4>2. PICK u \in UnitSet : \E i \in Pos(u)' : q'[u][i] = Entry(u) BY <4>1, QStep
      <4> QED BY <2>1, <4>2 DEF Claimed, Entry
    <3>2. CASE ld_inc(in) BY <2>1, <3>2, LoadSetStep DEF Claimed
    <3> QED BY <2>1, <3>1, <3>2 DEF Claimed
  <2>2. CASE r \in pend[k] /\ ~ Cleared(in, k, r)
    <3>1. CASE \E u \in UnitSet : \E i \in Pos(u) : q[u][i].w = k /\ q[u][i].rd = r
      <4>1. PICK u \in UnitSet : \E i \in Pos(u) : q[u][i].w = k /\ q[u][i].rd = r BY <3>1
      <4>0. PICK i \in Pos(u) : q[u][i].w = k /\ q[u][i].rd = r BY <4>1
      <4>2. ~ (u \in wb_fire(in) /\ i = 1) BY <2>2, <4>0 DEF Cleared
      <4>3. i - Gone(in, u) \in Pos(u)' /\ Moved(q'[u][i - Gone(in, u)], q[u][i]) BY <4>2, QStep
      <4> QED BY <4>0, <4>3 DEF Moved
    <3>2. CASE \E m \in Loads : m.w = k /\ m.rd = r
      <4>1. PICK m \in Loads : m.w = k /\ m.rd = r BY <3>2
      <4>2. m \notin fin_op(in) BY <2>2, <4>1 DEF Cleared, Loads
      <4> QED BY <4>1, <4>2, LoadSetStep
    <3> QED BY <1>1, <2>2, <3>1, <3>2
  <2> QED BY <2>1, <2>2, PendStep
(* A new operation shares its register with no operation that was there. *)
<1>14. ASSUME C, NEW u \in UnitSet, NEW i \in Pos(u) PROVE ~ (q[u][i].w = x.w /\ q[u][i].rd = instr.rd /\ instr.rd # "x0")
  BY <1>1, <1>5, <1>14
<1>15. ASSUME C, NEW m \in Loads PROVE ~ (m.w = x.w /\ m.rd = instr.rd /\ instr.rd # "x0")
  BY <1>1, <1>5, <1>15
<1>16. \A u, v \in UnitSet : \A i \in Pos(u)', j \in Pos(v)' :
           Same(q'[u][i], q'[v][j]) => u = v /\ i = j
  <2> SUFFICES ASSUME NEW u \in UnitSet, NEW v \in UnitSet, NEW i \in Pos(u)', NEW j \in Pos(v)',
                      Same(q'[u][i], q'[v][j])
               PROVE  u = v /\ i = j OBVIOUS
  <2> DEFINE NewI == do_unit /\ instr.cls = u /\ i = Len(q'[u]) /\ q'[u][i].w = x.w /\ q'[u][i].rd = instr.rd
             NewJ == do_unit /\ instr.cls = v /\ j = Len(q'[v]) /\ q'[v][j].w = x.w /\ q'[v][j].rd = instr.rd
             OldI == i + Gone(in, u) \in Pos(u) /\ q'[u][i].w = q[u][i + Gone(in, u)].w /\ q'[u][i].rd = q[u][i + Gone(in, u)].rd
             OldJ == j + Gone(in, v) \in Pos(v) /\ q'[v][j].w = q[v][j + Gone(in, v)].w /\ q'[v][j].rd = q[v][j + Gone(in, v)].rd
  <2>1. (NewI \/ OldI) /\ (NewJ \/ OldJ) BY <1>8
  <2>2. CASE NewI /\ NewJ BY <2>2
  <2>3. CASE NewI /\ OldJ BY <1>14, <2>3 DEF Same
  <2>4. CASE OldI /\ NewJ BY <1>14, <2>4 DEF Same
  <2>5. CASE OldI /\ OldJ
    <3>1. Same(q[u][i + Gone(in, u)], q[v][j + Gone(in, v)]) BY <2>5 DEF Same
    <3>2. u = v /\ i + Gone(in, u) = j + Gone(in, v) BY <1>1, <2>5, <3>1
    <3>3. i \in Int /\ j \in Int /\ Gone(in, u) \in Int BY QStep DEF Pos
    <3>4. i + Gone(in, u) = j + Gone(in, u) BY <3>2
    <3>5. \A a, d, c \in Int : a + c = d + c => a = d OBVIOUS
    <3>6. i = j BY <3>3, <3>4, <3>5, Zenon
    <3> QED BY <3>2, <3>6
  <2> QED BY <2>1, <2>2, <2>3, <2>4, <2>5
<1>17. \A m, n \in Loads' : Same(m, n) => m = n
  <2> SUFFICES ASSUME NEW m \in Loads', NEW n \in Loads', Same(m, n) PROVE m = n OBVIOUS
  <2> QED BY <1>1, <1>9, <1>15 DEF Same
<1>18. \A u \in UnitSet : \A i \in Pos(u)' : \A m \in Loads' : ~ Same(q'[u][i], m)
  <2> SUFFICES ASSUME NEW u \in UnitSet, NEW i \in Pos(u)', NEW m \in Loads', Same(q'[u][i], m) PROVE FALSE
    OBVIOUS
  <2>1. ~ (do_unit /\ ld_inc(in)) BY XCases DEF Plain
  <2>2. CASE do_unit /\ q'[u][i].w = x.w /\ q'[u][i].rd = instr.rd
    BY <1>9, <1>15, <2>1, <2>2 DEF Same
  <2>3. CASE i + Gone(in, u) \in Pos(u) /\ q'[u][i].w = q[u][i + Gone(in, u)].w /\ q'[u][i].rd = q[u][i + Gone(in, u)].rd
    <3>1. CASE ld_inc(in) /\ m.w = x.w /\ m.rd = instr.rd BY <1>14, <2>3, <3>1 DEF Same
    <3>2. CASE m \in Loads
      <4>1. Same(q[u][i + Gone(in, u)], m) BY <2>3 DEF Same
      <4> QED BY <1>1, <2>3, <3>2, <4>1
    <3> QED BY <1>9, <3>1, <3>2
  <2> QED BY <1>8, <2>2, <2>3
<1> QED BY <1>11, <1>12, <1>13, <1>16, <1>17, <1>18 DEF PendOne, Same

-----------------------------------------------------------------------------
(* A slot without outstanding loads has no load in the memory engine. *)
LEMMA NoLoads ==
  ASSUME PoolInv, NEW k \in Slots
  PROVE  ld_out[k] = 0 <=> LoadsOf(k) = {}
<1>1. IsFiniteSet(LoadsOf(k)) BY FS_Subset DEF PoolInv, MemOK, LoadsOf, Loads
<1> QED BY <1>1, FS_EmptySet DEF PoolInv, LdCount

(* A slot that owes nothing and issues nothing goes on owing nothing. *)
LEMMA CleanStep ==
  ASSUME PoolInv, NEW in \in Inputs, Cycle(in), NEW k \in Slots,
         ~ (x.w = k /\ (do_unit \/ ld_inc(in)))
  PROVE  /\ pend[k] = {} => pend'[k] = {}
         /\ ld_out[k] = 0 => ld_out'[k] = 0
         /\ LoadsOf(k)' \subseteq LoadsOf(k) /\ pend'[k] \subseteq pend[k]
<1>1. pend'[k] \subseteq pend[k] BY PendStep DEF Claimed
<1>2. LoadsOf(k)' \subseteq LoadsOf(k) BY LoadsStep
<1>3. ASSUME ld_out[k] = 0 PROVE ld_out'[k] = 0
  <2>1. LoadsOf(k)' = {} BY <1>2, <1>3, NoLoads
  <2> QED BY <2>1, LoadsStep, FS_EmptySet
<1> QED BY <1>1, <1>2, <1>3

(* ecall waits for results and loads, bar for loads: what leaves the       *)
(* running state owes nothing.                                             *)
LEMMA CleanInvStep ==
  ASSUME PoolInv, NEW in \in Inputs, Cycle(in)
  PROVE  FreeClean' /\ BarClean' /\ LdCount'
<1> USE DEF PoolInv
<1>1. do_ecall => ~ EcallHaz /\ ~ OrderHaz /\ instr.cls = "ecall" /\ x.w \in Slots BY XCases, InX DEF sb_haz
<1>2. do_ecall => pend[x.w] = {} /\ ld_out[x.w] = 0 BY <1>1 DEF EcallHaz, OrderHaz
<1>3. do_bar => ~ OrderHaz /\ instr.cls = "bar" /\ x.w \in Slots BY XCases, InX DEF sb_haz
<1>4. do_bar => ld_out[x.w] = 0 BY <1>3 DEF OrderHaz
<1>5. (do_bar \/ do_ecall) => ~ do_unit /\ ~ ld_inc(in) BY XCases DEF Plain
<1>6. x.v => wstate[x.w] = "W_RUN" BY InX
<1>7. do_unit \/ ld_inc(in) => x.v BY XCases DEF ld_inc
<1>8. FreeClean'
  <2> SUFFICES ASSUME NEW k \in Slots, wstate'[k] \in FreeState PROVE pend'[k] = {} /\ ld_out'[k] = 0
    BY DEF FreeClean
  <2>1. \/ wstate[k] \in FreeState \/ (wstate[k] = "W_RUN" /\ x.w = k /\ do_ecall)
    BY StateStep DEF FreeState, TypeOK, WStates
  <2>2. pend[k] = {} /\ ld_out[k] = 0 BY <1>2, <2>1 DEF FreeClean
  <2>3. ~ (x.w = k /\ (do_unit \/ ld_inc(in))) BY <1>5, <1>6, <1>7, <2>1 DEF FreeState
  <2> QED BY <2>2, <2>3, CleanStep
<1>9. BarClean'
  <2> SUFFICES ASSUME NEW k \in Slots, wstate'[k] = "W_BAR" PROVE ld_out'[k] = 0
    BY DEF BarClean
  <2>1. \/ wstate[k] = "W_BAR" \/ (wstate[k] = "W_RUN" /\ x.w = k /\ do_bar)
    BY StateStep DEF FreeState, TypeOK, WStates
  <2>2. ld_out[k] = 0 BY <1>4, <2>1 DEF BarClean
  <2>3. ~ (x.w = k /\ (do_unit \/ ld_inc(in))) BY <1>5, <1>6, <1>7, <2>1
  <2> QED BY <2>2, <2>3, CleanStep
<1>10. LdCount' BY LoadsStep DEF LdCount
<1> QED BY <1>8, <1>9, <1>10

(* The divide/sqrt unit. *)
LEMMA SfuStep ==
  ASSUME PoolInv, NEW in \in Inputs, Cycle(in)
  PROVE  /\ do_sfu => /\ sfu.st = "SFU_IDLE" /\ sfu'.st = "SFU_RUN" /\ sfu'.w = x.w
                      /\ sfu'.rd = instr.rd /\ sfu'.val = x.pc
         /\ ~ do_sfu => /\ sfu'.w = sfu.w /\ sfu'.rd = sfu.rd /\ sfu'.val = sfu.val
                        /\ sfu'.st # "SFU_IDLE" <=> (sfu.st # "SFU_IDLE" /\ ~ sfu_wb_fire(in))
         /\ sfu' \in [st : {"SFU_IDLE", "SFU_RUN", "SFU_WB"}, w : Slots, rd : Regs,
                      val : 0 .. Len(kernel)]
<1> USE DEF PoolInv
<1> DEFINE S == [st : {"SFU_IDLE", "SFU_RUN", "SFU_WB"}, w : Slots, rd : Regs, val : 0 .. Len(kernel)]
<1>1. sfu \in S /\ x.w \in Slots /\ x.pc \in Positions /\ instr.rd \in Regs BY InX, Decoded DEF TypeOK, instr, Instr
<1>2. x.pc \in 0 .. Len(kernel) BY <1>1 DEF Positions
<1>3. in.sdone => sfu.st = "SFU_RUN" BY DEF Inputs
<1>4. sfu' = IF do_sfu THEN [st |-> "SFU_RUN", w |-> x.w, rd |-> instr.rd, val |-> x.pc]
            ELSE IF in.sdone THEN [sfu EXCEPT !.st = "SFU_WB"]
            ELSE IF sfu_wb_fire(in) THEN [sfu EXCEPT !.st = "SFU_IDLE"]
            ELSE sfu
  BY DEF Cycle, UnitStep
<1>5. do_sfu => sfu.st = "SFU_IDLE" BY DEF do_sfu
<1>6. sfu_wb_fire(in) => sfu.st = "SFU_WB" BY DEF sfu_wb_fire
<1>7. CASE do_sfu BY <1>1, <1>2, <1>4, <1>5, <1>7
<1>8. CASE ~ do_sfu BY <1>1, <1>3, <1>4, <1>6, <1>8
<1> QED BY <1>7, <1>8

(* A warp that parks on the memory engine has nothing else in it. *)
LEMMA ParksAlone ==
  ASSUME PoolInv, NEW in \in Inputs, parks_mem(in)
  PROVE  \A m \in mem : m.w # x.w
<1> USE DEF PoolInv
<1>1. x.w \in Slots /\ wstate[x.w] = "W_RUN" /\ ~ OrderHaz /\ instr.cls \in {"store", "amo"}
  BY InX, XCases DEF sb_haz, parks_mem
<1>2. LoadsOf(x.w) = {} BY <1>1, NoLoads DEF OrderHaz
<1> QED BY <1>1, <1>2 DEF EngineOwns, LoadsOf, Loads

(* The operation a parked warp waits for is its only one. *)
LEMMA ParkedOp ==
  ASSUME PoolInv, NEW in \in Inputs, NEW m \in mem, m.cls # "load"
  PROVE  /\ m.w \in Slots /\ wstate[m.w] = "W_MEM"
         /\ \A n \in mem : n.w = m.w => n = m
         /\ me_rs_st(in, m.w) <=> m \in fin_op(in)
<1> USE DEF PoolInv
<1>1. m.w \in Slots BY DEF TypeOK
<1>2. wstate[m.w] = "W_MEM" BY <1>1 DEF EngineOwns
<1>3. PICK o \in mem : {n \in mem : n.w = m.w} = {o} BY <1>1, <1>2 DEF EngineOwns
<1>4. \A n \in mem : n.w = m.w => n = m BY <1>3
<1> QED BY <1>1, <1>2, <1>4, Finished DEF me_rs_st

(* A warp parks on the engine that takes its operation and is resumed by   *)
(* that engine only.                                                       *)
LEMMA EngineStep ==
  ASSUME PoolInv, NEW in \in Inputs, Cycle(in)
  PROVE  EngineOwns'
<1> USE DEF PoolInv
<1> SUFFICES ASSUME NEW k \in Slots
             PROVE  /\ wstate'[k] = "W_MEM" <=> \E m \in mem' : m.w = k /\ m.cls # "load"
                    /\ wstate'[k] = "W_MEM" => \E m \in mem' : {n \in mem' : n.w = k} = {m}
                    /\ wstate'[k] = "W_SFU" <=> sfu'.st # "SFU_IDLE" /\ sfu'.w = k
  BY DEF EngineOwns
<1>1. wstate'[k] = "W_SFU" <=> sfu'.st # "SFU_IDLE" /\ sfu'.w = k
  <2>1. wstate'[k] = "W_SFU" <=> (wstate[k] = "W_SFU" /\ ~ sfu_wb_fire(in)) \/ (do_sfu /\ x.w = k)
    <3>1. do_sfu /\ x.w = k => wstate[k] = "W_RUN" BY XCases, InX
    <3>2. do_sfu => ~ do_ecall /\ ~ do_bar BY XCases
    <3>3. wstate[k] \in WStates BY DEF TypeOK
    <3>4. CASE wstate[k] = "W_SFU" BY <3>1, <3>4, StateStep
    <3>5. CASE wstate[k] = "W_RUN" BY <3>2, <3>5, StateStep
    <3>6. CASE wstate[k] \in {"W_MEM", "W_BAR"} \cup FreeState BY <3>1, <3>6, StateStep DEF FreeState
    <3> QED BY <3>3, <3>4, <3>5, <3>6 DEF WStates, FreeState
  <2>2. wstate[k] = "W_SFU" <=> sfu.st # "SFU_IDLE" /\ sfu.w = k BY DEF EngineOwns
  <2> QED BY <2>1, <2>2, SfuStep
<1>2. CASE wstate'[k] = "W_MEM"
  <2>1. \/ wstate[k] = "W_MEM" /\ ~ me_rs_st(in, k)
        \/ parks_mem(in) /\ x.w = k
    BY <1>2, StateStep DEF TypeOK, WStates, FreeState
  <2>2. CASE wstate[k] = "W_MEM" /\ ~ me_rs_st(in, k)
    <3>1. PICK m \in mem : m.w = k /\ m.cls # "load" BY <2>2 DEF EngineOwns
    <3>2. \A n \in mem : n.w = k => n = m BY <3>1, ParkedOp
    <3>3. m \notin fin_op(in) BY <2>2, <3>1, ParkedOp
    <3>4. ~ (do_mem(in) /\ x.w = k) BY <2>2, XCases, InX
    <3>5. \A n \in mem' : n.w = k => n = m BY <3>2, <3>4, MemStep
    <3>6. m \in mem' BY <3>3, MemStep
    <3>7. {n \in mem' : n.w = k} = {m} BY <3>1, <3>5, <3>6
    <3> QED BY <1>2, <3>1, <3>6, <3>7, <1>1
  <2>3. CASE parks_mem(in) /\ x.w = k
    <3>1. NewOp \in mem' /\ NewOp.w = k /\ NewOp.cls # "load" BY <2>3, MemStep DEF parks_mem
    <3>2. \A n \in mem' : n.w = k => n = NewOp BY <2>3, MemStep, ParksAlone
    <3>3. {n \in mem' : n.w = k} = {NewOp} BY <3>1, <3>2
    <3> QED BY <1>2, <3>1, <3>3, <1>1
  <2> QED BY <2>1, <2>2, <2>3
<1>3. CASE wstate'[k] # "W_MEM"
  <2> SUFFICES ASSUME NEW m \in mem', m.w = k, m.cls # "load" PROVE FALSE BY <1>1, <1>3
  <2>1. CASE m \in mem /\ m \notin fin_op(in)
    <3>1. wstate[k] = "W_MEM" /\ ~ me_rs_st(in, k) BY <2>1, ParkedOp
    <3> QED BY <1>3, <3>1, StateStep
  <2>2. CASE do_mem(in) /\ m = NewOp
    <3>1. parks_mem(in) /\ x.w = k /\ wstate[k] = "W_RUN" BY <2>2, MemStep, InX, XCases DEF parks_mem
    <3>2. ~ do_ecall /\ ~ do_bar /\ ~ do_sfu BY <3>1, XCases
    <3> QED BY <1>3, <3>1, <3>2, StateStep
  <2> QED BY <2>1, <2>2, MemStep
<1> QED BY <1>2, <1>3

-----------------------------------------------------------------------------
(* A parked warp waits at its instruction, which is the engine's. *)
LEMMA ParkedStep ==
  ASSUME PoolInv, NEW in \in Inputs, Cycle(in)
  PROVE  Parked'
<1> USE DEF PoolInv
<1>0. kernel' = kernel BY DEF Cycle
<1>1. issue => instr.rd \notin pend[x.w] /\ x.w \in Slots /\ x.pc = pc[x.w] /\ wstate[x.w] = "W_RUN" /\ x.v
  BY InX, XCases DEF sb_haz, RegHaz
<1>2. x.v /\ wstate[x.w] = "W_RUN" => ~ (b.v /\ b.w = x.w) BY DEF CaptureFresh
(* The parked state holds at the end of the clock in which the warp parks. *)
<1>3. ASSUME parks_mem(in) \/ do_sfu
      PROVE  pc'[x.w] = x.pc /\ instr.rd \notin pend'[x.w]
  <2>1. issue /\ ~ do_unit /\ ~ ld_inc(in) /\ ~ do_bar /\ ~ do_alu(in) /\ instr.cls # "pop"
    BY <1>3, XCases DEF parks_mem, Plain, do_alu
  <2>2. ~ pc_step(in) BY <2>1 DEF pc_step
  <2>3. pc'[x.w] = x.pc BY <1>1, <1>2, <2>1, <2>2, PcStep
  <2>4. pend'[x.w] \subseteq pend[x.w] BY <1>1, <2>1, CleanStep
  <2> QED BY <1>1, <2>1, <2>3, <2>4
(* It goes on holding while the engine works. *)
<1>4. ASSUME NEW k \in Slots, wstate[k] \in {"W_MEM", "W_SFU"}
      PROVE  pend'[k] \subseteq pend[k]
  <2>1. ~ (x.w = k /\ (do_unit \/ ld_inc(in))) BY <1>1, <1>4, XCases DEF ld_inc
  <2> QED BY <2>1, CleanStep
<1>5. ASSUME NEW m \in mem', m.cls # "load"
      PROVE  /\ m.val = pc'[m.w] /\ kernel[pc'[m.w]].cls = m.cls /\ kernel[pc'[m.w]].rd = m.rd
             /\ m.rd \notin pend'[m.w]
  <2>1. CASE m \in mem /\ m \notin fin_op(in)
    <3>1. m.w \in Slots /\ wstate[m.w] = "W_MEM" /\ ~ me_rs_st(in, m.w) BY <1>5, <2>1, ParkedOp
    <3>2. pc'[m.w] = pc[m.w] BY <3>1, PcStep
    <3>3. IsAt(pc[m.w], m, m.cls) BY <1>5, <2>1 DEF Parked
    <3> QED BY <1>4, <3>1, <3>2, <3>3 DEF IsAt
  <2>2. CASE do_mem(in) /\ m = NewOp
    <3>1. m.w = x.w /\ m.cls = instr.cls /\ m.rd = instr.rd /\ m.val = x.pc BY <2>2, MemStep
    <3>2. parks_mem(in) BY <1>5, <2>2, <3>1 DEF parks_mem
    <3> QED BY <1>3, <3>1, <3>2 DEF instr
  <2> QED BY <2>1, <2>2, MemStep
<1>6. ASSUME sfu'.st # "SFU_IDLE"
      PROVE  /\ sfu'.val = pc'[sfu'.w] /\ kernel[pc'[sfu'.w]].cls = "sfu"
             /\ kernel[pc'[sfu'.w]].rd = sfu'.rd /\ sfu'.rd \notin pend'[sfu'.w]
  <2>1. CASE do_sfu
    <3>1. sfu'.w = x.w /\ sfu'.rd = instr.rd /\ sfu'.val = x.pc BY <2>1, SfuStep
    <3>2. instr.cls = "sfu" BY <2>1, XCases
    <3> QED BY <1>3, <2>1, <3>1, <3>2 DEF instr
  <2>2. CASE ~ do_sfu
    <3>1. sfu'.w = sfu.w /\ sfu'.rd = sfu.rd /\ sfu'.val = sfu.val /\ sfu.st # "SFU_IDLE" /\ ~ sfu_wb_fire(in)
      BY <1>6, <2>2, SfuStep
    <3>2. sfu.w \in Slots /\ wstate[sfu.w] = "W_SFU" BY <3>1 DEF EngineOwns, TypeOK
    <3>3. pc'[sfu.w] = pc[sfu.w] BY <3>1, <3>2, PcStep
    <3>4. IsAt(pc[sfu.w], sfu, "sfu") BY <3>1 DEF Parked
    <3> QED BY <1>4, <3>1, <3>2, <3>3, <3>4 DEF IsAt
  <2> QED BY <2>1, <2>2
<1>7. b'.v => b'.fall = pc'[b'.w] + 1 /\ kernel[pc'[b'.w]].cls = "ctl"
  <2> SUFFICES ASSUME b'.v PROVE b'.fall = pc'[b'.w] + 1 /\ kernel[pc'[b'.w]].cls = "ctl" OBVIOUS
  <2>1. do_ctl(in) BY DEF Cycle, PipeStep, TypeOK
  <2>2. b'.w = x.w /\ b'.fall = x.pc + 1 BY <2>1 DEF Cycle, PipeStep
  <2> QED BY <2>1, <2>2, CtlStep DEF instr
<1> QED BY <1>0, <1>5, <1>6, <1>7 DEF Parked, IsAt

(* An operation that does not leave stays in its unit's queue. *)
LEMMA Stays ==
  ASSUME PoolInv, NEW in \in Inputs, Cycle(in), NEW u \in UnitSet, NEW i \in Pos(u),
         ~ (u \in wb_fire(in) /\ i = 1)
  PROVE  \E j \in Pos(u)' : q'[u][j].w = q[u][i].w /\ q'[u][j].rd = q[u][i].rd /\ q'[u][j].val = q[u][i].val
BY QStep DEF Moved

(* A warp that goes to sleep has its waker in flight, and it stays in      *)
(* flight until the event that wakes the warp.                             *)
LEMMA SleepStep ==
  ASSUME PoolInv, NEW in \in Inputs, Cycle(in)
  PROVE  Sleepers'
<1> USE DEF PoolInv
<1>1. /\ sb_wait'  = (sb_wait \ sb_wake(in)) \cup (IF sb_stall /\ StallSleeps(in) THEN {x.w} ELSE {})
      /\ sb_wfull' = IF ~sb_stall THEN sb_wfull
                     ELSE IF sb_haz THEN sb_wfull \ {x.w} ELSE sb_wfull \cup {x.w}
  BY DEF Cycle, BoardStep
<1>2. sb_stall => x.v /\ ~ issue BY DEF sb_stall, exec, issue
<1>3. x.v => x.w \in Slots /\ wstate[x.w] = "W_RUN" /\ x.w \notin sb_wait BY InX
(* What a sleeper waits for stays, when no event comes. *)
<1>4. ASSUME ~ sb_any(in), \E u \in UnitSet : Pos(u) # {} PROVE \E u \in UnitSet : Pos(u)' # {}
  <2>1. PICK u \in UnitSet : Pos(u) # {} BY <1>4
  <2>2. PICK i \in Pos(u) : TRUE BY <2>1
  <2>3. ~ (u \in wb_fire(in) /\ i = 1) BY <1>4 DEF sb_any
  <2> QED BY <2>3, Stays
<1>5. ASSUME NEW k \in Slots, ~ sb_own(in, k),
             (\E u \in UnitSet : \E i \in Pos(u) : q[u][i].w = k) \/ LoadsOf(k) # {}
      PROVE  (\E u \in UnitSet : \E i \in Pos(u)' : q'[u][i].w = k) \/ LoadsOf(k)' # {}
  <2>1. CASE \E u \in UnitSet : \E i \in Pos(u) : q[u][i].w = k
    <3>1. PICK u \in UnitSet : \E i \in Pos(u) : q[u][i].w = k BY <2>1
    <3>2. PICK i \in Pos(u) : q[u][i].w = k BY <3>1
    <3>3. ~ (u \in wb_fire(in) /\ i = 1) BY <1>5, <3>2, Fired DEF sb_own
    <3> QED BY <3>2, <3>3, Stays
  <2>2. CASE LoadsOf(k) # {}
    <3>1. ~ me_rs_ld(in, k) BY <1>5 DEF sb_own
    <3> QED BY <2>2, <3>1, LoadsStep
  <2> QED BY <1>5, <2>1, <2>2
<1>6. ASSUME NEW k \in sb_wait, k \notin sb_wake(in)
      PROVE  /\ wstate'[k] = "W_RUN"
             /\ IF k \in sb_wfull' THEN \E u \in UnitSet : Pos(u)' # {}
                ELSE (\E u \in UnitSet : \E i \in Pos(u)' : q'[u][i].w = k) \/ LoadsOf(k)' # {}
  <2>1. k \in Slots BY DEF TypeOK
  <2>2. wstate[k] = "W_RUN" BY DEF Sleepers
  <2>3. ~ (x.v /\ x.w = k) BY <1>3
  <2>4. wstate'[k] = "W_RUN" BY <2>1, <2>2, <2>3, StateStep, XCases DEF parks_mem
  <2>5. k \in sb_wfull' <=> k \in sb_wfull BY <1>1, <1>2, <2>3
  <2>6. CASE k \in sb_wfull
    <3>1. ~ sb_any(in) BY <1>6, <2>1, <2>6 DEF sb_wake
    <3>2. \E u \in UnitSet : Pos(u) # {} BY <2>6 DEF Sleepers
    <3> QED BY <1>4, <2>4, <2>5, <2>6, <3>1, <3>2
  <2>7. CASE k \notin sb_wfull
    <3>1. ~ sb_own(in, k) BY <1>6, <2>1, <2>7 DEF sb_wake
    <3>2. (\E u \in UnitSet : \E i \in Pos(u) : q[u][i].w = k) \/ LoadsOf(k) # {}
      BY <2>7 DEF Sleepers
    <3> QED BY <1>5, <2>1, <2>4, <2>5, <2>7, <3>1, <3>2
  <2> QED BY <2>6, <2>7
<1>7. ASSUME NEW k \in Slots, k = x.w, sb_stall, StallSleeps(in)
      PROVE  /\ wstate'[k] = "W_RUN"
             /\ IF k \in sb_wfull' THEN \E u \in UnitSet : Pos(u)' # {}
                ELSE (\E u \in UnitSet : \E i \in Pos(u)' : q'[u][i].w = k) \/ LoadsOf(k)' # {}
  <2>1. wstate[k] = "W_RUN" BY <1>2, <1>3, <1>7
  <2>2. wstate'[k] = "W_RUN" BY <1>2, <1>7, <2>1, StateStep, XCases DEF parks_mem
  <2>3. CASE sb_haz
    <3>1. ~ sb_own(in, k) /\ k \notin sb_wfull' BY <1>1, <1>7, <2>3 DEF StallSleeps
    <3>2. LD_MAX \in Nat \ {0} /\ ld_out[k] \in Nat BY <2>1, SizeAssumption DEF TypeOK
    <3>3. pend[k] # {} \/ ld_out[k] # 0 BY <1>7, <2>3, <3>2 DEF sb_haz, RegHaz, EcallHaz, LoadHaz, OrderHaz
    <3>4. (\E u \in UnitSet : \E i \in Pos(u) : q[u][i].w = k) \/ LoadsOf(k) # {}
      <4>1. CASE pend[k] # {}
        <5>1. PICK r \in pend[k] : TRUE BY <4>1
        <5>2. \/ \E u \in UnitSet : \E i \in Pos(u) : q[u][i].w = k /\ q[u][i].rd = r
              \/ \E m \in Loads : m.w = k /\ m.rd = r
          BY <2>1 DEF PendOne
        <5> QED BY <5>2 DEF LoadsOf
      <4>2. CASE ld_out[k] # 0 BY <2>1, <4>2, NoLoads
      <4> QED BY <3>3, <4>1, <4>2
    <3> QED BY <1>5, <2>1, <2>2, <3>1, <3>4
  <2>4. CASE ~ sb_haz
    <3>1. ~ sb_any(in) /\ k \in sb_wfull' /\ sb_full BY <1>1, <1>7, <2>4 DEF StallSleeps, sb_stall
    <3>2. RQ_DEPTH \in Nat \ {0} BY SizeAssumption
    <3>3. instr.cls \in UnitSet /\ Len(q[instr.cls]) >= RQ_DEPTH /\ Len(q[instr.cls]) \in Nat
      BY <3>1, QStep DEF sb_full
    <3>4. 1 \in Pos(instr.cls) BY <3>2, <3>3 DEF Pos
    <3> QED BY <1>4, <2>2, <3>1, <3>3, <3>4
  <2> QED BY <2>3, <2>4
<1> SUFFICES ASSUME NEW k \in sb_wait'
             PROVE  /\ wstate'[k] = "W_RUN"
                    /\ IF k \in sb_wfull' THEN \E u \in UnitSet : Pos(u)' # {}
                       ELSE (\E u \in UnitSet : \E i \in Pos(u)' : q'[u][i].w = k) \/ LoadsOf(k)' # {}
  BY DEF Sleepers
<1>8. (k \in sb_wait /\ k \notin sb_wake(in)) \/ (sb_stall /\ StallSleeps(in) /\ k = x.w) BY <1>1
<1> QED BY <1>2, <1>3, <1>6, <1>7, <1>8

(* The pool stops only when nothing is left of the grid.                   *)
LEMMA RestStep ==
  ASSUME PoolInv, NEW in \in Inputs, Cycle(in)
  PROVE  Resting'
<1> USE DEF PoolInv
<1> SUFFICES ASSUME ~ any_busy PROVE (\A k \in Slots : wstate'[k] \in FreeState) /\ mem' = {}
  BY DEF Resting, Cycle
<1>1. \A k \in Slots : wstate[k] \in FreeState BY DEF any_busy, TypeOK, WStates, FreeState
<1>2. mem = {} /\ grid.next_wid = grid.total_warps BY DEF any_busy
<1>3. spawn_en = {} BY <1>2 DEF spawn_en, spawning, TypeOK
<1>4. ~ x.v BY <1>1, InX DEF FreeState
<1>5. ~ do_mem(in) BY <1>4, XCases
<1> QED BY <1>1, <1>2, <1>3, <1>5, MemStep, StateStep

-----------------------------------------------------------------------------
(* The spawner hands out warps of the grid only. *)
LEMMA SpawnTypes ==
  ASSUME TypeOK, SpawnStep
  PROVE  /\ grid' \in [total_warps : 0 .. MaxWarps, next_wid : 0 .. MaxWarps, blk : Blocks]
         /\ wid' \in [Slots -> 0 .. MaxWarps]
<1>1. /\ grid.total_warps \in 0 .. MaxWarps /\ grid.next_wid \in 0 .. MaxWarps /\ grid.blk \in Blocks
      /\ grid.blk \in Nat \ {0} /\ MaxWarps \in Nat /\ NW \in Nat
  <2>1. Blocks \subseteq 1 .. NW BY DEF Blocks
  <2>2. grid \in [total_warps : 0 .. MaxWarps, next_wid : 0 .. MaxWarps, blk : Blocks] BY DEF TypeOK
  <2>3. grid.blk \in 1 .. NW BY <2>1, <2>2
  <2> QED BY <2>2, <2>3, NWAssumption, SizeAssumption
<1>2. spawning => NextWid \in 0 .. MaxWarps BY <1>1 DEF spawning, NextWid
<1>3. grid' \in [total_warps : 0 .. MaxWarps, next_wid : 0 .. MaxWarps, blk : Blocks]
  BY <1>1, <1>2 DEF SpawnStep, TypeOK
<1>4. ASSUME NEW k \in spawn_en PROVE SpawnWid(k) \in 0 .. MaxWarps
  <2>1. k \in Nat /\ SpawnWid(k) < grid.total_warps BY <1>1 DEF spawn_en, Slots
  <2>2. k % grid.blk \in 0 .. grid.blk - 1 BY <1>1, <2>1, Divide
  <2> QED BY <1>1, <2>1, <2>2 DEF SpawnWid
<1>5. wid' \in [Slots -> 0 .. MaxWarps] BY <1>4 DEF SpawnStep, TypeOK
<1> QED BY <1>3, <1>5

(* What is written to a register is the position of an instruction. *)
LEMMA WrittenTypes ==
  ASSUME PoolInv, NEW in \in Inputs, RegStep(in)
  PROVE  rf' \in [Slots -> [Regs -> 0 .. Len(kernel)]]
<1> USE DEF PoolInv
<1> DEFINE V == 0 .. Len(kernel)
<1>1. \A u \in wb_fire(in) : Head(q[u]).val \in V BY Fired DEF QueueVals, Positions
<1>2. \A m \in fin_op(in) : m.val \in V
  <2>1. \A m \in mem : m.val \in 1 .. Len(kernel) BY DEF TypeOK
  <2> QED BY <2>1 DEF fin_op
<1>3. sfu.val \in V /\ x.pc \in V BY DEF TypeOK
<1>4. ASSUME NEW o \in Writes(in) PROVE o.val \in V
  BY <1>1, <1>2, <1>3 DEF Writes
<1>5. 0 \in V BY InX, Decoded
<1>6. ASSUME NEW k \in Slots, NEW r \in Regs PROVE rf'[k][r] \in V
  <2> DEFINE new == {o \in Writes(in) : o.w = k /\ o.rd = r /\ r # "x0"}
  <2>1. rf'[k][r] = IF new # {} THEN (CHOOSE o \in new : TRUE).val
                    ELSE IF k \in spawn_en THEN 0 ELSE rf[k][r]
    BY DEF RegStep
  <2>2. new # {} => (CHOOSE o \in new : TRUE) \in new OBVIOUS
  <2>3. rf[k][r] \in V BY DEF TypeOK
  <2>4. new \subseteq Writes(in) OBVIOUS
  <2> HIDE DEF new, V
  <2> QED BY <1>4, <1>5, <2>1, <2>2, <2>3, <2>4
<1>7. rf' = [k \in Slots |-> [r \in Regs |-> rf'[k][r]]] BY DEF RegStep
<1> HIDE DEF V
<1>8. rf' \in [Slots -> [Regs -> V]] BY <1>6, <1>7
<1> QED BY <1>8 DEF V

(* The operations in the units, as TypeOK lists them. *)
OpsTyped ==
  /\ DOMAIN q = UnitSet
  /\ \A o \in UnitOps :
       Op(o) \in [w : Slots, rd : Regs, val : 1 .. Len(kernel), t : 0 .. Lat[o[1]]]

(* That is what the shape of the queues says.                              *)
LEMMA OpTypes == QueueOK /\ QueueVals => OpsTyped
<1> SUFFICES ASSUME QueueOK, QueueVals, NEW u \in UnitSet, NEW i \in DOMAIN q[u]
             PROVE  q[u][i] \in [w : Slots, rd : Regs, val : 1 .. Len(kernel), t : 0 .. Lat[u]]
  BY DEF QueueOK, UnitOps, Op, OpsTyped
<1>1. i \in Pos(u) /\ q[u][i] \in OpRec BY DEF Pos, QueueOK
<1>2. q[u][i].val \in Positions /\ q[u][i].t <= Lat[u] BY <1>1 DEF QueueVals
<1>3. Lat[u] \in Nat BY UnitAssumption
<1> QED BY <1>1, <1>2, <1>3 DEF OpRec, Positions

(* Every register keeps its type in a clock.                               *)
LEMMA TypeStep ==
  ASSUME PoolInv, NEW in \in Inputs, Cycle(in)
  PROVE  TypeOK'
<1> USE DEF PoolInv
<1>0. kernel' = kernel BY DEF Cycle
<1>1. kernel' \in Kernels /\ running' \in BOOLEAN /\ done' \in BOOLEAN
  BY DEF Cycle, TypeOK, any_busy
<1>2. /\ grid' \in [total_warps : 0 .. MaxWarps, next_wid : 0 .. MaxWarps, blk : Blocks]
      /\ wid' \in [Slots -> 0 .. MaxWarps]
  BY SpawnTypes DEF Cycle
<1>3. wstate' \in [Slots -> WStates]
  <2>1. wstate \in [Slots -> WStates] BY DEF TypeOK
  <2> QED BY <2>1 DEF Cycle, NextWstate, WStates
<1>4. pc' \in [Slots -> 1 .. Len(kernel)]
  <2>1. pc' = [k \in Slots |-> pc'[k]] BY DEF Cycle, NextPc
  <2> QED BY <2>1, ParkedTypes DEF Positions
<1>5. inflight' \subseteq Slots /\ rr_ptr' \in Slots
  BY Fetched DEF Cycle, PipeStep, TypeOK
<1>6. x' \in [v : BOOLEAN, w : Slots, pc : 1 .. Len(kernel)]
  <2>1. CASE fetch_valid
    <3>1. fetch_w \in Slots BY <2>1, Fetched DEF TypeOK
    <3>2. pc[fetch_w] \in 1 .. Len(kernel) BY <3>1 DEF TypeOK
    <3> QED BY <2>1, <3>1, <3>2 DEF Cycle, PipeStep
  <2>2. CASE ~ fetch_valid BY <2>2 DEF Cycle, PipeStep, TypeOK
  <2> QED BY <2>1, <2>2
<1>7. b' \in [v : BOOLEAN, w : Slots, fall : 1 .. Len(kernel)]
  <2>1. CASE do_ctl(in)
    <3>1. x.w \in Slots /\ x.pc \in Positions BY InX
    <3>2. kernel[x.pc].cls # "ecall" BY <2>1, CtlStep DEF instr
    <3>3. x.pc + 1 \in 1 .. Len(kernel) BY <3>1, <3>2, Decoded DEF Positions
    <3> QED BY <2>1, <3>1, <3>3 DEF Cycle, PipeStep
  <2>2. CASE ~ do_ctl(in) BY <2>2 DEF Cycle, PipeStep, TypeOK
  <2> QED BY <2>1, <2>2
<1>8. sb_wait' \subseteq Slots /\ sb_wfull' \subseteq Slots
  <2>1. sb_wait \subseteq Slots /\ sb_wfull \subseteq Slots BY DEF TypeOK
  <2>2. x.w \in Slots BY InX
  <2> QED BY <2>1, <2>2 DEF Cycle, BoardStep
<1>9. pend' \in [Slots -> SUBSET (Regs \ {"x0"})]
  <2>1. pend' = [k \in Slots |-> pend'[k]] BY DEF Cycle, BoardStep
  <2> QED BY <2>1, PendStep
<1>10. ld_out' \in [Slots -> 0 .. LD_MAX]
  <2>1. ld_out' = [k \in Slots |-> ld_out'[k]] BY DEF Cycle, BoardStep
  <2> QED BY <2>1, LoadsStep
<1>11. rf' \in [Slots -> [Regs -> 0 .. Len(kernel)]] BY WrittenTypes DEF Cycle
<1>12. OpsTyped'
  <2>1. QueueOK' /\ QueueVals' BY QueueInvStep
  <2> QED BY <2>1, OpTypes, PTL
<1>13. sfu' \in [st : {"SFU_IDLE", "SFU_RUN", "SFU_WB"}, w : Slots, rd : Regs, val : 0 .. Len(kernel)]
  BY SfuStep
<1>14. mem' \subseteq [id : MemIds, w : Slots, cls : {"load", "store", "amo"}, rd : Regs,
                       val : 1 .. Len(kernel), fp : BOOLEAN]
  BY MemOkStep DEF MemOp, Positions
<1>15. retired' \subseteq 0 .. MaxWarps
  <2>1. x.w \in Slots BY InX
  <2>2. wid[x.w] \in 0 .. MaxWarps /\ retired \subseteq 0 .. MaxWarps BY <2>1 DEF TypeOK
  <2> QED BY <2>2 DEF Cycle, HistoryStep
<1>16. arrived' \in [Slots -> {0, 1}]
  <2>1. arrived \in [Slots -> {0, 1}] BY DEF TypeOK
  <2> QED BY <2>1 DEF Cycle, HistoryStep
<1> QED
  BY <1>0, <1>1, <1>2, <1>3, <1>4, <1>5, <1>6, <1>7, <1>8, <1>9, <1>10, <1>11, <1>12, <1>13, <1>14,
     <1>15, <1>16
  DEF TypeOK, OpsTyped

-----------------------------------------------------------------------------
(* A clock of a running grid keeps the invariant.                          *)
LEMMA CycleInv ==
  ASSUME PoolInv, NEW in \in Inputs, Cycle(in)
  PROVE  PoolInv'
BY TypeStep, QueueInvStep, CaptureStep, MemOkStep, ParkedStep, PendOneStep, CleanInvStep, EngineStep,
   SleepStep, RestStep
DEF PoolInv

(* With no operation anywhere, only the types are left to say. *)
Blank ==
  /\ QueueOK /\ \A u \in UnitSet : Len(q[u]) = 0
  /\ mem = {} /\ ~ x.v /\ ~ b.v /\ inflight = {} /\ sb_wait = {}
  /\ sfu.st = "SFU_IDLE"
  /\ \A k \in Slots : wstate[k] = "W_EMPTY" /\ pend[k] = {} /\ ld_out[k] = 0

(* Then the invariant holds.                                               *)
LEMMA BlankInv == TypeOK /\ Blank => PoolInv
<1> SUFFICES ASSUME TypeOK, Blank PROVE PoolInv OBVIOUS
<1> USE DEF Blank
<1>1. \A u \in UnitSet : Pos(u) = {} BY DEF Pos
<1>2. Loads = {} /\ \A k \in Slots : LoadsOf(k) = {} BY DEF Loads, LoadsOf
<1>3. IsFiniteSet({}) /\ Cardinality({}) = 0 BY FS_EmptySet
<1>4. MemOK /\ LdCount BY <1>2, <1>3 DEF MemOK, LdCount
<1>5. QueueVals /\ PendOne BY <1>1, <1>2 DEF QueueVals, PendOne
<1>6. CaptureFresh /\ Parked BY DEF CaptureFresh, Parked
<1>7. FreeClean /\ BarClean /\ EngineOwns /\ Sleepers /\ Resting
  BY DEF FreeClean, BarClean, EngineOwns, Sleepers, Resting, FreeState
<1>8. QueueBound BY SizeAssumption DEF QueueBound
<1> QED BY <1>4, <1>5, <1>6, <1>7, <1>8 DEF PoolInv

(* A launch finds the memory engine idle, and clears the rest.             *)
LEMMA StartInv ==
  ASSUME PoolInv, NEW total \in 0 .. MaxWarps, NEW blk \in Blocks, Start(total, blk)
  PROVE  PoolInv'
<1> USE DEF PoolInv
<1>1. mem = {} BY DEF Start, Resting
<1>2. q' = [u \in UnitSet |-> << >>] BY DEF Start
<1>3. Blank'
  <2>1. x'.v = FALSE /\ b'.v = FALSE /\ sfu'.st = "SFU_IDLE" BY DEF Start, TypeOK
  <2>2. QueueOK' /\ \A u \in UnitSet : Len(q'[u]) = 0 BY <1>2 DEF QueueOK
  <2> QED BY <1>1, <2>1, <2>2 DEF Blank, Start
<1>4. TypeOK'
  <2>1. kernel' = kernel /\ 0 \in Slots /\ 0 \in 0 .. LD_MAX BY NWAssumption, SizeAssumption DEF Start, Slots
  <2>2. grid' \in [total_warps : 0 .. MaxWarps, next_wid : 0 .. MaxWarps, blk : Blocks]
    BY SizeAssumption DEF Start
  <2>3. /\ x' \in [v : BOOLEAN, w : Slots, pc : 1 .. Len(kernel)]
        /\ b' \in [v : BOOLEAN, w : Slots, fall : 1 .. Len(kernel)]
        /\ sfu' \in [st : {"SFU_IDLE", "SFU_RUN", "SFU_WB"}, w : Slots, rd : Regs, val : 0 .. Len(kernel)]
    BY DEF Start, TypeOK
  <2>4. DOMAIN q' = UnitSet /\ UnitOps' = {} BY <1>2 DEF UnitOps
  <2>5. /\ kernel' \in Kernels /\ running' \in BOOLEAN /\ done' \in BOOLEAN
        /\ pc' \in [Slots -> 1 .. Len(kernel)] /\ wid' \in [Slots -> 0 .. MaxWarps]
        /\ rf' \in [Slots -> [Regs -> 0 .. Len(kernel)]] /\ arrived' \in [Slots -> {0, 1}]
        /\ mem' = {} /\ retired' = {}
    BY <1>1 DEF Start, TypeOK
  <2>6. /\ wstate' \in [Slots -> WStates] /\ inflight' = {} /\ rr_ptr' = 0 /\ sb_wait' = {} /\ sb_wfull' = {}
        /\ pend' \in [Slots -> SUBSET (Regs \ {"x0"})] /\ ld_out' \in [Slots -> 0 .. LD_MAX]
    BY <2>1 DEF Start, WStates
  <2> QED BY <2>1, <2>2, <2>3, <2>4, <2>5, <2>6 DEF TypeOK
<1> QED BY <1>3, <1>4, BlankInv, PTL

(* The invariant holds after reset.                                        *)
LEMMA InitInv == Init => PoolInv
<1> SUFFICES ASSUME Init PROVE PoolInv OBVIOUS
<1>1. Blank
  <2>1. QueueOK /\ \A u \in UnitSet : Len(q[u]) = 0 BY DEF Init, QueueOK
  <2> QED BY <2>1 DEF Init, Blank
<1>2. TypeOK
  <2>1. kernel \in Seq(Instr) /\ kernel # << >> BY KernelAssumption DEF Init
  <2>2. 1 \in 1 .. Len(kernel) /\ 0 \in 0 .. Len(kernel) BY <2>1
  <2>3. 0 \in Slots /\ 1 \in 1 .. NW BY NWAssumption DEF Slots
  <2>4. 1 \in Blocks
    <3>1. 2 ^ 0 = 1 OBVIOUS
    <3>2. 0 \in 0 .. NW BY NWAssumption
    <3>3. \E g \in 0 .. NW : 1 = 2 ^ g BY <3>1, <3>2, Zenon
    <3> QED BY <2>3, <3>3 DEF Blocks
  <2>5. 0 \in 0 .. MaxWarps /\ 0 \in 0 .. LD_MAX BY SizeAssumption
  <2>6. DOMAIN q = UnitSet /\ UnitOps = {} BY DEF Init, UnitOps
  <2>7. "x0" \in Regs BY RegAssumption
  <2>8. /\ grid \in [total_warps : 0 .. MaxWarps, next_wid : 0 .. MaxWarps, blk : Blocks]
        /\ x \in [v : BOOLEAN, w : Slots, pc : 1 .. Len(kernel)]
        /\ b \in [v : BOOLEAN, w : Slots, fall : 1 .. Len(kernel)]
        /\ sfu \in [st : {"SFU_IDLE", "SFU_RUN", "SFU_WB"}, w : Slots, rd : Regs, val : 0 .. Len(kernel)]
    BY <2>2, <2>3, <2>4, <2>5, <2>7 DEF Init
  <2> QED BY <2>2, <2>3, <2>5, <2>6, <2>8 DEF Init, TypeOK, WStates
<1> QED BY <1>1, <1>2, BlankInv

(* The results left in a queue of an idle pool have no register to write. *)
LEMMA IdleInv ==
  ASSUME PoolInv, Idle
  PROVE  PoolInv'
<1> USE DEF PoolInv
<1> DEFINE in == [rdy |-> TRUE, wb |-> "none", fin |-> 0, fpb |-> FALSE, sdone |-> FALSE]
<1>1. q' = [u \in UnitSet |-> Aged(Popped(in, u))] BY DEF Idle
<1>2. UNCHANGED <<kernel, running, grid, wstate, pc, wid, inflight, rr_ptr, x, b, sb_wait, sb_wfull, pend,
                  ld_out, rf, sfu, mem, retired, arrived>> /\ done' = FALSE /\ ~ running
  BY DEF Idle, pipe, board
<1> HIDE DEF in
<1>3. ASSUME NEW u \in UnitSet
      PROVE  /\ q'[u] \in Seq(OpRec) /\ Len(q'[u]) <= Len(q[u]) /\ Len(q'[u]) \in Nat /\ Len(q[u]) \in Nat
             /\ \A j \in Pos(u)' : \E i \in Pos(u) : Moved(q'[u][j], q[u][i])
  <2>1. q'[u] = Aged(Popped(in, u)) BY <1>1
  <2>2. /\ Popped(in, u) \in Seq(OpRec) /\ Len(q[u]) \in Nat /\ Gone(in, u) <= Len(q[u])
        /\ Len(Popped(in, u)) = Len(q[u]) - Gone(in, u)
        /\ \A i \in 1 .. Len(q[u]) - Gone(in, u) : Popped(in, u)[i] = q[u][i + Gone(in, u)]
    BY PoppedSeq
  <2>3. /\ q'[u] \in Seq(OpRec) /\ Len(q'[u]) = Len(q[u]) - Gone(in, u)
        /\ \A i \in 1 .. Len(Popped(in, u)) : Moved(q'[u][i], Popped(in, u)[i])
    BY <2>1, <2>2, AgedSeq
  <2>4. Gone(in, u) \in 0 .. 1 BY DEF Gone
  <2>5. Len(q'[u]) <= Len(q[u]) /\ Len(q'[u]) \in Nat BY <2>2, <2>3, <2>4
  <2>6. ASSUME NEW j \in Pos(u)' PROVE \E i \in Pos(u) : Moved(q'[u][j], q[u][i])
    <3>1. j \in 1 .. Len(q[u]) - Gone(in, u) /\ j + Gone(in, u) \in Pos(u) BY <2>2, <2>3, <2>4 DEF Pos
    <3> QED BY <2>2, <2>3, <3>1
  <2> QED BY <2>2, <2>3, <2>5, <2>6
<1>4. \A k \in Slots : wstate[k] \in FreeState /\ pend[k] = {} BY <1>2 DEF Resting, FreeClean
<1>5. mem = {} /\ Loads = {} /\ sb_wait = {}
  BY <1>2, <1>4 DEF Resting, Loads, Sleepers, TypeOK, FreeState
<1>6. ASSUME NEW u \in UnitSet, NEW i \in Pos(u) PROVE q[u][i].rd = "x0"
  <2>1. q[u][i] \in OpRec BY DEF Pos, QueueOK
  <2> QED BY <1>4, <2>1 DEF PendOne, OpRec
<1>7. ASSUME NEW u \in UnitSet, NEW j \in Pos(u)' PROVE q'[u][j].rd = "x0" BY <1>3, <1>6, <1>7 DEF Moved
<1>8. QueueOK'
  <2>1. q' = [u \in UnitSet |-> q'[u]] BY <1>1
  <2> QED BY <1>3, <2>1 DEF QueueOK
<1>9. QueueVals'
  <2> SUFFICES ASSUME NEW u \in UnitSet, NEW j \in Pos(u)'
               PROVE  q'[u][j].val \in Positions /\ q'[u][j].t <= Lat[u]
    BY <1>2 DEF QueueVals, Positions
  <2>1. PICK i \in Pos(u) : Moved(q'[u][j], q[u][i]) BY <1>3
  <2>2. q'[u][j] \in OpRec /\ q[u][i] \in OpRec /\ Lat[u] \in Nat BY <1>3, UnitAssumption DEF Pos, QueueOK
  <2>3. q[u][i].val \in Positions /\ q[u][i].t <= Lat[u] BY DEF QueueVals
  <2> QED BY <2>1, <2>2, <2>3 DEF Moved, OpRec
<1>10. QueueBound'
  <2>1. \A u \in UnitSet : Len(q[u]) <= RQ_DEPTH /\ RQ_DEPTH \in Nat BY SizeAssumption DEF QueueBound
  <2> QED BY <1>3, <2>1 DEF QueueBound
<1>11. PendOne'
  <2>1. Loads' = {} BY <1>2, <1>5 DEF Loads
  <2>2. \A u \in UnitSet : \A j \in Pos(u)' : q'[u][j].rd = "x0" BY <1>7
  <2>3. \A k \in Slots : pend'[k] = {} BY <1>2, <1>4
  <2> QED BY <2>1, <2>2, <2>3 DEF PendOne, Same
<1>12. OpsTyped' BY <1>8, <1>9, OpTypes, PTL
<1>13. TypeOK' BY <1>2, <1>12 DEF TypeOK, OpsTyped
<1>14. CaptureFresh' /\ MemOK' /\ Parked' BY <1>2 DEF CaptureFresh, MemOK, Parked, IsAt
<1>15. LdCount' /\ FreeClean' /\ BarClean' /\ EngineOwns' /\ Resting'
  BY <1>2 DEF LdCount, LoadsOf, Loads, FreeClean, BarClean, EngineOwns, Resting
<1>16. Sleepers' BY <1>2, <1>5 DEF Sleepers
<1> QED BY <1>8, <1>9, <1>10, <1>11, <1>13, <1>14, <1>15, <1>16

(* PoolInv holds for every number of slots, of units and their latencies,  *)
(* of queue entries, memory operations and outstanding loads, and for      *)
(* every kernel of Kernels (warp_pool.sv).                                 *)
THEOREM PoolSafe == Spec => []PoolInv
<1>1. PoolInv /\ [Next]_vars => PoolInv'
  <2> SUFFICES ASSUME PoolInv, [Next]_vars PROVE PoolInv' OBVIOUS
  <2>1. CASE \E in \in Inputs : Cycle(in) BY <2>1, CycleInv
  <2>2. CASE \E total \in 0 .. MaxWarps, blk \in Blocks : Start(total, blk) BY <2>2, StartInv
  <2>3. CASE Idle BY <2>3, IdleInv
  <2>4. CASE UNCHANGED vars
    <3> USE DEF PoolInv
    <3>1. UNCHANGED <<kernel, running, done, grid, wstate, pc, wid, inflight, rr_ptr, x, b, sb_wait, sb_wfull,
                      pend, ld_out, rf, q, sfu, mem, retired, arrived>>
      BY <2>4 DEF vars, pipe, board, units
    <3>2. QueueOK' /\ QueueVals' /\ CaptureFresh' /\ MemOK' /\ QueueBound' /\ FreeClean' /\ BarClean' /\ Resting'
      BY <3>1 DEF QueueOK, QueueVals, Pos, Positions, CaptureFresh, MemOK, QueueBound, FreeClean, BarClean,
             Resting
    <3>3. Parked' /\ LdCount' /\ EngineOwns'
      BY <3>1 DEF Parked, IsAt, LdCount, LoadsOf, Loads, EngineOwns
    <3>4. PendOne' /\ Sleepers' BY <3>1 DEF PendOne, Sleepers, Pos, Loads, LoadsOf
    <3>5. OpsTyped' BY <3>2, OpTypes, PTL
    <3>6. TypeOK' BY <3>1, <3>5 DEF TypeOK, OpsTyped
    <3> QED BY <3>2, <3>3, <3>4, <3>6
  <2> QED BY <2>1, <2>2, <2>3, <2>4 DEF Next
<1> QED BY <1>1, InitInv, PTL DEF Spec

-----------------------------------------------------------------------------
(* UnitOps and the positions of the queues are the same thing. *)
LEMMA OpPositions ==
  ASSUME QueueOK
  PROVE  /\ \A o \in UnitOps : o[1] \in UnitSet /\ o[2] \in Pos(o[1]) /\ o = <<o[1], o[2]>>
         /\ \A u \in UnitSet : \A i \in Pos(u) : <<u, i>> \in UnitOps
<1>1. \A u \in UnitSet : DOMAIN q[u] = Pos(u) BY DEF QueueOK, Pos
<1> QED BY <1>1 DEF UnitOps

(* The sets of which PendExact counts the members have one member or none. *)
LEMMA PendExactHolds == PoolInv => PendExact
<1> SUFFICES ASSUME PoolInv, NEW k \in Slots,  NEW r \in Regs \ {"x0"}
             PROVE  Cardinality({o \in UnitOps : Op(o).w = k /\ Op(o).rd = r})
                      + Cardinality({m \in Loads : m.w = k /\ m.rd = r})
                    = IF r \in pend[k] THEN 1 ELSE 0
  BY DEF PoolInv, PendExact, LdCount, LoadsOf
<1> USE DEF PoolInv
<1> DEFINE A == {o \in UnitOps : Op(o).w = k /\ Op(o).rd = r}
           B == {m \in Loads : m.w = k /\ m.rd = r}
<1>1. Cardinality({}) = 0 BY FS_EmptySet
<1>2. \A s : Cardinality({s}) = 1 BY FS_Singleton
<1>3. \A o \in A : o[1] \in UnitSet /\ o[2] \in Pos(o[1]) /\ o = <<o[1], o[2]>>
                   /\ q[o[1]][o[2]].w = k /\ q[o[1]][o[2]].rd = r
  BY OpPositions DEF Op
<1>4. CASE r \notin pend[k]
  <2>1. A = {} BY <1>3, <1>4 DEF PendOne
  <2>2. B = {} BY <1>4 DEF PendOne
  <2> HIDE DEF A, B
  <2>3. Cardinality(A) = 0 /\ Cardinality(B) = 0 BY <1>1, <2>1, <2>2
  <2>4. Cardinality(A) + Cardinality(B) = 0 BY <2>3
  <2> QED BY <1>4, <2>4 DEF A, B
<1>5. CASE r \in pend[k]
  <2>1. CASE \E u \in UnitSet : \E i \in Pos(u) : q[u][i].w = k /\ q[u][i].rd = r
    <3>1. PICK u \in UnitSet : \E i \in Pos(u) : q[u][i].w = k /\ q[u][i].rd = r BY <2>1
    <3>2. PICK i \in Pos(u) : q[u][i].w = k /\ q[u][i].rd = r BY <3>1
    <3>3. <<u, i>> \in A BY <3>2, OpPositions DEF Op
    <3>4. \A o \in A : o = <<u, i>> BY <1>3, <3>2 DEF PendOne, Same
    <3>5. B = {} BY <3>2 DEF PendOne, Same
    <3> HIDE DEF A, B
    <3>6. A = {<<u, i>>} BY <3>3, <3>4
    <3>7. Cardinality(A) = 1 /\ Cardinality(B) = 0 BY <1>1, <1>2, <3>5, <3>6
    <3>8. Cardinality(A) + Cardinality(B) = 1 BY <3>7
    <3> QED BY <1>5, <3>8 DEF A, B
  <2>2. CASE \E m \in Loads : m.w = k /\ m.rd = r
    <3>1. PICK m \in Loads : m.w = k /\ m.rd = r BY <2>2
    <3>2. B = {m} BY <3>1 DEF PendOne, Same
    <3>3. A = {} BY <1>3, <3>1 DEF PendOne, Same
    <3> HIDE DEF A, B
    <3>4. Cardinality(A) = 0 /\ Cardinality(B) = 1 BY <1>1, <1>2, <3>2, <3>3
    <3>5. Cardinality(A) + Cardinality(B) = 1 BY <3>4
    <3> QED BY <1>5, <3>5 DEF A, B
  <2> QED BY <1>5, <2>1, <2>2 DEF PendOne
<1> QED BY <1>4, <1>5

(* Nothing is in flight for a slot that is free.                           *)
LEMMA SlotCleanHolds == PoolInv => SlotClean
<1> SUFFICES ASSUME PoolInv, NEW k \in Free
             PROVE  /\ \A o \in UnitOps : Op(o).w = k => Op(o).rd = "x0"
                    /\ \A m \in mem : m.w # k
                    /\ sfu.st = "SFU_IDLE" \/ sfu.w # k
  BY DEF SlotClean
<1> USE DEF PoolInv
<1>1. k \in Slots /\ wstate[k] \in FreeState BY DEF Free, FreeState
<1>2. pend[k] = {} /\ ld_out[k] = 0 BY <1>1 DEF FreeClean
<1>3. \A o \in UnitOps : Op(o).w = k => Op(o).rd = "x0" BY <1>2, OpPositions DEF Op, PendOne
<1>4. LoadsOf(k) = {} BY <1>1, <1>2, NoLoads
<1>5. \A m \in mem : m.w # k BY <1>1, <1>4 DEF EngineOwns, LoadsOf, Loads, FreeState
<1>6. sfu.st = "SFU_IDLE" \/ sfu.w # k BY <1>1 DEF EngineOwns, FreeState
<1> QED BY <1>3, <1>5, <1>6

(* Who waits, waits for something in flight.                               *)
LEMMA WaitsHold == PoolInv => WaitsSound
<1> SUFFICES ASSUME PoolInv PROVE WaitsSound OBVIOUS
<1> USE DEF PoolInv
<1>1. SleeperHasWaker
  <2> SUFFICES ASSUME NEW k \in sb_wait
               PROVE  /\ wstate[k] = "W_RUN"
                      /\ IF k \in sb_wfull
                           THEN UnitOps # {}
                           ELSE (\E o \in UnitOps : Op(o).w = k) \/ (\E m \in Loads : m.w = k)
    BY DEF SleeperHasWaker
  <2>1. (\E u \in UnitSet : Pos(u) # {}) => UnitOps # {} BY OpPositions
  <2>2. (\E u \in UnitSet : \E i \in Pos(u) : q[u][i].w = k) => \E o \in UnitOps : Op(o).w = k
    BY OpPositions DEF Op
  <2> QED BY <2>1, <2>2 DEF Sleepers, LoadsOf
<1>2. BarrierDrained
  <2> SUFFICES ASSUME NEW k \in Slots, wstate[k] = "W_BAR", NEW m \in mem PROVE m.w # k BY DEF BarrierDrained
  <2>1. LoadsOf(k) = {} BY NoLoads DEF BarClean
  <2> QED BY <2>1 DEF EngineOwns, LoadsOf, Loads
<1> QED BY <1>1, <1>2 DEF WaitsSound

(* Every register of the pool keeps its type: no pointer, PC, position or  *)
(* count leaves its range (warp_pool.sv, rr_ptr, pc, ld_out).              *)
THEOREM PoolTypes == Spec => []TypeOK
<1>1. PoolInv => TypeOK BY DEF PoolInv
<1> QED BY <1>1, PoolSafe, PTL

(* The context a warp is fetched with is its context when it issues, and a *)
(* warp is in one stage at a time (warp_pool.sv, inflight).                *)
THEOREM CaptureStaysFresh == Spec => []CaptureFresh
<1>1. PoolInv => CaptureFresh BY DEF PoolInv
<1> QED BY <1>1, PoolSafe, PTL

(* The scoreboard, the slots, the engines and the unit queues agree on     *)
(* what is in flight, and no queue overflows (warp_pool.sv, pend, ld_out,  *)
(* wstate, rdy).                                                           *)
THEOREM BoardExact == Spec => []Bookkeeping
<1>1. PoolInv => Bookkeeping BY PendExactHolds, SlotCleanHolds DEF PoolInv, Bookkeeping
<1> QED BY <1>1, PoolSafe, PTL

(* A sleeping warp has its waker in flight and a warp at a barrier has no  *)
(* memory operation of its own left (warp_pool.sv, sb_wait, sb_wake,       *)
(* do_bar).                                                                *)
THEOREM NobodyWaitsInVain == Spec => []WaitsSound
BY WaitsHold, PoolSafe, PTL

-----------------------------------------------------------------------------
(* Where a warp stands: past the jump of it that is in B. *)
Cur(k) == IF b.v /\ b.w = k THEN b.fall ELSE pc[k]

(* Every result is the one the next instruction of its warp expects. *)
ValuesRight ==
  \A k \in Slots : wstate[k] \notin FreeState => \A r \in Regs \ {"x0"} :
    /\ r \notin pend[k] => rf[k][r] = LastWriter(Cur(k), r)
    /\ \A u \in UnitSet : \A i \in Pos(u) :
         q[u][i].w = k /\ q[u][i].rd = r => q[u][i].val = LastWriter(Cur(k), r)
    /\ \A m \in Loads : m.w = k /\ m.rd = r => m.val = LastWriter(Cur(k), r)

(* The last writer before the next position. *)
LEMMA NextWriter ==
  ASSUME NEW p \in Nat, p >= 1, NEW r
  PROVE  /\ LastWriter(1, r) = 0
         /\ LastWriter(p + 1, r) = IF kernel[p].rd = r THEN p ELSE LastWriter(p, r)
<1> DEFINE W(n) == {i \in 1 .. n - 1 : kernel[i].rd = r}
           L(S) == IF S = {} THEN 0 ELSE CHOOSE i \in S : \A j \in S : j <= i
<1>1. \A n : LastWriter(n, r) = L(W(n)) BY DEF LastWriter
<1>2. W(1) = {} OBVIOUS
<1>3. W(p + 1) = IF kernel[p].rd = r THEN W(p) \cup {p} ELSE W(p)
  <2>1. 1 .. (p + 1) - 1 = (1 .. p - 1) \cup {p} OBVIOUS
  <2> QED BY <2>1
<1>4. \A j \in W(p) \cup {p} : j \in Int /\ j <= p OBVIOUS
<1> HIDE DEF W
<1>5. L(W(p) \cup {p}) = p
  <2> DEFINE S == W(p) \cup {p}
  <2>1. p \in S /\ \A j \in S : j <= p BY <1>4
  <2>2. \A i \in S : (\A j \in S : j <= i) => i = p BY <1>4, <2>1
  <2> HIDE DEF S
  <2>3. (CHOOSE i \in S : \A j \in S : j <= i) = p BY <2>1, <2>2
  <2> QED BY <2>1, <2>3 DEF S
<1>6. L(W(1)) = 0 BY <1>2
<1> HIDE DEF L
<1> QED BY <1>1, <1>3, <1>5, <1>6

(* The instruction of slot k leaves the pipeline or the engine it was parked on. *)
Completes(in, k) ==
  \/ sfu_wb_fire(in) /\ sfu.w = k
  \/ me_rs_st(in, k)
  \/ x.w = k /\ (pc_step(in) \/ do_ctl(in))

(* An instruction that completes is the one its warp stands at, and no earlier result for its register is  *)
(* outstanding.                                                                                            *)
LEMMA CompletesAt ==
  ASSUME PoolInv, NEW in \in Inputs, NEW k \in Slots, Completes(in, k)
  PROVE  /\ Cur(k) = pc[k] /\ ~ (b.v /\ b.w = k) /\ wstate[k] \notin FreeState
         /\ kernel[pc[k]].rd \notin pend[k]
         /\ x.w = k /\ (pc_step(in) \/ do_ctl(in)) =>
              x.v /\ wstate[k] = "W_RUN" /\ x.pc = pc[k] /\ instr = kernel[pc[k]]
<1> USE DEF PoolInv
<1>1. CASE sfu_wb_fire(in) /\ sfu.w = k
  <2>1. wstate[k] = "W_SFU" /\ sfu.st # "SFU_IDLE" BY <1>1 DEF sfu_wb_fire, EngineOwns
  <2>2. IsAt(pc[k], sfu, "sfu") BY <1>1, <2>1 DEF Parked
  <2>3. ~ (b.v /\ b.w = k) /\ ~ (x.v /\ x.w = k) BY <2>1, InX
  <2>4. x.w = k => ~ pc_step(in) /\ ~ do_ctl(in) BY <2>3, XCases DEF pc_step, ld_inc
  <2> QED BY <1>1, <2>1, <2>2, <2>3, <2>4 DEF IsAt, Cur, FreeState
<1>2. CASE me_rs_st(in, k)
  <2>1. PICK m \in mem : m.cls # "load" /\ m.w = k BY <1>2, Finished DEF me_rs_st
  <2>2. wstate[k] = "W_MEM" BY <2>1, ParkedOp
  <2>3. IsAt(pc[k], m, m.cls) BY <2>1 DEF Parked
  <2>4. ~ (b.v /\ b.w = k) /\ ~ (x.v /\ x.w = k) BY <2>2, InX
  <2>5. x.w = k => ~ pc_step(in) /\ ~ do_ctl(in) BY <2>4, XCases DEF pc_step, ld_inc
  <2> QED BY <2>1, <2>2, <2>3, <2>4, <2>5 DEF IsAt, Cur, FreeState
<1>3. CASE x.w = k /\ (pc_step(in) \/ do_ctl(in))
  <2>1. x.v BY <1>3, XCases DEF pc_step, ld_inc
  <2>2. wstate[k] = "W_RUN" /\ x.pc = pc[k] /\ instr = kernel[pc[k]] BY <1>3, <2>1, InX DEF instr
  <2>3. ~ (b.v /\ b.w = k) BY <1>3, <2>1 DEF CaptureFresh
  <2>4. instr.rd \notin pend[k]
    <3>1. CASE instr.cls = "pop"
      <4>1. instr.rd = "x0" BY <3>1, InX, Decoded DEF instr
      <4>2. "x0" \notin pend[k] BY DEF TypeOK
      <4> QED BY <4>1, <4>2
    <3>2. CASE instr.cls # "pop"
      <4>1. ~ RegHaz BY <1>3, <3>2, XCases DEF pc_step, ld_inc, sb_haz
      <4> QED BY <1>3, <4>1 DEF RegHaz
    <3> QED BY <3>1, <3>2
  <2> QED BY <2>1, <2>2, <2>3, <2>4 DEF Cur, FreeState
<1> QED BY <1>1, <1>2, <1>3 DEF Completes

(* A live warp moves past its instruction when that completes, and only then. *)
LEMMA CurStep ==
  ASSUME PoolInv, NEW in \in Inputs, Cycle(in), NEW k \in Slots
  PROVE  /\ wstate[k] \notin FreeState => Cur(k)' = IF Completes(in, k) THEN Cur(k) + 1 ELSE Cur(k)
         /\ k \in spawn_en => Cur(k)' = 1
<1> USE DEF PoolInv
<1>1. b'.v = do_ctl(in) /\ (do_ctl(in) => b'.w = x.w /\ b'.fall = x.pc + 1)
  BY DEF Cycle, PipeStep, TypeOK, do_ctl, issue, exec
<1>2. Cur(k)' = IF do_ctl(in) /\ x.w = k THEN x.pc + 1 ELSE pc'[k] BY <1>1 DEF Cur
<1>3. do_ctl(in) /\ x.w = k => wstate[k] = "W_RUN" /\ x.v /\ x.pc = pc[k] /\ ~ pc_step(in)
  BY InX, XCases DEF do_ctl, pc_step, do_alu, Plain
<1>4. x.w = k /\ pc_step(in) => wstate[k] = "W_RUN" /\ x.v BY InX, XCases DEF pc_step, ld_inc
<1>5. b.v /\ b.w = k => wstate[k] = "W_RUN" /\ b.fall = pc[k] + 1 BY InX DEF Parked
<1>6. x.v /\ b.v => x.w # b.w BY DEF CaptureFresh
<1>7. sfu_wb_fire(in) /\ sfu.w = k => wstate[k] = "W_SFU" BY DEF sfu_wb_fire, EngineOwns
<1>8. wstate[k] = "W_SFU" => sfu.w = k BY DEF EngineOwns
<1>9. me_rs_st(in, k) => wstate[k] = "W_MEM" BY Finished DEF me_rs_st, EngineOwns
<1>10. wstate[k] \in WStates BY DEF TypeOK
<1>11. ASSUME k \in spawn_en PROVE Cur(k)' = 1
  <2>1. wstate[k] \in FreeState BY <1>11, Spawned
  <2>2. pc'[k] = 1 BY <1>11, <2>1, PcStep
  <2> QED BY <1>2, <1>3, <2>1, <2>2 DEF FreeState
<1>12. CASE wstate[k] = "W_SFU"
  <2>1. Cur(k) = pc[k] /\ Cur(k)' = pc'[k] BY <1>2, <1>3, <1>5, <1>12 DEF Cur
  <2>2. Completes(in, k) <=> sfu_wb_fire(in) BY <1>3, <1>4, <1>8, <1>9, <1>12 DEF Completes
  <2> QED BY <1>11, <1>12, <2>1, <2>2, PcStep
<1>13. CASE wstate[k] = "W_MEM"
  <2>1. Cur(k) = pc[k] /\ Cur(k)' = pc'[k] BY <1>2, <1>3, <1>5, <1>13 DEF Cur
  <2>2. Completes(in, k) <=> me_rs_st(in, k) BY <1>3, <1>4, <1>7, <1>13 DEF Completes
  <2> QED BY <1>11, <1>13, <2>1, <2>2, PcStep
<1>14. CASE wstate[k] = "W_BAR"
  <2>1. Cur(k) = pc[k] /\ Cur(k)' = pc'[k] BY <1>2, <1>3, <1>5, <1>14 DEF Cur
  <2>2. ~ Completes(in, k) BY <1>3, <1>4, <1>7, <1>9, <1>14 DEF Completes
  <2> QED BY <1>11, <1>14, <2>1, <2>2, PcStep
<1>15. CASE wstate[k] = "W_RUN"
  <2>1. Completes(in, k) <=> x.w = k /\ (pc_step(in) \/ do_ctl(in)) BY <1>7, <1>9, <1>15 DEF Completes
  <2>2. pc'[k] = IF (b.v /\ b.w = k) \/ (x.w = k /\ pc_step(in)) THEN pc[k] + 1 ELSE pc[k]
    BY <1>15, PcStep
  <2>3. k \notin spawn_en BY <1>15, Spawned DEF FreeState
  <2>4. CASE b.v /\ b.w = k
    <3>1. ~ (x.v /\ x.w = k) BY <1>6, <2>4
    <3>2. ~ Completes(in, k) /\ ~ (do_ctl(in) /\ x.w = k) BY <1>3, <1>4, <2>1, <3>1
    <3> QED BY <1>2, <1>5, <2>2, <2>3, <2>4, <3>2 DEF Cur
  <2>5. CASE ~ (b.v /\ b.w = k)
    <3>1. Cur(k) = pc[k] BY <2>5 DEF Cur
    <3>2. CASE do_ctl(in) /\ x.w = k BY <1>2, <1>3, <2>1, <2>3, <3>1, <3>2
    <3>3. CASE ~ (do_ctl(in) /\ x.w = k) BY <1>2, <2>1, <2>2, <2>3, <2>5, <3>1, <3>3
    <3> QED BY <3>2, <3>3
  <2> QED BY <2>4, <2>5
<1> QED BY <1>10, <1>11, <1>12, <1>13, <1>14, <1>15 DEF WStates, FreeState

-----------------------------------------------------------------------------
(* Where a value written to register r of slot k comes from. *)
LEMMA WriteSources ==
  ASSUME PoolInv, NEW in \in Inputs, NEW o \in Writes(in), NEW k \in Slots, o.w = k
  PROVE  \/ \E u \in wb_fire(in) : q[u][1].w = k /\ q[u][1].rd = o.rd /\ q[u][1].val = o.val
         \/ \E m \in fin_op(in) : m.w = k /\ m.rd = o.rd /\ m.val = o.val
         \/ sfu_wb_fire(in) /\ sfu.w = k /\ sfu.rd = o.rd /\ sfu.val = o.val
         \/ (do_alu(in) \/ do_ctl(in)) /\ x.w = k /\ instr.rd = o.rd /\ x.pc = o.val
<1> DEFINE A == {Head(q[u]) : u \in wb_fire(in)}
           B == IF sfu_wb_fire(in) THEN {sfu} ELSE {}
           C == IF do_alu(in) \/ do_ctl(in) THEN {[w |-> x.w, rd |-> instr.rd, val |-> x.pc]} ELSE {}
<1>1. PICK s \in A \cup fin_op(in) \cup B \cup C : o.w = s.w /\ o.rd = s.rd /\ o.val = s.val BY DEF Writes
<1>2. CASE s \in A BY <1>1, <1>2, Fired
<1>3. CASE s \in fin_op(in) BY <1>1, <1>3
<1>4. CASE s \in B BY <1>1, <1>4
<1>5. CASE s \in C BY <1>1, <1>5
<1> QED BY <1>1, <1>2, <1>3, <1>4, <1>5

(* Each source of a write is there. *)
LEMMA WriteTargets ==
  ASSUME PoolInv, NEW in \in Inputs
  PROVE  /\ \A u \in wb_fire(in) : \E o \in Writes(in) : o.w = q[u][1].w /\ o.rd = q[u][1].rd
         /\ \A m \in fin_op(in) : \E o \in Writes(in) : o.w = m.w /\ o.rd = m.rd
         /\ sfu_wb_fire(in) => \E o \in Writes(in) : o.w = sfu.w /\ o.rd = sfu.rd
         /\ do_alu(in) \/ do_ctl(in) => \E o \in Writes(in) : o.w = x.w /\ o.rd = instr.rd
<1> DEFINE S == {Head(q[u]) : u \in wb_fire(in)} \cup fin_op(in)
                \cup (IF sfu_wb_fire(in) THEN {sfu} ELSE {})
                \cup (IF do_alu(in) \/ do_ctl(in) THEN {[w |-> x.w, rd |-> instr.rd, val |-> x.pc]} ELSE {})
<1>1. ASSUME NEW s \in S PROVE \E o \in Writes(in) : o.w = s.w /\ o.rd = s.rd
  <2> DEFINE o == [w |-> s.w, rd |-> s.rd, val |-> s.val]
  <2>1. Writes(in) = {[w |-> t.w, rd |-> t.rd, val |-> t.val] : t \in S} BY DEF Writes
  <2> HIDE DEF S
  <2>2. o \in Writes(in) BY <2>1
  <2>3. o.w = s.w /\ o.rd = s.rd OBVIOUS
  <2> QED BY <2>2, <2>3
<1>2. \A u \in wb_fire(in) : q[u][1] \in S BY Fired
<1>3. \A m \in fin_op(in) : m \in S OBVIOUS
<1>4. sfu_wb_fire(in) => sfu \in S OBVIOUS
<1>5. do_alu(in) \/ do_ctl(in) => [w |-> x.w, rd |-> instr.rd, val |-> x.pc] \in S OBVIOUS
<1> HIDE DEF S
<1> QED BY <1>1, <1>2, <1>3, <1>4, <1>5

(* Nothing is written to a slot that is spawned into. *)
LEMMA SpawnQuiet ==
  ASSUME PoolInv, NEW in \in Inputs, NEW k \in Slots, wstate[k] \in FreeState, NEW o \in Writes(in), o.w = k
  PROVE  o.rd = "x0"
<1> USE DEF PoolInv
<1>1. pend[k] = {} /\ LoadsOf(k) = {}
  <2>1. pend[k] = {} /\ ld_out[k] = 0 BY DEF FreeClean
  <2> QED BY <2>1, NoLoads
<1>2. CASE \E u \in wb_fire(in) : q[u][1].w = k /\ q[u][1].rd = o.rd /\ q[u][1].val = o.val
  <2>1. PICK u \in wb_fire(in) : q[u][1].w = k /\ q[u][1].rd = o.rd BY <1>2
  <2>2. u \in UnitSet /\ 1 \in Pos(u) BY Fired
  <2> QED BY <1>1, <2>1, <2>2 DEF PendOne
<1>3. \A m \in mem : m.w # k BY <1>1, ParkedOp DEF LoadsOf, Loads, FreeState
<1>4. ~ (sfu_wb_fire(in) /\ sfu.w = k) BY DEF sfu_wb_fire, EngineOwns, FreeState
<1>5. ~ ((do_alu(in) \/ do_ctl(in)) /\ x.w = k) BY InX, XCases DEF FreeState
<1> QED BY <1>2, <1>3, <1>4, <1>5, WriteSources, Finished

(* A clock keeps ValuesRight: what is written is written by the            *)
(* instruction that completes, or by the one result outstanding for its    *)
(* register.                                                               *)
LEMMA ValuesStep ==
  ASSUME PoolInv, ValuesRight, NEW in \in Inputs, Cycle(in)
  PROVE  ValuesRight'
<1> USE DEF PoolInv
<1> SUFFICES ASSUME NEW k \in Slots, wstate'[k] \notin FreeState, NEW r \in Regs \ {"x0"}
             PROVE  /\ r \notin pend'[k] => rf'[k][r] = LastWriter(Cur(k), r)'
                    /\ \A u \in UnitSet : \A i \in Pos(u)' :
                         q'[u][i].w = k /\ q'[u][i].rd = r => q'[u][i].val = LastWriter(Cur(k), r)'
                    /\ \A m \in Loads' : m.w = k /\ m.rd = r => m.val = LastWriter(Cur(k), r)'
  BY DEF ValuesRight
<1> DEFINE new == {o \in Writes(in) : o.w = k /\ o.rd = r /\ r # "x0"}
           L == LastWriter(Cur(k)', r)
<1>1. LastWriter(Cur(k), r)' = L BY DEF LastWriter, Cycle
<1>2. rf'[k][r] = IF new # {} THEN (CHOOSE o \in new : TRUE).val
                  ELSE IF k \in spawn_en THEN 0 ELSE rf[k][r]
  BY DEF Cycle, RegStep
<1>3. new # {} => (CHOOSE o \in new : TRUE) \in new OBVIOUS
<1>4. \A p \in Positions : kernel[p].rd = r \/ LastWriter(p + 1, r) = LastWriter(p, r)
  BY NextWriter DEF Positions
<1>5. \A p \in Positions : kernel[p].rd = r => LastWriter(p + 1, r) = p BY NextWriter DEF Positions
<1>6. CASE wstate[k] \in FreeState
  <2>1. k \in spawn_en BY <1>6, StateStep
  <2>2. Cur(k)' = 1 BY <2>1, CurStep
  <2>3. L = 0 BY <2>2, NextWriter
  <2>4. new = {} BY <1>6, SpawnQuiet
  <2>5. rf'[k][r] = 0 BY <1>2, <2>1, <2>4
  <2>6. pend[k] = {} /\ ld_out[k] = 0 BY <1>6 DEF FreeClean
  <2>7. ~ (x.w = k /\ (do_unit \/ ld_inc(in))) BY <1>6, InX, XCases DEF FreeState, ld_inc
  <2>8. pend'[k] = {} BY <2>6, <2>7, CleanStep
  <2>9. PendOne' BY PendOneStep
  <2>10. \A u \in UnitSet : \A i \in Pos(u)' : ~ (q'[u][i].w = k /\ q'[u][i].rd = r) BY <2>8, <2>9 DEF PendOne
  <2>11. \A m \in Loads' : ~ (m.w = k /\ m.rd = r) BY <2>8, <2>9 DEF PendOne
  <2> QED BY <1>1, <2>3, <2>5, <2>10, <2>11
<1>7. CASE wstate[k] \notin FreeState
  <2> DEFINE p == Cur(k)
             O == LastWriter(p, r)
  <2>1. p \in Positions BY DEF Cur, TypeOK, Positions
  <2>2. Cur(k)' = IF Completes(in, k) THEN p + 1 ELSE p BY <1>7, CurStep
  <2>3. Completes(in, k) => p = pc[k] /\ kernel[p].rd \notin pend[k] BY CompletesAt
  (* A register with a result outstanding keeps its last writer. *)
  <2>4. r \in pend[k] => L = O BY <1>4, <2>1, <2>2, <2>3
  <2>5. Completes(in, k) /\ kernel[p].rd = r => L = p BY <1>5, <2>1, <2>2
  <2>6. ~ (Completes(in, k) /\ kernel[p].rd = r) => L = O BY <1>4, <2>1, <2>2
  <2>7. /\ r \notin pend[k] => rf[k][r] = O
        /\ \A u \in UnitSet : \A i \in Pos(u) : q[u][i].w = k /\ q[u][i].rd = r => q[u][i].val = O
        /\ \A m \in Loads : m.w = k /\ m.rd = r => m.val = O
    BY <1>7 DEF ValuesRight
  <2>8. /\ \A u \in UnitSet : \A i \in Pos(u) : q[u][i].w = k /\ q[u][i].rd = r => r \in pend[k]
        /\ \A m \in Loads : m.w = k /\ m.rd = r => r \in pend[k]
    BY DEF PendOne
  <2>9. x.w = k /\ (pc_step(in) \/ do_ctl(in)) => x.pc = p /\ instr = kernel[p] /\ Completes(in, k)
    BY <2>3, CompletesAt DEF Completes
  <2> HIDE DEF p, O, L
  <2>10. ASSUME NEW o \in new PROVE o.val = L
    <3>1. o \in Writes(in) /\ o.w = k /\ o.rd = r OBVIOUS
    <3>2. CASE \E u \in wb_fire(in) : q[u][1].w = k /\ q[u][1].rd = o.rd /\ q[u][1].val = o.val
      <4>1. PICK u \in wb_fire(in) : q[u][1].w = k /\ q[u][1].rd = r /\ q[u][1].val = o.val BY <3>1, <3>2
      <4>2. u \in UnitSet /\ 1 \in Pos(u) BY Fired
      <4> QED BY <2>4, <2>7, <2>8, <4>1, <4>2
    <3>3. CASE \E m \in fin_op(in) : m.w = k /\ m.rd = o.rd /\ m.val = o.val
      <4>1. PICK m \in fin_op(in) : m.w = k /\ m.rd = r /\ m.val = o.val BY <3>1, <3>3
      <4>2. m \in mem BY Finished
      <4>3. CASE m.cls = "load" BY <2>4, <2>7, <2>8, <4>1, <4>2, <4>3 DEF Loads
      <4>4. CASE m.cls # "load"
        <5>1. me_rs_st(in, k) BY <4>1, <4>4 DEF me_rs_st
        <5>2. Completes(in, k) BY <5>1 DEF Completes
        <5>3. IsAt(pc[k], m, m.cls) BY <4>1, <4>2, <4>4 DEF Parked
        <5> QED BY <2>3, <2>5, <4>1, <5>2, <5>3 DEF IsAt
      <4> QED BY <4>3, <4>4
    <3>4. CASE sfu_wb_fire(in) /\ sfu.w = k /\ sfu.rd = o.rd /\ sfu.val = o.val
      <4>1. Completes(in, k) BY <3>4 DEF Completes
      <4>2. IsAt(pc[k], sfu, "sfu") BY <3>4 DEF Parked, sfu_wb_fire
      <4> QED BY <2>3, <2>5, <3>1, <3>4, <4>1, <4>2 DEF IsAt
    <3>5. CASE (do_alu(in) \/ do_ctl(in)) /\ x.w = k /\ instr.rd = o.rd /\ x.pc = o.val
      BY <2>5, <2>9, <3>1, <3>5 DEF pc_step
    <3> QED BY <3>1, <3>2, <3>3, <3>4, <3>5, WriteSources
  <2>11. ASSUME NEW u \in UnitSet, NEW i \in Pos(u)', q'[u][i].w = k, q'[u][i].rd = r
         PROVE  q'[u][i].val = L
    <3>1. CASE Enters(u) /\ q'[u][i] = Entry(u)
      <4>1. q'[u][i].w = x.w /\ q'[u][i].rd = instr.rd /\ q'[u][i].val = x.pc BY <3>1 DEF Entry
      <4> QED BY <2>5, <2>9, <2>11, <3>1, <4>1 DEF Enters, pc_step
    <3>2. CASE \E j \in Pos(u) : Moved(q'[u][i], q[u][j])
      BY <2>4, <2>7, <2>8, <2>11, <3>2 DEF Moved
    <3> QED BY <3>1, <3>2, QStep
  <2>12. ASSUME NEW m \in Loads', m.w = k, m.rd = r PROVE m.val = L
    <3>1. CASE m \in Loads BY <2>4, <2>7, <2>8, <2>12, <3>1
    <3>2. CASE ld_inc(in) /\ m = NewOp BY <2>5, <2>9, <2>12, <3>2, LoadSetStep DEF pc_step
    <3> QED BY <3>1, <3>2, LoadSetStep
  <2>13. ASSUME r \notin pend'[k], new = {} PROVE rf'[k][r] = L
    <3>1. k \notin spawn_en BY <1>7, Spawned
    <3>2. rf'[k][r] = rf[k][r] BY <1>2, <2>13, <3>1
    <3>3. \A o \in Writes(in) : ~ (o.w = k /\ o.rd = r) BY <2>13
    <3>4. ~ Cleared(in, k, r) BY <3>3, WriteTargets DEF Cleared
    <3>5. r \notin pend[k] BY <2>13, <3>4, PendStep
    <3>6. ~ (Completes(in, k) /\ kernel[p].rd = r)
      <4> SUFFICES ASSUME Completes(in, k), kernel[p].rd = r PROVE FALSE OBVIOUS
      <4>1. CASE sfu_wb_fire(in) /\ sfu.w = k
        <5>1. IsAt(pc[k], sfu, "sfu") BY <4>1 DEF Parked, sfu_wb_fire
        <5> QED BY <2>3, <3>3, <4>1, <5>1, WriteTargets DEF IsAt
      <4>2. CASE me_rs_st(in, k)
        <5>1. PICK m \in fin_op(in) : m.cls # "load" /\ m.w = k BY <4>2 DEF me_rs_st
        <5>2. IsAt(pc[k], m, m.cls) BY <5>1, Finished DEF Parked
        <5> QED BY <2>3, <3>3, <5>1, <5>2, WriteTargets DEF IsAt
      <4>3. CASE x.w = k /\ (pc_step(in) \/ do_ctl(in))
        <5>1. instr.rd = r /\ instr = kernel[x.pc] BY <2>9, <4>3
        <5>2. r # "x0" OBVIOUS
        <5>3. CASE do_unit \/ ld_inc(in) BY <2>13, <4>3, <5>1, <5>2, <5>3, PendStep DEF Claimed
        <5>4. CASE do_alu(in) \/ do_ctl(in) BY <3>3, <4>3, <5>1, <5>4, WriteTargets
        <5>5. CASE (x.v /\ instr.cls = "pop") \/ do_bar
          <6>1. instr.cls \in {"pop", "bar"} BY <5>5, XCases
          <6> QED BY <5>1, <5>2, <6>1, InX, Decoded DEF instr
        <5> QED BY <4>3, <5>3, <5>4, <5>5 DEF pc_step
      <4> QED BY <4>1, <4>2, <4>3 DEF Completes
    <3> QED BY <2>6, <2>7, <3>2, <3>5, <3>6
  <2>14. r \notin pend'[k] => rf'[k][r] = L BY <1>2, <1>3, <2>10, <2>13
  <2> QED BY <1>1, <2>11, <2>12, <2>14 DEF L
<1> QED BY <1>6, <1>7

(* An instruction that issues reads in every register the value in-order   *)
(* execution of its warp would have put there, whatever the units, the     *)
(* engines and the write arbiter do (warp_pool.sv, sb_haz, register write  *)
(* arbiter).                                                               *)
THEOREM InOrder == Spec => []ReadsInOrder
<1>1. Init => ValuesRight BY DEF Init, ValuesRight, FreeState
<1>2. PoolInv /\ ValuesRight /\ [Next]_vars => ValuesRight'
  <2> SUFFICES ASSUME PoolInv, ValuesRight, [Next]_vars PROVE ValuesRight' OBVIOUS
  <2>1. CASE \E in \in Inputs : Cycle(in) BY <2>1, ValuesStep
  <2>2. CASE \E total \in 0 .. MaxWarps, blk \in Blocks : Start(total, blk)
    BY <2>2 DEF Start, ValuesRight, FreeState
  <2>3. CASE Idle
    <3>1. \A k \in Slots : wstate'[k] \in FreeState BY <2>3 DEF Idle, PoolInv, Resting
    <3> QED BY <3>1 DEF ValuesRight
  <2>4. CASE UNCHANGED vars
    <3>1. UNCHANGED <<kernel, wstate, pc, b, pend, rf, q, mem>> BY <2>4 DEF vars, pipe, board, units
    <3>2. ASSUME NEW k, NEW r PROVE LastWriter(Cur(k), r)' = LastWriter(Cur(k), r)
      BY <3>1 DEF Cur, LastWriter
    <3>3. Loads' = Loads /\ \A u : Pos(u)' = Pos(u) BY <3>1 DEF Loads, Pos
    <3> QED BY <3>1, <3>2, <3>3 DEF ValuesRight
  <2> QED BY <2>1, <2>2, <2>3, <2>4 DEF Next
<1>3. PoolInv /\ ValuesRight => ReadsInOrder
  <2> SUFFICES ASSUME PoolInv, ValuesRight, issue, NEW r \in instr.use \ {"x0"}
               PROVE  rf[x.w][r] = LastWriter(x.pc, r)
    BY DEF ReadsInOrder
  <2> USE DEF PoolInv
  <2>1. x.v /\ ~ RegHaz BY XCases DEF sb_haz
  <2>2. x.w \in Slots /\ wstate[x.w] = "W_RUN" /\ x.pc = pc[x.w] BY <2>1, InX
  <2>3. Cur(x.w) = x.pc BY <2>1, <2>2 DEF Cur, CaptureFresh
  <2>4. r \notin pend[x.w] BY <2>1 DEF RegHaz
  <2>5. r \in Regs \ {"x0"} BY InX, Decoded DEF instr, Instr
  <2> QED BY <2>2, <2>3, <2>4, <2>5 DEF ValuesRight, FreeState
<1> QED BY <1>1, <1>2, <1>3, PoolSafe, PTL DEF Spec

-----------------------------------------------------------------------------
(* The slots that host a warp. *)
Live == {k \in Slots : wstate[k] \notin FreeState}

(* GridInv, part by part.  Blocks are taken whole until the last.          *)
Aligned  == grid.next_wid <= grid.total_warps /\ (grid.next_wid = grid.total_warps \/ grid.next_wid % grid.blk = 0)
(* The warps of a group are of one block.                                  *)
SameBlock == \A j, k \in Live : Group(j) = Group(k) => wid[j] \div grid.blk = wid[k] \div grid.blk
(* Of two warps of a group exactly one waits at the barrier when they have *)
(* arrived at a different number of them, and both or none when at the     *)
(* same.  BarrierRound alone is not inductive: it says nothing of two      *)
(* warps that both wait.                                                   *)
AtBar(k) == wstate[k] = "W_BAR"
Rounds == \A j, k \in Live : Group(j) = Group(k) => (arrived[j] # arrived[k] <=> AtBar(j) # AtBar(k))
(* Warps are spawned in order, are in one slot or have retired, and none   *)
(* is left out.                                                            *)
Once ==
  running => /\ \A k \in Live : wid[k] \notin retired /\ wid[k] \in 0 .. grid.next_wid - 1
             /\ \A n \in 0 .. grid.next_wid - 1 : n \in retired \/ \E k \in Live : wid[k] = n
             /\ \A j, k \in Live : wid[j] = wid[k] => j = k
             /\ retired \subseteq 0 .. grid.next_wid - 1
(* The inductive invariant of the grid, on top of PoolInv.                 *)
GridInv == Aligned /\ SameBlock /\ Rounds /\ Once /\ DoneMeansDone

(* The grid registers are numbers. *)
LEMMA GridNats ==
  ASSUME TypeOK
  PROVE  /\ grid.total_warps \in Nat /\ grid.next_wid \in Nat /\ grid.blk \in Nat \ {0}
         /\ grid = [total_warps |-> grid.total_warps, next_wid |-> grid.next_wid, blk |-> grid.blk]
         /\ Slots \subseteq Nat
<1>1. Blocks \subseteq 1 .. NW BY DEF Blocks
<1>2. grid \in [total_warps : 0 .. MaxWarps, next_wid : 0 .. MaxWarps, blk : Blocks] BY DEF TypeOK
<1>3. grid.blk \in 1 .. NW BY <1>1, <1>2
<1> QED BY <1>2, <1>3, NWAssumption, SizeAssumption DEF Slots

(* The spawner fills a free group with the next warps of the grid, all of one block, and leaves none out. *)
LEMMA SpawnedBlock ==
  ASSUME TypeOK, Aligned, spawning
  PROVE  /\ \A k \in spawn_en : \A j \in Slots : Group(j) = Group(k) => wstate[j] \in FreeState
         /\ \A k \in spawn_en : /\ SpawnWid(k) \in grid.next_wid .. NextWid - 1
                                /\ SpawnWid(k) \div grid.blk = grid.next_wid \div grid.blk
         /\ \A j, k \in spawn_en : SpawnWid(j) = SpawnWid(k) => j = k
         /\ \A j, k \in spawn_en : Group(j) = Group(k)
         /\ \A n \in grid.next_wid .. NextWid - 1 : \E k \in spawn_en : SpawnWid(k) = n
         /\ NextWid \in Nat /\ grid.next_wid < NextWid /\ NextWid <= grid.total_warps
         /\ NextWid = grid.total_warps \/ NextWid % grid.blk = 0
<1> DEFINE g == SmallestOf(FreeGroups)
           n0 == grid.next_wid
           t == grid.total_warps
           c == grid.blk
<1>1. t \in Nat /\ n0 \in Nat /\ c \in Nat \ {0} /\ n0 < t /\ Slots \subseteq Nat BY GridNats DEF spawning
<1>2. NW \in Nat \ {0} BY NWAssumption
<1>3. FreeGroups \in SUBSET Nat /\ FreeGroups # {} BY DEF spawning, FreeGroups
<1>4. g \in FreeGroups BY <1>3, Smallest
<1>5. g \in Nat /\ GroupFree(g) /\ g <= (NW \div c) - 1 /\ NW \div c \in Nat
  <2>1. g \in 0 .. (NW \div c) - 1 /\ GroupFree(g) BY <1>4 DEF FreeGroups
  <2>2. NW \div c \in Nat BY <1>1, <1>2, Divide
  <2> QED BY <2>1, <2>2
<1>6. n0 % c = 0 BY <1>1 DEF Aligned
<1>7. PICK a \in Nat : n0 = c * a
  <2>1. n0 = c * (n0 \div c) + (n0 % c) /\ n0 \div c \in Nat BY <1>1, Divide
  <2>2. c * (n0 \div c) \in Nat BY <1>1, <2>1
  <2>3. n0 = c * (n0 \div c) BY <1>6, <2>1, <2>2
  <2> QED BY <2>1, <2>3
<1>8. NextWid = IF t - n0 < c THEN t ELSE n0 + c BY DEF NextWid
<1>9. \A k \in spawn_en : k \in Slots /\ k \div c = g /\ n0 + (k % c) < t
  BY DEF spawn_en, Group, SpawnWid
<1>10. \A k \in Slots : k \div c = g /\ n0 + (k % c) < t => k \in spawn_en BY DEF spawn_en, Group, SpawnWid
<1>11. \A k \in Slots : k % c \in 0 .. c - 1 /\ k \div c \in Nat /\ k = c * (k \div c) + (k % c) BY <1>1, Divide
<1>12. \A k : SpawnWid(k) = n0 + (k % c) /\ Group(k) = k \div c BY DEF SpawnWid, Group
<1>13. \A k \in spawn_en : \A j \in Slots : Group(j) = Group(k) => wstate[j] \in FreeState
  BY <1>5, <1>9, <1>12 DEF GroupFree, FreeState
<1> HIDE DEF g, n0, t, c
<1>14. \A k \in spawn_en : SpawnWid(k) \in n0 .. NextWid - 1 /\ SpawnWid(k) \div c = n0 \div c
  <2> SUFFICES ASSUME NEW k \in spawn_en PROVE SpawnWid(k) \in n0 .. NextWid - 1 /\ SpawnWid(k) \div c = n0 \div c
    OBVIOUS
  <2>1. k % c \in 0 .. c - 1 /\ n0 + (k % c) < t BY <1>9, <1>11
  <2>2. PICK d \in 0 .. c - 1 : d = k % c BY <2>1
  <2>3. SpawnWid(k) = n0 + d BY <1>12, <2>2
  <2>4. (c * a + d) \div c = a BY <1>1, DivideUnique
  <2>5. (c * a + 0) \div c = a BY <1>1, DivideUnique
  <2>6. c * a + 0 = c * a BY <1>1
  <2>7. n0 + d \in n0 .. NextWid - 1 BY <1>1, <1>8, <2>1, <2>2
  <2> QED BY <1>7, <2>3, <2>4, <2>5, <2>6, <2>7
<1>15. \A j, k \in spawn_en : SpawnWid(j) = SpawnWid(k) => j = k
  <2> SUFFICES ASSUME NEW j \in spawn_en, NEW k \in spawn_en, SpawnWid(j) = SpawnWid(k) PROVE j = k OBVIOUS
  <2>1. j % c \in 0 .. c - 1 /\ k % c \in 0 .. c - 1 /\ n0 + (j % c) = n0 + (k % c) BY <1>9, <1>11, <1>12
  <2>2. j % c = k % c BY <1>1, <2>1
  <2> QED BY <1>9, <1>11, <2>2
<1>16. \A j, k \in spawn_en : Group(j) = Group(k) BY <1>9, <1>12
<1>17. \A n \in n0 .. NextWid - 1 : \E k \in spawn_en : SpawnWid(k) = n
  <2> SUFFICES ASSUME NEW n \in n0 .. NextWid - 1 PROVE \E k \in spawn_en : SpawnWid(k) = n OBVIOUS
  <2>1. PICK d \in 0 .. c - 1 : n = n0 + d
    <3>1. n - n0 \in 0 .. c - 1 /\ n = n0 + (n - n0) BY <1>1, <1>8
    <3> QED BY <3>1
  <2>2. n < t BY <1>1, <1>8
  <2> DEFINE k == c * g + d
  <2>3. k \div c = g /\ k % c = d BY <1>1, <1>5, DivideUnique
  <2>4. k \in Slots
    <3>1. c * (NW \div c) <= NW
      <4>1. NW = c * (NW \div c) + (NW % c) /\ NW % c \in 0 .. c - 1 BY <1>1, <1>2, Divide
      <4>2. c * (NW \div c) \in Nat BY <1>1, <1>5
      <4> QED BY <1>1, <1>2, <4>1, <4>2
    <3>2. c * (g + 1) <= c * (NW \div c)
      <4>1. \A y, z \in Nat : y <= z => c * y <= c * z BY <1>1
      <4>2. g + 1 \in Nat /\ g + 1 <= NW \div c BY <1>5
      <4> QED BY <1>5, <4>1, <4>2
    <3>3. c * (g + 1) = c * g + c BY <1>1, <1>5
    <3>4. c * g \in Nat /\ c * (NW \div c) \in Nat BY <1>1, <1>5
    <3>5. c * g + d <= NW - 1 /\ c * g + d \in Nat BY <1>1, <1>2, <3>1, <3>2, <3>3, <3>4
    <3> QED BY <1>2, <3>5 DEF Slots
  <2>5. k \in spawn_en BY <1>10, <2>1, <2>2, <2>3, <2>4
  <2> QED BY <1>12, <2>1, <2>3, <2>5
<1>18. NextWid \in Nat /\ n0 < NextWid /\ NextWid <= t BY <1>1, <1>8
<1>19. NextWid = t \/ NextWid % c = 0
  <2>1. CASE t - n0 < c BY <1>8, <2>1
  <2>2. CASE ~ (t - n0 < c)
    <3>1. NextWid = c * a + c BY <1>7, <1>8, <2>2
    <3>2. c * a + c = c * (a + 1) + 0 /\ a + 1 \in Nat /\ 0 \in 0 .. c - 1 BY <1>1
    <3>3. (c * (a + 1) + 0) % c = 0 BY <1>1, <3>2, DivideUnique
    <3> QED BY <3>1, <3>2, <3>3
  <2> QED BY <2>1, <2>2
<1> QED BY <1>13, <1>14, <1>15, <1>16, <1>17, <1>18, <1>19 DEF n0, t, c

-----------------------------------------------------------------------------
(* Which slots host a warp after a clock, and which of them wait at the barrier. *)
LEMMA LiveStep ==
  ASSUME PoolInv, NEW in \in Inputs, Cycle(in)
  PROVE  /\ \A k : k \in Live' <=> (k \in Live /\ ~ (do_ecall /\ x.w = k)) \/ k \in spawn_en
         /\ spawn_en \cap Live = {} /\ spawn_en \subseteq Slots
         /\ \A k \in Live' : AtBar(k)' <=> (AtBar(k) /\ k \notin bar_release) \/ (do_bar /\ x.w = k)
         /\ \A k \in spawn_en : ~ AtBar(k)'
         /\ do_ecall \/ do_bar => x.w \in Live /\ wstate[x.w] = "W_RUN"
         /\ ~ (do_ecall /\ do_bar)
<1> USE DEF PoolInv
<1>1. spawn_en \subseteq Slots BY DEF spawn_en
<1>2. \A k \in spawn_en : wstate[k] \in FreeState BY Spawned
<1>3. do_ecall \/ do_bar => x.w \in Slots /\ wstate[x.w] = "W_RUN" BY InX, XCases
<1>4. ~ (do_ecall /\ do_bar) BY XCases
<1>5. ASSUME NEW k \in Slots
      PROVE  /\ wstate'[k] \notin FreeState
                  <=> (wstate[k] \notin FreeState /\ ~ (do_ecall /\ x.w = k)) \/ k \in spawn_en
             /\ wstate'[k] = "W_BAR" <=> (wstate[k] = "W_BAR" /\ k \notin bar_release) \/ (do_bar /\ x.w = k)
  <2>0. wstate[k] \in WStates BY DEF TypeOK
  <2>1. CASE wstate[k] \in FreeState BY <1>3, <2>1, StateStep DEF FreeState
  <2>2. CASE wstate[k] = "W_RUN" BY <1>2, <1>4, <2>2, StateStep DEF FreeState
  <2>3. CASE wstate[k] \in {"W_MEM", "W_SFU", "W_BAR"} BY <1>2, <1>3, <2>3, StateStep DEF FreeState
  <2> QED BY <2>0, <2>1, <2>2, <2>3 DEF WStates, FreeState
<1>6. \A k \in spawn_en : wstate'[k] = "W_RUN" BY <1>1, <1>2, StateStep
<1>7. "W_RUN" \notin FreeState BY DEF FreeState
<1> QED BY <1>1, <1>2, <1>3, <1>4, <1>5, <1>6, <1>7 DEF Live, AtBar

(* The grid registers after a clock.                                       *)
LEMMA GridStep ==
  ASSUME PoolInv, NEW in \in Inputs, Cycle(in)
  PROVE  /\ grid'.total_warps = grid.total_warps /\ grid'.blk = grid.blk
         /\ grid'.next_wid = IF spawning THEN NextWid ELSE grid.next_wid
         /\ \A k \in Slots : wid'[k] = IF k \in spawn_en THEN SpawnWid(k) ELSE wid[k]
         /\ \A k \in Slots : Group(k)' = Group(k)
         /\ ~ spawning => spawn_en = {}
<1>1. SpawnStep BY DEF Cycle
<1>2. /\ grid'.total_warps = grid.total_warps /\ grid'.blk = grid.blk
      /\ grid'.next_wid = IF spawning THEN NextWid ELSE grid.next_wid
  BY <1>1, GridNats DEF SpawnStep, PoolInv
<1>3. \A k \in Slots : wid'[k] = IF k \in spawn_en THEN SpawnWid(k) ELSE wid[k] BY <1>1 DEF SpawnStep
<1> QED BY <1>2, <1>3 DEF Group, spawn_en

(* The spawner stays at the start of a block.                              *)
LEMMA AlignedStep ==
  ASSUME PoolInv, GridInv, NEW in \in Inputs, Cycle(in)
  PROVE  Aligned'
<1>1. CASE spawning BY <1>1, GridStep, SpawnedBlock DEF Aligned, GridInv, PoolInv
<1>2. CASE ~ spawning BY <1>2, GridStep DEF Aligned, GridInv
<1> QED BY <1>1, <1>2

(* Warps share a group after a clock only if they shared it, or came together. *)
LEMMA Together ==
  ASSUME PoolInv, GridInv, NEW in \in Inputs, Cycle(in), NEW j \in Live', NEW k \in Live', Group(j) = Group(k)
  PROVE  \/ j \in spawn_en /\ k \in spawn_en
         \/ j \in Live /\ k \in Live /\ j \notin spawn_en /\ k \notin spawn_en
<1>1. j \in Slots /\ k \in Slots BY DEF Live
<1>2. spawn_en # {} => spawning BY GridStep
<1>3. j \in spawn_en => wstate[k] \in FreeState BY <1>1, <1>2, SpawnedBlock DEF PoolInv, GridInv
<1>4. k \in spawn_en => wstate[j] \in FreeState BY <1>1, <1>2, SpawnedBlock DEF PoolInv, GridInv
<1> QED BY <1>3, <1>4, LiveStep DEF Live

(* A group goes on hosting one block.                                      *)
LEMMA SameBlockStep ==
  ASSUME PoolInv, GridInv, NEW in \in Inputs, Cycle(in)
  PROVE  SameBlock'
<1> SUFFICES ASSUME NEW j \in Live', NEW k \in Live', Group(j) = Group(k)
             PROVE  wid'[j] \div grid.blk = wid'[k] \div grid.blk
  BY GridStep DEF SameBlock, Live
<1>1. j \in Slots /\ k \in Slots BY DEF Live
<1>2. CASE j \in spawn_en /\ k \in spawn_en
  <2>1. spawning BY <1>2, GridStep
  <2> QED BY <1>1, <1>2, <2>1, GridStep, SpawnedBlock DEF PoolInv, GridInv
<1>3. CASE j \in Live /\ k \in Live /\ j \notin spawn_en /\ k \notin spawn_en
  BY <1>1, <1>3, GridStep DEF GridInv, SameBlock
<1> QED BY <1>2, <1>3, Together

(* Within a block the warps at the barrier are exactly those a round ahead, or all are at it. *)
LEMMA RoundsStep ==
  ASSUME PoolInv, GridInv, NEW in \in Inputs, Cycle(in)
  PROVE  Rounds'
<1> USE DEF PoolInv
<1> SUFFICES ASSUME NEW j \in Live', NEW k \in Live', Group(j) = Group(k)
             PROVE  arrived'[j] # arrived'[k] <=> AtBar(j)' # AtBar(k)'
  BY GridStep DEF Rounds, Live
<1>1. j \in Slots /\ k \in Slots BY DEF Live
<1>2. \A i \in Slots : arrived'[i] = IF i \in spawn_en THEN 0 ELSE IF do_bar /\ x.w = i THEN 1 - arrived[i]
                                     ELSE arrived[i]
  BY DEF Cycle, HistoryStep
<1>3. arrived[j] \in {0, 1} /\ arrived[k] \in {0, 1} BY <1>1 DEF TypeOK
<1>4. CASE j \in spawn_en /\ k \in spawn_en
  <2>1. arrived'[j] = 0 /\ arrived'[k] = 0 BY <1>1, <1>2, <1>4
  <2>2. ~ AtBar(j)' /\ ~ AtBar(k)' BY <1>4, LiveStep
  <2> QED BY <2>1, <2>2 DEF AtBar
<1>5. CASE j \in Live /\ k \in Live /\ j \notin spawn_en /\ k \notin spawn_en
  <2>1. arrived[j] # arrived[k] <=> AtBar(j) # AtBar(k) BY <1>5 DEF GridInv, Rounds
  <2>2. \A i \in {j, k} : i \in bar_release => AtBar(j) /\ AtBar(k) /\ j \in bar_release /\ k \in bar_release
    BY <1>1, <1>5 DEF bar_release, Live, AtBar, FreeState
  <2>3. /\ AtBar(j)' <=> (AtBar(j) /\ j \notin bar_release) \/ (do_bar /\ x.w = j)
        /\ AtBar(k)' <=> (AtBar(k) /\ k \notin bar_release) \/ (do_bar /\ x.w = k)
    BY LiveStep
  <2>4. do_bar => ~ AtBar(x.w) BY LiveStep DEF AtBar
  <2>5. CASE j = k BY <2>5
  <2>6. CASE j # k /\ (j \in bar_release \/ k \in bar_release)
    <3>1. AtBar(j) /\ AtBar(k) /\ j \in bar_release /\ k \in bar_release BY <2>2, <2>6
    <3>2. ~ (do_bar /\ x.w = j) /\ ~ (do_bar /\ x.w = k) BY <2>4, <3>1
    <3>3. arrived'[j] = arrived[j] /\ arrived'[k] = arrived[k] BY <1>1, <1>2, <1>5, <3>2
    <3>4. ~ AtBar(j)' /\ ~ AtBar(k)' BY <2>3, <3>1, <3>2
    <3> QED BY <2>1, <3>1, <3>3, <3>4 DEF AtBar
  <2>7. CASE j # k /\ j \notin bar_release /\ k \notin bar_release
    <3>1. CASE do_bar /\ x.w = j
      <4>1. arrived'[j] = 1 - arrived[j] /\ arrived'[k] = arrived[k] BY <1>1, <1>2, <1>5, <2>7, <3>1
      <4>2. arrived'[j] # arrived'[k] <=> arrived[j] = arrived[k] BY <1>3, <4>1
      <4>3. ~ AtBar(j) /\ AtBar(j)' /\ (AtBar(k)' <=> AtBar(k)) BY <2>3, <2>4, <2>7, <3>1
      <4> QED BY <2>1, <4>2, <4>3 DEF AtBar
    <3>2. CASE do_bar /\ x.w = k
      <4>1. arrived'[k] = 1 - arrived[k] /\ arrived'[j] = arrived[j] BY <1>1, <1>2, <1>5, <2>7, <3>2
      <4>2. arrived'[j] # arrived'[k] <=> arrived[j] = arrived[k] BY <1>3, <4>1
      <4>3. ~ AtBar(k) /\ AtBar(k)' /\ (AtBar(j)' <=> AtBar(j)) BY <2>3, <2>4, <2>7, <3>2
      <4> QED BY <2>1, <4>2, <4>3 DEF AtBar
    <3>3. CASE ~ (do_bar /\ x.w = j) /\ ~ (do_bar /\ x.w = k)
      <4>1. arrived'[j] = arrived[j] /\ arrived'[k] = arrived[k] BY <1>1, <1>2, <1>5, <3>3
      <4>2. (AtBar(j)' <=> AtBar(j)) /\ (AtBar(k)' <=> AtBar(k)) BY <2>3, <2>7, <3>3
      <4> QED BY <2>1, <4>1, <4>2 DEF AtBar
    <3> QED BY <3>1, <3>2, <3>3
  <2> QED BY <2>5, <2>6, <2>7
<1> QED BY <1>4, <1>5, Together

(* A clock spawns the next warps, retires at most one, and done is raised  *)
(* when all have retired.                                                  *)
LEMMA OnceStep ==
  ASSUME PoolInv, GridInv, NEW in \in Inputs, Cycle(in)
  PROVE  Once' /\ DoneMeansDone'
<1> USE DEF PoolInv
<1> DEFINE n0 == grid.next_wid
           n1 == grid'.next_wid
           E == do_ecall
<1>1. running BY DEF Cycle
<1>2. /\ \A k \in Live : wid[k] \notin retired /\ wid[k] \in 0 .. n0 - 1
      /\ \A n \in 0 .. n0 - 1 : n \in retired \/ \E k \in Live : wid[k] = n
      /\ \A j, k \in Live : wid[j] = wid[k] => j = k
      /\ retired \subseteq 0 .. n0 - 1
  BY <1>1 DEF GridInv, Once
<1>3. retired' = IF E THEN retired \cup {wid[x.w]} ELSE retired BY DEF Cycle, HistoryStep
<1>4. E => x.w \in Live BY LiveStep
<1>5. \A k : k \in Live' <=> (k \in Live /\ ~ (E /\ x.w = k)) \/ k \in spawn_en BY LiveStep
<1>6. Live \subseteq Slots /\ spawn_en \subseteq Slots /\ spawn_en \cap Live = {} BY LiveStep DEF Live
<1>7. /\ \A k \in Live : wid'[k] = wid[k]
      /\ \A k \in spawn_en : wid'[k] = SpawnWid(k)
  BY <1>6, GridStep
<1>8. n0 \in Nat BY GridNats
<1>9. /\ n1 \in Nat /\ n0 <= n1
      /\ \A k \in spawn_en : wid'[k] \in n0 .. n1 - 1
      /\ \A j, k \in spawn_en : wid'[j] = wid'[k] => j = k
      /\ \A n \in n0 .. n1 - 1 : \E k \in spawn_en : wid'[k] = n
  <2>1. CASE spawning
    <3>1. n1 = NextWid BY <2>1, GridStep
    <3> QED BY <1>7, <1>8, <2>1, <3>1, SpawnedBlock DEF GridInv
  <2>2. CASE ~ spawning
    <3>1. n1 = n0 /\ spawn_en = {} BY <2>2, GridStep
    <3> QED BY <1>8, <3>1
  <2> QED BY <2>1, <2>2
<1> HIDE DEF n0, n1, E
<1>10. ASSUME NEW k \in Live' PROVE wid'[k] \notin retired' /\ wid'[k] \in 0 .. n1 - 1
  <2>1. CASE k \in Live /\ ~ (E /\ x.w = k)
    <3>1. wid'[k] = wid[k] /\ wid[k] \in 0 .. n0 - 1 /\ wid[k] \notin retired BY <1>2, <1>7, <2>1
    <3>2. E => wid[k] # wid[x.w] BY <1>2, <1>4, <2>1
    <3> QED BY <1>3, <1>8, <1>9, <3>1, <3>2
  <2>2. CASE k \in spawn_en
    <3>1. wid'[k] \in n0 .. n1 - 1 BY <1>9, <2>2
    <3>2. E => wid[x.w] \in 0 .. n0 - 1 BY <1>2, <1>4
    <3>3. \A m \in 0 .. n0 - 1 : m \notin n0 .. n1 - 1 BY <1>8
    <3>4. retired' \subseteq 0 .. n0 - 1 BY <1>2, <1>3, <3>2
    <3> QED BY <1>8, <3>1, <3>3, <3>4
  <2> QED BY <1>5, <2>1, <2>2
<1>11. ASSUME NEW n \in 0 .. n1 - 1 PROVE n \in retired' \/ \E k \in Live' : wid'[k] = n
  <2>1. CASE n \in 0 .. n0 - 1
    <3>1. CASE n \in retired BY <1>3, <3>1
    <3>2. CASE \E k \in Live : wid[k] = n
      <4>1. PICK k \in Live : wid[k] = n BY <3>2
      <4>2. CASE E /\ x.w = k BY <1>3, <4>1, <4>2
      <4>3. CASE ~ (E /\ x.w = k) BY <1>5, <1>7, <4>1, <4>3
      <4> QED BY <4>2, <4>3
    <3> QED BY <1>2, <2>1, <3>1, <3>2
  <2>2. CASE n \notin 0 .. n0 - 1
    <3>1. n \in n0 .. n1 - 1 BY <1>8, <1>9, <2>2
    <3> QED BY <1>5, <1>9, <3>1
  <2> QED BY <2>1, <2>2
<1>12. ASSUME NEW j \in Live', NEW k \in Live', wid'[j] = wid'[k] PROVE j = k
  <2>1. \A m \in 0 .. n0 - 1 : m \notin n0 .. n1 - 1 BY <1>8
  <2>2. \A i \in Live : wid'[i] \in 0 .. n0 - 1 BY <1>2, <1>7
  <2>3. \A i \in spawn_en : wid'[i] \notin 0 .. n0 - 1 BY <1>9, <2>1
  <2>4. (j \in Live /\ k \in Live) \/ (j \in spawn_en /\ k \in spawn_en)
    BY <1>5, <1>12, <2>2, <2>3
  <2> QED BY <1>2, <1>7, <1>9, <1>12, <2>4
<1>13. retired' \subseteq 0 .. n1 - 1
  <2>1. E => wid[x.w] \in 0 .. n0 - 1 BY <1>2, <1>4
  <2>2. retired' \subseteq 0 .. n0 - 1 BY <1>2, <1>3, <2>1
  <2> QED BY <1>8, <1>9, <2>2
<1>14. Once' BY <1>10, <1>11, <1>12, <1>13 DEF Once, n1
<1>15. ASSUME done' PROVE retired' = 0 .. grid'.total_warps - 1 /\ mem' = {}
  <2>1. ~ any_busy BY <1>15 DEF Cycle
  <2>2. mem = {} /\ n0 = grid.total_warps BY <2>1 DEF any_busy, n0
  <2>3. Live = {} BY <2>1 DEF any_busy, Live, TypeOK, WStates, FreeState
  <2>4. ~ spawning BY <2>2, GridNats DEF spawning, n0
  <2>5. ~ E BY <1>4, <2>3
  <2>6. ~ x.v BY <2>3, InX DEF Live, FreeState
  <2>7. ~ do_mem(in) BY <2>6, XCases
  <2>8. mem' = {} BY <2>2, <2>7, MemStep
  <2>9. retired' = retired /\ retired = 0 .. n0 - 1 BY <1>2, <1>3, <2>3, <2>5
  <2> QED BY <2>2, <2>8, <2>9, GridStep
<1> QED BY <1>14, <1>15 DEF DoneMeansDone

(* A pool that rests hosts no warp. *)
LEMMA NoneLive ==
  ASSUME PoolInv, ~ running
  PROVE  Live = {}
BY DEF PoolInv, Resting, Live

(* GridInv holds for every grid and every size of the pool.                *)
LEMMA GridInvHolds == Spec => []GridInv
<1>1. Init => GridInv
  <2> SUFFICES ASSUME Init PROVE GridInv OBVIOUS
  <2>1. Live = {} BY DEF Init, Live, FreeState
  <2>2. grid.next_wid = 0 /\ grid.total_warps = 0 /\ ~ running /\ ~ done BY DEF Init
  <2> QED BY <2>1, <2>2 DEF GridInv, Aligned, SameBlock, Rounds, Once, DoneMeansDone
<1>2. PoolInv /\ GridInv /\ [Next]_vars => GridInv'
  <2> SUFFICES ASSUME PoolInv, GridInv, [Next]_vars PROVE GridInv' OBVIOUS
  <2>1. CASE \E in \in Inputs : Cycle(in) BY <2>1, AlignedStep, SameBlockStep, RoundsStep, OnceStep DEF GridInv
  <2>2. CASE \E total \in 0 .. MaxWarps, blk \in Blocks : Start(total, blk)
    <3>1. PICK total \in 0 .. MaxWarps, blk \in Blocks : Start(total, blk) BY <2>2
    <3>2. Live' = {} BY <3>1 DEF Start, Live, FreeState
    <3>3. grid'.next_wid = 0 /\ grid'.total_warps = total /\ grid'.blk = blk /\ ~ done' /\ retired' = {}
      BY <3>1 DEF Start
    <3>4. blk \in Nat \ {0} /\ total \in Nat BY SizeAssumption DEF Blocks
    <3>5. 0 % blk = 0 BY <3>4
    <3> QED BY <3>2, <3>3, <3>4, <3>5 DEF GridInv, Aligned, SameBlock, Rounds, Once, DoneMeansDone
  <2>3. CASE Idle
    <3>1. UNCHANGED <<grid, wstate, running>> /\ ~ done' /\ ~ running BY <2>3 DEF Idle
    <3>2. Live' = {} BY <3>1, NoneLive DEF Live
    <3> QED BY <3>1, <3>2 DEF GridInv, Aligned, SameBlock, Rounds, Once, DoneMeansDone
  <2>4. CASE UNCHANGED vars
    <3>1. UNCHANGED <<running, done, grid, wstate, wid, mem, retired, arrived>>
      BY <2>4 DEF vars, units
    <3> QED BY <3>1 DEF GridInv, Aligned, SameBlock, Rounds, Once, DoneMeansDone, Live, Group, AtBar
  <2> QED BY <2>1, <2>2, <2>3, <2>4 DEF Next
<1> QED BY <1>1, <1>2, PoolSafe, PTL DEF Spec

(* A slot is free or hosts a warp.                                         *)
LEMMA FreeAndLive ==
  ASSUME TypeOK
  PROVE  Slots \ Free = Live
BY DEF Free, Live, FreeState

(* The warps in a group of slots are of one block, so that they share a    *)
(* barrier and a shared window (warp_pool.sv, gfree, spawn_en).            *)
THEOREM BlocksApart == Spec => []OneBlock
<1>1. PoolInv /\ GridInv => OneBlock BY FreeAndLive DEF PoolInv, GridInv, SameBlock, OneBlock
<1> QED BY <1>1, PoolSafe, GridInvHolds, PTL

(* Warps of one block are never more than a barrier apart (warp_pool.sv,   *)
(* bar_release).                                                           *)
THEOREM RoundsHold == Spec => []BarrierRound
<1>1. PoolInv /\ GridInv => BarrierRound
  BY FreeAndLive DEF PoolInv, GridInv, Rounds, BarrierRound, AtBar
<1> QED BY <1>1, PoolSafe, GridInvHolds, PTL

(* Every warp of a grid runs once, and done means that all have retired    *)
(* and the memory engine is empty (warp_pool.sv, next_wid, any_busy,       *)
(* done).                                                                  *)
THEOREM EveryWarpOnce == Spec => []GridExact
<1>1. PoolInv /\ GridInv => GridExact
  <2> SUFFICES ASSUME PoolInv, GridInv, running
               PROVE  /\ {wid[k] : k \in Live} \cap retired = {}
                      /\ {wid[k] : k \in Live} \cup retired = 0 .. grid.next_wid - 1
                      /\ Cardinality({wid[k] : k \in Live}) = Cardinality(Live)
                      /\ grid.next_wid <= grid.total_warps
    BY FreeAndLive DEF PoolInv, GridInv, GridExact, WarpsOnce
  <2> DEFINE live == {wid[k] : k \in Live}
             f == [k \in Live |-> wid[k]]
  <2>1. /\ \A k \in Live : wid[k] \notin retired /\ wid[k] \in 0 .. grid.next_wid - 1
        /\ \A n \in 0 .. grid.next_wid - 1 : n \in retired \/ \E k \in Live : wid[k] = n
        /\ \A j, k \in Live : wid[j] = wid[k] => j = k
        /\ retired \subseteq 0 .. grid.next_wid - 1
    BY DEF GridInv, Once
  <2>2. live \cap retired = {} /\ live \cup retired = 0 .. grid.next_wid - 1
    <3>1. \A n \in live : \E k \in Live : n = wid[k] OBVIOUS
    <3>2. \A k \in Live : wid[k] \in live OBVIOUS
    <3> HIDE DEF live
    <3>3. live \cap retired = {} BY <2>1, <3>1
    <3>4. live \subseteq 0 .. grid.next_wid - 1 BY <2>1, <3>1
    <3>5. \A n \in 0 .. grid.next_wid - 1 : n \in live \cup retired BY <2>1, <3>2
    <3> QED BY <2>1, <3>3, <3>4, <3>5
  <2>3. f \in Bijection(Live, live)
    BY <2>1 DEF Bijection, Injection, Surjection, IsInjective
  <2>4. IsFiniteSet(Live)
    <3>1. IsFiniteSet(Slots) BY NWAssumption, FS_Interval DEF Slots
    <3> QED BY <3>1, FS_Subset DEF Live
  <2>5. ExistsBijection(Live, live) BY <2>3 DEF ExistsBijection
  <2> HIDE DEF live
  <2>6. Cardinality(live) = Cardinality(Live) BY <2>4, <2>5, FS_Bijection
  <2> QED BY <2>2, <2>6 DEF live, GridInv, Aligned
<1> QED BY <1>1, PoolSafe, GridInvHolds, PTL
=============================================================================
