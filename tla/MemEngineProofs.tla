--------------------------- MODULE MemEngineProofs --------------------------
(***************************************************************************)
(* Proofs about the memory engine: in every build, and whatever the order  *)
(* of grants and answers, its state keeps its types and every answer has   *)
(* one owner (AnswersOwned). Both follow from the inductive invariant      *)
(* EngInv. A clock cycle is one action with many parts, so the proof first *)
(* names what happens in it (Ticks: the instruction accepted, the request  *)
(* sent, the one granted, the answer, the contexts that finish), says what *)
(* each can be (FireFacts, GrantFacts, AnswerFacts) and what becomes of    *)
(* one context, one tag and one lane (CtxStep, TagStep, LaneStep), and     *)
(* then takes the conjuncts of EngInv one by one. The second half of the   *)
(* module is the refinement of AtomicMemory.                               *)
(***************************************************************************)
EXTENDS MemEngine, FiniteSetTheorems, SequenceTheorems, TLAPS

(* OpsOk: the instructions accepted and the registers kept for them.       *)
OpsOk == op \in Seq(OpLib) /\ got \in Seq([Lane -> Val \cup {None}]) /\ Len(got) = Len(op)
(* A context that is not free holds an instruction; one that is complete   *)
(* waits for nothing; one inside a read-modify-write has lanes to serve.   *)
CtxOk ==
  \A c \in Cx :
    /\ ctx[c].st = "free" => ctx[c] = FreeCtx
    /\ c_busy(c) => ctx[c].id \in 1 .. Len(op)
    /\ ctx[c].st = "done" => ctx[c].pend = {} /\ ctx[c].cnt = 0 /\ ctx[c].ph = "AP_RD"
    /\ ctx[c].ph # "AP_RD" => c_locked(c) /\ ctx[c].st = "busy" /\ ctx[c].pend # {}
    /\ ctx[c].ph = "AP_AGG" => am.left # {}
OneLock == \A c, d \in Locked : c = d
(* A request that is out belongs to the context that sent it; the read of  *)
(* an AMO has the lanes of the round, and its answer is what memory holds. *)
Owns(c, t) ==
  /\ Global(c) /\ (tags[t].kind = "MK_LOAD" <=> P(c).kind = "load")
  /\ tags[t].kind = "MK_AMORD" =>
       /\ ctx[c].ph = "AP_WAIT" /\ tags[t].mask = mreq_mask(c)
       /\ resp[t] \in {NoData, ReadLine(LineOf(P(c).addr[c_lead(c)]))}
TagOk(t) == IF tags[t].v THEN \E c \in Cx : tags[t].c = c /\ Owns(c, t) ELSE resp[t] = NoData
AmoReads == {t \in Tg : tags[t].v /\ tags[t].kind = "MK_AMORD"}
TagsOk ==
  /\ \A t \in Tg : TagOk(t)
  /\ \A t, u \in AmoReads : t = u
(* The request stage holds a request that is out and not granted; while an *)
(* AMO is locked it can only be the AMO's read.                            *)
StageOk ==
  /\ conf.BYP => o = NoReq
  /\ o # NoReq =>
       /\ o.c \in Cx /\ o.tag \in Tg /\ resp[o.tag] = NoData
       /\ tags[o.tag] = [v |-> TRUE, c |-> o.c, mask |-> o.mask, kind |-> o.kind]
       /\ \E x \in 0 .. Words - 1 : o.line = LineOf(x)
       /\ o.kind = "MK_AMORD" => o.line = LineOf(P(o.c).addr[c_lead(o.c)])
       /\ Locked # {} => o.c \in Locked /\ o.kind = "MK_AMORD"
(* Every lane of an instruction that returns a value is pending, has its   *)
(* value, or is in a load that is out; in a round of an AMO the lanes that *)
(* are not left have theirs.                                               *)
Has(c, l) == got[ctx[c].id][l] # None
Loading(c, l) ==
  \E t \in Tg : tags[t].v /\ tags[t].c = c /\ tags[t].kind = "MK_LOAD" /\ l \in tags[t].mask
ServedOk ==
  \A c \in Cx : c_busy(c) /\ Returns(P(c)) =>
    /\ \A l \in P(c).mask : l \in ctx[c].pend \/ Has(c, l) \/ Loading(c, l)
    /\ ctx[c].ph = "AP_AGG" => \A l \in mreq_mask(c) : l \in am.left \/ Has(c, l)
    /\ ctx[c].ph = "AP_WR" => \A l \in mreq_mask(c) : Has(c, l)
(* A context that waits for the scratchpad has a lane to serve.            *)
ScratchOk == \A c \in Cx : ctx[c].st = "busy" /\ P(c).scratch => ctx[c].pend # {}
(* Outside the words it touched, a locked AMO's line is what memory holds. *)
LineOk ==
  \A c \in Cx : ctx[c].ph \in {"AP_AGG", "AP_WR"} =>
    \A w \in Off \ am.touch : am.line[w] = mem[LineOf(P(c).addr[c_lead(c)]) * LW + w]

(* The inductive invariant.                                                *)
EngInv ==
  /\ OpsOk /\ TypeOK /\ CtxOk /\ OneLock /\ TagsOk /\ StageOk /\ TagsMatch /\ ServedOk
  /\ LineOk /\ ScratchOk /\ Delivered

-----------------------------------------------------------------------------
(* Division, for the addresses of words, lines and scratchpad regions.     *)
LEMMA DivMod ==
  ASSUME NEW a \in Nat, NEW b \in Nat \ {0}
  PROVE  /\ a \div b \in Nat /\ a % b \in 0 .. b - 1
         /\ a = b * (a \div b) + (a % b)
OBVIOUS

(* A region of b words within m regions has its words within m * b.        *)
LEMMA Region ==
  ASSUME NEW m \in Nat, NEW b \in Nat \ {0}, NEW k \in 0 .. m - 1, NEW r \in 0 .. b - 1
  PROVE  k * b + r \in 0 .. m * b - 1
<1>1. k \in Nat /\ r \in Nat OBVIOUS
<1>2. k * b \in Nat /\ m * b \in Nat BY <1>1
<1>3. (k + 1) * b <= m * b
  <2>1. \A x, y, z \in Nat : x <= y => x * z <= y * z
    <3>1. ASSUME NEW x \in Nat, NEW y \in Nat, NEW z \in Nat, x <= y
          PROVE  x * z <= y * z
      <4>1. PICK d \in Nat : y = x + d
        <5>1. y - x \in Nat /\ y = x + (y - x) BY <3>1
        <5> QED BY <5>1
      <4>2. y * z = x * z + d * z BY <4>1
      <4>3. x * z \in Nat /\ d * z \in Nat OBVIOUS
      <4> QED BY <4>2, <4>3
    <3> QED BY <3>1
  <2>2. k + 1 \in Nat /\ k + 1 <= m OBVIOUS
  <2> QED BY <2>1, <2>2
<1>4. (k + 1) * b = k * b + b BY <1>1
<1> QED BY <1>1, <1>2, <1>3, <1>4

(* Which region a word is in.                                              *)
LEMMA RegionOf ==
  ASSUME NEW m \in Nat, NEW b \in Nat \ {0}, NEW x \in 0 .. m * b - 1
  PROVE  x \div b \in 0 .. m - 1
<1>1. x \in Nat /\ m * b \in Nat OBVIOUS
<1>2. x \div b \in Nat /\ x % b \in 0 .. b - 1 /\ x = b * (x \div b) + (x % b) BY <1>1, DivMod
<1>3. ASSUME x \div b >= m PROVE FALSE
  <2>1. PICK d \in Nat : x \div b = m + d
    <3>1. (x \div b) - m \in Nat /\ x \div b = m + ((x \div b) - m) BY <1>2, <1>3
    <3> QED BY <3>1
  <2>2. b * (x \div b) = m * b + d * b BY <2>1
  <2>3. d * b \in Nat OBVIOUS
  <2>4. b * (x \div b) \in Nat BY <1>2
  <2> QED BY <1>1, <1>2, <2>2, <2>3, <2>4
<1> QED BY <1>2, <1>3

(* One clock cycle, its choices and what follows from them named: the      *)
(* instruction n accepted, the grant gnt, the tag answered rt, the request *)
(* f sent, the answer a, the request g granted and the contexts fin done.  *)
Ticks(n, gnt, rt, f, a, g, fin) ==
  /\ gnt \in BOOLEAN /\ rt \in 0 .. MQD /\ MayAnswer(gnt, rt)
  /\ g = (IF gnt THEN q ELSE NoReq) /\ f = Sent(gnt) /\ a = Answer(rt) /\ fin = Fin(f, a)
  /\ Memory(g, rt) /\ RequestStage(gnt, f) /\ TagTable(rt, f, a)
  /\ Contexts(n, f, a, fin) /\ Resume(fin)
  /\ InputReg(n) /\ LineBuffer(a) /\ Scratchpad(a) /\ Writeback(n, a)
  /\ UNCHANGED conf
  /\ \/ n = 0 /\ op' = op
     \/ /\ n = Len(op) + 1 /\ Len(op) < MaxOps
        /\ \E p \in OpLib : in_ready(p) /\ op' = Append(op, p)

(* Every step of the engine is such a cycle.                               *)
LEMMA StepTicks ==
  ASSUME Next
  PROVE  \E n, gnt, rt, f, a, g, fin : Ticks(n, gnt, rt, f, a, g, fin)
<1>1. PICK gnt \in BOOLEAN, rt \in 0 .. MQD : Quiet(gnt, rt) \/ \E p \in OpLib : Issue(p, gnt, rt)
  BY DEF Next
<1>2. PICK n : /\ Cycle(n, gnt, rt)
               /\ \/ n = 0 /\ op' = op
                  \/ /\ n = Len(op) + 1 /\ Len(op) < MaxOps
                     /\ \E p \in OpLib : in_ready(p) /\ op' = Append(op, p)
  BY <1>1 DEF Quiet, Issue
<1> QED BY <1>2 DEF Cycle, Ticks

(* Min is the least of its set.                                            *)
LEMMA Least ==
  ASSUME NEW S \in SUBSET Nat, S # {}
  PROVE  Min(S) \in S /\ \A m \in S : Min(S) <= m
<1> DEFINE R == {ss \in Nat \X Nat : ss[1] < ss[2]}
<1>1. IsWellFoundedOn(R, Nat) BY NatLessThanWellFounded, Zenon DEF OpToRel
<1>2. PICK n \in S : \A m \in S : ~ (<<m, n>> \in R)
  <2> HIDE DEF R
  <2> QED BY <1>1, WFMin
<1>3. ASSUME NEW m \in S PROVE n <= m
  <2>1. m \in Nat /\ n \in Nat OBVIOUS
  <2>2. ASSUME m < n PROVE <<m, n>> \in R BY <2>1, <2>2
  <2> QED BY <1>2, <2>1, <2>2
<1> QED BY <1>2, <1>3 DEF Min

(* Max is the greatest of its set.                                         *)
LEMMA Greatest ==
  ASSUME NEW n \in Nat, NEW S \in SUBSET (1 .. n), S # {}
  PROVE  Max(S) \in S /\ \A m \in S : Max(S) >= m
<1> DEFINE R == {ss \in Nat \X Nat : ss[1] < ss[2]}
           T == {n - s : s \in S}
<1>1. IsWellFoundedOn(R, Nat) BY NatLessThanWellFounded, Zenon DEF OpToRel
<1>2. T \subseteq Nat /\ T # {}
  <2>1. PICK s \in S : TRUE OBVIOUS
  <2>2. n - s \in T BY <2>1
  <2> QED BY <2>2
<1>3. PICK t \in T : \A m \in T : ~ (<<m, t>> \in R)
  <2> HIDE DEF R, T
  <2> QED BY <1>1, <1>2, WFMin
<1>4. PICK s \in S : t = n - s BY <1>3
<1>5. ASSUME NEW m \in S PROVE s >= m
  <2>1. n - m \in T /\ n - m \in Nat /\ t \in Nat OBVIOUS
  <2>2. ASSUME m > s PROVE <<n - m, t>> \in R BY <2>1, <2>2, <1>4
  <2> QED BY <1>3, <2>1, <2>2
<1> QED BY <1>5 DEF Max

(* The one locked context is the one lock_c names.                         *)
LEMMA TheLock == ASSUME OneLock, NEW c \in Locked PROVE lock_c = c
<1>1. Locked = {c} /\ c \in Int BY DEF OneLock, Locked, Cx
<1> QED BY <1>1 DEF lock_c, Max

(* The rotation chooses a context that wants the port.                     *)
LEMMA TheRotation == ASSUME rr \in Cx, Wanting # {} PROVE rot_c \in Wanting
<1> DEFINE R == {ss \in Nat \X Nat : ss[1] < ss[2]}
           T == {(c - rr) % NC : c \in Wanting}
<1>1. IsWellFoundedOn(R, Nat) BY NatLessThanWellFounded, Zenon DEF OpToRel
<1>2. NC \in Nat \ {0} BY EngineAssumption
<1>3. \A c \in Wanting : (c - rr) % NC \in Nat
  <2>1. \A x \in Int : x % NC \in Nat BY <1>2
  <2> QED BY <2>1 DEF Wanting, Cx
<1>4. PICK t \in T : \A m \in T : ~ (<<m, t>> \in R)
  <2>1. T \subseteq Nat /\ T # {} BY <1>3
  <2> HIDE DEF R, T
  <2> QED BY <1>1, <2>1, WFMin
<1>5. PICK c \in Wanting : t = (c - rr) % NC BY <1>4
<1>6. ASSUME NEW d \in Wanting PROVE (c - rr) % NC <= (d - rr) % NC
  <2> DEFINE k == (d - rr) % NC
  <2>1. k \in T /\ k \in Nat /\ t \in Nat BY <1>3, <1>5
  <2> HIDE DEF k
  <2>2. ASSUME k < t PROVE <<k, t>> \in R BY <2>1, <2>2
  <2>3. t <= k BY <1>4, <2>1, <2>2
  <2> QED BY <1>5, <2>3 DEF k
<1> QED BY <1>6 DEF rot_c

(* What a context stands for, the lead lane and the lines.                 *)
LEMMA OpFacts ==
  ASSUME OpsOk, TypeOK, NEW n \in 1 .. Len(op)
  PROVE  /\ op[n] \in OpLib /\ op[n] \in Op
         /\ op[n].mask \subseteq Lane /\ op[n].addr \in [Lane -> 0 .. Words - 1]
         /\ op[n].data \in [Lane -> Val] /\ op[n].w \in Warp
         /\ op[n].kind \in {"load", "store", "amo"}
         /\ op[n].fn \in {"add", "swap", "minu", "maxu"} /\ op[n].scratch \in BOOLEAN
         /\ op[n].shared \in BOOLEAN /\ op[n].wb \in BOOLEAN
<1>1. op[n] \in OpLib BY DEF TypeOK
<1>2. op[n] \in Op BY <1>1, OpAssumption
<1> QED BY <1>1, <1>2 DEF Op

(* What the instruction of a busy context is.                              *)
LEMMA BusyFacts ==
  ASSUME OpsOk, TypeOK, CtxOk, NEW c \in Cx, c_busy(c)
  PROVE  /\ ctx[c].id \in 1 .. Len(op) /\ P(c) \in OpLib /\ P(c) \in Op
         /\ P(c).mask \subseteq Lane /\ P(c).addr \in [Lane -> 0 .. Words - 1]
         /\ P(c).data \in [Lane -> Val] /\ P(c).w \in Warp
         /\ P(c).kind \in {"load", "store", "amo"}
         /\ P(c).fn \in {"add", "swap", "minu", "maxu"} /\ P(c).scratch \in BOOLEAN
         /\ P(c).wb \in BOOLEAN
         /\ ctx[c].pend \subseteq Lane
<1>1. ctx[c].id \in 1 .. Len(op) BY DEF CtxOk
<1>2. ctx[c].pend \subseteq Lane BY DEF TypeOK
<1> QED BY <1>1, <1>2, OpFacts DEF P

(* The lead lane of a context that has lanes pending is in its next        *)
(* request.                                                                *)
LEMMA LeadFacts ==
  ASSUME TypeOK, NEW c \in Cx, ctx[c].pend # {}
  PROVE  /\ c_lead(c) \in ctx[c].pend /\ c_lead(c) \in Lane
         /\ c_lead(c) \in mreq_mask(c) /\ mreq_mask(c) \subseteq ctx[c].pend
<1>1. ctx[c].pend \in SUBSET Lane BY DEF TypeOK
<1>2. ctx[c].pend \in SUBSET Nat BY <1>1 DEF Lane
<1>3. c_lead(c) \in ctx[c].pend BY <1>2, Least DEF c_lead
<1> QED BY <1>1, <1>3 DEF mreq_mask, c_grp

(* The words of a line are words of the memory.                            *)
LEMMA WordOfLine ==
  ASSUME NEW x \in 0 .. Words - 1, NEW w \in Off
  PROVE  LineOf(x) * LW + w \in 0 .. Words - 1
<1>1. Words \in Nat \ {0} /\ LW \in Nat \ {0} /\ Words % LW = 0
  BY SizeAssumption, EngineAssumption
<1> DEFINE m == Words \div LW
<1>2. m \in Nat /\ Words = m * LW
  <2>1. m \in Nat /\ Words = LW * m + (Words % LW) BY <1>1, DivMod
  <2>2. LW * m = m * LW BY <1>1, <2>1
  <2> HIDE DEF m
  <2> QED BY <1>1, <2>1, <2>2
<1> HIDE DEF m
<1>3. x \in 0 .. m * LW - 1 BY <1>2
<1>4. x \div LW \in 0 .. m - 1 BY <1>1, <1>2, <1>3, RegionOf
<1>5. (x \div LW) * LW + w \in 0 .. m * LW - 1 BY <1>1, <1>2, <1>4, Region DEF Off
<1> QED BY <1>2, <1>5 DEF LineOf

(* A line read from memory is a line of values.                            *)
LEMMA LineType ==
  ASSUME TypeOK, NEW x \in 0 .. Words - 1
  PROVE  /\ ReadLine(LineOf(x)) \in [Off -> Val] /\ LineOf(x) \in 0 .. Words \div LW
         /\ x % LW \in Off
<1>1. \A w \in Off : LineOf(x) * LW + w \in 0 .. Words - 1 BY WordOfLine
<1>2. mem \in [0 .. Words - 1 -> Val] BY DEF TypeOK
<1>3. LW \in Nat \ {0} /\ Words \in Nat \ {0} BY SizeAssumption, EngineAssumption
<1>4. x \in Nat /\ x \div LW \in Nat /\ x % LW \in 0 .. LW - 1
  <2>1. x \in Nat BY <1>3
  <2> QED BY <1>3, <2>1, DivMod
<1>5. x \div LW <= Words \div LW
  <2>1. Words \div LW \in Nat /\ Words = LW * (Words \div LW) + (Words % LW) BY <1>3, DivMod
  <2>2. Words % LW = 0 BY EngineAssumption
  <2> DEFINE m == Words \div LW
  <2>3. Words = m * LW
    <3>1. LW * m = m * LW BY <1>3, <2>1
    <3> HIDE DEF m
    <3> QED BY <1>3, <2>1, <2>2, <3>1 DEF m
  <2> HIDE DEF m
  <2>4. m \in Nat BY <2>1 DEF m
  <2>5. x \div LW \in 0 .. m - 1 BY <1>3, <2>3, <2>4, RegionOf
  <2>6. x \div LW <= m BY <1>4, <2>4, <2>5
  <2> QED BY <2>6 DEF m
<1> QED BY <1>1, <1>2, <1>3, <1>4, <1>5 DEF ReadLine, LineOf, Off

(* The scratch word of a lane is in the scratchpad, in either view         *)
(* (sc_a).                                                                 *)
LEMMA ScratchWord ==
  ASSUME NEW p \in Op, NEW l \in Lane
  PROVE  sc_a(p, l) \in 0 .. NW * ScrWords - 1
<1>1. /\ NW \in Nat \ {0} /\ ScrWords \in Nat \ {0} /\ BLK \in Nat \ {0}
  BY SizeAssumption
<1>2. p.w \in 0 .. NW - 1 /\ p.addr[l] \in Nat BY DEF Op, Warp
<1> DEFINE field == IF p.shared THEN (p.w \div BLK) * BLK + ((p.addr[l] \div ScrWords) % BLK) ELSE p.w
           m == NW \div BLK
<1>3. m \in Nat /\ NW = m * BLK
  <2>1. m \in Nat /\ NW = BLK * m + (NW % BLK) BY <1>1, DivMod
  <2>2. BLK * m = m * BLK BY <1>1, <2>1
  <2> HIDE DEF m
  <2> QED BY <1>1, <2>1, <2>2, BlockAssumption
<1>4. (p.w \div BLK) * BLK + ((p.addr[l] \div ScrWords) % BLK) \in 0 .. NW - 1
  <2> HIDE DEF m
  <2>1. p.w \div BLK \in 0 .. m - 1 BY <1>1, <1>2, <1>3, RegionOf
  <2>2. p.addr[l] \div ScrWords \in Nat BY <1>1, <1>2, DivMod
  <2> DEFINE r == (p.addr[l] \div ScrWords) % BLK
  <2>3. r \in 0 .. BLK - 1 BY <1>1, <2>2, DivMod
  <2> HIDE DEF r
  <2>4. (p.w \div BLK) * BLK + r \in 0 .. m * BLK - 1 BY <1>1, <1>3, <2>1, <2>3, Region
  <2> QED BY <1>3, <2>4 DEF r
<1>5. field \in 0 .. NW - 1 BY <1>2, <1>4
<1>6. p.addr[l] % ScrWords \in 0 .. ScrWords - 1 BY <1>1, <1>2, DivMod
<1> HIDE DEF field
<1>7. field * ScrWords + (p.addr[l] % ScrWords) \in 0 .. NW * ScrWords - 1
  BY <1>1, <1>5, <1>6, Region
<1> QED BY <1>7 DEF sc_a, field

(* The AMO unit returns a value.                                           *)
LEMMA AluType ==
  ASSUME NEW fn \in {"add", "swap", "minu", "maxu"}, NEW m \in Val, NEW v \in Val
  PROVE  amo_alu(fn, m, v) \in Val
<1>1. V \in Nat \ {0} BY SizeAssumption
<1>2. m + v \in Nat BY DEF Val
<1>3. (m + v) % V \in 0 .. V - 1 BY <1>1, <1>2, DivMod
<1> QED BY <1>3 DEF amo_alu, Val

(* The request sent this cycle, the one granted and the answer.            *)
LEMMA FireFacts ==
  ASSUME EngInv, NEW n, NEW gnt, NEW rt, NEW f, NEW a, NEW g, NEW fin, Ticks(n, gnt, rt, f, a, g, fin)
  PROVE  \/ f = NoReq
         \/ /\ f # NoReq /\ f = mreq /\ f.c \in Wanting /\ f.c \in Cx /\ f.tag \in Tg /\ ~tags[f.tag].v
            /\ f.mask = mreq_mask(f.c) /\ f.kind = mreq_kind(f.c)
            /\ f.line = LineOf(P(f.c).addr[c_lead(f.c)])
            /\ DOMAIN f = {"c", "mask", "kind", "tag", "line"}
            /\ (Locked # {} => f.c \in Locked) /\ (conf.BYP => gnt) /\ (o = NoReq \/ gnt)
<1> SUFFICES ASSUME f # NoReq
             PROVE  /\ f = mreq /\ f.c \in Wanting /\ f.c \in Cx /\ f.tag \in Tg /\ ~tags[f.tag].v
                    /\ f.mask = mreq_mask(f.c) /\ f.kind = mreq_kind(f.c)
                    /\ f.line = LineOf(P(f.c).addr[c_lead(f.c)])
                    /\ DOMAIN f = {"c", "mask", "kind", "tag", "line"}
                    /\ (Locked # {} => f.c \in Locked) /\ (conf.BYP => gnt) /\ (o = NoReq \/ gnt)
  OBVIOUS
<1>1. f = mreq /\ mreq_fire(gnt) BY DEF Ticks, Sent
<1>2. mreq_valid /\ (conf.BYP => gnt) /\ (o = NoReq \/ gnt) BY <1>1 DEF mreq_fire
<1>3. sel \in Wanting /\ (Locked # {} => sel \in Locked)
  <2>1. CASE Locked # {}
    <3>1. PICK c \in Locked : TRUE BY <2>1
    <3>2. lock_c = c BY <3>1, TheLock DEF EngInv
    <3>3. c_want(c) BY <1>2, <2>1, <3>2 DEF mreq_valid
    <3> QED BY <2>1, <3>1, <3>2, <3>3 DEF sel, Wanting, Locked
  <2>2. CASE Locked = {}
    <3>1. Wanting # {} BY <1>2, <2>2 DEF mreq_valid
    <3>2. rr \in Cx BY DEF EngInv, TypeOK
    <3>3. rot_c \in Wanting BY <3>1, <3>2, TheRotation
    <3> QED BY <2>2, <3>3 DEF sel
  <2> QED BY <2>1, <2>2
<1>4. alloc_t \in Tg /\ ~tags[alloc_t].v
  <2> DEFINE S == {t \in Tg : ~tags[t].v}
  <2>1. S # {} BY <1>2 DEF mreq_valid, tag_ok
  <2>2. S \in SUBSET Nat BY EngineAssumption DEF Tg
  <2>3. Min(S) \in S BY <2>1, <2>2, Least
  <2> QED BY <2>3 DEF alloc_t
<1>5. /\ mreq.c = sel /\ mreq.mask = mreq_mask(sel) /\ mreq.kind = mreq_kind(sel) /\ mreq.tag = alloc_t
      /\ mreq.line = LineOf(P(sel).addr[c_lead(sel)])
      /\ DOMAIN mreq = {"c", "mask", "kind", "tag", "line"}
  BY DEF mreq
<1>6. sel \in Cx BY <1>3 DEF Wanting
<1> QED BY <1>1, <1>2, <1>3, <1>4, <1>5, <1>6

(* The request granted is the one in the stage or, with the bypass, the    *)
(* one sent.                                                               *)
LEMMA GrantFacts ==
  ASSUME EngInv, NEW n, NEW gnt, NEW rt, NEW f, NEW a, NEW g, NEW fin, Ticks(n, gnt, rt, f, a, g, fin)
  PROVE  \/ g = NoReq
         \/ ~conf.BYP /\ gnt /\ g = o /\ o # NoReq
         \/ conf.BYP /\ gnt /\ g = f /\ f # NoReq
<1>1. CASE ~gnt BY <1>1 DEF Ticks
<1>2. CASE gnt /\ ~conf.BYP
  <2>1. g = o BY <1>2 DEF Ticks, q
  <2> QED BY <1>2, <2>1
<1>3. CASE gnt /\ conf.BYP
  <2>1. g = q /\ q # NoReq BY <1>3 DEF Ticks, MayAnswer
  <2>2. mreq_valid /\ q = mreq BY <1>3, <2>1 DEF q
  <2>3. f = mreq BY <1>3, <2>2 DEF Ticks, Sent, mreq_fire
  <2> QED BY <1>3, <2>1, <2>2, <2>3
<1> QED BY <1>1, <1>2, <1>3

(* The answer is none, that of a tag that is out, or that of this cycle's  *)
(* request.                                                                *)
LEMMA AnswerFacts ==
  ASSUME EngInv, NEW n, NEW gnt, NEW rt, NEW f, NEW a, NEW g, NEW fin, Ticks(n, gnt, rt, f, a, g, fin)
  PROVE  \/ rt = 0 /\ a = NoAnswer
         \/ /\ rt \in Tg /\ tags[rt].v /\ resp[rt] # NoData
            /\ a = [c |-> tags[rt].c, mask |-> tags[rt].mask, kind |-> tags[rt].kind, byp |-> FALSE,
                    data |-> resp[rt]]
         \/ /\ rt \in Tg /\ conf.BYP /\ gnt /\ f # NoReq /\ rt = f.tag /\ ~tags[rt].v /\ g = f
            /\ a = [c |-> f.c, mask |-> f.mask, kind |-> f.kind, byp |-> TRUE, data |-> ReadLine(f.line)]
<1>1. CASE rt = 0 BY <1>1 DEF Ticks, Answer
<1>2. CASE rt # 0 /\ resp[rt] # NoData
  <2>1. rt \in Tg BY <1>2, EngineAssumption DEF Ticks, Tg
  <2>2. tags[rt].v BY <1>2, <2>1 DEF EngInv, TagsOk, TagOk
  <2>3. a = Answer(rt) BY DEF Ticks
  <2> QED BY <1>2, <2>1, <2>2, <2>3 DEF Answer, rsp_byp
<1>3. CASE rt # 0 /\ resp[rt] = NoData
  <2>1. rt \in Tg BY <1>3, EngineAssumption DEF Ticks, Tg
  <2>2. conf.BYP /\ gnt /\ rt = q.tag /\ q # NoReq BY <1>3 DEF Ticks, MayAnswer
  <2>3. g = f /\ f # NoReq /\ g = q BY <2>2, GrantFacts DEF Ticks
  <2>6. ~tags[f.tag].v BY <2>3, FireFacts
  <2>4. ~tags[rt].v /\ rt = f.tag BY <2>2, <2>3, <2>6
  <2>5. a = Answer(rt) BY DEF Ticks
  <2>7. f = mreq BY <2>3, FireFacts
  <2>8. rsp_byp(rt) BY <2>2, <2>4 DEF rsp_byp
  <2>9. a = [c |-> f.c, mask |-> f.mask, kind |-> f.kind, byp |-> TRUE, data |-> ReadLine(f.line)]
    BY <1>3, <2>5, <2>7, <2>8 DEF Answer
  <2> QED BY <2>1, <2>2, <2>3, <2>4, <2>9
<1> QED BY <1>1, <1>2, <1>3

(* The instructions are kept; one may be added.                            *)
LEMMA OpGrows ==
  ASSUME EngInv, NEW n, NEW gnt, NEW rt, NEW f, NEW a, NEW g, NEW fin, Ticks(n, gnt, rt, f, a, g, fin)
  PROVE  /\ Len(op) \in Nat /\ op' \in Seq(OpLib) /\ Len(op') >= Len(op) /\ Len(op') <= MaxOps
         /\ \A k \in 1 .. Len(op) : k \in 1 .. Len(op') /\ op'[k] = op[k]
         /\ n \in 0 .. Len(op') /\ (n = 0 => op' = op)
         /\ (n # 0 => n = Len(op) + 1 /\ Len(op') = n /\ in_ready(op'[n]))
         /\ \A k \in 1 .. Len(op') : op'[k] \in OpLib
<1>1. op \in Seq(OpLib) /\ Len(op) \in Nat /\ Len(op) <= MaxOps BY DEF EngInv, OpsOk, TypeOK
<1>2. CASE n = 0 /\ op' = op BY <1>1, <1>2
<1>3. CASE n = Len(op) + 1 /\ Len(op) < MaxOps /\ \E p \in OpLib : in_ready(p) /\ op' = Append(op, p)
  <2>1. PICK p \in OpLib : in_ready(p) /\ op' = Append(op, p) BY <1>3
  <2>2. /\ op' \in Seq(OpLib) /\ Len(op') = Len(op) + 1 /\ op'[Len(op) + 1] = p
        /\ \A k \in 1 .. Len(op) : op'[k] = op[k]
    BY <1>1, <2>1
  <2>3. MaxOps \in Nat BY SizeAssumption
  <2>4. in_ready(op'[n]) BY <1>3, <2>1, <2>2
  <2> QED BY <1>1, <1>3, <2>2, <2>3, <2>4
<1> QED BY <1>2, <1>3 DEF Ticks

(* An instruction that takes a context takes a free one.                   *)
LEMMA TakenFacts ==
  ASSUME EngInv, NEW n, NEW gnt, NEW rt, NEW f, NEW a, NEW g, NEW fin, Ticks(n, gnt, rt, f, a, g, fin),
         Taken(n) # 0
  PROVE  alloc_c \in Cx /\ ~c_busy(alloc_c) /\ Taken(n) \in 1 .. Len(op')
<1>1. Taken(n) \in 1 .. Len(op')
  <2>1. i \in 0 .. Len(op) BY DEF EngInv, TypeOK
  <2> QED BY <2>1, OpGrows DEF Taken
<1>2. free_ok
  <2>1. CASE conf.BYP
    <3>1. in_ready(op'[n]) BY <2>1, OpGrows DEF Taken
    <3> QED BY <2>1, <3>1 DEF in_ready, Room
  <2>2. CASE ~conf.BYP BY <2>2 DEF Taken, i_take, Room
  <2> QED BY <2>1, <2>2
<1>3. {c \in Cx : ~c_busy(c)} \in SUBSET Nat BY DEF Cx
<1>4. alloc_c \in {c \in Cx : ~c_busy(c)} BY <1>2, <1>3, Least DEF free_ok, alloc_c
<1> QED BY <1>1, <1>4

(* A context after the cycle: newly taken, free, or kept.                  *)
NewCtx(c, n) ==
  /\ ~c_busy(c) /\ Taken(n) \in 1 .. Len(op')
  /\ ctx'[c] = [st |-> "busy", id |-> Taken(n), pend |-> op'[Taken(n)].mask, ph |-> "AP_RD", cnt |-> 0]
GoneCtx(c, fin) == ctx'[c] = FreeCtx /\ (~c_busy(c) \/ (c_busy(c) /\ c \in fin /\ c = Min(fin)))
KeptCtx(c, f, a, fin) ==
  /\ c_busy(c) /\ ctx'[c].st \in {"busy", "done"} /\ ctx'[c].id = ctx[c].id
  /\ ctx'[c].pend = ctx[c].pend \ c_sent(c, f, a) /\ ctx'[c].ph = c_ph_n(c, f, a)
  /\ ctx'[c].cnt = c_cnt_n(c, f, a) /\ P(c)' = P(c)
  /\ (ctx'[c].st = "done" <=> c \in fin) /\ (ctx[c].st = "done" => c \in fin)
  /\ ctx'[c] = [st |-> ctx'[c].st, id |-> ctx'[c].id, pend |-> ctx'[c].pend, ph |-> ctx'[c].ph,
                cnt |-> ctx'[c].cnt]

(* A context after the cycle is newly taken, free or kept.                 *)
LEMMA CtxStep ==
  ASSUME EngInv, NEW n, NEW gnt, NEW rt, NEW f, NEW a, NEW g, NEW fin, Ticks(n, gnt, rt, f, a, g, fin),
         NEW c \in Cx
  PROVE  NewCtx(c, n) \/ GoneCtx(c, fin) \/ KeptCtx(c, f, a, fin)
<1>0. /\ ctx'[c] = IF Taken(n) # 0 /\ c = alloc_c THEN Fresh(Taken(n))
                   ELSE IF ~c_busy(c) \/ c_st_n(c, fin) = "free" THEN FreeCtx
                   ELSE [st |-> c_st_n(c, fin), id |-> ctx[c].id, pend |-> ctx[c].pend \ c_sent(c, f, a),
                         ph |-> c_ph_n(c, f, a), cnt |-> c_cnt_n(c, f, a)]
      /\ fin = Fin(f, a)
  BY DEF Ticks, Contexts
<1>1. ctx[c].st \in {"free", "busy", "done"} BY DEF EngInv, TypeOK
<1>2. CASE Taken(n) # 0 /\ c = alloc_c
  BY <1>0, <1>2, TakenFacts DEF Fresh, FreeCtx, NewCtx
<1>3. CASE ~(Taken(n) # 0 /\ c = alloc_c) /\ ~c_busy(c) BY <1>0, <1>3 DEF GoneCtx
<1>4. CASE ~(Taken(n) # 0 /\ c = alloc_c) /\ c_busy(c) /\ c_st_n(c, fin) = "free"
  BY <1>0, <1>1, <1>4 DEF c_st_n, c_busy, GoneCtx
<1>5. CASE ~(Taken(n) # 0 /\ c = alloc_c) /\ c_busy(c) /\ c_st_n(c, fin) # "free"
  <2>1. ctx'[c] = [st |-> c_st_n(c, fin), id |-> ctx[c].id, pend |-> ctx[c].pend \ c_sent(c, f, a),
                   ph |-> c_ph_n(c, f, a), cnt |-> c_cnt_n(c, f, a)]
    BY <1>0, <1>5
  <2>2. ctx[c].st = "done" => c \in fin BY <1>0, <1>5 DEF Fin, c_fin
  <2>3. /\ c_st_n(c, fin) \in {"busy", "done"} /\ (c_st_n(c, fin) = "done" <=> c \in fin)
    BY <1>1, <1>5, <2>2 DEF c_st_n, c_busy
  <2>4. P(c)' = P(c)
    <3>1. ctx[c].id \in 1 .. Len(op) BY <1>5 DEF EngInv, CtxOk
    <3>2. op'[ctx[c].id] = op[ctx[c].id] BY <3>1, OpGrows
    <3> QED BY <2>1, <3>2 DEF P
  <2> QED BY <1>5, <2>1, <2>2, <2>3, <2>4 DEF KeptCtx
<1> QED BY <1>2, <1>3, <1>4, <1>5

(* What the answered tag or the request sent says of a context.            *)
LEMMA AmoAnswer ==
  ASSUME EngInv, NEW n, NEW gnt, NEW rt, NEW f, NEW a, NEW g, NEW fin, Ticks(n, gnt, rt, f, a, g, fin),
         NEW c \in Cx, a.c = c, a.kind = "MK_AMORD"
  PROVE  \/ /\ c_locked(c) /\ ctx[c].ph = "AP_WAIT" /\ a.mask = mreq_mask(c) /\ g = NoReq /\ f = NoReq
            /\ a.data = ReadLine(LineOf(P(c).addr[c_lead(c)]))
         \/ /\ Locked = {} /\ f.c = c /\ f # NoReq /\ f.kind = "MK_AMORD" /\ a.byp /\ g = f
            /\ a.mask = mreq_mask(c) /\ a.data = ReadLine(LineOf(P(c).addr[c_lead(c)]))
<1>1. CASE rt = 0 /\ a = NoAnswer BY <1>1 DEF NoAnswer, Cx
<1>2. CASE /\ rt \in Tg /\ tags[rt].v /\ resp[rt] # NoData
           /\ a = [c |-> tags[rt].c, mask |-> tags[rt].mask, kind |-> tags[rt].kind, byp |-> FALSE,
                   data |-> resp[rt]]
  <2>1. tags[rt].c = c /\ tags[rt].kind = "MK_AMORD" /\ a.mask = tags[rt].mask /\ a.data = resp[rt]
    BY <1>2
  <2>2. TagOk(rt) BY <1>2 DEF EngInv, TagsOk
  <2>3. /\ ctx[c].ph = "AP_WAIT" /\ a.mask = mreq_mask(c)
        /\ a.data = ReadLine(LineOf(P(c).addr[c_lead(c)]))
    BY <1>2, <2>1, <2>2 DEF TagOk, Owns
  <2>4. c_locked(c) BY <2>3 DEF EngInv, CtxOk
  <2>5. c \in Locked BY <2>4 DEF Locked
  <2>6. f = NoReq
    <3>1. ASSUME f # NoReq PROVE FALSE
      <4>1. f.c \in Locked /\ f.c \in Wanting BY <2>5, <3>1, FireFacts
      <4>2. f.c = c BY <2>5, <4>1 DEF EngInv, OneLock
      <4> QED BY <2>3, <2>4, <4>1, <4>2 DEF Wanting, c_want, c_locked
    <3> QED BY <3>1
  <2>7. g = NoReq
    <3>1. ASSUME ~conf.BYP, g = o, o # NoReq PROVE FALSE
      <4>1. o.kind = "MK_AMORD" /\ o.tag \in Tg /\ resp[o.tag] = NoData
            /\ tags[o.tag] = [v |-> TRUE, c |-> o.c, mask |-> o.mask, kind |-> o.kind]
        BY <2>5, <3>1 DEF EngInv, StageOk
      <4>2. o.tag \in AmoReads /\ rt \in AmoReads BY <1>2, <2>1, <4>1 DEF AmoReads
      <4>3. o.tag = rt BY <4>2 DEF EngInv, TagsOk
      <4> QED BY <1>2, <4>1, <4>3
    <3> QED BY <2>6, <3>1, GrantFacts
  <2> QED BY <2>3, <2>4, <2>6, <2>7
<1>3. CASE /\ rt \in Tg /\ conf.BYP /\ gnt /\ f # NoReq /\ rt = f.tag /\ ~tags[rt].v /\ g = f
           /\ a = [c |-> f.c, mask |-> f.mask, kind |-> f.kind, byp |-> TRUE, data |-> ReadLine(f.line)]
  <2>1. f.c = c /\ f.kind = "MK_AMORD" /\ a.mask = f.mask /\ a.data = ReadLine(f.line) /\ a.byp BY <1>3
  <2>2. /\ c \in Wanting /\ f.mask = mreq_mask(c) /\ mreq_kind(c) = "MK_AMORD"
        /\ f.line = LineOf(P(c).addr[c_lead(c)]) /\ (Locked # {} => c \in Locked)
    <3>1. f # NoReq BY <1>3
    <3>2. /\ f.c \in Wanting /\ f.mask = mreq_mask(f.c) /\ f.kind = mreq_kind(f.c)
          /\ f.line = LineOf(P(f.c).addr[c_lead(f.c)]) /\ (Locked # {} => f.c \in Locked)
      BY <3>1, FireFacts
    <3> QED BY <2>1, <3>2
  <2>3. ctx[c].ph = "AP_RD"
    <3>1. c_busy(c) /\ c_want(c) BY <2>2 DEF Wanting, c_want, Global
    <3>2. P(c).kind \in {"load", "store", "amo"} BY <3>1, BusyFacts DEF EngInv
    <3>3. P(c).kind = "amo" /\ ctx[c].ph # "AP_WR" BY <2>2, <3>2 DEF mreq_kind
    <3> QED BY <3>1, <3>3 DEF c_want
  <2>4. Locked = {} BY <2>2, <2>3 DEF Locked, c_locked
  <2> QED BY <1>3, <2>1, <2>2, <2>4
<1> QED BY <1>1, <1>2, <1>3, AnswerFacts

(* What is sent for a context, and from which phase.                       *)
LEMMA SentFacts ==
  ASSUME EngInv, NEW n, NEW gnt, NEW rt, NEW f, NEW a, NEW g, NEW fin, Ticks(n, gnt, rt, f, a, g, fin),
         NEW c \in Cx, f.c = c
  PROVE  /\ f # NoReq /\ Global(c) /\ ctx[c].st = "busy" /\ ctx[c].pend # {} /\ f.mask = mreq_mask(c)
         /\ f.tag \in Tg /\ ~tags[f.tag].v /\ f.line = LineOf(P(c).addr[c_lead(c)])
         /\ (f.kind = "MK_LOAD" <=> P(c).kind = "load") /\ f.kind \in Kinds
         /\ P(c).kind = "amo" => ctx[c].ph = IF f.kind = "MK_AMORD" THEN "AP_RD" ELSE "AP_WR"
         /\ f.kind = "MK_AMORD" => P(c).kind = "amo" /\ Locked = {}
         /\ (f.kind = "MK_WRITE" <=> (P(c).kind = "store" \/ (P(c).kind = "amo" /\ ctx[c].ph = "AP_WR")))
         /\ (Locked # {} => c \in Locked)
<1>1. f # NoReq BY DEF NoReq, Cx
<1>2. /\ c \in Wanting /\ f.tag \in Tg /\ ~tags[f.tag].v /\ f.mask = mreq_mask(c)
      /\ f.kind = mreq_kind(c) /\ f.line = LineOf(P(c).addr[c_lead(c)])
      /\ (Locked # {} => c \in Locked)
  BY <1>1, FireFacts
<1>3. /\ Global(c) /\ c_busy(c) /\ ctx[c].st = "busy" /\ ctx[c].pend # {}
      /\ (P(c).kind # "amo" \/ ctx[c].ph \in {"AP_RD", "AP_WR"})
  BY <1>2 DEF Wanting, c_want, Global
<1>4. P(c).kind \in {"load", "store", "amo"} BY <1>3, BusyFacts DEF EngInv
<1>5. f.kind = IF P(c).kind = "load" THEN "MK_LOAD" ELSE IF P(c).kind = "store" THEN "MK_WRITE"
               ELSE IF ctx[c].ph = "AP_WR" THEN "MK_WRITE" ELSE "MK_AMORD"
  BY <1>2, <1>4 DEF mreq_kind
<1>6. f.kind = "MK_AMORD" => Locked = {}
  <2>1. ASSUME f.kind = "MK_AMORD" PROVE c \notin Locked
    BY <1>3, <1>4, <1>5, <2>1 DEF Locked, c_locked
  <2> QED BY <1>2, <2>1
<1> QED BY <1>1, <1>2, <1>3, <1>4, <1>5, <1>6 DEF Kinds

(* The phase of a context that is kept.                                    *)
LEMMA PhaseStep ==
  ASSUME EngInv, NEW n, NEW gnt, NEW rt, NEW f, NEW a, NEW g, NEW fin, Ticks(n, gnt, rt, f, a, g, fin),
         NEW c \in Cx, c_busy(c)
  PROVE  /\ c_ph_n(c, f, a) \in Phases
         /\ P(c).kind # "amo" \/ P(c).scratch => ctx[c].ph = "AP_RD" /\ c_ph_n(c, f, a) = "AP_RD"
         /\ P(c).kind = "amo" /\ ~P(c).scratch =>
            /\ ctx[c].ph = "AP_RD" =>
                 c_ph_n(c, f, a) =
                   IF f.c # c THEN "AP_RD"
                   ELSE IF a.c = c /\ a.kind = "MK_AMORD" THEN "AP_AGG" ELSE "AP_WAIT"
            /\ ctx[c].ph = "AP_WAIT" =>
                 f.c # c /\ c_ph_n(c, f, a) = IF a.c = c /\ a.kind = "MK_AMORD" THEN "AP_AGG" ELSE "AP_WAIT"
            /\ ctx[c].ph = "AP_AGG" =>
                 /\ f.c # c /\ ~(a.c = c /\ a.kind = "MK_AMORD") /\ a_act /\ lock_c = c
                 /\ c_ph_n(c, f, a) = IF a_last(a) THEN "AP_WR" ELSE "AP_AGG"
            /\ ctx[c].ph = "AP_WR" =>
                 /\ ~(a.c = c /\ a.kind = "MK_AMORD")
                 /\ c_ph_n(c, f, a) = IF f.c = c THEN "AP_RD" ELSE "AP_WR"
<1>1. ctx[c].ph \in Phases BY DEF EngInv, TypeOK
<1>2. ctx[c].ph # "AP_RD" => c_locked(c) BY DEF EngInv, CtxOk
<1>3. P(c).kind # "amo" \/ P(c).scratch => ctx[c].ph = "AP_RD" BY <1>2 DEF c_locked, Global
<1>4. a.c = c /\ a.kind = "MK_AMORD" =>
        ctx[c].ph = "AP_WAIT" \/ (ctx[c].ph = "AP_RD" /\ f.c = c)
  <2>1. ASSUME a.c = c, a.kind = "MK_AMORD", f.c = c PROVE f.kind = "MK_AMORD" => ctx[c].ph = "AP_RD"
    BY <2>1, SentFacts
  <2> QED BY <2>1, AmoAnswer
<1>5. a_last(a) /\ lock_c = c => ctx[c].ph = "AP_AGG" BY DEF a_last, a_step, a_act
<1>6. f.c = c /\ P(c).kind = "amo" => ctx[c].ph \in {"AP_RD", "AP_WR"} BY SentFacts
<1>7. ctx[c].ph = "AP_AGG" => a_act /\ lock_c = c
  <2>1. ASSUME ctx[c].ph = "AP_AGG" PROVE c \in Locked BY <1>2, <2>1 DEF Locked
  <2> QED BY <2>1, TheLock DEF EngInv, a_act
<1>8. P(c).kind # "amo" \/ P(c).scratch => c_ph_n(c, f, a) = ctx[c].ph BY DEF c_ph_n
<1>9. P(c).kind = "amo" /\ ~P(c).scratch => c_ph_n(c, f, a) =
        IF a.c = c /\ a.kind = "MK_AMORD" THEN "AP_AGG"
        ELSE IF f.c = c /\ ctx[c].ph = "AP_RD" THEN "AP_WAIT"
        ELSE IF a_last(a) /\ lock_c = c THEN "AP_WR"
        ELSE IF f.c = c /\ ctx[c].ph = "AP_WR" THEN "AP_RD"
        ELSE ctx[c].ph
  <2>1. \A x, y, z \in BOOLEAN : ~(x /\ y) /\ ~(x /\ z) /\ ~(y /\ z) =>
          (CASE x -> "AP_WAIT" [] y -> "AP_WR" [] z -> "AP_RD" [] OTHER -> ctx[c].ph) =
          IF x THEN "AP_WAIT" ELSE IF y THEN "AP_WR" ELSE IF z THEN "AP_RD" ELSE ctx[c].ph
    OBVIOUS
  <2> QED BY <1>5, <2>1 DEF c_ph_n
<1>10. P(c).scratch \in BOOLEAN BY BusyFacts DEF EngInv
<1> QED BY <1>1, <1>3, <1>4, <1>5, <1>6, <1>7, <1>8, <1>9, <1>10 DEF Phases

(* A context that is locked after the cycle was locked before and sent     *)
(* nothing, or sent its read now with nobody locked; its round is the same.*)
LEMMA LockStep ==
  ASSUME EngInv, NEW n, NEW gnt, NEW rt, NEW f, NEW a, NEW g, NEW fin, Ticks(n, gnt, rt, f, a, g, fin),
         NEW c \in Cx, ctx'[c].ph # "AP_RD"
  PROVE  /\ c_busy(c) /\ c_busy(c)' /\ P(c)' = P(c) /\ P(c).kind = "amo" /\ ~P(c).scratch /\ Global(c)
         /\ ctx'[c].ph = c_ph_n(c, f, a) /\ ctx'[c].id = ctx[c].id /\ ctx'[c].st = "busy"
         /\ ctx'[c].pend = ctx[c].pend /\ ctx[c].pend # {} /\ c \in Locked'
         /\ \/ c \in Locked /\ f.c # c
            \/ Locked = {} /\ ctx[c].ph = "AP_RD" /\ f.c = c /\ f # NoReq /\ f.kind = "MK_AMORD"
         /\ mreq_mask(c)' = mreq_mask(c) /\ c_lead(c)' = c_lead(c)
<1>1. /\ c_busy(c) /\ ctx'[c].st \in {"busy", "done"} /\ ctx'[c].id = ctx[c].id
      /\ ctx'[c].pend = ctx[c].pend \ c_sent(c, f, a) /\ ctx'[c].ph = c_ph_n(c, f, a)
      /\ P(c)' = P(c) /\ (ctx'[c].st = "done" <=> c \in fin)
  <2>2. ~NewCtx(c, n) /\ ~GoneCtx(c, fin) BY DEF NewCtx, GoneCtx, FreeCtx
  <2>1. KeptCtx(c, f, a, fin) BY <2>2, CtxStep
  <2> QED BY <2>1 DEF KeptCtx
<1>2. P(c).kind = "amo" /\ ~P(c).scratch BY <1>1, PhaseStep
<1>3. ctx[c].ph # "AP_RD" => c \in Locked /\ ctx[c].pend # {} /\ ctx[c].st = "busy"
  BY DEF EngInv, CtxOk, Locked
<1>4. \/ c \in Locked /\ f.c # c /\ ctx[c].pend # {} /\ ctx[c].st = "busy"
      \/ /\ Locked = {} /\ ctx[c].ph = "AP_RD" /\ f.c = c /\ f # NoReq /\ f.kind = "MK_AMORD"
         /\ ctx[c].pend # {} /\ ctx[c].st = "busy"
  <2>1. ctx[c].ph \in Phases BY DEF EngInv, TypeOK
  <2>2. CASE ctx[c].ph = "AP_RD"
    <3>1. f.c = c BY <1>1, <1>2, <2>2, PhaseStep
    <3>2. f.kind = "MK_AMORD" BY <1>2, <2>2, <3>1, SentFacts
    <3> QED BY <2>2, <3>1, <3>2, SentFacts
  <2>3. CASE ctx[c].ph # "AP_RD"
    <3>1. f.c # c
      <4>1. CASE ctx[c].ph = "AP_WR" BY <1>1, <1>2, <4>1, PhaseStep
      <4>2. CASE ctx[c].ph \in {"AP_WAIT", "AP_AGG"} BY <1>1, <1>2, <4>2, PhaseStep
      <4> QED BY <2>1, <2>3, <4>1, <4>2 DEF Phases
    <3> QED BY <1>3, <2>3, <3>1
  <2> QED BY <2>2, <2>3
<1>5. c_sent(c, f, a) = {} BY <1>2, <1>4 DEF c_sent
<1>6. ctx'[c].pend = ctx[c].pend BY <1>1, <1>5
<1>7. ctx'[c].st = "busy"
  <2>1. c_scs(c, a) = {} 
    <3>1. sc_step(a) => sc_c # c
      <4>1. ASSUME sc_step(a) PROVE sc_c \in Scratching
        <5>1. Scratching # {} /\ Scratching \in SUBSET Nat BY <4>1 DEF sc_step, Scratching, Cx
        <5> QED BY <5>1, Least DEF sc_c
      <4> QED BY <1>2, <4>1 DEF Scratching
    <3> QED BY <3>1 DEF c_scs
  <2>2. c \notin fin BY <1>4, <1>5, <2>1 DEF Ticks, Fin, c_fin
  <2> QED BY <1>1, <2>2
<1>8. c_busy(c)' BY <1>7 DEF c_busy
<1>9. c_locked(c)' BY <1>1, <1>2, <1>8 DEF c_locked, Global
<1>10. conf' = conf BY DEF Ticks
<1>11. c_lead(c)' = c_lead(c) BY <1>6 DEF c_lead
<1>12. mreq_mask(c)' = mreq_mask(c)
  BY <1>1, <1>6, <1>10, <1>11 DEF mreq_mask, c_grp
<1> QED BY <1>1, <1>2, <1>4, <1>6, <1>7, <1>8, <1>9, <1>11, <1>12 DEF Locked, Global

(* No two contexts become locked.                                          *)
LEMMA OneLockStep ==
  ASSUME EngInv, NEW n, NEW gnt, NEW rt, NEW f, NEW a, NEW g, NEW fin, Ticks(n, gnt, rt, f, a, g, fin)
  PROVE  OneLock'
<1>1. ASSUME NEW c \in Locked', NEW d \in Locked' PROVE c = d
  <2>1. c \in Cx /\ d \in Cx /\ ctx'[c].ph # "AP_RD" /\ ctx'[d].ph # "AP_RD" BY DEF Locked, c_locked
  <2>2. c \in Locked \/ (Locked = {} /\ f.c = c) BY <2>1, LockStep
  <2>3. d \in Locked \/ (Locked = {} /\ f.c = d) BY <2>1, LockStep
  <2> QED BY <2>2, <2>3 DEF EngInv, OneLock
<1> QED BY <1>1 DEF OneLock

(* A context sends no lane it does not hold, and one that is complete      *)
(* sends nothing and is answered nothing.                                  *)
LEMMA CtxOkStep ==
  ASSUME EngInv, NEW n, NEW gnt, NEW rt, NEW f, NEW a, NEW g, NEW fin, Ticks(n, gnt, rt, f, a, g, fin),
         \A c \in Cx : ctx'[c].st = "done" => ctx'[c].pend = {} /\ ctx'[c].cnt = 0 /\ ctx'[c].ph = "AP_RD",
         \A c \in Cx : ctx'[c].ph = "AP_AGG" => am'.left # {}
  PROVE  CtxOk'
<1> SUFFICES ASSUME NEW c \in Cx
             PROVE  /\ ctx'[c].st = "free" => ctx'[c] = FreeCtx
                    /\ c_busy(c)' => ctx'[c].id \in 1 .. Len(op')
                    /\ ctx'[c].ph # "AP_RD" => c_locked(c)' /\ ctx'[c].st = "busy" /\ ctx'[c].pend # {}
  BY DEF CtxOk
<1>1. ctx'[c].st = "free" => ctx'[c] = FreeCtx
  <2>1. NewCtx(c, n) => ctx'[c].st # "free" BY DEF NewCtx
  <2>2. KeptCtx(c, f, a, fin) => ctx'[c].st # "free" BY DEF KeptCtx
  <2>3. GoneCtx(c, fin) => ctx'[c] = FreeCtx BY DEF GoneCtx
  <2> QED BY <2>1, <2>2, <2>3, CtxStep
<1>2. c_busy(c)' => ctx'[c].id \in 1 .. Len(op')
  <2>1. c_busy(c) => ctx[c].id \in 1 .. Len(op) BY DEF EngInv, CtxOk
  <2>2. CASE NewCtx(c, n) BY <2>2 DEF NewCtx
  <2>3. CASE GoneCtx(c, fin) BY <2>3 DEF GoneCtx, c_busy, FreeCtx
  <2>4. CASE KeptCtx(c, f, a, fin)
    <3>1. ctx[c].id \in 1 .. Len(op) /\ ctx'[c].id = ctx[c].id BY <2>1, <2>4 DEF KeptCtx
    <3>2. ctx[c].id \in 1 .. Len(op') BY <3>1, OpGrows
    <3> QED BY <3>1, <3>2
  <2> QED BY <2>2, <2>3, <2>4, CtxStep
<1>3. ctx'[c].ph # "AP_RD" => c_locked(c)' /\ ctx'[c].st = "busy" /\ ctx'[c].pend # {}
  BY LockStep DEF Locked
<1> QED BY <1>1, <1>2, <1>3

(* The tags of a context: one more for a request sent, one less for an     *)
(* answer, neither for a request answered in its own cycle.                *)
TagsOf(c) == {t \in Tg : tags[t].v /\ tags[t].c = c}
(* No answer is nobody's.                                                  *)
LEMMA NoAnswerFacts ==
  /\ NoAnswer.c = 0 /\ NoAnswer.byp = FALSE /\ NoAnswer.kind = "none" /\ NoAnswer.mask = {}
BY DEF NoAnswer
(* A tag after the cycle: returned by the answer, taken by the request or  *)
(* as it was; the one answered was out, the one taken was not.             *)
TagNext(t, rt, f, a) ==
  /\ tags'[t] = IF rt = t /\ ~a.byp THEN FreeTag
                ELSE IF f.tag = t /\ ~a.byp
                THEN [v |-> TRUE, c |-> f.c, mask |-> f.mask, kind |-> f.kind] ELSE tags[t]
  /\ a.byp \in BOOLEAN /\ (a.byp => conf.BYP)
  /\ (rt = t /\ ~a.byp => tags[t].v /\ a.c = tags[t].c /\ a.kind = tags[t].kind /\ a.mask = tags[t].mask
                          /\ a.data = resp[t] /\ resp[t] # NoData)
  /\ (f.tag = t => ~tags[t].v /\ f.c \in Cx /\ f # NoReq)

(* Every tag is as TagNext says.                                           *)
LEMMA TagStep ==
  ASSUME EngInv, NEW n, NEW gnt, NEW rt, NEW f, NEW a, NEW g, NEW fin, Ticks(n, gnt, rt, f, a, g, fin),
         NEW t \in Tg
  PROVE  TagNext(t, rt, f, a)
<1>1. tags'[t] = IF rt = t /\ ~a.byp THEN FreeTag
                 ELSE IF f.tag = t /\ ~a.byp
                 THEN [v |-> TRUE, c |-> f.c, mask |-> f.mask, kind |-> f.kind] ELSE tags[t]
  BY DEF Ticks, TagTable
<1>2. a.byp \in BOOLEAN /\ (a.byp => conf.BYP)
  <2>1. CASE rt = 0 /\ a = NoAnswer BY <2>1 DEF NoAnswer
  <2>2. CASE /\ rt \in Tg /\ tags[rt].v /\ resp[rt] # NoData
             /\ a = [c |-> tags[rt].c, mask |-> tags[rt].mask, kind |-> tags[rt].kind, byp |-> FALSE,
                     data |-> resp[rt]]
    BY <2>2
  <2>3. CASE conf.BYP /\ a.byp = TRUE BY <2>3
  <2>4. (rt = 0 /\ a = NoAnswer)
        \/ (/\ rt \in Tg /\ tags[rt].v /\ resp[rt] # NoData
            /\ a = [c |-> tags[rt].c, mask |-> tags[rt].mask, kind |-> tags[rt].kind, byp |-> FALSE,
                    data |-> resp[rt]])
        \/ (conf.BYP /\ a.byp = TRUE)
    BY AnswerFacts
  <2> QED BY <2>1, <2>2, <2>3, <2>4
<1>3. rt = t /\ ~a.byp => tags[t].v /\ a.c = tags[t].c /\ a.kind = tags[t].kind /\ a.mask = tags[t].mask
                          /\ a.data = resp[t] /\ resp[t] # NoData
  <2>1. t # 0 BY DEF Tg
  <2> QED BY <2>1, AnswerFacts
<1>4. f.tag = t => ~tags[t].v /\ f.c \in Cx /\ f # NoReq
  <2>1. f = NoReq => f.tag # t BY DEF Tg, NoReq
  <2> QED BY <2>1, FireFacts
<1> QED BY <1>1, <1>2, <1>3, <1>4 DEF TagNext

(* The count a context is left with is that of its tags; one that          *)
(* finishes has none.                                                      *)
LEMMA CountStep ==
  ASSUME EngInv, NEW n, NEW gnt, NEW rt, NEW f, NEW a, NEW g, NEW fin, Ticks(n, gnt, rt, f, a, g, fin),
         NEW c \in Cx
  PROVE  /\ c_cnt_n(c, f, a) = Cardinality(TagsOf(c)') /\ c_cnt_n(c, f, a) \in 0 .. MQD
         /\ ~c_busy(c) \/ c \in fin => c_cnt_n(c, f, a) = 0
<1> DEFINE Out == {t \in Tg : t = rt /\ ~a.byp /\ tags[t].c = c}
           In  == {t \in Tg : t = f.tag /\ ~a.byp /\ f.c = c}
<1>1. IsFiniteSet(TagsOf(c)) /\ IsFiniteSet(Tg) /\ Cardinality(Tg) = MQD
  <2>1. MQD \in Nat /\ MQD > 0 BY EngineAssumption
  <2>2. IsFiniteSet(Tg) /\ Cardinality(Tg) = MQD BY <2>1, FS_Interval DEF Tg
  <2> QED BY <2>2, FS_Subset DEF TagsOf
<1>2. TagsOf(c)' = (TagsOf(c) \ Out) \cup In
  <2>1. ASSUME NEW t \in Tg
        PROVE  t \in TagsOf(c)' <=> t \in (TagsOf(c) \ Out) \cup In
    <3>0. TagNext(t, rt, f, a) BY TagStep
    <3>1. CASE rt = t /\ ~a.byp
      <4>0. tags'[t] = FreeTag BY <3>0, <3>1 DEF TagNext
      <4>1. tags'[t].v = FALSE BY <4>0 DEF FreeTag
      <4>2. f.tag # t
        <5>1. tags[t].v /\ (f.tag = t => ~tags[t].v) BY <3>0, <3>1 DEF TagNext
        <5> QED BY <5>1
      <4>3. t \notin In BY <4>2
      <4>4. t \in TagsOf(c) => t \in Out BY <3>1 DEF TagsOf
      <4> QED BY <4>1, <4>3, <4>4 DEF TagsOf
    <3>2. CASE ~(rt = t /\ ~a.byp) /\ f.tag = t /\ ~a.byp
      <4>0. tags'[t] = [v |-> TRUE, c |-> f.c, mask |-> f.mask, kind |-> f.kind] /\ ~tags[t].v
        BY <3>0, <3>2 DEF TagNext
      <4>1. tags'[t].v = TRUE /\ tags'[t].c = f.c BY <4>0
      <4>2. t \notin TagsOf(c) BY <4>0 DEF TagsOf
      <4>3. t \in In <=> f.c = c BY <3>2
      <4> QED BY <4>1, <4>2, <4>3 DEF TagsOf
    <3>3. CASE ~(rt = t /\ ~a.byp) /\ ~(f.tag = t /\ ~a.byp)
      <4>1. tags'[t] = tags[t] BY <3>0, <3>3 DEF TagNext
      <4>2. t \notin In /\ t \notin Out BY <3>3
      <4> QED BY <4>1, <4>2 DEF TagsOf
    <3> QED BY <3>1, <3>2, <3>3
  <2> QED BY <2>1 DEF TagsOf
<1>3. Out = IF a.c = c /\ ~a.byp THEN {rt} ELSE {}
  <2>1. CASE rt \in Tg /\ ~a.byp
    <3>0. TagNext(rt, rt, f, a) BY <2>1, TagStep
    <3>1. a.c = tags[rt].c BY <2>1, <3>0 DEF TagNext
    <3> QED BY <2>1, <3>1
  <2>2. CASE rt \notin Tg
    <3>1. a.c = 0 BY <2>2, AnswerFacts, NoAnswerFacts
    <3>2. c # 0 BY DEF Cx
    <3> QED BY <2>2, <3>1, <3>2
  <2>3. CASE a.byp BY <2>3
  <2> QED BY <2>1, <2>2, <2>3
<1>4. a.c = c /\ ~a.byp => rt \in TagsOf(c)
  <2>1. c # 0 BY DEF Cx
  <2>2. a.c = c /\ ~a.byp => rt \in Tg /\ tags[rt].v /\ a.c = tags[rt].c
    BY <2>1, AnswerFacts, NoAnswerFacts
  <2> QED BY <2>2 DEF TagsOf
<1>5. In = IF f.c = c /\ ~a.byp THEN {f.tag} ELSE {}
  <2>1. f.c = c => f.tag \in Tg BY SentFacts
  <2> QED BY <2>1
<1>6. f.c = c => f.tag \notin TagsOf(c) /\ f.tag \in Tg BY SentFacts DEF TagsOf
<1>7. ctx[c].cnt = Cardinality(TagsOf(c)) BY DEF EngInv, TagsMatch, TagsOf
<1>8. Cardinality(TagsOf(c)) \in Nat BY <1>1, FS_CardinalityType
<1>9. /\ IsFiniteSet(TagsOf(c) \ Out)
      /\ Cardinality(TagsOf(c) \ Out) = ctx[c].cnt - (IF a.c = c /\ ~a.byp THEN 1 ELSE 0)
  <2>1. CASE a.c = c /\ ~a.byp
    <3> HIDE DEF Out
    <3> QED BY <1>1, <1>3, <1>4, <1>7, <2>1, FS_RemoveElement
  <2>2. CASE ~(a.c = c /\ ~a.byp)
    <3>1. TagsOf(c) \ Out = TagsOf(c) BY <1>3, <2>2
    <3> HIDE DEF Out
    <3> QED BY <1>1, <1>7, <1>8, <2>2, <3>1
  <2> QED BY <2>1, <2>2
<1>10. Cardinality(TagsOf(c)') =
         ctx[c].cnt - (IF a.c = c /\ ~a.byp THEN 1 ELSE 0) + (IF f.c = c /\ ~a.byp THEN 1 ELSE 0)
  <2> DEFINE S == TagsOf(c) \ Out
  <2>0. Cardinality(S) \in Nat BY <1>9, FS_CardinalityType
  <2>1. CASE f.c = c /\ ~a.byp
    <3>1. f.tag \notin S /\ TagsOf(c)' = S \cup {f.tag} BY <1>2, <1>5, <1>6, <2>1
    <3> HIDE DEF S
    <3>2. Cardinality(S \cup {f.tag}) = Cardinality(S) + 1 BY <1>9, <3>1, FS_AddElement DEF S
    <3> QED BY <1>9, <2>1, <3>1, <3>2 DEF S
  <2>2. CASE ~(f.c = c /\ ~a.byp)
    <3>1. TagsOf(c)' = S BY <1>2, <1>5, <2>2
    <3> HIDE DEF S
    <3>2. Cardinality(S) = ctx[c].cnt - (IF a.c = c /\ ~a.byp THEN 1 ELSE 0) BY <1>9 DEF S
    <3> QED BY <2>0, <2>2, <3>1, <3>2
  <2> QED BY <2>1, <2>2
<1>11. c_cnt_n(c, f, a) = Cardinality(TagsOf(c)') BY <1>7, <1>8, <1>10 DEF c_cnt_n
<1>12. Cardinality(TagsOf(c)') \in 0 .. MQD
  <2>1. TagsOf(c)' \in SUBSET Tg BY DEF TagsOf
  <2>2. Cardinality(TagsOf(c)') \in Nat /\ Cardinality(TagsOf(c)') <= MQD
    BY <1>1, <2>1, FS_Subset, FS_CardinalityType
  <2> QED BY <2>2, EngineAssumption
<1>13. ctx[c].cnt = 0 => ~(a.c = c /\ ~a.byp)
  <2>1. ctx[c].cnt = 0 => TagsOf(c) = {} BY <1>1, <1>7, FS_EmptySet
  <2> QED BY <1>4, <2>1
<1>14. ASSUME ~c_busy(c) \/ c \in fin PROVE c_cnt_n(c, f, a) = 0
  <2>1. f.c = c => ctx[c].st = "busy" /\ ctx[c].pend # {} /\ ~P(c).scratch BY SentFacts DEF Global
  <2>2. CASE ~c_busy(c)
    <3>1. ctx[c].cnt = 0 BY <2>2 DEF EngInv, CtxOk, FreeCtx, c_busy, TypeOK
    <3>2. f.c # c BY <2>1, <2>2 DEF c_busy
    <3> QED BY <1>13, <3>1, <3>2 DEF c_cnt_n
  <2>3. CASE c_busy(c) /\ c \in fin
    <3>1. c_fin(c, f, a) BY <2>3 DEF Ticks, Fin
    <3>2. CASE ctx[c].st = "done"
      <4>1. ctx[c].cnt = 0 BY <3>2 DEF EngInv, CtxOk
      <4>2. f.c # c BY <2>1, <3>2
      <4> QED BY <1>13, <4>1, <4>2 DEF c_cnt_n
    <3>3. CASE ~conf.BYP /\ ctx[c].pend \subseteq c_scs(c, a) /\ ctx[c].cnt = (IF a.c = c THEN 1 ELSE 0)
      <4>1. ~a.byp BY <3>3, AnswerFacts, NoAnswerFacts
      <4>2. f.c # c
        <5>1. c_scs(c, a) # {} => sc_c = c /\ sc_c \in Scratching
          <6>1. sc_step(a) => Scratching # {} /\ Scratching \in SUBSET Nat BY DEF sc_step, Scratching, Cx
          <6>2. sc_step(a) => sc_c \in Scratching BY <6>1, Least DEF sc_c
          <6> QED BY <6>2 DEF c_scs
        <5>2. c_scs(c, a) # {} => P(c).scratch BY <5>1 DEF Scratching
        <5> QED BY <2>1, <3>3, <5>2
      <4> QED BY <3>3, <4>1, <4>2 DEF c_cnt_n
    <3> QED BY <3>1, <3>2, <3>3 DEF c_fin
  <2> QED BY <1>14, <2>2, <2>3
<1> QED BY <1>11, <1>12, <1>14

(* Contexts keep counting the tags that will come back to them             *)
(* (TagsMatch).                                                            *)
LEMMA TagsMatchStep ==
  ASSUME EngInv, NEW n, NEW gnt, NEW rt, NEW f, NEW a, NEW g, NEW fin, Ticks(n, gnt, rt, f, a, g, fin)
  PROVE  TagsMatch'
<1> SUFFICES ASSUME NEW c \in Cx PROVE ctx'[c].cnt = Cardinality(TagsOf(c)')
  BY DEF TagsMatch, TagsOf
<1>1. CASE NewCtx(c, n) BY <1>1, CountStep DEF NewCtx
<1>2. CASE GoneCtx(c, fin)
  <2>1. ctx'[c].cnt = 0 /\ (~c_busy(c) \/ c \in fin) BY <1>2 DEF GoneCtx, FreeCtx
  <2> QED BY <2>1, CountStep
<1>3. CASE KeptCtx(c, f, a, fin)
  <2>1. ctx'[c].cnt = c_cnt_n(c, f, a) BY <1>3 DEF KeptCtx
  <2> QED BY <2>1, CountStep
<1> QED BY <1>1, <1>2, <1>3, CtxStep

(* A context that finishes has sent its last lanes; one that holds has     *)
(* nothing left.                                                           *)
LEMMA DoneStep ==
  ASSUME EngInv, NEW n, NEW gnt, NEW rt, NEW f, NEW a, NEW g, NEW fin, Ticks(n, gnt, rt, f, a, g, fin),
         NEW c \in Cx
  PROVE  /\ c_busy(c) /\ c \in fin => ctx[c].pend \subseteq c_sent(c, f, a)
         /\ ctx'[c].st = "done" => ctx'[c].pend = {} /\ ctx'[c].cnt = 0 /\ ctx'[c].ph = "AP_RD"
<1>1. ASSUME c_busy(c), c \in fin PROVE ctx[c].pend \subseteq c_sent(c, f, a)
  <2>1. c_fin(c, f, a) BY <1>1 DEF Ticks, Fin
  <2>2. CASE ctx[c].st = "done" BY <2>2 DEF EngInv, CtxOk
  <2>3. CASE ctx[c].pend \subseteq c_scs(c, a)
    <3>1. c_scs(c, a) # {} => P(c).scratch
      <4>1. sc_step(a) => Scratching # {} /\ Scratching \in SUBSET Nat BY DEF sc_step, Scratching, Cx
      <4>2. sc_step(a) => sc_c \in Scratching BY <4>1, Least DEF sc_c
      <4> QED BY <4>2 DEF c_scs, Scratching
    <3> QED BY <2>3, <3>1 DEF c_sent
  <2> QED BY <2>1, <2>2, <2>3 DEF c_fin
<1>2. ASSUME ctx'[c].st = "done" PROVE ctx'[c].pend = {} /\ ctx'[c].cnt = 0 /\ ctx'[c].ph = "AP_RD"
  <2>1. ~NewCtx(c, n) /\ ~GoneCtx(c, fin) BY <1>2 DEF NewCtx, GoneCtx, FreeCtx
  <2>2. KeptCtx(c, f, a, fin) BY <2>1, CtxStep
  <2>3. /\ c_busy(c) /\ c \in fin /\ ctx'[c].pend = ctx[c].pend \ c_sent(c, f, a)
        /\ ctx'[c].cnt = c_cnt_n(c, f, a)
    BY <1>2, <2>2 DEF KeptCtx
  <2>4. ctx'[c].ph = "AP_RD" BY <1>2, LockStep
  <2>5. ctx'[c].cnt = 0 BY <2>3, CountStep
  <2> QED BY <1>1, <2>3, <2>4, <2>5
<1> QED BY <1>1, <1>2

(* The request granted belongs to a context that sent it.                  *)
LEMMA GrantOk ==
  ASSUME EngInv, NEW n, NEW gnt, NEW rt, NEW f, NEW a, NEW g, NEW fin, Ticks(n, gnt, rt, f, a, g, fin),
         g # NoReq
  PROVE  /\ g.c \in Cx /\ c_busy(g.c) /\ Global(g.c) /\ g.mask \subseteq Lane /\ g.tag \in Tg
         /\ \E x \in 0 .. Words - 1 : g.line = LineOf(x)
<1>1. CASE ~conf.BYP /\ gnt /\ g = o /\ o # NoReq
  <2>1. /\ o.c \in Cx /\ o.tag \in Tg /\ \E x \in 0 .. Words - 1 : o.line = LineOf(x)
        /\ tags[o.tag] = [v |-> TRUE, c |-> o.c, mask |-> o.mask, kind |-> o.kind]
    BY <1>1 DEF EngInv, StageOk
  <2>2. TagOk(o.tag) /\ tags[o.tag].v /\ tags[o.tag].c = o.c BY <2>1 DEF EngInv, TagsOk
  <2>3. Global(o.c) BY <2>2 DEF TagOk, Owns
  <2>4. o.mask \subseteq Lane BY DEF EngInv, TypeOK
  <2> QED BY <1>1, <2>1, <2>3, <2>4 DEF Global
<1>2. CASE conf.BYP /\ gnt /\ g = f /\ f # NoReq
  <2>1. f.c \in Cx BY <1>2, FireFacts
  <2>2. /\ Global(f.c) /\ ctx[f.c].pend # {} /\ f.mask = mreq_mask(f.c) /\ f.tag \in Tg
        /\ f.line = LineOf(P(f.c).addr[c_lead(f.c)])
    BY <2>1, SentFacts
  <2>3. c_busy(f.c) BY <2>2 DEF Global
  <2>4. P(f.c).addr \in [Lane -> 0 .. Words - 1] /\ ctx[f.c].pend \subseteq Lane
    BY <2>1, <2>3, BusyFacts DEF EngInv
  <2>5. c_lead(f.c) \in Lane /\ mreq_mask(f.c) \subseteq ctx[f.c].pend
    BY <2>1, <2>2, LeadFacts DEF EngInv
  <2>6. P(f.c).addr[c_lead(f.c)] \in 0 .. Words - 1 BY <2>4, <2>5
  <2> QED BY <1>2, <2>1, <2>2, <2>3, <2>4, <2>5, <2>6
<1> QED BY <1>1, <1>2, GrantFacts

(* The memory and its answers stay words and lines.                        *)
LEMMA ValueStep ==
  ASSUME EngInv, NEW n, NEW gnt, NEW rt, NEW f, NEW a, NEW g, NEW fin, Ticks(n, gnt, rt, f, a, g, fin)
  PROVE  /\ mem' \in [0 .. Words - 1 -> Val]
         /\ \A t \in Tg : resp'[t] = NoData \/ resp'[t] \in [Off -> Val]
<1>0. /\ mem \in [0 .. Words - 1 -> Val] /\ am.line \in [Off -> Val]
      /\ \A t \in Tg : resp[t] = NoData \/ resp[t] \in [Off -> Val]
  BY DEF EngInv, TypeOK
<1>1. ASSUME g.kind = "MK_WRITE", g # NoReq PROVE Stored(g) \in [0 .. Words - 1 -> Val]
  <2> DEFINE hit(x) == {l \in g.mask : P(g.c).addr[l] = x}
  <2>1. g.c \in Cx /\ c_busy(g.c) /\ g.mask \subseteq Lane BY <1>1, GrantOk
  <2>2. P(g.c).data \in [Lane -> Val] BY <2>1, BusyFacts DEF EngInv
  <2>3. ASSUME NEW x \in 0 .. Words - 1
        PROVE  /\ x % LW \in Off
               /\ hit(x) # {} => P(g.c).data[Max(hit(x))] \in Val
    <3>1. x % LW \in Off BY LineType DEF EngInv
    <3>2. ASSUME hit(x) # {} PROVE Max(hit(x)) \in hit(x)
      <4>1. hit(x) \in SUBSET (1 .. NL) BY <2>1 DEF Lane
      <4>2. NL \in Nat BY SizeAssumption
      <4> HIDE DEF hit
      <4> QED BY <3>2, <4>1, <4>2, Greatest
    <3>3. ASSUME hit(x) # {} PROVE Max(hit(x)) \in Lane
      <4>1. Max(hit(x)) \in hit(x) BY <3>2, <3>3
      <4> HIDE DEF hit
      <4>2. hit(x) \subseteq Lane BY <2>1 DEF hit
      <4> QED BY <4>1, <4>2
    <3> HIDE DEF hit
    <3> QED BY <2>2, <3>1, <3>3
  <2>4. Stored(g) = [x \in DOMAIN mem |->
        IF P(g.c).kind = "amo" THEN IF LineOf(x) = g.line /\ (x % LW) \in am.touch
                               THEN am.line[x % LW] ELSE mem[x]
        ELSE IF hit(x) # {} THEN P(g.c).data[Max(hit(x))] ELSE mem[x]]
    BY DEF Stored
  <2>5. DOMAIN mem = 0 .. Words - 1 BY <1>0
  <2> HIDE DEF hit
  <2> QED BY <1>0, <2>3, <2>4, <2>5
<1>2. mem' \in [0 .. Words - 1 -> Val]
  <2>1. g.kind = "MK_WRITE" => g # NoReq BY DEF NoReq
  <2> QED BY <1>0, <1>1, <2>1 DEF Ticks, Memory
<1>3. ASSUME NEW t \in Tg PROVE resp'[t] = NoData \/ resp'[t] \in [Off -> Val]
  <2>1. ASSUME g.tag = t PROVE ReadLine(g.line) \in [Off -> Val]
    <3>1. g # NoReq BY <2>1 DEF NoReq, Tg
    <3>2. PICK x \in 0 .. Words - 1 : g.line = LineOf(x) BY <3>1, GrantOk
    <3> QED BY <3>2, LineType DEF EngInv
  <2>2. resp'[t] = IF t = rt THEN NoData ELSE IF g.tag = t THEN ReadLine(g.line) ELSE resp[t]
    BY DEF Ticks, Memory
  <2> QED BY <1>0, <2>1, <2>2
<1> QED BY <1>2, <1>3

(* While an AMO is locked and does not write its line, nobody writes.      *)
LEMMA LockedQuiet ==
  ASSUME EngInv, NEW n, NEW gnt, NEW rt, NEW f, NEW a, NEW g, NEW fin, Ticks(n, gnt, rt, f, a, g, fin),
         NEW c \in Locked, f.c # c
  PROVE  /\ f = NoReq /\ mem' = mem
         /\ g = NoReq \/ (g = o /\ o # NoReq /\ o.kind = "MK_AMORD" /\ o.c = c)
<1>1. f = NoReq
  <2>1. f # NoReq => f.c \in Locked BY FireFacts
  <2> QED BY <2>1 DEF EngInv, OneLock
<1>2. o # NoReq => o.kind = "MK_AMORD" /\ o.c = c BY DEF EngInv, StageOk, OneLock
<1>3. g = NoReq \/ (g = o /\ o # NoReq) BY <1>1, GrantFacts
<1>4. g.kind # "MK_WRITE" BY <1>2, <1>3 DEF NoReq
<1>5. mem' = mem BY <1>4 DEF Ticks, Memory
<1> QED BY <1>1, <1>2, <1>3, <1>5

(* A context with a tag after the cycle held an instruction before it.     *)
LEMMA OwnerStep ==
  ASSUME EngInv, NEW n, NEW gnt, NEW rt, NEW f, NEW a, NEW g, NEW fin, Ticks(n, gnt, rt, f, a, g, fin),
         NEW t \in Tg, NEW c \in Cx, tags'[t].v, tags'[t].c = c
  PROVE  KeptCtx(c, f, a, fin)
<1>1. c \in Cx /\ t \in TagsOf(c)' BY DEF TagsOf
<1>2. IsFiniteSet(TagsOf(c)')
  <2>1. MQD \in Nat /\ MQD > 0 BY EngineAssumption
  <2>2. IsFiniteSet(Tg) BY <2>1, FS_Interval DEF Tg
  <2>3. TagsOf(c)' \subseteq Tg BY DEF TagsOf
  <2> QED BY <2>2, <2>3, FS_Subset
<1>3. Cardinality(TagsOf(c)') # 0
  <2> DEFINE S == TagsOf(c)'
  <2>1. S # {} /\ IsFiniteSet(S) BY <1>1, <1>2
  <2> HIDE DEF S
  <2>2. Cardinality(S) # 0 BY <2>1, FS_EmptySet
  <2> QED BY <2>2 DEF S
<1>4. ctx'[c].cnt # 0
  <2>1. ctx'[c].cnt = Cardinality(TagsOf(c)') BY <1>1, TagsMatchStep DEF TagsMatch, TagsOf
  <2> QED BY <1>3, <2>1
<1>5. ~NewCtx(c, n) /\ ~GoneCtx(c, fin) BY <1>4 DEF NewCtx, GoneCtx, FreeCtx
<1>6. KeptCtx(c, f, a, fin) BY <1>1, <1>5, CtxStep
<1> QED BY <1>6

(* A tag after the cycle is free, was out before, or is the request sent.  *)
LEMMA TagOrigin ==
  ASSUME EngInv, NEW n, NEW gnt, NEW rt, NEW f, NEW a, NEW g, NEW fin, Ticks(n, gnt, rt, f, a, g, fin),
         NEW t \in Tg
  PROVE  \/ ~tags'[t].v /\ tags'[t] = FreeTag /\ rt = t
         \/ /\ tags'[t] = tags[t] /\ (rt = t => a.byp) /\ (f.tag = t => a.byp)
            /\ (tags[t].v => rt # t /\ f.tag # t)
         \/ /\ f.tag = t /\ rt # t /\ ~a.byp /\ f # NoReq /\ f.c \in Cx /\ ~tags[t].v
            /\ tags'[t] = [v |-> TRUE, c |-> f.c, mask |-> f.mask, kind |-> f.kind]
<1>1. TagNext(t, rt, f, a) BY TagStep
<1>2. FreeTag.v = FALSE BY DEF FreeTag
<1>3. rt = t /\ a.byp => ~tags[t].v
  <2>1. CASE rt = 0 /\ a = NoAnswer BY <2>1, NoAnswerFacts
  <2>2. CASE a.byp = FALSE BY <2>2
  <2>3. CASE ~tags[rt].v BY <2>3
  <2>4. (rt = 0 /\ a = NoAnswer)
        \/ (/\ rt \in Tg /\ tags[rt].v /\ resp[rt] # NoData
            /\ a = [c |-> tags[rt].c, mask |-> tags[rt].mask, kind |-> tags[rt].kind, byp |-> FALSE,
                    data |-> resp[rt]])
        \/ ~tags[rt].v
    BY AnswerFacts
  <2>5. a = [c |-> tags[rt].c, mask |-> tags[rt].mask, kind |-> tags[rt].kind, byp |-> FALSE,
             data |-> resp[rt]]
        => a.byp = FALSE
    OBVIOUS
  <2> QED BY <2>1, <2>2, <2>3, <2>4, <2>5
<1>4. CASE rt = t /\ ~a.byp
  <2>1. tags'[t] = FreeTag BY <1>1, <1>4 DEF TagNext
  <2> QED BY <1>2, <1>4, <2>1
<1>5. CASE ~(rt = t /\ ~a.byp) /\ f.tag = t /\ ~a.byp
  <2>1. /\ tags'[t] = [v |-> TRUE, c |-> f.c, mask |-> f.mask, kind |-> f.kind]
        /\ ~tags[t].v /\ f.c \in Cx /\ f # NoReq
    BY <1>1, <1>5 DEF TagNext
  <2> QED BY <1>5, <2>1
<1>6. CASE ~(rt = t /\ ~a.byp) /\ ~(f.tag = t /\ ~a.byp)
  <2>1. tags'[t] = tags[t] /\ (f.tag = t => ~tags[t].v) BY <1>1, <1>6 DEF TagNext
  <2> QED BY <1>3, <1>6, <2>1
<1> QED BY <1>4, <1>5, <1>6

(* The read of an AMO that is out keeps its context waiting.               *)
LEMMA ReadWaits ==
  ASSUME EngInv, NEW n, NEW gnt, NEW rt, NEW f, NEW a, NEW g, NEW fin, Ticks(n, gnt, rt, f, a, g, fin),
         NEW t \in Tg, NEW c \in Cx, tags[t].v, tags[t].kind = "MK_AMORD", tags[t].c = c, rt # t,
         KeptCtx(c, f, a, fin)
  PROVE  /\ c \in Locked /\ f.c # c /\ f = NoReq /\ ctx'[c].ph = "AP_WAIT"
         /\ tags[t].mask = mreq_mask(c)
         /\ resp[t] \in {NoData, ReadLine(LineOf(P(c).addr[c_lead(c)]))}
<1>1. TagOk(t) BY DEF EngInv, TagsOk
<1>2. /\ ctx[c].ph = "AP_WAIT" /\ tags[t].mask = mreq_mask(c) /\ Global(c)
      /\ resp[t] \in {NoData, ReadLine(LineOf(P(c).addr[c_lead(c)]))}
  BY <1>1 DEF TagOk, Owns
<1>3. c \in Locked /\ c_busy(c) /\ P(c).kind = "amo" /\ ~P(c).scratch
  BY <1>2 DEF EngInv, CtxOk, Locked, c_locked, Global
<1>4. f.c # c BY <1>2, <1>3, PhaseStep
<1>5. ~(a.c = c /\ a.kind = "MK_AMORD")
  <2>1. ASSUME a.c = c, a.kind = "MK_AMORD" PROVE FALSE
    <3>0. a.c # 0 BY <2>1 DEF Cx
    <3>1. CASE rt = 0 /\ a = NoAnswer BY <3>0, <3>1, NoAnswerFacts
    <3>2. CASE /\ rt \in Tg /\ tags[rt].v
               /\ a = [c |-> tags[rt].c, mask |-> tags[rt].mask, kind |-> tags[rt].kind, byp |-> FALSE,
                    data |-> resp[rt]]
      <4>1. rt \in AmoReads /\ t \in AmoReads BY <2>1, <3>2 DEF AmoReads
      <4> QED BY <4>1 DEF EngInv, TagsOk
    <3>3. CASE a = [c |-> f.c, mask |-> f.mask, kind |-> f.kind, byp |-> TRUE, data |-> ReadLine(f.line)]
      BY <1>4, <2>1, <3>3
    <3> QED BY <3>1, <3>2, <3>3, AnswerFacts
  <2> QED BY <2>1
<1>6. c_ph_n(c, f, a) = "AP_WAIT" BY <1>2, <1>3, <1>5, PhaseStep
<1>7. ctx'[c].ph = "AP_WAIT" BY <1>6 DEF KeptCtx
<1>8. f = NoReq BY <1>3, <1>4, LockedQuiet
<1> QED BY <1>2, <1>3, <1>4, <1>7, <1>8

(* What the memory holds for a tag after the cycle.                        *)
LEMMA RespStep ==
  ASSUME EngInv, NEW n, NEW gnt, NEW rt, NEW f, NEW a, NEW g, NEW fin, Ticks(n, gnt, rt, f, a, g, fin),
         NEW t \in Tg
  PROVE  /\ resp'[t] = IF t = rt THEN NoData ELSE IF g.tag = t THEN ReadLine(g.line) ELSE resp[t]
         /\ g.tag = t => \/ ~conf.BYP /\ g = o /\ o # NoReq /\ tags[t].v /\ resp[t] = NoData
                         \/ conf.BYP /\ g = f /\ f # NoReq /\ ~tags[t].v
<1>1. resp'[t] = IF t = rt THEN NoData ELSE IF g.tag = t THEN ReadLine(g.line) ELSE resp[t]
  BY DEF Ticks, Memory
<1>2. ASSUME g.tag = t
      PROVE  \/ ~conf.BYP /\ g = o /\ o # NoReq /\ tags[t].v /\ resp[t] = NoData
             \/ conf.BYP /\ g = f /\ f # NoReq /\ ~tags[t].v
  <2>1. CASE g = NoReq BY <1>2, <2>1 DEF NoReq, Tg
  <2>2. CASE ~conf.BYP /\ g = o /\ o # NoReq
    <3>1. tags[o.tag] = [v |-> TRUE, c |-> o.c, mask |-> o.mask, kind |-> o.kind] /\ resp[o.tag] = NoData
      BY <2>2 DEF EngInv, StageOk
    <3> QED BY <1>2, <2>2, <3>1
  <2>3. CASE conf.BYP /\ g = f /\ f # NoReq
    <3>1. ~tags[f.tag].v BY <2>3, FireFacts
    <3> QED BY <1>2, <2>3, <3>1
  <2> QED BY <2>1, <2>2, <2>3, GrantFacts
<1> QED BY <1>1, <1>2

(* A tag that is out stays owned by its context, an AMO's read with its    *)
(* line.                                                                   *)
LEMMA TagOkStep ==
  ASSUME EngInv, NEW n, NEW gnt, NEW rt, NEW f, NEW a, NEW g, NEW fin, Ticks(n, gnt, rt, f, a, g, fin),
         NEW t \in Tg
  PROVE  TagOk(t)'
<1>0. TagOk(t) BY DEF EngInv, TagsOk
<1>1. CASE ~tags'[t].v /\ tags'[t] = FreeTag /\ rt = t
  <2>1. resp'[t] = NoData BY <1>1, RespStep
  <2> QED BY <1>1, <2>1 DEF TagOk, Owns
<1>2. CASE tags'[t] = tags[t] /\ (rt = t => a.byp) /\ (f.tag = t => a.byp) /\ ~tags[t].v
  <2>1. resp[t] = NoData BY <1>0, <1>2 DEF TagOk, Owns
  <2>2. ASSUME g.tag = t, rt # t PROVE FALSE
    <3>1. conf.BYP /\ g = f /\ f # NoReq BY <1>2, <2>2, RespStep
    <3>2. a.byp BY <1>2, <2>2, <3>1
    <3>3. rt = f.tag
      <4>1. CASE rt = 0 /\ a = NoAnswer BY <3>2, <4>1, NoAnswerFacts
      <4>2. CASE a = [c |-> tags[rt].c, mask |-> tags[rt].mask, kind |-> tags[rt].kind, byp |-> FALSE,
                      data |-> resp[rt]]
        BY <3>2, <4>2
      <4>3. CASE rt = f.tag BY <4>3
      <4> QED BY <4>1, <4>2, <4>3, AnswerFacts
    <3> QED BY <2>2, <3>1, <3>3
  <2>3. resp'[t] = NoData BY <2>1, <2>2, RespStep
  <2> QED BY <1>2, <2>3 DEF TagOk, Owns
<1>3. CASE tags'[t] = tags[t] /\ tags[t].v /\ rt # t /\ f.tag # t
  <2>1. PICK c \in Cx : tags[t].c = c /\ Owns(c, t) BY <1>0, <1>3 DEF TagOk
  <2>2. tags'[t].c = c /\ tags'[t].v BY <1>3, <2>1
  <2>3. KeptCtx(c, f, a, fin) BY <2>2, OwnerStep
  <2>4. P(c)' = P(c) /\ ctx'[c].st # "free" BY <2>3 DEF KeptCtx
  <2>5. Global(c)' BY <2>1, <2>4 DEF Owns, Global, c_busy
  <2>6. tags'[t].kind = "MK_LOAD" <=> P(c)'.kind = "load" BY <1>3, <2>1, <2>4 DEF Owns
  <2>7. ASSUME tags'[t].kind = "MK_AMORD"
        PROVE  /\ ctx'[c].ph = "AP_WAIT" /\ tags'[t].mask = mreq_mask(c)'
               /\ resp'[t] \in {NoData, ReadLine(LineOf(P(c).addr[c_lead(c)]))'}
    <3>1. /\ c \in Locked /\ f.c # c /\ f = NoReq /\ ctx'[c].ph = "AP_WAIT"
          /\ tags[t].mask = mreq_mask(c)
          /\ resp[t] \in {NoData, ReadLine(LineOf(P(c).addr[c_lead(c)]))}
      BY <1>3, <2>1, <2>3, <2>7, ReadWaits
    <3>2. mreq_mask(c)' = mreq_mask(c) /\ c_lead(c)' = c_lead(c) BY <3>1, LockStep
    <3>3. mem' = mem BY <3>1, LockedQuiet
    <3>4. ReadLine(LineOf(P(c).addr[c_lead(c)]))' = ReadLine(LineOf(P(c).addr[c_lead(c)]))
      BY <2>4, <3>2, <3>3 DEF ReadLine, LineOf
    <3>5. g.tag = t => g.line = LineOf(P(c).addr[c_lead(c)])
      <4>1. g.tag = t => g = o /\ o # NoReq BY <1>3, RespStep
      <4>2. o # NoReq => /\ tags[o.tag].c = o.c /\ tags[o.tag].kind = o.kind
                         /\ o.kind = "MK_AMORD" => o.line = LineOf(P(o.c).addr[c_lead(o.c)])
        BY DEF EngInv, StageOk
      <4> QED BY <1>3, <2>1, <2>7, <4>1, <4>2
    <3>6. resp'[t] = IF g.tag = t THEN ReadLine(g.line) ELSE resp[t] BY <1>3, RespStep
    <3> QED BY <1>3, <3>1, <3>2, <3>4, <3>5, <3>6
  <2>8. Owns(c, t)' BY <2>5, <2>6, <2>7 DEF Owns
  <2> QED BY <2>2, <2>8 DEF TagOk
<1>4. CASE /\ f.tag = t /\ rt # t /\ ~a.byp /\ f # NoReq /\ f.c \in Cx /\ ~tags[t].v
           /\ tags'[t] = [v |-> TRUE, c |-> f.c, mask |-> f.mask, kind |-> f.kind]
  <2>1. PICK c \in Cx : f.c = c BY <1>4
  <2>2. /\ tags'[t].c = c /\ tags'[t].v /\ tags'[t].mask = f.mask /\ tags'[t].kind = f.kind
    BY <1>4, <2>1
  <2>3. KeptCtx(c, f, a, fin) BY <2>2, OwnerStep
  <2>4. P(c)' = P(c) /\ ctx'[c].st # "free" BY <2>3 DEF KeptCtx
  <2>s. /\ Global(c) /\ (f.kind = "MK_LOAD" <=> P(c).kind = "load") /\ f.mask = mreq_mask(c)
        /\ f.line = LineOf(P(c).addr[c_lead(c)])
        /\ f.kind = "MK_AMORD" => P(c).kind = "amo"
    BY <2>1, SentFacts
  <2>5. Global(c)' BY <2>4, <2>s DEF Global, c_busy
  <2>6. tags'[t].kind = "MK_LOAD" <=> P(c)'.kind = "load" BY <2>2, <2>4, <2>s
  <2>7. ASSUME tags'[t].kind = "MK_AMORD"
        PROVE  /\ ctx'[c].ph = "AP_WAIT" /\ tags'[t].mask = mreq_mask(c)'
               /\ resp'[t] \in {NoData, ReadLine(LineOf(P(c).addr[c_lead(c)]))'}
    <3>1. f.kind = "MK_AMORD" /\ P(c).kind = "amo" /\ ~P(c).scratch /\ c_busy(c) /\ Locked = {}
      <4>1. f.kind = "MK_AMORD" => Locked = {} BY <2>1, SentFacts
      <4> QED BY <2>2, <2>7, <2>s, <4>1 DEF Global
    <3>2. ctx[c].ph = "AP_RD" BY <2>1, <3>1, SentFacts
    <3>3. ~(a.c = c /\ a.kind = "MK_AMORD")
      <4>1. ASSUME a.c = c, a.kind = "MK_AMORD" PROVE FALSE
        <5>1. c_locked(c) \/ a.byp BY <4>1, AmoAnswer
        <5> QED BY <1>4, <3>1, <5>1 DEF Locked
      <4> QED BY <4>1
    <3>4. c_ph_n(c, f, a) = "AP_WAIT" BY <2>1, <3>1, <3>2, <3>3, PhaseStep
    <3>5. ctx'[c].ph = "AP_WAIT" BY <2>3, <3>4 DEF KeptCtx
    <3>6. mreq_mask(c)' = mreq_mask(c) /\ c_lead(c)' = c_lead(c) BY <3>5, LockStep
    <3>7. resp'[t] \in {NoData, ReadLine(LineOf(P(c).addr[c_lead(c)]))'}
      <4>1. resp[t] = NoData BY <1>0, <1>4 DEF TagOk
      <4>2. resp'[t] = IF g.tag = t THEN ReadLine(g.line) ELSE NoData BY <1>4, <4>1, RespStep
      <4>3. CASE g.tag = t
        <5>1. g = f BY <1>4, <4>3, RespStep
        <5>2. g.line = LineOf(P(c).addr[c_lead(c)]) BY <2>s, <5>1
        <5>3. mem' = mem BY <3>1, <5>1 DEF Ticks, Memory
        <5>4. ReadLine(LineOf(P(c).addr[c_lead(c)]))' = ReadLine(LineOf(P(c).addr[c_lead(c)]))
          BY <2>4, <3>6, <5>3 DEF ReadLine, LineOf
        <5> QED BY <4>2, <4>3, <5>2, <5>4
      <4> QED BY <4>2, <4>3
    <3> QED BY <2>2, <2>s, <3>5, <3>6, <3>7
  <2>8. Owns(c, t)' BY <2>5, <2>6, <2>7 DEF Owns
  <2> QED BY <2>2, <2>8 DEF TagOk
<1> QED BY <1>1, <1>2, <1>3, <1>4, TagOrigin

(* At most one read of an AMO is out.                                      *)
LEMMA TagsOkStep ==
  ASSUME EngInv, NEW n, NEW gnt, NEW rt, NEW f, NEW a, NEW g, NEW fin, Ticks(n, gnt, rt, f, a, g, fin)
  PROVE  TagsOk'
<1>1. \A t \in Tg : TagOk(t)' BY TagOkStep
<1>2. ASSUME NEW t \in AmoReads'
      PROVE  t \in AmoReads \/ (f.tag = t /\ f # NoReq /\ f.kind = "MK_AMORD")
  <2>1. t \in Tg /\ tags'[t].v /\ tags'[t].kind = "MK_AMORD" BY DEF AmoReads
  <2>2. CASE tags'[t] = tags[t] BY <2>1, <2>2 DEF AmoReads
  <2>3. CASE f.tag = t /\ f # NoReq /\ tags'[t] = [v |-> TRUE, c |-> f.c, mask |-> f.mask, kind |-> f.kind]
    BY <2>1, <2>3
  <2> QED BY <2>1, <2>2, <2>3, TagOrigin
<1>3. f # NoReq /\ f.kind = "MK_AMORD" => AmoReads = {}
  <2>1. ASSUME f # NoReq, f.kind = "MK_AMORD", NEW t \in AmoReads PROVE FALSE
    <3>1. f.c \in Cx BY <2>1, FireFacts
    <3>2. Locked = {} BY <2>1, <3>1, SentFacts
    <3>3. t \in Tg /\ TagOk(t) /\ tags[t].v /\ tags[t].kind = "MK_AMORD" BY DEF EngInv, TagsOk, AmoReads
    <3>4. PICK c \in Cx : ctx[c].ph = "AP_WAIT" BY <3>3 DEF TagOk, Owns
    <3> QED BY <3>2, <3>4 DEF EngInv, CtxOk, Locked
  <2> QED BY <2>1
<1>4. \A t, u \in AmoReads : t = u BY DEF EngInv, TagsOk
<1>5. \A t, u \in AmoReads' : t = u BY <1>2, <1>3, <1>4
<1> QED BY <1>1, <1>5 DEF TagsOk

(* The request stage holds what is out and not granted; while an AMO is    *)
(* locked, only its read.                                                  *)
LEMMA StageOkStep ==
  ASSUME EngInv, NEW n, NEW gnt, NEW rt, NEW f, NEW a, NEW g, NEW fin, Ticks(n, gnt, rt, f, a, g, fin)
  PROVE  StageOk'
<1>0. /\ o' = (IF conf.BYP THEN NoReq ELSE IF f # NoReq THEN f ELSE IF gnt THEN NoReq ELSE o)
      /\ conf' = conf
  BY DEF Ticks, RequestStage
<1> SUFFICES ASSUME o' # NoReq
             PROVE  /\ o'.c \in Cx /\ o'.tag \in Tg /\ resp'[o'.tag] = NoData
                    /\ tags'[o'.tag] = [v |-> TRUE, c |-> o'.c, mask |-> o'.mask, kind |-> o'.kind]
                    /\ \E x \in 0 .. Words - 1 : o'.line = LineOf(x)
                    /\ (o'.kind = "MK_AMORD" => o'.line = LineOf(P(o.c).addr[c_lead(o.c)])')
                    /\ (Locked' # {} => o'.c \in Locked' /\ o'.kind = "MK_AMORD")
  <2>1. conf'.BYP => o' = NoReq BY <1>0
  <2> QED BY <2>1 DEF StageOk, LineOf
<1>1. ~conf.BYP BY <1>0
<1>2. PICK t \in Tg : o'.tag = t /\ resp'[t] = NoData
                      /\ tags'[t] = [v |-> TRUE, c |-> o'.c, mask |-> o'.mask, kind |-> o'.kind]
                      /\ (\/ o' = f /\ f # NoReq
                          \/ o' = o /\ o # NoReq /\ f = NoReq /\ rt # t /\ tags[t].v
                             /\ tags[t].c = o.c /\ tags[t].kind = o.kind)
  <2>1. CASE f # NoReq
    <3>1. o' = f /\ f.tag \in Tg /\ ~tags[f.tag].v BY <1>0, <1>1, <2>1, FireFacts
    <3>2. PICK t \in Tg : t = f.tag BY <3>1
    <3>3. TagOk(t) BY DEF EngInv, TagsOk
    <3>4. resp[t] = NoData BY <3>1, <3>2, <3>3 DEF TagOk
    <3>5. resp'[t] = NoData BY <1>1, <3>1, <3>2, <3>4, RespStep
    <3>6. tags'[t] = [v |-> TRUE, c |-> f.c, mask |-> f.mask, kind |-> f.kind]
      <4>1. TagNext(t, rt, f, a) BY TagStep
      <4>2. ~a.byp /\ ~(rt = t) BY <1>1, <3>1, <3>2, <4>1 DEF TagNext
      <4> QED BY <3>2, <4>1, <4>2 DEF TagNext
    <3> QED BY <2>1, <3>1, <3>2, <3>5, <3>6
  <2>2. CASE f = NoReq
    <3>1. o' = o /\ o # NoReq /\ ~gnt BY <1>0, <1>1, <2>2
    <3>2. /\ o.tag \in Tg /\ resp[o.tag] = NoData
          /\ tags[o.tag] = [v |-> TRUE, c |-> o.c, mask |-> o.mask, kind |-> o.kind]
      BY <3>1 DEF EngInv, StageOk
    <3>3. PICK t \in Tg : t = o.tag BY <3>2
    <3>4. g = NoReq BY <3>1, GrantFacts
    <3>5. g.tag # t BY <3>4 DEF NoReq, Tg
    <3>6. resp'[t] = NoData BY <3>2, <3>3, <3>5, RespStep
    <3>7. tags'[t] = tags[t] /\ rt # t
      <4>1. TagNext(t, rt, f, a) BY TagStep
      <4>2. ~a.byp BY <1>1, <4>1 DEF TagNext
      <4>3. ~(rt = t) BY <3>2, <3>3, <4>1, <4>2 DEF TagNext
      <4>4. f.tag # t BY <2>2 DEF NoReq, Tg
      <4> QED BY <4>1, <4>2, <4>3, <4>4 DEF TagNext
    <3> QED BY <2>2, <3>1, <3>2, <3>3, <3>6, <3>7
  <2> QED BY <2>1, <2>2
<1>3. PICK c \in Cx : o'.c = c
  <2>1. CASE o' = f /\ f # NoReq BY <2>1, FireFacts
  <2>2. CASE o' = o /\ o # NoReq BY <2>2 DEF EngInv, StageOk
  <2> QED BY <1>2, <2>1, <2>2
<1>4. tags'[t].v /\ tags'[t].c = c /\ tags'[t].kind = o'.kind BY <1>2, <1>3
<1>5. KeptCtx(c, f, a, fin) BY <1>4, OwnerStep
<1>6. \E x \in 0 .. Words - 1 : o'.line = LineOf(x)
  <2>1. CASE o' = f /\ f # NoReq
    <3>1. /\ Global(c) /\ c_busy(c) /\ ctx[c].pend # {} /\ f.line = LineOf(P(c).addr[c_lead(c)])
      BY <1>3, <2>1, SentFacts DEF Global
    <3>2. P(c).addr \in [Lane -> 0 .. Words - 1] /\ c_lead(c) \in Lane
      BY <3>1, BusyFacts, LeadFacts DEF EngInv
    <3>3. P(c).addr[c_lead(c)] \in 0 .. Words - 1 BY <3>2
    <3> QED BY <2>1, <3>1, <3>3
  <2>2. CASE o' = o /\ o # NoReq BY <2>2 DEF EngInv, StageOk
  <2> QED BY <1>2, <2>1, <2>2
<1>7. ASSUME o'.kind = "MK_AMORD"
      PROVE  o'.line = LineOf(P(o.c).addr[c_lead(o.c)])'
  <2>1. Owns(c, t)'
    <3>1. TagOk(t)' BY TagOkStep
    <3> QED BY <1>4, <3>1 DEF TagOk
  <2>2. ctx'[c].ph = "AP_WAIT" BY <1>4, <1>7, <2>1 DEF Owns
  <2>3. P(c)' = P(c) /\ c_lead(c)' = c_lead(c) BY <2>2, LockStep
  <2>4. o'.line = LineOf(P(c).addr[c_lead(c)])
    <3>1. CASE o' = f /\ f # NoReq BY <1>3, <3>1, SentFacts
    <3>2. CASE o' = o /\ o # NoReq
      <4>1. o.c = c /\ o.kind = "MK_AMORD" BY <1>3, <1>7, <3>2
      <4>2. o.line = LineOf(P(o.c).addr[c_lead(o.c)]) BY <3>2, <4>1 DEF EngInv, StageOk
      <4> QED BY <3>2, <4>1, <4>2
    <3> QED BY <1>2, <3>1, <3>2
  <2>5. P(o.c)' = P(c)' /\ c_lead(o.c)' = c_lead(c)' BY <1>3 DEF P, c_lead
  <2> QED BY <2>3, <2>4, <2>5 DEF LineOf
<1>8. ASSUME NEW d \in Locked' PROVE c \in Locked' /\ o'.kind = "MK_AMORD"
  <2>1. d \in Cx /\ ctx'[d].ph # "AP_RD" BY DEF Locked, c_locked
  <2>2. CASE d \in Locked /\ f.c # d
    <3>1. f = NoReq BY <2>2, LockedQuiet
    <3>2. o' = o /\ o # NoReq BY <1>2, <3>1
    <3>3. o.kind = "MK_AMORD" /\ o.c = d BY <2>2, <3>2 DEF EngInv, StageOk, OneLock
    <3> QED BY <1>3, <3>2, <3>3
  <2>3. CASE Locked = {} /\ f.c = d /\ f # NoReq /\ f.kind = "MK_AMORD"
    <3>1. o' = f BY <1>2, <2>3
    <3> QED BY <1>3, <2>3, <3>1
  <2> QED BY <2>1, <2>2, <2>3, LockStep
<1> QED BY <1>2, <1>3, <1>6, <1>7, <1>8

(* The line buffer of a context locked after the cycle.                    *)
LEMMA RoundStep ==
  ASSUME EngInv, NEW n, NEW gnt, NEW rt, NEW f, NEW a, NEW g, NEW fin, Ticks(n, gnt, rt, f, a, g, fin),
         NEW c \in Cx, ctx'[c].ph \in {"AP_AGG", "AP_WR"}
  PROVE  /\ mem' = mem
         /\ \/ /\ ctx'[c].ph = "AP_AGG" /\ a.kind = "MK_AMORD" /\ a.mask = mreq_mask(c)
               /\ am' = [line |-> a.data, left |-> a.mask, touch |-> {}]
               /\ a.data = ReadLine(LineOf(P(c).addr[c_lead(c)]))
            \/ /\ c \in Locked /\ f.c # c /\ lock_c = c /\ ctx[c].ph = "AP_AGG" /\ a_step(a)
               /\ a_act /\ (ctx'[c].ph = "AP_WR" <=> am.left \ a_rnd = {})
               /\ am' = [line |-> [w \in Off |-> IF w \in a_whit THEN a_wnew(w) ELSE am.line[w]],
                         left |-> am.left \ a_rnd, touch |-> am.touch \cup a_whit]
            \/ c \in Locked /\ f.c # c /\ am' = am /\ ctx'[c].ph = ctx[c].ph
<1>1. /\ c_busy(c) /\ P(c).kind = "amo" /\ ~P(c).scratch /\ ctx'[c].ph = c_ph_n(c, f, a)
      /\ \/ c \in Locked /\ f.c # c
         \/ Locked = {} /\ ctx[c].ph = "AP_RD" /\ f.c = c /\ f # NoReq /\ f.kind = "MK_AMORD"
  BY LockStep
<1>a. am' = IF a.kind = "MK_AMORD" THEN [line |-> a.data, left |-> a.mask, touch |-> {}]
            ELSE IF a_step(a)
            THEN [line |-> [w \in Off |-> IF w \in a_whit THEN a_wnew(w) ELSE am.line[w]],
                  left |-> am.left \ a_rnd, touch |-> am.touch \cup a_whit]
            ELSE am
  BY DEF Ticks, LineBuffer
<1>2. ASSUME NEW d \in Cx, a.c = d, a.kind = "MK_AMORD" PROVE d = c
  <2>1. c_locked(d) \/ (Locked = {} /\ f.c = d) BY <1>2, AmoAnswer
  <2> QED BY <1>1, <2>1 DEF EngInv, OneLock, Locked
<1>3. a.kind = "MK_AMORD" => a.c = c
  <2>1. a.kind = "MK_AMORD" => a.c \in Cx
    <3>1. CASE rt = 0 /\ a = NoAnswer BY <3>1, NoAnswerFacts
    <3>2. CASE /\ rt \in Tg /\ tags[rt].v
               /\ a = [c |-> tags[rt].c, mask |-> tags[rt].mask, kind |-> tags[rt].kind, byp |-> FALSE,
                    data |-> resp[rt]]
      <4>1. TagOk(rt) BY <3>2 DEF EngInv, TagsOk
      <4> QED BY <3>2, <4>1 DEF TagOk
    <3>3. CASE /\ f # NoReq
               /\ a = [c |-> f.c, mask |-> f.mask, kind |-> f.kind, byp |-> TRUE, data |-> ReadLine(f.line)]
      <4>1. f.c \in Cx BY <3>3, FireFacts
      <4> QED BY <3>3, <4>1
    <3> QED BY <3>1, <3>2, <3>3, AnswerFacts
  <2> QED BY <1>2, <2>1
<1>4. CASE a.kind = "MK_AMORD"
  <2>1. a.c = c BY <1>3, <1>4
  <2>2. ctx'[c].ph = "AP_AGG" BY <1>1, <1>4, <2>1 DEF c_ph_n
  <2>3. /\ a.mask = mreq_mask(c) /\ a.data = ReadLine(LineOf(P(c).addr[c_lead(c)]))
        /\ g.kind # "MK_WRITE"
    BY <1>4, <2>1, AmoAnswer DEF NoReq
  <2>4. mem' = mem BY <2>3 DEF Ticks, Memory
  <2> QED BY <1>4, <1>a, <2>2, <2>3, <2>4
<1>5. CASE a.kind # "MK_AMORD"
  <2>1. c \in Locked /\ f.c # c
    <3>1. ctx[c].ph = "AP_RD" /\ f.c = c => c_ph_n(c, f, a) = "AP_WAIT" BY <1>1, <1>5, PhaseStep
    <3> QED BY <1>1, <3>1
  <2>2. mem' = mem BY <2>1, LockedQuiet
  <2>3. lock_c = c BY <2>1, TheLock DEF EngInv
  <2>4. ctx[c].ph \in Phases BY DEF EngInv, TypeOK
  <2>5. CASE a_step(a)
    <3>1. a_act /\ ctx[c].ph = "AP_AGG" BY <2>3, <2>5 DEF a_step, a_act
    <3>2. a_last(a) <=> am.left \ a_rnd = {} BY <2>5 DEF a_last
    <3>3. c_ph_n(c, f, a) = IF a_last(a) THEN "AP_WR" ELSE "AP_AGG" BY <1>1, <3>1, PhaseStep
    <3> QED BY <1>1, <1>5, <1>a, <2>1, <2>2, <2>3, <2>5, <3>1, <3>2, <3>3
  <2>6. CASE ~a_step(a)
    <3>1. am' = am /\ ~a_last(a) BY <1>5, <1>a, <2>6 DEF a_last
    <3>2. c_ph_n(c, f, a) = ctx[c].ph
      <4>1. CASE ctx[c].ph = "AP_WR" BY <1>1, <2>1, <4>1, PhaseStep
      <4>2. CASE ctx[c].ph = "AP_AGG" BY <1>1, <3>1, <4>2, PhaseStep
      <4>3. CASE ctx[c].ph \in {"AP_RD", "AP_WAIT"} BY <1>1, <1>5, <2>1, <4>3, PhaseStep
      <4> QED BY <2>4, <4>1, <4>2, <4>3 DEF Phases
    <3> QED BY <1>1, <2>1, <2>2, <3>1, <3>2
  <2> QED BY <2>5, <2>6
<1> QED BY <1>4, <1>5

(* A round of an AMO that goes on has lanes left.                          *)
LEMMA LeftStep ==
  ASSUME EngInv, NEW n, NEW gnt, NEW rt, NEW f, NEW a, NEW g, NEW fin, Ticks(n, gnt, rt, f, a, g, fin),
         NEW c \in Cx, ctx'[c].ph = "AP_AGG"
  PROVE  am'.left # {}
<1>1. ctx[c].pend # {} BY LockStep
<1>2. mreq_mask(c) # {} BY <1>1, LeadFacts DEF EngInv
<1>3. CASE a.mask = mreq_mask(c) /\ am' = [line |-> a.data, left |-> a.mask, touch |-> {}]
  BY <1>2, <1>3
<1>4. CASE /\ am.left \ a_rnd # {}
           /\ am' = [line |-> [w \in Off |-> IF w \in a_whit THEN a_wnew(w) ELSE am.line[w]],
                     left |-> am.left \ a_rnd, touch |-> am.touch \cup a_whit]
  BY <1>4
<1>5. CASE am' = am /\ ctx[c].ph = "AP_AGG" BY <1>5 DEF EngInv, CtxOk
<1> QED BY <1>3, <1>4, <1>5, RoundStep

(* The line buffer of a locked AMO keeps the words memory has.             *)
LEMMA LineOkStep ==
  ASSUME EngInv, NEW n, NEW gnt, NEW rt, NEW f, NEW a, NEW g, NEW fin, Ticks(n, gnt, rt, f, a, g, fin)
  PROVE  LineOk'
<1> SUFFICES ASSUME NEW c \in Cx, ctx'[c].ph \in {"AP_AGG", "AP_WR"}, NEW w \in Off, w \notin am'.touch
             PROVE  am'.line[w] = mem'[LineOf(P(c)'.addr[c_lead(c)']) * LW + w]
  BY DEF LineOk, LineOf
<1>1. P(c)' = P(c) /\ c_lead(c)' = c_lead(c) BY LockStep
<1> DEFINE x == LineOf(P(c).addr[c_lead(c)]) * LW + w
<1>2. mem' = mem BY RoundStep
<1>3. ctx[c].ph \in {"AP_AGG", "AP_WR"} => (w \notin am.touch => am.line[w] = mem[x])
  BY DEF EngInv, LineOk
<1>4. am'.line[w] = mem[x]
  <2>1. CASE /\ am' = [line |-> a.data, left |-> a.mask, touch |-> {}]
             /\ a.data = ReadLine(LineOf(P(c).addr[c_lead(c)]))
    BY <2>1 DEF ReadLine
  <2>2. CASE /\ ctx[c].ph = "AP_AGG"
             /\ am' = [line |-> [v \in Off |-> IF v \in a_whit THEN a_wnew(v) ELSE am.line[v]],
                       left |-> am.left \ a_rnd, touch |-> am.touch \cup a_whit]
    <3>1. w \notin a_whit /\ w \notin am.touch BY <2>2
    <3>2. am'.line[w] = am.line[w] BY <2>2, <3>1
    <3> HIDE DEF x
    <3> QED BY <1>3, <2>2, <3>1, <3>2
  <2>3. CASE am' = am /\ ctx'[c].ph = ctx[c].ph
    <3> HIDE DEF x
    <3> QED BY <1>3, <2>3
  <2> HIDE DEF x
  <2> QED BY <2>1, <2>2, <2>3, RoundStep
<1> QED BY <1>1, <1>2, <1>4

(* The scratchpad serves a lane of a context that is busy there.           *)
LEMMA ScratchFacts ==
  ASSUME EngInv, NEW a, sc_step(a)
  PROVE  /\ sc_c \in Cx /\ ctx[sc_c].st = "busy" /\ c_busy(sc_c) /\ P(sc_c).scratch /\ ~gwb(a)
         /\ ~(a_wb /\ a_step(a))
         /\ sc_lead = c_lead(sc_c) /\ sc_lead \in Lane /\ sc_rd \in Val
<1>1. Scratching # {} /\ Scratching \in SUBSET Nat /\ ~gwb(a) /\ ~(a_wb /\ a_step(a))
  BY DEF sc_step, Scratching, Cx
<1>2. sc_c \in Scratching BY <1>1, Least DEF sc_c
<1>3. sc_c \in Cx /\ ctx[sc_c].st = "busy" /\ c_busy(sc_c) /\ P(sc_c).scratch
  BY <1>2 DEF Scratching, c_busy
<1>4. ctx[sc_c].pend # {} BY <1>3 DEF EngInv, ScratchOk
<1>5. sc_lead = c_lead(sc_c) /\ sc_lead \in Lane BY <1>3, <1>4, LeadFacts DEF EngInv, sc_lead
<1>6. P(sc_c) \in Op BY <1>3, BusyFacts DEF EngInv
<1>7. sc_a(P(sc_c), sc_lead) \in 0 .. NW * ScrWords - 1 BY <1>5, <1>6, ScratchWord
<1>8. scr \in [0 .. NW * ScrWords - 1 -> Val] BY DEF EngInv, TypeOK
<1>9. sc_rd \in Val BY <1>7, <1>8 DEF sc_rd
<1> QED BY <1>1, <1>3, <1>5, <1>9

(* An AMO round applies lanes that are left, to words of the line.         *)
LEMMA RoundFacts ==
  ASSUME EngInv, a_act
  PROVE  /\ lock_c \in Locked /\ lock_c \in Cx /\ c_busy(lock_c) /\ ctx[lock_c].ph = "AP_AGG"
         /\ a_rnd \subseteq am.left /\ a_rnd \subseteq Lane /\ a_whit \subseteq Off
         /\ \A l \in Lane : a_off(l) \in Off
         /\ \A w \in a_whit : a_wnew(w) \in Val
<1>1. PICK c \in Locked : TRUE BY DEF a_act
<1>2. lock_c = c /\ c \in Cx /\ c_busy(c) BY <1>1, TheLock DEF EngInv, Locked, c_locked, Global
<1>3. ctx[c].ph = "AP_AGG" /\ am.left # {} BY <1>2 DEF a_act, EngInv, CtxOk
<1>4. am.left \subseteq Lane /\ am.line \in [Off -> Val] BY DEF EngInv, TypeOK
<1>5. a_rnd \subseteq am.left
  <2>1. CASE conf.APAR BY <2>1 DEF a_rnd
  <2>2. CASE ~conf.APAR
    <3>1. am.left \in SUBSET Nat BY <1>4 DEF Lane
    <3>2. Min(am.left) \in am.left BY <1>3, <3>1, Least
    <3> QED BY <2>2, <3>2 DEF a_rnd
  <2> QED BY <2>1, <2>2
<1>6. /\ P(c).addr \in [Lane -> 0 .. Words - 1] /\ P(c).data \in [Lane -> Val]
      /\ P(c).fn \in {"add", "swap", "minu", "maxu"}
  BY <1>2, BusyFacts DEF EngInv
<1>7. ASSUME NEW l \in Lane PROVE a_off(l) \in Off
  <2>1. P(c).addr[l] \in 0 .. Words - 1 BY <1>6
  <2>2. P(c).addr[l] % LW \in Off BY <2>1, LineType DEF EngInv
  <2> QED BY <1>2, <2>2 DEF a_off
<1>8. a_whit \subseteq Off BY <1>4, <1>5, <1>7 DEF a_whit
<1>9. ASSUME NEW w \in a_whit PROVE a_wnew(w) \in Val
  <2>1. \E l \in a_rnd : a_off(l) = w BY <1>9 DEF a_whit
  <2> DEFINE k == CHOOSE l \in a_rnd : a_off(l) = w
  <2>2. k \in a_rnd BY <2>1
  <2>3. a_wnew(w) = amo_alu(P(lock_c).fn, am.line[w], P(lock_c).data[k]) BY DEF a_wnew
  <2> HIDE DEF k
  <2>4. k \in Lane /\ w \in Off BY <1>4, <1>5, <1>8, <2>2
  <2>5. am.line[w] \in Val /\ P(c).data[k] \in Val BY <1>4, <1>6, <2>4
  <2> QED BY <1>2, <1>6, <2>3, <2>5, AluType
<1> QED BY <1>1, <1>2, <1>3, <1>4, <1>5, <1>7, <1>8, <1>9

(* An answer that is written back is a load's.                             *)
LEMMA LoadAnswer ==
  ASSUME EngInv, NEW n, NEW gnt, NEW rt, NEW f, NEW a, NEW g, NEW fin, Ticks(n, gnt, rt, f, a, g, fin),
         a.c # 0
  PROVE  a.c \in Cx /\ c_busy(a.c) /\ a.mask \subseteq Lane /\ a.data \in [Off -> Val] /\ a.kind \in Kinds
<1>1. CASE rt = 0 /\ a = NoAnswer BY <1>1, NoAnswerFacts
<1>2. CASE /\ rt \in Tg /\ tags[rt].v /\ resp[rt] # NoData
           /\ a = [c |-> tags[rt].c, mask |-> tags[rt].mask, kind |-> tags[rt].kind, byp |-> FALSE,
                   data |-> resp[rt]]
  <2>1. TagOk(rt) BY <1>2 DEF EngInv, TagsOk
  <2>2. tags[rt].c \in Cx /\ c_busy(tags[rt].c) BY <1>2, <2>1 DEF TagOk, Owns, Global
  <2>3. tags[rt].mask \subseteq Lane /\ tags[rt].kind \in Kinds /\ resp[rt] \in [Off -> Val]
    BY <1>2 DEF EngInv, TypeOK
  <2> QED BY <1>2, <2>2, <2>3
<1>3. CASE /\ rt \in Tg /\ conf.BYP /\ gnt /\ f # NoReq /\ rt = f.tag /\ ~tags[rt].v /\ g = f
           /\ a = [c |-> f.c, mask |-> f.mask, kind |-> f.kind, byp |-> TRUE, data |-> ReadLine(f.line)]
  <2>1. g.c \in Cx /\ c_busy(g.c) /\ g.mask \subseteq Lane /\ \E x \in 0 .. Words - 1 : g.line = LineOf(x)
    BY <1>3, GrantOk
  <2>2. ReadLine(f.line) \in [Off -> Val] BY <1>3, <2>1, LineType DEF EngInv
  <2>3. f.kind \in Kinds BY <1>3, <2>1, SentFacts
  <2> QED BY <1>3, <2>1, <2>2, <2>3
<1> QED BY <1>1, <1>2, <1>3, AnswerFacts

(* The writeback of the cycle, its three sources in their order.           *)
LEMMA WbCases ==
  ASSUME NEW a, sc_step(a) => ~gwb(a) /\ ~(a_wb /\ a_step(a))
  PROVE  wb(a) = IF gwb(a)
                 THEN [n |-> ctx[a.c].id, lanes |-> a.mask,
                       data |-> [l \in Lane |-> a.data[P(a.c).addr[l] % LW]]]
                 ELSE IF a_wb /\ a_step(a)
                 THEN [n |-> ctx[lock_c].id, lanes |-> a_rnd, data |-> [l \in Lane |-> am.line[a_off(l)]]]
                 ELSE IF sc_step(a) /\ Returns(P(sc_c))
                 THEN [n |-> ctx[sc_c].id, lanes |-> {sc_lead}, data |-> [l \in Lane |-> sc_rd]]
                 ELSE [n |-> 0, lanes |-> {}, data |-> << >>]
<1>1. gwb(a) => ~(a_wb /\ a_step(a)) BY DEF a_step, a_wb
<1> DEFINE x == gwb(a)
           y == a_wb /\ a_step(a)
           z == ~gwb(a) /\ sc_step(a) /\ Returns(P(sc_c))
<1>2. ~(x /\ y) /\ ~(x /\ z) /\ ~(y /\ z) BY <1>1
<1>3. CASE x
  <2>1. ~y /\ ~z BY <1>2, <1>3
  <2> QED BY <1>3, <2>1 DEF wb
<1>4. CASE ~x /\ y
  <2>1. ~z BY <1>2, <1>4
  <2> QED BY <1>4, <2>1 DEF wb
<1>5. CASE ~x /\ ~y /\ z BY <1>5 DEF wb
<1>6. CASE ~x /\ ~y /\ ~z BY <1>6 DEF wb
<1> QED BY <1>3, <1>4, <1>5, <1>6

(* The writeback goes to an instruction accepted, with values.             *)
LEMMA WbFacts ==
  ASSUME EngInv, NEW n, NEW gnt, NEW rt, NEW f, NEW a, NEW g, NEW fin, Ticks(n, gnt, rt, f, a, g, fin)
  PROVE  /\ wb(a).n = 0 \/ wb(a).n \in 1 .. Len(op)
         /\ wb(a).n # 0 => \A l \in wb(a).lanes : l \in Lane => wb(a).data[l] \in Val
         /\ gwb(a) => wb(a).n = ctx[a.c].id /\ wb(a).lanes = a.mask
         /\ a_wb /\ a_step(a) => wb(a).n = ctx[lock_c].id /\ wb(a).lanes = a_rnd
         /\ sc_step(a) /\ Returns(P(sc_c)) => wb(a).n = ctx[sc_c].id /\ wb(a).lanes = {sc_lead}
<1>0. sc_step(a) => ~gwb(a) /\ ~(a_wb /\ a_step(a)) BY DEF sc_step
<1>1. CASE gwb(a)
  <2>1. wb(a) = [n |-> ctx[a.c].id, lanes |-> a.mask,
                 data |-> [l \in Lane |-> a.data[P(a.c).addr[l] % LW]]]
    BY <1>0, <1>1, WbCases
  <2>2. a.c # 0
    <3>1. CASE rt = 0 /\ a = NoAnswer BY <1>1, <3>1, NoAnswerFacts DEF gwb
    <3>2. CASE /\ rt \in Tg /\ tags[rt].v
               /\ a = [c |-> tags[rt].c, mask |-> tags[rt].mask, kind |-> tags[rt].kind, byp |-> FALSE,
                       data |-> resp[rt]]
      <4>1. TagOk(rt) BY <3>2 DEF EngInv, TagsOk
      <4>2. tags[rt].c # 0 BY <3>2, <4>1 DEF TagOk, Cx
      <4> QED BY <3>2, <4>2
    <3>3. CASE /\ f # NoReq
               /\ a = [c |-> f.c, mask |-> f.mask, kind |-> f.kind, byp |-> TRUE, data |-> ReadLine(f.line)]
      <4>1. f.c \in Cx BY <3>3, FireFacts
      <4> QED BY <3>3, <4>1 DEF Cx
    <3> QED BY <3>1, <3>2, <3>3, AnswerFacts
  <2>3. a.c \in Cx /\ c_busy(a.c) /\ a.mask \subseteq Lane /\ a.data \in [Off -> Val]
    BY <2>2, LoadAnswer
  <2>4. ctx[a.c].id \in 1 .. Len(op) /\ P(a.c).addr \in [Lane -> 0 .. Words - 1]
    BY <2>3, BusyFacts DEF EngInv
  <2>5. ASSUME NEW l \in Lane PROVE a.data[P(a.c).addr[l] % LW] \in Val
    <3>1. P(a.c).addr[l] \in 0 .. Words - 1 BY <2>4
    <3>2. P(a.c).addr[l] % LW \in Off BY <3>1, LineType DEF EngInv
    <3> QED BY <2>3, <3>2
  <2>6. ~(a_wb /\ a_step(a)) /\ ~sc_step(a) BY <1>0, <1>1 DEF a_step, a_wb
  <2> QED BY <2>1, <2>4, <2>5, <2>6
<1>2. CASE ~gwb(a) /\ a_wb /\ a_step(a)
  <2>1. wb(a) = [n |-> ctx[lock_c].id, lanes |-> a_rnd, data |-> [l \in Lane |-> am.line[a_off(l)]]]
    BY <1>0, <1>2, WbCases
  <2>2. a_act BY <1>2 DEF a_step
  <2>3. lock_c \in Cx /\ c_busy(lock_c) /\ \A l \in Lane : a_off(l) \in Off BY <2>2, RoundFacts
  <2>4. ctx[lock_c].id \in 1 .. Len(op) /\ am.line \in [Off -> Val]
    BY <2>3, BusyFacts DEF EngInv, TypeOK
  <2> QED BY <1>0, <1>2, <2>1, <2>3, <2>4
<1>3. CASE sc_step(a) /\ Returns(P(sc_c))
  <2>1. wb(a) = [n |-> ctx[sc_c].id, lanes |-> {sc_lead}, data |-> [l \in Lane |-> sc_rd]]
    BY <1>0, <1>3, WbCases
  <2>2. sc_c \in Cx /\ c_busy(sc_c) /\ sc_rd \in Val BY <1>3, ScratchFacts
  <2>3. ctx[sc_c].id \in 1 .. Len(op) BY <2>2, BusyFacts DEF EngInv
  <2> QED BY <1>0, <1>3, <2>1, <2>2, <2>3
<1>4. CASE ~gwb(a) /\ ~(a_wb /\ a_step(a)) /\ ~(sc_step(a) /\ Returns(P(sc_c)))
  <2>1. wb(a) = [n |-> 0, lanes |-> {}, data |-> << >>] BY <1>0, <1>4, WbCases
  <2> QED BY <1>4, <2>1
<1> QED BY <1>1, <1>2, <1>3, <1>4

(* The registers: a result is written into the lanes of the writeback and  *)
(* none is taken back.                                                     *)
LEMMA GotStep ==
  ASSUME EngInv, NEW n, NEW gnt, NEW rt, NEW f, NEW a, NEW g, NEW fin, Ticks(n, gnt, rt, f, a, g, fin)
  PROVE  /\ got' \in Seq([Lane -> Val \cup {None}]) /\ Len(got') = Len(op')
         /\ \A k \in 1 .. Len(op), l \in Lane :
              /\ got'[k][l] = IF wb(a).n = k /\ l \in wb(a).lanes THEN wb(a).data[l] ELSE got[k][l]
              /\ got[k][l] # None \/ (wb(a).n = k /\ l \in wb(a).lanes) => got'[k][l] # None
         /\ n # 0 => \A l \in Lane : got'[n][l] = None
<1> DEFINE R   == [Lane -> Val \cup {None}]
           new == IF n = 0 THEN got ELSE Append(got, [l \in Lane |-> None])
           w   == wb(a)
<1>1. got \in Seq(R) /\ Len(got) = Len(op) /\ Len(op) \in Nat BY DEF EngInv, OpsOk
<1>2. n = 0 => op' = op BY OpGrows
<1>3. n # 0 => n = Len(op) + 1 /\ Len(op') = n BY OpGrows
<1>4. /\ new \in Seq(R) /\ Len(new) = Len(op') /\ Len(op') \in Nat
      /\ \A k \in 1 .. Len(op) : k \in 1 .. Len(new) /\ new[k] = got[k]
      /\ n # 0 => n \in 1 .. Len(new) /\ n \notin 1 .. Len(op) /\ new[n] = [l \in Lane |-> None]
  <2>1. [l \in Lane |-> None] \in R OBVIOUS
  <2> HIDE DEF R
  <2> QED BY <1>1, <1>2, <1>3, <2>1
<1>5. got' = IF w.n = 0 THEN new
             ELSE [new EXCEPT ![w.n] = [l \in Lane |-> IF l \in w.lanes THEN w.data[l] ELSE @[l]]]
  BY DEF Ticks, Writeback
<1>6. /\ w.n = 0 \/ w.n \in 1 .. Len(op)
      /\ w.n # 0 => \A l \in w.lanes : l \in Lane => w.data[l] \in Val
  BY WbFacts
<1>7. \A v \in Val : v # None BY DEF Val, None
<1> HIDE DEF w, new
<1>8. CASE w.n = 0
  <2>1. got' = new BY <1>5, <1>8
  <2>2. \A k \in 1 .. Len(op) : w.n # k BY <1>8
  <2> QED BY <1>4, <2>1, <2>2 DEF w
<1>9. CASE w.n \in 1 .. Len(op)
  <2> DEFINE row == [l \in Lane |-> IF l \in w.lanes THEN w.data[l] ELSE new[w.n][l]]
  <2>1. got' = [new EXCEPT ![w.n] = row] BY <1>5, <1>9
  <2>2. w.n \in 1 .. Len(new) /\ new[w.n] \in R BY <1>4, <1>9
  <2>3. row \in R BY <1>6, <1>9, <2>2
  <2>4. \A l \in Lane : row[l] = IF l \in w.lanes THEN w.data[l] ELSE new[w.n][l] OBVIOUS
  <2> HIDE DEF row, R
  <2>5. /\ got' \in Seq(R) /\ Len(got') = Len(new)
        /\ \A k \in 1 .. Len(new) : got'[k] = IF k = w.n THEN row ELSE new[k]
    BY <1>4, <2>1, <2>2, <2>3
  <2>7. ASSUME NEW k \in 1 .. Len(op), NEW l \in Lane
        PROVE  got'[k][l] = IF w.n = k /\ l \in w.lanes THEN w.data[l] ELSE got[k][l]
    <3>1. new[k] = got[k] /\ got'[k] = IF k = w.n THEN row ELSE new[k] BY <1>4, <2>5
    <3>2. k = w.n => new[w.n] = got[k] BY <3>1
    <3> QED BY <2>4, <3>1, <3>2
  <2>8. ASSUME n # 0, NEW l \in Lane PROVE got'[n][l] = None
    <3>1. n \in 1 .. Len(new) /\ n # w.n /\ new[n] = [k \in Lane |-> None] BY <1>4, <1>9, <2>8
    <3>2. got'[n] = new[n] BY <2>5, <3>1
    <3> QED BY <3>1, <3>2
  <2>6. ASSUME NEW k \in 1 .. Len(op), NEW l \in Lane,
               got[k][l] # None \/ (w.n = k /\ l \in w.lanes)
        PROVE  got'[k][l] # None
    <3>1. new[k] = got[k] /\ got'[k] = IF k = w.n THEN row ELSE new[k] BY <1>4, <2>5
    <3>2. CASE k # w.n BY <2>6, <3>1, <3>2
    <3>3. CASE k = w.n /\ l \in w.lanes
      <4>1. got'[k][l] = w.data[l] /\ w.data[l] \in Val BY <1>6, <1>9, <2>4, <3>1, <3>3
      <4> QED BY <1>7, <4>1
    <3>4. CASE k = w.n /\ l \notin w.lanes
      <4>1. got'[k][l] = got[k][l] BY <2>4, <3>1, <3>4
      <4> QED BY <2>6, <3>4, <4>1
    <3> QED BY <3>2, <3>3, <3>4
  <2> QED BY <1>4, <2>5, <2>6, <2>7, <2>8 DEF R, w
<1> QED BY <1>6, <1>8, <1>9

(* A lane of an instruction that returns a value: still pending, or its    *)
(* register written, or in a load that is out.                             *)
LoadingNext(c, l) ==
  \E t \in Tg : tags'[t].v /\ tags'[t].c = c /\ tags'[t].kind = "MK_LOAD" /\ l \in tags'[t].mask
(* No lane of an instruction that returns a value is lost in a cycle.      *)
LEMMA LaneStep ==
  ASSUME EngInv, NEW n, NEW gnt, NEW rt, NEW f, NEW a, NEW g, NEW fin, Ticks(n, gnt, rt, f, a, g, fin),
         NEW c \in Cx, c_busy(c), Returns(P(c)), NEW l \in P(c).mask
  PROVE  \/ l \in ctx[c].pend \ c_sent(c, f, a)
         \/ got'[ctx[c].id][l] # None
         \/ LoadingNext(c, l)
<1>0. ctx[c].id \in 1 .. Len(op) /\ l \in Lane /\ P(c).kind \in {"load", "store", "amo"}
  BY BusyFacts DEF EngInv
<1>w. \/ got[ctx[c].id][l] # None
      \/ wb(a).n = ctx[c].id /\ l \in wb(a).lanes
      => got'[ctx[c].id][l] # None
  BY <1>0, GotStep
<1>1. P(c).wb /\ P(c).kind # "store" BY DEF Returns
<1>2. ASSUME a.c = c, a.kind = "MK_LOAD", l \in a.mask PROVE got'[ctx[c].id][l] # None
  <2>1. gwb(a) BY <1>1, <1>2 DEF gwb
  <2>2. wb(a).n = ctx[c].id /\ wb(a).lanes = a.mask BY <1>2, <2>1, WbFacts
  <2> QED BY <1>2, <1>w, <2>2
<1>3. CASE l \in ctx[c].pend
  <2>1. ASSUME l \in c_sent(c, f, a), P(c).scratch PROVE got'[ctx[c].id][l] # None
    <3>1. sc_step(a) /\ sc_c = c /\ l = c_lead(c) BY <2>1 DEF c_sent, c_scs
    <3>2. sc_lead = l BY <3>1, ScratchFacts
    <3>3. wb(a).n = ctx[c].id /\ wb(a).lanes = {sc_lead} BY <3>1, WbFacts
    <3> QED BY <1>w, <3>2, <3>3
  <2>2. ASSUME l \in c_sent(c, f, a), ~P(c).scratch
        PROVE  f.c = c /\ l \in f.mask /\ (P(c).kind = "amo" => ctx[c].ph = "AP_WR")
    BY <2>2 DEF c_sent
  <2>3. ASSUME l \in c_sent(c, f, a), ~P(c).scratch, P(c).kind = "amo" PROVE got'[ctx[c].id][l] # None
    <3>1. f.mask = mreq_mask(c) BY <2>2, <2>3, SentFacts
    <3>2. Has(c, l) BY <2>2, <2>3, <3>1 DEF EngInv, ServedOk
    <3> QED BY <1>w, <3>2 DEF Has
  <2>4. ASSUME l \in c_sent(c, f, a), ~P(c).scratch, P(c).kind = "load"
        PROVE  got'[ctx[c].id][l] # None \/ LoadingNext(c, l)
    <3>1. f.c = c /\ l \in f.mask BY <2>2, <2>4
    <3>2. f.kind = "MK_LOAD" /\ f # NoReq /\ f.tag \in Tg /\ ~tags[f.tag].v BY <2>4, <3>1, SentFacts
    <3>3. PICK t \in Tg : t = f.tag BY <3>2
    <3>4. CASE a.byp
      <4>1. a = [c |-> f.c, mask |-> f.mask, kind |-> f.kind, byp |-> TRUE, data |-> ReadLine(f.line)]
        <5>1. CASE rt = 0 /\ a = NoAnswer BY <3>4, <5>1, NoAnswerFacts
        <5>2. CASE a = [c |-> tags[rt].c, mask |-> tags[rt].mask, kind |-> tags[rt].kind, byp |-> FALSE,
                        data |-> resp[rt]]
          BY <3>4, <5>2
        <5> QED BY <5>1, <5>2, AnswerFacts
      <4>2. a.c = c /\ a.kind = "MK_LOAD" /\ a.mask = f.mask BY <3>1, <3>2, <4>1
      <4> QED BY <1>2, <3>1, <4>2
    <3>5. CASE ~a.byp
      <4>1. TagNext(t, rt, f, a) BY TagStep
      <4>2. rt # t BY <3>2, <3>3, <3>5, <4>1 DEF TagNext
      <4>3. tags'[t] = [v |-> TRUE, c |-> f.c, mask |-> f.mask, kind |-> f.kind]
        BY <3>3, <3>5, <4>1, <4>2 DEF TagNext
      <4>4. tags'[t].v /\ tags'[t].c = c /\ tags'[t].kind = "MK_LOAD" /\ l \in tags'[t].mask
        BY <3>1, <3>2, <4>3
      <4> QED BY <4>4 DEF LoadingNext
    <3> QED BY <3>4, <3>5
  <2>5. P(c).scratch \in BOOLEAN BY BusyFacts DEF EngInv
  <2> QED BY <1>0, <1>1, <1>3, <2>1, <2>3, <2>4, <2>5
<1>4. CASE Has(c, l) BY <1>4, <1>w DEF Has
<1>5. CASE Loading(c, l)
  <2>1. PICK t \in Tg : tags[t].v /\ tags[t].c = c /\ tags[t].kind = "MK_LOAD" /\ l \in tags[t].mask
    BY <1>5 DEF Loading
  <2>2. TagNext(t, rt, f, a) BY TagStep
  <2>3. f.tag # t BY <2>1, <2>2 DEF TagNext
  <2>4. CASE rt = t /\ ~a.byp
    <3>1. a.c = tags[t].c /\ a.kind = tags[t].kind /\ a.mask = tags[t].mask
      BY <2>2, <2>4 DEF TagNext
    <3> QED BY <1>2, <2>1, <3>1
  <2>5. CASE ~(rt = t /\ ~a.byp)
    <3>1. tags'[t] = tags[t] BY <2>2, <2>3, <2>5 DEF TagNext
    <3> QED BY <2>1, <3>1 DEF LoadingNext
  <2> QED BY <2>4, <2>5
<1>6. l \in ctx[c].pend \/ Has(c, l) \/ Loading(c, l) BY DEF EngInv, ServedOk
<1> QED BY <1>3, <1>4, <1>5, <1>6

(* Every lane stays pending, written or in a load that is out.             *)
LEMMA ServedOkStep ==
  ASSUME EngInv, NEW n, NEW gnt, NEW rt, NEW f, NEW a, NEW g, NEW fin, Ticks(n, gnt, rt, f, a, g, fin)
  PROVE  ServedOk'
<1> SUFFICES ASSUME NEW c \in Cx, c_busy(c)', Returns(P(c))'
             PROVE  /\ \A l \in P(c)'.mask : l \in ctx'[c].pend \/ Has(c, l)' \/ Loading(c, l)'
                    /\ ctx'[c].ph = "AP_AGG" => \A l \in mreq_mask(c)' : l \in am'.left \/ Has(c, l)'
                    /\ ctx'[c].ph = "AP_WR" => \A l \in mreq_mask(c)' : Has(c, l)'
  BY DEF ServedOk
<1>1. CASE NewCtx(c, n)
  <2>1. ctx'[c].pend = P(c)'.mask /\ ctx'[c].ph = "AP_RD" BY <1>1 DEF NewCtx, P
  <2> QED BY <2>1
<1>2. CASE GoneCtx(c, fin) BY <1>2 DEF GoneCtx, c_busy, FreeCtx
<1>3. CASE KeptCtx(c, f, a, fin)
  <2>1. /\ c_busy(c) /\ ctx'[c].id = ctx[c].id /\ ctx'[c].pend = ctx[c].pend \ c_sent(c, f, a)
        /\ P(c)' = P(c)
    BY <1>3 DEF KeptCtx
  <2>2. Returns(P(c)) BY <2>1 DEF Returns
  <2>3. ASSUME NEW l \in P(c)'.mask PROVE l \in ctx'[c].pend \/ Has(c, l)' \/ Loading(c, l)'
    <3>1. l \in P(c).mask BY <2>1
    <3>2. CASE l \in ctx[c].pend \ c_sent(c, f, a) BY <2>1, <3>2
    <3>3. CASE got'[ctx[c].id][l] # None BY <2>1, <3>3 DEF Has
    <3>4. CASE LoadingNext(c, l) BY <3>4 DEF LoadingNext, Loading
    <3> QED BY <2>1, <2>2, <3>1, <3>2, <3>3, <3>4, LaneStep
  <2>4. ASSUME NEW l \in mreq_mask(c)', ctx'[c].ph \in {"AP_AGG", "AP_WR"}
        PROVE  (ctx'[c].ph = "AP_AGG" /\ l \in am'.left) \/ Has(c, l)'
    <3>1. mreq_mask(c)' = mreq_mask(c) BY <2>4, LockStep
    <3>2. /\ ctx[c].id \in 1 .. Len(op) /\ l \in Lane
      <4>1. ctx[c].pend # {} /\ ctx[c].pend \subseteq Lane /\ ctx[c].id \in 1 .. Len(op)
        BY <2>1, <2>4, LockStep, BusyFacts DEF EngInv
      <4>2. mreq_mask(c) \subseteq ctx[c].pend BY <4>1, LeadFacts DEF EngInv
      <4> QED BY <2>4, <3>1, <4>1, <4>2
    <3>w. got[ctx[c].id][l] # None \/ (wb(a).n = ctx[c].id /\ l \in wb(a).lanes) => Has(c, l)'
      BY <2>1, <3>2, GotStep DEF Has
    <3>3. CASE ctx'[c].ph = "AP_AGG" /\ a.mask = mreq_mask(c)
               /\ am' = [line |-> a.data, left |-> a.mask, touch |-> {}]
      BY <2>4, <3>1, <3>3
    <3>4. CASE /\ lock_c = c /\ ctx[c].ph = "AP_AGG" /\ a_step(a) /\ a_act
               /\ (ctx'[c].ph = "AP_WR" <=> am.left \ a_rnd = {})
               /\ am' = [line |-> [w \in Off |-> IF w \in a_whit THEN a_wnew(w) ELSE am.line[w]],
                         left |-> am.left \ a_rnd, touch |-> am.touch \cup a_whit]
      <4>1. a_wb BY <2>2, <3>4 DEF a_wb, Returns
      <4>2. wb(a).n = ctx[c].id /\ wb(a).lanes = a_rnd BY <3>4, <4>1, WbFacts
      <4>3. l \in am.left \/ Has(c, l) BY <2>1, <2>2, <2>4, <3>1, <3>4 DEF EngInv, ServedOk
      <4>4. l \in a_rnd \/ Has(c, l) => Has(c, l)' BY <3>w, <4>2 DEF Has
      <4>5. l \in am.left \ a_rnd => ctx'[c].ph = "AP_AGG" /\ l \in am'.left BY <2>4, <3>4
      <4> QED BY <4>3, <4>4, <4>5
    <3>5. CASE am' = am /\ ctx'[c].ph = ctx[c].ph
      <4>1. (ctx[c].ph = "AP_AGG" /\ l \in am.left) \/ Has(c, l)
        BY <2>1, <2>2, <2>4, <3>1, <3>5 DEF EngInv, ServedOk
      <4>2. Has(c, l) => Has(c, l)' BY <3>w DEF Has
      <4> QED BY <3>5, <4>1, <4>2
    <3> QED BY <2>4, <3>3, <3>4, <3>5, RoundStep
  <2> QED BY <2>3, <2>4
<1> QED BY <1>1, <1>2, <1>3, CtxStep

(* A context that waits for the scratchpad keeps a lane to serve.          *)
LEMMA ScratchOkStep ==
  ASSUME EngInv, NEW n, NEW gnt, NEW rt, NEW f, NEW a, NEW g, NEW fin, Ticks(n, gnt, rt, f, a, g, fin)
  PROVE  ScratchOk'
<1> SUFFICES ASSUME NEW c \in Cx, ctx'[c].st = "busy", P(c)'.scratch PROVE ctx'[c].pend # {}
  BY DEF ScratchOk
<1>1. CASE NewCtx(c, n)
  <2>1. Taken(n) \in 1 .. Len(op') /\ ctx'[c].pend = op'[Taken(n)].mask BY <1>1 DEF NewCtx
  <2>2. op'[Taken(n)] \in OpLib BY <2>1, OpGrows
  <2> QED BY <2>1, <2>2, OpAssumption
<1>2. CASE GoneCtx(c, fin) BY <1>2 DEF GoneCtx, FreeCtx
<1>3. CASE KeptCtx(c, f, a, fin)
  <2>1. /\ c_busy(c) /\ c \notin fin /\ P(c)' = P(c) /\ ctx'[c].pend = ctx[c].pend \ c_sent(c, f, a)
        /\ ctx'[c].cnt = c_cnt_n(c, f, a)
    BY <1>3 DEF KeptCtx
  <2>2. ASSUME ctx'[c].pend = {} PROVE FALSE
    <3>1. P(c).scratch /\ ctx[c].pend \subseteq c_sent(c, f, a) BY <2>1, <2>2
    <3>2. c_sent(c, f, a) = c_scs(c, a) BY <3>1 DEF c_sent
    <3>3. TagsOf(c)' = {}
      <4>1. ASSUME NEW t \in TagsOf(c)' PROVE FALSE
        <5>1. t \in Tg /\ tags'[t].v /\ tags'[t].c = c /\ TagOk(t)' BY TagOkStep DEF TagsOf
        <5>2. Global(c)' BY <5>1 DEF TagOk, Owns
        <5> QED BY <2>1, <3>1, <5>2 DEF Global
      <4> QED BY <4>1
    <3>4. TagsOf(c) = {}
      <4>1. ASSUME NEW t \in TagsOf(c) PROVE FALSE
        <5>1. t \in Tg /\ tags[t].v /\ tags[t].c = c /\ TagOk(t) BY DEF TagsOf, EngInv, TagsOk
        <5>2. Global(c) BY <5>1 DEF TagOk, Owns
        <5> QED BY <3>1, <5>2 DEF Global
      <4> QED BY <4>1
    <3>5. c_cnt_n(c, f, a) = 0
      <4>1. c_cnt_n(c, f, a) = Cardinality(TagsOf(c)') BY CountStep
      <4>2. Cardinality({}) = 0 BY FS_EmptySet
      <4> QED BY <3>3, <4>1, <4>2
    <3>6. ctx[c].cnt = 0
      <4>1. ctx[c].cnt = Cardinality(TagsOf(c)) BY DEF EngInv, TagsMatch, TagsOf
      <4> QED BY <3>4, <4>1, FS_EmptySet
    <3>7. ~conf.BYP => a.c # c
      <4>1. ASSUME ~conf.BYP, a.c = c PROVE FALSE
        <5>1. c # 0 BY DEF Cx
        <5>2. CASE rt = 0 /\ a = NoAnswer BY <4>1, <5>1, <5>2, NoAnswerFacts
        <5>3. CASE /\ rt \in Tg /\ tags[rt].v
                   /\ a = [c |-> tags[rt].c, mask |-> tags[rt].mask, kind |-> tags[rt].kind, byp |-> FALSE,
                           data |-> resp[rt]]
          <6>1. rt \in TagsOf(c) BY <4>1, <5>3 DEF TagsOf
          <6> QED BY <3>4, <6>1
        <5> QED BY <4>1, <5>2, <5>3, AnswerFacts
      <4> QED BY <4>1
    <3>8. c_fin(c, f, a)
      <4>1. CASE conf.BYP BY <2>1, <3>1, <3>5, <4>1 DEF c_fin
      <4>2. CASE ~conf.BYP BY <2>1, <3>1, <3>2, <3>6, <3>7, <4>2 DEF c_fin
      <4> QED BY <4>1, <4>2
    <3> QED BY <2>1, <3>8 DEF Ticks, Fin
  <2> QED BY <2>2
<1> QED BY <1>1, <1>2, <1>3, CtxStep

(* The instruction whose warp is told this cycle has all its results.      *)
LEMMA TellStep ==
  ASSUME EngInv, NEW n, NEW gnt, NEW rt, NEW f, NEW a, NEW g, NEW fin, Ticks(n, gnt, rt, f, a, g, fin)
  PROVE  /\ rs_id(fin) \in 0 .. Len(op)
         /\ rs_id(fin) # 0 /\ Returns(op[rs_id(fin)]) =>
              \A l \in op[rs_id(fin)].mask : got'[rs_id(fin)][l] # None
<1>1. CASE fin = {}
  <2>1. Len(op) \in Nat BY OpGrows
  <2> QED BY <1>1, <2>1 DEF rs_id
<1>2. CASE fin # {}
  <2>1. fin \in SUBSET Nat /\ fin \subseteq Cx BY DEF Ticks, Fin, Cx
  <2>2. Min(fin) \in fin BY <1>2, <2>1, Least
  <2>3. PICK c \in Cx : c = Min(fin) /\ c \in fin BY <2>1, <2>2
  <2>4. c_busy(c) BY <2>3 DEF Ticks, Fin, c_fin
  <2>5. rs_id(fin) = ctx[c].id /\ ctx[c].id \in 1 .. Len(op) /\ P(c) = op[ctx[c].id]
    BY <1>2, <2>3, <2>4, BusyFacts DEF rs_id, EngInv, P
  <2>6. ctx[c].pend \subseteq c_sent(c, f, a) BY <2>3, <2>4, DoneStep
  <2>7. TagsOf(c)' = {}
    <3>1. Cardinality(TagsOf(c)') = 0 BY <2>3, CountStep
    <3>2. IsFiniteSet(TagsOf(c)')
      <4>1. MQD \in Nat /\ MQD > 0 BY EngineAssumption
      <4>2. IsFiniteSet(Tg) BY <4>1, FS_Interval DEF Tg
      <4>3. TagsOf(c)' \subseteq Tg BY DEF TagsOf
      <4> QED BY <4>2, <4>3, FS_Subset
    <3> QED BY <3>1, <3>2, FS_EmptySet
  <2>8. ASSUME Returns(P(c)), NEW l \in P(c).mask PROVE got'[ctx[c].id][l] # None
    <3>1. ~LoadingNext(c, l) BY <2>7 DEF LoadingNext, TagsOf
    <3> QED BY <2>4, <2>6, <2>8, <3>1, LaneStep
  <2> QED BY <2>5, <2>8
<1> QED BY <1>1, <1>2

(* Warps told have their results (Delivered).                              *)
LEMMA DeliveredStep ==
  ASSUME EngInv, NEW n, NEW gnt, NEW rt, NEW f, NEW a, NEW g, NEW fin, Ticks(n, gnt, rt, f, a, g, fin)
  PROVE  Delivered'
<1> SUFFICES ASSUME NEW k \in resumed' \cup ({rs'} \ {0}), Returns(op'[k]), NEW l \in op'[k].mask
             PROVE  got'[k][l] # None
  BY DEF Delivered, Returns
<1>1. /\ rs' = IF conf.BYP THEN 0 ELSE rs_id(fin)
      /\ resumed' = resumed \cup ({IF conf.BYP THEN rs_id(fin) ELSE rs} \ {0})
  BY DEF Ticks, Resume
<1>2. CASE k \in resumed \cup ({rs} \ {0})
  <2>1. k \in 1 .. Len(op) BY <1>2 DEF EngInv, TypeOK
  <2>2. op'[k] = op[k] BY <2>1, OpGrows
  <2>3. Returns(op[k]) /\ l \in op[k].mask BY <2>2
  <2>4. got[k][l] # None BY <1>2, <2>3 DEF EngInv, Delivered
  <2>5. l \in Lane BY <2>1, <2>3, OpFacts DEF EngInv
  <2> QED BY <2>1, <2>4, <2>5, GotStep
<1>3. CASE k = rs_id(fin) /\ k # 0
  <2>1. k \in 1 .. Len(op) BY <1>3, TellStep
  <2>2. op'[k] = op[k] BY <2>1, OpGrows
  <2> QED BY <1>3, <2>2, TellStep
<1> QED BY <1>1, <1>2, <1>3

(* The types are kept.                                                     *)
LEMMA TypeOKStep ==
  ASSUME EngInv, NEW n, NEW gnt, NEW rt, NEW f, NEW a, NEW g, NEW fin, Ticks(n, gnt, rt, f, a, g, fin)
  PROVE  OpsOk' /\ TypeOK'
<1>0. TypeOK /\ OpsOk BY DEF EngInv
<1>1. /\ op' \in Seq(OpLib) /\ Len(op') <= MaxOps /\ Len(op) \in Nat /\ Len(op') \in Nat
      /\ Len(op') >= Len(op) /\ n \in 0 .. Len(op')
      /\ \A k \in 1 .. Len(op') : op'[k] \in OpLib
  BY OpGrows
<1>2. /\ got' \in Seq([Lane -> Val \cup {None}]) /\ Len(got') = Len(op')
  BY GotStep
<1>3. conf' \in Configs BY <1>0 DEF Ticks, TypeOK
<1>4. i' \in 0 .. Len(op')
  <2>1. i \in 0 .. Len(op) BY <1>0 DEF TypeOK
  <2> QED BY <1>1, <2>1 DEF Ticks, InputReg
<1>5. rs' \in 0 .. Len(op') /\ resumed' \subseteq 1 .. Len(op')
  <2>1. rs \in 0 .. Len(op) /\ resumed \subseteq 1 .. Len(op) BY <1>0 DEF TypeOK
  <2>2. rs_id(fin) \in 0 .. Len(op) BY TellStep
  <2>3. /\ rs' = IF conf.BYP THEN 0 ELSE rs_id(fin)
        /\ resumed' = resumed \cup ({IF conf.BYP THEN rs_id(fin) ELSE rs} \ {0})
    BY DEF Ticks, Resume
  <2>4. rs' \in 0 .. Len(op)
    <3>1. 0 \in 0 .. Len(op) BY <1>1
    <3> QED BY <2>2, <2>3, <3>1
  <2>5. {IF conf.BYP THEN rs_id(fin) ELSE rs} \ {0} \subseteq 1 .. Len(op) BY <1>1, <2>1, <2>2
  <2>6. 0 .. Len(op) \subseteq 0 .. Len(op') /\ 1 .. Len(op) \subseteq 1 .. Len(op') BY <1>1
  <2> QED BY <2>1, <2>3, <2>4, <2>5, <2>6
<1>6. ctx' \in [Cx -> [st : {"free", "busy", "done"}, id : 0 .. Len(op'), pend : SUBSET Lane,
                       ph : Phases, cnt : 0 .. MQD]]
  <2>1. DOMAIN ctx' = Cx /\ ctx' = [c \in Cx |-> ctx'[c]] BY DEF Ticks, Contexts
  <2>2. ASSUME NEW c \in Cx
        PROVE  ctx'[c] \in [st : {"free", "busy", "done"}, id : 0 .. Len(op'), pend : SUBSET Lane,
                            ph : Phases, cnt : 0 .. MQD]
    <3>0. MQD \in Nat BY EngineAssumption
    <3>1. CASE NewCtx(c, n)
      <4>1. Taken(n) \in 1 .. Len(op') BY <3>1 DEF NewCtx
      <4>2. op'[Taken(n)] \in Op BY <1>1, <4>1, OpAssumption
      <4>3. op'[Taken(n)].mask \in SUBSET Lane BY <4>2 DEF Op
      <4> QED BY <1>1, <3>0, <3>1, <4>1, <4>3 DEF NewCtx, Phases
    <3>2. CASE GoneCtx(c, fin) BY <1>1, <3>0, <3>2 DEF GoneCtx, FreeCtx, Phases
    <3>3. CASE KeptCtx(c, f, a, fin)
      <4>1. /\ c_busy(c) /\ ctx'[c].st \in {"busy", "done"} /\ ctx'[c].id = ctx[c].id
            /\ ctx'[c].pend = ctx[c].pend \ c_sent(c, f, a) /\ ctx'[c].ph = c_ph_n(c, f, a)
            /\ ctx'[c].cnt = c_cnt_n(c, f, a)
            /\ ctx'[c] = [st |-> ctx'[c].st, id |-> ctx'[c].id, pend |-> ctx'[c].pend, ph |-> ctx'[c].ph,
                          cnt |-> ctx'[c].cnt]
        BY <3>3 DEF KeptCtx
      <4>2. ctx[c].id \in 0 .. Len(op) /\ ctx[c].pend \in SUBSET Lane BY <1>0 DEF TypeOK
      <4>3. ctx'[c].ph \in Phases BY <4>1, PhaseStep
      <4>4. ctx'[c].cnt \in 0 .. MQD BY <4>1, CountStep
      <4>5. ctx'[c].id \in 0 .. Len(op') /\ ctx'[c].pend \in SUBSET Lane BY <1>1, <4>1, <4>2
      <4> QED BY <4>1, <4>3, <4>4, <4>5
    <3> QED BY <3>1, <3>2, <3>3, CtxStep
  <2> QED BY <2>1, <2>2
<1>f. f # NoReq =>
        /\ f = [c |-> f.c, mask |-> f.mask, kind |-> f.kind, tag |-> f.tag, line |-> f.line]
        /\ f.c \in Cx /\ f.mask \in SUBSET Lane /\ f.kind \in Kinds /\ f.tag \in Tg
        /\ f.line \in 0 .. Words \div LW
  <2> SUFFICES ASSUME f # NoReq
               PROVE  /\ f = [c |-> f.c, mask |-> f.mask, kind |-> f.kind, tag |-> f.tag, line |-> f.line]
                      /\ f.c \in Cx /\ f.mask \in SUBSET Lane /\ f.kind \in Kinds /\ f.tag \in Tg
                      /\ f.line \in 0 .. Words \div LW
    OBVIOUS
  <2>1. f = mreq /\ f.c \in Cx BY FireFacts
  <2>2. PICK c \in Cx : f.c = c BY <2>1
  <2>3. /\ Global(c) /\ ctx[c].pend # {} /\ f.mask = mreq_mask(c) /\ f.tag \in Tg /\ f.kind \in Kinds
        /\ f.line = LineOf(P(c).addr[c_lead(c)])
    BY <2>2, SentFacts
  <2>4. c_busy(c) BY <2>3 DEF Global
  <2>5. /\ P(c).addr \in [Lane -> 0 .. Words - 1] /\ ctx[c].pend \subseteq Lane
        /\ c_lead(c) \in Lane /\ mreq_mask(c) \subseteq ctx[c].pend
    BY <1>0, <2>3, <2>4, BusyFacts, LeadFacts DEF EngInv
  <2>6. P(c).addr[c_lead(c)] \in 0 .. Words - 1 BY <2>5
  <2>7. f.line \in 0 .. Words \div LW BY <1>0, <2>3, <2>6, LineType
  <2>8. f = [c |-> f.c, mask |-> f.mask, kind |-> f.kind, tag |-> f.tag, line |-> f.line]
    BY <2>1 DEF mreq
  <2> QED BY <2>1, <2>3, <2>5, <2>7, <2>8
<1>7. tags' \in [Tg -> [v : BOOLEAN, c : 0 .. NC, mask : SUBSET Lane, kind : Kinds]]
  <2>1. DOMAIN tags' = Tg /\ tags' = [t \in Tg |-> tags'[t]] BY DEF Ticks, TagTable
  <2>2. ASSUME NEW t \in Tg PROVE tags'[t] \in [v : BOOLEAN, c : 0 .. NC, mask : SUBSET Lane, kind : Kinds]
    <3>1. CASE tags'[t] = FreeTag
      <4>1. NC \in Nat BY EngineAssumption
      <4> QED BY <3>1, <4>1 DEF FreeTag, Kinds
    <3>2. CASE tags'[t] = tags[t] BY <1>0, <3>2 DEF TypeOK
    <3>3. CASE f # NoReq /\ tags'[t] = [v |-> TRUE, c |-> f.c, mask |-> f.mask, kind |-> f.kind]
      <4>1. f.c \in 0 .. NC /\ f.mask \in SUBSET Lane /\ f.kind \in Kinds BY <1>f, <3>3 DEF Cx
      <4> QED BY <3>3, <4>1
    <3>4. tags'[t] = FreeTag \/ tags'[t] = tags[t]
          \/ (f # NoReq /\ tags'[t] = [v |-> TRUE, c |-> f.c, mask |-> f.mask, kind |-> f.kind])
      BY TagOrigin
    <3> QED BY <3>1, <3>2, <3>3, <3>4
  <2> QED BY <2>1, <2>2
<1>8. o' \in [c : 0 .. NC, mask : SUBSET Lane, kind : Kinds, tag : 0 .. MQD, line : 0 .. Words \div LW]
  <2>1. o' = NoReq \/ (f # NoReq /\ o' = f) \/ o' = o BY DEF Ticks, RequestStage
  <2>2. CASE o' = NoReq
    <3>1. NC \in Nat /\ MQD \in Nat /\ LW \in Nat \ {0} /\ Words \in Nat
      BY EngineAssumption, SizeAssumption
    <3>2. Words \div LW \in Nat BY <3>1, DivMod
    <3> QED BY <2>2, <3>1, <3>2 DEF NoReq, Kinds
  <2>3. CASE f # NoReq /\ o' = f
    <3>1. f.c \in 0 .. NC /\ f.tag \in 0 .. MQD BY <1>f, <2>3 DEF Cx, Tg
    <3> QED BY <1>f, <2>3, <3>1
  <2>4. CASE o' = o BY <1>0, <2>4 DEF TypeOK
  <2> QED BY <2>1, <2>2, <2>3, <2>4
<1>9. rr' \in Cx
  <2>1. rr' = IF f # NoReq /\ ~c_locked(f.c) THEN (f.c % NC) + 1 ELSE rr BY DEF Ticks, TagTable
  <2>2. rr \in Cx BY <1>0 DEF TypeOK
  <2>3. NC \in Nat \ {0} BY EngineAssumption
  <2>4. CASE f # NoReq
    <3>1. f.c \in Nat BY <1>f, <2>4 DEF Cx
    <3>2. f.c % NC \in 0 .. NC - 1 BY <2>3, <3>1, DivMod
    <3> QED BY <2>1, <2>2, <2>3, <3>2 DEF Cx
  <2> QED BY <2>1, <2>2, <2>4
<1>10. am' \in [line : [Off -> Val], left : SUBSET Lane, touch : SUBSET Off]
  <2>1. am \in [line : [Off -> Val], left : SUBSET Lane, touch : SUBSET Off] BY <1>0 DEF TypeOK
  <2>2. am' = IF a.kind = "MK_AMORD" THEN [line |-> a.data, left |-> a.mask, touch |-> {}]
              ELSE IF a_step(a)
              THEN [line |-> [w \in Off |-> IF w \in a_whit THEN a_wnew(w) ELSE am.line[w]],
                    left |-> am.left \ a_rnd, touch |-> am.touch \cup a_whit]
              ELSE am
    BY DEF Ticks, LineBuffer
  <2>3. CASE a.kind = "MK_AMORD"
    <3>1. a.c # 0
      <4>1. CASE rt = 0 /\ a = NoAnswer BY <2>3, <4>1, NoAnswerFacts
      <4>2. CASE /\ rt \in Tg /\ tags[rt].v
                 /\ a = [c |-> tags[rt].c, mask |-> tags[rt].mask, kind |-> tags[rt].kind, byp |-> FALSE,
                         data |-> resp[rt]]
        <5>1. TagOk(rt) BY <4>2 DEF EngInv, TagsOk
        <5>2. tags[rt].c # 0 BY <4>2, <5>1 DEF TagOk, Cx
        <5> QED BY <4>2, <5>2
      <4>3. CASE /\ f # NoReq
                 /\ a = [c |-> f.c, mask |-> f.mask, kind |-> f.kind, byp |-> TRUE, data |-> ReadLine(f.line)]
        <5>1. f.c # 0 BY <1>f, <4>3 DEF Cx
        <5> QED BY <4>3, <5>1
      <4> QED BY <4>1, <4>2, <4>3, AnswerFacts
    <3>2. a.mask \in SUBSET Lane /\ a.data \in [Off -> Val] BY <3>1, LoadAnswer
    <3> QED BY <2>2, <2>3, <3>2
  <2>4. CASE a.kind # "MK_AMORD" /\ a_step(a)
    <3>1. a_act BY <2>4 DEF a_step
    <3>2. a_whit \subseteq Off /\ \A w \in a_whit : a_wnew(w) \in Val BY <3>1, RoundFacts
    <3> DEFINE ln == [w \in Off |-> IF w \in a_whit THEN a_wnew(w) ELSE am.line[w]]
    <3>3. ln \in [Off -> Val] BY <2>1, <3>2
    <3>4. am' = [line |-> ln, left |-> am.left \ a_rnd, touch |-> am.touch \cup a_whit]
      BY <2>2, <2>4
    <3> HIDE DEF ln
    <3> QED BY <2>1, <3>2, <3>3, <3>4
  <2>5. CASE a.kind # "MK_AMORD" /\ ~a_step(a) BY <2>1, <2>2, <2>5
  <2> QED BY <2>3, <2>4, <2>5
<1>11. scr' \in [0 .. NW * ScrWords - 1 -> Val]
  <2>1. scr \in [0 .. NW * ScrWords - 1 -> Val] BY <1>0 DEF TypeOK
  <2>2. scr' = IF sc_step(a) /\ P(sc_c).kind # "load"
               THEN [scr EXCEPT ![sc_a(P(sc_c), sc_lead)] = sc_wd] ELSE scr
    BY DEF Ticks, Scratchpad
  <2>3. ASSUME sc_step(a) PROVE sc_wd \in Val
    <3>1. sc_c \in Cx /\ c_busy(sc_c) /\ sc_lead \in Lane /\ sc_rd \in Val BY <2>3, ScratchFacts
    <3>2. P(sc_c).data \in [Lane -> Val] /\ P(sc_c).fn \in {"add", "swap", "minu", "maxu"}
      BY <3>1, BusyFacts DEF EngInv
    <3>3. P(sc_c).data[sc_lead] \in Val BY <3>1, <3>2
    <3>4. amo_alu(P(sc_c).fn, sc_rd, P(sc_c).data[sc_lead]) \in Val BY <3>1, <3>2, <3>3, AluType
    <3> QED BY <3>3, <3>4 DEF sc_wd
  <2> HIDE DEF sc_wd
  <2> QED BY <2>1, <2>2, <2>3
<1>12. DOMAIN got' = 1 .. Len(op') /\ \A k \in 1 .. Len(op') : got'[k] \in [Lane -> Val \cup {None}]
  BY <1>2
<1> QED BY <1>1, <1>2, <1>3, <1>4, <1>5, <1>6, <1>7, <1>8, <1>9, <1>10, <1>11, <1>12, ValueStep
    DEF OpsOk, TypeOK

(* The engine starts with nothing out and every step keeps the invariant.  *)
LEMMA EngInit == ASSUME Init PROVE EngInv
<1>1. /\ conf \in Configs /\ op = << >> /\ i = 0 /\ rs = 0
      /\ ctx = [c \in Cx |-> FreeCtx] /\ tags = [t \in Tg |-> FreeTag]
      /\ o = NoReq /\ rr = 1
      /\ am = [line |-> [w \in Off |-> 0], left |-> {}, touch |-> {}]
      /\ mem = MemInit /\ scr = ScrInit /\ resp = [t \in Tg |-> NoData]
      /\ got = << >> /\ resumed = {}
  BY DEF Init
<1>2. /\ NC \in Nat \ {0} /\ MQD \in Nat \ {0} /\ LW \in Nat \ {0} /\ Words \in Nat \ {0}
      /\ V \in Nat \ {0} /\ MaxOps \in Nat \ {0} /\ NW \in Nat \ {0} /\ ScrWords \in Nat \ {0}
  BY EngineAssumption, SizeAssumption
<1>3. Len(op) = 0 /\ OpsOk BY <1>1 DEF OpsOk
<1>4. \A x \in Nat : x % V \in Val
  <2>1. ASSUME NEW x \in Nat PROVE x % V \in 0 .. V - 1 BY <1>2, DivMod
  <2> QED BY <2>1 DEF Val
<1>5. TypeOK
  <2>1. ctx \in [Cx -> [st : {"free", "busy", "done"}, id : 0 .. Len(op), pend : SUBSET Lane,
                        ph : Phases, cnt : 0 .. MQD]]
    BY <1>1, <1>2, <1>3 DEF FreeCtx, Phases
  <2>2. tags \in [Tg -> [v : BOOLEAN, c : 0 .. NC, mask : SUBSET Lane, kind : Kinds]]
    BY <1>1, <1>2 DEF FreeTag, Kinds
  <2>3. Words \div LW \in Nat BY <1>2, DivMod
  <2>4. o \in [c : 0 .. NC, mask : SUBSET Lane, kind : Kinds, tag : 0 .. MQD, line : 0 .. Words \div LW]
    BY <1>1, <1>2, <2>3 DEF NoReq, Kinds
  <2>5. rr \in Cx BY <1>1, <1>2 DEF Cx
  <2>6. am \in [line : [Off -> Val], left : SUBSET Lane, touch : SUBSET Off]
    <3>1. 0 \in Val BY <1>2 DEF Val
    <3> QED BY <1>1, <3>1
  <2>7. mem \in [0 .. Words - 1 -> Val] BY <1>1, <1>4 DEF MemInit
  <2>8. scr \in [0 .. NW * ScrWords - 1 -> Val] BY <1>1, <1>4 DEF ScrInit
  <2>9. \A t \in Tg : resp[t] = NoData BY <1>1
  <2> QED BY <1>1, <1>2, <1>3, <2>1, <2>2, <2>4, <2>5, <2>6, <2>7, <2>8, <2>9 DEF TypeOK
<1>6. \A c \in Cx : ctx[c] = FreeCtx /\ ~c_busy(c) /\ ctx[c].ph = "AP_RD"
                 /\ ctx[c].st = "free" /\ ctx[c].cnt = 0
  BY <1>1 DEF FreeCtx, c_busy
<1>7. \A t \in Tg : ~tags[t].v /\ resp[t] = NoData BY <1>1 DEF FreeTag
<1>8. Locked = {} BY <1>6 DEF Locked, c_locked
<1>9. CtxOk /\ OneLock /\ LineOk /\ ServedOk /\ ScratchOk
  BY <1>6, <1>8 DEF CtxOk, OneLock, LineOk, ServedOk, ScratchOk
<1>10. TagsOk /\ StageOk BY <1>1, <1>7 DEF TagsOk, TagOk, AmoReads, StageOk
<1>11. TagsMatch
  <2>1. \A c \in Cx : {t \in Tg : tags[t].v /\ tags[t].c = c} = {} BY <1>7
  <2>2. Cardinality({}) = 0 BY FS_EmptySet
  <2> QED BY <1>6, <2>1, <2>2 DEF TagsMatch
<1>12. Delivered BY <1>1 DEF Delivered
<1> QED BY <1>3, <1>5, <1>9, <1>10, <1>11, <1>12 DEF EngInv

(* Every step keeps the inductive invariant.                               *)
LEMMA EngStep == ASSUME EngInv, [Next]_vars PROVE EngInv'
<1>1. CASE Next
  <2>1. PICK n, gnt, rt, f, a, g, fin : Ticks(n, gnt, rt, f, a, g, fin) BY <1>1, StepTicks
  <2>2. OpsOk' /\ TypeOK' BY <2>1, TypeOKStep
  <2>3. CtxOk'
    <3>1. \A c \in Cx : ctx'[c].st = "done" => ctx'[c].pend = {} /\ ctx'[c].cnt = 0 /\ ctx'[c].ph = "AP_RD"
      BY <2>1, DoneStep
    <3>2. \A c \in Cx : ctx'[c].ph = "AP_AGG" => am'.left # {} BY <2>1, LeftStep
    <3> QED BY <2>1, <3>1, <3>2, CtxOkStep
  <2>4. OneLock' BY <2>1, OneLockStep
  <2>5. TagsOk' BY <2>1, TagsOkStep
  <2>6. StageOk' BY <2>1, StageOkStep
  <2>7. TagsMatch' BY <2>1, TagsMatchStep
  <2>8. ServedOk' BY <2>1, ServedOkStep
  <2>9. LineOk' BY <2>1, LineOkStep
  <2>10. ScratchOk' BY <2>1, ScratchOkStep
  <2>11. Delivered' BY <2>1, DeliveredStep
  <2> QED BY <2>2, <2>3, <2>4, <2>5, <2>6, <2>7, <2>8, <2>9, <2>10, <2>11 DEF EngInv
<1>2. CASE UNCHANGED vars
  <2>0. /\ op' = op /\ got' = got /\ conf' = conf /\ i' = i /\ rs' = rs /\ resumed' = resumed /\ ctx' = ctx
        /\ tags' = tags /\ o' = o /\ rr' = rr /\ am' = am /\ mem' = mem /\ scr' = scr /\ resp' = resp
    BY <1>2 DEF vars
  <2>1. OpsOk' /\ TypeOK' BY <2>0 DEF EngInv, OpsOk, TypeOK
  <2>2. \A c \in Cx : /\ P(c)' = P(c) /\ c_busy(c)' = c_busy(c) /\ c_lead(c)' = c_lead(c)
                      /\ mreq_mask(c)' = mreq_mask(c) /\ Global(c)' = Global(c) /\ c_locked(c)' = c_locked(c)
    BY <2>0 DEF P, c_busy, c_lead, mreq_mask, c_grp, Global, c_locked
  <2>3. Locked' = Locked BY <2>2 DEF Locked
  <2>4. \A x : ReadLine(x)' = ReadLine(x) BY <2>0 DEF ReadLine
  <2>5. CtxOk' BY <2>0, <2>2 DEF EngInv, CtxOk
  <2>6. OneLock' /\ ScratchOk' /\ LineOk'
    BY <2>0, <2>2, <2>3 DEF EngInv, OneLock, ScratchOk, LineOk, LineOf
  <2>7. TagsOk'
    <3>1. ASSUME NEW t \in Tg PROVE TagOk(t)'
      <4>1. TagOk(t) BY DEF EngInv, TagsOk
      <4>2. \A c \in Cx : Owns(c, t) => Owns(c, t)' BY <2>0, <2>2, <2>4 DEF Owns, LineOf
      <4> QED BY <2>0, <4>1, <4>2 DEF TagOk
    <3>2. AmoReads' = AmoReads BY <2>0 DEF AmoReads
    <3> QED BY <3>1, <3>2 DEF EngInv, TagsOk
  <2>8. StageOk'
    <3>1. o # NoReq => o.c \in Cx BY DEF EngInv, StageOk
    <3>2. o # NoReq => P(o.c)' = P(o.c) /\ c_lead(o.c)' = c_lead(o.c) BY <2>0 DEF P, c_lead
    <3> QED BY <2>0, <2>3, <3>1, <3>2 DEF EngInv, StageOk, LineOf
  <2>9. TagsMatch' BY <2>0 DEF EngInv, TagsMatch
  <2>10. ServedOk'
    <3>1. \A c \in Cx : \A l : Has(c, l)' = Has(c, l) /\ Loading(c, l)' = Loading(c, l)
      BY <2>0 DEF Has, Loading
    <3> QED BY <2>0, <2>2, <3>1 DEF EngInv, ServedOk, Returns
  <2>11. Delivered' BY <2>0 DEF EngInv, Delivered, Returns
  <2> QED BY <2>1, <2>5, <2>6, <2>7, <2>8, <2>9, <2>10, <2>11 DEF EngInv
<1> QED BY <1>1, <1>2

(* EngineTypes: contexts, tags, request stage, line buffer, scratchpad,    *)
(* memory and registers keep their types, in every build: no counter       *)
(* leaves its range, no address its memory and no AMO its width            *)
(* (mem_engine.sv).                                                        *)
THEOREM EngineTypes == Spec => []TypeOK
<1>1. Init => EngInv BY EngInit
<1>2. EngInv /\ [Next]_vars => EngInv' BY EngStep
<1>3. EngInv => TypeOK BY DEF EngInv
<1> QED BY <1>1, <1>2, <1>3, PTL DEF Spec

(* OwnedAnswers: whatever the order of instructions, grants and answers,   *)
(* and in every build, a context counts exactly the tags that come back    *)
(* to it; while an AMO holds a line nobody else has a request on the port  *)
(* and memory keeps the words it read; and a warp is told of an            *)
(* instruction only when every lane has its result (mem_engine.sv, tag     *)
(* table, c_locked, c_fin).                                                *)
THEOREM OwnedAnswers == Spec => []AnswersOwned
<1>1. Init => EngInv BY EngInit
<1>2. EngInv /\ [Next]_vars => EngInv' BY EngStep
<1>3. EngInv => AnswersOwned
  <2> SUFFICES ASSUME EngInv PROVE AmoLineFresh
    BY DEF EngInv, AnswersOwned
  <2>1. ASSUME NEW c \in Cx, c_locked(c) PROVE Locked = {c} /\ o.c \in {0, c}
    <3>1. c \in Locked BY <2>1 DEF Locked
    <3>2. Locked = {c} BY <3>1 DEF EngInv, OneLock
    <3>3. o # NoReq => o.c = c BY <3>2 DEF EngInv, StageOk
    <3> QED BY <3>2, <3>3 DEF NoReq
  <2>2. ASSUME NEW c \in Cx, ctx[c].ph \in {"AP_AGG", "AP_WR"}, NEW w \in Off \ am.touch
        PROVE  am.line[w] = mem[LineOf(P(c).addr[c_lead(c)]) * LW + w]
    BY <2>2 DEF EngInv, LineOk
  <2> QED BY <2>1, <2>2 DEF AmoLineFresh
<1> QED BY <1>1, <1>2, <1>3, PTL DEF Spec

----------------------------------------------------------------------------
(***************************************************************************)
(* The refinement: the memory engine implements AtomicMemory. Every lane   *)
(* of an instruction takes effect exactly once, at one moment, and its     *)
(* register receives what memory held then. Five parts:                    *)
(*   - what a set of lanes stores in a word and what each of them finds in *)
(*     it, for every number of lanes: the lane-order functions of MemOps   *)
(*     meet their description lane by lane (LaneInduction, FoundServed,    *)
(*     StoresLeave, GoodNext);                                             *)
(*   - the inductive invariant AtomInv: EngInv, and who holds which        *)
(*     instruction, what a request that is out asks for, what a register   *)
(*     already shows, and what an AMO round has read and left;             *)
(*   - AtomInv is kept, one conjunct at a time;                            *)
(*   - what a cycle does to the lanes that have not taken effect, to the   *)
(*     two memories and to the results (LeftOf, ResOf);                    *)
(*   - the refinement.                                                     *)
(***************************************************************************)

(* What holds of lane 0 and passes from each lane to the next holds of all *)
(* lanes.                                                                  *)
LEMMA LaneInduction ==
  ASSUME NEW S, 0 \in S, \A l \in Lane : l - 1 \in S => l \in S
  PROVE  \A l \in 0 .. NL : l \in S
<1> DEFINE B == {l \in 0 .. NL : l \notin S}
           R == {ss \in Nat \X Nat : ss[1] < ss[2]}
<1>0. NL \in Nat BY SizeAssumption
<1> SUFFICES ASSUME B # {} PROVE FALSE OBVIOUS
<1>1. IsWellFoundedOn(R, Nat) BY NatLessThanWellFounded, Zenon DEF OpToRel
<1>2. PICK k \in B : \A m \in B : ~ (<<m, k>> \in R)
  <2>1. B \subseteq Nat BY <1>0
  <2> HIDE DEF R, B
  <2> QED BY <1>1, <2>1, WFMin
<1>3. k \in Lane /\ k - 1 \in 0 .. NL BY <1>0, <1>2 DEF Lane
<1>4. <<k - 1, k>> \in R BY <1>0, <1>3 DEF Lane
<1>5. k - 1 \in S BY <1>2, <1>3, <1>4
<1> QED BY <1>2, <1>3, <1>5

(* The memory that lane l of a store or an AMO leaves.                     *)
Put(p, l, m) ==
  [m EXCEPT ![At(p, l)] =
     IF p.kind = "store" THEN p.data[l] ELSE amo_alu(p.fn, m[At(p, l)], p.data[l])]

(* The memory lane l finds, in terms of what the lane before it found.     *)
Served(p, S, m, f, l) ==
  IF l \notin S \/ p.kind = "load" THEN (IF l = 0 THEN m ELSE f[l - 1])
  ELSE Put(p, l, f[l - 1])

LEMMA FoundExists ==
  ASSUME NEW p, NEW S \in SUBSET Lane, NEW m
  PROVE  \E g : g = [l \in 0 .. NL |-> Served(p, S, m, g, l)]
<1> DEFINE K == {k \in 0 .. NL : \E g : g = [l \in 0 .. k |-> Served(p, S, m, g, l)]}
<1>0. NL \in Nat BY SizeAssumption
<1>1. 0 \in K
  <2> DEFINE g == [l \in 0 .. 0 |-> m]
  <2>1. \A l \in 0 .. 0 : Served(p, S, m, g, l) = m BY DEF Served, Lane
  <2>2. g = [l \in 0 .. 0 |-> Served(p, S, m, g, l)] BY <2>1
  <2> HIDE DEF g
  <2> QED BY <1>0, <2>2
<1>2. ASSUME NEW k \in Lane, k - 1 \in K PROVE k \in K
  <2>1. PICK g : g = [l \in 0 .. k - 1 |-> Served(p, S, m, g, l)] BY <1>2
  <2> DEFINE h == [l \in 0 .. k |-> IF l = k THEN Served(p, S, m, g, k) ELSE g[l]]
  <2>2. ASSUME NEW l \in 0 .. k PROVE h[l] = Served(p, S, m, h, l)
    <3>1. l = 0 \/ (l - 1 \in 0 .. k - 1 /\ l - 1 # k /\ l - 1 \in 0 .. k) BY DEF Lane
    <3>2. l # 0 => h[l - 1] = g[l - 1] BY <3>1
    <3>3. Served(p, S, m, h, l) = Served(p, S, m, g, l)
      <4>1. CASE l = 0 BY <4>1 DEF Served, Lane
      <4>2. CASE l # 0
        <5> HIDE DEF h
        <5> QED BY <3>2, <4>2 DEF Served
      <4> QED BY <4>1, <4>2
    <3>4. CASE l = k BY <3>3, <3>4
    <3>5. CASE l # k
      <4>1. l \in 0 .. k - 1 BY <3>5 DEF Lane
      <4>2. g[l] = Served(p, S, m, g, l) BY <2>1, <4>1
      <4> QED BY <3>3, <3>5, <4>2
    <3> QED BY <3>4, <3>5
  <2>3. h = [l \in 0 .. k |-> Served(p, S, m, h, l)]
    <3>1. h = [l \in 0 .. k |-> h[l]] OBVIOUS
    <3> HIDE DEF h
    <3> QED BY <2>2, <3>1
  <2> HIDE DEF h
  <2>4. k \in 0 .. NL BY <1>0 DEF Lane
  <2> QED BY <2>3, <2>4
<1> HIDE DEF K
<1>3. NL \in K BY <1>0, <1>1, <1>2, LaneInduction
<1> QED BY <1>3 DEF K

LEMMA FoundDef ==
  ASSUME NEW p, NEW S \in SUBSET Lane, NEW m
  PROVE  Found(p, S, m) = [l \in 0 .. NL |-> Served(p, S, m, Found(p, S, m), l)]
<1>1. \E g : g = [l \in 0 .. NL |-> Served(p, S, m, g, l)] BY FoundExists
<1> QED BY <1>1 DEF Found, Served, Put

(* Lane by lane: lane 0 stands for the memory before; a lane outside S or  *)
(* one that loads changes nothing; one that stores or does an AMO changes  *)
(* its word.                                                               *)
LEMMA FoundServed ==
  ASSUME NEW p, NEW S \in SUBSET Lane, NEW m, NEW l \in 0 .. NL
  PROVE  Found(p, S, m)[l] = Served(p, S, m, Found(p, S, m), l)
<1> DEFINE F == Found(p, S, m)
<1>1. F = [k \in 0 .. NL |-> Served(p, S, m, F, k)] BY FoundDef
<1> HIDE DEF F
<1>2. F[l] = Served(p, S, m, F, l) BY <1>1
<1> QED BY <1>2 DEF F
LEMMA FoundFirst ==
  ASSUME NEW p, NEW S \in SUBSET Lane, NEW m
  PROVE  Found(p, S, m)[0] = m
<1>1. 0 \in 0 .. NL /\ 0 \notin S BY SizeAssumption DEF Lane
<1>2. Found(p, S, m)[0] = Served(p, S, m, Found(p, S, m), 0) BY <1>1, FoundServed
<1> QED BY <1>1, <1>2 DEF Served
LEMMA FoundKept ==
  ASSUME NEW p, NEW S \in SUBSET Lane, NEW m, NEW l \in Lane, l \notin S \/ p.kind = "load"
  PROVE  l - 1 \in 0 .. NL /\ l \in 0 .. NL /\ Found(p, S, m)[l] = Found(p, S, m)[l - 1]
<1>1. l # 0 /\ l \in 0 .. NL /\ l - 1 \in 0 .. NL BY SizeAssumption DEF Lane
<1>2. Found(p, S, m)[l] = Served(p, S, m, Found(p, S, m), l) BY <1>1, FoundServed
<1> QED BY <1>1, <1>2 DEF Served
LEMMA FoundSet ==
  ASSUME NEW p, NEW S \in SUBSET Lane, NEW m, NEW l \in S, p.kind # "load"
  PROVE  /\ l \in Lane /\ l - 1 \in 0 .. NL /\ l \in 0 .. NL
         /\ Found(p, S, m)[l] = Put(p, l, Found(p, S, m)[l - 1])
<1>1. l \in Lane /\ l # 0 /\ l \in 0 .. NL /\ l - 1 \in 0 .. NL BY SizeAssumption DEF Lane
<1>2. Found(p, S, m)[l] = Served(p, S, m, Found(p, S, m), l) BY <1>1, FoundServed
<1> QED BY <1>1, <1>2 DEF Served

(* Loads leave the memory as it is.                                        *)
LEMMA FoundLoad ==
  ASSUME NEW p, NEW S \in SUBSET Lane, NEW m, p.kind = "load" \/ S = {}
  PROVE  \A l \in 0 .. NL : Found(p, S, m)[l] = m
<1> DEFINE F == Found(p, S, m)
           G == {l \in 0 .. NL : F[l] = m}
<1>0. NL \in Nat BY SizeAssumption
<1>1. F[0] = m /\ \A l \in Lane : l - 1 \in 0 .. NL /\ l \in 0 .. NL /\ F[l] = F[l - 1] BY FoundFirst, FoundKept
<1> HIDE DEF F
<1>2. 0 \in G BY <1>0, <1>1
<1>3. \A l \in Lane : l - 1 \in G => l \in G BY <1>1
<1> HIDE DEF G
<1>4. \A l \in 0 .. NL : l \in G BY <1>2, <1>3, LaneInduction
<1> QED BY <1>4 DEF F, G

(* The lanes S of p hit words of the memory m, whose words are X.          *)
Fits(p, S, X, m) == p \in Op /\ S \in SUBSET Lane /\ m \in [X -> Val] /\ \A l \in S : At(p, l) \in X

(* Each lane finds a memory of values.                                     *)
LEMMA FoundType ==
  ASSUME NEW p, NEW S, NEW X, NEW m, Fits(p, S, X, m)
  PROVE  \A l \in 0 .. NL : Found(p, S, m)[l] \in [X -> Val]
<1>f. p \in Op /\ S \in SUBSET Lane /\ m \in [X -> Val] /\ \A l \in S : At(p, l) \in X BY DEF Fits
<1> DEFINE F == Found(p, S, m)
           G == {l \in 0 .. NL : F[l] \in [X -> Val]}
<1>0. NL \in Nat BY SizeAssumption
<1>1. 0 \in G BY <1>0, <1>f, FoundFirst
<1>2. ASSUME NEW l \in Lane, l - 1 \in G PROVE l \in G
  <2> DEFINE v == IF p.kind = "store" THEN p.data[l] ELSE amo_alu(p.fn, F[l - 1][At(p, l)], p.data[l])
  <2>1. CASE l \notin S \/ p.kind = "load" BY <1>2, <1>f, <2>1, FoundKept
  <2>2. CASE l \in S /\ p.kind # "load"
    <3>0. F[l] = Put(p, l, F[l - 1]) /\ l \in 0 .. NL BY <1>f, <2>2, FoundSet
    <3>1. F[l] = [F[l - 1] EXCEPT ![At(p, l)] = v] BY <3>0 DEF Put
    <3>2. F[l - 1] \in [X -> Val] /\ At(p, l) \in X BY <1>2, <1>f, <2>2
    <3>3. p.data[l] \in Val /\ p.fn \in {"add", "swap", "minu", "maxu"} BY <1>f DEF Op
    <3>4. F[l - 1][At(p, l)] \in Val BY <3>2
    <3> HIDE DEF F
    <3>5. v \in Val BY <3>3, <3>4, AluType
    <3> HIDE DEF v
    <3> QED BY <3>0, <3>1, <3>2, <3>5
  <2> QED BY <2>1, <2>2
<1> HIDE DEF G
<1>3. \A l \in 0 .. NL : l \in G BY <1>1, <1>2, LaneInduction
<1> QED BY <1>3 DEF G

(* What the lane that changes a word leaves there, and elsewhere.          *)
LEMMA FoundHit ==
  ASSUME NEW p, NEW S, NEW X, NEW m, Fits(p, S, X, m), NEW l \in S, p.kind # "load"
  PROVE  /\ l - 1 \in 0 .. NL /\ l \in 0 .. NL
         /\ Found(p, S, m)[l][At(p, l)] =
              IF p.kind = "store" THEN p.data[l]
              ELSE amo_alu(p.fn, Found(p, S, m)[l - 1][At(p, l)], p.data[l])
         /\ \A x \in X : x # At(p, l) => Found(p, S, m)[l][x] = Found(p, S, m)[l - 1][x]
<1>f. p \in Op /\ S \in SUBSET Lane /\ m \in [X -> Val] /\ \A k \in S : At(p, k) \in X BY DEF Fits
<1> DEFINE F == Found(p, S, m)
           v == IF p.kind = "store" THEN p.data[l] ELSE amo_alu(p.fn, F[l - 1][At(p, l)], p.data[l])
<1>0. l - 1 \in 0 .. NL /\ l \in 0 .. NL /\ F[l] = Put(p, l, F[l - 1]) BY <1>f, FoundSet
<1>1. F[l] = [F[l - 1] EXCEPT ![At(p, l)] = v] BY <1>0 DEF Put
<1>2. F[l - 1] \in [X -> Val] /\ At(p, l) \in X BY <1>0, <1>f, FoundType
<1> HIDE DEF F
<1>3. F[l][At(p, l)] = v /\ \A x \in X : x # At(p, l) => F[l][x] = F[l - 1][x] BY <1>1, <1>2
<1> QED BY <1>0, <1>3 DEF F

(* A word no lane after k up to l hits is as k left it.                    *)
Spares(p, S, k, l, x) == \A j \in S : k < j /\ j <= l => At(p, j) # x
LEMMA Untouched ==
  ASSUME NEW p, NEW S, NEW X, NEW m, Fits(p, S, X, m), NEW x \in X, NEW k \in 0 .. NL, NEW l \in 0 .. NL, k <= l,
         Spares(p, S, k, l, x)
  PROVE  Found(p, S, m)[l][x] = Found(p, S, m)[k][x]
<1>f. S \in SUBSET Lane BY DEF Fits
<1> DEFINE F == Found(p, S, m)
           G == {j \in 0 .. NL : j <= k \/ l < j \/ F[j][x] = F[k][x]}
<1>0. NL \in Nat BY SizeAssumption
<1>1. 0 \in G BY <1>0
<1>2. ASSUME NEW j \in Lane, j - 1 \in G PROVE j \in G
  <2>1. j \in 0 .. NL /\ j \in Int /\ k \in Int /\ l \in Int BY <1>0 DEF Lane
  <2> SUFFICES ASSUME k < j, j <= l PROVE F[j][x] = F[k][x] BY <2>1
  <2>2. F[j - 1][x] = F[k][x]
    <3>1. ~(l < j - 1) BY <2>1
    <3>2. j - 1 <= k => j - 1 = k BY <2>1
    <3> HIDE DEF F
    <3> QED BY <1>2, <3>1, <3>2
  <2>3. F[j][x] = F[j - 1][x]
    <3>1. CASE j \notin S \/ p.kind = "load" BY <1>f, <3>1, FoundKept
    <3>2. CASE j \in S /\ p.kind # "load"
      <4>1. At(p, j) # x BY <3>2 DEF Spares
      <4> QED BY <3>2, <4>1, FoundHit
    <3> QED BY <3>1, <3>2
  <2> QED BY <2>2, <2>3
<1> HIDE DEF G
<1>3. l \in G BY <1>1, <1>2, LaneInduction
<1>4. l <= k => l = k OBVIOUS
<1> HIDE DEF F
<1>5. F[l][x] = F[k][x] BY <1>3, <1>4 DEF G
<1> QED BY <1>5 DEF F

(* Two sets of lanes that agree on the lanes up to k that hit a word agree *)
(* on what those lanes find there.                                         *)
LEMMA Agree ==
  ASSUME NEW p, NEW S, NEW T, NEW X, NEW m, Fits(p, S, X, m), Fits(p, T, X, m), NEW x \in X, NEW k \in 0 .. NL,
         \A j \in Lane : j <= k /\ At(p, j) = x => (j \in S <=> j \in T)
  PROVE  Found(p, S, m)[k][x] = Found(p, T, m)[k][x]
<1>f. S \in SUBSET Lane /\ T \in SUBSET Lane BY DEF Fits
<1> DEFINE F == Found(p, S, m)
           H == Found(p, T, m)
           G == {j \in 0 .. NL : k < j \/ F[j][x] = H[j][x]}
<1>0. NL \in Nat BY SizeAssumption
<1>1. 0 \in G BY <1>0, <1>f, FoundFirst
<1>2. ASSUME NEW j \in Lane, j - 1 \in G PROVE j \in G
  <2>1. j \in 0 .. NL /\ j \in Int /\ k \in Int BY <1>0 DEF Lane
  <2> SUFFICES ASSUME j <= k PROVE F[j][x] = H[j][x] BY <2>1
  <2>2. F[j - 1][x] = H[j - 1][x] BY <1>2, <2>1
  <2>3. CASE p.kind = "load" BY <1>f, <2>2, <2>3, FoundKept
  <2>4. CASE p.kind # "load" /\ At(p, j) # x
    <3>1. F[j][x] = F[j - 1][x] BY <1>f, <2>4, FoundHit, FoundKept
    <3>2. H[j][x] = H[j - 1][x] BY <1>f, <2>4, FoundHit, FoundKept
    <3> QED BY <2>2, <3>1, <3>2
  <2>5. CASE p.kind # "load" /\ At(p, j) = x
    <3>1. j \in S <=> j \in T BY <2>5
    <3>2. CASE j \notin S BY <1>f, <2>2, <3>1, <3>2, FoundKept
    <3>3. CASE j \in S
      <4>1. F[j][x] = IF p.kind = "store" THEN p.data[j] ELSE amo_alu(p.fn, F[j - 1][x], p.data[j])
        BY <2>5, <3>3, FoundHit
      <4>2. H[j][x] = IF p.kind = "store" THEN p.data[j] ELSE amo_alu(p.fn, H[j - 1][x], p.data[j])
        BY <2>5, <3>1, <3>3, FoundHit
      <4> HIDE DEF F, H
      <4> QED BY <2>2, <4>1, <4>2
    <3> QED BY <3>2, <3>3
  <2> QED BY <2>3, <2>4, <2>5
<1> HIDE DEF G
<1>3. k \in G BY <1>1, <1>2, LaneInduction
<1>4. ~(k < k) OBVIOUS
<1> HIDE DEF F, H
<1>5. F[k][x] = H[k][x] BY <1>3, <1>4 DEF G
<1> QED BY <1>5 DEF F, H

-----------------------------------------------------------------------------
(* IdsOk: one context holds an instruction, none the one in the input      *)
(* register nor one whose warp was told; the registers of the one in the   *)
(* input register are still to be written.                                 *)
IdsOk ==
  /\ \A c, d \in Cx : c_busy(c) /\ c_busy(d) /\ ctx[c].id = ctx[d].id => c = d
  /\ \A c \in Cx : c_busy(c) => ctx[c].id # i /\ ctx[c].id \notin resumed \cup {rs}
  /\ i # 0 => i \notin resumed \cup {rs} /\ \A l \in Lane : got[i][l] = None
  /\ conf.BYP => i = 0 /\ rs = 0
(* RequestsOk: the lanes pending and those of a request that is out are    *)
(* the instruction's, and none is both, but for the read of an AMO; a      *)
(* request memory has not answered waits for its grant; its lanes are on   *)
(* its line.                                                               *)
RequestsOk ==
  /\ \A c \in Cx : c_busy(c) => ctx[c].pend \subseteq P(c).mask
  /\ \A t \in Tg, c \in Cx : tags[t].v /\ tags[t].c = c =>
       /\ tags[t].mask \subseteq P(c).mask
       /\ tags[t].kind # "MK_AMORD" => tags[t].mask \cap ctx[c].pend = {}
       /\ resp[t] = NoData => o # NoReq /\ o.tag = t
  /\ o # NoReq => \A l \in o.mask : LineOf(P(o.c).addr[l]) = o.line
(* RegsOk: the register of a lane of a load is written when its request    *)
(* comes back and not before, and one request out has the lane.            *)
RegsOk ==
  \A c \in Cx : Global(c) /\ P(c).kind = "load" =>
    /\ \A l \in ctx[c].pend : ~Has(c, l)
    /\ \A t \in Tg : tags[t].v /\ tags[t].c = c => \A l \in tags[t].mask : ~Has(c, l)
    /\ \A t, u \in Tg : tags[t].v /\ tags[u].v /\ tags[t].c = c /\ tags[u].c = c /\ t # u
                         => tags[t].mask \cap tags[u].mask = {}
(* RoundsOk: in an AMO p on line n, of whose lanes M the lanes D are done, *)
(* the line buffer b is what D leave of memory m in lane order, every done *)
(* lane has in its register r what it found, and no lane went before a     *)
(* lower one on its word: while lanes are left, until the write is chosen, *)
(* and until it is granted.                                                *)
Good(p, r, b, m, n, M, D) ==
  /\ \A x \in 0 .. Words - 1 : LineOf(x) = n => b.line[x % LW] = After(p, D, m)[x]
  /\ \A l \in D : p.addr[l] % LW \in b.touch /\ (Returns(p) => r[l] = Result(p, l, D, m))
  /\ \A l \in D, j \in M \ D : p.addr[l] = p.addr[j] => l < j
Round(c, n, M, D) == Good(P(c), got[ctx[c].id], am, mem, n, M, D)
LeadLine(c) == LineOf(P(c).addr[c_lead(c)])
RoundsOk ==
  /\ \A c \in Cx :
      /\ ctx[c].ph = "AP_AGG" => /\ am.left \subseteq mreq_mask(c)
                                 /\ Round(c, LeadLine(c), mreq_mask(c), mreq_mask(c) \ am.left)
      /\ ctx[c].ph = "AP_WR" => Round(c, LeadLine(c), mreq_mask(c), mreq_mask(c))
  /\ \A c \in Cx : o.c = c /\ o.kind = "MK_WRITE" /\ P(c).kind = "amo" =>
       Round(c, o.line, o.mask, o.mask)

(* The inductive invariant of the refinement.                              *)
AtomInv == EngInv /\ IdsOk /\ RequestsOk /\ RegsOk /\ RoundsOk

-----------------------------------------------------------------------------
(* The context taken is the one allocated.                                 *)
LEMMA NewIsAlloc ==
  ASSUME EngInv, NEW n, NEW gnt, NEW rt, NEW f, NEW a, NEW g, NEW fin, Ticks(n, gnt, rt, f, a, g, fin),
         NEW c \in Cx, NewCtx(c, n)
  PROVE  c = alloc_c /\ Taken(n) # 0
<1>1. ctx'[c] = IF Taken(n) # 0 /\ c = alloc_c THEN Fresh(Taken(n))
                ELSE IF ~c_busy(c) \/ c_st_n(c, fin) = "free" THEN FreeCtx
                ELSE [st |-> c_st_n(c, fin), id |-> ctx[c].id, pend |-> ctx[c].pend \ c_sent(c, f, a),
                      ph |-> c_ph_n(c, f, a), cnt |-> c_cnt_n(c, f, a)]
  BY DEF Ticks, Contexts
<1>2. ~c_busy(c) /\ ctx'[c].st = "busy" BY DEF NewCtx
<1> QED BY <1>1, <1>2 DEF FreeCtx

(* The context that resumes its warp is free after the cycle.              *)
LEMMA MinGone ==
  ASSUME EngInv, NEW n, NEW gnt, NEW rt, NEW f, NEW a, NEW g, NEW fin, Ticks(n, gnt, rt, f, a, g, fin),
         fin # {}
  PROVE  Min(fin) \in Cx /\ c_busy(Min(fin)) /\ Min(fin) \in fin /\ ctx'[Min(fin)] = FreeCtx
<1>1. fin = Fin(f, a) BY DEF Ticks
<1>2. fin \in SUBSET Nat BY <1>1 DEF Fin, Cx
<1>3. Min(fin) \in fin BY <1>2, Least
<1> DEFINE c == Min(fin)
<1>4. c \in Cx /\ c_busy(c) BY <1>1, <1>3 DEF Fin, c_fin
<1>5. ctx'[c] = IF Taken(n) # 0 /\ c = alloc_c THEN Fresh(Taken(n))
                ELSE IF ~c_busy(c) \/ c_st_n(c, fin) = "free" THEN FreeCtx
                ELSE [st |-> c_st_n(c, fin), id |-> ctx[c].id, pend |-> ctx[c].pend \ c_sent(c, f, a),
                      ph |-> c_ph_n(c, f, a), cnt |-> c_cnt_n(c, f, a)]
  BY <1>4 DEF Ticks, Contexts
<1>6. ~(Taken(n) # 0 /\ c = alloc_c) BY <1>4, TakenFacts
<1>7. c_st_n(c, fin) = "free" BY <1>3 DEF c_st_n
<1> QED BY <1>3, <1>4, <1>5, <1>6, <1>7

(* The instruction told of next.                                           *)
LEMMA ToldId ==
  ASSUME EngInv, NEW n, NEW gnt, NEW rt, NEW f, NEW a, NEW g, NEW fin, Ticks(n, gnt, rt, f, a, g, fin),
         rs_id(fin) # 0
  PROVE  \E d \in Cx : c_busy(d) /\ ctx[d].id = rs_id(fin) /\ ctx'[d] = FreeCtx
<1>1. fin # {} /\ rs_id(fin) = ctx[Min(fin)].id BY DEF rs_id
<1> QED BY <1>1, MinGone

(* The instruction written back is in a context.                           *)
LEMMA WbOwner ==
  ASSUME EngInv, NEW n, NEW gnt, NEW rt, NEW f, NEW a, NEW g, NEW fin, Ticks(n, gnt, rt, f, a, g, fin),
         wb(a).n # 0
  PROVE  \/ /\ gwb(a) /\ a.c \in Cx /\ c_busy(a.c) /\ wb(a).n = ctx[a.c].id /\ wb(a).lanes = a.mask
            /\ wb(a).data = [l \in Lane |-> a.data[P(a.c).addr[l] % LW]]
            /\ a.kind = "MK_LOAD" /\ P(a.c).wb
         \/ /\ a_wb /\ a_step(a) /\ lock_c \in Locked /\ lock_c \in Cx /\ c_busy(lock_c)
            /\ wb(a).n = ctx[lock_c].id /\ wb(a).lanes = a_rnd /\ ctx[lock_c].ph = "AP_AGG"
            /\ wb(a).data = [l \in Lane |-> am.line[a_off(l)]]
         \/ /\ sc_step(a) /\ Returns(P(sc_c)) /\ sc_c \in Cx /\ c_busy(sc_c) /\ P(sc_c).scratch
            /\ wb(a).n = ctx[sc_c].id /\ wb(a).lanes = {sc_lead} /\ wb(a).data = [l \in Lane |-> sc_rd]
<1>0. sc_step(a) => ~gwb(a) /\ ~(a_wb /\ a_step(a)) BY DEF sc_step
<1>1. CASE gwb(a)
  <2>1. wb(a) = [n |-> ctx[a.c].id, lanes |-> a.mask,
                 data |-> [l \in Lane |-> a.data[P(a.c).addr[l] % LW]]]
    BY <1>0, <1>1, WbCases
  <2>2. a.kind = "MK_LOAD" /\ P(a.c).wb BY <1>1 DEF gwb
  <2>3. a.c \in Cx
    <3>1. CASE rt = 0 /\ a = NoAnswer BY <2>2, <3>1, NoAnswerFacts
    <3>2. CASE /\ rt \in Tg /\ tags[rt].v
               /\ a = [c |-> tags[rt].c, mask |-> tags[rt].mask, kind |-> tags[rt].kind, byp |-> FALSE,
                       data |-> resp[rt]]
      <4>1. TagOk(rt) BY <3>2 DEF EngInv, TagsOk
      <4> QED BY <3>2, <4>1 DEF TagOk
    <3>3. CASE /\ f # NoReq
               /\ a = [c |-> f.c, mask |-> f.mask, kind |-> f.kind, byp |-> TRUE, data |-> ReadLine(f.line)]
      <4>1. f.c \in Cx BY <3>3, FireFacts
      <4> QED BY <3>3, <4>1
    <3> QED BY <3>1, <3>2, <3>3, AnswerFacts
  <2>4. c_busy(a.c)
    <3>1. a.c # 0 BY <2>3 DEF Cx
    <3> QED BY <3>1, LoadAnswer
  <2> QED BY <1>1, <2>1, <2>2, <2>3, <2>4
<1>2. CASE ~gwb(a) /\ a_wb /\ a_step(a)
  <2>1. wb(a) = [n |-> ctx[lock_c].id, lanes |-> a_rnd, data |-> [l \in Lane |-> am.line[a_off(l)]]]
    BY <1>0, <1>2, WbCases
  <2>2. a_act BY <1>2 DEF a_step
  <2>3. lock_c \in Locked /\ lock_c \in Cx /\ c_busy(lock_c) /\ ctx[lock_c].ph = "AP_AGG" BY <2>2, RoundFacts
  <2> QED BY <1>2, <2>1, <2>3
<1>3. CASE sc_step(a) /\ Returns(P(sc_c))
  <2>1. wb(a) = [n |-> ctx[sc_c].id, lanes |-> {sc_lead}, data |-> [l \in Lane |-> sc_rd]]
    BY <1>0, <1>3, WbCases
  <2>2. sc_c \in Cx /\ c_busy(sc_c) /\ P(sc_c).scratch BY <1>3, ScratchFacts
  <2> QED BY <1>3, <2>1, <2>2
<1>4. CASE ~gwb(a) /\ ~(a_wb /\ a_step(a)) /\ ~(sc_step(a) /\ Returns(P(sc_c)))
  <2>1. wb(a) = [n |-> 0, lanes |-> {}, data |-> << >>] BY <1>0, <1>4, WbCases
  <2> QED BY <2>1
<1> QED BY <1>1, <1>2, <1>3, <1>4

(* The input register and the instruction that takes a context.            *)
LEMMA InputFacts ==
  ASSUME EngInv, IdsOk, NEW n, NEW gnt, NEW rt, NEW f, NEW a, NEW g, NEW fin,
         Ticks(n, gnt, rt, f, a, g, fin)
  PROVE  /\ i \in 0 .. Len(op) /\ rs \in 0 .. Len(op) /\ resumed \subseteq 1 .. Len(op)
         /\ \/ Taken(n) = 0 /\ i' = i /\ n = 0
            \/ Taken(n) = 0 /\ i = 0 /\ i' = n /\ n # 0 /\ ~conf.BYP
            \/ Taken(n) = i /\ i # 0 /\ i' = n /\ ~conf.BYP
            \/ Taken(n) = n /\ i = 0 /\ i' = 0 /\ n # 0 /\ conf.BYP
         /\ conf' = conf /\ (conf.BYP => i' = 0 /\ rs' = 0)
<1>1. i \in 0 .. Len(op) /\ rs \in 0 .. Len(op) /\ resumed \subseteq 1 .. Len(op) BY DEF EngInv, TypeOK
<1>2. conf' = conf /\ InputReg(n) /\ Resume(fin) BY DEF Ticks
<1>3. n # 0 => in_ready(op'[n]) BY OpGrows
<1>4. CASE conf.BYP
  <2>1. i = 0 /\ i' = 0 /\ Taken(n) = n BY <1>2, <1>4 DEF IdsOk, InputReg, Taken
  <2> QED BY <1>1, <1>2, <1>4, <2>1 DEF Resume
<1>5. CASE ~conf.BYP
  <2>1. Taken(n) = (IF i_take THEN i ELSE 0) /\ i' = IF n # 0 THEN n ELSE IF i_take THEN 0 ELSE i
    BY <1>2, <1>5 DEF InputReg, Taken
  <2>2. n # 0 => i = 0 \/ i_take BY <1>3, <1>5 DEF in_ready
  <2>3. i_take => i # 0 BY DEF i_take
  <2> QED BY <1>1, <1>2, <1>5, <2>1, <2>2, <2>3
<1> QED BY <1>4, <1>5

(* Instructions keep their one place.                                      *)
LEMMA IdsStep ==
  ASSUME EngInv, IdsOk, NEW n, NEW gnt, NEW rt, NEW f, NEW a, NEW g, NEW fin,
         Ticks(n, gnt, rt, f, a, g, fin)
  PROVE  IdsOk'
<1>0. Len(op) \in Nat /\ (n # 0 => n = Len(op) + 1) /\ n \in 0 .. Len(op') BY OpGrows
<1>i. /\ i \in 0 .. Len(op) /\ rs \in 0 .. Len(op) /\ resumed \subseteq 1 .. Len(op)
      /\ \/ Taken(n) = 0 /\ i' = i /\ n = 0
         \/ Taken(n) = 0 /\ i = 0 /\ i' = n /\ n # 0 /\ ~conf.BYP
         \/ Taken(n) = i /\ i # 0 /\ i' = n /\ ~conf.BYP
         \/ Taken(n) = n /\ i = 0 /\ i' = 0 /\ n # 0 /\ conf.BYP
      /\ conf' = conf /\ (conf.BYP => i' = 0 /\ rs' = 0)
  BY InputFacts
<1>b. \A c \in Cx : c_busy(c) => ctx[c].id \in 1 .. Len(op) BY DEF EngInv, CtxOk
<1>r. /\ rs' = 0 \/ rs' = rs_id(fin)
      /\ \A k \in resumed' : k \in resumed \/ (k # 0 /\ k \in {rs, rs_id(fin)})
  BY DEF Ticks, Resume
<1>t. ASSUME NEW k, k \in resumed' \cup {rs'}
      PROVE  \/ k \in resumed \/ k = 0 \/ k = rs
             \/ \E d \in Cx : c_busy(d) /\ ctx[d].id = k /\ ctx'[d] = FreeCtx
  <2>1. k \in resumed \/ k = 0 \/ k = rs \/ (k = rs_id(fin) /\ rs_id(fin) # 0) BY <1>r, <1>t
  <2> QED BY <2>1, ToldId
<1>k. \A c \in Cx : c_busy(c)' =>
        \/ NewCtx(c, n) /\ c = alloc_c /\ Taken(n) # 0 /\ ctx'[c].id = Taken(n)
        \/ c_busy(c) /\ ctx'[c].id = ctx[c].id
  <2>1. \A c \in Cx : c_busy(c)' => NewCtx(c, n) \/ KeptCtx(c, f, a, fin)
    <3>1. \A c \in Cx : GoneCtx(c, fin) => ~c_busy(c)' BY DEF GoneCtx, FreeCtx, c_busy
    <3> QED BY <3>1, CtxStep
  <2>2. \A c \in Cx : NewCtx(c, n) => ctx'[c].id = Taken(n) BY DEF NewCtx
  <2> QED BY <2>1, <2>2, NewIsAlloc DEF KeptCtx
<1>s. Taken(n) # 0 => /\ Taken(n) # i' /\ Taken(n) \notin resumed /\ Taken(n) # rs
                      /\ \A c \in Cx : c_busy(c) => ctx[c].id # Taken(n)
  <2>1. CASE Taken(n) = n /\ n # 0 /\ i' = 0 BY <1>0, <1>i, <1>b, <2>1
  <2>2. CASE Taken(n) = i /\ i # 0 /\ i' = n
    <3>1. i # n BY <1>0, <1>i, <2>2
    <3> QED BY <2>2, <3>1 DEF IdsOk
  <2> QED BY <1>i, <2>1, <2>2
<1>1. ASSUME NEW c \in Cx, NEW d \in Cx, c_busy(c)', c_busy(d)', ctx'[c].id = ctx'[d].id PROVE c = d
  BY <1>1, <1>k, <1>s DEF IdsOk
<1>2. ASSUME NEW c \in Cx, c_busy(c)' PROVE ctx'[c].id # i' /\ ctx'[c].id \notin resumed' \cup {rs'}
  <2>1. CASE ctx'[c].id = Taken(n) /\ Taken(n) # 0
    <3>1. ASSUME Taken(n) \in resumed' \cup {rs'} PROVE FALSE BY <1>s, <1>t, <2>1, <3>1
    <3> QED BY <1>s, <2>1, <3>1
  <2>2. CASE c_busy(c) /\ ctx'[c].id = ctx[c].id
    <3>1. ctx[c].id \in 1 .. Len(op) /\ ctx[c].id # i /\ ctx[c].id \notin resumed \cup {rs}
      BY <1>b, <2>2 DEF IdsOk
    <3>2. ctx[c].id # i'
      <4>1. i' = 0 \/ i' = n \/ i' = i BY <1>i
      <4> QED BY <1>0, <3>1, <4>1
    <3>3. ASSUME ctx[c].id \in resumed' \cup {rs'} PROVE FALSE
      <4>1. ctx[c].id # 0 BY <3>1
      <4>2. PICK d \in Cx : c_busy(d) /\ ctx[d].id = ctx[c].id /\ ctx'[d] = FreeCtx
        BY <1>t, <3>1, <3>3, <4>1
      <4>3. d = c BY <2>2, <4>2 DEF IdsOk
      <4> QED BY <1>2, <4>2, <4>3 DEF c_busy, FreeCtx
    <3> QED BY <2>2, <3>2, <3>3
  <2> QED BY <1>2, <1>k, <2>1, <2>2
<1>3. ASSUME i' # 0 PROVE i' \notin resumed' \cup {rs'} /\ \A l \in Lane : got'[i'][l] = None
  <2>1. CASE i' = n
    <3>1. n = Len(op) + 1 BY <1>0, <1>3, <2>1
    <3>2. n \notin resumed /\ n # 0 /\ n # rs /\ \A c \in Cx : c_busy(c) => ctx[c].id # n
      BY <1>0, <1>b, <1>i, <3>1
    <3>3. n \notin resumed' \cup {rs'} BY <1>t, <3>2
    <3>4. \A l \in Lane : got'[n][l] = None BY <1>3, <2>1, GotStep
    <3> QED BY <2>1, <3>3, <3>4
  <2>2. CASE i' = i
    <3>1. i \in 1 .. Len(op) BY <1>0, <1>i, <1>3, <2>2
    <3>2. i \notin resumed /\ i # rs /\ \A c \in Cx : c_busy(c) => ctx[c].id # i
      BY <1>3, <2>2 DEF IdsOk
    <3>3. i \notin resumed' \cup {rs'} BY <1>t, <1>3, <2>2, <3>2
    <3>4. wb(a).n # i
      <4>1. wb(a).n # 0 => \E c \in Cx : c_busy(c) /\ wb(a).n = ctx[c].id BY WbOwner
      <4> QED BY <3>1, <3>2, <4>1
    <3>5. \A l \in Lane : got'[i][l] = got[i][l] BY <3>1, <3>4, GotStep
    <3>6. \A l \in Lane : got[i][l] = None BY <1>3, <2>2 DEF IdsOk
    <3> QED BY <2>2, <3>3, <3>5, <3>6
  <2> QED BY <1>3, <1>i, <2>1, <2>2
<1>4. conf'.BYP => i' = 0 /\ rs' = 0 BY <1>i
<1> QED BY <1>1, <1>2, <1>3, <1>4 DEF IdsOk

(* A line that was read is not the mark of no answer.                      *)
LEMMA LineNotEmpty == ASSUME NEW n PROVE ReadLine(n) # NoData
<1>1. 0 \in Off BY EngineAssumption DEF Off
<1>2. DOMAIN ReadLine(n) = Off BY DEF ReadLine
<1>3. DOMAIN NoData = {}
  <2>1. << >> \in Seq({}) /\ Len(<< >>) = 0 OBVIOUS
  <2>2. DOMAIN << >> = 1 .. 0 BY <2>1
  <2> QED BY <2>2 DEF NoData
<1> QED BY <1>1, <1>2, <1>3

(* The request sent: its lanes are pending, on its line, and no longer     *)
(* pending after the cycle unless it is the read of an AMO.                *)
LEMMA FireMask ==
  ASSUME EngInv, NEW n, NEW gnt, NEW rt, NEW f, NEW a, NEW g, NEW fin, Ticks(n, gnt, rt, f, a, g, fin),
         NEW c \in Cx, f.c = c
  PROVE  /\ f # NoReq /\ c_busy(c) /\ ~P(c).scratch /\ f.mask \subseteq ctx[c].pend
         /\ \A l \in f.mask : LineOf(P(c).addr[l]) = f.line
         /\ f.kind # "MK_AMORD" => c_sent(c, f, a) = f.mask
         /\ f.kind = "MK_AMORD" => c_sent(c, f, a) = {}
<1>1. /\ f # NoReq /\ Global(c) /\ ctx[c].pend # {} /\ f.mask = mreq_mask(c)
      /\ f.line = LineOf(P(c).addr[c_lead(c)])
      /\ P(c).kind = "amo" => ctx[c].ph = IF f.kind = "MK_AMORD" THEN "AP_RD" ELSE "AP_WR"
      /\ f.kind = "MK_AMORD" => P(c).kind = "amo"
  BY SentFacts
<1>2. c_busy(c) /\ ~P(c).scratch BY <1>1 DEF Global
<1>3. f.mask \subseteq c_grp(c) /\ f.mask \subseteq ctx[c].pend
  <2>1. c_lead(c) \in ctx[c].pend BY <1>1, LeadFacts DEF EngInv
  <2>2. c_lead(c) \in c_grp(c) BY <2>1 DEF c_grp
  <2> QED BY <1>1, <2>2 DEF mreq_mask, c_grp
<1>4. \A l \in f.mask : LineOf(P(c).addr[l]) = f.line BY <1>1, <1>3 DEF c_grp
<1>5. f.kind # "MK_AMORD" => c_sent(c, f, a) = f.mask BY <1>1, <1>2 DEF c_sent
<1>6. f.kind = "MK_AMORD" => c_sent(c, f, a) = {} BY <1>1, <1>2 DEF c_sent
<1> QED BY <1>1, <1>2, <1>3, <1>4, <1>5, <1>6

(* Requests stay the instruction's and wait for grant or answer.           *)
LEMMA RequestsStep ==
  ASSUME EngInv, RequestsOk, NEW n, NEW gnt, NEW rt, NEW f, NEW a, NEW g, NEW fin,
         Ticks(n, gnt, rt, f, a, g, fin), StageOk'
  PROVE  RequestsOk'
<1>0. o' = (IF conf.BYP THEN NoReq ELSE IF f # NoReq THEN f ELSE IF gnt THEN NoReq ELSE o) /\ conf' = conf
  BY DEF Ticks, RequestStage
<1>f. f # NoReq => (conf.BYP => gnt) /\ (o = NoReq \/ gnt) /\ f.tag \in Tg BY FireFacts
<1>g. g = IF gnt THEN q ELSE NoReq BY DEF Ticks
<1>1. ASSUME NEW c \in Cx, c_busy(c)' PROVE ctx'[c].pend \subseteq P(c)'.mask
  <2>1. CASE NewCtx(c, n) BY <2>1 DEF NewCtx, P
  <2>2. CASE KeptCtx(c, f, a, fin) BY <2>2 DEF KeptCtx, RequestsOk
  <2>3. ~GoneCtx(c, fin) BY <1>1 DEF GoneCtx, FreeCtx, c_busy
  <2> QED BY <2>1, <2>2, <2>3, CtxStep
<1>2. ASSUME NEW t \in Tg, NEW c \in Cx, tags'[t].v, tags'[t].c = c
      PROVE  /\ tags'[t].mask \subseteq P(c)'.mask
             /\ tags'[t].kind # "MK_AMORD" => tags'[t].mask \cap ctx'[c].pend = {}
             /\ resp'[t] = NoData => o' # NoReq /\ o'.tag = t
  <2>1. KeptCtx(c, f, a, fin) BY <1>2, OwnerStep
  <2>2. c_busy(c) /\ P(c)' = P(c) /\ ctx'[c].pend = ctx[c].pend \ c_sent(c, f, a) BY <2>1 DEF KeptCtx
  <2>r. /\ resp'[t] = IF t = rt THEN NoData ELSE IF g.tag = t THEN ReadLine(g.line) ELSE resp[t]
        /\ ReadLine(g.line) # NoData
    BY RespStep, LineNotEmpty
  <2>3. CASE tags'[t] = tags[t] /\ (tags[t].v => rt # t /\ f.tag # t)
    <3>1. /\ tags[t].mask \subseteq P(c).mask /\ tags[t].v /\ rt # t
          /\ tags[t].kind # "MK_AMORD" => tags[t].mask \cap ctx[c].pend = {}
          /\ resp[t] = NoData => o # NoReq /\ o.tag = t
      BY <1>2, <2>3 DEF RequestsOk
    <3>2. ASSUME resp'[t] = NoData PROVE o' # NoReq /\ o'.tag = t
      <4>1. g.tag # t /\ resp[t] = NoData BY <2>r, <3>1, <3>2
      <4>2. o # NoReq /\ o.tag = t BY <3>1, <4>1
      <4>3. ~conf.BYP BY <4>2 DEF EngInv, StageOk
      <4>4. ~gnt BY <1>g, <4>1, <4>2, <4>3 DEF q
      <4> QED BY <1>0, <1>f, <4>2, <4>3, <4>4
    <3> QED BY <2>2, <2>3, <3>1, <3>2
  <2>4. CASE /\ f.tag = t /\ rt # t /\ f # NoReq
             /\ tags'[t] = [v |-> TRUE, c |-> f.c, mask |-> f.mask, kind |-> f.kind]
    <3>1. f.c = c /\ tags'[t].mask = f.mask /\ tags'[t].kind = f.kind BY <1>2, <2>4
    <3>2. f.mask \subseteq ctx[c].pend /\ (f.kind # "MK_AMORD" => c_sent(c, f, a) = f.mask) BY <3>1, FireMask
    <3>3. ctx[c].pend \subseteq P(c).mask BY <2>2 DEF RequestsOk
    <3>4. resp'[t] = NoData => o' # NoReq /\ o'.tag = t
      <4>1. CASE conf.BYP
        <5>1. gnt /\ g # NoReq BY <1>f, <1>g, <2>4, <4>1 DEF Ticks, MayAnswer
        <5>2. g = f BY <4>1, <5>1, GrantFacts
        <5> QED BY <2>r, <2>4, <5>2
      <4>2. CASE ~conf.BYP BY <1>0, <2>4, <4>2
      <4> QED BY <4>1, <4>2
    <3> QED BY <2>2, <3>1, <3>2, <3>3, <3>4
  <2> QED BY <1>2, <2>3, <2>4, TagOrigin
<1>3. ASSUME o' # NoReq, NEW l \in o'.mask PROVE LineOf(P(o.c)'.addr[l]) = o'.line
  <2>1. /\ o'.c \in Cx /\ o'.tag \in Tg
        /\ tags'[o'.tag] = [v |-> TRUE, c |-> o'.c, mask |-> o'.mask, kind |-> o'.kind]
    BY <1>3 DEF StageOk
  <2>2. PICK c \in Cx, t \in Tg : c = o'.c /\ t = o'.tag BY <2>1
  <2>3. KeptCtx(c, f, a, fin) BY <2>1, <2>2, OwnerStep
  <2>4. P(c)' = P(c) BY <2>3 DEF KeptCtx
  <2>5. P(o.c)' = P(c)' BY <2>2 DEF P
  <2>6. CASE o' = f /\ f # NoReq BY <1>3, <2>2, <2>4, <2>5, <2>6, FireMask
  <2>7. CASE o' = o
    <3>1. LineOf(P(o.c).addr[l]) = o.line BY <1>3, <2>7 DEF RequestsOk
    <3> QED BY <2>2, <2>4, <2>5, <2>7, <3>1
  <2> QED BY <1>0, <1>3, <2>6, <2>7
<1> QED BY <1>1, <1>2, <1>3 DEF RequestsOk, LineOf

(* What writes the register of a lane of the instruction in context c.     *)
ByTag(c, l, rt, a) ==
  /\ rt \in Tg /\ tags[rt].v /\ tags[rt].c = c /\ tags[rt].kind = "MK_LOAD" /\ l \in tags[rt].mask
  /\ ~a.byp /\ resp[rt] # NoData /\ P(c).kind = "load"
  /\ wb(a).data = [k \in Lane |-> resp[rt][P(c).addr[k] % LW]]
ByBypass(c, l, rt, f, a, g) ==
  /\ a.byp /\ conf.BYP /\ f # NoReq /\ f.c = c /\ f.kind = "MK_LOAD" /\ l \in f.mask /\ rt = f.tag /\ g = f
  /\ P(c).kind = "load" /\ wb(a).data = [k \in Lane |-> ReadLine(f.line)[P(c).addr[k] % LW]]
ByRound(c, l, a) ==
  /\ c \in Locked /\ lock_c = c /\ ctx[c].ph = "AP_AGG" /\ a_step(a) /\ l \in a_rnd
  /\ P(c).kind = "amo" /\ wb(a).data = [k \in Lane |-> am.line[a_off(k)]]
ByScratch(c, l, a) ==
  /\ sc_step(a) /\ sc_c = c /\ P(c).scratch /\ l = sc_lead /\ wb(a).data = [k \in Lane |-> sc_rd]

LEMMA WbOf ==
  ASSUME EngInv, IdsOk, NEW n, NEW gnt, NEW rt, NEW f, NEW a, NEW g, NEW fin,
         Ticks(n, gnt, rt, f, a, g, fin),
         NEW c \in Cx, c_busy(c), wb(a).n = ctx[c].id, NEW l \in wb(a).lanes
  PROVE  ByTag(c, l, rt, a) \/ ByBypass(c, l, rt, f, a, g) \/ ByRound(c, l, a) \/ ByScratch(c, l, a)
<1>1. ctx[c].id # 0 BY DEF EngInv, CtxOk
<1>2. \A d \in Cx : c_busy(d) /\ wb(a).n = ctx[d].id => d = c BY DEF IdsOk
<1>3. CASE /\ gwb(a) /\ a.c \in Cx /\ c_busy(a.c) /\ wb(a).n = ctx[a.c].id /\ wb(a).lanes = a.mask
           /\ wb(a).data = [k \in Lane |-> a.data[P(a.c).addr[k] % LW]]
           /\ a.kind = "MK_LOAD" /\ P(a.c).wb
  <2>1. a.c = c BY <1>2, <1>3
  <2>2. CASE rt = 0 /\ a = NoAnswer BY <1>3, <2>2, NoAnswerFacts
  <2>3. CASE /\ rt \in Tg /\ tags[rt].v /\ resp[rt] # NoData
             /\ a = [c |-> tags[rt].c, mask |-> tags[rt].mask, kind |-> tags[rt].kind, byp |-> FALSE,
                     data |-> resp[rt]]
    <3>1. TagOk(rt) BY <2>3 DEF EngInv, TagsOk
    <3>2. a.c = tags[rt].c /\ a.kind = tags[rt].kind /\ a.mask = tags[rt].mask /\ a.data = resp[rt] /\ ~a.byp
      BY <2>3
    <3>3. P(c).kind = "load" BY <1>3, <2>1, <2>3, <3>1, <3>2 DEF TagOk, Owns
    <3> QED BY <1>3, <2>1, <2>3, <3>2, <3>3 DEF ByTag
  <2>4. CASE /\ rt \in Tg /\ conf.BYP /\ gnt /\ f # NoReq /\ rt = f.tag /\ ~tags[rt].v /\ g = f
             /\ a = [c |-> f.c, mask |-> f.mask, kind |-> f.kind, byp |-> TRUE, data |-> ReadLine(f.line)]
    <3>1. a.c = f.c /\ a.kind = f.kind /\ a.mask = f.mask /\ a.data = ReadLine(f.line) /\ a.byp BY <2>4
    <3>2. P(c).kind = "load" BY <1>3, <2>1, <3>1, SentFacts
    <3> QED BY <1>3, <2>1, <2>4, <3>1, <3>2 DEF ByBypass
  <2> QED BY <2>2, <2>3, <2>4, AnswerFacts
<1>4. CASE /\ a_wb /\ a_step(a) /\ lock_c \in Locked /\ lock_c \in Cx /\ c_busy(lock_c)
           /\ wb(a).n = ctx[lock_c].id /\ wb(a).lanes = a_rnd /\ ctx[lock_c].ph = "AP_AGG"
           /\ wb(a).data = [k \in Lane |-> am.line[a_off(k)]]
  <2>1. lock_c = c BY <1>2, <1>4
  <2>2. P(c).kind = "amo" BY <1>4, <2>1 DEF Locked, c_locked
  <2> QED BY <1>4, <2>1, <2>2 DEF ByRound
<1>5. CASE /\ sc_step(a) /\ Returns(P(sc_c)) /\ sc_c \in Cx /\ c_busy(sc_c) /\ P(sc_c).scratch
           /\ wb(a).n = ctx[sc_c].id /\ wb(a).lanes = {sc_lead} /\ wb(a).data = [k \in Lane |-> sc_rd]
  <2>1. sc_c = c BY <1>2, <1>5
  <2> QED BY <1>5, <2>1 DEF ByScratch
<1> QED BY <1>1, <1>3, <1>4, <1>5, WbOwner

(* A load's registers are written by what comes back, once.                *)
LEMMA RegsStep ==
  ASSUME EngInv, IdsOk, RequestsOk, RegsOk, NEW n, NEW gnt, NEW rt, NEW f, NEW a, NEW g, NEW fin,
         Ticks(n, gnt, rt, f, a, g, fin)
  PROVE  RegsOk'
<1> SUFFICES ASSUME NEW c \in Cx, Global(c)', P(c)'.kind = "load"
             PROVE  /\ \A l \in ctx'[c].pend : got'[ctx'[c].id][l] = None
                    /\ \A t \in Tg : tags'[t].v /\ tags'[t].c = c =>
                         \A l \in tags'[t].mask : got'[ctx'[c].id][l] = None
                    /\ \A t, u \in Tg : tags'[t].v /\ tags'[u].v /\ tags'[t].c = c /\ tags'[u].c = c /\ t # u
                                         => tags'[t].mask \cap tags'[u].mask = {}
  BY DEF RegsOk, Has
<1>b. c_busy(c)' /\ ~P(c)'.scratch BY DEF Global
<1>0. ~GoneCtx(c, fin) BY <1>b DEF GoneCtx, FreeCtx, c_busy
<1>1. CASE NewCtx(c, n)
  <2>1. \A t \in Tg : ~(tags'[t].v /\ tags'[t].c = c)
    <3>1. ~KeptCtx(c, f, a, fin) BY <1>1 DEF NewCtx, KeptCtx
    <3> QED BY <3>1, OwnerStep
  <2>2. Taken(n) # 0 /\ ctx'[c].id = Taken(n) BY <1>1, NewIsAlloc DEF NewCtx
  <2>3. ctx'[c].pend \subseteq Lane
    <3>1. TypeOK' BY TypeOKStep
    <3> QED BY <3>1 DEF TypeOK
  <2>4. \A l \in Lane : got'[Taken(n)][l] = None
    <3>1. CASE Taken(n) = n BY <2>2, <3>1, GotStep
    <3>2. CASE Taken(n) = i
      <4>1. i \in 1 .. Len(op) /\ i \in 0 .. Len(op) BY <2>2, <3>2, InputFacts
      <4>2. wb(a).n # i
        <5>1. wb(a).n # 0 => \E d \in Cx : c_busy(d) /\ wb(a).n = ctx[d].id BY WbOwner
        <5> QED BY <4>1, <5>1 DEF IdsOk
      <4>3. \A l \in Lane : got'[i][l] = got[i][l] BY <4>1, <4>2, GotStep
      <4> QED BY <2>2, <3>2, <4>3 DEF IdsOk
    <3> QED BY <2>2, <3>1, <3>2, InputFacts
  <2> QED BY <2>1, <2>2, <2>3, <2>4
<1>2. CASE KeptCtx(c, f, a, fin)
  <2>0. /\ c_busy(c) /\ P(c)' = P(c) /\ ctx'[c].pend = ctx[c].pend \ c_sent(c, f, a) /\ ctx'[c].id = ctx[c].id
    BY <1>2 DEF KeptCtx
  <2>1. Global(c) /\ P(c).kind = "load" /\ ~P(c).scratch BY <1>b, <2>0 DEF Global
  <2>2. ctx[c].id \in 1 .. Len(op) /\ ctx[c].pend \subseteq Lane BY <2>0, BusyFacts DEF EngInv
  <2>3. ASSUME NEW l \in Lane, got[ctx[c].id][l] = None, got'[ctx[c].id][l] # None
        PROVE  ByTag(c, l, rt, a) \/ ByBypass(c, l, rt, f, a, g)
    <3>1. wb(a).n = ctx[c].id /\ l \in wb(a).lanes BY <2>2, <2>3, GotStep
    <3>2. ~ByRound(c, l, a) /\ ~ByScratch(c, l, a) BY <2>1 DEF ByRound, ByScratch
    <3> QED BY <2>0, <3>1, <3>2, WbOf
  <2>4. /\ \A l \in ctx[c].pend : got[ctx[c].id][l] = None
        /\ \A t \in Tg : tags[t].v /\ tags[t].c = c =>
                         \A l \in tags[t].mask : got[ctx[c].id][l] = None
        /\ \A t, u \in Tg : tags[t].v /\ tags[u].v /\ tags[t].c = c /\ tags[u].c = c /\ t # u
                                         => tags[t].mask \cap tags[u].mask = {}
    BY <2>1 DEF RegsOk, Has
  <2>5. \A t \in Tg : tags[t].v /\ tags[t].c = c =>
          tags[t].mask \cap ctx[c].pend = {} /\ tags[t].mask \subseteq Lane
    <3>1. ASSUME NEW t \in Tg, tags[t].v, tags[t].c = c PROVE tags[t].kind # "MK_AMORD"
      <4>1. TagOk(t) BY DEF EngInv, TagsOk
      <4> QED BY <2>1, <3>1, <4>1 DEF TagOk, Owns
    <3>2. \A t \in Tg : tags[t].mask \subseteq Lane BY DEF EngInv, TypeOK
    <3> QED BY <3>1, <3>2 DEF RequestsOk
  <2>6. f.c = c => f.mask \subseteq ctx[c].pend /\ c_sent(c, f, a) = f.mask
    <3>1. f.c = c => f.kind # "MK_AMORD" BY <2>1, SentFacts
    <3> QED BY <3>1, FireMask
  <2>7. ASSUME NEW l \in ctx'[c].pend PROVE got'[ctx[c].id][l] = None
    <3>1. l \in ctx[c].pend /\ l \in Lane /\ got[ctx[c].id][l] = None BY <2>0, <2>2, <2>4, <2>7
    <3>2. ~ByTag(c, l, rt, a) BY <2>5, <3>1 DEF ByTag
    <3>3. ~ByBypass(c, l, rt, f, a, g) BY <2>0, <2>6, <2>7 DEF ByBypass
    <3> QED BY <2>3, <3>1, <3>2, <3>3
  <2>8. ASSUME NEW t \in Tg, tags'[t].v, tags'[t].c = c
        PROVE  \/ tags'[t] = tags[t] /\ tags[t].v /\ tags[t].c = c /\ rt # t
               \/ f.tag = t /\ rt # t /\ ~a.byp /\ f.c = c /\ tags'[t].mask = f.mask
    <3>1. CASE tags'[t] = tags[t] /\ (tags[t].v => rt # t /\ f.tag # t) BY <2>8, <3>1
    <3>2. CASE /\ f.tag = t /\ rt # t /\ ~a.byp
               /\ tags'[t] = [v |-> TRUE, c |-> f.c, mask |-> f.mask, kind |-> f.kind]
      BY <2>8, <3>2
    <3> QED BY <2>8, <3>1, <3>2, TagOrigin
  <2>9. ASSUME NEW t \in Tg, tags'[t].v, tags'[t].c = c, NEW l \in tags'[t].mask
        PROVE  got'[ctx[c].id][l] = None
    <3>1. CASE tags'[t] = tags[t] /\ tags[t].v /\ tags[t].c = c /\ rt # t
      <4>1. l \in Lane /\ got[ctx[c].id][l] = None /\ l \notin ctx[c].pend BY <2>4, <2>5, <2>9, <3>1
      <4>2. ~ByTag(c, l, rt, a) BY <2>4, <2>9, <3>1 DEF ByTag
      <4>3. ~ByBypass(c, l, rt, f, a, g) BY <2>6, <4>1 DEF ByBypass
      <4> QED BY <2>3, <4>1, <4>2, <4>3
    <3>2. CASE f.tag = t /\ rt # t /\ ~a.byp /\ f.c = c /\ tags'[t].mask = f.mask
      <4>1. l \in Lane /\ got[ctx[c].id][l] = None /\ l \in ctx[c].pend BY <2>2, <2>4, <2>6, <2>9, <3>2
      <4>2. ~ByTag(c, l, rt, a) BY <2>5, <4>1 DEF ByTag
      <4>3. ~ByBypass(c, l, rt, f, a, g) BY <3>2 DEF ByBypass
      <4> QED BY <2>3, <4>1, <4>2, <4>3
    <3> QED BY <2>8, <2>9, <3>1, <3>2
  <2>10. ASSUME NEW t \in Tg, NEW u \in Tg, tags'[t].v, tags'[u].v, tags'[t].c = c, tags'[u].c = c, t # u
         PROVE  tags'[t].mask \cap tags'[u].mask = {}
    <3>1. \/ tags'[t] = tags[t] /\ tags[t].v /\ tags[t].c = c
          \/ f.tag = t /\ f.c = c /\ tags'[t].mask = f.mask
      BY <2>8, <2>10
    <3>2. \/ tags'[u] = tags[u] /\ tags[u].v /\ tags[u].c = c
          \/ f.tag = u /\ f.c = c /\ tags'[u].mask = f.mask
      BY <2>8, <2>10
    <3> QED BY <2>4, <2>5, <2>6, <2>10, <3>1, <3>2
  <2> QED BY <2>0, <2>7, <2>9, <2>10
<1> QED BY <1>0, <1>1, <1>2, CtxStep

(* Two words of a line at the same place in it are one.                    *)
LEMMA SameWord ==
  ASSUME NEW x \in 0 .. Words - 1, NEW y \in 0 .. Words - 1, LineOf(x) = LineOf(y), x % LW = y % LW
  PROVE  x = y
<1>1. LW \in Nat \ {0} /\ Words \in Nat BY SizeAssumption, EngineAssumption
<1>2. x \in Nat /\ y \in Nat BY <1>1
<1>3. x = LW * (x \div LW) + (x % LW) /\ y = LW * (y \div LW) + (y % LW) BY <1>1, <1>2, DivMod
<1>4. x \div LW = y \div LW BY DEF LineOf
<1> QED BY <1>3, <1>4

(* A word is at its place in its line.                                     *)
LEMMA WordPlace ==
  ASSUME NEW x \in 0 .. Words - 1
  PROVE  x % LW \in Off /\ LineOf(x) * LW + (x % LW) = x
<1>1. LW \in Nat \ {0} /\ Words \in Nat BY SizeAssumption, EngineAssumption
<1>2. x \in Nat BY <1>1
<1>3. x % LW \in 0 .. LW - 1 /\ x = LW * (x \div LW) + (x % LW) /\ x \div LW \in Nat BY <1>1, <1>2, DivMod
<1> DEFINE k == x \div LW
<1>4. LW * k = k * LW BY <1>1, <1>3
<1> QED BY <1>3, <1>4 DEF LineOf, Off

(* The line just read, before any lane of the round.                       *)
LEMMA GoodStart ==
  ASSUME NEW p, NEW r, NEW b, NEW m, NEW n, NEW M, b.line = [w \in Off |-> m[n * LW + w]]
  PROVE  Good(p, r, b, m, n, M, {})
<1>1. After(p, {}, m) = m
  <2>1. NL \in 0 .. NL BY SizeAssumption
  <2> QED BY <2>1, FoundLoad DEF After
<1>2. ASSUME NEW x \in 0 .. Words - 1, LineOf(x) = n PROVE b.line[x % LW] = m[x]
  <2>1. x % LW \in Off /\ n * LW + (x % LW) = x BY <1>2, WordPlace
  <2> QED BY <2>1
<1> QED BY <1>1, <1>2 DEF Good

(* The lanes A of a round are applied after the lanes D.                   *)
LEMMA GoodNext ==
  ASSUME NEW p \in Op, ~p.scratch, p.kind = "amo", NEW m \in [0 .. Words - 1 -> Val],
         NEW r, NEW s, NEW b, NEW e, NEW n, NEW M \in SUBSET Lane, NEW D \in SUBSET M, NEW A \in SUBSET (M \ D),
         \A l \in M : LineOf(p.addr[l]) = n,
         \A l \in A, j \in M \ D : p.addr[l] = p.addr[j] => l <= j,
         \A l \in A : e.line[p.addr[l] % LW] = amo_alu(p.fn, b.line[p.addr[l] % LW], p.data[l]),
         \A w \in Off : (\A l \in A : p.addr[l] % LW # w) => e.line[w] = b.line[w],
         \A l \in D : p.addr[l] % LW \in b.touch => p.addr[l] % LW \in e.touch,
         \A l \in A : p.addr[l] % LW \in e.touch,
         Returns(p) => \A l \in D : s[l] = r[l],
         Returns(p) => \A l \in A : s[l] = b.line[p.addr[l] % LW],
         Good(p, r, b, m, n, M, D)
  PROVE  Good(p, s, e, m, n, M, D \cup A)
<1> DEFINE T == D \cup A
           X == 0 .. Words - 1
           F(x, l) == Found(p, D, m)[l][x]
           H(x, l) == Found(p, T, m)[l][x]
<1>0. NL \in Nat /\ NL \in 0 .. NL BY SizeAssumption
<1>1. /\ \A l \in Lane : p.addr[l] \in X /\ At(p, l) = p.addr[l] /\ l \in 0 .. NL /\ l - 1 \in 0 .. NL
      /\ D \in SUBSET Lane /\ T \in SUBSET Lane /\ Fits(p, D, X, m) /\ Fits(p, T, X, m)
  BY <1>0 DEF Op, At, Lane, Fits
<1>2. \A l \in D, j \in M \ D : p.addr[l] = p.addr[j] => l < j BY DEF Good
<1>3. \A x \in X : LineOf(x) = n => b.line[x % LW] = F(x, NL) BY DEF Good, After
<1>4. ASSUME NEW l \in A PROVE H(p.addr[l], l - 1) = b.line[p.addr[l] % LW]
  <2> DEFINE x == p.addr[l]
  <2>0. l \in Lane /\ l \in M /\ x \in X /\ LineOf(x) = n BY <1>1
  <2>1. H(x, l - 1) = F(x, l - 1)
    <3>1. ASSUME NEW j \in Lane, j <= l - 1, At(p, j) = x PROVE j \in T <=> j \in D
      <4>1. j \in A => l <= j BY <1>1, <3>1
      <4>2. ~(l <= j) BY <2>0, <3>1 DEF Lane
      <4> QED BY <4>1, <4>2
    <3> HIDE DEF T, X, x
    <3> QED BY <1>1, <2>0, <3>1, Agree
  <2>2. F(x, NL) = F(x, l - 1)
    <3>1. ASSUME NEW j \in D, l - 1 < j PROVE At(p, j) # x
      <4>1. p.addr[j] = x => j < l BY <1>2, <2>0
      <4>2. ~(j < l) /\ j \in Lane BY <1>1, <2>0, <3>1 DEF Lane
      <4> QED BY <1>1, <4>1, <4>2
    <3>3. l - 1 <= NL BY <1>0, <2>0 DEF Lane
    <3> HIDE DEF X, x
    <3>4. Spares(p, D, l - 1, NL, x) BY <3>1 DEF Spares
    <3> QED BY <1>0, <1>1, <2>0, <3>3, <3>4, Untouched
  <2>3. b.line[x % LW] = F(x, NL) BY <1>3, <2>0
  <2> QED BY <2>1, <2>2, <2>3
<1>5. ASSUME NEW x \in X, LineOf(x) = n PROVE e.line[x % LW] = H(x, NL)
  <2>1. CASE \E l \in A : p.addr[l] = x
    <3>1. PICK l \in A : p.addr[l] = x BY <2>1
    <3>2. l \in Lane /\ l \in T /\ l \in M BY <1>1
    <3>3. H(x, NL) = H(x, l)
      <4>1. ASSUME NEW j \in T, l < j PROVE At(p, j) # x
        <5>1. j \in D /\ p.addr[j] = x => j < l BY <1>2, <3>1
        <5>2. j \in A /\ p.addr[j] = x => j <= l BY <3>1
        <5>3. ~(j < l) /\ ~(j <= l) /\ j \in Lane BY <1>1, <3>2, <4>1 DEF Lane
        <5> QED BY <1>1, <5>1, <5>2, <5>3
      <4>3. l <= NL BY <1>0, <3>2 DEF Lane
      <4> HIDE DEF X, T
      <4>4. Spares(p, T, l, NL, x) BY <4>1 DEF Spares
      <4> QED BY <1>0, <1>1, <1>5, <3>2, <4>3, <4>4, Untouched
    <3>4. H(x, l) = amo_alu(p.fn, H(x, l - 1), p.data[l])
      <4>2. At(p, l) = x BY <1>1, <3>1, <3>2
      <4>3. p.kind # "load" /\ p.kind # "store" OBVIOUS
      <4> HIDE DEF X, T
      <4>4. H(At(p, l), l) = amo_alu(p.fn, H(At(p, l), l - 1), p.data[l])
        BY <1>1, <3>2, <4>3, FoundHit
      <4> QED BY <4>2, <4>4
    <3>5. H(x, l - 1) = b.line[x % LW] BY <1>4, <3>1
    <3> HIDE DEF H
    <3> QED BY <3>1, <3>3, <3>4, <3>5
  <2>2. CASE \A l \in A : p.addr[l] # x
    <3>1. ASSUME NEW l \in A PROVE p.addr[l] % LW # x % LW
      <4>1. p.addr[l] \in X /\ LineOf(p.addr[l]) = LineOf(x) BY <1>1, <1>5
      <4> QED BY <2>2, <4>1, SameWord
    <3>2. x % LW \in Off BY WordPlace
    <3>3. e.line[x % LW] = b.line[x % LW] BY <3>1, <3>2
    <3>4. F(x, NL) = H(x, NL)
      <4>1. \A j \in Lane : j <= NL /\ At(p, j) = x => (j \in D <=> j \in T) BY <1>1, <2>2
      <4> HIDE DEF X, T
      <4> QED BY <1>0, <1>1, <1>5, <4>1, Agree
    <3> HIDE DEF F, H
    <3> QED BY <1>3, <1>5, <3>3, <3>4
  <2> QED BY <2>1, <2>2
<1>6. ASSUME NEW l \in D, Returns(p) PROVE s[l] = H(p.addr[l], l - 1)
  <2> DEFINE x == p.addr[l]
  <2>0. l \in Lane /\ x \in X BY <1>1
  <2>1. F(x, l - 1) = H(x, l - 1)
    <3>1. ASSUME NEW j \in Lane, j <= l - 1, At(p, j) = x PROVE j \in D <=> j \in T
      <4>1. j \in A => l < j BY <1>1, <1>2, <3>1
      <4>2. ~(l < j) BY <2>0, <3>1 DEF Lane
      <4> QED BY <4>1, <4>2
    <3> HIDE DEF T, X, x
    <3> QED BY <1>1, <2>0, <3>1, Agree
  <2>2. r[l] = F(x, l - 1)
    <3>1. r[l] = Result(p, l, D, m) /\ At(p, l) = x BY <1>1, <1>6 DEF Good
    <3> QED BY <3>1 DEF Result
  <2> HIDE DEF F, H
  <2> QED BY <1>6, <2>1, <2>2
<1>7. ASSUME NEW l \in T
      PROVE  p.addr[l] % LW \in e.touch /\ (Returns(p) => s[l] = Result(p, l, T, m))
  <2>1. p.addr[l] % LW \in e.touch BY DEF Good
  <2>2. Result(p, l, T, m) = H(p.addr[l], l - 1)
    <3>1. At(p, l) = p.addr[l] BY <1>1
    <3> QED BY <3>1 DEF Result
  <2>3. Returns(p) => s[l] = H(p.addr[l], l - 1)
    <3> HIDE DEF H
    <3> QED BY <1>4, <1>6
  <2> QED BY <2>1, <2>2, <2>3
<1>8. ASSUME NEW l \in T, NEW j \in M \ T, p.addr[l] = p.addr[j] PROVE l < j
  <2>1. l \in Lane /\ j \in Lane /\ l # j BY <1>1
  <2>2. l \in D => l < j BY <1>2, <1>8
  <2>3. l \in A => l <= j BY <1>8
  <2> QED BY <2>1, <2>2, <2>3 DEF Lane
<1>9. \A x \in X : LineOf(x) = n => e.line[x % LW] = After(p, T, m)[x] BY <1>5 DEF After
<1> HIDE DEF T
<1> QED BY <1>7, <1>8, <1>9 DEF Good, T

(* The lanes S of p are on line n.                                        *)
OnLine(p, S, n) == \A l \in S : LineOf(p.addr[l]) = n
(* The word x that a write leaves in memory m: of an AMO, the buffer b's   *)
(* if the line n is written there; of stores, the last lane's.             *)
AmoWord(b, m, n, x)   == IF LineOf(x) = n /\ (x % LW) \in b.touch THEN b.line[x % LW] ELSE m[x]
StoreWord(p, S, m, x) == LET hit == {l \in S : p.addr[l] = x}
                         IN  IF hit # {} THEN p.data[Max(hit)] ELSE m[x]

(* The round that is complete leaves the memory its lanes leave.           *)
LEMMA GoodStored ==
  ASSUME NEW p \in Op, ~p.scratch, p.kind = "amo", NEW m \in [0 .. Words - 1 -> Val], NEW r, NEW b, NEW n,
         NEW M \in SUBSET Lane, OnLine(p, M, n), Good(p, r, b, m, n, M, M),
         NEW x \in 0 .. Words - 1
  PROVE  AmoWord(b, m, n, x) = After(p, M, m)[x]
<1>1. CASE LineOf(x) = n /\ x % LW \in b.touch BY <1>1 DEF Good, AmoWord
<1>2. CASE ~(LineOf(x) = n /\ x % LW \in b.touch)
  <2>0. 0 \in 0 .. NL /\ NL \in 0 .. NL /\ 0 <= NL BY SizeAssumption
  <2>1. \A l \in M : At(p, l) = p.addr[l] /\ p.addr[l] \in 0 .. Words - 1 BY DEF At, Op
  <2>2. ASSUME NEW l \in M PROVE At(p, l) # x BY <1>2, <2>1 DEF Good, OnLine
  <2>3. Found(p, M, m)[NL][x] = Found(p, M, m)[0][x]
    <3> DEFINE X == 0 .. Words - 1
    <3>1. Fits(p, M, X, m) /\ x \in X BY <2>1 DEF Fits
    <3> HIDE DEF X
    <3>2. Spares(p, M, 0, NL, x) BY <2>2 DEF Spares
    <3> QED BY <2>0, <3>1, <3>2, Untouched
  <2>4. Found(p, M, m)[0] = m BY FoundFirst
  <2> QED BY <1>2, <2>3, <2>4 DEF After, AmoWord
<1> QED BY <1>1, <1>2

(* Whose AMO read an answer completes.                                     *)
LEMMA AmoOwner ==
  ASSUME EngInv, NEW n, NEW gnt, NEW rt, NEW f, NEW a, NEW g, NEW fin, Ticks(n, gnt, rt, f, a, g, fin),
         a.kind = "MK_AMORD"
  PROVE  /\ a.c \in Cx
         /\ \/ a.c \in Locked /\ ctx[a.c].ph = "AP_WAIT"
            \/ Locked = {} /\ f # NoReq /\ f.kind = "MK_AMORD"
<1>1. a.c \in Cx
  <2>1. CASE rt = 0 /\ a = NoAnswer BY <2>1, NoAnswerFacts
  <2>2. CASE /\ rt \in Tg /\ tags[rt].v
             /\ a = [c |-> tags[rt].c, mask |-> tags[rt].mask, kind |-> tags[rt].kind, byp |-> FALSE,
                     data |-> resp[rt]]
    <3>1. TagOk(rt) BY <2>2 DEF EngInv, TagsOk
    <3> QED BY <2>2, <3>1 DEF TagOk
  <2>3. CASE /\ f # NoReq
             /\ a = [c |-> f.c, mask |-> f.mask, kind |-> f.kind, byp |-> TRUE, data |-> ReadLine(f.line)]
    <3>1. f.c \in Cx BY <2>3, FireFacts
    <3> QED BY <2>3, <3>1
  <2> QED BY <2>1, <2>2, <2>3, AnswerFacts
<1>2. PICK c \in Cx : c = a.c BY <1>1
<1>3. \/ c_locked(c) /\ ctx[c].ph = "AP_WAIT"
      \/ Locked = {} /\ f # NoReq /\ f.kind = "MK_AMORD"
  BY <1>2, AmoAnswer
<1>4. c_locked(c) => c \in Locked BY DEF Locked
<1> QED BY <1>2, <1>3, <1>4

(* With no AMO in its round, the line buffer changes only by a read.       *)
LEMMA BufferKept ==
  ASSUME NEW n, NEW gnt, NEW rt, NEW f, NEW a, NEW g, NEW fin, Ticks(n, gnt, rt, f, a, g, fin),
         a.kind # "MK_AMORD", ~a_act
  PROVE  am' = am
BY DEF Ticks, LineBuffer, a_step

(* The registers of an AMO are written in its rounds and nowhere else.     *)
LEMMA AmoRegs ==
  ASSUME EngInv, IdsOk, NEW n, NEW gnt, NEW rt, NEW f, NEW a, NEW g, NEW fin,
         Ticks(n, gnt, rt, f, a, g, fin),
         NEW c \in Cx, c_busy(c), P(c).kind = "amo", ~P(c).scratch, NEW l \in Lane
  PROVE  got'[ctx[c].id][l] =
           IF wb(a).n = ctx[c].id /\ l \in wb(a).lanes THEN am.line[P(c).addr[l] % LW] ELSE got[ctx[c].id][l]
<1>0. ctx[c].id \in 1 .. Len(op) BY DEF EngInv, CtxOk
<1>1. got'[ctx[c].id][l] = IF wb(a).n = ctx[c].id /\ l \in wb(a).lanes
                           THEN wb(a).data[l] ELSE got[ctx[c].id][l]
  BY <1>0, GotStep
<1>2. ASSUME wb(a).n = ctx[c].id, l \in wb(a).lanes PROVE wb(a).data[l] = am.line[P(c).addr[l] % LW]
  <2>1. ~ByTag(c, l, rt, a) /\ ~ByBypass(c, l, rt, f, a, g) /\ ~ByScratch(c, l, a)
    BY DEF ByTag, ByBypass, ByScratch
  <2>2. ByRound(c, l, a) BY <1>2, <2>1, WbOf
  <2> QED BY <2>2 DEF ByRound, a_off
<1> QED BY <1>1, <1>2

LEMMA AmoRegsKept ==
  ASSUME EngInv, IdsOk, NEW n, NEW gnt, NEW rt, NEW f, NEW a, NEW g, NEW fin,
         Ticks(n, gnt, rt, f, a, g, fin),
         NEW c \in Cx, c_busy(c), P(c).kind = "amo", ~P(c).scratch, NEW l \in Lane,
         ~(c \in Locked /\ lock_c = c /\ ctx[c].ph = "AP_AGG" /\ l \in a_rnd)
  PROVE  got'[ctx[c].id][l] = got[ctx[c].id][l]
<1>0. ctx[c].id \in 1 .. Len(op) BY DEF EngInv, CtxOk
<1>1. got'[ctx[c].id][l] = IF wb(a).n = ctx[c].id /\ l \in wb(a).lanes
                           THEN wb(a).data[l] ELSE got[ctx[c].id][l]
  BY <1>0, GotStep
<1>2. ASSUME wb(a).n = ctx[c].id, l \in wb(a).lanes PROVE FALSE
  <2>1. ~ByTag(c, l, rt, a) /\ ~ByBypass(c, l, rt, f, a, g) /\ ~ByScratch(c, l, a) /\ ~ByRound(c, l, a)
    BY DEF ByTag, ByBypass, ByScratch, ByRound
  <2> QED BY <1>2, <2>1, WbOf
<1> QED BY <1>1, <1>2

(* A round goes on as it was when line, memory and its registers do.       *)
LEMMA GoodKept ==
  ASSUME NEW p, NEW r, NEW s, NEW b, NEW m, NEW n, NEW M, NEW D,
         \A l \in D : s[l] = r[l], Good(p, r, b, m, n, M, D)
  PROVE  Good(p, s, b, m, n, M, D)
BY DEF Good

(* Rounds of AMOs stay in lane order.                                      *)
LEMMA RoundGoesOn ==
  ASSUME EngInv, IdsOk, RoundsOk, NEW n, NEW gnt, NEW rt, NEW f, NEW a, NEW g, NEW fin,
         Ticks(n, gnt, rt, f, a, g, fin), NEW c \in Cx, ctx'[c].ph \in {"AP_AGG", "AP_WR"}
  PROVE  /\ ctx'[c].ph = "AP_AGG" => am'.left \subseteq mreq_mask(c)
         /\ Good(P(c), got'[ctx[c].id], am', mem', LeadLine(c), mreq_mask(c),
                 IF ctx'[c].ph = "AP_AGG" THEN mreq_mask(c) \ am'.left ELSE mreq_mask(c))
<1> DEFINE M == mreq_mask(c)
           k == ctx[c].id
           L == LeadLine(c)
<1>1. /\ c_busy(c) /\ P(c).kind = "amo" /\ ~P(c).scratch /\ ctx[c].pend # {} BY LockStep
<1>2. P(c) \in Op /\ k \in 1 .. Len(op) /\ ctx[c].pend \subseteq Lane BY <1>1, BusyFacts DEF EngInv
<1>3. M \subseteq ctx[c].pend /\ \A l \in M : LineOf(P(c).addr[l]) = L
  <2>1. c_lead(c) \in ctx[c].pend /\ M \subseteq ctx[c].pend BY <1>1, LeadFacts DEF EngInv
  <2>2. \A l \in M : LineOf(P(c).addr[l]) = L BY DEF mreq_mask, c_grp, LeadLine
  <2> QED BY <2>1, <2>2
<1>4. mem \in [0 .. Words - 1 -> Val] BY DEF EngInv, TypeOK
<1>r. /\ mem' = mem
      /\ \/ /\ ctx'[c].ph = "AP_AGG" /\ a.kind = "MK_AMORD" /\ a.mask = mreq_mask(c)
            /\ am' = [line |-> a.data, left |-> a.mask, touch |-> {}]
            /\ a.data = ReadLine(LineOf(P(c).addr[c_lead(c)]))
         \/ /\ c \in Locked /\ f.c # c /\ lock_c = c /\ ctx[c].ph = "AP_AGG" /\ a_step(a)
            /\ a_act /\ (ctx'[c].ph = "AP_WR" <=> am.left \ a_rnd = {})
            /\ am' = [line |-> [w \in Off |-> IF w \in a_whit THEN a_wnew(w) ELSE am.line[w]],
                      left |-> am.left \ a_rnd, touch |-> am.touch \cup a_whit]
         \/ c \in Locked /\ f.c # c /\ am' = am /\ ctx'[c].ph = ctx[c].ph
  BY RoundStep
<1>5. CASE /\ ctx'[c].ph = "AP_AGG" /\ a.mask = mreq_mask(c)
           /\ am' = [line |-> a.data, left |-> a.mask, touch |-> {}]
           /\ a.data = ReadLine(LineOf(P(c).addr[c_lead(c)]))
  <2>1. am'.left = M /\ am'.line = [w \in Off |-> mem[L * LW + w]] BY <1>5 DEF ReadLine, LeadLine
  <2> HIDE DEF M, L, k
  <2>2. Good(P(c), got'[k], am', mem, L, M, {}) BY <2>1, GoodStart
  <2>3. M \ am'.left = {} BY <2>1
  <2> QED BY <1>r, <1>5, <2>1, <2>2, <2>3 DEF M, L, k
<1>6. CASE /\ c \in Locked /\ f.c # c /\ lock_c = c /\ ctx[c].ph = "AP_AGG" /\ a_step(a)
           /\ a_act /\ (ctx'[c].ph = "AP_WR" <=> am.left \ a_rnd = {})
           /\ am' = [line |-> [w \in Off |-> IF w \in a_whit THEN a_wnew(w) ELSE am.line[w]],
                     left |-> am.left \ a_rnd, touch |-> am.touch \cup a_whit]
  <2> DEFINE D == M \ am.left
             A == a_rnd
             off(l) == P(c).addr[l] % LW
  <2>1. am.left \subseteq M /\ Good(P(c), got[k], am, mem, L, M, D) BY <1>6 DEF RoundsOk, Round
  <2>2. /\ a_rnd \subseteq am.left /\ a_rnd \subseteq Lane /\ a_whit \subseteq Off
        /\ \A l \in Lane : a_off(l) = off(l) /\ off(l) \in Off
    BY <1>6, RoundFacts DEF a_off
  <2>3. ASSUME NEW l \in A, NEW j \in am.left, off(l) = off(j) PROVE l <= j
    <3>1. l \in Lane /\ j \in Lane /\ l \in am.left BY <1>2, <1>3, <2>1, <2>2
    <3>2. CASE conf.APAR
      <4>1. ~(j < l) BY <2>2, <2>3, <3>1, <3>2 DEF a_rnd
      <4> QED BY <3>1, <4>1 DEF Lane
    <3>3. CASE ~conf.APAR
      <4>1. l = Min(am.left) BY <3>3 DEF a_rnd
      <4>2. am.left \in SUBSET Nat /\ am.left # {} BY <1>2, <1>3, <2>1 DEF Lane
      <4> QED BY <4>1, <4>2, Least
    <3> QED BY <3>2, <3>3
  <2>4. M \ D = am.left BY <2>1
  <2>5. ASSUME NEW l \in A, NEW j \in M \ D, P(c).addr[l] = P(c).addr[j] PROVE l <= j
    BY <2>3, <2>4, <2>5
  <2>6. ASSUME NEW l \in A
        PROVE  am'.line[off(l)] = amo_alu(P(c).fn, am.line[off(l)], P(c).data[l]) /\ off(l) \in a_whit
    <3>1. a_off(l) = off(l) /\ off(l) \in a_whit /\ off(l) \in Off BY <2>2 DEF a_whit
    <3>2. am'.line[off(l)] = a_wnew(off(l)) BY <1>6, <3>1
    <3> DEFINE j == CHOOSE j \in a_rnd : a_off(j) = off(l)
    <3>3. j \in a_rnd /\ a_off(j) = off(l) BY <3>1
    <3>4. a_wnew(off(l)) = amo_alu(P(c).fn, am.line[off(l)], P(c).data[j]) BY <1>6 DEF a_wnew
    <3> HIDE DEF j
    <3>5. j \in Lane /\ l \in Lane /\ off(j) = off(l) BY <2>2, <3>3
    <3>6. l <= j /\ j <= l BY <2>2, <2>3, <3>3, <3>5
    <3>7. j = l BY <3>5, <3>6 DEF Lane
    <3> QED BY <3>1, <3>2, <3>4, <3>7
  <2>7. ASSUME NEW w \in Off, \A l \in A : off(l) # w PROVE am'.line[w] = am.line[w]
    <3>1. w \notin a_whit BY <2>2, <2>7 DEF a_whit
    <3> QED BY <1>6, <3>1
  <2>8. am'.touch = am.touch \cup a_whit /\ am'.left = am.left \ a_rnd BY <1>6
  <2>9. ASSUME NEW l \in D PROVE got'[k][l] = got[k][l]
    <3>1. l \in Lane /\ l \notin a_rnd BY <1>2, <1>3, <2>2
    <3> QED BY <1>1, <3>1, AmoRegsKept
  <2>10. ASSUME Returns(P(c)), NEW l \in A PROVE got'[k][l] = am.line[off(l)]
    <3>1. a_wb BY <1>6, <2>10 DEF a_wb, Returns
    <3>2. wb(a).n = ctx[lock_c].id /\ wb(a).lanes = a_rnd BY <1>6, <3>1, WbFacts
    <3>3. wb(a).n = k /\ l \in wb(a).lanes /\ l \in Lane BY <1>6, <2>2, <3>2
    <3> QED BY <1>1, <3>3, AmoRegs
  <2>11. M \in SUBSET Lane /\ D \in SUBSET M /\ A \in SUBSET (M \ D) BY <1>2, <1>3, <2>2, <2>4
  <2>12. \A l \in A : off(l) \in am'.touch BY <2>6, <2>8
  <2>13. \A l \in D : off(l) \in am.touch => off(l) \in am'.touch BY <2>8
  <2>14. Good(P(c), got'[k], am', mem, L, M, D \cup A)
    <3> HIDE DEF M, D, A, L, k
    <3> QED BY <1>1, <1>2, <1>3, <1>4, <2>1, <2>5, <2>6, <2>7, <2>9, <2>10, <2>11, <2>12, <2>13, GoodNext
  <2>15. D \cup A = M \ am'.left BY <2>1, <2>2, <2>8
  <2>16. ctx'[c].ph # "AP_AGG" => D \cup A = M BY <1>6, <2>8, <2>15
  <2>17. am'.left \subseteq M BY <2>1, <2>8
  <2> HIDE DEF D, A
  <2> QED BY <1>r, <2>14, <2>15, <2>16, <2>17
<1>7. CASE c \in Locked /\ f.c # c /\ am' = am /\ ctx'[c].ph = ctx[c].ph
  <2> DEFINE D == IF ctx[c].ph = "AP_AGG" THEN M \ am.left ELSE M
  <2>1. /\ ctx[c].ph = "AP_AGG" => am.left \subseteq M
        /\ Good(P(c), got[k], am, mem, L, M, D)
    BY <1>7 DEF RoundsOk, Round
  <2>2. ASSUME NEW l \in D PROVE got'[k][l] = got[k][l]
    <3>1. l \in Lane BY <1>2, <1>3
    <3>2. ~(lock_c = c /\ ctx[c].ph = "AP_AGG" /\ l \in a_rnd)
      <4>1. ASSUME ctx[c].ph = "AP_AGG", lock_c = c PROVE a_rnd \subseteq am.left
        <5>1. a_act BY <1>7, <4>1 DEF a_act
        <5> QED BY <5>1, RoundFacts
      <4> QED BY <2>2, <4>1
    <3> QED BY <1>1, <3>1, <3>2, AmoRegsKept
  <2>3. Good(P(c), got'[k], am, mem, L, M, D)
    <3> HIDE DEF M, D, L, k
    <3> QED BY <2>1, <2>2, GoodKept
  <2> QED BY <1>r, <1>7, <2>1, <2>3
<1> QED BY <1>r, <1>5, <1>6, <1>7

(* A write of an AMO that waits for its grant keeps what the round left.   *)
LEMMA WriteWaits ==
  ASSUME EngInv, IdsOk, RequestsOk, RoundsOk, NEW n, NEW gnt, NEW rt, NEW f, NEW a, NEW g, NEW fin,
         Ticks(n, gnt, rt, f, a, g, fin), StageOk',
         NEW c \in Cx, o'.c = c, o'.kind = "MK_WRITE", P(c)'.kind = "amo"
  PROVE  Good(P(c)', got'[ctx'[c].id], am', mem', o'.line, o'.mask, o'.mask)
<1>0. /\ o' = (IF conf.BYP THEN NoReq ELSE IF f # NoReq THEN f ELSE IF gnt THEN NoReq ELSE o)
      /\ g = (IF gnt THEN q ELSE NoReq)
  BY DEF Ticks, RequestStage
<1>1. o' # NoReq /\ ~conf.BYP BY <1>0 DEF NoReq, Cx
<1>2. KeptCtx(c, f, a, fin)
  <2>1. /\ o'.tag \in Tg
        /\ tags'[o'.tag] = [v |-> TRUE, c |-> o'.c, mask |-> o'.mask, kind |-> o'.kind]
    BY <1>1 DEF StageOk
  <2>2. PICK t \in Tg : t = o'.tag BY <2>1
  <2> QED BY <2>1, <2>2, OwnerStep
<1>3. c_busy(c) /\ P(c)' = P(c) /\ ctx'[c].id = ctx[c].id /\ P(c).kind = "amo" BY <1>2 DEF KeptCtx
<1>4. CASE o' = f /\ f # NoReq
  <2>1. f.c = c /\ f.kind = "MK_WRITE" BY <1>4
  <2>2. /\ Global(c) /\ ctx[c].ph = "AP_WR" /\ ctx[c].pend # {} /\ f.mask = mreq_mask(c)
        /\ f.line = LineOf(P(c).addr[c_lead(c)])
    BY <1>3, <2>1, SentFacts
  <2>3. ~P(c).scratch /\ c \in Locked BY <1>3, <2>2 DEF Global, Locked, c_locked
  <2>4. lock_c = c BY <2>3, TheLock DEF EngInv
  <2>5. am' = am
    <3>1. a.kind # "MK_AMORD"
      <4>1. ASSUME a.kind = "MK_AMORD" PROVE FALSE
        <5>1. a.c \in Locked /\ ctx[a.c].ph = "AP_WAIT" BY <2>1, <4>1, AmoOwner
        <5>2. a.c = c BY <2>3, <5>1 DEF EngInv, OneLock
        <5> QED BY <2>2, <5>1, <5>2
      <4> QED BY <4>1
    <3>2. ~a_act BY <2>2, <2>4 DEF a_act
    <3> QED BY <3>1, <3>2, BufferKept
  <2>6. mem' = mem
    <3>1. g = NoReq \/ (g = o /\ o # NoReq) BY <1>0, <1>1 DEF q
    <3>2. o # NoReq => o.kind = "MK_AMORD" BY <2>3 DEF EngInv, StageOk
    <3>3. g.kind # "MK_WRITE" BY <3>1, <3>2 DEF NoReq
    <3> QED BY <3>3 DEF Ticks, Memory
  <2>7. f.mask \subseteq Lane
    <3>1. ctx[c].pend \subseteq Lane BY DEF EngInv, TypeOK
    <3> QED BY <2>1, <3>1, FireMask
  <2>8. \A l \in f.mask : got'[ctx[c].id][l] = got[ctx[c].id][l] BY <1>3, <2>2, <2>3, <2>7, AmoRegsKept
  <2>9. Good(P(c), got[ctx[c].id], am, mem, f.line, f.mask, f.mask)
    BY <2>2 DEF RoundsOk, Round, LeadLine
  <2>10. Good(P(c), got'[ctx[c].id], am, mem, f.line, f.mask, f.mask) BY <2>8, <2>9, GoodKept
  <2> QED BY <1>3, <1>4, <2>5, <2>6, <2>10
<1>5. CASE o' = o /\ f = NoReq /\ ~gnt
  <2>1. o # NoReq /\ o.c = c /\ o.kind = "MK_WRITE" BY <1>1, <1>5
  <2>2. Locked = {} BY <2>1 DEF EngInv, StageOk
  <2>3. am' = am
    <3>1. a.kind # "MK_AMORD"
      <4>1. ASSUME a.kind = "MK_AMORD" PROVE FALSE BY <1>5, <2>2, <4>1, AmoOwner
      <4> QED BY <4>1
    <3> QED BY <2>2, <3>1, BufferKept DEF a_act
  <2>4. mem' = mem BY <1>0, <1>5 DEF Ticks, Memory, NoReq
  <2>5. ~P(c).scratch /\ o.mask \subseteq Lane
    <3>1. /\ o.tag \in Tg /\ tags[o.tag].v /\ tags[o.tag].c = c BY <2>1 DEF EngInv, StageOk
    <3>2. PICK t \in Tg : t = o.tag BY <3>1
    <3>3. TagOk(t) BY DEF EngInv, TagsOk
    <3> QED BY <3>1, <3>2, <3>3 DEF TagOk, Owns, Global, EngInv, TypeOK
  <2>6. \A l \in o.mask : got'[ctx[c].id][l] = got[ctx[c].id][l] BY <1>3, <2>2, <2>5, AmoRegsKept
  <2>7. Good(P(c), got[ctx[c].id], am, mem, o.line, o.mask, o.mask) BY <1>3, <2>1 DEF RoundsOk, Round
  <2>8. Good(P(c), got'[ctx[c].id], am, mem, o.line, o.mask, o.mask) BY <2>6, <2>7, GoodKept
  <2> QED BY <1>3, <1>5, <2>3, <2>4, <2>8
<1> QED BY <1>0, <1>1, <1>4, <1>5

LEMMA RoundsStep ==
  ASSUME EngInv, IdsOk, RequestsOk, RoundsOk, NEW n, NEW gnt, NEW rt, NEW f, NEW a, NEW g, NEW fin,
         Ticks(n, gnt, rt, f, a, g, fin), StageOk'
  PROVE  RoundsOk'
<1>1. ASSUME NEW c \in Cx, ctx'[c].ph \in {"AP_AGG", "AP_WR"}
      PROVE  /\ ctx'[c].ph = "AP_AGG" =>
                  /\ am'.left \subseteq mreq_mask(c)'
                  /\ Round(c, LeadLine(c), mreq_mask(c), mreq_mask(c) \ am.left)'
             /\ ctx'[c].ph = "AP_WR" => Round(c, LeadLine(c), mreq_mask(c), mreq_mask(c))'
  <2>1. P(c)' = P(c) /\ ctx'[c].id = ctx[c].id /\ mreq_mask(c)' = mreq_mask(c) /\ c_lead(c)' = c_lead(c)
    BY <1>1, LockStep
  <2>2. LeadLine(c)' = LeadLine(c) BY <2>1 DEF LeadLine, LineOf
  <2>3. /\ ctx'[c].ph = "AP_AGG" => am'.left \subseteq mreq_mask(c)
        /\ Good(P(c), got'[ctx[c].id], am', mem', LeadLine(c), mreq_mask(c),
                IF ctx'[c].ph = "AP_AGG" THEN mreq_mask(c) \ am'.left ELSE mreq_mask(c))
    BY <1>1, RoundGoesOn
  <2>4. ctx'[c].ph = "AP_AGG" => Round(c, LeadLine(c), mreq_mask(c), mreq_mask(c) \ am.left)'
    BY <2>1, <2>2, <2>3 DEF Round
  <2>5. ctx'[c].ph = "AP_WR" => Round(c, LeadLine(c), mreq_mask(c), mreq_mask(c))'
    BY <2>1, <2>2, <2>3 DEF Round
  <2> QED BY <2>1, <2>3, <2>4, <2>5
<1>2. ASSUME NEW c \in Cx, o'.c = c, o'.kind = "MK_WRITE", P(c)'.kind = "amo"
      PROVE  Round(c, o.line, o.mask, o.mask)'
  BY <1>2, WriteWaits DEF Round
<1> QED BY <1>1, <1>2 DEF RoundsOk

(* At the start nothing is held.                                           *)
LEMMA AtomInit == ASSUME Init PROVE AtomInv
<1>1. EngInv BY EngInit
<1>2. /\ i = 0 /\ rs = 0 /\ resumed = {} /\ o = NoReq
      /\ \A c \in Cx : ctx[c] = FreeCtx /\ ~c_busy(c)
      /\ \A t \in Tg : tags[t] = FreeTag
  BY DEF Init, c_busy, FreeCtx
<1>3. IdsOk BY <1>2 DEF IdsOk
<1>4. RequestsOk BY <1>2 DEF RequestsOk, FreeTag
<1>5. RegsOk BY <1>2 DEF RegsOk, Global
<1>6. RoundsOk BY <1>2 DEF RoundsOk, FreeCtx, NoReq, Cx
<1> QED BY <1>1, <1>3, <1>4, <1>5, <1>6 DEF AtomInv

(* Every step keeps the invariant of the refinement.                       *)
LEMMA AtomStep == ASSUME AtomInv, [Next]_vars PROVE AtomInv'
<1>0. EngInv /\ IdsOk /\ RequestsOk /\ RegsOk /\ RoundsOk BY DEF AtomInv
<1>1. EngInv' BY <1>0, EngStep
<1>2. CASE Next
  <2>1. PICK n, gnt, rt, f, a, g, fin : Ticks(n, gnt, rt, f, a, g, fin) BY <1>2, StepTicks
  <2>2. StageOk' BY <1>1 DEF EngInv
  <2>3. IdsOk' BY <1>0, <2>1, IdsStep
  <2>4. RequestsOk' BY <1>0, <2>1, <2>2, RequestsStep
  <2>5. RegsOk' BY <1>0, <2>1, RegsStep
  <2>6. RoundsOk' BY <1>0, <2>1, <2>2, RoundsStep
  <2> QED BY <1>1, <2>3, <2>4, <2>5, <2>6 DEF AtomInv
<1>3. CASE UNCHANGED vars
  <2>0. /\ op' = op /\ got' = got /\ conf' = conf /\ i' = i /\ rs' = rs /\ resumed' = resumed /\ ctx' = ctx
        /\ tags' = tags /\ o' = o /\ rr' = rr /\ am' = am /\ mem' = mem /\ scr' = scr /\ resp' = resp
    BY <1>3 DEF vars
  <2>1. \A c \in Cx : /\ P(c)' = P(c) /\ c_busy(c)' = c_busy(c) /\ c_lead(c)' = c_lead(c)
                      /\ mreq_mask(c)' = mreq_mask(c) /\ Global(c)' = Global(c) /\ LeadLine(c)' = LeadLine(c)
    BY <2>0 DEF P, c_busy, c_lead, mreq_mask, c_grp, Global, LeadLine, LineOf
  <2>2. IdsOk' BY <1>0, <2>0, <2>1 DEF IdsOk
  <2>3. RequestsOk'
    <3>1. \A l : LineOf(P(o.c)'.addr[l]) = LineOf(P(o.c).addr[l]) BY <2>0 DEF P
    <3> QED BY <1>0, <2>0, <2>1, <3>1 DEF RequestsOk, LineOf
  <2>4. RegsOk'
    <3>1. \A c \in Cx : \A l : Has(c, l)' = Has(c, l) BY <2>0 DEF Has
    <3> QED BY <1>0, <2>0, <2>1, <3>1 DEF RegsOk
  <2>5. RoundsOk' BY <1>0, <2>0, <2>1 DEF RoundsOk, Round
  <2> QED BY <1>1, <2>2, <2>3, <2>4, <2>5 DEF AtomInv
<1> QED BY <1>2, <1>3

-----------------------------------------------------------------------------
(* The lanes of the instruction in context c that have not taken effect,   *)
(* and those that do in a cycle: the scratchpad's lane, or the lanes of    *)
(* the request granted unless that is the read of an AMO.                  *)
Due(c)          == ctx[c].pend \cup (IF o.c = c THEN o.mask ELSE {})
Serves(c, a, g) == IF P(c).scratch THEN c_scs(c, a)
                   ELSE IF g.c = c /\ g.kind # "MK_AMORD" THEN g.mask ELSE {}

(* The lanes an instruction has left are those of its context, or all of   *)
(* them while it waits in the input register.                              *)
LEMMA LeftHeld ==
  IdsOk => \A c \in Cx : c_busy(c) => LeftOf(ctx[c].id) = Due(c) /\ Holder(ctx[c].id) = {c}
<1> SUFFICES ASSUME IdsOk, NEW c \in Cx, c_busy(c)
             PROVE  LeftOf(ctx[c].id) = Due(c) /\ Holder(ctx[c].id) = {c}
  OBVIOUS
<1>1. Holder(ctx[c].id) = {c} BY DEF IdsOk, Holder
<1>2. i # ctx[c].id BY DEF IdsOk
<1> QED BY <1>1, <1>2 DEF LeftOf, Due

LEMMA LeftFree == \A k : Holder(k) = {} => LeftOf(k) = IF i = k THEN op[k].mask ELSE {}
<1> SUFFICES ASSUME NEW k, Holder(k) = {}
             PROVE  LeftOf(k) = IF i = k THEN op[k].mask ELSE {}
  OBVIOUS
<1> DEFINE S == {ctx[c].pend \cup (IF o.c = c THEN o.mask ELSE {}) : c \in Holder(k)}
           M == IF i = k THEN op[k].mask ELSE {}
<1>1. S = {} OBVIOUS
<1>2. LeftOf(k) = (UNION S) \cup M BY DEF LeftOf
<1> HIDE DEF S
<1>3. LeftOf(k) = M
  <2> HIDE DEF M
  <2> QED BY <1>1, <1>2
<1> QED BY <1>3

(* Who holds an instruction after the cycle.                               *)
LEMMA HolderStep ==
  ASSUME EngInv, IdsOk, NEW n, NEW gnt, NEW rt, NEW f, NEW a, NEW g, NEW fin,
         Ticks(n, gnt, rt, f, a, g, fin),
         NEW k \in 1 .. Len(op), NEW d \in Cx, c_busy(d)', ctx'[d].id = k
  PROVE  \/ KeptCtx(d, f, a, fin) /\ c_busy(d) /\ ctx[d].id = k
         \/ NewCtx(d, n) /\ k = i /\ Taken(n) = i
<1>1. ~GoneCtx(d, fin) BY DEF GoneCtx, FreeCtx, c_busy
<1>2. KeptCtx(d, f, a, fin) => c_busy(d) /\ ctx[d].id = k BY DEF KeptCtx
<1>3. NewCtx(d, n) => k = i /\ Taken(n) = i
  <2>1. Len(op) \in Nat /\ (n # 0 => n = Len(op) + 1) BY OpGrows
  <2>2. NewCtx(d, n) => k = Taken(n) BY DEF NewCtx
  <2>3. Taken(n) = 0 \/ Taken(n) = i \/ (Taken(n) = n /\ n # 0) BY InputFacts
  <2> QED BY <2>1, <2>2, <2>3
<1> QED BY <1>1, <1>2, <1>3, CtxStep

(* The lanes of a context after the cycle.                                 *)
LEMMA DueStep ==
  ASSUME EngInv, RequestsOk, NEW n, NEW gnt, NEW rt, NEW f, NEW a, NEW g, NEW fin,
         Ticks(n, gnt, rt, f, a, g, fin), StageOk', NEW c \in Cx, c_busy(c)
  PROVE  /\ Serves(c, a, g) \subseteq Due(c)
         /\ KeptCtx(c, f, a, fin) => Due(c)' = Due(c) \ Serves(c, a, g)
         /\ GoneCtx(c, fin) => Due(c) = Serves(c, a, g)
<1>0. /\ o' = (IF conf.BYP THEN NoReq ELSE IF f # NoReq THEN f ELSE IF gnt THEN NoReq ELSE o)
      /\ g = (IF gnt THEN q ELSE NoReq) /\ f = Sent(gnt) /\ fin = Fin(f, a)
  BY DEF Ticks, RequestStage
<1>f. f # NoReq => f.c \in Cx /\ (o = NoReq \/ gnt) BY FireFacts
<1>n. NoReq.c = 0 /\ c # 0 BY DEF NoReq, Cx
<1>p. ctx[c].pend \subseteq Lane BY BusyFacts DEF EngInv
<1>k. KeptCtx(c, f, a, fin) => Due(c)' = (ctx[c].pend \ c_sent(c, f, a)) \cup (IF o'.c = c THEN o'.mask ELSE {})
  BY DEF KeptCtx, Due
<1>g. GoneCtx(c, fin) => c \in fin /\ ctx[c].pend \subseteq c_sent(c, f, a) BY DoneStep DEF GoneCtx
<1>o. o.c = c =>
        /\ o # NoReq /\ ~conf.BYP /\ ~P(c).scratch
        /\ o.kind # "MK_AMORD" => o.mask \cap ctx[c].pend = {}
        /\ o.kind = "MK_AMORD" => c \in Locked /\ ctx[c].ph = "AP_WAIT" /\ o.mask \subseteq ctx[c].pend
        /\ ~GoneCtx(c, fin)
  <2> SUFFICES ASSUME o.c = c
               PROVE  /\ o # NoReq /\ ~conf.BYP /\ ~P(c).scratch
                      /\ o.kind # "MK_AMORD" => o.mask \cap ctx[c].pend = {}
                      /\ o.kind = "MK_AMORD" => c \in Locked /\ ctx[c].ph = "AP_WAIT" /\ o.mask \subseteq ctx[c].pend
                      /\ ~GoneCtx(c, fin)
    OBVIOUS
  <2>1. o # NoReq BY <1>n
  <2>2. /\ ~conf.BYP /\ o.tag \in Tg /\ resp[o.tag] = NoData
        /\ tags[o.tag] = [v |-> TRUE, c |-> o.c, mask |-> o.mask, kind |-> o.kind]
    BY <2>1 DEF EngInv, StageOk
  <2>3. PICK t \in Tg : t = o.tag BY <2>2
  <2>4. tags[t].v /\ tags[t].c = c /\ tags[t].mask = o.mask /\ tags[t].kind = o.kind /\ resp[t] = NoData
    BY <2>2, <2>3
  <2>5. TagOk(t) BY DEF EngInv, TagsOk
  <2>6. Owns(c, t) BY <2>4, <2>5 DEF TagOk
  <2>7. ~P(c).scratch BY <2>6 DEF Owns, Global
  <2>8. o.kind # "MK_AMORD" => o.mask \cap ctx[c].pend = {} BY <2>4 DEF RequestsOk
  <2>9. o.kind = "MK_AMORD" => c \in Locked /\ ctx[c].ph = "AP_WAIT" /\ o.mask \subseteq ctx[c].pend
    <3>1. SUFFICES ASSUME o.kind = "MK_AMORD"
                   PROVE  c \in Locked /\ ctx[c].ph = "AP_WAIT" /\ o.mask \subseteq ctx[c].pend
      OBVIOUS
    <3>2. ctx[c].ph = "AP_WAIT" /\ o.mask = mreq_mask(c) BY <2>4, <2>6, <3>1 DEF Owns
    <3>3. c_locked(c) /\ ctx[c].pend # {} BY <3>2 DEF EngInv, CtxOk
    <3>4. mreq_mask(c) \subseteq ctx[c].pend BY <3>3, LeadFacts DEF EngInv
    <3> QED BY <3>2, <3>3, <3>4 DEF Locked
  <2>10. ~GoneCtx(c, fin)
    <3>1. TagNext(t, rt, f, a) BY TagStep
    <3>2. tags'[t] = tags[t] BY <2>4, <3>1 DEF TagNext
    <3>3. KeptCtx(c, f, a, fin) BY <2>4, <3>2, OwnerStep
    <3> QED BY <3>3 DEF KeptCtx, GoneCtx, FreeCtx
  <2> QED BY <2>1, <2>2, <2>7, <2>8, <2>9, <2>10
<1>s. f.c # c => P(c).scratch \/ c_sent(c, f, a) = {} BY DEF c_sent
<1>1. CASE P(c).scratch
  <2>1. f.c # c BY <1>1, SentFacts DEF Global
  <2>2. o'.c # c BY <1>0, <1>1, <1>n, <1>o, <2>1
  <2>3. c_sent(c, f, a) = c_scs(c, a) /\ Serves(c, a, g) = c_scs(c, a) BY <1>1 DEF c_sent, Serves
  <2>4. c_scs(c, a) \subseteq ctx[c].pend
    <3>1. sc_step(a) /\ sc_c = c => ctx[c].pend # {} BY ScratchFacts DEF EngInv, ScratchOk
    <3>2. ctx[c].pend # {} => c_lead(c) \in ctx[c].pend BY LeadFacts DEF EngInv
    <3> QED BY <3>1, <3>2 DEF c_scs
  <2>5. Due(c) = ctx[c].pend BY <1>1, <1>o DEF Due
  <2> QED BY <1>k, <1>g, <2>2, <2>3, <2>4, <2>5
<1>2. CASE ~P(c).scratch /\ conf.BYP
  <2>1. Due(c) = ctx[c].pend /\ o'.c # c BY <1>0, <1>2, <1>n, <1>o DEF Due
  <2>2. g = f
    <3>1. f # NoReq => gnt /\ mreq_valid /\ f = mreq
      <4>1. f # NoReq => mreq_fire(gnt) /\ f = mreq BY <1>0 DEF Sent
      <4> QED BY <1>2, <4>1 DEF mreq_fire
    <3>2. f # NoReq => g = f BY <1>0, <1>2, <3>1 DEF q
    <3>3. f = NoReq => g = NoReq BY <1>2, GrantFacts
    <3> QED BY <3>2, <3>3
  <2>3. c_sent(c, f, a) = Serves(c, a, g) /\ Serves(c, a, g) \subseteq ctx[c].pend
    <3>1. CASE f.c = c BY <1>2, <2>2, <3>1, FireMask DEF Serves
    <3>2. CASE f.c # c BY <1>2, <1>s, <2>2, <3>2 DEF Serves
    <3> QED BY <3>1, <3>2
  <2> QED BY <1>k, <1>g, <2>1, <2>3
<1>3. CASE ~P(c).scratch /\ ~conf.BYP
  <2>1. g = IF gnt THEN o ELSE NoReq BY <1>0, <1>3 DEF q
  <2>2. o' = (IF f # NoReq THEN f ELSE IF gnt THEN NoReq ELSE o) BY <1>0, <1>3
  <2>s. Serves(c, a, g) = IF gnt /\ o.c = c /\ o.kind # "MK_AMORD" THEN o.mask ELSE {}
    BY <1>3, <1>n, <2>1 DEF Serves
  <2>3. ASSUME GoneCtx(c, fin) PROVE Due(c) = Serves(c, a, g)
    <3>1. o.c # c BY <1>o, <2>3
    <3>2. c_fin(c, f, a) BY <1>0, <1>g, <2>3 DEF Fin
    <3>3. c_scs(c, a) = {} BY <1>3, ScratchFacts DEF c_scs
    <3>4. ctx[c].pend = {}
      <4>1. ctx[c].st = "done" => ctx[c].pend = {} BY DEF EngInv, CtxOk
      <4> QED BY <1>3, <3>2, <3>3, <4>1 DEF c_fin
    <3> QED BY <2>s, <3>1, <3>4 DEF Due
  <2>4. ASSUME KeptCtx(c, f, a, fin) PROVE Due(c)' = Due(c) \ Serves(c, a, g)
    <3>1. CASE f.c = c
      <4>1. /\ f # NoReq /\ f.mask \subseteq ctx[c].pend
            /\ f.kind # "MK_AMORD" => c_sent(c, f, a) = f.mask
            /\ f.kind = "MK_AMORD" => c_sent(c, f, a) = {}
        BY <3>1, FireMask
      <4>2. f.kind \in Kinds BY <3>1, SentFacts
      <4>3. Due(c)' = ctx[c].pend BY <1>k, <2>2, <2>4, <3>1, <4>1
      <4>4. o.c = c => gnt /\ o.kind # "MK_AMORD"
        <5>1. ctx[c].ph = "AP_WAIT" /\ c \in Locked => FALSE
          BY <3>1, SentFacts DEF Locked, c_locked
        <5> QED BY <1>f, <1>o, <4>1, <5>1
      <4> QED BY <1>o, <2>s, <4>3, <4>4 DEF Due
    <3>2. CASE f # NoReq /\ f.c # c
      <4>1. Due(c)' = ctx[c].pend BY <1>3, <1>k, <1>s, <2>2, <2>4, <3>2
      <4>2. o.c = c => gnt /\ o.kind # "MK_AMORD" BY <1>f, <1>o, <3>2, LockedQuiet
      <4> QED BY <1>o, <2>s, <4>1, <4>2 DEF Due
    <3>3. CASE f = NoReq
      <4>1. f.c # c BY <1>n, <3>3
      <4>2. Due(c)' = ctx[c].pend \cup (IF o'.c = c THEN o'.mask ELSE {}) BY <1>3, <1>k, <1>s, <2>4, <4>1
      <4>3. CASE gnt
        <5>1. Due(c)' = ctx[c].pend BY <1>n, <2>2, <3>3, <4>2, <4>3
        <5> QED BY <1>o, <2>s, <4>3, <5>1 DEF Due
      <4>4. CASE ~gnt
        <5>1. Due(c)' = Due(c) BY <2>2, <3>3, <4>2, <4>4 DEF Due
        <5> QED BY <2>s, <4>4, <5>1
      <4> QED BY <4>3, <4>4
    <3> QED BY <1>n, <3>1, <3>2, <3>3
  <2>5. Serves(c, a, g) \subseteq Due(c) BY <2>s DEF Due
  <2> QED BY <2>3, <2>4, <2>5
<1> QED BY <1>1, <1>2, <1>3

(* No request waits that is not of a context that was there before.        *)
LEMMA NotNew ==
  ASSUME EngInv, NEW n, NEW gnt, NEW rt, NEW f, NEW a, NEW g, NEW fin,
         Ticks(n, gnt, rt, f, a, g, fin), StageOk', NEW c \in Cx, ~c_busy(c)
  PROVE  o'.c # c /\ \A t \in Tg : tags'[t].v => tags'[t].c # c
<1>1. ASSUME NEW t \in Tg, tags'[t].v, tags'[t].c = c PROVE FALSE
  BY <1>1, OwnerStep DEF KeptCtx
<1>2. ASSUME o'.c = c PROVE FALSE
  <2>1. o' # NoReq BY <1>2 DEF NoReq, Cx
  <2>2. /\ o'.tag \in Tg
        /\ tags'[o'.tag] = [v |-> TRUE, c |-> o'.c, mask |-> o'.mask, kind |-> o'.kind]
    BY <2>1 DEF StageOk
  <2>3. PICK t \in Tg : t = o'.tag BY <2>2
  <2> QED BY <1>1, <1>2, <2>2, <2>3
<1> QED BY <1>1, <1>2

(* The two facts on what is left, after the cycle.                         *)
LEMMA LeftHeldNext ==
  (IdsOk => \A c \in Cx : c_busy(c) => LeftOf(ctx[c].id) = Due(c) /\ Holder(ctx[c].id) = {c})'
BY LeftHeld, PTL
LEMMA LeftFreeNext == (\A k : Holder(k) = {} => LeftOf(k) = IF i = k THEN op[k].mask ELSE {})'
BY LeftFree, PTL

(* The instruction that takes a context has all its lanes left.            *)
LEMMA TakenLeft ==
  ASSUME EngInv, NEW n, NEW gnt, NEW rt, NEW f, NEW a, NEW g, NEW fin,
         Ticks(n, gnt, rt, f, a, g, fin), StageOk', IdsOk', NEW k, k = Taken(n), k # 0
  PROVE  /\ alloc_c \in Cx /\ NewCtx(alloc_c, n) /\ Holder(k)' = {alloc_c}
         /\ LeftOf(k)' = op'[k].mask
<1>1. alloc_c \in Cx /\ ~c_busy(alloc_c) /\ Taken(n) \in 1 .. Len(op') BY TakenFacts
<1>2. PICK c \in Cx : c = alloc_c BY <1>1
<1>4. NewCtx(c, n)
  <2>1. ctx'[c] = Fresh(Taken(n)) BY <1>2 DEF Ticks, Contexts
  <2>2. ctx'[c].st = "busy" BY <2>1 DEF Fresh, FreeCtx
  <2>3. ~GoneCtx(c, fin) BY <2>2 DEF GoneCtx, FreeCtx
  <2>4. ~KeptCtx(c, f, a, fin) BY <1>1, <1>2 DEF KeptCtx
  <2> QED BY <2>3, <2>4, CtxStep
<1>5. ctx'[c] = [st |-> "busy", id |-> k, pend |-> op'[k].mask, ph |-> "AP_RD", cnt |-> 0] BY <1>4 DEF NewCtx
<1>6. c_busy(c)' /\ ctx'[c].id = k /\ ctx'[c].pend = op'[k].mask BY <1>5 DEF c_busy
<1>7. LeftOf(ctx[c].id)' = Due(c)' /\ Holder(ctx[c].id)' = {c} BY <1>6, LeftHeldNext
<1>8. LeftOf(k)' = LeftOf(ctx[c].id)' /\ Holder(k)' = Holder(ctx[c].id)' BY <1>6 DEF LeftOf, Holder
<1>9. Due(c)' = op'[k].mask BY <1>1, <1>2, <1>6, NotNew DEF Due
<1> QED BY <1>1, <1>2, <1>4, <1>7, <1>8, <1>9

(* Who holds an instruction, if nobody did and it is not the one taken.    *)
LEMMA HolderFree ==
  ASSUME EngInv, IdsOk, NEW n, NEW gnt, NEW rt, NEW f, NEW a, NEW g, NEW fin,
         Ticks(n, gnt, rt, f, a, g, fin), NEW k \in 1 .. Len(op), k # i \/ Taken(n) # i,
         \A c \in Cx : c_busy(c) /\ ctx[c].id = k => GoneCtx(c, fin)
  PROVE  Holder(k)' = {}
<1> SUFFICES ASSUME NEW d \in Cx, c_busy(d)', ctx'[d].id = k PROVE FALSE
  BY DEF Holder
<1>1. \/ KeptCtx(d, f, a, fin) /\ c_busy(d) /\ ctx[d].id = k
      \/ NewCtx(d, n) /\ k = i /\ Taken(n) = i
  BY HolderStep
<1>2. KeptCtx(d, f, a, fin) => ~GoneCtx(d, fin) BY DEF KeptCtx, GoneCtx, FreeCtx
<1> QED BY <1>1, <1>2

(* The lanes of an instruction that take effect in a cycle: those that its *)
(* context serves.                                                         *)
LEMMA TookStep ==
  ASSUME EngInv, IdsOk, RequestsOk, NEW n, NEW gnt, NEW rt, NEW f, NEW a, NEW g, NEW fin,
         Ticks(n, gnt, rt, f, a, g, fin), StageOk', IdsOk', NEW k \in 1 .. Len(op)
  PROVE  /\ \A c \in Cx : c_busy(c) /\ ctx[c].id = k =>
              /\ LeftOf(k) = Due(c) /\ Serves(c, a, g) \subseteq Due(c)
              /\ LeftOf(k)' = Due(c) \ Serves(c, a, g)
         /\ (\A c \in Cx : c_busy(c) => ctx[c].id # k) => LeftOf(k)' = LeftOf(k)
<1>i. /\ i \in 0 .. Len(op)
      /\ \/ Taken(n) = 0 /\ i' = i /\ n = 0
         \/ Taken(n) = 0 /\ i = 0 /\ i' = n /\ n # 0 /\ ~conf.BYP
         \/ Taken(n) = i /\ i # 0 /\ i' = n /\ ~conf.BYP
         \/ Taken(n) = n /\ i = 0 /\ i' = 0 /\ n # 0 /\ conf.BYP
  BY InputFacts
<1>n. Len(op) \in Nat /\ (n # 0 => n = Len(op) + 1) /\ op'[k] = op[k] BY OpGrows
<1>1. ASSUME NEW c \in Cx, c_busy(c), ctx[c].id = k
      PROVE  /\ LeftOf(k) = Due(c) /\ Serves(c, a, g) \subseteq Due(c)
             /\ LeftOf(k)' = Due(c) \ Serves(c, a, g)
  <2>1. LeftOf(k) = Due(c) /\ Holder(k) = {c} BY <1>1, LeftHeld
  <2>2. k # i /\ k # i'
    <3>1. k # i BY <1>1 DEF IdsOk
    <3>2. i' = 0 \/ i' = n \/ i' = i BY <1>i
    <3> QED BY <1>n, <3>1, <3>2
  <2>3. /\ Serves(c, a, g) \subseteq Due(c)
        /\ KeptCtx(c, f, a, fin) => Due(c)' = Due(c) \ Serves(c, a, g)
        /\ GoneCtx(c, fin) => Due(c) = Serves(c, a, g)
    BY <1>1, DueStep
  <2>4. CASE KeptCtx(c, f, a, fin)
    <3>1. c_busy(c)' /\ ctx'[c].id = k BY <1>1, <2>4 DEF KeptCtx, c_busy
    <3>2. LeftOf(ctx[c].id)' = Due(c)' BY <3>1, LeftHeldNext
    <3>3. LeftOf(k)' = LeftOf(ctx[c].id)' BY <3>1 DEF LeftOf, Holder
    <3> QED BY <2>1, <2>3, <2>4, <3>2, <3>3
  <2>5. CASE GoneCtx(c, fin)
    <3>1. \A d \in Cx : c_busy(d) /\ ctx[d].id = k => d = c BY <1>1 DEF IdsOk
    <3>2. Holder(k)' = {} BY <2>2, <2>5, <3>1, HolderFree
    <3>3. LeftOf(k)' = {} BY <2>2, <3>2, LeftFreeNext
    <3> QED BY <2>1, <2>3, <2>5, <3>3
  <2>6. ~NewCtx(c, n) BY <1>1 DEF NewCtx
  <2> QED BY <2>4, <2>5, <2>6, CtxStep
<1>2. ASSUME \A c \in Cx : c_busy(c) => ctx[c].id # k PROVE LeftOf(k)' = LeftOf(k)
  <2>1. Holder(k) = {} BY <1>2 DEF Holder
  <2>2. LeftOf(k) = IF i = k THEN op[k].mask ELSE {} BY <2>1, LeftFree
  <2>3. CASE k = i /\ Taken(n) = i
    <3>1. k # 0 /\ k = Taken(n) BY <2>3
    <3>2. LeftOf(k)' = op'[k].mask BY <3>1, TakenLeft
    <3> QED BY <1>n, <2>2, <2>3, <3>2
  <2>4. CASE k # i \/ Taken(n) # i
    <3>1. Holder(k)' = {} BY <1>2, <2>4, HolderFree
    <3>2. LeftOf(k)' = IF i' = k THEN op'[k].mask ELSE {} BY <3>1, LeftFreeNext
    <3>3. i' = k <=> i = k
      <4>1. k \in Nat /\ k # 0 /\ k <= Len(op) OBVIOUS
      <4> QED BY <1>i, <1>n, <2>4, <4>1
    <3> QED BY <1>n, <2>2, <3>2, <3>3
  <2> QED BY <2>3, <2>4
<1> QED BY <1>1, <1>2

(* An instruction just accepted has all its lanes left and no results.     *)
LEMMA NewLeft ==
  ASSUME EngInv, IdsOk, NEW n, NEW gnt, NEW rt, NEW f, NEW a, NEW g, NEW fin,
         Ticks(n, gnt, rt, f, a, g, fin), StageOk', IdsOk', n # 0
  PROVE  LeftOf(n)' = op'[n].mask /\ ResOf(n)' = [l \in Lane |-> None]
<1>i. /\ i \in 0 .. Len(op)
      /\ \/ Taken(n) = 0 /\ i' = i /\ n = 0
         \/ Taken(n) = 0 /\ i = 0 /\ i' = n /\ n # 0 /\ ~conf.BYP
         \/ Taken(n) = i /\ i # 0 /\ i' = n /\ ~conf.BYP
         \/ Taken(n) = n /\ i = 0 /\ i' = 0 /\ n # 0 /\ conf.BYP
  BY InputFacts
<1>1. LeftOf(n)' = op'[n].mask /\ \A c \in Cx : c \in Holder(n)' => ~c_busy(c)
  <2>1. CASE Taken(n) = n
    <3>1. /\ alloc_c \in Cx /\ NewCtx(alloc_c, n) /\ Holder(n)' = {alloc_c}
          /\ LeftOf(n)' = op'[n].mask
      BY <2>1, TakenLeft
    <3> QED BY <3>1 DEF NewCtx
  <2>2. CASE i' = n
    <3>1. Holder(n)' = {} BY <2>2 DEF IdsOk, Holder
    <3>2. LeftOf(n)' = op'[n].mask BY <2>2, <3>1, LeftFreeNext
    <3> QED BY <3>1, <3>2
  <2> QED BY <1>i, <2>1, <2>2
<1>2. \A l \in Lane : Owed(n, l)' = {}
  <2>1. ASSUME NEW t \in Tg, tags'[t].v, tags'[t].c \in Holder(n)' PROVE FALSE
    <3>1. PICK c \in Cx : c = tags'[t].c BY <2>1 DEF Holder
    <3> QED BY <1>1, <2>1, <3>1, NotNew
  <2> QED BY <2>1 DEF Owed
<1>3. \A l \in Lane : got'[n][l] = None BY GotStep
<1>4. ResOf(n)' = [l \in Lane |->
        IF l \in LeftOf(n)' \/ ~Returns(op[n])' THEN None
        ELSE IF got'[n][l] # None \/ Owed(n, l)' = {} THEN got'[n][l]
        ELSE resp'[CHOOSE t \in Owed(n, l)' : TRUE][op'[n].addr[l] % LW]]
  BY DEF ResOf
<1>5. \A l \in Lane : (IF l \in LeftOf(n)' \/ ~Returns(op[n])' THEN None
        ELSE IF got'[n][l] # None \/ Owed(n, l)' = {} THEN got'[n][l]
        ELSE resp'[CHOOSE t \in Owed(n, l)' : TRUE][op'[n].addr[l] % LW]) = None
  BY <1>2, <1>3
<1> QED BY <1>1, <1>4, <1>5

(* Stores in lane order leave in a word what its last lane stores.         *)
LEMMA StoresLeave ==
  ASSUME NEW p \in Op, ~p.scratch, p.kind = "store", NEW S \in SUBSET Lane,
         NEW m \in [0 .. Words - 1 -> Val], NEW x \in 0 .. Words - 1
  PROVE  StoreWord(p, S, m, x) = After(p, S, m)[x]
<1> DEFINE X == 0 .. Words - 1
           hit == {l \in S : p.addr[l] = x}
<1>0. NL \in Nat /\ 0 \in 0 .. NL /\ NL \in 0 .. NL /\ 0 <= NL BY SizeAssumption
<1>1. \A l \in S : At(p, l) = p.addr[l] /\ At(p, l) \in X BY DEF At, Op
<1>2. Fits(p, S, X, m) /\ x \in X BY <1>1 DEF Fits
<1> HIDE DEF X
<1>3. CASE hit = {}
  <2>1. Spares(p, S, 0, NL, x) BY <1>1, <1>3 DEF Spares
  <2>2. Found(p, S, m)[NL][x] = Found(p, S, m)[0][x] BY <1>0, <1>2, <2>1, Untouched
  <2>3. Found(p, S, m)[0] = m BY FoundFirst
  <2> QED BY <1>3, <2>2, <2>3 DEF After, StoreWord
<1>4. CASE hit # {}
  <2>1. hit \in SUBSET (1 .. NL) BY DEF Lane
  <2>2. Max(hit) \in hit /\ \A j \in hit : Max(hit) >= j BY <1>0, <1>4, <2>1, Greatest
  <2>3. PICK k \in S : k = Max(hit) /\ p.addr[k] = x BY <2>2
  <2>4. k \in 0 .. NL /\ k \in Int /\ k <= NL BY <1>0 DEF Lane
  <2>5. Found(p, S, m)[k][x] = p.data[k]
    <3>1. At(p, k) = x /\ p.kind # "load" BY <1>1, <2>3
    <3>2. Found(p, S, m)[k][At(p, k)] = p.data[k] BY <1>2, <3>1, FoundHit
    <3> QED BY <3>1, <3>2
  <2>6. Spares(p, S, k, NL, x)
    <3>1. ASSUME NEW j \in S, k < j, At(p, j) = x PROVE FALSE
      <4>1. j \in hit BY <1>1, <3>1
      <4>2. k >= j BY <2>2, <2>3, <4>1
      <4>3. j \in Int BY DEF Lane
      <4> QED BY <2>4, <3>1, <4>2, <4>3
    <3> QED BY <3>1 DEF Spares
  <2>7. Found(p, S, m)[NL][x] = Found(p, S, m)[k][x]
    <3>1. NL \in 0 .. NL /\ k \in 0 .. NL /\ k <= NL BY <1>0, <2>4
    <3> HIDE DEF hit
    <3> QED BY <1>2, <2>6, <3>1, Untouched
  <2> QED BY <1>4, <2>3, <2>5, <2>7 DEF After, StoreWord
<1> QED BY <1>3, <1>4

(* The memory a write of lanes S of p leaves: what the lanes leave, one    *)
(* after another.                                                          *)
WriteOf(p, S, b, m, n) ==
  [x \in 0 .. Words - 1 |-> IF p.kind = "amo" THEN AmoWord(b, m, n, x) ELSE StoreWord(p, S, m, x)]
LEMMA WriteLeaves ==
  ASSUME NEW p \in Op, ~p.scratch, p.kind # "load", NEW S \in SUBSET Lane,
         NEW m \in [0 .. Words - 1 -> Val], NEW r, NEW b, NEW n,
         OnLine(p, S, n), p.kind = "amo" => Good(p, r, b, m, n, S, S)
  PROVE  WriteOf(p, S, b, m, n) = After(p, S, m)
<1> DEFINE X == 0 .. Words - 1
           W(x) == IF p.kind = "amo" THEN AmoWord(b, m, n, x) ELSE StoreWord(p, S, m, x)
<1>0. p.kind \in {"load", "store", "amo"} /\ \A l \in S : At(p, l) \in X BY DEF At, Op
<1>1. After(p, S, m) \in [X -> Val]
  <2>1. Fits(p, S, X, m) /\ NL \in 0 .. NL BY <1>0, SizeAssumption DEF Fits
  <2> QED BY <2>1, FoundType DEF After
<1>2. ASSUME NEW x \in X PROVE W(x) = After(p, S, m)[x]
  <2>1. CASE p.kind = "amo" BY <2>1, GoodStored
  <2>2. CASE p.kind = "store" BY <2>2, StoresLeave
  <2> QED BY <1>0, <2>1, <2>2
<1>3. WriteOf(p, S, b, m, n) = [x \in X |-> W(x)] BY DEF WriteOf
<1> HIDE DEF W
<1>4. After(p, S, m) = [x \in X |-> After(p, S, m)[x]] BY <1>1
<1> QED BY <1>2, <1>3, <1>4

(* The request granted: whose it is, its kind, its lanes on its line, and  *)
(* for the write of an AMO the round that it ends.                         *)
LEMMA GrantOwned ==
  ASSUME AtomInv, NEW n, NEW gnt, NEW rt, NEW f, NEW a, NEW g, NEW fin,
         Ticks(n, gnt, rt, f, a, g, fin), NEW c \in Cx, g.c = c
  PROVE  /\ g # NoReq /\ c_busy(c) /\ ~P(c).scratch /\ g.mask \subseteq Lane
         /\ g.kind = "MK_LOAD" <=> P(c).kind = "load"
         /\ \A l \in g.mask : LineOf(P(c).addr[l]) = g.line
         /\ g.kind = "MK_WRITE" /\ P(c).kind = "amo" =>
              Good(P(c), got[ctx[c].id], am, mem, g.line, g.mask, g.mask)
<1>e. EngInv /\ RequestsOk /\ RoundsOk BY DEF AtomInv
<1>0. g # NoReq BY DEF NoReq, Cx
<1>1. c_busy(c) /\ ~P(c).scratch /\ g.mask \subseteq Lane BY <1>0, <1>e, GrantOk DEF Global
<1>2. CASE ~conf.BYP /\ gnt /\ g = o /\ o # NoReq
  <2>1. o.tag \in Tg /\ tags[o.tag] = [v |-> TRUE, c |-> o.c, mask |-> o.mask, kind |-> o.kind]
    BY <1>2, <1>e DEF EngInv, StageOk
  <2>2. PICK t \in Tg : t = o.tag BY <2>1
  <2>3. TagOk(t) /\ tags[t].v /\ tags[t].c = c /\ tags[t].kind = g.kind BY <1>2, <1>e, <2>1, <2>2 DEF EngInv, TagsOk
  <2>4. g.kind = "MK_LOAD" <=> P(c).kind = "load" BY <2>3 DEF TagOk, Owns
  <2>5. \A l \in g.mask : LineOf(P(c).addr[l]) = g.line BY <1>2, <1>e DEF RequestsOk
  <2>6. g.kind = "MK_WRITE" /\ P(c).kind = "amo" => Round(c, g.line, g.mask, g.mask) BY <1>2, <1>e DEF RoundsOk
  <2> QED BY <1>0, <1>1, <2>4, <2>5, <2>6 DEF Round
<1>3. CASE conf.BYP /\ gnt /\ g = f /\ f # NoReq
  <2>0. f.c = c BY <1>3
  <2>1. g.kind = "MK_LOAD" <=> P(c).kind = "load"
    <3>1. f.kind = "MK_LOAD" <=> P(c).kind = "load" BY <1>e, <2>0, SentFacts
    <3> QED BY <1>3, <3>1
  <2>2. \A l \in g.mask : LineOf(P(c).addr[l]) = g.line
    <3>1. \A l \in f.mask : LineOf(P(c).addr[l]) = f.line BY <1>e, <2>0, FireMask
    <3> QED BY <1>3, <3>1
  <2>3. g.kind = "MK_WRITE" /\ P(c).kind = "amo" =>
          ctx[c].ph = "AP_WR" /\ g.mask = mreq_mask(c) /\ g.line = LeadLine(c)
    BY <1>3, <1>e, <2>0, SentFacts DEF LeadLine
  <2>4. ctx[c].ph = "AP_WR" => Round(c, LeadLine(c), mreq_mask(c), mreq_mask(c)) BY <1>e DEF RoundsOk
  <2> QED BY <1>0, <1>1, <2>1, <2>2, <2>3, <2>4 DEF Round
<1> QED BY <1>0, <1>2, <1>3, <1>e, GrantFacts

(* The memory after the cycle is what the lanes served leave, one after    *)
(* another: none, loads, stores or the round of an AMO.                    *)
LEMMA MemoryStep ==
  ASSUME AtomInv, NEW n, NEW gnt, NEW rt, NEW f, NEW a, NEW g, NEW fin,
         Ticks(n, gnt, rt, f, a, g, fin), NEW c \in Cx, g.c = c
  PROVE  mem' = IF g.kind = "MK_AMORD" THEN mem ELSE After(P(c), g.mask, mem)
<1> DEFINE p == P(c)
           S == g.mask
           X == 0 .. Words - 1
<1>e. EngInv BY DEF AtomInv
<1>0. /\ g # NoReq /\ c_busy(c) /\ ~p.scratch /\ S \in SUBSET Lane
      /\ g.kind = "MK_LOAD" <=> p.kind = "load"
      /\ \A l \in S : LineOf(p.addr[l]) = g.line
      /\ g.kind = "MK_WRITE" /\ p.kind = "amo" => Good(p, got[ctx[c].id], am, mem, g.line, S, S)
  BY GrantOwned
<1>1. mem' = (IF g.kind = "MK_WRITE" THEN Stored(g) ELSE mem) BY DEF Ticks, Memory
<1>2. p \in Op /\ p.kind \in {"load", "store", "amo"} /\ mem \in [X -> Val]
  BY <1>e, <1>0, BusyFacts DEF EngInv, TypeOK
<1>k. g.kind \in Kinds
  <2>1. f # NoReq => f.kind \in Kinds /\ f.c \in Cx BY <1>e, FireFacts, SentFacts
  <2>2. o.kind \in Kinds BY <1>e DEF EngInv, TypeOK
  <2> QED BY <1>0, <1>e, <2>1, <2>2, GrantFacts
<1>n. NL \in 0 .. NL BY SizeAssumption
<1>3. CASE g.kind = "MK_AMORD" BY <1>1, <1>3
<1>4. CASE g.kind = "MK_LOAD"
  <2>1. Found(p, S, mem)[NL] = mem BY <1>0, <1>4, <1>n, FoundLoad
  <2> QED BY <1>1, <1>4, <2>1 DEF After
<1>5. CASE g.kind = "MK_WRITE"
  <2>1. mem' = Stored(g) /\ DOMAIN mem = X BY <1>1, <1>2, <1>5
  <2>2. Stored(g) = WriteOf(p, S, am, mem, g.line)
    BY <2>1 DEF Stored, WriteOf, AmoWord, StoreWord
  <2>3. Stored(g) = After(p, S, mem)
    <3>1. p \in Op /\ ~p.scratch /\ p.kind # "load" /\ S \in SUBSET Lane /\ mem \in [0 .. Words - 1 -> Val]
      BY <1>0, <1>2, <1>5
    <3>2. OnLine(p, S, g.line) BY <1>0 DEF OnLine
    <3>3. p.kind = "amo" => Good(p, got[ctx[c].id], am, mem, g.line, S, S) BY <1>0, <1>5
    <3> HIDE DEF p, S
    <3> QED BY <2>2, <3>1, <3>2, <3>3, WriteLeaves
  <2> QED BY <1>5, <2>1, <2>3
<1> QED BY <1>k, <1>3, <1>4, <1>5 DEF Kinds

(* One lane alone finds the memory as it is, and changes its word.         *)
LEMMA OneLane ==
  ASSUME NEW p \in Op, NEW X, NEW m \in [X -> Val], NEW l \in Lane, At(p, l) \in X
  PROVE  Found(p, {l}, m)[l - 1] = m /\ After(p, {l}, m) = IF p.kind = "load" THEN m ELSE Put(p, l, m)
<1> DEFINE F == Found(p, {l}, m)
<1>0. /\ NL \in Nat /\ 0 \in 0 .. NL /\ NL \in 0 .. NL /\ l \in 0 .. NL /\ l - 1 \in 0 .. NL
      /\ 0 <= l - 1 /\ l <= NL /\ l \in Int
  BY SizeAssumption DEF Lane
<1>1. Fits(p, {l}, X, m) BY DEF Fits
<1>2. F[l - 1] = m
  <2>1. \A x : Spares(p, {l}, 0, l - 1, x) BY <1>0 DEF Spares
  <2>2. \A x \in X : F[l - 1][x] = F[0][x]
    <3> SUFFICES ASSUME NEW x \in X PROVE F[l - 1][x] = F[0][x] OBVIOUS
    <3>1. Spares(p, {l}, 0, l - 1, x) BY <2>1
    <3> QED BY <1>0, <1>1, <3>1, Untouched
  <2>3. F[0] = m BY FoundFirst
  <2>4. F[l - 1] \in [X -> Val] BY <1>0, <1>1, FoundType
  <2> HIDE DEF F
  <2> QED BY <2>2, <2>3, <2>4
<1>3. F[NL] = F[l]
  <2>1. \A x : Spares(p, {l}, l, NL, x) BY <1>0 DEF Spares
  <2>2. \A x \in X : F[NL][x] = F[l][x]
    <3> SUFFICES ASSUME NEW x \in X PROVE F[NL][x] = F[l][x] OBVIOUS
    <3>1. Spares(p, {l}, l, NL, x) BY <2>1
    <3> QED BY <1>0, <1>1, <3>1, Untouched
  <2>3. F[NL] \in [X -> Val] /\ F[l] \in [X -> Val] BY <1>0, <1>1, FoundType
  <2> HIDE DEF F
  <2> QED BY <2>2, <2>3
<1>4. F[l] = IF p.kind = "load" THEN m ELSE Put(p, l, m)
  <2>1. CASE p.kind = "load" BY <1>2, <2>1, FoundKept
  <2>2. CASE p.kind # "load"
    <3>1. F[l] = Put(p, l, F[l - 1]) BY <2>2, FoundSet
    <3> QED BY <1>2, <2>2, <3>1
  <2> QED BY <2>1, <2>2
<1> QED BY <1>2, <1>3, <1>4 DEF After

(* The scratchpad after the cycle is what the lane served leaves.          *)
LEMMA ScratchStep ==
  ASSUME EngInv, NEW n, NEW gnt, NEW rt, NEW f, NEW a, NEW g, NEW fin,
         Ticks(n, gnt, rt, f, a, g, fin)
  PROVE  /\ ~sc_step(a) => scr' = scr /\ \A c \in Cx : P(c).scratch => Serves(c, a, g) = {}
         /\ sc_step(a) => \E c \in Cx :
              /\ c = sc_c /\ c_busy(c) /\ P(c).scratch /\ Serves(c, a, g) = {c_lead(c)} /\ c_lead(c) \in Lane
              /\ \A d \in Cx : d # c /\ P(d).scratch => Serves(d, a, g) = {}
              /\ scr' = After(P(c), {c_lead(c)}, scr)
              /\ Result(P(c), c_lead(c), {c_lead(c)}, scr) = sc_rd
<1>1. scr' = (IF sc_step(a) /\ P(sc_c).kind # "load"
              THEN [scr EXCEPT ![sc_a(P(sc_c), sc_lead)] = sc_wd] ELSE scr)
  BY DEF Ticks, Scratchpad
<1>2. CASE ~sc_step(a) BY <1>1, <1>2 DEF Serves, c_scs
<1>3. CASE sc_step(a)
  <2>1. /\ sc_c \in Cx /\ c_busy(sc_c) /\ P(sc_c).scratch /\ sc_lead = c_lead(sc_c) /\ sc_lead \in Lane
    BY <1>3, ScratchFacts
  <2>2. PICK c \in Cx : c = sc_c BY <2>1
  <2>3. PICK l \in Lane : l = c_lead(c) BY <2>1, <2>2
  <2>4. c_busy(c) /\ P(c).scratch /\ sc_lead = l BY <2>1, <2>2, <2>3
  <2>5. Serves(c, a, g) = {l} BY <1>3, <2>2, <2>3, <2>4 DEF Serves, c_scs
  <2>6. \A d \in Cx : d # c /\ P(d).scratch => Serves(d, a, g) = {} BY <2>2 DEF Serves, c_scs
  <2>7. P(c) \in Op /\ P(c).kind \in {"load", "store", "amo"} BY <2>4, BusyFacts DEF EngInv
  <2> DEFINE X == 0 .. NW * ScrWords - 1
  <2>8. At(P(c), l) = sc_a(P(c), l) /\ At(P(c), l) \in X
    <3>1. sc_a(P(c), l) \in X BY <2>7, ScratchWord
    <3> QED BY <2>4, <3>1 DEF At
  <2>9. scr \in [X -> Val] BY DEF EngInv, TypeOK
  <2> HIDE DEF X
  <2>10. /\ Found(P(c), {l}, scr)[l - 1] = scr
         /\ After(P(c), {l}, scr) = IF P(c).kind = "load" THEN scr ELSE Put(P(c), l, scr)
    BY <2>7, <2>8, <2>9, OneLane
  <2>11. sc_rd = scr[At(P(c), l)] BY <2>2, <2>4, <2>8 DEF sc_rd
  <2>12. Result(P(c), l, {l}, scr) = sc_rd BY <2>10, <2>11 DEF Result
  <2>13. scr' = After(P(c), {l}, scr)
    <3>1. CASE P(c).kind = "load" BY <1>1, <2>2, <2>10, <3>1
    <3>2. CASE P(c).kind # "load"
      <4>1. scr' = [scr EXCEPT ![At(P(c), l)] = sc_wd] BY <1>1, <1>3, <2>2, <2>4, <2>8, <3>2
      <4>2. sc_wd = IF P(c).kind = "store" THEN P(c).data[l]
                    ELSE amo_alu(P(c).fn, scr[At(P(c), l)], P(c).data[l])
        BY <2>2, <2>4, <2>7, <2>11, <3>2 DEF sc_wd
      <4> QED BY <2>10, <3>2, <4>1, <4>2 DEF Put
    <3> QED BY <3>1, <3>2
  <2> QED BY <1>3, <2>2, <2>3, <2>4, <2>5, <2>6, <2>12, <2>13
<1> QED BY <1>2, <1>3

(* The requests out that have a lane of the instruction in context c, and  *)
(* the value shown for a lane: what its register holds, or what memory has *)
(* answered to the request that has it.                                    *)
Outs(c, l) == {t \in Tg : tags[t].v /\ tags[t].c = c /\ l \in tags[t].mask}
Shown(r, T, e, w) == IF r # None \/ T = {} THEN r ELSE e[CHOOSE t \in T : TRUE][w]

(* A lane that is not pending gets no new request, and keeps the answer to *)
(* the one it has until that comes back.                                   *)
LEMMA OutsStep ==
  ASSUME EngInv, NEW n, NEW gnt, NEW rt, NEW f, NEW a, NEW g, NEW fin, Ticks(n, gnt, rt, f, a, g, fin),
         NEW c \in Cx, NEW l \in Lane, l \notin ctx[c].pend
  PROVE  /\ Outs(c, l)' \subseteq Outs(c, l)
         /\ \A t \in Outs(c, l) : rt # t =>
              t \in Outs(c, l)' /\ (resp[t] # NoData => resp'[t] = resp[t])
<1>1. ASSUME NEW t \in Tg, tags'[t].v, tags'[t].c = c, l \in tags'[t].mask PROVE t \in Outs(c, l)
  <2>1. CASE ~tags'[t].v /\ tags'[t] = FreeTag /\ rt = t BY <1>1, <2>1
  <2>2. CASE tags'[t] = tags[t] BY <1>1, <2>2 DEF Outs
  <2>3. CASE /\ f # NoReq /\ tags'[t] = [v |-> TRUE, c |-> f.c, mask |-> f.mask, kind |-> f.kind]
    <3>1. f.c = c /\ l \in f.mask BY <1>1, <2>3
    <3>2. f.mask \subseteq ctx[c].pend BY <3>1, FireMask
    <3> QED BY <3>1, <3>2
  <2> QED BY <2>1, <2>2, <2>3, TagOrigin
<1>2. ASSUME NEW t \in Outs(c, l), rt # t PROVE t \in Outs(c, l)' /\ (resp[t] # NoData => resp'[t] = resp[t])
  <2>1. t \in Tg /\ tags[t].v /\ tags[t].c = c /\ l \in tags[t].mask BY DEF Outs
  <2>2. TagNext(t, rt, f, a) BY <2>1, TagStep
  <2>3. tags'[t] = tags[t] BY <1>2, <2>1, <2>2 DEF TagNext
  <2>4. /\ resp'[t] = IF t = rt THEN NoData ELSE IF g.tag = t THEN ReadLine(g.line) ELSE resp[t]
        /\ g.tag = t => \/ ~conf.BYP /\ g = o /\ o # NoReq /\ tags[t].v /\ resp[t] = NoData
                        \/ conf.BYP /\ g = f /\ f # NoReq /\ ~tags[t].v
    BY <2>1, RespStep
  <2> QED BY <1>2, <2>1, <2>3, <2>4 DEF Outs
<1> QED BY <1>1, <1>2 DEF Outs

(* The requests out of an instruction after the cycle are those of the     *)
(* context that holds it.                                                  *)
LEMMA OwedStep ==
  ASSUME EngInv, IdsOk, NEW n, NEW gnt, NEW rt, NEW f, NEW a, NEW g, NEW fin,
         Ticks(n, gnt, rt, f, a, g, fin), NEW k \in 1 .. Len(op), NEW l
  PROVE  /\ \A c \in Cx : c_busy(c) /\ ctx[c].id = k =>
              Owed(k, l) = Outs(c, l) /\ Owed(k, l)' = Outs(c, l)'
         /\ (\A c \in Cx : c_busy(c) => ctx[c].id # k) => Owed(k, l) = {} /\ Owed(k, l)' = {}
<1>1. ASSUME NEW t \in Tg, NEW d \in Cx, tags'[t].v, tags'[t].c = d
      PROVE  c_busy(d) /\ c_busy(d)' /\ ctx'[d].id = ctx[d].id
  <2>1. KeptCtx(d, f, a, fin) BY <1>1, OwnerStep
  <2> QED BY <2>1 DEF KeptCtx, c_busy
<1>2. ASSUME NEW c \in Cx, c_busy(c), ctx[c].id = k
      PROVE  Owed(k, l) = Outs(c, l) /\ Owed(k, l)' = Outs(c, l)'
  <2>1. \A d \in Cx : c_busy(d) /\ ctx[d].id = k => d = c BY <1>2 DEF IdsOk
  <2>2. Owed(k, l) = Outs(c, l) BY <1>2, <2>1 DEF Owed, Outs, Holder
  <2>3. \A t \in Tg : tags'[t].v =>
          (tags'[t].c \in Holder(k)' <=> tags'[t].c = c)
    <3> SUFFICES ASSUME NEW t \in Tg, tags'[t].v PROVE tags'[t].c \in Holder(k)' <=> tags'[t].c = c
      OBVIOUS
    <3>1. ASSUME tags'[t].c \in Holder(k)' PROVE tags'[t].c = c
      <4>1. PICK d \in Cx : d = tags'[t].c /\ ctx'[d].id = k BY <3>1 DEF Holder
      <4> QED BY <1>1, <2>1, <4>1
    <3>2. ASSUME tags'[t].c = c PROVE tags'[t].c \in Holder(k)'
      <4>1. c_busy(c)' /\ ctx'[c].id = k BY <1>1, <1>2, <3>2
      <4> QED BY <3>2, <4>1 DEF Holder
    <3> QED BY <3>1, <3>2
  <2>4. Owed(k, l)' = Outs(c, l)' BY <2>3 DEF Owed, Outs
  <2> QED BY <2>2, <2>4
<1>3. ASSUME \A c \in Cx : c_busy(c) => ctx[c].id # k PROVE Owed(k, l) = {} /\ Owed(k, l)' = {}
  <2>1. Owed(k, l) = {} BY <1>3 DEF Owed, Holder
  <2>2. ASSUME NEW t \in Tg, tags'[t].v, tags'[t].c \in Holder(k)' PROVE FALSE
    <3>1. PICK d \in Cx : d = tags'[t].c /\ ctx'[d].id = k BY <2>2 DEF Holder
    <3> QED BY <1>1, <1>3, <2>2, <3>1
  <2> QED BY <2>1, <2>2 DEF Owed
<1> QED BY <1>2, <1>3

(* A lane that took effect before shows what it did.                       *)
LEMMA SettledStep ==
  ASSUME AtomInv, NEW n, NEW gnt, NEW rt, NEW f, NEW a, NEW g, NEW fin, Ticks(n, gnt, rt, f, a, g, fin),
         NEW c \in Cx, c_busy(c), Returns(P(c)), NEW l \in Lane, l \notin Due(c)
  PROVE  LET k == ctx[c].id
             w == P(c).addr[l] % LW
         IN  Shown(got'[k][l], Outs(c, l)', resp', w) = Shown(got[k][l], Outs(c, l), resp, w)
<1> DEFINE k == ctx[c].id
           w == P(c).addr[l] % LW
<1>e. EngInv /\ IdsOk /\ RequestsOk /\ RegsOk /\ RoundsOk BY DEF AtomInv
<1>p. l \notin ctx[c].pend BY DEF Due
<1>k. /\ k \in 1 .. Len(op) /\ P(c).kind \in {"load", "amo"} /\ P(c).wb
  BY <1>e, BusyFacts DEF EngInv, Returns
<1>o. /\ Outs(c, l)' \subseteq Outs(c, l)
      /\ \A t \in Outs(c, l) : rt # t =>
           t \in Outs(c, l)' /\ (resp[t] # NoData => resp'[t] = resp[t])
  BY <1>e, <1>p, OutsStep
<1>g. got'[k][l] = IF wb(a).n = k /\ l \in wb(a).lanes THEN wb(a).data[l] ELSE got[k][l]
  BY <1>e, <1>k, GotStep
<1>w. wb(a).n = k /\ l \in wb(a).lanes =>
        ByTag(c, l, rt, a) \/ ByBypass(c, l, rt, f, a, g) \/ ByRound(c, l, a) \/ ByScratch(c, l, a)
  BY <1>e, WbOf
<1>b. ~ByBypass(c, l, rt, f, a, g) BY <1>e, <1>p, FireMask DEF ByBypass
<1>t. \A t \in Outs(c, l) : t \in Tg /\ tags[t].v /\ tags[t].c = c /\ l \in tags[t].mask /\ Owns(c, t)
  <2> SUFFICES ASSUME NEW t \in Outs(c, l)
               PROVE  t \in Tg /\ tags[t].v /\ tags[t].c = c /\ l \in tags[t].mask /\ Owns(c, t)
    OBVIOUS
  <2>1. t \in Tg /\ tags[t].v /\ tags[t].c = c /\ l \in tags[t].mask BY DEF Outs
  <2>2. TagOk(t) BY <1>e, <2>1 DEF EngInv, TagsOk
  <2> QED BY <2>1, <2>2 DEF TagOk
<1>1. CASE P(c).scratch
  <2>1. Outs(c, l) = {} BY <1>1, <1>t DEF Owns, Global
  <2>2. ~ByTag(c, l, rt, a) BY <2>1 DEF ByTag, Outs
  <2>3. ~ByRound(c, l, a) BY <1>1 DEF ByRound, Locked, c_locked, Global
  <2>4. ~ByScratch(c, l, a)
    <3>1. sc_step(a) /\ sc_c = c => ctx[c].pend # {} /\ sc_lead = c_lead(c)
      BY <1>e, ScratchFacts DEF EngInv, ScratchOk
    <3>2. ctx[c].pend # {} => c_lead(c) \in ctx[c].pend BY <1>e, LeadFacts DEF EngInv
    <3> QED BY <1>p, <3>1, <3>2 DEF ByScratch
  <2>5. got'[k][l] = got[k][l] BY <1>b, <1>g, <1>w, <2>2, <2>3, <2>4
  <2>6. Outs(c, l)' = {} BY <1>o, <2>1
  <2> HIDE DEF k, w
  <2>7. Shown(got'[k][l], Outs(c, l)', resp', w) = Shown(got[k][l], Outs(c, l), resp, w)
    BY <2>1, <2>5, <2>6 DEF Shown
  <2> QED BY <2>7 DEF k, w
<1>2. CASE ~P(c).scratch /\ P(c).kind = "amo"
  <2>1. got'[k][l] = got[k][l]
    <3>1. ~(c \in Locked /\ lock_c = c /\ ctx[c].ph = "AP_AGG" /\ l \in a_rnd)
      <4>1. SUFFICES ASSUME c \in Locked, lock_c = c, ctx[c].ph = "AP_AGG", l \in a_rnd PROVE FALSE
        OBVIOUS
      <4>2. a_act BY <4>1 DEF a_act
      <4>3. l \in mreq_mask(c) BY <1>e, <4>1, <4>2, RoundFacts DEF RoundsOk
      <4>4. ctx[c].pend # {} BY <1>e, <4>1 DEF EngInv, CtxOk
      <4>5. mreq_mask(c) \subseteq ctx[c].pend BY <1>e, <4>4, LeadFacts DEF EngInv
      <4> QED BY <1>p, <4>3, <4>5
    <3> QED BY <1>2, <1>e, <3>1, AmoRegsKept
  <2>2. ASSUME got[k][l] = None PROVE Outs(c, l) = {}
    <3> SUFFICES ASSUME NEW t \in Outs(c, l) PROVE FALSE OBVIOUS
    <3>1. t \in Tg /\ tags[t].v /\ tags[t].c = c /\ l \in tags[t].mask BY <1>t
    <3>2. l \in P(c).mask BY <1>e, <3>1 DEF RequestsOk
    <3>3. l \in ctx[c].pend \/ Has(c, l) \/ Loading(c, l) BY <1>e, <3>2 DEF EngInv, ServedOk
    <3>4. PICK u \in Tg : tags[u].v /\ tags[u].c = c /\ tags[u].kind = "MK_LOAD" /\ l \in tags[u].mask
      BY <1>p, <2>2, <3>3 DEF Has, Loading
    <3>5. u \in Outs(c, l) BY <3>4 DEF Outs
    <3> QED BY <1>2, <1>t, <3>4, <3>5 DEF Owns
  <2>3. got[k][l] = None => Outs(c, l)' = {} BY <1>o, <2>2
  <2> HIDE DEF k, w
  <2>4. Shown(got'[k][l], Outs(c, l)', resp', w) = Shown(got[k][l], Outs(c, l), resp, w)
    BY <2>1, <2>2, <2>3 DEF Shown
  <2> QED BY <2>4 DEF k, w
<1>3. CASE ~P(c).scratch /\ P(c).kind = "load"
  <2>0. Global(c) BY <1>3 DEF Global
  <2>1. ~ByRound(c, l, a) /\ ~ByScratch(c, l, a) BY <1>3 DEF ByRound, ByScratch
  <2>2. \A t \in Outs(c, l) : got[k][l] = None /\ \A u \in Outs(c, l) : u = t
    <3> SUFFICES ASSUME NEW t \in Outs(c, l) PROVE got[k][l] = None /\ \A u \in Outs(c, l) : u = t
      OBVIOUS
    <3>1. ~Has(c, l) BY <1>3, <1>e, <1>t, <2>0 DEF RegsOk
    <3>2. ASSUME NEW u \in Outs(c, l), u # t PROVE FALSE
      <4>1. tags[t].mask \cap tags[u].mask = {} BY <1>3, <1>e, <1>t, <2>0, <3>2 DEF RegsOk
      <4> QED BY <1>t, <4>1
    <3> QED BY <3>1, <3>2 DEF Has
  <2>3. ByTag(c, l, rt, a) => rt \in Outs(c, l) BY DEF ByTag, Outs
  <2>4. CASE Outs(c, l) = {}
    <3>1. got'[k][l] = got[k][l] BY <1>b, <1>g, <1>w, <2>1, <2>3, <2>4
    <3>2. Outs(c, l)' = {} BY <1>o, <2>4
    <3> HIDE DEF k, w
    <3>3. Shown(got'[k][l], Outs(c, l)', resp', w) = Shown(got[k][l], Outs(c, l), resp, w)
      BY <2>4, <3>1, <3>2 DEF Shown
    <3> QED BY <3>3 DEF k, w
  <2>5. CASE Outs(c, l) # {}
    <3>1. PICK t \in Outs(c, l) : TRUE BY <2>5
    <3>2. Outs(c, l) = {t} /\ got[k][l] = None BY <2>2, <3>1
    <3>3. resp[t] # NoData
      <4>1. ASSUME resp[t] = NoData PROVE FALSE
        <5>1. o # NoReq /\ o.tag = t BY <1>e, <1>t, <4>1 DEF RequestsOk
        <5>2. tags[o.tag] = [v |-> TRUE, c |-> o.c, mask |-> o.mask, kind |-> o.kind]
          BY <1>e, <5>1 DEF EngInv, StageOk
        <5>3. o.c = c /\ l \in o.mask BY <1>t, <5>1, <5>2
        <5> QED BY <5>3 DEF Due
      <4> QED BY <4>1
    <3>4. (CHOOSE u \in {t} : TRUE) = t OBVIOUS
    <3>5. Shown(got[k][l], Outs(c, l), resp, w) = resp[t][w]
      <4> HIDE DEF k, w
      <4> QED BY <3>2, <3>4 DEF Shown
    <3>6. CASE rt = t
      <4>1. TagNext(t, rt, f, a) BY <1>e, <1>t, TagStep
      <4>2. ~a.byp
        <5>1. a.byp => ~tags[rt].v
          <6>1. CASE rt = 0 /\ a = NoAnswer BY <6>1, NoAnswerFacts
          <6>2. CASE a = [c |-> tags[rt].c, mask |-> tags[rt].mask, kind |-> tags[rt].kind, byp |-> FALSE,
                          data |-> resp[rt]]
            BY <6>2
          <6>3. CASE ~tags[rt].v BY <6>3
          <6> QED BY <1>e, <6>1, <6>2, <6>3, AnswerFacts
        <5> QED BY <1>t, <3>6, <5>1
      <4>3. a.c = c /\ a.kind = "MK_LOAD" /\ a.mask = tags[t].mask
        BY <1>3, <1>t, <3>6, <4>1, <4>2 DEF TagNext, Owns
      <4>4. wb(a).n = k /\ l \in wb(a).lanes
        <5>1. gwb(a) BY <1>k, <4>3 DEF gwb
        <5> QED BY <1>e, <1>t, <4>3, <5>1, WbFacts
      <4>5. ByTag(c, l, rt, a) BY <1>b, <1>w, <2>1, <4>4
      <4>6. got'[k][l] = resp[t][w] BY <1>g, <3>6, <4>4, <4>5 DEF ByTag
      <4>7. resp[t][w] # None
        <5>1. resp[t] \in [Off -> Val] BY <1>e, <1>t, <3>3 DEF EngInv, TypeOK
        <5>2. P(c).addr[l] \in 0 .. Words - 1 BY <1>e, BusyFacts DEF EngInv
        <5>3. w \in Off BY <5>2, WordPlace
        <5>4. None \notin Val BY DEF None, Val
        <5> HIDE DEF w
        <5> QED BY <5>1, <5>3, <5>4
      <4>8. Shown(got'[k][l], Outs(c, l)', resp', w) = resp[t][w]
        <5> HIDE DEF k, w
        <5> QED BY <4>6, <4>7 DEF Shown
      <4> QED BY <3>5, <4>8
    <3>7. CASE rt # t
      <4>1. Outs(c, l)' = {t} /\ resp'[t] = resp[t] BY <1>o, <3>2, <3>3, <3>7
      <4>2. got'[k][l] = None BY <1>b, <1>g, <1>w, <2>1, <2>3, <3>2, <3>7
      <4>3. Shown(got'[k][l], Outs(c, l)', resp', w) = resp[t][w]
        <5> HIDE DEF k, w
        <5> QED BY <3>4, <4>1, <4>2 DEF Shown
      <4> QED BY <3>5, <4>3
    <3> QED BY <3>6, <3>7
  <2> QED BY <2>4, <2>5
<1> QED BY <1>k, <1>1, <1>2, <1>3

(* What a lane finds in global memory is a value; a load finds memory's.   *)
LEMMA ResultValue ==
  ASSUME NEW p \in Op, ~p.scratch, NEW S \in SUBSET Lane, NEW m \in [0 .. Words - 1 -> Val], NEW l \in S
  PROVE  /\ Result(p, l, S, m) \in Val
         /\ p.kind = "load" => Result(p, l, S, m) = m[p.addr[l]]
<1> DEFINE X == 0 .. Words - 1
<1>1. \A j \in S : At(p, j) = p.addr[j] /\ At(p, j) \in X BY DEF At, Op
<1>2. Fits(p, S, X, m) BY <1>1 DEF Fits
<1>3. l - 1 \in 0 .. NL BY SizeAssumption DEF Lane
<1>4. Found(p, S, m)[l - 1] \in [X -> Val] BY <1>2, <1>3, FoundType
<1>5. p.kind = "load" => Found(p, S, m)[l - 1] = m BY <1>3, FoundLoad
<1> HIDE DEF X
<1> QED BY <1>1, <1>4, <1>5 DEF Result

(* A word as its line shows it.                                            *)
LEMMA LineShows ==
  ASSUME NEW x \in 0 .. Words - 1, NEW n, LineOf(x) = n, EngInv
  PROVE  ReadLine(n)[x % LW] = mem[x] /\ mem[x] \in Val
<1>1. x % LW \in Off /\ LineOf(x) * LW + (x % LW) = x BY WordPlace
<1>2. mem[x] \in Val BY DEF EngInv, TypeOK
<1> HIDE DEF LineOf
<1> QED BY <1>1, <1>2 DEF ReadLine

(* The lanes of a load granted: the answer shows them, or comes back at    *)
(* once.                                                                   *)
LEMMA LoadShows ==
  ASSUME AtomInv, RegsOk', NEW n, NEW gnt, NEW rt, NEW f, NEW a, NEW g, NEW fin,
         Ticks(n, gnt, rt, f, a, g, fin), NEW c \in Cx, g.c = c, P(c).kind = "load", P(c).wb,
         NEW l \in g.mask
  PROVE  \/ got'[ctx[c].id][l] = ReadLine(g.line)[P(c).addr[l] % LW]
         \/ got'[ctx[c].id][l] = None /\ \E t \in Tg : Outs(c, l)' = {t} /\ resp'[t] = ReadLine(g.line)
<1> DEFINE k == ctx[c].id
<1>e. EngInv /\ IdsOk /\ RegsOk BY DEF AtomInv
<1>0. g # NoReq /\ c_busy(c) /\ ~P(c).scratch /\ g.mask \subseteq Lane BY GrantOwned
<1>k. k \in 1 .. Len(op) BY <1>0, <1>e, BusyFacts DEF EngInv
<1>1. ASSUME NEW t \in Tg, tags'[t].v, tags'[t].c = c, l \in tags'[t].mask, resp'[t] = ReadLine(g.line)
      PROVE  got'[k][l] = None /\ \E u \in Tg : Outs(c, l)' = {u} /\ resp'[u] = ReadLine(g.line)
  <2>1. KeptCtx(c, f, a, fin) BY <1>1, <1>e, OwnerStep
  <2>2. ctx'[c].id = k /\ P(c)' = P(c) /\ c_busy(c)' BY <2>1 DEF KeptCtx, c_busy
  <2>3. Global(c)' /\ P(c)'.kind = "load" BY <1>0, <2>2 DEF Global
  <2>4. /\ \A u \in Tg : tags'[u].v /\ tags'[u].c = c => \A j \in tags'[u].mask : got'[k][j] = None
        /\ \A u, v \in Tg : tags'[u].v /\ tags'[v].v /\ tags'[u].c = c /\ tags'[v].c = c /\ u # v
                             => tags'[u].mask \cap tags'[v].mask = {}
    BY <2>2, <2>3 DEF RegsOk, Has
  <2>5. Outs(c, l)' = {t}
    <3>1. t \in Outs(c, l)' BY <1>1 DEF Outs
    <3>2. ASSUME NEW u \in Outs(c, l)', u # t PROVE FALSE
      <4>1. u \in Tg /\ tags'[u].v /\ tags'[u].c = c /\ l \in tags'[u].mask BY <3>2 DEF Outs
      <4> QED BY <1>1, <2>4, <3>2, <4>1
    <3> QED BY <3>1, <3>2
  <2> QED BY <1>1, <2>4, <2>5
<1>2. CASE ~conf.BYP /\ gnt /\ g = o /\ o # NoReq
  <2>1. /\ o.tag \in Tg /\ resp[o.tag] = NoData
        /\ tags[o.tag] = [v |-> TRUE, c |-> o.c, mask |-> o.mask, kind |-> o.kind]
    BY <1>2, <1>e DEF EngInv, StageOk
  <2>2. PICK t \in Tg : t = o.tag BY <2>1
  <2>3. tags[t].v /\ tags[t].c = c /\ tags[t].mask = g.mask /\ resp[t] = NoData /\ g.tag = t BY <1>2, <2>1, <2>2
  <2>4. TagNext(t, rt, f, a) BY <1>e, TagStep
  <2>5. tags'[t] = tags[t] BY <2>3, <2>4 DEF TagNext
  <2>6. t # rt
    <3>1. ASSUME t = rt PROVE FALSE
      <4>1. CASE rt = 0 BY <3>1, <4>1 DEF Tg
      <4>2. CASE resp[rt] # NoData BY <2>3, <3>1, <4>2
      <4>3. CASE ~tags[rt].v BY <2>3, <3>1, <4>3
      <4> QED BY <1>e, <4>1, <4>2, <4>3, AnswerFacts
    <3> QED BY <3>1
  <2>7. resp'[t] = ReadLine(g.line)
    <3>1. resp'[t] = IF t = rt THEN NoData ELSE IF g.tag = t THEN ReadLine(g.line) ELSE resp[t]
      BY <1>e, RespStep
    <3> QED BY <2>3, <2>6, <3>1
  <2> QED BY <1>1, <2>3, <2>5, <2>7
<1>3. CASE conf.BYP /\ gnt /\ g = f /\ f # NoReq
  <2>1. f.c = c /\ f.kind = "MK_LOAD" /\ f.tag \in Tg /\ ~tags[f.tag].v
    <3>1. f.c = c BY <1>3
    <3>2. f.kind = "MK_LOAD" <=> P(c).kind = "load" BY <1>e, <3>1, SentFacts
    <3>3. f.tag \in Tg /\ ~tags[f.tag].v BY <1>e, <3>1, SentFacts
    <3> QED BY <3>1, <3>2, <3>3
  <2>2. PICK t \in Tg : t = f.tag BY <2>1
  <2>3. TagNext(t, rt, f, a) BY <1>e, TagStep
  <2>4. CASE a.byp
    <3>1. a.c = f.c /\ a.mask = f.mask /\ a.kind = f.kind
      <4>1. CASE rt = 0 /\ a = NoAnswer BY <2>4, <4>1, NoAnswerFacts
      <4>2. CASE a = [c |-> tags[rt].c, mask |-> tags[rt].mask, kind |-> tags[rt].kind, byp |-> FALSE,
                      data |-> resp[rt]]
        BY <2>4, <4>2
      <4>3. CASE a = [c |-> f.c, mask |-> f.mask, kind |-> f.kind, byp |-> TRUE, data |-> ReadLine(f.line)]
        BY <4>3
      <4> QED BY <1>e, <4>1, <4>2, <4>3, AnswerFacts
    <3>2. gwb(a) BY <2>1, <3>1 DEF gwb
    <3>3. wb(a).n = k /\ l \in wb(a).lanes BY <1>3, <1>e, <2>1, <3>1, <3>2, WbFacts
    <3>4. ByTag(c, l, rt, a) \/ ByBypass(c, l, rt, f, a, g) \/ ByRound(c, l, a) \/ ByScratch(c, l, a)
      BY <1>0, <1>e, <3>3, WbOf
    <3>5. ByBypass(c, l, rt, f, a, g) BY <1>0, <2>4, <3>4 DEF ByTag, ByRound, ByScratch
    <3>6. l \in Lane BY <1>0
    <3>7. wb(a).data[l] = ReadLine(g.line)[P(c).addr[l] % LW] BY <3>5, <3>6 DEF ByBypass
    <3>8. got'[k][l] = wb(a).data[l] BY <1>e, <1>k, <3>3, <3>6, GotStep
    <3> QED BY <3>7, <3>8
  <2>5. CASE ~a.byp
    <3>1. rt # t
      <4>1. ASSUME rt = t PROVE FALSE BY <2>1, <2>2, <2>3, <2>5, <4>1 DEF TagNext
      <4> QED BY <4>1
    <3>2. tags'[t] = [v |-> TRUE, c |-> f.c, mask |-> f.mask, kind |-> f.kind]
      BY <2>2, <2>3, <2>5, <3>1 DEF TagNext
    <3>3. resp'[t] = ReadLine(g.line)
      <4>1. resp'[t] = IF t = rt THEN NoData ELSE IF g.tag = t THEN ReadLine(g.line) ELSE resp[t]
        BY <1>e, RespStep
      <4> QED BY <1>3, <2>2, <3>1, <4>1
    <3>4. tags'[t].v /\ tags'[t].c = c /\ l \in tags'[t].mask BY <1>3, <2>1, <3>2
    <3> QED BY <1>1, <3>3, <3>4
  <2> QED BY <2>4, <2>5, <2>3 DEF TagNext
<1> QED BY <1>0, <1>2, <1>3, <1>e, GrantFacts

(* A lane that takes effect shows what it found.                           *)
LEMMA ServedShows ==
  ASSUME AtomInv, RegsOk', NEW n, NEW gnt, NEW rt, NEW f, NEW a, NEW g, NEW fin,
         Ticks(n, gnt, rt, f, a, g, fin),
         NEW c \in Cx, c_busy(c), Returns(P(c)), NEW l \in Serves(c, a, g)
  PROVE  LET k == ctx[c].id
             w == P(c).addr[l] % LW
         IN  /\ l \in Lane
             /\ Shown(got'[k][l], Outs(c, l)', resp', w)
                  = Result(P(c), l, Serves(c, a, g), IF P(c).scratch THEN scr ELSE mem)
<1> DEFINE k == ctx[c].id
           w == P(c).addr[l] % LW
<1>e. EngInv /\ IdsOk /\ RequestsOk /\ RegsOk /\ RoundsOk BY DEF AtomInv
<1>k. /\ k \in 1 .. Len(op) /\ P(c).kind \in {"load", "amo"} /\ P(c).wb /\ P(c) \in Op
      /\ P(c).addr \in [Lane -> 0 .. Words - 1]
  BY <1>e, BusyFacts DEF EngInv, Returns
<1>n. None \notin Val BY DEF None, Val
<1>1. CASE P(c).scratch
  <2>1. sc_step(a) /\ sc_c = c /\ l = c_lead(c) BY <1>1 DEF Serves, c_scs
  <2>2. /\ Serves(c, a, g) = {c_lead(c)} /\ c_lead(c) \in Lane
        /\ Result(P(c), c_lead(c), {c_lead(c)}, scr) = sc_rd
    BY <1>e, <2>1, ScratchStep
  <2>3. sc_rd \in Val /\ sc_lead = l BY <1>e, <2>1, ScratchFacts
  <2>4. wb(a).n = k /\ l \in wb(a).lanes BY <1>e, <2>1, <2>3, WbFacts
  <2>5. ByTag(c, l, rt, a) \/ ByBypass(c, l, rt, f, a, g) \/ ByRound(c, l, a) \/ ByScratch(c, l, a)
    BY <1>e, <2>4, WbOf
  <2>6. ByScratch(c, l, a)
    <3>1. ~ByTag(c, l, rt, a)
      <4>1. ASSUME rt \in Tg, tags[rt].v, tags[rt].c = c PROVE FALSE
        <5>1. TagOk(rt) BY <1>e, <4>1 DEF EngInv, TagsOk
        <5> QED BY <1>1, <4>1, <5>1 DEF TagOk, Owns, Global
      <4> QED BY <4>1 DEF ByTag
    <3>2. ~ByBypass(c, l, rt, f, a, g) BY <1>1, <1>e, FireMask DEF ByBypass
    <3>3. ~ByRound(c, l, a) BY <1>1 DEF ByRound, Locked, c_locked, Global
    <3> QED BY <2>5, <3>1, <3>2, <3>3
  <2>7. wb(a).data[l] = sc_rd BY <2>1, <2>2, <2>6 DEF ByScratch
  <2>8. got'[k][l] = sc_rd BY <1>e, <1>k, <2>1, <2>2, <2>4, <2>7, GotStep
  <2>9. Shown(got'[k][l], Outs(c, l)', resp', w) = sc_rd
    <3> HIDE DEF k, w
    <3> QED BY <1>n, <2>3, <2>8 DEF Shown
  <2> QED BY <1>1, <2>1, <2>2, <2>9
<1>2. CASE ~P(c).scratch
  <2>1. g.c = c /\ g.kind # "MK_AMORD" /\ Serves(c, a, g) = g.mask BY <1>2 DEF Serves
  <2>2. /\ g # NoReq /\ g.mask \subseteq Lane
        /\ g.kind = "MK_LOAD" <=> P(c).kind = "load"
        /\ \A j \in g.mask : LineOf(P(c).addr[j]) = g.line
        /\ g.kind = "MK_WRITE" /\ P(c).kind = "amo" =>
             Good(P(c), got[k], am, mem, g.line, g.mask, g.mask)
    BY <2>1, GrantOwned
  <2>3. l \in g.mask /\ l \in Lane /\ LineOf(P(c).addr[l]) = g.line /\ P(c).addr[l] \in 0 .. Words - 1
    BY <1>k, <2>1, <2>2
  <2>4. mem \in [0 .. Words - 1 -> Val] BY <1>e DEF EngInv, TypeOK
  <2>5. /\ Result(P(c), l, g.mask, mem) \in Val
        /\ P(c).kind = "load" => Result(P(c), l, g.mask, mem) = mem[P(c).addr[l]]
    BY <1>2, <1>k, <2>2, <2>3, <2>4, ResultValue
  <2>6. CASE P(c).kind = "load"
    <3>1. \/ got'[k][l] = ReadLine(g.line)[w]
          \/ got'[k][l] = None /\ \E t \in Tg : Outs(c, l)' = {t} /\ resp'[t] = ReadLine(g.line)
      <4>1. g.c = c /\ P(c).wb /\ P(c).kind = "load" /\ l \in g.mask BY <1>k, <2>1, <2>3, <2>6
      <4>2. \/ got'[ctx[c].id][l] = ReadLine(g.line)[P(c).addr[l] % LW]
            \/ got'[ctx[c].id][l] = None /\ \E t \in Tg : Outs(c, l)' = {t} /\ resp'[t] = ReadLine(g.line)
        BY <4>1, LoadShows
      <4> QED BY <4>2
    <3>2. ReadLine(g.line)[w] = mem[P(c).addr[l]] /\ mem[P(c).addr[l]] \in Val
      BY <1>e, <2>3, LineShows
    <3>3. \A t : (CHOOSE u \in {t} : TRUE) = t OBVIOUS
    <3>4. Shown(got'[k][l], Outs(c, l)', resp', w) = mem[P(c).addr[l]]
      <4>1. CASE got'[k][l] = ReadLine(g.line)[w]
        <5>1. got'[k][l] = mem[P(c).addr[l]] BY <3>2, <4>1
        <5> HIDE DEF k, w
        <5> QED BY <1>n, <3>2, <5>1 DEF Shown
      <4>2. CASE got'[k][l] = None /\ \E t \in Tg : Outs(c, l)' = {t} /\ resp'[t] = ReadLine(g.line)
        <5>1. PICK t \in Tg : Outs(c, l)' = {t} /\ resp'[t] = ReadLine(g.line) BY <4>2
        <5> HIDE DEF k, w
        <5>2. Shown(got'[k][l], Outs(c, l)', resp', w) = resp'[t][w]
          BY <3>3, <4>2, <5>1 DEF Shown
        <5> QED BY <3>2, <5>1, <5>2
      <4> QED BY <3>1, <4>1, <4>2
    <3> QED BY <1>2, <2>1, <2>3, <2>5, <2>6, <3>4
  <2>7. CASE P(c).kind = "amo"
    <3>1. g.kind = "MK_WRITE"
      <4>1. g.kind \in Kinds
        <5>1. f # NoReq => f.kind \in Kinds /\ f.c \in Cx BY <1>e, FireFacts, SentFacts
        <5>2. o.kind \in Kinds BY <1>e DEF EngInv, TypeOK
        <5> QED BY <1>e, <2>2, <5>1, <5>2, GrantFacts
      <4> QED BY <2>1, <2>2, <2>7, <4>1 DEF Kinds
    <3>2. got[k][l] = Result(P(c), l, g.mask, mem)
      <4>1. Good(P(c), got[k], am, mem, g.line, g.mask, g.mask) BY <2>2, <2>7, <3>1
      <4> HIDE DEF k
      <4> QED BY <2>3, <4>1 DEF Good
    <3>3. ~(c \in Locked /\ lock_c = c /\ ctx[c].ph = "AP_AGG" /\ l \in a_rnd)
      <4>1. CASE ~conf.BYP /\ gnt /\ g = o /\ o # NoReq
        <5>1. o.kind # "MK_AMORD" BY <2>1, <4>1
        <5>2. Locked = {} BY <1>e, <4>1, <5>1 DEF EngInv, StageOk
        <5> QED BY <5>2
      <4>2. CASE conf.BYP /\ gnt /\ g = f /\ f # NoReq
        <5>1. f.c = c /\ f.kind = "MK_WRITE" BY <2>1, <3>1, <4>2
        <5>2. ctx[c].ph = "AP_WR" BY <1>e, <2>7, <5>1, SentFacts
        <5> QED BY <5>2
      <4> QED BY <1>e, <2>2, <4>1, <4>2, GrantFacts
    <3>4. got'[k][l] = got[k][l] BY <1>2, <1>e, <2>3, <2>7, <3>3, AmoRegsKept
    <3>5. Shown(got'[k][l], Outs(c, l)', resp', w) = Result(P(c), l, g.mask, mem)
      <4> HIDE DEF k, w
      <4> QED BY <1>n, <2>5, <3>2, <3>4 DEF Shown
    <3> QED BY <1>2, <2>1, <2>3, <3>5
  <2> QED BY <1>k, <2>6, <2>7
<1> QED BY <1>1, <1>2

(* The results of an instruction, lane by lane.                            *)
LEMMA ResLanes ==
  \A k : ResOf(k) = [l \in Lane |->
    IF l \in LeftOf(k) \/ ~Returns(op[k]) THEN None
    ELSE Shown(got[k][l], Owed(k, l), resp, op[k].addr[l] % LW)]
BY DEF ResOf, Shown
LEMMA ResLanesNext ==
  (\A k : ResOf(k) = [l \in Lane |->
    IF l \in LeftOf(k) \/ ~Returns(op[k]) THEN None
    ELSE Shown(got[k][l], Owed(k, l), resp, op[k].addr[l] % LW)])'
BY ResLanes, PTL

(* The lanes of an instruction that take effect show what they found, the  *)
(* others what they showed.                                                *)
LEMMA ResStep ==
  ASSUME AtomInv, AtomInv', NEW n, NEW gnt, NEW rt, NEW f, NEW a, NEW g, NEW fin,
         Ticks(n, gnt, rt, f, a, g, fin), NEW k \in 1 .. Len(op)
  PROVE  LET T == LeftOf(k) \ LeftOf(k)'
         IN  /\ LeftOf(k)' \subseteq LeftOf(k)
             /\ \A l \in Lane : ResOf(k)'[l] =
                  IF l \in T /\ Returns(op[k])
                  THEN Result(op[k], l, T, IF op[k].scratch THEN scr ELSE mem) ELSE ResOf(k)[l]
<1> DEFINE T == LeftOf(k) \ LeftOf(k)'
           R(l) == IF l \in T /\ Returns(op[k])
                   THEN Result(op[k], l, T, IF op[k].scratch THEN scr ELSE mem) ELSE ResOf(k)[l]
<1>e. EngInv /\ IdsOk /\ RequestsOk /\ RegsOk /\ RoundsOk BY DEF AtomInv
<1>f. StageOk' /\ IdsOk' /\ RegsOk' BY DEF AtomInv, EngInv
<1>t. /\ \A c \in Cx : c_busy(c) /\ ctx[c].id = k =>
           /\ LeftOf(k) = Due(c) /\ Serves(c, a, g) \subseteq Due(c)
           /\ LeftOf(k)' = Due(c) \ Serves(c, a, g)
      /\ (\A c \in Cx : c_busy(c) => ctx[c].id # k) => LeftOf(k)' = LeftOf(k)
  BY <1>e, <1>f, TookStep
<1>n. op'[k] = op[k] BY <1>e, OpGrows
<1>o. \A l \in Lane : /\ \A c \in Cx : c_busy(c) /\ ctx[c].id = k =>
                           Owed(k, l) = Outs(c, l) /\ Owed(k, l)' = Outs(c, l)'
                      /\ (\A c \in Cx : c_busy(c) => ctx[c].id # k) => Owed(k, l) = {} /\ Owed(k, l)' = {}
  BY <1>e, OwedStep
<1>1. ASSUME NEW l \in Lane
      PROVE  /\ ResOf(k)[l] = IF l \in LeftOf(k) \/ ~Returns(op[k]) THEN None
                              ELSE Shown(got[k][l], Owed(k, l), resp, op[k].addr[l] % LW)
             /\ ResOf(k)'[l] = IF l \in LeftOf(k)' \/ ~Returns(op[k]) THEN None
                               ELSE Shown(got'[k][l], Owed(k, l)', resp', op[k].addr[l] % LW)
  <2>1. ResOf(k) = [j \in Lane |->
          IF j \in LeftOf(k) \/ ~Returns(op[k]) THEN None
          ELSE Shown(got[k][j], Owed(k, j), resp, op[k].addr[j] % LW)]
    BY ResLanes
  <2>2. ResOf(k)' = [j \in Lane |->
          IF j \in LeftOf(k)' \/ ~Returns(op'[k]) THEN None
          ELSE Shown(got'[k][j], Owed(k, j)', resp', op'[k].addr[j] % LW)]
    BY ResLanesNext
  <2> QED BY <1>n, <2>1, <2>2
<1>2. ASSUME NEW c \in Cx, c_busy(c), ctx[c].id = k, NEW l \in Lane PROVE ResOf(k)'[l] = R(l)
  <2>1. P(c) = op[k] BY <1>2 DEF P
  <2>2. T = Serves(c, a, g) BY <1>2, <1>t
  <2>3. CASE ~Returns(op[k]) BY <1>1, <2>3
  <2>4. CASE Returns(op[k]) /\ l \in Serves(c, a, g)
    <3>1. Shown(got'[k][l], Outs(c, l)', resp', op[k].addr[l] % LW)
            = Result(op[k], l, Serves(c, a, g), IF op[k].scratch THEN scr ELSE mem)
      BY <1>2, <1>f, <2>1, <2>4, ServedShows
    <3>2. l \notin LeftOf(k)' BY <1>2, <1>t, <2>4
    <3>3. ResOf(k)'[l] = Shown(got'[k][l], Outs(c, l)', resp', op[k].addr[l] % LW)
      BY <1>1, <1>2, <1>o, <2>4, <3>2
    <3> QED BY <2>2, <2>4, <3>1, <3>3
  <2>5. CASE Returns(op[k]) /\ l \notin Serves(c, a, g) /\ l \in Due(c)
    <3>1. l \in LeftOf(k) /\ l \in LeftOf(k)' BY <1>2, <1>t, <2>5
    <3> QED BY <1>1, <3>1
  <2>6. CASE Returns(op[k]) /\ l \notin Due(c)
    <3>1. l \notin LeftOf(k) /\ l \notin LeftOf(k)' BY <1>2, <1>t, <2>6
    <3>2. Shown(got'[k][l], Outs(c, l)', resp', op[k].addr[l] % LW)
            = Shown(got[k][l], Outs(c, l), resp, op[k].addr[l] % LW)
      BY <1>2, <2>1, <2>6, SettledStep
    <3>3. ResOf(k)'[l] = ResOf(k)[l] BY <1>1, <1>2, <1>o, <2>6, <3>1, <3>2
    <3> QED BY <3>1, <3>3
  <2> QED BY <2>3, <2>4, <2>5, <2>6
<1>3. ASSUME \A c \in Cx : c_busy(c) => ctx[c].id # k, NEW l \in Lane PROVE ResOf(k)'[l] = R(l)
  <2>1. LeftOf(k)' = LeftOf(k) /\ T = {} BY <1>3, <1>t
  <2>2. wb(a).n # k
    <3>1. wb(a).n # 0 => \E c \in Cx : c_busy(c) /\ wb(a).n = ctx[c].id BY <1>e, WbOwner
    <3> QED BY <1>3, <3>1
  <2>3. got'[k][l] = got[k][l] BY <1>e, <2>2, GotStep
  <2>4. Owed(k, l) = {} /\ Owed(k, l)' = {} BY <1>3, <1>o
  <2>5. \A w : Shown(got'[k][l], Owed(k, l)', resp', w) = Shown(got[k][l], Owed(k, l), resp, w)
    BY <2>3, <2>4 DEF Shown
  <2>6. ResOf(k)'[l] = ResOf(k)[l] BY <1>1, <2>1, <2>5
  <2> QED BY <2>1, <2>6
<1>4. \A l \in Lane : ResOf(k)'[l] = R(l)
  <2> HIDE DEF R
  <2> QED BY <1>2, <1>3
<1>5. LeftOf(k)' \subseteq LeftOf(k)
  <2>1. CASE \E c \in Cx : c_busy(c) /\ ctx[c].id = k BY <1>t, <2>1
  <2>2. CASE \A c \in Cx : c_busy(c) => ctx[c].id # k BY <1>t, <2>2
  <2> QED BY <2>1, <2>2
<1> QED BY <1>4, <1>5

(* The lanes of an instruction that take effect, and the instructions of   *)
(* global memory or the scratchpad that have such lanes.                   *)
Takes(k)    == LeftOf(k) \ LeftOf(k)'
ActiveIn(b) == {k \in 1 .. Len(op) : Takes(k) # {} /\ op[k].scratch = b}

(* They are in a context that serves them.                                 *)
LEMMA TakesOf ==
  ASSUME AtomInv, AtomInv', NEW n, NEW gnt, NEW rt, NEW f, NEW a, NEW g, NEW fin,
         Ticks(n, gnt, rt, f, a, g, fin), NEW k \in 1 .. Len(op)
  PROVE  /\ \A c \in Cx : c_busy(c) /\ ctx[c].id = k => Takes(k) = Serves(c, a, g)
         /\ Takes(k) # {} => \E c \in Cx : c_busy(c) /\ ctx[c].id = k /\ Takes(k) = Serves(c, a, g)
<1>1. EngInv /\ IdsOk /\ RequestsOk /\ StageOk' /\ IdsOk' BY DEF AtomInv, EngInv
<1>2. /\ \A c \in Cx : c_busy(c) /\ ctx[c].id = k =>
           /\ LeftOf(k) = Due(c) /\ Serves(c, a, g) \subseteq Due(c)
           /\ LeftOf(k)' = Due(c) \ Serves(c, a, g)
      /\ (\A c \in Cx : c_busy(c) => ctx[c].id # k) => LeftOf(k)' = LeftOf(k)
  BY <1>1, TookStep
<1>3. \A c \in Cx : c_busy(c) /\ ctx[c].id = k => Takes(k) = Serves(c, a, g) BY <1>2 DEF Takes
<1>4. (\A c \in Cx : c_busy(c) => ctx[c].id # k) => Takes(k) = {} BY <1>2 DEF Takes
<1> QED BY <1>3, <1>4

(* One global instruction at most has lanes that take effect, and they do  *)
(* so in lane order.                                                       *)
LEMMA GlobalEffect ==
  ASSUME AtomInv, AtomInv', NEW n, NEW gnt, NEW rt, NEW f, NEW a, NEW g, NEW fin,
         Ticks(n, gnt, rt, f, a, g, fin)
  PROVE  \/ ActiveIn(FALSE) = {} /\ mem' = mem
         \/ \E k \in 1 .. Len(op) : ActiveIn(FALSE) = {k} /\ mem' = After(op[k], Takes(k), mem)
<1>e. EngInv BY DEF AtomInv
<1>1. ASSUME NEW k \in ActiveIn(FALSE)
      PROVE  \E c \in Cx : /\ c_busy(c) /\ ctx[c].id = k /\ ~P(c).scratch /\ Takes(k) = Serves(c, a, g)
                           /\ g.c = c /\ g.kind # "MK_AMORD" /\ Takes(k) = g.mask
  <2>1. k \in 1 .. Len(op) /\ Takes(k) # {} /\ op[k].scratch = FALSE BY DEF ActiveIn
  <2>2. PICK c \in Cx : c_busy(c) /\ ctx[c].id = k /\ Takes(k) = Serves(c, a, g) BY <2>1, TakesOf
  <2>3. ~P(c).scratch BY <2>1, <2>2 DEF P
  <2> QED BY <2>1, <2>2, <2>3 DEF Serves
<1>2. CASE \E c \in Cx : g.c = c /\ g.kind # "MK_AMORD"
  <2>1. PICK c \in Cx : g.c = c /\ g.kind # "MK_AMORD" BY <1>2
  <2>2. c_busy(c) /\ ~P(c).scratch BY <2>1, GrantOwned
  <2>3. PICK k \in 1 .. Len(op) : k = ctx[c].id /\ P(c) = op[k] BY <1>e, <2>2, BusyFacts DEF EngInv, P
  <2>4. mem' = After(op[k], g.mask, mem) BY <2>1, <2>3, MemoryStep
  <2>5. Takes(k) = g.mask
    <3>1. Takes(k) = Serves(c, a, g) BY <2>2, <2>3, TakesOf
    <3> QED BY <2>1, <2>2, <3>1 DEF Serves
  <2>6. op[k].scratch = FALSE BY <1>e, <2>2, <2>3, BusyFacts DEF EngInv
  <2>7. ActiveIn(FALSE) \subseteq {k} BY <1>1, <2>1, <2>3
  <2>8. CASE g.mask # {}
    <3>1. k \in ActiveIn(FALSE) BY <2>5, <2>6, <2>8 DEF ActiveIn
    <3> QED BY <2>4, <2>5, <2>7, <3>1
  <2>9. CASE g.mask = {}
    <3>1. ActiveIn(FALSE) = {} BY <2>5, <2>7, <2>9 DEF ActiveIn
    <3>2. mem' = mem
      <4>1. NL \in 0 .. NL BY SizeAssumption
      <4>2. g.mask \in SUBSET Lane BY <2>9
      <4>3. Found(op[k], g.mask, mem)[NL] = mem BY <2>9, <4>1, <4>2, FoundLoad
      <4> QED BY <2>4, <4>3 DEF After
    <3> QED BY <3>1, <3>2
  <2> QED BY <2>8, <2>9
<1>3. CASE ~\E c \in Cx : g.c = c /\ g.kind # "MK_AMORD"
  <2>1. ActiveIn(FALSE) = {} BY <1>1, <1>3
  <2>2. mem' = IF g.kind = "MK_WRITE" THEN Stored(g) ELSE mem BY DEF Ticks, Memory
  <2>3. CASE g = NoReq BY <2>1, <2>2, <2>3 DEF NoReq
  <2>4. CASE g # NoReq
    <3>1. g.c \in Cx BY <1>e, <2>4, GrantOk
    <3> QED BY <1>3, <2>1, <2>2, <3>1
  <2> QED BY <2>3, <2>4
<1> QED BY <1>2, <1>3

(* And one scratchpad instruction.                                         *)
LEMMA ScratchEffect ==
  ASSUME AtomInv, AtomInv', NEW n, NEW gnt, NEW rt, NEW f, NEW a, NEW g, NEW fin,
         Ticks(n, gnt, rt, f, a, g, fin)
  PROVE  \/ ActiveIn(TRUE) = {} /\ scr' = scr
         \/ \E k \in 1 .. Len(op) : ActiveIn(TRUE) = {k} /\ scr' = After(op[k], Takes(k), scr)
<1>e. EngInv /\ IdsOk BY DEF AtomInv
<1>1. ASSUME NEW k \in ActiveIn(TRUE)
      PROVE  \E c \in Cx : c_busy(c) /\ ctx[c].id = k /\ P(c).scratch /\ Serves(c, a, g) # {}
  <2>1. k \in 1 .. Len(op) /\ Takes(k) # {} /\ op[k].scratch = TRUE BY DEF ActiveIn
  <2>2. PICK c \in Cx : c_busy(c) /\ ctx[c].id = k /\ Takes(k) = Serves(c, a, g) BY <2>1, TakesOf
  <2> QED BY <2>1, <2>2 DEF P
<1>2. CASE ~sc_step(a)
  <2>1. scr' = scr /\ \A c \in Cx : P(c).scratch => Serves(c, a, g) = {} BY <1>2, <1>e, ScratchStep
  <2> QED BY <1>1, <2>1
<1>3. CASE sc_step(a)
  <2>1. PICK c \in Cx :
          /\ c = sc_c /\ c_busy(c) /\ P(c).scratch /\ Serves(c, a, g) = {c_lead(c)} /\ c_lead(c) \in Lane
          /\ \A d \in Cx : d # c /\ P(d).scratch => Serves(d, a, g) = {}
          /\ scr' = After(P(c), {c_lead(c)}, scr)
    BY <1>3, <1>e, ScratchStep
  <2>2. PICK k \in 1 .. Len(op) : k = ctx[c].id /\ P(c) = op[k] BY <1>e, <2>1, BusyFacts DEF EngInv, P
  <2>3. Takes(k) = {c_lead(c)} BY <2>1, <2>2, TakesOf
  <2>4. op[k].scratch = TRUE BY <1>e, <2>1, <2>2, BusyFacts DEF EngInv
  <2>5. ActiveIn(TRUE) = {k}
    <3>1. k \in ActiveIn(TRUE) BY <2>3, <2>4 DEF ActiveIn
    <3>2. ActiveIn(TRUE) \subseteq {k} BY <1>1, <2>1, <2>2
    <3> QED BY <3>1, <3>2
  <2> QED BY <2>1, <2>2, <2>3, <2>5
<1> QED BY <1>2, <1>3

(* A warp is told of an instruction that has no lane left.                 *)
LEMMA ToldStep ==
  ASSUME AtomInv, AtomInv', NEW n, NEW gnt, NEW rt, NEW f, NEW a, NEW g, NEW fin,
         Ticks(n, gnt, rt, f, a, g, fin)
  PROVE  resumed \subseteq resumed' /\ \A k \in resumed' : k \in 1 .. Len(op) /\ LeftOf(k)' = {}
<1>e. EngInv /\ IdsOk /\ IdsOk' BY DEF AtomInv
<1>1. resumed' = resumed \cup ({IF conf.BYP THEN rs_id(fin) ELSE rs} \ {0}) BY DEF Ticks, Resume
<1>2. ASSUME NEW k \in resumed' PROVE k \in 1 .. Len(op) /\ LeftOf(k)' = {}
  <2>1. k \in 1 .. Len(op)
    <3>1. resumed \subseteq 1 .. Len(op) /\ rs \in 0 .. Len(op) /\ Len(op) \in Nat
      BY <1>e, OpGrows DEF EngInv, TypeOK
    <3>2. rs_id(fin) \in 0 .. Len(op) BY <1>e, TellStep
    <3> QED BY <1>1, <3>1, <3>2
  <2>2. i' # k BY <1>e, <2>1 DEF IdsOk
  <2>3. Holder(k)' = {} BY <1>e DEF IdsOk, Holder
  <2> QED BY <2>1, <2>2, <2>3, LeftFreeNext
<1> QED BY <1>1, <1>2

(* The atomic memory's operators are the engine's.                         *)
LEMMA SameOps ==
  /\ Atomic!Lane = Lane /\ Atomic!None = None /\ Atomic!MemInit = MemInit /\ Atomic!ScrInit = ScrInit
  /\ \A p : Atomic!Returns(p) = Returns(p)
  /\ \A p, l : Atomic!At(p, l) = At(p, l)
  /\ \A fn, x, y : Atomic!amo_alu(fn, x, y) = amo_alu(fn, x, y)
BY DEF Atomic!Lane, Lane, Atomic!None, None, Atomic!Returns, Returns, Atomic!At, At, Atomic!sc_a, sc_a,
       Atomic!amo_alu, amo_alu, Atomic!MemInit, MemInit, Atomic!ScrInit, ScrInit
LEMMA SameSize == \A S : Atomic!Cardinality(S) = Cardinality(S)
BY DEF Atomic!Cardinality, Cardinality
LEMMA SameFound == \A p, S, m : Atomic!Found(p, S, m) = Found(p, S, m)
BY DEF Atomic!Found, Found, Atomic!At, At, Atomic!sc_a, sc_a, Atomic!amo_alu, amo_alu, Atomic!Lane, Lane
LEMMA SameEffects ==
  /\ \A p, S, m : Atomic!After(p, S, m) = After(p, S, m)
  /\ \A p, l, S, m : Atomic!Result(p, l, S, m) = Result(p, l, S, m)
BY SameOps, SameFound DEF Atomic!After, After, Atomic!Result, Result

(* A clock cycle is a step of the atomic memory.                           *)
LEMMA TicksAtomic ==
  ASSUME AtomInv, AtomInv', NEW n, NEW gnt, NEW rt, NEW f, NEW a, NEW g, NEW fin,
         Ticks(n, gnt, rt, f, a, g, fin)
  PROVE  Atomic!Step
<1>e. EngInv /\ IdsOk /\ IdsOk' /\ StageOk' BY DEF AtomInv, EngInv
<1> DEFINE left == [k \in 1 .. Len(op) |-> LeftOf(k)]
           res  == [k \in 1 .. Len(op) |-> ResOf(k)]
<1>0. /\ Len(op) \in Nat /\ Len(op') \in Nat /\ Len(op') >= Len(op)
      /\ \A k \in 1 .. Len(op) : k \in 1 .. Len(op') /\ op'[k] = op[k]
      /\ (n = 0 => op' = op) /\ (n # 0 => n = Len(op) + 1 /\ Len(op') = n)
  BY <1>e, OpGrows
<1>1. \A k \in 1 .. Len(op) : left[k] = LeftOf(k) /\ left'[k] = LeftOf(k)' /\ res[k] = ResOf(k) /\ res'[k] = ResOf(k)'
  BY <1>0
<1>2. Atomic!Issue
  <2>1. CASE n = 0 BY <1>0, <2>1 DEF Atomic!Issue
  <2>2. CASE n # 0
    <3>1. PICK p \in OpLib : op' = Append(op, p) BY <2>2 DEF Ticks
    <3>2. Len(op') = n /\ op'[n] = p
      <4>1. op \in Seq(OpLib) BY <1>e DEF EngInv, OpsOk
      <4> QED BY <1>0, <2>2, <3>1, <4>1
    <3>3. LeftOf(n)' = op'[n].mask /\ ResOf(n)' = [l \in Lane |-> None] BY <1>e, <2>2, NewLeft
    <3>4. n \in 1 .. Len(op') BY <1>0, <2>2
    <3>5. left'[n] = LeftOf(n)' /\ res'[n] = ResOf(n)' BY <3>4
    <3>6. left'[Len(op')] = p.mask /\ res'[Len(op')] = [l \in Lane |-> None] BY <3>2, <3>3, <3>5
    <3> QED BY <3>1, <3>6 DEF Atomic!Issue, Atomic!Lane, Atomic!None, Lane, None
  <2> QED BY <2>1, <2>2
<1>3. Atomic!Effect
  <2>1. \A k \in 1 .. Len(op) : Atomic!Took(k) = Takes(k) BY <1>1 DEF Atomic!Took, Takes
  <2>2. \A b : Atomic!Active(b) = ActiveIn(b) BY <2>1 DEF Atomic!Active, Atomic!Ids, ActiveIn
  <2>3. \A k \in 1 .. Len(op) : left'[k] \subseteq left[k] BY <1>1, ResStep
  <2>4. Cardinality({}) <= 1 /\ \A k : Cardinality({k}) <= 1
    <3>1. Cardinality({}) <= 1
      <4>1. Cardinality({}) = 0 BY FS_EmptySet
      <4> QED BY <4>1
    <3>2. ASSUME NEW k PROVE Cardinality({k}) <= 1
      <4>1. Cardinality({k}) = 1 BY FS_Singleton
      <4> QED BY <4>1
    <3> QED BY <3>1, <3>2
  <2>5. /\ \A m : Atomic!Apply({}, m) = m
        /\ \A k \in 1 .. Len(op) : \A m : Atomic!Apply({k}, m) = After(op[k], Takes(k), m)
    <3>1. \A k : (CHOOSE u \in {k} : TRUE) = k /\ {k} # {} OBVIOUS
    <3>2. \A k, m : Atomic!Apply({k}, m) = Atomic!After(op[k], Atomic!Took(k), m) BY <3>1 DEF Atomic!Apply
    <3>3. \A m : Atomic!Apply({}, m) = m BY DEF Atomic!Apply
    <3> QED BY <2>1, <3>2, <3>3, SameEffects
  <2>6. Cardinality(Atomic!Active(FALSE)) <= 1 /\ mem' = Atomic!Apply(Atomic!Active(FALSE), mem)
    BY <2>2, <2>4, <2>5, GlobalEffect
  <2>7. Cardinality(Atomic!Active(TRUE)) <= 1 /\ scr' = Atomic!Apply(Atomic!Active(TRUE), scr)
    BY <2>2, <2>4, <2>5, ScratchEffect
  <2>8. ASSUME NEW k \in 1 .. Len(op)
        PROVE  res'[k] = [l \in Lane |->
                 IF l \in Takes(k) /\ Returns(op[k])
                 THEN Result(op[k], l, Takes(k), IF op[k].scratch THEN scr ELSE mem) ELSE res[k][l]]
    <3> DEFINE R(l) == IF l \in Takes(k) /\ Returns(op[k])
                       THEN Result(op[k], l, Takes(k), IF op[k].scratch THEN scr ELSE mem) ELSE ResOf(k)[l]
    <3>1. \A l \in Lane : ResOf(k)'[l] = R(l) BY ResStep DEF Takes
    <3>2. \E h : ResOf(k)' = [l \in Lane |-> h[l]]
      <4>1. ResOf(k)' = [l \in Lane |->
              IF l \in LeftOf(k)' \/ ~Returns(op'[k]) THEN None
              ELSE Shown(got'[k][l], Owed(k, l)', resp', op'[k].addr[l] % LW)]
        BY ResLanesNext
      <4> DEFINE h == [l \in Lane |->
              IF l \in LeftOf(k)' \/ ~Returns(op'[k]) THEN None
              ELSE Shown(got'[k][l], Owed(k, l)', resp', op'[k].addr[l] % LW)]
      <4>2. h = [l \in Lane |-> h[l]] OBVIOUS
      <4>3. ResOf(k)' = h BY <4>1
      <4> HIDE DEF h
      <4> QED BY <4>2, <4>3
    <3> HIDE DEF R
    <3>3. ResOf(k)' = [l \in Lane |-> R(l)] BY <3>1, <3>2
    <3> QED BY <1>1, <3>3 DEF R
  <2>9. \A k \in Atomic!Ids : res'[k] = [l \in Atomic!Lane |->
          IF l \in Atomic!Took(k) /\ Atomic!Returns(op[k])
          THEN Atomic!Result(op[k], l, Atomic!Took(k), IF op[k].scratch THEN scr ELSE mem) ELSE res[k][l]]
    <3> SUFFICES ASSUME NEW k \in 1 .. Len(op)
                 PROVE  res'[k] = [l \in Atomic!Lane |->
                   IF l \in Atomic!Took(k) /\ Atomic!Returns(op[k])
                   THEN Atomic!Result(op[k], l, Atomic!Took(k), IF op[k].scratch THEN scr ELSE mem) ELSE res[k][l]]
      BY DEF Atomic!Ids
    <3>1. Atomic!Took(k) = Takes(k) BY <2>1
    <3> HIDE DEF left, res
    <3> QED BY <2>8, <3>1, SameOps, SameEffects
  <2>10. \A k \in Atomic!Ids : left'[k] \subseteq left[k] BY <2>3 DEF Atomic!Ids
  <2> QED BY <2>6, <2>7, <2>9, <2>10, SameSize DEF Atomic!Effect
<1>4. Atomic!Resume
  <2>1. resumed \subseteq resumed' /\ \A k \in resumed' : k \in 1 .. Len(op) /\ LeftOf(k)' = {} BY ToldStep
  <2> QED BY <1>1, <2>1 DEF Atomic!Resume, Atomic!Ids
<1> QED BY <1>2, <1>3, <1>4 DEF Atomic!Step

(* The initial states are the atomic memory's.                             *)
LEMMA InitAtomic == ASSUME Init PROVE Atomic!Init
<1>1. /\ op = <<>> /\ resumed = {} /\ mem = MemInit /\ scr = ScrInit BY DEF Init
<1>2. Len(op) = 0 /\ 1 .. 0 = {} BY <1>1
<1>3. /\ [k \in 1 .. Len(op) |-> LeftOf(k)] = <<>>
      /\ [k \in 1 .. Len(op) |-> ResOf(k)] = <<>>
  BY <1>2
<1> QED BY <1>1, <1>3, SameOps DEF Atomic!Init

(* A step that changes nothing changes nothing of the atomic memory.       *)
LEMMA StutterAtomic == ASSUME UNCHANGED vars PROVE UNCHANGED Atomic!vars
<1>0. /\ op' = op /\ got' = got /\ i' = i /\ rs' = rs /\ resumed' = resumed /\ ctx' = ctx
      /\ tags' = tags /\ o' = o /\ rr' = rr /\ am' = am /\ mem' = mem /\ scr' = scr /\ resp' = resp
  BY DEF vars
<1>1. \A k : Holder(k)' = Holder(k) BY <1>0 DEF Holder, c_busy
<1>2. \A k : LeftOf(k)' = LeftOf(k) BY <1>0, <1>1 DEF LeftOf
<1>3. \A k, l : Owed(k, l)' = Owed(k, l) BY <1>0, <1>1 DEF Owed
<1>4. \A k : ResOf(k)' = ResOf(k) BY <1>0, <1>2, <1>3, ResLanes, ResLanesNext DEF Returns
<1>5. /\ [k \in 1 .. Len(op) |-> LeftOf(k)]' = [k \in 1 .. Len(op) |-> LeftOf(k)]
      /\ [k \in 1 .. Len(op) |-> ResOf(k)]' = [k \in 1 .. Len(op) |-> ResOf(k)]
  BY <1>0, <1>2, <1>4
<1> QED BY <1>0, <1>5 DEF Atomic!vars

(* In every run of the engine each lane of an instruction takes effect exactly *)
(* once, at one moment between the issue of the instruction and the resume of *)
(* its warp, and its register receives what memory held at that moment: the   *)
(* pipelines of stages, contexts, outstanding tags, AMO rounds and scratchpad *)
(* of memory_engine.sv implement AtomicMemory.                                *)
THEOREM EngineIsAtomic == Spec => ImplementsAtomic
<1>1. Init => AtomInv /\ Atomic!Init BY AtomInit, InitAtomic
<1>2. AtomInv /\ [Next]_vars => AtomInv' BY AtomStep
<1>3. AtomInv /\ AtomInv' /\ [Next]_vars => [Atomic!Step]_(Atomic!vars)
  <2> SUFFICES ASSUME AtomInv, AtomInv', [Next]_vars PROVE [Atomic!Step]_(Atomic!vars) OBVIOUS
  <2>1. CASE Next
    <3>1. PICK n, gnt, rt, f, a, g, fin : Ticks(n, gnt, rt, f, a, g, fin) BY <2>1, StepTicks
    <3>2. Atomic!Step BY <3>1, TicksAtomic
    <3> QED BY <3>2
  <2>2. CASE UNCHANGED vars BY <2>2, StutterAtomic
  <2> QED BY <2>1, <2>2
<1> QED BY <1>1, <1>2, <1>3, PTL DEF Spec, ImplementsAtomic, Atomic!Spec
=============================================================================
