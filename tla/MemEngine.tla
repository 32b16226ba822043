----------------------------- MODULE MemEngine ------------------------------
(***************************************************************************)
(* The memory engine (mem_engine.sv): NC contexts, each holding one memory *)
(* instruction of a warp until every lane is served, a tagged request port *)
(* that answers in any order, the AMO line buffer, the scratchpad and the  *)
(* single register writeback and warp resume per cycle.                    *)
(*                                                                         *)
(* A step is one clock cycle: its inputs are the instruction offered, the  *)
(* grant of the port and the tag answered. conf holds the build's three    *)
(* parameters. Names are those of the source; a wire that depends on an    *)
(* input takes it as a parameter. An instruction is known by its place in  *)
(* op, which stands for the fields the engine latches of it.               *)
(***************************************************************************)
EXTENDS MemOps

CONSTANTS
  NC,           \* contexts
  MQD,          \* tags
  LW,           \* words per line
  Configs       \* builds: [BYP, AGG, APAR : BOOLEAN]

ASSUME EngineAssumption ==
  /\ {NC, MQD, LW} \subseteq Nat \ {0} /\ Words % LW = 0
  /\ Configs \subseteq [BYP : BOOLEAN, AGG : BOOLEAN, APAR : BOOLEAN]

VARIABLES
  conf,         \* the build
  op,           \* instructions accepted so far
  i,            \* input register: an instruction or 0
  ctx,          \* contexts: st, id, lanes pending, AMO phase, requests out
  tags,         \* tag table: v, c, mask, kind
  o,            \* request stage: c, mask, kind, tag, line
  rr,           \* first context to consider
  am,           \* AMO line buffer: line, left, touch
  scr,          \* scratchpad
  rs,           \* registered resume: an instruction or 0
  mem, resp,    \* external: memory, and the answer it holds per tag
  got,          \* register values written, per instruction and lane
  resumed       \* instructions whose warp was told

vars == <<conf, op, i, ctx, tags, o, rr, am, scr, rs, mem, resp, got, resumed>>

Cx      == 1 .. NC
Tg      == 1 .. MQD
Off     == 0 .. LW - 1
Kinds   == {"MK_LOAD", "MK_WRITE", "MK_AMORD"}
Phases  == {"AP_RD", "AP_WAIT", "AP_AGG", "AP_WR"}
FreeCtx == [st |-> "free", id |-> 0, pend |-> {}, ph |-> "AP_RD", cnt |-> 0]
FreeTag == [v |-> FALSE, c |-> 0, mask |-> {}, kind |-> "MK_LOAD"]
NoReq   == [c |-> 0, mask |-> {}, kind |-> "MK_LOAD", tag |-> 0, line |-> 0]
NoData  == << >>
LineOf(x)     == x \div LW
ReadLine(n)   == [w \in Off |-> mem[n * LW + w]]
P(c)          == op[ctx[c].id]
Waiting(w)    == {n \in 1 .. Len(op) : op[n].w = w /\ n \notin resumed}

-----------------------------------------------------------------------------
(* Contexts, input register and tags.                                      *)
c_busy(c) == ctx[c].st # "free"
c_lead(c) == Min(ctx[c].pend)
c_grp(c)  == {l \in ctx[c].pend : LineOf(P(c).addr[l]) = LineOf(P(c).addr[c_lead(c)])}

free_ok  == \E c \in Cx : ~c_busy(c)
alloc_c  == Min({c \in Cx : ~c_busy(c)})
scr_busy == \E c \in Cx : c_busy(c) /\ P(c).scratch
Room(p)  == free_ok /\ ~(p.scratch /\ scr_busy)
tag_ok   == \E t \in Tg : ~tags[t].v
alloc_t  == Min({t \in Tg : ~tags[t].v})

i_take       == i # 0 /\ Room(op[i])
in_ready(p)  == IF conf.BYP THEN Room(p) ELSE i = 0 \/ i_take

(* What the warp pool offers: a warp parked on a store or an AMO issues    *)
(* nothing, one with loads outstanding only loads, at most LD_MAX.         *)
MayIssue(p) ==
  /\ \A n \in Waiting(p.w) : op[n].kind = "load" /\ p.kind = "load"
  /\ Cardinality(Waiting(p.w)) < LD_MAX

-----------------------------------------------------------------------------
(* Global request: the context inside a read-modify-write owns the port,   *)
(* otherwise the first that wants it at or after rr.                       *)
Global(c)   == c_busy(c) /\ ~P(c).scratch
c_locked(c) == Global(c) /\ P(c).kind = "amo" /\ ctx[c].ph # "AP_RD"
c_want(c)   == Global(c) /\ ctx[c].st = "busy" /\ ctx[c].pend # {}
               /\ (P(c).kind # "amo" \/ ctx[c].ph \in {"AP_RD", "AP_WR"})
Locked      == {c \in Cx : c_locked(c)}
Wanting     == {c \in Cx : c_want(c)}
lock_c      == Max(Locked)
rot_c       == CHOOSE c \in Wanting : \A d \in Wanting : (c - rr) % NC <= (d - rr) % NC
(* Mutant: the rotation chooses even while an AMO holds the port.          *)
sel_no_lock == rot_c
sel         == IF Locked # {} THEN lock_c ELSE rot_c
mreq_valid  == (IF Locked # {} THEN c_want(lock_c) ELSE Wanting # {}) /\ tag_ok

mreq_mask(c) == IF P(c).kind = "amo" /\ ~conf.AGG THEN {c_lead(c)} ELSE c_grp(c)
mreq_kind(c) == CASE P(c).kind = "load"  -> "MK_LOAD"
                  [] P(c).kind = "store" -> "MK_WRITE"
                  [] P(c).kind = "amo"   -> IF ctx[c].ph = "AP_WR" THEN "MK_WRITE" ELSE "MK_AMORD"
mreq == LET c == sel
        IN [c |-> c, mask |-> mreq_mask(c), kind |-> mreq_kind(c), tag |-> alloc_t,
            line |-> LineOf(P(c).addr[c_lead(c)])]
mreq_fire(gnt) == mreq_valid /\ (IF conf.BYP THEN gnt ELSE o = NoReq \/ gnt)
Sent(gnt)      == IF mreq_fire(gnt) THEN mreq ELSE NoReq

(* The request on the port, and the memory a granted request g leaves.     *)
q == IF ~conf.BYP THEN o ELSE IF mreq_valid THEN mreq ELSE NoReq
Stored(g) ==
  LET p == P(g.c)
      hit(x) == {l \in g.mask : p.addr[l] = x}
  IN [x \in DOMAIN mem |->
        IF p.kind = "amo" THEN IF LineOf(x) = g.line /\ (x % LW) \in am.touch
                               THEN am.line[x % LW] ELSE mem[x]
        ELSE IF hit(x) # {} THEN p.data[Max(hit(x))] ELSE mem[x]]

-----------------------------------------------------------------------------
(* Global response with tag rt (0: none); one whose tag is not outstanding *)
(* answers this cycle's request.                                           *)
NoAnswer    == [c |-> 0, mask |-> {}, kind |-> "none", data |-> NoData, byp |-> FALSE]
rsp_byp(rt) == conf.BYP /\ ~tags[rt].v
Answer(rt)  ==
  IF rt = 0 THEN NoAnswer
  ELSE LET byp == rsp_byp(rt)
           t   == IF byp THEN mreq ELSE tags[rt]
       IN [c |-> t.c, mask |-> t.mask, kind |-> t.kind, byp |-> byp,
           data |-> IF byp THEN ReadLine(t.line) ELSE resp[rt]]
gwb(a) == a.kind = "MK_LOAD" /\ P(a.c).wb

(* AMO lanes applied in a round, and the line they leave.                  *)
a_act      == Locked # {} /\ ctx[lock_c].ph = "AP_AGG"
a_wb       == a_act /\ P(lock_c).wb
a_step(a) == a_act /\ ~(a_wb /\ gwb(a))
a_off(l)   == P(lock_c).addr[l] % LW
(* Mutant: lanes on one word are applied in the same round.                *)
a_rnd_all  == IF conf.APAR THEN am.left ELSE {Min(am.left)}
a_rnd      == IF conf.APAR
              THEN {l \in am.left : \A j \in am.left : j < l => a_off(j) # a_off(l)}
              ELSE {Min(am.left)}
a_whit     == {a_off(l) : l \in a_rnd}
a_wnew(w)  == LET l == CHOOSE l \in a_rnd : a_off(l) = w
              IN amo_alu(P(lock_c).fn, am.line[w], P(lock_c).data[l])
a_last(a) == a_step(a) /\ am.left \ a_rnd = {}

(* The scratchpad serves the lead lane of the one scratch context.         *)
Scratching  == {c \in Cx : ctx[c].st = "busy" /\ P(c).scratch}
sc_c        == Min(Scratching)
sc_lead     == c_lead(sc_c)
sc_step(a) == Scratching # {} /\ ~gwb(a) /\ ~(a_wb /\ a_step(a))
sc_rd       == scr[sc_a(P(sc_c), sc_lead)]
sc_wd       == IF P(sc_c).kind = "amo" THEN amo_alu(P(sc_c).fn, sc_rd, P(sc_c).data[sc_lead])
               ELSE P(sc_c).data[sc_lead]

(* The register writeback of the cycle: the instruction, the lanes, data.  *)
wb(a) ==
  CASE gwb(a) ->
         [n |-> ctx[a.c].id, lanes |-> a.mask,
          data |-> [l \in Lane |-> a.data[P(a.c).addr[l] % LW]]]
    [] a_wb /\ a_step(a) ->
         [n |-> ctx[lock_c].id, lanes |-> a_rnd, data |-> [l \in Lane |-> am.line[a_off(l)]]]
    [] ~gwb(a) /\ sc_step(a) /\ Returns(P(sc_c)) ->
         [n |-> ctx[sc_c].id, lanes |-> {sc_lead}, data |-> [l \in Lane |-> sc_rd]]
    [] OTHER -> [n |-> 0, lanes |-> {}, data |-> << >>]

-----------------------------------------------------------------------------
(* Completion, with the request f sent and the answer a received.          *)
c_scs(c, a)   == IF sc_step(a) /\ sc_c = c THEN {c_lead(c)} ELSE {}
c_sent(c, f, a) ==
  IF P(c).scratch THEN c_scs(c, a)
  ELSE IF f.c = c /\ ~(P(c).kind = "amo" /\ ctx[c].ph # "AP_WR") THEN f.mask ELSE {}
(* Mutant: an answer in its own cycle is counted, its request is not.      *)
c_cnt_n_byp(c, f, a) ==
  ctx[c].cnt + (IF f.c = c /\ ~a.byp THEN 1 ELSE 0) - (IF a.c = c THEN 1 ELSE 0)
c_cnt_n(c, f, a) ==
  ctx[c].cnt + (IF f.c = c /\ ~a.byp THEN 1 ELSE 0) - (IF a.c = c /\ ~a.byp THEN 1 ELSE 0)
c_fin(c, f, a) ==
  /\ c_busy(c)
  /\ \/ ctx[c].st = "done"
     \/ conf.BYP /\ ctx[c].pend \subseteq c_sent(c, f, a) /\ c_cnt_n(c, f, a) = 0
     \/ ~conf.BYP /\ ctx[c].pend \subseteq c_scs(c, a)
                  /\ ctx[c].cnt = (IF a.c = c THEN 1 ELSE 0)
Fin(f, a)  == {c \in Cx : c_fin(c, f, a)}
rs_id(fin) == IF fin = {} THEN 0 ELSE ctx[Min(fin)].id

(* A busy context after the cycle: of those that finish, fin, the lowest   *)
(* resumes its warp and the others hold.                                   *)
c_st_n(c, fin) == IF c \notin fin THEN ctx[c].st ELSE IF c = Min(fin) THEN "free" ELSE "done"
(* Mutant: sending the read outranks an answer in the same cycle.          *)
c_ph_n_send_first(c, f, a) ==
  IF P(c).kind # "amo" \/ P(c).scratch THEN ctx[c].ph
  ELSE IF f.c = c /\ ctx[c].ph = "AP_RD" THEN "AP_WAIT"
  ELSE CASE a.c = c /\ a.kind = "MK_AMORD"  -> "AP_AGG"
         [] a_last(a) /\ lock_c = c        -> "AP_WR"
         [] f.c = c /\ ctx[c].ph = "AP_WR" -> "AP_RD"
         [] OTHER                          -> ctx[c].ph
c_ph_n(c, f, a) ==
  IF P(c).kind # "amo" \/ P(c).scratch THEN ctx[c].ph
  ELSE IF a.c = c /\ a.kind = "MK_AMORD" THEN "AP_AGG"
  ELSE CASE f.c = c /\ ctx[c].ph = "AP_RD" -> "AP_WAIT"
         [] a_last(a) /\ lock_c = c        -> "AP_WR"
         [] f.c = c /\ ctx[c].ph = "AP_WR" -> "AP_RD"
         [] OTHER                          -> ctx[c].ph

-----------------------------------------------------------------------------
Init ==
  /\ conf \in Configs /\ op = << >> /\ i = 0 /\ rs = 0
  /\ ctx = [c \in Cx |-> FreeCtx] /\ tags = [t \in Tg |-> FreeTag]
  /\ o = NoReq /\ rr = 1
  /\ am = [line |-> [w \in Off |-> 0], left |-> {}, touch |-> {}]
  /\ mem = MemInit /\ scr = ScrInit /\ resp = [t \in Tg |-> NoData]
  /\ got = << >> /\ resumed = {}

(* External: the memory grants the request on the port or not, and answers *)
(* any request it has accepted, in its own cycle only in a BYP build.      *)
MayAnswer(gnt, rt) ==
  /\ gnt => q # NoReq
  /\ rt # 0 => resp[rt] # NoData \/ (conf.BYP /\ gnt /\ rt = q.tag)
Memory(g, rt) ==
  /\ mem' = IF g.kind = "MK_WRITE" THEN Stored(g) ELSE mem
  /\ resp' = [t \in Tg |-> IF t = rt THEN NoData
                           ELSE IF g.tag = t THEN ReadLine(g.line) ELSE resp[t]]

(* The instruction n accepted this cycle (0: none) waits in the input      *)
(* register or takes a context at once.                                    *)
InputReg(n) == i' = IF conf.BYP THEN 0 ELSE IF n # 0 THEN n ELSE IF i_take THEN 0 ELSE i
Taken(n) == IF conf.BYP THEN n ELSE IF i_take THEN i ELSE 0
Fresh(n) == [FreeCtx EXCEPT !.st = "busy", !.id = n, !.pend = op'[n].mask]
Contexts(n, f, a, fin) ==
  ctx' = [c \in Cx |->
    IF Taken(n) # 0 /\ c = alloc_c THEN Fresh(Taken(n))
    ELSE IF ~c_busy(c) \/ c_st_n(c, fin) = "free" THEN FreeCtx
    ELSE [st |-> c_st_n(c, fin), id |-> ctx[c].id, pend |-> ctx[c].pend \ c_sent(c, f, a),
          ph |-> c_ph_n(c, f, a), cnt |-> c_cnt_n(c, f, a)]]

RequestStage(gnt, f) ==
  o' = IF conf.BYP THEN NoReq ELSE IF f # NoReq THEN f ELSE IF gnt THEN NoReq ELSE o
TagTable(rt, f, a) ==
  /\ tags' = [t \in Tg |->
       IF rt = t /\ ~a.byp THEN FreeTag
       ELSE IF f.tag = t /\ ~a.byp THEN [v |-> TRUE, c |-> f.c, mask |-> f.mask, kind |-> f.kind]
       ELSE tags[t]]
  /\ rr' = IF f # NoReq /\ ~c_locked(f.c) THEN (f.c % NC) + 1 ELSE rr
LineBuffer(a) ==
  am' = IF a.kind = "MK_AMORD" THEN [line |-> a.data, left |-> a.mask, touch |-> {}]
        ELSE IF a_step(a)
        THEN [line |-> [w \in Off |-> IF w \in a_whit THEN a_wnew(w) ELSE am.line[w]],
              left |-> am.left \ a_rnd, touch |-> am.touch \cup a_whit]
        ELSE am
Scratchpad(a) ==
  scr' = IF sc_step(a) /\ P(sc_c).kind # "load"
         THEN [scr EXCEPT ![sc_a(P(sc_c), sc_lead)] = sc_wd] ELSE scr
Writeback(n, a) ==
  LET new == IF n = 0 THEN got ELSE Append(got, [l \in Lane |-> None])
      w   == wb(a)
  IN got' = IF w.n = 0 THEN new
            ELSE [new EXCEPT ![w.n] = [l \in Lane |-> IF l \in w.lanes THEN w.data[l] ELSE @[l]]]
Resume(fin) ==
  /\ rs' = IF conf.BYP THEN 0 ELSE rs_id(fin)
  /\ resumed' = resumed \cup ({IF conf.BYP THEN rs_id(fin) ELSE rs} \ {0})

(* One clock cycle with instruction n accepted, grant gnt and answer rt.   *)
Cycle(n, gnt, rt) ==
  /\ MayAnswer(gnt, rt)
  /\ \E g \in {IF gnt THEN q ELSE NoReq}, f \in {Sent(gnt)}, a \in {Answer(rt)} :
       /\ Memory(g, rt) /\ RequestStage(gnt, f) /\ TagTable(rt, f, a)
       /\ \E fin \in {Fin(f, a)} : Contexts(n, f, a, fin) /\ Resume(fin)
       /\ InputReg(n) /\ LineBuffer(a) /\ Scratchpad(a) /\ Writeback(n, a)
  /\ UNCHANGED conf

Quiet(gnt, rt) == op' = op /\ Cycle(0, gnt, rt)
Issue(p, gnt, rt) ==
  /\ Len(op) < MaxOps /\ MayIssue(p) /\ in_ready(p)
  /\ op' = Append(op, p) /\ Cycle(Len(op) + 1, gnt, rt)

Next == \E gnt \in BOOLEAN, rt \in 0 .. MQD :
          Quiet(gnt, rt) \/ \E p \in OpLib : Issue(p, gnt, rt)

(* The clock runs, and the memory does not for ever refuse to grant what   *)
(* it is asked and to answer what it has accepted.                         *)
Fairness == WF_vars(\E gnt \in BOOLEAN, rt \in 0 .. MQD : Quiet(gnt, rt))
Spec == Init /\ [][Next]_vars /\ Fairness

-----------------------------------------------------------------------------
TypeOK ==
  /\ conf \in Configs
  /\ Len(op) <= MaxOps /\ \A n \in 1 .. Len(op) : op[n] \in OpLib
  /\ i \in 0 .. Len(op) /\ rs \in 0 .. Len(op) /\ resumed \subseteq 1 .. Len(op)
  /\ ctx \in [Cx -> [st : {"free", "busy", "done"}, id : 0 .. Len(op), pend : SUBSET Lane,
                     ph : Phases, cnt : 0 .. MQD]]
  /\ tags \in [Tg -> [v : BOOLEAN, c : 0 .. NC, mask : SUBSET Lane, kind : Kinds]]
  /\ o \in [c : 0 .. NC, mask : SUBSET Lane, kind : Kinds, tag : 0 .. MQD, line : 0 .. Words \div LW]
  /\ rr \in Cx /\ am \in [line : [Off -> Val], left : SUBSET Lane, touch : SUBSET Off]
  /\ mem \in [0 .. Words - 1 -> Val] /\ scr \in [0 .. NW * ScrWords - 1 -> Val]
  /\ \A t \in Tg : resp[t] = NoData \/ resp[t] \in [Off -> Val]
  /\ DOMAIN got = 1 .. Len(op) /\ \A n \in 1 .. Len(op) : got[n] \in [Lane -> Val \cup {None}]

(* A context counts exactly the tags that will come back to it, a request  *)
(* waiting for its grant among them: it never resumes its warp with a      *)
(* request still out, nor waits for an answer nobody owes it (c_cnt).      *)
TagsMatch ==
  \A c \in Cx : ctx[c].cnt = Cardinality({t \in Tg : tags[t].v /\ tags[t].c = c})

(* While an AMO holds a line, memory still has the words it read: nobody   *)
(* wrote them between its read and its write, not even a request chosen    *)
(* before the read and granted late (c_locked, the request stage).         *)
AmoLineFresh ==
  \A c \in Cx :
    /\ c_locked(c) /\ ctx[c].ph \in {"AP_AGG", "AP_WR"} =>
         \A w \in Off \ am.touch : am.line[w] = mem[LineOf(P(c).addr[c_lead(c)]) * LW + w]
    /\ c_locked(c) => Locked = {c} /\ o.c \in {0, c}

(* A warp told that its instruction is complete has every lane's result in *)
(* its registers, whatever order the answers came in and whoever held the  *)
(* writeback port.                                                         *)
Delivered ==
  \A n \in resumed \cup ({rs} \ {0}) : Returns(op[n]) =>
    \A l \in op[n].mask : got[n][l] # None

(* AnswersOwned: the three together: whatever the order of grants and      *)
(* answers, every answer has one owner, an AMO's line is its own and a     *)
(* resumed warp has its results (mem_engine.sv, tag table, c_locked,       *)
(* c_fin).                                                                 *)
AnswersOwned == TagsMatch /\ AmoLineFresh /\ Delivered

(* Every instruction accepted is resumed in the end: again and again no    *)
(* warp waits for the engine, however the builds' locks, tags and the one  *)
(* writeback port were contended for.                                      *)
EveryOpResumes == []<>(resumed = 1 .. Len(op))

(* The engine implements the memory in which each lane of an instruction   *)
(* takes effect once, in lane order, and an AMO in one moment: a lane is   *)
(* still to take effect while it is pending or its request waits for the   *)
(* grant, and its result is what its register received or the memory has   *)
(* answered.                                                               *)
Holder(n)  == {c \in Cx : c_busy(c) /\ ctx[c].id = n}
LeftOf(n)  == (UNION {ctx[c].pend \cup (IF o.c = c THEN o.mask ELSE {}) : c \in Holder(n)})
              \cup (IF i = n THEN op[n].mask ELSE {})
Owed(n, l) == {t \in Tg : tags[t].v /\ tags[t].c \in Holder(n) /\ l \in tags[t].mask}
ResOf(n)   == [l \in Lane |->
  IF l \in LeftOf(n) \/ ~Returns(op[n]) THEN None
  ELSE IF got[n][l] # None \/ Owed(n, l) = {} THEN got[n][l]
  ELSE resp[CHOOSE t \in Owed(n, l) : TRUE][op[n].addr[l] % LW]]
Atomic == INSTANCE AtomicMemory WITH
  left <- [n \in 1 .. Len(op) |-> LeftOf(n)], res <- [n \in 1 .. Len(op) |-> ResOf(n)]
ImplementsAtomic == Atomic!Spec
=============================================================================
