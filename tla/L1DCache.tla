------------------------------ MODULE L1DCache ------------------------------
(***************************************************************************)
(* The non-blocking L1 data cache (rtl/accel/l1_dcache.sv): input register *)
(* and skid entry, ways, miss registers, writes in flight, the prefetcher  *)
(* and the three sources of upstream answers.  A step is one clock; a wire *)
(* keeps its name, with the inputs it depends on as parameters: sr the     *)
(* upstream request (None: none), gnt the downstream grant, mr the         *)
(* downstream response, inv the invalidation.  Valid bit and contents are  *)
(* one value: a sequence of at most one record.                            *)
(***************************************************************************)
EXTENDS LineMemory, FiniteSetsExt

CONSTANTS NWAY, NSET, NMSHR, PF

ASSUME CacheAssumption == {NWAY, NSET, NMSHR} \subseteq Nat \ {0} /\ PF \in BOOLEAN

VARIABLES i, k,           \* input register, skid entry
          way,            \* set |-> way |-> None or the line held
          rr,             \* round-robin victim
          q,              \* miss registers
          w,              \* tag |-> None or the line of its write in flight
          wr_out,         \* writes in flight
          pf,             \* armed prefetch
          b,              \* read hit to answer
          d,              \* waiting request to answer
          wack            \* write acknowledgements owed
cvars == <<i, k, way, rr, q, w, wr_out, pf, b, d, wack>>

Ways == 0..(NWAY - 1)
Mshrs == 0..(NMSHR - 1)
SetOf(l) == l % NSET
SetNos == 0..(NSET - 1)
NextLine(l) == IF l + 1 \in Lines THEN l + 1 ELSE 0

CacheInit ==
  /\ i = None /\ k = None /\ pf = None /\ b = None /\ d = None
  /\ way = [s \in SetNos |-> [y \in Ways |-> None]] /\ rr = 0
  /\ q = [m \in Mshrs |-> None]
  /\ w = [t \in Tags |-> None] /\ wr_out = 0 /\ wack = {}
------------------------------------------------------------------------------
(* Lookup of the request in the input register. *)
r_line == i[1].line
r_way == way[SetOf(r_line)]
hit_w == {y \in Ways : r_way[y] # None /\ r_way[y][1].line = r_line}
hit == hit_w # {}
hit_way == Min(hit_w)
q_match == {m \in Mshrs : q[m] # None /\ ~ q[m][1].stale /\ q[m][1].line = r_line}
q_any == q_match # {}
q_free == {m \in Mshrs : q[m] = None}
w_any == \E t \in Tags : w[t] = <<r_line>>

Demand == i # None /\ ~ i[1].we /\ ~ i[1].pf
rd_hit == Demand /\ hit
rd_join == Demand /\ ~ hit /\ q_any
(* Mutant: a miss does not wait for a write to its line.                   *)
rd_miss_past_write == i # None /\ ~ i[1].we /\ ~ hit /\ ~ q_any /\ q_free # {}
rd_miss == i # None /\ ~ i[1].we /\ ~ hit /\ ~ q_any /\ q_free # {} /\ ~ w_any
wr_go == i # None /\ i[1].we /\ ~ q_any
pf_drop == i # None /\ i[1].pf /\ (hit \/ q_any \/ q_free = {} \/ w_any)

(* Mutant: the grant does not look at the skid entry.                      *)
s_gnt_always == TRUE
s_gnt == k = None
m_req == rd_miss \/ wr_go
i_gnt(gnt) == rd_hit \/ rd_join \/ pf_drop \/ (m_req /\ gnt)
acc_miss(gnt) == rd_miss /\ gnt
acc_wr(gnt) == wr_go /\ gnt
Acc(gnt) == i # None /\ i_gnt(gnt)
(* The request sent downstream: reads carry their miss register. *)
MReq == [we |-> wr_go, line |-> r_line, data |-> i[1].data, be |-> i[1].be,
         id |-> IF wr_go THEN <<1, i[1].tag>> ELSE <<0, Min(q_free)>>]

(* Downstream answers: reads by miss register, writes by upstream tag. *)
WAck(mr) == mr # None /\ mr[1].id[1] = 1
Arrives(mr, m) == mr # None /\ mr[1].id = <<0, m>>

(* Input register and skid entry; the prefetch takes an idle slot. *)
Frees(gnt) == i = None \/ i_gnt(gnt)
pf_go(sr, gnt) == PF /\ pf # None /\ k = None /\ sr = None /\ Frees(gnt) /\ wr_out = 0
PfReq == [tag |-> 0, line |-> pf[1], we |-> FALSE, data |-> [x \in Words |-> 0], be |-> {}, pf |-> TRUE]
Input(sr, gnt) ==
  IF ~ Frees(gnt) THEN /\ i' = i /\ k' = (IF sr # None THEN sr ELSE k)
  ELSE IF k # None THEN i' = k /\ k' = None
  ELSE i' = (IF sr = None /\ pf_go(sr, gnt) THEN <<PfReq>> ELSE sr) /\ k' = None
Prefetch(sr, gnt, inv) ==
  pf' = IF inv THEN None
        ELSE IF PF /\ acc_miss(gnt) /\ ~ i[1].pf THEN <<NextLine(r_line)>>
        ELSE IF pf_go(sr, gnt) THEN None ELSE pf

WritesInFlight(gnt, mr) ==
  /\ wr_out' = wr_out + (IF acc_wr(gnt) THEN 1 ELSE 0) - (IF WAck(mr) THEN 1 ELSE 0)
  /\ w' = [t \in Tags |-> IF acc_wr(gnt) /\ i[1].tag = t THEN <<r_line>>
                          ELSE IF WAck(mr) /\ mr[1].id[2] = t THEN None ELSE w[t]]

(* The fill takes the port when no request is accepted. *)
Fillable == {m \in Mshrs : q[m] # None /\ q[m][1].data # None /\ ~ q[m][1].done /\ ~ q[m][1].stale}
fill_m == Min(Fillable)
(* Mutant: the fill waits until the input register is empty.               *)
fill_go_idle(gnt) == Fillable # {} /\ i = None
fill_go(gnt) == Fillable # {} /\ ~ Acc(gnt)
f_set == SetOf(q[fill_m][1].line)
f_way == IF \E y \in Ways : way[f_set][y] = None THEN Min({y \in Ways : way[f_set][y] = None}) ELSE rr
Store(gnt, inv) ==
  /\ way' = IF inv THEN [s \in SetNos |-> [y \in Ways |-> None]]
            ELSE IF acc_wr(gnt) /\ hit
            THEN [way EXCEPT ![SetOf(r_line)][hit_way] = <<[line |-> r_line, data |-> Merge(@[1].data, i[1].data, i[1].be)]>>]
            ELSE IF fill_go(gnt)
            THEN [way EXCEPT ![f_set][f_way] = <<[line |-> q[fill_m][1].line, data |-> q[fill_m][1].data[1]]>>]
            ELSE way
  /\ rr' = IF fill_go(gnt) THEN (rr + 1) % NWAY ELSE rr
------------------------------------------------------------------------------
(* Upstream answers: a hit, else the chosen waiter, else a write's.        *)
dr_go == d # None /\ b = None
wa_go == wack # {} /\ b = None /\ ~ dr_go
Answer ==
  CASE b # None -> b
    [] dr_go -> <<[tag |-> d[1].t, data |-> q[d[1].m][1].data[1]]>>
    [] wa_go -> <<[tag |-> Min(wack), data |-> [x \in Words |-> 0]]>>
    [] OTHER -> None
nd_wait(m) == q[m][1].wait \ (IF dr_go /\ d[1].m = m THEN {d[1].t} ELSE {})
nd(mr) == {m \in Mshrs : /\ q[m] # None
                         /\ q[m][1].data # None \/ Arrives(mr, m)
                         /\ nd_wait(m) # {}}
Responses(gnt, mr) ==
  /\ b' = IF rd_hit THEN <<[tag |-> i[1].tag, data |-> r_way[hit_way][1].data]>> ELSE None
  /\ d' = IF nd(mr) = {} THEN None ELSE <<[m |-> Min(nd(mr)), t |-> Min(nd_wait(Min(nd(mr))))]>>
  /\ wack' = (wack \ (IF wa_go THEN {Min(wack)} ELSE {})) \cup (IF WAck(mr) THEN {mr[1].id[2]} ELSE {})

(* A miss register: taken by a miss, joined, filled, drained, freed. *)
Wait(m) == nd_wait(m) \cup (IF rd_join /\ Min(q_match) = m THEN {i[1].tag} ELSE {})
Miss(m, gnt, mr, inv) ==
  LET r == q[m][1]
      data == IF Arrives(mr, m) THEN <<mr[1].data>> ELSE None
      done == r.done \/ (fill_go(gnt) /\ fill_m = m)
  IN  IF acc_miss(gnt) /\ Min(q_free) = m
      THEN <<[line |-> r_line, data |-> data, done |-> FALSE, stale |-> FALSE,
              wait |-> IF i[1].pf THEN {} ELSE {i[1].tag}]>>
      ELSE IF q[m] = None THEN None
      ELSE IF (done \/ r.stale) /\ r.data # None /\ Wait(m) = {} THEN None
      ELSE <<[line |-> r.line, data |-> IF Arrives(mr, m) THEN data ELSE r.data, done |-> done,
              stale |-> r.stale \/ inv, wait |-> Wait(m)]>>

CacheClock(sr, gnt, mr, inv) ==
  /\ Input(sr, gnt) /\ Prefetch(sr, gnt, inv) /\ WritesInFlight(gnt, mr) /\ Store(gnt, inv)
  /\ Responses(gnt, mr)
  /\ q' = [m \in Mshrs |-> Miss(m, gnt, mr, inv)]
=============================================================================
