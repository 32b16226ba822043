---------------------------- MODULE MemPathProofs ---------------------------
(***************************************************************************)
(* Proofs about the path from the memory engine to DRAM, for every number  *)
(* of lines, words, tags, ways, sets and miss registers, with prefetch or  *)
(* without, and for an AXI memory that delays, interleaves and reorders as *)
(* it likes.                                                               *)
(*                                                                         *)
(* Busy is the bookkeeping: every request is in one place, every read and  *)
(* every write under way is known to the register that waits for it.  It   *)
(* is inductive by itself and gives Accounted.  PathInv adds the values:   *)
(* Due(l) is memory with the writes in flight applied, and every copy of a *)
(* line, in a way, in a miss register, in an answer or in the account of   *)
(* LineMemory, is stated as Due plus the writes the cache still holds.     *)
(* It gives AnswersRight and CopiesCurrent.                                *)
(***************************************************************************)
EXTENDS MemPath, SequenceTheorems, FiniteSetTheorems, NaturalsInduction, TLAPS

(* A value of S that may be absent, and a function to such values.         *)
Maybe(x, S) == x # None => x = <<x[1]>> /\ x[1] \in S
Table(f, I, S) == f = [x \in I |-> f[x]] /\ \A x \in I : Maybe(f[x], S)

(* Values, lines, requests (a prefetch is a read with no tag of its own)   *)
(* and writes as memory keeps them.                                        *)
Value == 0 .. MaxReq + 1
Line  == [Words -> Value]
Req   == {r \in [tag : Tags \cup {0}, line : Lines, we : BOOLEAN, data : Line, be : SUBSET Words, pf : BOOLEAN] :
            IF r.pf THEN ~ r.we ELSE r.tag \in Tags}
Write == [id : {0}, line : Lines, data : Line, be : SUBSET Words]
(* A miss register; its line may not have come yet.                        *)
MissOk(r) ==
  /\ r = [line |-> r.line, data |-> r.data, done |-> r.done, stale |-> r.stale, wait |-> r.wait]
  /\ r.line \in Lines /\ Maybe(r.data, Line) /\ r.done \in BOOLEAN /\ r.stale \in BOOLEAN /\ r.wait \in SUBSET Tags

(* TypeOK: the types of the variables.                                     *)
TypeOK ==
  /\ amem \in [Lines -> Line]
  /\ Table(open, Tags, [we : BOOLEAN, line : Lines, loose : BOOLEAN, at : Line, later : SUBSET Line])
  /\ Maybe(i, Req) /\ Maybe(k, {r \in Req : ~ r.pf})
  /\ way = [s \in SetNos |-> way[s]] /\ \A s \in SetNos : Table(way[s], Ways, [line : Lines, data : Line])
  /\ rr \in Ways
  /\ q = [m \in Mshrs |-> q[m]] /\ \A m \in Mshrs : q[m] # None => q[m] = <<q[m][1]>> /\ MissOk(q[m][1])
  /\ Table(w, Tags, Lines) /\ wr_out \in Nat /\ Maybe(pf, Lines)
  /\ Maybe(b, [tag : Tags, data : Line]) /\ Maybe(d, [m : Mshrs, t : Tags]) /\ wack \in SUBSET Tags
  /\ Maybe(ar, [id : Mshrs, line : Lines])
  /\ Maybe(aw, [id : {0}, line : Lines, data : Line, be : SUBSET Words, av : BOOLEAN, beat : 1 .. Beats + 1])
  /\ wq \in Seq(Tags) /\ rbuf \in [Mshrs -> Seq(Value)]
  /\ mem \in [Lines -> Line]
  /\ Table(rd, Mshrs, [data : Line, beat : 1 .. Beats])
  /\ wr \in Seq(Write) /\ running \in BOOLEAN /\ nreq \in 0 .. MaxReq

(* The places of request t: waiting for a miss register, a read hit to     *)
(* answer, and those of MemPath.  An open request is in one place only.    *)
OnQ(m, t) == IF q[m] = None THEN FALSE ELSE t \in q[m][1].wait
OnB(t) == IF b = None THEN FALSE ELSE b[1].tag = t
NoQ(t) == \A m \in Mshrs : ~ OnQ(m, t)
InPlace(t) ==
  /\ open[t] # None <=> Held(i, t) \/ Held(k, t) \/ w[t] # None \/ t \in wack \/ OnB(t) \/ ~ NoQ(t)
  /\ Held(i, t) => ~ Held(k, t) /\ w[t] = None /\ t \notin wack /\ ~ OnB(t) /\ NoQ(t)
  /\ Held(k, t) => w[t] = None /\ t \notin wack /\ ~ OnB(t) /\ NoQ(t)
  /\ w[t] # None => t \notin wack /\ ~ OnB(t) /\ NoQ(t)
  /\ t \in wack => ~ OnB(t) /\ NoQ(t)
  /\ OnB(t) => NoQ(t)
  /\ \A m, n \in Mshrs : OnQ(m, t) /\ OnQ(n, t) => m = n
InPlaces == \A t \in Tags : InPlace(t)
(* Chosen: the waiter chosen for an answer waits for a line that has come. *)
Chosen == d # None => q[d[1].m] # None /\ q[d[1].m][1].data # None /\ OnQ(d[1].m, d[1].t)
(* Reads: a miss register has no line exactly while its read is at AR or   *)
(* with memory, and the beats received are the first of the line read.     *)
Asks(m) == IF ar = None THEN FALSE ELSE ar[1].id = m
Empty(m) == IF q[m] = None THEN FALSE ELSE q[m][1].data = None
Reads ==
  \A m \in Mshrs :
    /\ Empty(m) <=> rd[m] # None \/ Asks(m)
    /\ ~ (rd[m] # None /\ Asks(m))
    /\ Asks(m) => ar[1].line = q[m][1].line
    /\ IF rd[m] = None THEN rbuf[m] = <<>>
       ELSE Len(rbuf[m]) = rd[m][1].beat - 1 /\ \A x \in 1 .. Len(rbuf[m]) : rbuf[m][x] = rd[m][1].data[x]
(* Writes: the FIFO of write tags, the table, the counter and the writes   *)
(* in flight are about the same writes, in the same order.                 *)
Writes ==
  /\ Len(wq) = Len(InFlight) /\ wr_out = Len(wq)
  /\ \A x, y \in 1 .. Len(wq) : wq[x] = wq[y] => x = y
  /\ \A t \in Tags : w[t] # None <=> \E x \in 1 .. Len(wq) : wq[x] = t
  /\ \A x \in 1 .. Len(wq) : w[wq[x]] = <<InFlight[x].line>>
(* OnlyRunning: requests are open only while a grid runs.                  *)
OnlyRunning == \A t \in Tags : open[t] # None => running
Busy == TypeOK /\ InPlaces /\ Chosen /\ Reads /\ Writes /\ OnlyRunning

-----------------------------------------------------------------------------
(* MinIn: the least element of a set of numbers is in it.                  *)
LEMMA MinIn ==
  ASSUME NEW S \in SUBSET Nat, S # {}
  PROVE  Min(S) \in S /\ \A x \in S : Min(S) <= x
<1>1. \E x \in S : \A y \in S : x <= y
  <2>1. PICK x \in S : \A y \in S : <<y, x>> \notin OpToRel(<, Nat)
    BY WFMin, NatLessThanWellFounded
  <2>2. \A y \in S : ~ (y < x) BY <2>1 DEF OpToRel
  <2>3. \A y \in S : x <= y BY <2>2
  <2> QED BY <2>3
<1> QED BY <1>1 DEF Min

(* Basics: the numbers and sets of a build.                                *)
LEMMA Basics ==
  /\ Beats \in Nat \ {0} /\ MaxReq \in Nat /\ Lines \subseteq Nat /\ 0 \in Lines /\ Tags \subseteq Nat
  /\ Mshrs \subseteq Nat /\ Ways \subseteq Nat /\ SetNos \subseteq Nat
  /\ 0 \in Mshrs /\ 0 \in Ways /\ 0 \in SetNos
  /\ \A l \in Lines : SetOf(l) \in SetNos
  /\ \A l \in Lines : NextLine(l) \in Lines
<1> NWAY \in Nat \ {0} /\ NSET \in Nat \ {0} /\ NMSHR \in Nat \ {0} BY CacheAssumption
<1>1. \A l \in Nat : l % NSET \in 0 .. NSET - 1 OBVIOUS
<1> QED BY <1>1, PathAssumption DEF Mshrs, Ways, SetNos, SetOf, NextLine

(* LineFacts: words replaced or filled make a line.                        *)
LEMMA LineFacts ==
  /\ \A v \in Value : Filled(v) \in Line
  /\ \A x, y \in Line : \A be : Merge(x, y, be) \in Line
  /\ 0 \in Value /\ [x \in Words |-> 0] \in Line
<1> 0 \in Value BY Basics DEF Value
<1> QED BY DEF Filled, Merge, Line

(* The request carried, if any, has tag t.                                 *)
Tagged(r, t) == IF r = None THEN FALSE ELSE r[1].tag = t
(* TaggedIs: the form in which Effect compares tags.                       *)
LEMMA TaggedIs ==
  ASSUME NEW S, NEW r, Maybe(r, S), NEW t
  PROVE  (<<t>> = [n \in DOMAIN r |-> r[n].tag]) = Tagged(r, t)
<1>1. CASE r = None
  <2>1. DOMAIN r = {} BY <1>1 DEF None
  <2> DEFINE f == [n \in DOMAIN r |-> r[n].tag]
             g == <<t>>
  <2>2. DOMAIN f = {} BY <2>1
  <2>3. DOMAIN g = {1} OBVIOUS
  <2> HIDE DEF f, g
  <2>4. f # g BY <2>2, <2>3
  <2> QED BY <1>1, <2>4 DEF Tagged, f, g
<1>2. CASE r # None
  <2>1. r = <<r[1]>> BY <1>2 DEF Maybe
  <2>2. DOMAIN r = {1} BY <2>1
  <2>3. [n \in DOMAIN r |-> r[n].tag] = <<r[1].tag>> BY <2>2
  <2> QED BY <1>2, <2>3 DEF Tagged
<1> QED BY <1>1, <1>2

-----------------------------------------------------------------------------
(* OfferFacts: a request that is offered has a free tag, and the skid      *)
(* entry has room for it (s_gnt).                                          *)
LEMMA OfferFacts ==
  ASSUME TypeOK, NEW sr \in Offers
  PROVE  /\ Maybe(sr, {r \in Req : ~ r.pf})
         /\ sr # None => /\ k = None /\ sr[1].tag \in Tags /\ open[sr[1].tag] = None
                         /\ running /\ nreq < MaxReq
<1>1. CASE sr = None BY <1>1 DEF Maybe
<1>2. CASE sr # None
  <2>1. /\ running /\ s_gnt /\ nreq < MaxReq /\ FreeTags # {}
        /\ \/ \E l \in Lines : sr = <<Request(Min(FreeTags), l, FALSE, {})>>
           \/ \E l \in Lines, be \in ByteEnables : sr = <<Request(Min(FreeTags), l, TRUE, be)>>
    <3> DEFINE A == {<<Request(Min(FreeTags), l, FALSE, {})>> : l \in Lines}
               B == {<<Request(Min(FreeTags), x[1], TRUE, x[2])>> : x \in Lines \X ByteEnables}
               C == ~ running \/ ~ s_gnt \/ nreq >= MaxReq \/ FreeTags = {}
    <3>1. running \in BOOLEAN /\ nreq \in Nat /\ MaxReq \in Nat BY Basics DEF TypeOK
    <3>2. sr \in {None} \cup (IF C THEN {} ELSE A \cup B) BY DEF Offers
    <3> HIDE DEF A, B, C
    <3>3. ~ C /\ (sr \in A \/ sr \in B) BY <1>2, <3>2
    <3>4. running /\ s_gnt /\ nreq < MaxReq /\ FreeTags # {} BY <3>1, <3>3 DEF C
    <3>5. \/ \E l \in Lines : sr = <<Request(Min(FreeTags), l, FALSE, {})>>
          \/ \E l \in Lines, be \in ByteEnables : sr = <<Request(Min(FreeTags), l, TRUE, be)>>
      BY <3>3 DEF A, B
    <3> QED BY <3>4, <3>5
  <2>2. FreeTags \in SUBSET Nat BY Basics DEF FreeTags
  <2>3. Min(FreeTags) \in FreeTags BY <2>1, <2>2, MinIn
  <2>4. Min(FreeTags) \in Tags /\ open[Min(FreeTags)] = None BY <2>3 DEF FreeTags
  <2>5. Filled(nreq + 1) \in Line /\ Filled(0) \in Line
    <3>1. nreq + 1 \in Value /\ 0 \in Value BY <2>1, LineFacts, Basics DEF TypeOK, Value
    <3> QED BY <3>1, LineFacts
  <2>6. PICK l \in Lines, we \in BOOLEAN, be \in SUBSET Words : sr = <<Request(Min(FreeTags), l, we, be)>>
    BY <2>1, EnableAssumption
  <2>7. sr[1] \in {r \in Req : ~ r.pf} /\ sr = <<sr[1]>> /\ sr[1].tag = Min(FreeTags)
    BY <2>4, <2>5, <2>6 DEF Request, Req
  <2> QED BY <2>1, <2>4, <2>7 DEF Maybe, s_gnt
<1> QED BY <1>1, <1>2

(* ReadFacts: a beat is the next one of a line that was read, and goes to  *)
(* the beats already received.                                             *)
LEMMA ReadFacts ==
  ASSUME TypeOK, Reads, NEW e \in Env, e.r # None
  PROVE  \E m \in Mshrs :
           /\ e.r[1].id = m /\ rd[m] # None /\ RLast(e) = (rd[m][1].beat = Beats)
           /\ Append(rbuf[m], e.r[1].data) \in Seq(Value)
           /\ Len(Append(rbuf[m], e.r[1].data)) = rd[m][1].beat
           /\ \A x \in 1 .. rd[m][1].beat : Append(rbuf[m], e.r[1].data)[x] = rd[m][1].data[x]
           /\ RLast(e) => Append(rbuf[m], e.r[1].data) = rd[m][1].data
<1>1. e.r \in ReadBeats BY DEF Env
<1>2. PICK m \in Mshrs : rd[m] # None /\ e.r = <<[id |-> m, data |-> rd[m][1].data[rd[m][1].beat]]>>
  BY <1>1 DEF ReadBeats
<1> DEFINE x == rd[m][1]
           s == rbuf[m]
           v == e.r[1].data
<1>3. e.r[1].id = m /\ v = x.data[x.beat] BY <1>2
<1>4. x.data \in Line /\ x.beat \in 1 .. Beats BY <1>2 DEF TypeOK, Table, Maybe
<1>5. s \in Seq(Value) /\ Len(s) = x.beat - 1 /\ \A j \in 1 .. Len(s) : s[j] = x.data[j]
  BY <1>2 DEF TypeOK, Reads
<1>6. v \in Value BY <1>3, <1>4 DEF Line, Words
<1>7. RLast(e) = (x.beat = Beats) BY <1>3, <1>4, <1>5, Basics DEF RLast
<1> HIDE DEF x, s, v
<1>8. /\ Append(s, v) \in Seq(Value) /\ Len(Append(s, v)) = Len(s) + 1
      /\ \A j \in 1 .. Len(s) + 1 : Append(s, v)[j] = IF j = Len(s) + 1 THEN v ELSE s[j]
  BY <1>5, <1>6
<1>9. Len(s) + 1 = x.beat BY <1>4, <1>5
<1>10. \A j \in 1 .. x.beat : Append(s, v)[j] = x.data[j] BY <1>3, <1>4, <1>5, <1>8, <1>9
<1>11. ASSUME RLast(e) PROVE Append(s, v) = x.data
  <2>1. x.beat = Beats BY <1>7, <1>11
  <2>2. x.data \in Seq(Value) /\ Len(x.data) = Beats BY <1>4, Basics DEF Line, Words
  <2> QED BY <1>8, <1>9, <1>10, <2>1, <2>2, SeqEqual
<1> QED BY <1>2, <1>3, <1>7, <1>8, <1>9, <1>10, <1>11 DEF x, s, v

(* WriteFacts: writes carry one ID, so memory answers the oldest.          *)
LEMMA WriteFacts ==
  ASSUME TypeOK, NEW e \in Env, e.b # None
  PROVE  e.b = <<1>> /\ Len(wr) >= 1 /\ RemoveAt(wr, e.b[1]) = Tail(wr)
<1>1. PICK n \in DOMAIN wr : e.b = <<n>> /\ InOrder(n) BY DEF Env, WriteAnswers
<1>2. wr \in Seq(Write) BY DEF TypeOK
<1>3. n \in 1 .. Len(wr) /\ Len(wr) \in Nat BY <1>1, <1>2
<1>4. \A x \in 1 .. Len(wr) : wr[x].id = 0 
  <2>1. \A x \in 1 .. Len(wr) : wr[x] \in Write BY <1>2
  <2> QED BY <2>1 DEF Write
<1>5. n = 1
  <2> SUFFICES ASSUME n # 1 PROVE FALSE OBVIOUS
  <2>1. 1 \in 1 .. (n - 1) /\ 1 \in 1 .. Len(wr) BY <1>3
  <2>2. wr[1].id # wr[n].id BY <1>1, <2>1 DEF InOrder
  <2> QED BY <1>3, <1>4, <2>1, <2>2
<1>6. RemoveAt(wr, 1) = Tail(wr)
  <2>1. SubSeq(wr, 1, 1 - 1) = <<>> BY <1>2
  <2>2. SubSeq(wr, 2, Len(wr)) = Tail(wr) BY <1>2, <1>3
  <2>3. Tail(wr) \in Seq(Write) BY <1>2, <1>3
  <2> QED BY <2>1, <2>2, <2>3, ConcatEmptySeq DEF RemoveAt
<1> QED BY <1>1, <1>3, <1>5, <1>6

(* AnswerFacts: what the AXI master tells the cache: a line that is        *)
(* complete, else the oldest write done, else nothing.                     *)
LEMMA AnswerFacts ==
  ASSUME TypeOK, Reads, NEW e \in Env
  PROVE  /\ WAck(Response(e)) <=> BFire(e)
         /\ BFire(e) => Response(e)[1].id[2] = Head(wq)
         /\ \A m \in Mshrs : Arrives(Response(e), m) <=> RLast(e) /\ e.r # None /\ e.r[1].id = m
         /\ \A m \in Mshrs : Arrives(Response(e), m) => rd[m] # None /\ Response(e)[1].data = rd[m][1].data
<1>1. CASE RLast(e)
  <2>0. e.r # None BY <1>1 DEF RLast
  <2>1. PICK m \in Mshrs : e.r[1].id = m /\ rd[m] # None /\ Append(rbuf[m], e.r[1].data) = rd[m][1].data
    BY <1>1, <2>0, ReadFacts
  <2>4. ~ BFire(e) BY <1>1 DEF BFire, bready
  <2>2. Response(e) = <<[id |-> <<0, m>>, data |-> rd[m][1].data]>> BY <1>1, <2>1, <2>4 DEF Response
  <2>3. Response(e) # None BY <2>2 DEF None
  <2>5. \A n : <<0, m>> = <<0, n>> <=> m = n OBVIOUS
  <2> QED BY <1>1, <2>0, <2>1, <2>2, <2>3, <2>4, <2>5 DEF WAck, Arrives
<1>2. CASE ~ RLast(e) /\ BFire(e)
  <2>1. Response(e) = <<[id |-> <<1, Head(wq)>>, data |-> Filled(0)]>> BY <1>2 DEF Response
  <2>2. Response(e) # None BY <2>1 DEF None
  <2>3. \A n : <<1, Head(wq)>> # <<0, n>> OBVIOUS
  <2> QED BY <1>2, <2>1, <2>2, <2>3 DEF WAck, Arrives
<1>3. CASE ~ RLast(e) /\ ~ BFire(e)
  <2>1. Response(e) = None BY <1>3 DEF Response
  <2> QED BY <1>3, <2>1 DEF WAck, Arrives
<1> QED BY <1>1, <1>2, <1>3

-----------------------------------------------------------------------------
(* One clock.                                                              *)
InOk(sr, e, go) == sr \in Offers /\ e \in Env /\ go \in BOOLEAN /\ Step(sr, e, go)
Grant == Acc(m_gnt)
NewMiss == acc_miss(m_gnt)
Sent == acc_wr(m_gnt)
Drained(t) == dr_go /\ d[1].t = t
Owed(t) == wa_go /\ Min(wack) = t

(* Kinds: the input register's request is taken in one way only.           *)
LEMMA Kinds ==
  ASSUME TypeOK
  PROVE  /\ i # None => i = <<i[1]>> /\ i[1] \in Req
         /\ rd_hit => Grant /\ ~ rd_join /\ ~ NewMiss /\ ~ Sent /\ ~ i[1].we /\ ~ i[1].pf
         /\ rd_join => Grant /\ ~ NewMiss /\ ~ Sent /\ ~ i[1].we /\ ~ i[1].pf
         /\ NewMiss => Grant /\ ~ Sent /\ ~ i[1].we /\ m_gnt /\ ~ w_any
         /\ Sent => Grant /\ i[1].we /\ ~ i[1].pf /\ m_gnt /\ ~ q_any
         /\ Grant => i # None /\ (i[1].pf \/ rd_hit \/ rd_join \/ NewMiss \/ Sent)
         /\ {rd_hit, rd_join, NewMiss, Sent, Grant} \subseteq BOOLEAN
<1>1. i # None => i = <<i[1]>> /\ i[1] \in Req BY DEF TypeOK, Maybe
<1>2. i # None => i[1].we \in BOOLEAN /\ i[1].pf \in BOOLEAN /\ (i[1].pf => ~ i[1].we)
  BY <1>1 DEF Req
<1>3. {rd_hit, rd_join, NewMiss, Sent, Grant} \subseteq BOOLEAN
  BY DEF rd_hit, rd_join, NewMiss, Sent, Grant, acc_miss, acc_wr, Acc
<1> QED
  BY <1>1, <1>2, <1>3 DEF Grant, NewMiss, Sent, Acc, i_gnt, acc_miss, acc_wr, rd_hit, rd_join,
     rd_miss, wr_go, pf_drop, m_req, Demand

(* InputStep: what becomes of the input register and the skid entry.       *)
LEMMA InputStep ==
  ASSUME TypeOK, NEW sr, NEW e, NEW go, InOk(sr, e, go)
  PROVE  \/ ~ (i = None \/ Grant) /\ i' = i /\ k' = (IF sr = None THEN k ELSE sr)
         \/ (i = None \/ Grant) /\ k # None /\ sr = None /\ i' = k /\ k' = None
         \/ (i = None \/ Grant) /\ k = None /\ i' = sr /\ k' = None
         \/ (i = None \/ Grant) /\ k = None /\ sr = None /\ k' = None
              /\ pf # None /\ i' = <<PfReq>> /\ PfReq \in Req /\ PfReq.pf
<1>1. Frees(m_gnt) <=> i = None \/ Grant BY DEF Frees, Grant, Acc
<1>2. Input(sr, m_gnt) BY DEF InOk, Step, CacheClock
<1>3. sr # None => k = None BY OfferFacts DEF InOk
<1>4. CASE ~ Frees(m_gnt) BY <1>1, <1>2, <1>4 DEF Input
<1>5. CASE Frees(m_gnt) /\ k # None BY <1>1, <1>2, <1>3, <1>5 DEF Input
<1>6. CASE Frees(m_gnt) /\ k = None /\ ~ (sr = None /\ pf_go(sr, m_gnt))
  BY <1>1, <1>2, <1>6 DEF Input
<1>7. CASE Frees(m_gnt) /\ k = None /\ sr = None /\ pf_go(sr, m_gnt)
  <2>1. i' = <<PfReq>> /\ k' = None BY <1>1, <1>2, <1>7 DEF Input
  <2>2. pf # None BY <1>7 DEF pf_go
  <2>3. PfReq \in Req /\ PfReq.pf
    <3>1. pf[1] \in Lines BY <2>2 DEF TypeOK, Maybe
    <3> QED BY <3>1, LineFacts DEF PfReq, Req
  <2> QED BY <1>1, <1>7, <2>1, <2>2, <2>3
<1> QED BY <1>4, <1>5, <1>6, <1>7

(* The request of tag t is in the input register or the skid entry.        *)
In(t) == Held(i, t) \/ Held(k, t)
(* HeldStep: a request is held from when it is offered until it is taken,  *)
(* in one of the two registers.                                            *)
LEMMA HeldStep ==
  ASSUME TypeOK, InPlaces, NEW sr, NEW e, NEW go, InOk(sr, e, go), NEW t \in Tags
  PROVE  /\ In(t)' <=> Tagged(sr, t) \/ Held(k, t) \/ (Held(i, t) /\ ~ Grant)
         /\ ~ (Held(i, t)' /\ Held(k, t)')
         /\ Tagged(sr, t) => open[t] = None
<1>1. Held(sr, t) <=> Tagged(sr, t)
  <2>1. Maybe(sr, {r \in Req : ~ r.pf}) BY OfferFacts DEF InOk
  <2> QED BY <2>1 DEF Maybe, Held, Tagged
<1>2. Tagged(sr, t) => open[t] = None BY OfferFacts DEF InOk, Tagged
<1>3. Held(i, t) \/ Held(k, t) => open[t] # None BY DEF InPlaces, InPlace
<1>4. ~ (Held(i, t) /\ Held(k, t)) BY DEF InPlaces, InPlace
<1>5. \A r : r = None => ~ Held(r, t) BY DEF Held
<1>6. PfReq.pf => ~ Held(<<PfReq>>, t) BY DEF Held, None
<1>7. Held(i, t)' = Held(i', t) /\ Held(k, t)' = Held(k', t) BY DEF Held
<1>8. CASE ~ (i = None \/ Grant) /\ i' = i /\ k' = (IF sr = None THEN k ELSE sr)
  <2>1. sr # None => k = None BY OfferFacts DEF InOk
  <2> QED BY <1>1, <1>2, <1>3, <1>4, <1>5, <1>7, <1>8, <2>1 DEF In
<1>9. CASE (i = None \/ Grant) /\ k # None /\ sr = None /\ i' = k /\ k' = None
  BY <1>1, <1>2, <1>5, <1>7, <1>9 DEF In
<1>10. CASE (i = None \/ Grant) /\ k = None /\ i' = sr /\ k' = None
  BY <1>1, <1>2, <1>5, <1>7, <1>10 DEF In
<1>11. CASE (i = None \/ Grant) /\ k = None /\ sr = None /\ k' = None /\ i' = <<PfReq>> /\ PfReq.pf
  BY <1>1, <1>2, <1>5, <1>6, <1>7, <1>11 DEF In
<1>12. \/ ~ (i = None \/ Grant) /\ i' = i /\ k' = (IF sr = None THEN k ELSE sr)
       \/ (i = None \/ Grant) /\ k # None /\ sr = None /\ i' = k /\ k' = None
       \/ (i = None \/ Grant) /\ k = None /\ i' = sr /\ k' = None
       \/ (i = None \/ Grant) /\ k = None /\ sr = None /\ k' = None /\ i' = <<PfReq>> /\ PfReq.pf
  BY InputStep
<1> QED BY <1>8, <1>9, <1>10, <1>11, <1>12

(* AnswerStep: the tag answered is that of the hit, of the waiter chosen   *)
(* or of the write whose acknowledgement goes out.                         *)
LEMMA AnswerStep ==
  ASSUME TypeOK, NEW t
  PROVE  /\ Tagged(Answer, t) <=> OnB(t) \/ Drained(t) \/ Owed(t)
         /\ Answer # None => Answer = <<Answer[1]>>
<1>1. /\ b # None => b = <<b[1]>>
      /\ dr_go <=> d # None /\ b = None
      /\ wa_go <=> wack # {} /\ b = None /\ ~ dr_go
  BY DEF TypeOK, Maybe, dr_go, wa_go
<1>2. CASE b # None BY <1>1, <1>2 DEF Answer, Tagged, OnB, Drained, Owed
<1>3. CASE b = None /\ dr_go
  <2>1. Answer = <<[tag |-> d[1].t, data |-> q[d[1].m][1].data[1]]>> BY <1>1, <1>3 DEF Answer
  <2> QED BY <1>1, <1>3, <2>1 DEF Tagged, OnB, Drained, Owed, None
<1>4. CASE b = None /\ ~ dr_go /\ wa_go
  <2>1. Answer = <<[tag |-> Min(wack), data |-> [x \in Words |-> 0]]>> BY <1>4 DEF Answer
  <2> QED BY <1>1, <1>4, <2>1 DEF Tagged, OnB, Drained, Owed, None
<1>5. CASE b = None /\ ~ dr_go /\ ~ wa_go
  <2>1. Answer = None BY <1>5 DEF Answer
  <2> QED BY <1>5, <2>1 DEF Tagged, OnB, Drained, Owed
<1> QED BY <1>2, <1>3, <1>4, <1>5

(* OpenStep: a tag is opened by the request and closed by the answer.      *)
LEMMA OpenStep ==
  ASSUME TypeOK, NEW sr, NEW e, NEW go, InOk(sr, e, go), NEW t \in Tags
  PROVE  /\ open'[t] # None <=> Tagged(sr, t) \/ (open[t] # None /\ ~ Tagged(Answer, t))
         /\ Tagged(sr, t) =>
              open'[t] = <<[we |-> sr[1].we, line |-> sr[1].line, loose |-> FALSE,
                            at |-> IF sr[1].we THEN Filled(0) ELSE amem[sr[1].line], later |-> {}]>>
<1>1. (<<t>> = [n \in DOMAIN sr |-> sr[n].tag]) = Tagged(sr, t)
  <2>1. Maybe(sr, {r \in Req : ~ r.pf}) BY OfferFacts DEF InOk
  <2> QED BY <2>1, TaggedIs
<1>2. (<<t>> = [n \in DOMAIN Answer |-> Answer[n].tag]) = Tagged(Answer, t)
  <2>1. Maybe(Answer, {Answer[1]}) BY AnswerStep DEF Maybe
  <2> QED BY <2>1, TaggedIs
<1>3. Effect(sr, Answer, go) BY DEF InOk, Step
<1>4. PICK o : open'[t] = IF Tagged(sr, t)
           THEN <<[we |-> sr[1].we, line |-> sr[1].line, loose |-> FALSE,
                   at |-> IF sr[1].we THEN Filled(0) ELSE amem[sr[1].line], later |-> {}]>>
           ELSE IF open[t] = None \/ Tagged(Answer, t) THEN None ELSE <<o>>
  BY <1>1, <1>2, <1>3 DEF Effect
<1>5. \A x : <<x>> # None BY DEF None
<1> QED BY <1>4, <1>5

(* PlaceStep: how a request comes to be a hit, a write in flight or an     *)
(* acknowledgement owed, and how it leaves.                                *)
LEMMA PlaceStep ==
  ASSUME TypeOK, Reads, NEW sr, NEW e, NEW go, InOk(sr, e, go), NEW t \in Tags
  PROVE  /\ OnB(t)' <=> Held(i, t) /\ rd_hit
         /\ w'[t] # None <=> (Held(i, t) /\ Sent) \/ (w[t] # None /\ ~ (BFire(e) /\ Head(wq) = t))
         /\ t \in wack' <=> (t \in wack /\ ~ Owed(t)) \/ (BFire(e) /\ Head(wq) = t)
<1> DEFINE mr == Response(e)
<1>1. WritesInFlight(m_gnt, mr) /\ Responses(m_gnt, mr) BY DEF InOk, Step, CacheClock
<1>2. (WAck(mr) <=> BFire(e)) /\ (BFire(e) => mr[1].id[2] = Head(wq)) BY AnswerFacts DEF InOk
<1> HIDE DEF mr
<1>3. rd_hit \/ Sent => (Held(i, t) <=> i[1].tag = t) BY Kinds DEF Held
<1>4. OnB(t)' <=> Held(i, t) /\ rd_hit
  <2>1. b' = IF rd_hit THEN <<[tag |-> i[1].tag, data |-> r_way[hit_way][1].data]>> ELSE None
    BY <1>1 DEF Responses
  <2> QED BY <1>3, <2>1 DEF OnB, None
<1>5. w'[t] # None <=> (Held(i, t) /\ Sent) \/ (w[t] # None /\ ~ (BFire(e) /\ Head(wq) = t))
  <2>1. w'[t] = IF Sent /\ i[1].tag = t THEN <<r_line>>
                ELSE IF WAck(mr) /\ mr[1].id[2] = t THEN None ELSE w[t]
    BY <1>1 DEF WritesInFlight, Sent
  <2>2. <<r_line>> # None BY DEF None
  <2> QED BY <1>2, <1>3, <2>1, <2>2
<1>6. t \in wack' <=> (t \in wack /\ ~ Owed(t)) \/ (BFire(e) /\ Head(wq) = t)
  <2>1. wack' = (wack \ (IF wa_go THEN {Min(wack)} ELSE {})) \cup (IF WAck(mr) THEN {mr[1].id[2]} ELSE {})
    BY <1>1 DEF Responses
  <2> QED BY <1>2, <2>1 DEF Owed
<1> QED BY <1>4, <1>5, <1>6

(* The fill takes the line of m; the line of m after this clock; m is      *)
(* taken by a miss.                                                        *)
FillNow(m) == fill_go(m_gnt) /\ fill_m = m
LineNow(e, m) == IF Arrives(Response(e), m) THEN <<rd[m][1].data>> ELSE q[m][1].data
Takes(m) == NewMiss /\ Min(q_free) = m
(* MissStep: a miss register is taken, stays free, is freed once its line  *)
(* is stored or stale and nobody waits, or goes on.                        *)
LEMMA MissStep ==
  ASSUME TypeOK, Reads, NEW sr, NEW e, NEW go, InOk(sr, e, go), NEW m \in Mshrs
  PROVE  \/ /\ Takes(m) /\ q[m] = None
            /\ q'[m] = <<[line |-> r_line, data |-> None, done |-> FALSE, stale |-> FALSE,
                          wait |-> IF i[1].pf THEN {} ELSE {i[1].tag}]>>
         \/ ~ Takes(m) /\ q[m] = None /\ q'[m] = None
         \/ /\ ~ Takes(m) /\ q[m] # None /\ q'[m] = None
            /\ Wait(m) = {} /\ q[m][1].data # None /\ (q[m][1].done \/ FillNow(m) \/ q[m][1].stale)
         \/ /\ ~ Takes(m) /\ q[m] # None
            /\ q'[m] = <<[line |-> q[m][1].line, data |-> LineNow(e, m), done |-> q[m][1].done \/ FillNow(m),
                          stale |-> q[m][1].stale \/ go, wait |-> Wait(m)]>>
            /\ ~ ((q[m][1].done \/ FillNow(m) \/ q[m][1].stale) /\ q[m][1].data # None /\ Wait(m) = {})
<1> DEFINE mr == Response(e)
<1>1. q'[m] = Miss(m, m_gnt, mr, go) BY DEF InOk, Step, CacheClock
<1>2. Arrives(mr, m) => rd[m] # None /\ mr[1].data = rd[m][1].data BY AnswerFacts DEF InOk
<1>3. rd[m] # None => q[m] # None BY DEF Reads, Empty
<1>4. Takes(m) => q[m] = None
  <2> SUFFICES ASSUME Takes(m) PROVE q[m] = None OBVIOUS
  <2>1. q_free # {} BY DEF Takes, NewMiss, acc_miss, rd_miss
  <2>2. q_free \in SUBSET Nat BY Basics DEF q_free
  <2>3. Min(q_free) \in q_free BY <2>1, <2>2, MinIn
  <2> QED BY <2>3 DEF q_free, Takes
<1> HIDE DEF mr
<1>5. CASE Takes(m)
  <2>1. q[m] = None /\ ~ Arrives(mr, m) BY <1>2, <1>3, <1>4, <1>5
  <2>2. acc_miss(m_gnt) /\ Min(q_free) = m BY <1>5 DEF Takes, NewMiss
  <2>3. q'[m] = <<[line |-> r_line, data |-> None, done |-> FALSE, stale |-> FALSE,
                   wait |-> IF i[1].pf THEN {} ELSE {i[1].tag}]>>
    BY <1>1, <2>1, <2>2 DEF Miss
  <2> QED BY <1>5, <2>1, <2>3
<1>6. CASE ~ Takes(m) /\ q[m] = None
  <2>1. ~ (acc_miss(m_gnt) /\ Min(q_free) = m) BY <1>6 DEF Takes, NewMiss
  <2> QED BY <1>1, <1>6, <2>1 DEF Miss
<1>7. CASE ~ Takes(m) /\ q[m] # None
  <2>1. ~ (acc_miss(m_gnt) /\ Min(q_free) = m) BY <1>7 DEF Takes, NewMiss
  <2> DEFINE r == q[m][1]
             dn == r.done \/ (fill_go(m_gnt) /\ fill_m = m)
             x == [line |-> r.line, data |-> IF Arrives(mr, m) THEN <<mr[1].data>> ELSE r.data,
                   done |-> dn, stale |-> r.stale \/ go, wait |-> Wait(m)]
  <2>2. q'[m] = IF (dn \/ r.stale) /\ r.data # None /\ Wait(m) = {} THEN None ELSE <<x>>
    BY <1>1, <1>7, <2>1 DEF Miss
  <2>3. x = [line |-> r.line, data |-> LineNow(e, m), done |-> r.done \/ FillNow(m),
             stale |-> r.stale \/ go, wait |-> Wait(m)]
    BY <1>2 DEF LineNow, mr, FillNow
  <2>4. dn = (r.done \/ FillNow(m)) BY DEF FillNow
  <2> HIDE DEF r, dn, x
  <2>8. CASE (dn \/ r.stale) /\ r.data # None /\ Wait(m) = {}
    BY <1>7, <2>2, <2>4, <2>8 DEF r
  <2>9. CASE ~ ((dn \/ r.stale) /\ r.data # None /\ Wait(m) = {})
    BY <1>7, <2>2, <2>3, <2>4, <2>9 DEF r
  <2> QED BY <2>8, <2>9
<1> QED BY <1>5, <1>6, <1>7

(* The request in the input register joins the miss of m.                  *)
Joined(m) == rd_join /\ Min(q_match) = m
(* WaitStep: who waits for a miss register in the next clock.              *)
LEMMA WaitStep ==
  ASSUME TypeOK, InPlaces, Chosen, Reads, NEW sr, NEW e, NEW go, InOk(sr, e, go),
         NEW m \in Mshrs, NEW t \in Tags
  PROVE  /\ OnQ(m, t)' <=> (OnQ(m, t) /\ ~ Drained(t)) \/ (Held(i, t) /\ Joined(m)) \/ (Held(i, t) /\ Takes(m))
         /\ Joined(m) => q[m] # None /\ ~ q[m][1].stale /\ q[m][1].line = r_line
         /\ Drained(t) => \E n \in Mshrs : OnQ(n, t)
<1>1. Joined(m) => q[m] # None /\ ~ q[m][1].stale /\ q[m][1].line = r_line
  <2> SUFFICES ASSUME Joined(m) PROVE q[m] # None /\ ~ q[m][1].stale /\ q[m][1].line = r_line
    OBVIOUS
  <2>1. q_match # {} BY DEF Joined, rd_join, q_any
  <2>2. q_match \in SUBSET Nat BY Basics DEF q_match
  <2>3. Min(q_match) \in q_match BY <2>1, <2>2, MinIn
  <2> QED BY <2>3 DEF q_match, Joined
<1>2. rd_join => (Held(i, t) <=> i[1].tag = t) BY Kinds DEF Held
<1>3. Takes(m) => (Held(i, t) <=> ~ i[1].pf /\ i[1].tag = t)
  <2>1. NewMiss => i # None BY Kinds
  <2> QED BY <2>1 DEF Takes, Held
<1>4. Drained(t) => d[1].m \in Mshrs /\ OnQ(d[1].m, t) BY DEF Drained, dr_go, Chosen, TypeOK, Maybe
<1>5. t \in Wait(m) <=> (t \in q[m][1].wait /\ ~ (Drained(t) /\ d[1].m = m)) \/ (Held(i, t) /\ Joined(m))
  BY <1>2 DEF Wait, nd_wait, Joined, Drained
<1>6. OnQ(m, t) /\ Drained(t) => d[1].m = m BY <1>4 DEF InPlaces, InPlace
<1>7. Takes(m) => ~ rd_join BY Kinds DEF Takes
<1>8. \A x : <<x>> # None BY DEF None
<1>9. OnQ(m, t)' = IF q'[m] = None THEN FALSE ELSE t \in q'[m][1].wait BY DEF OnQ
<1>10. OnQ(m, t)' <=> (OnQ(m, t) /\ ~ Drained(t)) \/ (Held(i, t) /\ Joined(m)) \/ (Held(i, t) /\ Takes(m))
  <2>1. CASE Takes(m)
    <3>0. /\ q[m] = None
          /\ q'[m] = <<[line |-> r_line, data |-> None, done |-> FALSE, stale |-> FALSE,
                        wait |-> IF i[1].pf THEN {} ELSE {i[1].tag}]>>
      BY <2>1, MissStep
    <3>1. q[m] = None /\ q'[m] # None /\ q'[m][1].wait = IF i[1].pf THEN {} ELSE {i[1].tag}
      BY <1>8, <3>0
    <3> QED BY <1>1, <1>3, <1>7, <1>9, <2>1, <3>1 DEF OnQ
  <2>2. CASE ~ Takes(m) /\ q[m] = None
    <3>1. q'[m] = None BY <2>2, MissStep
    <3> QED BY <1>1, <1>9, <2>2, <3>1 DEF OnQ
  <2>3. CASE ~ Takes(m) /\ q[m] # None
    <3>0. \/ q'[m] = None /\ Wait(m) = {}
          \/ q'[m] = <<[line |-> q[m][1].line, data |-> LineNow(e, m), done |-> q[m][1].done \/ FillNow(m),
                        stale |-> q[m][1].stale \/ go, wait |-> Wait(m)]>>
      BY <2>3, MissStep
    <3>1. (q'[m] = None /\ Wait(m) = {}) \/ (q'[m] # None /\ q'[m][1].wait = Wait(m))
      BY <1>8, <3>0
    <3>2. OnQ(m, t)' <=> t \in Wait(m) BY <1>9, <3>1
    <3> QED BY <1>4, <1>5, <1>6, <2>3, <3>2 DEF OnQ
  <2> QED BY <2>1, <2>2, <2>3
<1> QED BY <1>1, <1>4, <1>10

(* InPlaceStep: every request stays in one place.                          *)
LEMMA InPlaceStep ==
  ASSUME Busy, NEW sr, NEW e, NEW go, InOk(sr, e, go), NEW t \in Tags
  PROVE  InPlace(t)'
<1> USE DEF Busy
<1> DEFINE T == Tagged(sr, t)
           A == Tagged(Answer, t)
           D0 == Drained(t)
           O == Owed(t)
           X == BFire(e) /\ Head(wq) = t
           hi == Held(i, t)
           hk == Held(k, t)
           ow == w[t] # None
           oa == t \in wack
           ob == OnB(t)
           oq(m) == OnQ(m, t)
           ot == open[t] # None
<1>1. /\ In(t)' <=> T \/ hk \/ (hi /\ ~ Grant)
      /\ ~ (Held(i, t)' /\ Held(k, t)')
      /\ T => ~ ot
  BY HeldStep
<1>2. A <=> ob \/ D0 \/ O BY AnswerStep
<1>3. open'[t] # None <=> T \/ (ot /\ ~ A) BY OpenStep
<1>4. /\ OnB(t)' <=> hi /\ rd_hit
      /\ w'[t] # None <=> (hi /\ Sent) \/ (ow /\ ~ X)
      /\ t \in wack' <=> (oa /\ ~ O) \/ X
  BY PlaceStep
<1>5. \A m \in Mshrs : OnQ(m, t)' <=> (oq(m) /\ ~ D0) \/ (hi /\ Joined(m)) \/ (hi /\ Takes(m))
  BY WaitStep
<1>6. D0 => \E n \in Mshrs : oq(n)
  BY WaitStep, Basics
<1>7. O => oa /\ ~ ob /\ ~ D0
  <2>1. wack \in SUBSET Nat BY Basics DEF TypeOK
  <2>2. O => Min(wack) \in wack BY <2>1, MinIn DEF Owed, wa_go
  <2>3. O => b = None /\ ~ dr_go BY DEF Owed, wa_go
  <2> QED BY <2>2, <2>3 DEF Owed, OnB, Drained
<1>8. X => ow
  <2> SUFFICES ASSUME X PROVE ow OBVIOUS
  <2>1. Len(wr) >= 1 BY WriteFacts DEF BFire, InOk
  <2>2. Len(wq) >= 1
    <3>1. Len(wr \o aw) = Len(wr) + Len(aw) /\ Len(aw) \in Nat
      <4>1. aw \in Seq({aw[1]})
        <5>1. CASE aw = None BY <5>1 DEF None
        <5>2. CASE aw # None
          <6> DEFINE x == aw[1]
          <6>1. aw = <<x>> BY <5>2 DEF TypeOK, Maybe
          <6> HIDE DEF x
          <6>2. <<x>> \in Seq({x}) OBVIOUS
          <6>3. aw \in Seq({x}) BY <6>1, <6>2
          <6> QED BY <6>3 DEF x
        <5> QED BY <5>1, <5>2
      <4>2. wr \in Seq(Write) BY DEF TypeOK
      <4> QED BY <4>1, <4>2
    <3> QED BY <2>1, <3>1 DEF Writes, InFlight, TypeOK
  <2>3. 1 \in 1 .. Len(wq) /\ wq[1] = t BY <2>2 DEF TypeOK
  <2> QED BY <2>3 DEF Writes
<1>9. Grant /\ hi => rd_hit \/ rd_join \/ NewMiss \/ Sent BY Kinds DEF Held
<1>10. /\ rd_hit => ~ rd_join /\ ~ NewMiss /\ ~ Sent
       /\ rd_join => ~ NewMiss /\ ~ Sent
       /\ NewMiss => ~ Sent
       /\ rd_hit \/ rd_join \/ NewMiss \/ Sent => Grant
  BY Kinds
<1>11. /\ rd_join => \E m \in Mshrs : Joined(m)
       /\ NewMiss => \E m \in Mshrs : Takes(m)
  <2>1. q_match \in SUBSET Nat /\ q_free \in SUBSET Nat /\ q_match \subseteq Mshrs /\ q_free \subseteq Mshrs
    BY Basics DEF q_match, q_free
  <2>2. (rd_join => q_match # {}) /\ (NewMiss => q_free # {})
    BY DEF rd_join, q_any, NewMiss, acc_miss, rd_miss
  <2> QED BY <2>1, <2>2, MinIn DEF Joined, Takes
<1>12. \A m, n \in Mshrs : /\ Joined(m) => rd_join /\ (Joined(n) => m = n)
                           /\ Takes(m) => NewMiss /\ (Takes(n) => m = n)
  BY DEF Joined, Takes
<1>13. InPlace(t) BY DEF InPlaces
<1>14. Held(i, t)' \/ Held(k, t)' <=> T \/ hk \/ (hi /\ ~ Grant) BY <1>1 DEF In
<1>15. /\ ot <=> hi \/ hk \/ ow \/ oa \/ ob \/ \E m \in Mshrs : oq(m)
       /\ hi => ~ hk /\ ~ ow /\ ~ oa /\ ~ ob /\ \A m \in Mshrs : ~ oq(m)
       /\ hk => ~ ow /\ ~ oa /\ ~ ob /\ \A m \in Mshrs : ~ oq(m)
       /\ ow => ~ oa /\ ~ ob /\ \A m \in Mshrs : ~ oq(m)
       /\ oa => ~ ob /\ \A m \in Mshrs : ~ oq(m)
       /\ ob => \A m \in Mshrs : ~ oq(m)
       /\ \A m, n \in Mshrs : oq(m) /\ oq(n) => m = n
  BY <1>13 DEF InPlace, NoQ
<1> HIDE DEF T, A, D0, O, X, hi, hk, ow, oa, ob, oq, ot, Busy
<1>16. \A m, n \in Mshrs : OnQ(m, t)' /\ OnQ(n, t)' => m = n
  BY <1>5, <1>10, <1>12, <1>15
<1>17. (\E m \in Mshrs : OnQ(m, t)')
         <=> ((\E m \in Mshrs : oq(m)) /\ ~ D0) \/ (hi /\ rd_join) \/ (hi /\ NewMiss)
  BY <1>5, <1>11, <1>12
<1>18. NoQ(t)' <=> ~ \E m \in Mshrs : OnQ(m, t)' BY DEF NoQ
<1>a. D0 => ~ hi /\ ~ hk /\ ~ ow /\ ~ oa /\ ~ ob BY <1>6, <1>15
<1>19. open'[t] # None <=> Held(i, t)' \/ Held(k, t)' \/ w'[t] # None \/ t \in wack' \/ OnB(t)' \/ ~ NoQ(t)'
  BY <1>a, <1>1, <1>2, <1>3, <1>4, <1>6, <1>7, <1>8, <1>9, <1>10, <1>14, <1>15, <1>17, <1>18
<1>20. Held(i, t)' \/ Held(k, t)' => w'[t] = None /\ t \notin wack' /\ ~ OnB(t)' /\ NoQ(t)'
  BY <1>a, <1>1, <1>4, <1>7, <1>8, <1>9, <1>10, <1>14, <1>15, <1>17, <1>18
<1>21. /\ w'[t] # None => t \notin wack' /\ ~ OnB(t)' /\ NoQ(t)'
       /\ t \in wack' => ~ OnB(t)' /\ NoQ(t)'
       /\ OnB(t)' => NoQ(t)'
  BY <1>a, <1>4, <1>7, <1>8, <1>10, <1>15, <1>17, <1>18
<1> QED BY <1>1, <1>16, <1>19, <1>20, <1>21 DEF InPlace

(* ChosenStep: the waiter to be answered next has its line.                *)
LEMMA ChosenStep ==
  ASSUME Busy, NEW sr, NEW e, NEW go, InOk(sr, e, go)
  PROVE  Chosen'
<1> USE DEF Busy
<1> DEFINE N == nd(Response(e))
<1>1. d' = IF N = {} THEN None ELSE <<[m |-> Min(N), t |-> Min(nd_wait(Min(N)))]>>
  BY DEF InOk, Step, CacheClock, Responses
<1> SUFFICES ASSUME N # {} PROVE Chosen'
  BY <1>1 DEF Chosen
<1> DEFINE m == Min(N)
           t == Min(nd_wait(m))
<1>2. N \in SUBSET Nat BY Basics DEF nd
<1>3. m \in N BY <1>2, MinIn
<1>4. m \in Mshrs /\ q[m] # None /\ (q[m][1].data # None \/ Arrives(Response(e), m)) /\ nd_wait(m) # {}
  BY <1>3 DEF nd
<1> HIDE DEF N
<1>5. d' = <<[m |-> m, t |-> t]>> BY <1>1
<1> HIDE DEF m
<1>6. MissOk(q[m][1]) BY <1>4 DEF TypeOK
<1>7. nd_wait(m) \in SUBSET Tags BY <1>6 DEF nd_wait, MissOk
<1>8. t \in nd_wait(m) /\ t \in Tags
  <2>1. nd_wait(m) \in SUBSET Nat BY <1>7, Basics
  <2> QED BY <1>4, <1>7, <2>1, MinIn
<1> HIDE DEF t
<1>9. t \in Wait(m) BY <1>8 DEF Wait
<1>10. ~ Takes(m)
  <2>1. Takes(m) => q[m] = None BY <1>4, MissStep
  <2> QED BY <1>4, <2>1
<1>11. q'[m] = <<[line |-> q[m][1].line, data |-> LineNow(e, m), done |-> q[m][1].done \/ FillNow(m),
                  stale |-> q[m][1].stale \/ go, wait |-> Wait(m)]>>
  BY <1>4, <1>9, <1>10, MissStep
<1>12. LineNow(e, m) # None
  <2>1. \A x : <<x>> # None BY DEF None
  <2> QED BY <1>4, <2>1 DEF LineNow
<1>13. /\ q'[m] # None /\ q'[m][1].data # None /\ t \in q'[m][1].wait
  <2>1. \A x : <<x>> # None BY DEF None
  <2>2. q'[m] # None BY <1>11, <2>1
  <2> QED BY <1>9, <1>11, <1>12, <2>2
<1>14. d'[1].m = m /\ d'[1].t = t BY <1>5
<1> QED BY <1>13, <1>14 DEF Chosen, OnQ

(* SentStep: what the AXI master is given in this clock.                   *)
LEMMA SentStep ==
  ASSUME TypeOK, NEW sr, NEW e, NEW go, InOk(sr, e, go)
  PROVE  /\ Sent => aw = None /\ aw' = <<[id |-> 0, line |-> r_line, data |-> i[1].data, be |-> i[1].be,
                                          av |-> TRUE, beat |-> 1]>>
         /\ ~ Sent => aw' = IF aw = None \/ WriteOut(e) THEN None ELSE <<AwNext(e)>>
         /\ NewMiss => ar = None /\ ar' = <<[id |-> Min(q_free), line |-> r_line]>>
         /\ ~ NewMiss => ar' = IF ArFire(e) THEN None ELSE ar
         /\ wq' = LET left == IF BFire(e) THEN Tail(wq) ELSE wq
                  IN  IF Sent THEN Append(left, i[1].tag) ELSE left
<1>1. AxiClock(e) BY DEF InOk, Step
<1>2. Sent <=> Sends /\ wr_go BY DEF Sent, acc_wr, Sends, m_req
<1>3. NewMiss <=> Sends /\ ~ wr_go
  <2>1. rd_miss => ~ wr_go
    <3>1. i # None => i[1].we \in BOOLEAN BY Kinds DEF Req
    <3> QED BY <3>1 DEF rd_miss, wr_go
  <2> QED BY <2>1 DEF NewMiss, acc_miss, Sends, m_req
<1>4. /\ wr_go => MReq.id[2] = i[1].tag
      /\ ~ wr_go => MReq.id[2] = Min(q_free)
      /\ MReq.line = r_line /\ MReq.data = i[1].data /\ MReq.be = i[1].be
  BY DEF MReq
<1>5. Sent => aw = None BY <1>2 DEF Sends, m_gnt
<1>6. NewMiss => ar = None BY <1>3 DEF Sends, m_gnt
<1>7. aw' = IF Sent THEN <<[id |-> 0, line |-> r_line, data |-> i[1].data, be |-> i[1].be,
                            av |-> TRUE, beat |-> 1]>>
            ELSE IF aw = None \/ WriteOut(e) THEN None ELSE <<AwNext(e)>>
  BY <1>1, <1>2, <1>4 DEF AxiClock, WID
<1>8. ar' = IF NewMiss THEN <<[id |-> Min(q_free), line |-> r_line]>>
            ELSE IF ArFire(e) THEN None ELSE ar
  BY <1>1, <1>3, <1>4 DEF AxiClock
<1>9. wq' = LET left == IF BFire(e) THEN Tail(wq) ELSE wq
            IN  IF Sent THEN Append(left, i[1].tag) ELSE left
  BY <1>1, <1>2, <1>4 DEF AxiClock
<1> QED BY <1>5, <1>6, <1>7, <1>8, <1>9

(* A beat comes for m.                                                     *)
Beat(e, m) == e.r # None /\ e.r[1].id = m
(* RdStep: reads under way: a line is read when its address is taken, and  *)
(* a beat comes for one of them.                                           *)
LEMMA RdStep ==
  ASSUME TypeOK, Reads, NEW sr, NEW e, NEW go, InOk(sr, e, go), NEW m \in Mshrs
  PROVE  \/ /\ ArFire(e) /\ Asks(m) /\ ~ Beat(e, m) /\ rd[m] = None
            /\ rd'[m] = <<[data |-> mem[q[m][1].line], beat |-> 1]>> /\ rbuf'[m] = <<>>
         \/ /\ ~ (ArFire(e) /\ Asks(m)) /\ Beat(e, m) /\ rd[m] # None /\ rd[m][1].beat = Beats
            /\ Arrives(Response(e), m) /\ rd'[m] = None /\ rbuf'[m] = <<>>
         \/ /\ ~ (ArFire(e) /\ Asks(m)) /\ Beat(e, m) /\ rd[m] # None /\ rd[m][1].beat < Beats
            /\ ~ Arrives(Response(e), m)
            /\ rd'[m] = <<[data |-> rd[m][1].data, beat |-> rd[m][1].beat + 1]>>
            /\ rbuf'[m] \in Seq(Value) /\ Len(rbuf'[m]) = rd[m][1].beat
            /\ \A x \in 1 .. rd[m][1].beat : rbuf'[m][x] = rd[m][1].data[x]
         \/ /\ ~ (ArFire(e) /\ Asks(m)) /\ ~ Beat(e, m) /\ ~ Arrives(Response(e), m)
            /\ rd'[m] = rd[m] /\ rbuf'[m] = rbuf[m]
<1>1. Memory(e) /\ AxiClock(e) BY DEF InOk, Step
<1> DEFINE f == [n \in DOMAIN ar |-> ar[n].id]
<1>2. (<<m>> = f) = Asks(m)
  <2>1. CASE ar = None
    <3> DEFINE g == <<m>>
    <3>1. DOMAIN f = {} BY <2>1 DEF None
    <3>2. DOMAIN g = {1} OBVIOUS
    <3> HIDE DEF f, g
    <3>3. f # g BY <3>1, <3>2
    <3> QED BY <2>1, <3>3 DEF Asks, g
  <2>2. CASE ar # None
    <3>1. ar = <<ar[1]>> BY <2>2 DEF TypeOK, Maybe
    <3>2. DOMAIN ar = {1} BY <3>1
    <3>3. f = <<ar[1].id>> BY <3>2
    <3> QED BY <2>2, <3>3 DEF Asks
  <2> QED BY <2>1, <2>2
<1> HIDE DEF f
<1>3. rd'[m] = IF ArFire(e) /\ Asks(m) THEN <<[data |-> mem[ar[1].line], beat |-> 1]>>
               ELSE IF ~ Beat(e, m) THEN rd[m]
               ELSE IF rd[m][1].beat = Beats THEN None
               ELSE <<[rd[m][1] EXCEPT !.beat = @ + 1]>>
  BY <1>1, <1>2 DEF Memory, Beat, f
<1>4. rbuf'[m] = IF ~ Beat(e, m) THEN rbuf[m]
                 ELSE IF RLast(e) THEN <<>> ELSE Append(rbuf[m], e.r[1].data)
  BY <1>1 DEF AxiClock, Beat
<1>5. Arrives(Response(e), m) <=> RLast(e) /\ Beat(e, m) BY AnswerFacts DEF InOk, Beat
<1>6. Asks(m) => /\ rd[m] = None /\ rbuf[m] = <<>> /\ ar[1].line = q[m][1].line
  BY DEF Reads
<1>7. Beat(e, m) => /\ rd[m] # None /\ RLast(e) = (rd[m][1].beat = Beats)
                    /\ Append(rbuf[m], e.r[1].data) \in Seq(Value)
                    /\ Len(Append(rbuf[m], e.r[1].data)) = rd[m][1].beat
                    /\ \A x \in 1 .. rd[m][1].beat : Append(rbuf[m], e.r[1].data)[x] = rd[m][1].data[x]
  BY ReadFacts DEF InOk, Beat
<1>8. CASE ArFire(e) /\ Asks(m)
  BY <1>3, <1>4, <1>6, <1>7, <1>8
<1>9. CASE ~ (ArFire(e) /\ Asks(m)) /\ ~ Beat(e, m)
  BY <1>3, <1>4, <1>5, <1>9
<1>10. CASE ~ (ArFire(e) /\ Asks(m)) /\ Beat(e, m)
  <2>1. rd[m] # None /\ rd[m][1] \in [data : Line, beat : 1 .. Beats]
    BY <1>7, <1>10 DEF TypeOK, Table, Maybe
  <2>2. CASE rd[m][1].beat = Beats BY <1>3, <1>4, <1>5, <1>7, <1>10, <2>2
  <2>3. CASE rd[m][1].beat # Beats
    <3>1. rd[m][1].beat < Beats BY <2>1, <2>3, Basics
    <3>2. [rd[m][1] EXCEPT !.beat = @ + 1] = [data |-> rd[m][1].data, beat |-> rd[m][1].beat + 1]
      BY <2>1
    <3>3. rd'[m] = <<[data |-> rd[m][1].data, beat |-> rd[m][1].beat + 1]>> BY <1>3, <1>10, <2>3, <3>2
    <3>4. rbuf'[m] = Append(rbuf[m], e.r[1].data) /\ ~ Arrives(Response(e), m)
      BY <1>4, <1>5, <1>7, <1>10, <2>3
    <3> QED BY <1>7, <1>10, <3>1, <3>3, <3>4
  <2> QED BY <2>2, <2>3
<1> QED BY <1>8, <1>9, <1>10

(* AsksStep: a read waits for AR from its miss until AR is taken.          *)
LEMMA AsksStep ==
  ASSUME TypeOK, NEW sr, NEW e, NEW go, InOk(sr, e, go), NEW m \in Mshrs
  PROVE  Asks(m)' <=> Takes(m) \/ (Asks(m) /\ ~ ArFire(e))
<1>1. CASE NewMiss
  <2>1. ar = None /\ ar' = <<[id |-> Min(q_free), line |-> r_line]>> BY <1>1, SentStep
  <2>2. ar' # None /\ ar'[1].id = Min(q_free) BY <2>1 DEF None
  <2> QED BY <1>1, <2>1, <2>2 DEF Asks, Takes
<1>2. CASE ~ NewMiss
  <2>1. ar' = IF ArFire(e) THEN None ELSE ar BY <1>2, SentStep
  <2> QED BY <1>2, <2>1 DEF Asks, Takes
<1> QED BY <1>1, <1>2

(* ReadsStep: a miss register waits for its line exactly while its read is *)
(* under way.                                                              *)
LEMMA ReadsStep ==
  ASSUME TypeOK, Reads, NEW sr, NEW e, NEW go, InOk(sr, e, go)
  PROVE  Reads'
<1> SUFFICES ASSUME NEW m \in Mshrs
             PROVE  /\ Empty(m)' <=> rd'[m] # None \/ Asks(m)'
                    /\ ~ (rd'[m] # None /\ Asks(m)')
                    /\ Asks(m)' => ar'[1].line = q'[m][1].line
                    /\ IF rd'[m] = None THEN rbuf'[m] = <<>>
                       ELSE /\ Len(rbuf'[m]) = rd'[m][1].beat - 1
                            /\ \A x \in 1 .. Len(rbuf'[m]) : rbuf'[m][x] = rd'[m][1].data[x]
  BY DEF Reads
<1>0. \A x : <<x>> # None BY DEF None
<1>1. /\ Empty(m) <=> rd[m] # None \/ Asks(m)
      /\ ~ (rd[m] # None /\ Asks(m))
      /\ Asks(m) => ar[1].line = q[m][1].line
      /\ IF rd[m] = None THEN rbuf[m] = <<>>
         ELSE Len(rbuf[m]) = rd[m][1].beat - 1 /\ \A x \in 1 .. Len(rbuf[m]) : rbuf[m][x] = rd[m][1].data[x]
  BY DEF Reads
<1>2. Asks(m)' <=> Takes(m) \/ (Asks(m) /\ ~ ArFire(e)) BY AsksStep
<1>3. Takes(m) => q[m] = None BY MissStep
<1>4. /\ Empty(m)' <=> Takes(m) \/ (Empty(m) /\ ~ Arrives(Response(e), m))
      /\ Takes(m) => q'[m][1].line = r_line
      /\ Asks(m) => q'[m][1].line = q[m][1].line
  <2>0. Empty(m)' = IF q'[m] = None THEN FALSE ELSE q'[m][1].data = None BY DEF Empty
  <2>1. CASE Takes(m)
    <3>1. q'[m] = <<[line |-> r_line, data |-> None, done |-> FALSE, stale |-> FALSE,
                     wait |-> IF i[1].pf THEN {} ELSE {i[1].tag}]>> /\ q[m] = None
      BY <2>1, MissStep
    <3>2. q'[m] # None /\ q'[m][1].data = None /\ q'[m][1].line = r_line BY <1>0, <3>1
    <3> QED BY <1>1, <2>0, <2>1, <3>1, <3>2 DEF Empty
  <2>2. CASE ~ Takes(m) /\ q[m] = None
    <3>1. q'[m] = None BY <2>2, MissStep
    <3> QED BY <1>1, <2>0, <2>2, <3>1 DEF Empty
  <2>3. CASE ~ Takes(m) /\ q[m] # None /\ q'[m] = None
    <3>1. q[m][1].data # None BY <2>3, <1>0, MissStep
    <3> QED BY <1>1, <2>0, <2>3, <3>1 DEF Empty
  <2>4. CASE ~ Takes(m) /\ q[m] # None /\ q'[m] # None
    <3>1. q'[m] = <<[line |-> q[m][1].line, data |-> LineNow(e, m), done |-> q[m][1].done \/ FillNow(m),
                     stale |-> q[m][1].stale \/ go, wait |-> Wait(m)]>>
      BY <2>4, MissStep
    <3>2. q'[m][1].data = LineNow(e, m) /\ q'[m][1].line = q[m][1].line BY <3>1
    <3> QED BY <1>0, <2>0, <2>4, <3>2 DEF Empty, LineNow
  <2> QED BY <2>1, <2>2, <2>3, <2>4
<1>5. rd'[m] # None <=> (ArFire(e) /\ Asks(m)) \/ (rd[m] # None /\ ~ Arrives(Response(e), m))
  BY <1>0, <1>1, RdStep
<1>6. Arrives(Response(e), m) => rd[m] # None BY AnswerFacts DEF InOk
<1>7. Takes(m) => ~ Empty(m) BY <1>3 DEF Empty
<1>8. Asks(m)' => ar'[1].line = q'[m][1].line
  <2>1. CASE NewMiss
    <3>1. ar = None /\ ar' = <<[id |-> Min(q_free), line |-> r_line]>> BY <2>1, SentStep
    <3>2. ~ Asks(m) BY <3>1 DEF Asks
    <3>3. ar'[1].line = r_line BY <3>1
    <3> QED BY <1>2, <1>4, <3>2, <3>3
  <2>2. CASE ~ NewMiss
    <3>1. ar' = IF ArFire(e) THEN None ELSE ar BY <2>2, SentStep
    <3>2. ~ Takes(m) BY <2>2 DEF Takes
    <3> QED BY <1>1, <1>2, <1>4, <3>1, <3>2
  <2> QED BY <2>1, <2>2
<1>9. IF rd'[m] = None THEN rbuf'[m] = <<>>
      ELSE /\ Len(rbuf'[m]) = rd'[m][1].beat - 1
           /\ \A x \in 1 .. Len(rbuf'[m]) : rbuf'[m][x] = rd'[m][1].data[x]
  <2>1. rd[m] # None => rd[m][1].beat \in Nat BY DEF TypeOK, Table, Maybe
  <2>2. CASE rd'[m] = <<[data |-> mem[q[m][1].line], beat |-> 1]>> /\ rbuf'[m] = <<>>
    <3>1. rd'[m][1].beat = 1 /\ rd'[m] # None /\ Len(rbuf'[m]) = 0 BY <1>0, <2>2
    <3> QED BY <3>1
  <2>3. CASE rd'[m] = None /\ rbuf'[m] = <<>> BY <2>3
  <2>4. CASE /\ rd[m] # None
             /\ rd'[m] = <<[data |-> rd[m][1].data, beat |-> rd[m][1].beat + 1]>>
             /\ Len(rbuf'[m]) = rd[m][1].beat
             /\ \A x \in 1 .. rd[m][1].beat : rbuf'[m][x] = rd[m][1].data[x]
    <3>1. rd'[m] # None /\ rd'[m][1].beat = rd[m][1].beat + 1 /\ rd'[m][1].data = rd[m][1].data
      BY <1>0, <2>4
    <3> QED BY <2>1, <2>4, <3>1
  <2>5. CASE rd'[m] = rd[m] /\ rbuf'[m] = rbuf[m] BY <1>1, <2>5
  <2> QED BY <2>2, <2>3, <2>4, <2>5, RdStep
<1> QED BY <1>1, <1>2, <1>4, <1>5, <1>6, <1>7, <1>8, <1>9

(* AwType: the write being sent keeps its type.                            *)
LEMMA AwType ==
  ASSUME TypeOK, NEW e \in Env, aw # None
  PROVE  /\ aw = <<aw[1]>>
         /\ AwNext(e) \in [id : {0}, line : Lines, data : Line, be : SUBSET Words, av : BOOLEAN, beat : 1 .. Beats + 1]
         /\ AwNext(e).line = aw[1].line /\ AwNext(e).data = aw[1].data /\ AwNext(e).be = aw[1].be
<1> DEFINE x == aw[1]
<1>1. aw = <<x>> /\ x \in [id : {0}, line : Lines, data : Line, be : SUBSET Words, av : BOOLEAN, beat : 1 .. Beats + 1]
  BY DEF TypeOK, Maybe
<1>2. WFire(e) => x.beat <= Beats BY DEF WFire
<1> DEFINE v == x.av /\ ~ AwFire(e)
           n == IF WFire(e) THEN x.beat + 1 ELSE x.beat
<1>3. n \in 1 .. Beats + 1 BY <1>1, <1>2, Basics
<1>4. v \in BOOLEAN BY <1>1
<1>5. AwNext(e) = [x EXCEPT !.av = v, !.beat = n] BY DEF AwNext
<1> HIDE DEF x, v, n
<1>6. AwNext(e) = [id |-> x.id, line |-> x.line, data |-> x.data, be |-> x.be, av |-> v, beat |-> n]
  BY <1>1, <1>5
<1> QED BY <1>1, <1>3, <1>4, <1>6 DEF x

(* MasterTypes: the AXI master and the memory keep their types.            *)
LEMMA MasterTypes ==
  ASSUME TypeOK, Reads, NEW sr, NEW e, NEW go, InOk(sr, e, go)
  PROVE  /\ Maybe(ar, [id : Mshrs, line : Lines])'
         /\ Maybe(aw, [id : {0}, line : Lines, data : Line, be : SUBSET Words, av : BOOLEAN, beat : 1 .. Beats + 1])'
         /\ wr' \in Seq(Write) /\ mem' \in [Lines -> Line]
         /\ Table(rd, Mshrs, [data : Line, beat : 1 .. Beats])'
         /\ rbuf' \in [Mshrs -> Seq(Value)]
<1>0. \A x : <<x>> # None BY DEF None
<1>e. e \in Env BY DEF InOk
<1>i. i # None => r_line \in Lines /\ i[1].data \in Line /\ i[1].be \in SUBSET Words
  BY Kinds DEF Req, r_line
<1>1. Maybe(ar, [id : Mshrs, line : Lines])'
  <2>1. CASE NewMiss
    <3>1. q_free # {} /\ q_free \in SUBSET Nat /\ q_free \subseteq Mshrs
      BY <2>1, Basics DEF NewMiss, acc_miss, rd_miss, q_free
    <3>2. Min(q_free) \in Mshrs BY <3>1, MinIn
    <3>3. ar' = <<[id |-> Min(q_free), line |-> r_line]>> /\ i # None BY <2>1, SentStep, Kinds
    <3> QED BY <1>i, <3>2, <3>3 DEF Maybe
  <2>2. CASE ~ NewMiss
    <3>1. ar' = IF ArFire(e) THEN None ELSE ar BY <2>2, SentStep
    <3> QED BY <3>1 DEF TypeOK, Maybe
  <2> QED BY <2>1, <2>2
<1>2. Maybe(aw, [id : {0}, line : Lines, data : Line, be : SUBSET Words, av : BOOLEAN, beat : 1 .. Beats + 1])'
  <2>1. CASE Sent
    <3>1. aw' = <<[id |-> 0, line |-> r_line, data |-> i[1].data, be |-> i[1].be, av |-> TRUE, beat |-> 1]>>
          /\ i # None
      BY <2>1, SentStep, Kinds
    <3>2. 1 \in 1 .. Beats + 1 BY Basics
    <3> QED BY <1>i, <3>1, <3>2 DEF Maybe
  <2>2. CASE ~ Sent
    <3>1. aw' = IF aw = None \/ WriteOut(e) THEN None ELSE <<AwNext(e)>> BY <2>2, SentStep
    <3> QED BY <1>e, <3>1, AwType DEF Maybe
  <2> QED BY <2>1, <2>2
<1>3. Memory(e) /\ AxiClock(e) BY DEF InOk, Step
<1>4. BFire(e) => Len(wr) >= 1 /\ RemoveAt(wr, e.b[1]) = Tail(wr) /\ e.b[1] = 1
  BY <1>e, WriteFacts DEF BFire
<1>5. wr \in Seq(Write) BY DEF TypeOK
<1>6. wr' \in Seq(Write)
  <2> DEFINE left == IF BFire(e) THEN RemoveAt(wr, e.b[1]) ELSE wr
             y == [id |-> aw[1].id, line |-> aw[1].line, data |-> aw[1].data, be |-> aw[1].be]
  <2>1. left \in Seq(Write)
    <3>1. Len(wr) >= 1 => Tail(wr) \in Seq(Write) BY <1>5
    <3> QED BY <1>4, <1>5, <3>1
  <2>2. aw # None => y \in Write BY DEF TypeOK, Maybe, Write
  <2>3. wr' = IF WriteOut(e) THEN Append(left, y) ELSE left BY <1>3 DEF Memory
  <2>4. WriteOut(e) => aw # None BY DEF WriteOut
  <2> HIDE DEF left, y
  <2> QED BY <2>1, <2>2, <2>3, <2>4
<1>7. mem' \in [Lines -> Line]
  <2>1. mem \in [Lines -> Line] BY DEF TypeOK
  <2>2. CASE BFire(e)
    <3>1. wr[1] \in Write BY <1>4, <1>5, <2>2
    <3>2. mem' = [mem EXCEPT ![wr[1].line] = Merge(mem[wr[1].line], wr[1].data, wr[1].be)]
      BY <1>3, <1>4, <2>2 DEF Memory
    <3>3. wr[1].line \in Lines /\ wr[1].data \in Line BY <3>1 DEF Write
    <3>4. Merge(mem[wr[1].line], wr[1].data, wr[1].be) \in Line BY <2>1, <3>3, LineFacts
    <3> QED BY <2>1, <3>2, <3>4
  <2>3. CASE ~ BFire(e) BY <1>3, <2>1, <2>3 DEF Memory
  <2> QED BY <2>2, <2>3
<1>8. Table(rd, Mshrs, [data : Line, beat : 1 .. Beats])'
  <2>1. rd' = [m \in Mshrs |-> rd'[m]] BY <1>3 DEF Memory
  <2>2. ASSUME NEW m \in Mshrs PROVE Maybe(rd'[m], [data : Line, beat : 1 .. Beats])
    <3>1. rd[m] # None => rd[m][1].data \in Line /\ rd[m][1].beat \in 1 .. Beats /\ rd[m] = <<rd[m][1]>>
      BY DEF TypeOK, Table, Maybe
    <3>2. Asks(m) => mem[q[m][1].line] \in Line
      <4>1. Asks(m) => q[m] # None BY DEF Reads, Empty
      <4>2. q[m] # None => q[m][1].line \in Lines BY DEF TypeOK, MissOk
      <4> QED BY <4>1, <4>2 DEF TypeOK
    <3>3. CASE Asks(m) /\ rd'[m] = <<[data |-> mem[q[m][1].line], beat |-> 1]>>
      BY <3>2, <3>3, Basics DEF Maybe
    <3>4. CASE rd'[m] = None BY <3>4 DEF Maybe
    <3>5. CASE /\ rd[m] # None /\ rd[m][1].beat < Beats
               /\ rd'[m] = <<[data |-> rd[m][1].data, beat |-> rd[m][1].beat + 1]>>
      <4>1. rd[m][1].beat + 1 \in 1 .. Beats BY <3>1, <3>5, Basics
      <4> QED BY <3>1, <3>5, <4>1 DEF Maybe
    <3>6. CASE rd'[m] = rd[m]
      <4>1. Maybe(rd[m], [data : Line, beat : 1 .. Beats]) BY DEF TypeOK, Table
      <4> QED BY <3>6, <4>1
    <3> QED BY <3>3, <3>4, <3>5, <3>6, RdStep
  <2> QED BY <2>1, <2>2 DEF Table
<1>9. rbuf' \in [Mshrs -> Seq(Value)]
  <2>1. ASSUME NEW m \in Mshrs PROVE rbuf'[m] \in Seq(Value)
    <3>1. rbuf[m] \in Seq(Value) /\ <<>> \in Seq(Value) BY DEF TypeOK
    <3> QED BY <3>1, RdStep
  <2>2. rbuf' = [m \in Mshrs |-> rbuf'[m]] BY <1>3 DEF AxiClock
  <2> QED BY <2>1, <2>2
<1> QED BY <1>1, <1>2, <1>6, <1>7, <1>8, <1>9

(* FlightIs: of the writes in flight memory's oldest is first, the one     *)
(* being sent last.                                                        *)
LEMMA FlightIs ==
  ASSUME TypeOK
  PROVE  /\ Len(InFlight) = Len(wr) + One(aw # None) /\ Len(InFlight) \in Nat /\ Len(wr) \in Nat
         /\ \A x \in 1 .. Len(InFlight) :
              /\ InFlight[x] = IF x <= Len(wr) THEN wr[x] ELSE aw[1]
              /\ InFlight[x].line \in Lines /\ InFlight[x].data \in Line /\ InFlight[x].be \in SUBSET Words
<1>1. wr \in Seq(Write) BY DEF TypeOK
<1>2. CASE aw = None
  <2>1. InFlight = wr BY <1>1, <1>2, ConcatEmptySeq DEF InFlight, None
  <2>2. \A x \in 1 .. Len(wr) : wr[x] \in Write BY <1>1
  <2>3. Len(wr) \in Nat BY <1>1
  <2> QED BY <1>2, <2>1, <2>2, <2>3 DEF One, Write
<1>3. CASE aw # None
  <2> DEFINE y == aw[1]
  <2>1. aw = <<y>> /\ y \in [id : {0}, line : Lines, data : Line, be : SUBSET Words, av : BOOLEAN, beat : 1 .. Beats + 1]
    BY <1>3 DEF TypeOK, Maybe
  <2>2. y.line \in Lines /\ y.data \in Line /\ y.be \in SUBSET Words BY <2>1
  <2> HIDE DEF y
  <2>3. Len(wr) \in Nat /\ \A x \in 1 .. Len(wr) : wr[x] \in Write BY <1>1
  <2>4. wr \in Seq(Write \cup {y}) /\ <<y>> \in Seq(Write \cup {y}) /\ Len(<<y>>) = 1 /\ <<y>>[1] = y BY <1>1
  <2>5. /\ Len(wr \o <<y>>) = Len(wr) + 1
        /\ \A x \in 1 .. Len(wr) + 1 : (wr \o <<y>>)[x] = IF x <= Len(wr) THEN wr[x] ELSE y
    BY <2>3, <2>4
  <2>6. InFlight = wr \o <<y>> BY <2>1 DEF InFlight
  <2>7. ASSUME NEW x \in 1 .. Len(wr) + 1
        PROVE  /\ InFlight[x] = IF x <= Len(wr) THEN wr[x] ELSE y
               /\ InFlight[x].line \in Lines /\ InFlight[x].data \in Line /\ InFlight[x].be \in SUBSET Words
    <3>1. InFlight[x] = IF x <= Len(wr) THEN wr[x] ELSE y BY <2>5, <2>6
    <3>2. CASE x <= Len(wr)
      <4>1. wr[x] \in Write BY <2>3, <3>2
      <4> QED BY <3>1, <3>2, <4>1 DEF Write
    <3>3. CASE ~ (x <= Len(wr)) BY <2>2, <3>1, <3>3
    <3> QED BY <3>2, <3>3
  <2> QED BY <1>3, <2>3, <2>5, <2>6, <2>7 DEF One, y
<1> QED BY <1>2, <1>3

(* The same write, sent and received; the number of writes performed.      *)
Same(x, y) == x.line = y.line /\ x.data = y.data /\ x.be = y.be
Gone(e) == IF BFire(e) THEN 1 ELSE 0
(* FlightStep: memory performs the oldest write, and a write that is sent  *)
(* goes to the end.                                                        *)
LEMMA FlightStep ==
  ASSUME TypeOK, Reads, NEW sr, NEW e, NEW go, InOk(sr, e, go)
  PROVE  /\ BFire(e) => Len(InFlight) >= 1 /\ Len(wr) >= 1 /\ InFlight[1] = wr[1]
         /\ Len(InFlight') = Len(InFlight) - Gone(e) + One(Sent)
         /\ Len(wr') + One(aw' # None) = Len(InFlight')
         /\ \A x \in 1 .. Len(InFlight) - Gone(e) : Same(InFlight'[x], InFlight[x + Gone(e)])
         /\ Sent => Same(InFlight'[Len(InFlight')], [line |-> r_line, data |-> i[1].data, be |-> i[1].be])
<1>e. e \in Env BY DEF InOk
<1>1. /\ Maybe(aw, [id : {0}, line : Lines, data : Line, be : SUBSET Words, av : BOOLEAN, beat : 1 .. Beats + 1])'
      /\ wr' \in Seq(Write)
  BY MasterTypes
<1>0. \A x : <<x>> # None BY DEF None
<1>2. /\ Len(InFlight') = Len(wr') + One(aw' # None)
      /\ Len(wr') \in Nat
      /\ \A x \in 1 .. Len(InFlight') : InFlight'[x] = IF x <= Len(wr') THEN wr'[x] ELSE aw'[1]
  <2>1. CASE aw' = None
    <3>1. InFlight' = wr' BY <1>1, <2>1, ConcatEmptySeq DEF InFlight, None
    <3> QED BY <1>1, <2>1, <3>1 DEF One
  <2>2. CASE aw' # None
    <3> DEFINE y == aw'[1]
    <3>1. aw' = <<y>> BY <1>1, <2>2 DEF Maybe
    <3> HIDE DEF y
    <3>2. wr' \in Seq(Write \cup {y}) /\ <<y>> \in Seq(Write \cup {y}) /\ Len(<<y>>) = 1 /\ <<y>>[1] = y BY <1>1
    <3>3. /\ Len(wr' \o <<y>>) = Len(wr') + 1 /\ Len(wr') \in Nat
          /\ \A x \in 1 .. Len(wr') + 1 : (wr' \o <<y>>)[x] = IF x <= Len(wr') THEN wr'[x] ELSE y
      BY <3>2
    <3>4. InFlight' = wr' \o <<y>> BY <3>1 DEF InFlight
    <3> QED BY <2>2, <3>3, <3>4 DEF One, y
  <2> QED BY <2>1, <2>2
<1>3. /\ Len(InFlight) = Len(wr) + One(aw # None) /\ Len(wr) \in Nat
      /\ \A x \in 1 .. Len(InFlight) : InFlight[x] = IF x <= Len(wr) THEN wr[x] ELSE aw[1]
  BY FlightIs
<1>4. BFire(e) => Len(wr) >= 1 /\ RemoveAt(wr, e.b[1]) = Tail(wr) /\ e.b[1] = 1
  BY <1>e, WriteFacts DEF BFire
<1> DEFINE left == IF BFire(e) THEN Tail(wr) ELSE wr
           y == [id |-> aw[1].id, line |-> aw[1].line, data |-> aw[1].data, be |-> aw[1].be]
           g == Gone(e)
<1>5. wr' = IF WriteOut(e) THEN Append(left, y) ELSE left
  BY <1>4 DEF InOk, Step, Memory
<1>6. left \in Seq(Write) /\ Len(left) = Len(wr) - g /\ \A x \in 1 .. Len(wr) - g : left[x] = wr[x + g]
  <2>1. wr \in Seq(Write) BY DEF TypeOK
  <2>2. CASE BFire(e)
    <3>1. Len(wr) >= 1 => /\ Tail(wr) \in Seq(Write) /\ Len(Tail(wr)) = Len(wr) - 1
                          /\ \A x \in 1 .. Len(wr) - 1 : Tail(wr)[x] = wr[x + 1]
      BY <2>1
    <3> QED BY <1>4, <2>2, <3>1 DEF Gone
  <2>3. CASE ~ BFire(e) BY <1>3, <2>1, <2>3 DEF Gone
  <2> QED BY <2>2, <2>3
<1>7. g \in {0, 1} /\ (BFire(e) <=> g = 1) BY DEF Gone
<1>8. Same(y, aw[1]) BY DEF Same
<1>9. WriteOut(e) => aw # None BY DEF WriteOut
<1>10. BFire(e) => Len(InFlight) >= 1 /\ Len(wr) >= 1 /\ InFlight[1] = wr[1]
  BY <1>3, <1>4 DEF One
<1> HIDE DEF left, y, g
<1>11. CASE WriteOut(e)
  <2>1. ~ Sent /\ aw # None BY <1>9, <1>11, SentStep
  <2>2. aw' = None BY <1>11, <2>1, SentStep
  <2>3. /\ Len(wr') = Len(wr) - g + 1
        /\ \A x \in 1 .. Len(wr) - g + 1 : wr'[x] = IF x <= Len(wr) - g THEN wr[x + g] ELSE y
    <3>1. left \in Seq(Write \cup {y}) BY <1>6
    <3>2. /\ Len(Append(left, y)) = Len(left) + 1
          /\ \A x \in 1 .. Len(left) + 1 : Append(left, y)[x] = IF x = Len(left) + 1 THEN y ELSE left[x]
      BY <3>1
    <3>3. Len(left) \in Nat BY <1>6
    <3> QED BY <1>5, <1>6, <1>11, <3>2, <3>3
  <2>4. Len(InFlight) = Len(wr) + 1 /\ Len(InFlight') = Len(wr') BY <1>2, <1>3, <2>1, <2>2 DEF One
  <2>5. \A x \in 1 .. Len(InFlight) - g : Same(InFlight'[x], InFlight[x + g])
    <3> SUFFICES ASSUME NEW x \in 1 .. Len(InFlight) - g PROVE Same(InFlight'[x], InFlight[x + g]) OBVIOUS
    <3>1. InFlight'[x] = wr'[x] BY <1>2, <1>3, <1>7, <2>3, <2>4
    <3>2. CASE x <= Len(wr) - g
      <4>1. InFlight[x + g] = wr[x + g] BY <1>3, <1>7, <2>4, <3>2
      <4> QED BY <1>3, <1>7, <2>3, <2>4, <3>1, <3>2, <4>1 DEF Same
    <3>3. CASE ~ (x <= Len(wr) - g)
      <4>1. InFlight[x + g] = aw[1] BY <1>3, <1>7, <2>4, <3>3
      <4>2. InFlight'[x] = y BY <1>3, <1>7, <2>3, <2>4, <3>1, <3>3
      <4> QED BY <1>8, <4>1, <4>2
    <3> QED BY <3>2, <3>3
  <2>6. Len(InFlight') = Len(InFlight) - g + One(Sent) BY <1>3, <1>7, <2>1, <2>3, <2>4 DEF One
  <2> QED BY <1>2, <1>10, <2>1, <2>5, <2>6 DEF g
<1>12. CASE ~ WriteOut(e)
  <2>1. wr' = left BY <1>5, <1>12
  <2>a. Len(wr') = Len(wr) - g BY <1>6, <2>1
  <2>b. Len(InFlight) \in {Len(wr), Len(wr) + 1} /\ Len(InFlight') \in {Len(wr'), Len(wr') + 1}
    BY <1>2, <1>3 DEF One
  <2>5. ASSUME NEW x \in 1 .. Len(wr) - g
        PROVE  InFlight'[x] = wr[x + g] /\ InFlight[x + g] = wr[x + g]
    <3>1. /\ x \in 1 .. Len(InFlight') /\ x <= Len(wr')
          /\ x + g \in 1 .. Len(InFlight) /\ x + g <= Len(wr)
      <4>1. Len(wr) \in Nat /\ Len(wr') \in Nat BY <1>2, <1>3
      <4> QED BY <1>7, <2>5, <2>a, <2>b, <4>1
    <3>2. left[x] = wr[x + g] BY <1>6
    <3>3. InFlight'[x] = wr'[x] BY <1>2, <3>1
    <3>4. InFlight[x + g] = wr[x + g] BY <1>3, <3>1
    <3> QED BY <2>1, <3>2, <3>3, <3>4
  <2>2. CASE Sent
    <3> DEFINE z == [id |-> 0, line |-> r_line, data |-> i[1].data, be |-> i[1].be, av |-> TRUE, beat |-> 1]
    <3>a. aw = None /\ aw' = <<z>> BY <2>2, SentStep
    <3>b. Same(z, [line |-> r_line, data |-> i[1].data, be |-> i[1].be]) BY DEF Same
    <3> HIDE DEF z
    <3>1. aw = None /\ aw' # None /\ aw'[1] = z BY <1>0, <3>a
    <3>2. Len(InFlight) = Len(wr) /\ Len(InFlight') = Len(wr) - g + 1 BY <1>2, <1>3, <1>6, <2>1, <3>1 DEF One
    <3>3. \A x \in 1 .. Len(InFlight) - g : InFlight'[x] = InFlight[x + g] BY <2>5, <3>2
    <3>4. InFlight'[Len(InFlight')] = aw'[1] BY <1>2, <1>3, <1>6, <1>7, <1>10, <2>1, <3>2
    <3>5. Len(InFlight') = Len(InFlight) - g + One(Sent) BY <1>3, <1>7, <2>2, <3>2 DEF One
    <3>6. Sent => Same(InFlight'[Len(InFlight')], [line |-> r_line, data |-> i[1].data, be |-> i[1].be])
      BY <3>1, <3>4, <3>b
    <3> QED BY <1>2, <1>10, <2>2, <3>3, <3>5, <3>6 DEF g, Same
  <2>3. CASE ~ Sent /\ aw = None
    <3>1. aw' = None BY <2>3, SentStep
    <3>2. Len(InFlight) = Len(wr) /\ Len(InFlight') = Len(wr) - g BY <1>2, <1>3, <1>6, <2>1, <2>3, <3>1 DEF One
    <3>3. \A x \in 1 .. Len(InFlight) - g : InFlight'[x] = InFlight[x + g] BY <2>5, <3>2
    <3>5. Len(InFlight') = Len(InFlight) - g + One(Sent) BY <1>3, <1>7, <2>3, <3>2 DEF One
    <3> QED BY <1>2, <1>10, <2>3, <3>3, <3>5 DEF g, Same
  <2>4. CASE ~ Sent /\ aw # None
    <3>1. aw' = <<AwNext(e)>> BY <1>12, <2>4, SentStep
    <3>2. aw' # None /\ aw'[1] = AwNext(e) BY <1>0, <3>1
    <3>3. Same(aw'[1], aw[1]) BY <1>e, <2>4, <3>2, AwType DEF Same
    <3>4. Len(InFlight) = Len(wr) + 1 /\ Len(InFlight') = Len(wr) - g + 1
      BY <1>2, <1>3, <1>6, <2>1, <2>4, <3>2 DEF One
    <3>5. \A x \in 1 .. Len(InFlight) - g : Same(InFlight'[x], InFlight[x + g])
      <4> SUFFICES ASSUME NEW x \in 1 .. Len(InFlight) - g PROVE Same(InFlight'[x], InFlight[x + g]) OBVIOUS
      <4>1. CASE x <= Len(wr) - g
        <5>1. x \in 1 .. Len(wr) - g BY <1>3, <1>7, <3>4, <4>1
        <5>2. InFlight[x + g] = wr[x + g] /\ InFlight'[x] = wr[x + g] BY <2>5, <5>1
        <5> QED BY <5>2 DEF Same
      <4>2. CASE ~ (x <= Len(wr) - g)
        <5>1. /\ x \in 1 .. Len(InFlight') /\ ~ (x <= Len(wr'))
              /\ x + g \in 1 .. Len(InFlight) /\ ~ (x + g <= Len(wr))
          BY <1>3, <1>7, <2>a, <3>4, <4>2
        <5>2. InFlight'[x] = aw'[1] BY <1>2, <5>1
        <5>3. InFlight[x + g] = aw[1] BY <1>3, <5>1
        <5> QED BY <3>3, <5>2, <5>3
      <4> QED BY <4>1, <4>2
    <3>6. Len(InFlight') = Len(InFlight) - g + One(Sent) BY <1>3, <1>7, <2>4, <3>4 DEF One
    <3> QED BY <1>2, <1>10, <2>4, <3>5, <3>6 DEF g
  <2> QED BY <2>2, <2>3, <2>4
<1> QED BY <1>11, <1>12

(* WqStep: the FIFO of write tags moves with the writes in flight.         *)
LEMMA WqStep ==
  ASSUME TypeOK, Reads, Writes, NEW sr, NEW e, NEW go, InOk(sr, e, go)
  PROVE  /\ wq' \in Seq(Tags) /\ Len(wq') = Len(wq) - Gone(e) + One(Sent) /\ Len(wq) \in Nat
         /\ BFire(e) => Len(wq) >= 1 /\ Head(wq) = wq[1]
         /\ \A x \in 1 .. Len(wq) - Gone(e) : wq'[x] = wq[x + Gone(e)]
         /\ Sent => wq'[Len(wq')] = i[1].tag
<1> DEFINE left == IF BFire(e) THEN Tail(wq) ELSE wq
           g == Gone(e)
           v == i[1].tag
<1>1. wq \in Seq(Tags) /\ Len(wq) \in Nat BY DEF TypeOK
<1>2. BFire(e) => Len(wq) >= 1 BY FlightStep DEF Writes
<1>3. left \in Seq(Tags) /\ Len(left) = Len(wq) - g /\ \A x \in 1 .. Len(wq) - g : left[x] = wq[x + g]
  <2>1. CASE BFire(e)
    <3>1. Len(wq) >= 1 => /\ Tail(wq) \in Seq(Tags) /\ Len(Tail(wq)) = Len(wq) - 1
                          /\ \A x \in 1 .. Len(wq) - 1 : Tail(wq)[x] = wq[x + 1]
      BY <1>1
    <3> QED BY <1>2, <2>1, <3>1 DEF Gone
  <2>2. CASE ~ BFire(e) BY <1>1, <2>2 DEF Gone
  <2> QED BY <2>1, <2>2
<1>4. Sent => v \in Tags
  <2>1. Sent => i # None /\ i[1] \in Req /\ ~ i[1].pf BY Kinds
  <2> QED BY <2>1 DEF Req
<1>5. wq' = IF Sent THEN Append(left, v) ELSE left BY SentStep
<1>6. BFire(e) => Head(wq) = wq[1] BY <1>1, <1>2
<1>7. g \in {0, 1} /\ (g = 1 => BFire(e)) BY DEF Gone
<1> HIDE DEF left, v, g
<1>8. CASE Sent
  <2>1. /\ Append(left, v) \in Seq(Tags) /\ Len(Append(left, v)) = Len(left) + 1 /\ Len(left) \in Nat
        /\ \A x \in 1 .. Len(left) + 1 : Append(left, v)[x] = IF x = Len(left) + 1 THEN v ELSE left[x]
    BY <1>3, <1>4, <1>8
  <2>2. Len(wq') = Len(wq) - g + One(Sent) BY <1>1, <1>3, <1>5, <1>8, <2>1 DEF One
  <2>3. \A x \in 1 .. Len(wq) - g : wq'[x] = wq[x + g] BY <1>3, <1>5, <1>8, <2>1
  <2>4. Len(left) + 1 \in 1 .. Len(left) + 1 BY <2>1
  <2>5. wq'[Len(wq')] = v BY <1>5, <1>8, <2>1, <2>4
  <2> QED BY <1>1, <1>2, <1>5, <1>6, <1>8, <2>1, <2>2, <2>3, <2>5 DEF g, v
<1>9. CASE ~ Sent
  BY <1>1, <1>2, <1>3, <1>5, <1>6, <1>7, <1>9 DEF One, g
<1> QED BY <1>8, <1>9

(* WStep: the table of writes in flight.                                   *)
LEMMA WStep ==
  ASSUME TypeOK, Reads, NEW sr, NEW e, NEW go, InOk(sr, e, go)
  PROVE  /\ w' = [t \in Tags |-> w'[t]]
         /\ \A t \in Tags : w'[t] = IF Sent /\ i[1].tag = t THEN <<r_line>>
                                    ELSE IF BFire(e) /\ Head(wq) = t THEN None ELSE w[t]
         /\ wr_out' = wr_out + One(Sent) - Gone(e)
<1> DEFINE mr == Response(e)
<1>1. WritesInFlight(m_gnt, mr) BY DEF InOk, Step, CacheClock
<1>2. (WAck(mr) <=> BFire(e)) /\ (BFire(e) => mr[1].id[2] = Head(wq)) BY AnswerFacts DEF InOk
<1> HIDE DEF mr
<1>3. w' = [t \in Tags |-> IF Sent /\ i[1].tag = t THEN <<r_line>>
                           ELSE IF WAck(mr) /\ mr[1].id[2] = t THEN None ELSE w[t]]
  BY <1>1 DEF WritesInFlight, Sent
<1>4. \A t \in Tags : w'[t] = IF Sent /\ i[1].tag = t THEN <<r_line>>
                              ELSE IF BFire(e) /\ Head(wq) = t THEN None ELSE w[t]
  BY <1>2, <1>3
<1>5. w' = [t \in Tags |-> w'[t]] BY <1>3
<1>6. wr_out' = wr_out + One(Sent) - Gone(e)
  <2>1. wr_out' = wr_out + (IF acc_wr(m_gnt) THEN 1 ELSE 0) - (IF WAck(mr) THEN 1 ELSE 0)
    BY <1>1 DEF WritesInFlight
  <2> QED BY <1>2, <2>1 DEF One, Gone, Sent
<1> QED BY <1>4, <1>5, <1>6

(* WritesStep: write table, counter and FIFO go on agreeing.               *)
LEMMA WritesStep ==
  ASSUME Busy, NEW sr, NEW e, NEW go, InOk(sr, e, go)
  PROVE  Writes'
<1> USE DEF Busy
<1> DEFINE g == Gone(e)
           n == Len(wq)
           v == i[1].tag
           F == InFlight'
           W == w'
           Q == wq'
<1>1. /\ Q \in Seq(Tags) /\ Len(Q) = n - g + One(Sent) /\ n \in Nat
      /\ BFire(e) => n >= 1 /\ Head(wq) = wq[1]
      /\ \A x \in 1 .. n - g : Q[x] = wq[x + g]
      /\ Sent => Q[Len(Q)] = v
  BY WqStep
<1>2. /\ Len(F) = Len(InFlight) - g + One(Sent)
      /\ \A x \in 1 .. Len(InFlight) - g : F[x].line = InFlight[x + g].line
      /\ Sent => F[Len(F)].line = r_line
  <2>1. /\ Len(F) = Len(InFlight) - g + One(Sent)
        /\ \A x \in 1 .. Len(InFlight) - g : Same(F[x], InFlight[x + g])
        /\ Sent => Same(F[Len(F)], [line |-> r_line, data |-> i[1].data, be |-> i[1].be])
    BY FlightStep
  <2> QED BY <2>1 DEF Same
<1>3. /\ \A t \in Tags : W[t] = IF Sent /\ v = t THEN <<r_line>>
                                ELSE IF BFire(e) /\ Head(wq) = t THEN None ELSE w[t]
      /\ wr_out' = wr_out + One(Sent) - g
  BY WStep
<1>4. /\ n = Len(InFlight) /\ wr_out = n
      /\ \A x, y \in 1 .. n : wq[x] = wq[y] => x = y
      /\ \A t \in Tags : w[t] # None <=> \E x \in 1 .. n : wq[x] = t
      /\ \A x \in 1 .. n : w[wq[x]] = <<InFlight[x].line>>
  BY DEF Writes
<1>5. Sent => v \in Tags /\ w[v] = None
  <2>1. Sent => i # None /\ i[1] \in Req /\ ~ i[1].pf BY Kinds
  <2>2. Sent => v \in Tags /\ Held(i, v) BY <2>1 DEF Req, Held
  <2> QED BY <2>2 DEF InPlaces, InPlace
<1>6. g \in {0, 1} /\ (BFire(e) <=> g = 1) BY DEF Gone
<1>7. \A x \in 1 .. n : wq[x] \in Tags BY DEF TypeOK
<1>8. One(Sent) = IF Sent THEN 1 ELSE 0 BY DEF One
<1>9. \A x : <<x>> # None BY DEF None
<1> SUFFICES /\ Len(Q) = Len(F) /\ wr_out' = Len(Q)
             /\ \A x, y \in 1 .. Len(Q) : Q[x] = Q[y] => x = y
             /\ \A t \in Tags : W[t] # None <=> \E x \in 1 .. Len(Q) : Q[x] = t
             /\ \A x \in 1 .. Len(Q) : W[Q[x]] = <<F[x].line>>
  BY DEF Writes
<1> HIDE DEF g, n, v, F, W, Q, Busy
<1>10. \A x \in 1 .. n - g : x + g \in 1 .. n BY <1>1, <1>6
<1>11. Sent => \A x \in 1 .. n : wq[x] # v BY <1>4, <1>5
<1>12. \A x \in 1 .. n - g : Q[x] \in Tags /\ (Sent => Q[x] # v) /\ (BFire(e) => Q[x] # wq[1])
  <2> SUFFICES ASSUME NEW x \in 1 .. n - g
               PROVE  Q[x] \in Tags /\ (Sent => Q[x] # v) /\ (BFire(e) => Q[x] # wq[1])
    OBVIOUS
  <2>1. Q[x] = wq[x + g] /\ x + g \in 1 .. n BY <1>1, <1>10
  <2>2. BFire(e) => 1 \in 1 .. n /\ x + g # 1 BY <1>1, <1>6
  <2> QED BY <1>4, <1>7, <1>11, <2>1, <2>2
<1>13. \A x \in 1 .. Len(Q) : x \in 1 .. n - g \/ (Sent /\ x = Len(Q))
  BY <1>1, <1>6, <1>8
<1>14. \A x, y \in 1 .. n - g : Q[x] = Q[y] => x = y
  <2> SUFFICES ASSUME NEW x \in 1 .. n - g, NEW y \in 1 .. n - g, Q[x] = Q[y] PROVE x = y OBVIOUS
  <2>1. x + g = y + g BY <1>1, <1>4, <1>10
  <2> QED BY <1>1, <1>6, <2>1
<1>15. \A x, y \in 1 .. Len(Q) : Q[x] = Q[y] => x = y
  BY <1>1, <1>12, <1>13, <1>14
<1>16. \A x \in 1 .. Len(Q) : W[Q[x]] = <<F[x].line>>
  <2> SUFFICES ASSUME NEW x \in 1 .. Len(Q) PROVE W[Q[x]] = <<F[x].line>> OBVIOUS
  <2>1. CASE x \in 1 .. n - g
    <3>1. W[Q[x]] = w[Q[x]] BY <1>1, <1>3, <1>12, <2>1
    <3>2. w[Q[x]] = <<InFlight[x + g].line>> BY <1>1, <1>4, <1>10, <2>1
    <3>3. F[x].line = InFlight[x + g].line BY <1>2, <1>4, <2>1
    <3> QED BY <3>1, <3>2, <3>3
  <2>2. CASE Sent /\ x = Len(Q)
    <3>1. F[x].line = r_line BY <1>1, <1>2, <1>4, <2>2
    <3>2. Q[x] = v BY <1>1, <2>2
    <3> QED BY <1>3, <1>5, <2>2, <3>1, <3>2
  <2> QED BY <1>13, <2>1, <2>2
<1>17. \A t \in Tags : W[t] # None <=> \E x \in 1 .. Len(Q) : Q[x] = t
  <2> SUFFICES ASSUME NEW t \in Tags PROVE W[t] # None <=> \E x \in 1 .. Len(Q) : Q[x] = t OBVIOUS
  <2>1. (\E x \in 1 .. Len(Q) : Q[x] = t) => W[t] # None BY <1>9, <1>16
  <2>2. ASSUME W[t] # None PROVE \E x \in 1 .. Len(Q) : Q[x] = t
    <3>1. CASE Sent /\ v = t
      <4>1. Len(Q) \in 1 .. Len(Q) BY <1>1, <1>6, <1>8, <3>1
      <4> QED BY <1>1, <3>1, <4>1
    <3>2. CASE ~ (Sent /\ v = t)
      <4>1. w[t] # None /\ (BFire(e) => wq[1] # t) BY <1>1, <1>3, <2>2, <3>2
      <4>2. PICK x \in 1 .. n : wq[x] = t BY <1>4, <4>1
      <4>3. x - g \in 1 .. n - g /\ (x - g) + g = x BY <1>1, <1>6, <4>1, <4>2
      <4>4. Q[x - g] = t BY <1>1, <4>2, <4>3
      <4>5. x - g \in 1 .. Len(Q) BY <1>1, <1>6, <1>8, <4>3
      <4> QED BY <4>4, <4>5
    <3> QED BY <3>1, <3>2
  <2> QED BY <2>1, <2>2
<1>18. Len(Q) = Len(F) /\ wr_out' = Len(Q) BY <1>1, <1>2, <1>3, <1>4, <1>6, <1>8
<1> QED BY <1>15, <1>16, <1>17, <1>18

(* RunningStep: requests come from a grid that runs.                       *)
LEMMA RunningStep ==
  ASSUME Busy, NEW sr, NEW e, NEW go, InOk(sr, e, go), running => running'
  PROVE  OnlyRunning'
<1> USE DEF Busy
<1>1. \A t \in Tags : Tagged(sr, t) => running BY OfferFacts DEF InOk, Tagged
<1>2. \A t \in Tags : open'[t] # None => Tagged(sr, t) \/ open[t] # None BY OpenStep
<1> QED BY <1>1, <1>2 DEF OnlyRunning

(* A write is offered; its line with it.                                   *)
Comes(sr) == IF sr = None THEN FALSE ELSE sr[1].we
Offered(sr) == Merge(amem[sr[1].line], sr[1].data, sr[1].be)
(* OpenNext: an open request grows older.                                  *)
LEMMA OpenNext ==
  ASSUME TypeOK, NEW sr, NEW e, NEW go, InOk(sr, e, go), NEW t \in Tags,
         open[t] # None, ~ Tagged(Answer, t)
  PROVE  open'[t] = <<[we |-> open[t][1].we, line |-> open[t][1].line,
                       loose |-> ~ open[t][1].we /\ (open[t][1].loose \/ go), at |-> open[t][1].at,
                       later |-> IF ~ Comes(sr) \/ open[t][1].we \/ open[t][1].line # sr[1].line
                                 THEN open[t][1].later ELSE open[t][1].later \cup {Offered(sr)}]>>
<1> DEFINE o == open[t][1]
           f == [n \in DOMAIN sr |-> sr[n].tag]
           h == [n \in DOMAIN Answer |-> Answer[n].tag]
<1>1. (<<t>> = f) = Tagged(sr, t)
  <2>1. Maybe(sr, {r \in Req : ~ r.pf}) BY OfferFacts DEF InOk
  <2> QED BY <2>1, TaggedIs
<1>2. (<<t>> = h) = Tagged(Answer, t)
  <2>1. Maybe(Answer, {Answer[1]}) BY AnswerStep DEF Maybe
  <2> QED BY <2>1, TaggedIs
<1>3. ~ Tagged(sr, t) BY OfferFacts DEF InOk, Tagged
<1> HIDE DEF f, h
<1>4. Effect(sr, Answer, go) BY DEF InOk, Step
<1> QED BY <1>1, <1>2, <1>3, <1>4 DEF Effect, Comes, Offered, f, h

(* AmemStep: the account takes a write when its request comes in.          *)
LEMMA AmemStep ==
  ASSUME TypeOK, NEW sr, NEW e, NEW go, InOk(sr, e, go)
  PROVE  /\ Comes(sr) => /\ sr[1].line \in Lines /\ Offered(sr) \in Line
                         /\ amem' = [amem EXCEPT ![sr[1].line] = Offered(sr)]
         /\ ~ Comes(sr) => amem' = amem
         /\ amem' \in [Lines -> Line] /\ open' = [t \in Tags |-> open'[t]]
<1>1. Maybe(sr, {r \in Req : ~ r.pf}) BY OfferFacts DEF InOk
<1>2. sr # None => sr[1].line \in Lines /\ sr[1].data \in Line BY <1>1 DEF Maybe, Req
<1>3. amem \in [Lines -> Line] BY DEF TypeOK
<1>4. Comes(sr) => sr[1].line \in Lines /\ Offered(sr) \in Line BY <1>2, <1>3, LineFacts DEF Comes, Offered
<1>5. amem' = IF Comes(sr) THEN [amem EXCEPT ![sr[1].line] = Offered(sr)] ELSE amem
  BY DEF InOk, Step, Effect, Comes, Offered
<1>6. open' = [t \in Tags |-> open'[t]] BY DEF InOk, Step, Effect
<1> HIDE DEF Offered
<1> QED BY <1>3, <1>4, <1>5, <1>6

(* OpenTypes: the account of open requests keeps its type.                 *)
LEMMA OpenTypes ==
  ASSUME TypeOK, NEW sr, NEW e, NEW go, InOk(sr, e, go)
  PROVE  Table(open, Tags, [we : BOOLEAN, line : Lines, loose : BOOLEAN, at : Line, later : SUBSET Line])'
<1> DEFINE S == [we : BOOLEAN, line : Lines, loose : BOOLEAN, at : Line, later : SUBSET Line]
<1>1. open' = [t \in Tags |-> open'[t]] BY AmemStep
<1>2. ASSUME NEW t \in Tags PROVE Maybe(open'[t], S)
  <2>1. go \in BOOLEAN BY DEF InOk
  <2>2. CASE Tagged(sr, t)
    <3>1. sr # None /\ Maybe(sr, {r \in Req : ~ r.pf}) BY <2>2, OfferFacts DEF InOk, Tagged
    <3>2. sr[1].we \in BOOLEAN /\ sr[1].line \in Lines BY <3>1 DEF Maybe, Req
    <3>3. amem[sr[1].line] \in Line /\ Filled(0) \in Line BY <3>2, LineFacts DEF TypeOK
    <3>4. open'[t] = <<[we |-> sr[1].we, line |-> sr[1].line, loose |-> FALSE,
                        at |-> IF sr[1].we THEN Filled(0) ELSE amem[sr[1].line], later |-> {}]>>
      BY <2>2, OpenStep
    <3> QED BY <3>2, <3>3, <3>4 DEF Maybe
  <2>3. CASE ~ Tagged(sr, t) /\ open[t] # None /\ ~ Tagged(Answer, t)
    <3> DEFINE o == open[t][1]
               y == IF ~ Comes(sr) \/ o.we \/ o.line # sr[1].line THEN o.later ELSE o.later \cup {Offered(sr)}
    <3>1. o \in S BY <2>3 DEF TypeOK, Table, Maybe
    <3>2. Comes(sr) => Offered(sr) \in Line BY AmemStep
    <3>3. y \in SUBSET Line BY <3>1, <3>2
    <3>4. open'[t] = <<[we |-> o.we, line |-> o.line, loose |-> ~ o.we /\ (o.loose \/ go), at |-> o.at, later |-> y]>>
      BY <2>3, OpenNext
    <3> HIDE DEF y, o
    <3> QED BY <2>1, <3>1, <3>3, <3>4 DEF Maybe
  <2>4. CASE ~ Tagged(sr, t) /\ (open[t] = None \/ Tagged(Answer, t))
    <3>1. open'[t] = None BY <2>4, OpenStep
    <3> QED BY <3>1 DEF Maybe
  <2> QED BY <2>2, <2>3, <2>4
<1> HIDE DEF S
<1> QED BY <1>1, <1>2 DEF Table, S

-----------------------------------------------------------------------------
(* A write hits, or a fill takes, way y of set s.                          *)
Hits(s, y) == Sent /\ hit /\ SetOf(r_line) = s /\ hit_way = y
Fills(s, y) == fill_go(m_gnt) /\ f_set = s /\ f_way = y
(* HitFacts: a hit is in a way of its set.                                 *)
LEMMA HitFacts ==
  ASSUME TypeOK, hit, i # None
  PROVE  /\ r_line \in Lines /\ SetOf(r_line) \in SetNos /\ hit_way \in Ways
         /\ way[SetOf(r_line)][hit_way] # None /\ way[SetOf(r_line)][hit_way][1].line = r_line
         /\ r_way = way[SetOf(r_line)]
<1>1. hit_w # {} /\ hit_w \in SUBSET Nat BY Basics DEF hit, hit_w
<1>2. hit_way \in hit_w BY <1>1, MinIn DEF hit_way
<1>3. r_line \in Lines BY Kinds DEF r_line, Req
<1> QED BY <1>2, <1>3, Basics DEF hit_w, r_way

(* FillFacts: what is filled is a line that has come, is not stale and is  *)
(* not stored yet.                                                         *)
LEMMA FillFacts ==
  ASSUME TypeOK, fill_go(m_gnt)
  PROVE  /\ fill_m \in Mshrs /\ q[fill_m] # None /\ q[fill_m][1].data # None
         /\ ~ q[fill_m][1].done /\ ~ q[fill_m][1].stale /\ FillNow(fill_m)
         /\ q[fill_m][1].line \in Lines /\ q[fill_m][1].data[1] \in Line
         /\ f_set \in SetNos /\ f_way \in Ways /\ ~ Grant
<1>1. Fillable # {} /\ ~ Grant BY DEF fill_go, Grant
<1>2. Fillable \in SUBSET Nat BY Basics DEF Fillable
<1>3. fill_m \in Fillable BY <1>1, <1>2, MinIn DEF fill_m
<1>4. /\ fill_m \in Mshrs /\ q[fill_m] # None /\ q[fill_m][1].data # None
      /\ ~ q[fill_m][1].done /\ ~ q[fill_m][1].stale
  BY <1>3 DEF Fillable
<1>5. q[fill_m][1].line \in Lines /\ q[fill_m][1].data[1] \in Line
  BY <1>4 DEF TypeOK, MissOk, Maybe
<1>6. f_set \in SetNos BY <1>5, Basics DEF f_set
<1>7. f_way \in Ways
  <2>1. {y \in Ways : way[f_set][y] = None} \in SUBSET Nat BY Basics
  <2>2. CASE \E y \in Ways : way[f_set][y] = None
    <3> DEFINE Free == {y \in Ways : way[f_set][y] = None}
    <3>1. Free # {} BY <2>2
    <3>2. Min(Free) \in Free BY <2>1, <3>1, MinIn
    <3> QED BY <2>2, <3>2 DEF f_way
  <2>3. CASE ~ \E y \in Ways : way[f_set][y] = None BY <2>3 DEF f_way, TypeOK
  <2> QED BY <2>2, <2>3
<1> QED BY <1>1, <1>4, <1>5, <1>6, <1>7 DEF FillNow

(* WayStep: a way is emptied by an invalidation, updated by a write that   *)
(* hits, replaced by a fill, or goes on.                                   *)
LEMMA WayStep ==
  ASSUME TypeOK, NEW sr, NEW e, NEW go, InOk(sr, e, go), NEW s \in SetNos, NEW y \in Ways
  PROVE  /\ way' = [n \in SetNos |-> way'[n]] /\ way'[s] = [n \in Ways |-> way'[s][n]]
         /\ ~ (Hits(s, y) /\ Fills(s, y))
         /\ \/ go /\ way'[s][y] = None
            \/ ~ go /\ Hits(s, y) /\ way[s][y] # None /\ way[s][y][1].line = r_line
               /\ way'[s][y] = <<[line |-> r_line, data |-> Merge(way[s][y][1].data, i[1].data, i[1].be)]>>
            \/ ~ go /\ Fills(s, y)
               /\ way'[s][y] = <<[line |-> q[fill_m][1].line, data |-> q[fill_m][1].data[1]]>>
            \/ ~ go /\ ~ Hits(s, y) /\ ~ Fills(s, y) /\ way'[s][y] = way[s][y]
<1>1. Store(m_gnt, go) BY DEF InOk, Step, CacheClock
<1>2. way = [n \in SetNos |-> way[n]] /\ \A n \in SetNos : way[n] = [x \in Ways |-> way[n][x]]
  BY DEF TypeOK, Table
<1>3. fill_go(m_gnt) => ~ Sent BY Kinds DEF fill_go, Grant
<1>4. CASE go
  <2>1. way' = [n \in SetNos |-> [x \in Ways |-> None]] BY <1>1, <1>4 DEF Store
  <2> QED BY <1>3, <1>4, <2>1 DEF Hits, Fills
<1>5. CASE ~ go /\ Sent /\ hit
  <2> DEFINE S == SetOf(r_line)
             Y == hit_way
             o == way[S][Y][1]
  <2>1. i # None BY <1>5, Kinds
  <2>2. S \in SetNos /\ Y \in Ways /\ way[S][Y] # None /\ o.line = r_line BY <1>5, <2>1, HitFacts
  <2> DEFINE z == <<[line |-> r_line, data |-> Merge(o.data, i[1].data, i[1].be)]>>
  <2>4. way' = [way EXCEPT ![S][Y] = z] BY <1>1, <1>5 DEF Store, Sent
  <2>6. ~ fill_go(m_gnt) BY <1>3, <1>5
  <2> HIDE DEF z
  <2>7. /\ way' = [n \in SetNos |-> way'[n]] /\ way'[s] = [n \in Ways |-> way'[s][n]]
        /\ way'[s][y] = IF s = S /\ y = Y THEN z ELSE way[s][y]
    BY <1>2, <2>2, <2>4
  <2>8. Hits(s, y) <=> s = S /\ y = Y BY <1>5 DEF Hits
  <2> QED BY <1>5, <2>2, <2>6, <2>7, <2>8 DEF Fills, z
<1>6. CASE ~ go /\ ~ (Sent /\ hit) /\ fill_go(m_gnt)
  <2> DEFINE z == <<[line |-> q[fill_m][1].line, data |-> q[fill_m][1].data[1]]>>
  <2>1. way' = [way EXCEPT ![f_set][f_way] = z] BY <1>1, <1>6 DEF Store, Sent
  <2>2. f_set \in SetNos /\ f_way \in Ways BY <1>6, FillFacts
  <2>3. /\ way' = [n \in SetNos |-> way'[n]] /\ way'[s] = [n \in Ways |-> way'[s][n]]
        /\ way'[s][y] = IF s = f_set /\ y = f_way THEN z ELSE way[s][y]
    BY <1>2, <2>1, <2>2
  <2> QED BY <1>6, <2>3 DEF Fills, Hits
<1>7. CASE ~ go /\ ~ (Sent /\ hit) /\ ~ fill_go(m_gnt)
  <2>1. way' = way BY <1>1, <1>7 DEF Store, Sent
  <2> QED BY <1>2, <1>7, <2>1 DEF Fills, Hits
<1> QED BY <1>4, <1>5, <1>6, <1>7

(* MissTypes: the miss registers keep their types.                         *)
LEMMA MissTypes ==
  ASSUME Busy, NEW sr, NEW e, NEW go, InOk(sr, e, go), NEW m \in Mshrs
  PROVE  q'[m] # None => q'[m] = <<q'[m][1]>> /\ MissOk(q'[m][1])
<1> USE DEF Busy
<1>0. /\ go \in BOOLEAN
      /\ (fill_go(m_gnt) /\ fill_m = m) \in BOOLEAN
  BY DEF InOk
<1>1. CASE Takes(m)
  <2> DEFINE u == IF i[1].pf THEN {} ELSE {i[1].tag}
             z == [line |-> r_line, data |-> None, done |-> FALSE, stale |-> FALSE, wait |-> u]
  <2>1. i # None /\ i[1] \in Req BY <1>1, Kinds DEF Takes
  <2>2. r_line \in Lines /\ u \in SUBSET Tags BY <2>1 DEF Req, r_line
  <2>3. q'[m] = <<z>> BY <1>1, MissStep
  <2> HIDE DEF u
  <2>4. MissOk(z) BY <2>2 DEF MissOk, Maybe
  <2> HIDE DEF z
  <2> QED BY <2>3, <2>4
<1>2. CASE q[m] = None /\ q'[m] = None BY <1>2
<1>3. CASE ~ Takes(m) /\ q[m] # None /\ q'[m] # None
  <2> DEFINE r == q[m][1]
             z == [line |-> r.line, data |-> LineNow(e, m), done |-> r.done \/ FillNow(m),
                   stale |-> r.stale \/ go, wait |-> Wait(m)]
  <2>1. q'[m] = <<z>> BY <1>3, MissStep
  <2>2. MissOk(r) BY <1>3 DEF TypeOK
  <2>3. Wait(m) \in SUBSET Tags
    <3>1. rd_join => i[1].tag \in Tags
      <4>1. rd_join => i # None /\ i[1] \in Req /\ ~ i[1].pf BY Kinds
      <4> QED BY <4>1 DEF Req
    <3>2. r.wait \in SUBSET Tags BY <2>2 DEF MissOk
    <3> QED BY <3>1, <3>2 DEF Wait, nd_wait
  <2>4. Maybe(LineNow(e, m), Line)
    <3>1. Maybe(r.data, Line) BY <2>2 DEF MissOk
    <3>2. Arrives(Response(e), m) => rd[m] # None BY AnswerFacts DEF InOk
    <3>3. rd[m] # None => rd[m][1].data \in Line BY DEF TypeOK, Table, Maybe
    <3>4. CASE Arrives(Response(e), m)
      <4>1. LineNow(e, m) = <<rd[m][1].data>> BY <3>4 DEF LineNow
      <4> QED BY <3>2, <3>3, <3>4, <4>1 DEF Maybe
    <3>5. CASE ~ Arrives(Response(e), m) BY <3>1, <3>5 DEF LineNow
    <3> QED BY <3>4, <3>5
  <2>5. (r.done \/ FillNow(m)) \in BOOLEAN /\ (r.stale \/ go) \in BOOLEAN OBVIOUS
  <2>6. r.line \in Lines BY <2>2 DEF MissOk
  <2>7. MissOk(z)
    <3> DEFINE x1 == LineNow(e, m)
               x2 == r.done \/ FillNow(m)
               x3 == r.stale \/ go
               x4 == Wait(m)
               x0 == r.line
    <3>1. x0 \in Lines /\ Maybe(x1, Line) /\ x2 \in BOOLEAN /\ x3 \in BOOLEAN /\ x4 \in SUBSET Tags
      BY <2>3, <2>4, <2>5, <2>6
    <3> HIDE DEF x0, x1, x2, x3, x4
    <3>2. MissOk([line |-> x0, data |-> x1, done |-> x2, stale |-> x3, wait |-> x4])
      BY <3>1 DEF MissOk
    <3> QED BY <3>2 DEF x0, x1, x2, x3, x4
  <2> HIDE DEF z
  <2> QED BY <2>1, <2>7
<1> QED
  <2>1. Takes(m) \/ (q[m] = None /\ q'[m] = None) \/ (~ Takes(m) /\ q[m] # None) BY MissStep
  <2> QED BY <1>1, <1>2, <1>3, <2>1

(* CacheTypes: the registers of the cache keep their types.                *)
LEMMA CacheTypes ==
  ASSUME Busy, NEW sr, NEW e, NEW go, InOk(sr, e, go)
  PROVE  /\ Maybe(i, Req)' /\ Maybe(k, {r \in Req : ~ r.pf})'
         /\ way' = [s \in SetNos |-> way'[s]] /\ \A s \in SetNos : Table(way'[s], Ways, [line : Lines, data : Line])
         /\ rr' \in Ways
         /\ q' = [m \in Mshrs |-> q'[m]] /\ \A m \in Mshrs : q'[m] # None => q'[m] = <<q'[m][1]>> /\ MissOk(q'[m][1])
         /\ Table(w, Tags, Lines)' /\ Maybe(pf, Lines)'
         /\ Maybe(b, [tag : Tags, data : Line])' /\ Maybe(d, [m : Mshrs, t : Tags])' /\ wack' \in SUBSET Tags
<1> USE DEF Busy
<1> DEFINE mr == Response(e)
<1>0. CacheClock(sr, m_gnt, mr, go) BY DEF InOk, Step
<1>i. i # None => i[1] \in Req /\ r_line \in Lines BY Kinds DEF Req, r_line
<1>1. Maybe(i, Req)' /\ Maybe(k, {r \in Req : ~ r.pf})'
  <2>1. Maybe(sr, {r \in Req : ~ r.pf}) BY OfferFacts DEF InOk
  <2>2. Maybe(i, Req) /\ Maybe(k, {r \in Req : ~ r.pf}) BY DEF TypeOK
  <2>3. PfReq \in Req => Maybe(<<PfReq>>, Req) BY DEF Maybe
  <2>4. Maybe(None, {r \in Req : ~ r.pf}) BY DEF Maybe
  <2>5. \A x : Maybe(x, {r \in Req : ~ r.pf}) => Maybe(x, Req) BY DEF Maybe
  <2>6. \/ i' = i /\ k' = (IF sr = None THEN k ELSE sr)
        \/ i' = k /\ k' = None
        \/ i' = sr /\ k' = None
        \/ i' = <<PfReq>> /\ PfReq \in Req /\ k' = None
    BY InputStep
  <2> HIDE DEF Busy
  <2>7. Maybe(i', Req) /\ Maybe(k', {r \in Req : ~ r.pf}) BY <2>1, <2>2, <2>3, <2>4, <2>5, <2>6
  <2> QED BY <2>7 DEF Maybe
<1>2. way' = [s \in SetNos |-> way'[s]] /\ \A s \in SetNos : Table(way'[s], Ways, [line : Lines, data : Line])
  <2>1. way' = [s \in SetNos |-> way'[s]] /\ \A s \in SetNos : way'[s] = [y \in Ways |-> way'[s][y]]
    BY WayStep, Basics
  <2>2. ASSUME NEW s \in SetNos, NEW y \in Ways PROVE Maybe(way'[s][y], [line : Lines, data : Line])
    <3>1. way[s][y] # None => way[s][y][1].data \in Line BY DEF TypeOK, Table, Maybe
    <3>2. CASE way'[s][y] = None BY <3>2 DEF Maybe
    <3>3. CASE Hits(s, y) /\ way[s][y] # None
               /\ way'[s][y] = <<[line |-> r_line, data |-> Merge(way[s][y][1].data, i[1].data, i[1].be)]>>
      <4>1. i # None BY <3>3, Kinds DEF Hits
      <4>2. r_line \in Lines /\ i[1].data \in Line BY <1>i, <4>1 DEF Req
      <4>3. Merge(way[s][y][1].data, i[1].data, i[1].be) \in Line BY <3>1, <3>3, <4>2, LineFacts
      <4> QED BY <3>3, <4>2, <4>3 DEF Maybe
    <3>4. CASE Fills(s, y) /\ way'[s][y] = <<[line |-> q[fill_m][1].line, data |-> q[fill_m][1].data[1]]>>
      <4>1. q[fill_m][1].line \in Lines /\ q[fill_m][1].data[1] \in Line BY <3>4, FillFacts DEF Fills
      <4> QED BY <3>4, <4>1 DEF Maybe
    <3>5. CASE way'[s][y] = way[s][y]
      <4>1. Maybe(way[s][y], [line : Lines, data : Line]) BY DEF TypeOK, Table
      <4> QED BY <3>5, <4>1
    <3>6. \/ way'[s][y] = None
          \/ Hits(s, y) /\ way[s][y] # None
             /\ way'[s][y] = <<[line |-> r_line, data |-> Merge(way[s][y][1].data, i[1].data, i[1].be)]>>
          \/ Fills(s, y) /\ way'[s][y] = <<[line |-> q[fill_m][1].line, data |-> q[fill_m][1].data[1]]>>
          \/ way'[s][y] = way[s][y]
      BY WayStep
    <3> QED BY <3>2, <3>3, <3>4, <3>5, <3>6
  <2> QED BY <2>1, <2>2 DEF Table
<1>3. rr' \in Ways
  <2>1. rr' = IF fill_go(m_gnt) THEN (rr + 1) % NWAY ELSE rr BY <1>0 DEF CacheClock, Store
  <2>2. NWAY \in Nat \ {0} BY CacheAssumption
  <2>3. rr \in 0 .. NWAY - 1 BY DEF TypeOK, Ways
  <2>4. (rr + 1) % NWAY \in 0 .. NWAY - 1 BY <2>2, <2>3
  <2> QED BY <2>1, <2>3, <2>4 DEF Ways
<1>4. q' = [m \in Mshrs |-> q'[m]] /\ \A m \in Mshrs : q'[m] # None => q'[m] = <<q'[m][1]>> /\ MissOk(q'[m][1])
  <2>1. q' = [m \in Mshrs |-> q'[m]] BY <1>0 DEF CacheClock
  <2> QED BY <2>1, MissTypes
<1>5. Table(w, Tags, Lines)'
  <2>1. w' = [t \in Tags |-> w'[t]] BY WStep
  <2>2. ASSUME NEW t \in Tags PROVE Maybe(w'[t], Lines)
    <3>1. w'[t] = IF Sent /\ i[1].tag = t THEN <<r_line>>
                  ELSE IF BFire(e) /\ Head(wq) = t THEN None ELSE w[t]
      BY WStep
    <3>2. Sent => r_line \in Lines BY <1>i, Kinds
    <3>3. Maybe(w[t], Lines) BY DEF TypeOK, Table
    <3>4. CASE Sent /\ i[1].tag = t BY <3>1, <3>2, <3>4 DEF Maybe
    <3>5. CASE w'[t] = None BY <3>5 DEF Maybe
    <3>6. CASE w'[t] = w[t] BY <3>3, <3>6
    <3> QED BY <3>1, <3>4, <3>5, <3>6
  <2> QED BY <2>1, <2>2 DEF Table
<1>6. Maybe(pf, Lines)'
  <2>1. pf' = IF go THEN None
              ELSE IF PF /\ acc_miss(m_gnt) /\ ~ i[1].pf THEN <<NextLine(r_line)>>
              ELSE IF pf_go(sr, m_gnt) THEN None ELSE pf
    BY <1>0 DEF CacheClock, Prefetch
  <2>2. acc_miss(m_gnt) => NextLine(r_line) \in Lines
    <3>1. NewMiss => i # None BY Kinds
    <3> QED BY <1>i, <3>1, Basics DEF NewMiss
  <2>3. Maybe(pf, Lines) BY DEF TypeOK
  <2>4. CASE pf' = None BY <2>4 DEF Maybe
  <2>5. CASE acc_miss(m_gnt) /\ pf' = <<NextLine(r_line)>> BY <2>2, <2>5 DEF Maybe
  <2>6. CASE pf' = pf BY <2>3, <2>6 DEF Maybe
  <2> QED BY <2>1, <2>4, <2>5, <2>6
<1>7. Maybe(b, [tag : Tags, data : Line])'
  <2>1. b' = IF rd_hit THEN <<[tag |-> i[1].tag, data |-> r_way[hit_way][1].data]>> ELSE None
    BY <1>0 DEF CacheClock, Responses
  <2>2. CASE rd_hit
    <3>1. i # None /\ i[1] \in Req /\ ~ i[1].pf /\ hit BY <2>2, Kinds DEF rd_hit
    <3>2. i[1].tag \in Tags BY <3>1 DEF Req
    <3>3. r_line \in Lines /\ SetOf(r_line) \in SetNos /\ hit_way \in Ways
          /\ way[SetOf(r_line)][hit_way] # None /\ r_way = way[SetOf(r_line)]
      BY <3>1, HitFacts
    <3>4. r_way[hit_way][1].data \in Line BY <3>3 DEF TypeOK, Table, Maybe
    <3> QED BY <2>1, <2>2, <3>2, <3>4 DEF Maybe
  <2>3. CASE ~ rd_hit BY <2>1, <2>3 DEF Maybe
  <2> QED BY <2>2, <2>3
<1>8. Maybe(d, [m : Mshrs, t : Tags])'
  <2> DEFINE N == nd(mr)
             n == Min(N)
             t == Min(nd_wait(n))
  <2>1. d' = IF N = {} THEN None ELSE <<[m |-> n, t |-> t]>>
    BY <1>0 DEF CacheClock, Responses
  <2>2. CASE N # {}
    <3>1. N \in SUBSET Nat BY Basics DEF nd
    <3>2. n \in N BY <2>2, <3>1, MinIn
    <3>3. n \in Mshrs /\ q[n] # None /\ nd_wait(n) # {} BY <3>2 DEF nd
    <3>4. nd_wait(n) \in SUBSET Tags
      <4>1. q[n][1].wait \in SUBSET Tags BY <3>3 DEF TypeOK, MissOk
      <4> QED BY <4>1 DEF nd_wait
    <3>5. nd_wait(n) \in SUBSET Nat BY <3>4, Basics
    <3>6. t \in nd_wait(n) BY <3>3, <3>5, MinIn
    <3>7. t \in Tags BY <3>4, <3>6
    <3> HIDE DEF N, n, t
    <3> QED BY <2>1, <2>2, <3>3, <3>7 DEF Maybe
  <2>3. CASE N = {} BY <2>1, <2>3 DEF Maybe
  <2> QED BY <2>2, <2>3
<1>9. wack' \in SUBSET Tags
  <2>1. wack' \subseteq wack \cup {x \in {mr[1].id[2]} : WAck(mr)} BY <1>0 DEF CacheClock, Responses
  <2>2. WAck(mr) => mr[1].id[2] = Head(wq) BY AnswerFacts DEF InOk
  <2>3. WAck(mr) => Head(wq) \in Tags
    <3>1. WAck(mr) => BFire(e) BY AnswerFacts DEF InOk
    <3>2. BFire(e) => Len(wq) >= 1 /\ Head(wq) = wq[1] BY WqStep
    <3>3. Len(wq) >= 1 => wq[1] \in Tags BY DEF TypeOK
    <3> QED BY <3>1, <3>2, <3>3
  <2>4. wack \in SUBSET Tags BY DEF TypeOK
  <2> HIDE DEF mr
  <2> QED BY <2>1, <2>2, <2>3, <2>4
<1> QED BY <1>1, <1>2, <1>3, <1>4, <1>5, <1>6, <1>7, <1>8, <1>9

(* ClockStep: a clock keeps everything in its place.                       *)
LEMMA ClockStep ==
  ASSUME Busy, NEW sr, NEW e, NEW go, InOk(sr, e, go), running' \in BOOLEAN, running => running'
  PROVE  Busy'
<1> USE DEF Busy
<1>1. InPlaces' BY InPlaceStep DEF InPlaces
<1>2. Chosen' BY ChosenStep
<1>3. Reads' BY ReadsStep
<1>4. Writes' BY WritesStep
<1>5. OnlyRunning' BY RunningStep
<1>6. TypeOK'
  <2>1. amem' \in [Lines -> Line] BY AmemStep
  <2>2. Table(open, Tags, [we : BOOLEAN, line : Lines, loose : BOOLEAN, at : Line, later : SUBSET Line])'
    BY OpenTypes
  <2>3. /\ Maybe(i, Req)' /\ Maybe(k, {r \in Req : ~ r.pf})'
        /\ way' = [s \in SetNos |-> way'[s]] /\ \A s \in SetNos : Table(way'[s], Ways, [line : Lines, data : Line])
        /\ rr' \in Ways
        /\ q' = [m \in Mshrs |-> q'[m]] /\ \A m \in Mshrs : q'[m] # None => q'[m] = <<q'[m][1]>> /\ MissOk(q'[m][1])
        /\ Table(w, Tags, Lines)' /\ Maybe(pf, Lines)'
        /\ Maybe(b, [tag : Tags, data : Line])' /\ Maybe(d, [m : Mshrs, t : Tags])' /\ wack' \in SUBSET Tags
    BY CacheTypes
  <2>4. wr_out' \in Nat /\ wq' \in Seq(Tags)
    <3>1. wq' \in Seq(Tags) BY WqStep
    <3>2. wr_out' = Len(wq') BY <1>4 DEF Writes
    <3>3. Len(wq') \in Nat BY <3>1
    <3> QED BY <3>1, <3>2, <3>3
  <2>5. /\ Maybe(ar, [id : Mshrs, line : Lines])'
        /\ Maybe(aw, [id : {0}, line : Lines, data : Line, be : SUBSET Words, av : BOOLEAN, beat : 1 .. Beats + 1])'
        /\ wr' \in Seq(Write) /\ mem' \in [Lines -> Line]
        /\ Table(rd, Mshrs, [data : Line, beat : 1 .. Beats])'
        /\ rbuf' \in [Mshrs -> Seq(Value)]
    BY MasterTypes
  <2>6. nreq' \in 0 .. MaxReq
    <3>1. nreq' = IF sr = None THEN nreq ELSE nreq + 1 BY DEF InOk, Step
    <3>2. sr # None => nreq < MaxReq BY OfferFacts DEF InOk
    <3>3. nreq \in 0 .. MaxReq /\ MaxReq \in Nat BY Basics DEF TypeOK
    <3> QED BY <3>1, <3>2, <3>3
  <2> HIDE DEF Busy
  <2> QED BY <2>1, <2>2, <2>3, <2>4, <2>5, <2>6 DEF TypeOK, Table
<1> QED BY <1>1, <1>2, <1>3, <1>4, <1>5, <1>6

(* BusyStep: every step does, the end of a grid and the host included.     *)
LEMMA BusyStep == Busy /\ [Next]_vars => Busy'
<1> SUFFICES ASSUME Busy, [Next]_vars PROVE Busy' OBVIOUS
<1>0. running \in BOOLEAN BY DEF Busy, TypeOK
<1>1. CASE Clock
  <2>1. PICK sr \in Offers, e \in Env : Step(sr, e, FALSE) /\ running' = running BY <1>1 DEF Clock
  <2>2. InOk(sr, e, FALSE) BY <2>1 DEF InOk
  <2> QED BY <1>0, <2>1, <2>2, ClockStep
<1>2. CASE Go
  <2>1. PICK e \in Env : Step(None, e, TRUE) /\ running' = TRUE BY <1>2 DEF Go
  <2>2. InOk(None, e, TRUE) BY <2>1 DEF InOk, Offers
  <2> QED BY <2>1, <2>2, ClockStep
<1>3. CASE Done
  <2>1. /\ FreeTags = Tags /\ running' = FALSE
        /\ UNCHANGED <<avars, cvars, xvars, mem, rd, wr, nreq, ngo>>
    BY <1>3 DEF Done
  <2>2. TypeOK' /\ InPlaces' /\ Chosen' /\ Reads' /\ Writes'
    <3> USE <2>1 DEF Busy, avars, cvars, xvars
    <3>1. TypeOK'
      <4>1. running' \in BOOLEAN OBVIOUS
      <4>2. TypeOK BY DEF Busy
      <4> QED BY <4>1, <4>2 DEF TypeOK, Table, Maybe, MissOk
    <3>2. InPlaces' BY DEF InPlaces, InPlace, Held, OnQ, NoQ, OnB
    <3>3. Chosen' BY DEF Chosen, OnQ
    <3>4. Reads' BY DEF Reads, Empty, Asks
    <3>5. Writes' BY DEF Writes, InFlight
    <3> QED BY <3>1, <3>2, <3>3, <3>4, <3>5
  <2>3. OnlyRunning'
    <3>1. \A t \in Tags : open[t] = None BY <2>1 DEF FreeTags
    <3> QED BY <2>1, <3>1 DEF OnlyRunning, avars
  <2> QED BY <2>2, <2>3 DEF Busy
<1>4. ASSUME NEW l \in Lines, Host(l) PROVE Busy'
  <2>1. /\ open' = open /\ running' = running /\ nreq' = nreq /\ rd' = rd /\ wr' = wr
        /\ UNCHANGED <<cvars, xvars>>
        /\ amem' = [amem EXCEPT ![l] = Filled(MaxReq + 1)]
        /\ mem' = [mem EXCEPT ![l] = Filled(MaxReq + 1)]
    BY <1>4 DEF Host, HostWrite
  <2>2. Filled(MaxReq + 1) \in Line
    <3>1. MaxReq + 1 \in Value BY Basics DEF Value
    <3> QED BY <3>1, LineFacts
  <2> USE DEF Busy, cvars, xvars
  <2>3. amem' \in [Lines -> Line] /\ mem' \in [Lines -> Line] BY <2>1, <2>2 DEF TypeOK
  <2>4. TypeOK' BY <2>1, <2>3 DEF TypeOK, Table, Maybe, MissOk
  <2>5. InPlaces' BY <2>1 DEF InPlaces, InPlace, Held, OnQ, NoQ, OnB
  <2>6. Chosen' BY <2>1 DEF Chosen, OnQ
  <2>7. Reads' BY <2>1 DEF Reads, Empty, Asks
  <2>8. Writes' BY <2>1 DEF Writes, InFlight
  <2>9. OnlyRunning' BY <2>1 DEF OnlyRunning
  <2> QED BY <2>4, <2>5, <2>6, <2>7, <2>8, <2>9
<1>5. CASE UNCHANGED vars
  <2> USE <1>5 DEF Busy, vars, avars, cvars, xvars
  <2>4. TypeOK' BY DEF TypeOK, Table, Maybe, MissOk
  <2>5. InPlaces' BY DEF InPlaces, InPlace, Held, OnQ, NoQ, OnB
  <2>6. Chosen' BY DEF Chosen, OnQ
  <2>7. Reads' BY DEF Reads, Empty, Asks
  <2>8. Writes' BY DEF Writes, InFlight
  <2>9. OnlyRunning' BY DEF OnlyRunning
  <2> QED BY <2>4, <2>5, <2>6, <2>7, <2>8, <2>9
<1> QED BY <1>1, <1>2, <1>3, <1>4, <1>5 DEF Next

(* BusyInit: at reset nothing is anywhere.                                 *)
LEMMA BusyInit == Init => Busy
<1> SUFFICES ASSUME Init PROVE Busy OBVIOUS
<1> USE DEF Init, LineInit, CacheInit, AxiInit
<1>1. Filled(0) \in Line BY LineFacts
<1>2. amem \in [Lines -> Line] /\ mem \in [Lines -> Line] BY <1>1
<1>3. rr \in Ways /\ MaxReq \in Nat BY Basics
<1>4. \A S : Maybe(None, S) BY DEF Maybe
<1>5. TypeOK
  <2>1. way = [s \in SetNos |-> way[s]] /\ \A s \in SetNos : Table(way[s], Ways, [line : Lines, data : Line])
    BY <1>4 DEF Table
  <2>2. Table(open, Tags, [we : BOOLEAN, line : Lines, loose : BOOLEAN, at : Line, later : SUBSET Line])
    BY <1>4 DEF Table
  <2>3. Table(w, Tags, Lines) /\ Table(rd, Mshrs, [data : Line, beat : 1 .. Beats]) BY <1>4 DEF Table
  <2>4. q = [m \in Mshrs |-> q[m]] /\ \A m \in Mshrs : q[m] = None OBVIOUS
  <2>5. wq \in Seq(Tags) /\ wr \in Seq(Write) /\ rbuf \in [Mshrs -> Seq(Value)] OBVIOUS
  <2>8. running \in BOOLEAN OBVIOUS
  <2>6. wr_out \in Nat /\ wack \in SUBSET Tags /\ running \in BOOLEAN /\ nreq \in 0 .. MaxReq BY <1>3, <2>8
  <2>7. /\ i = None /\ k = None /\ pf = None /\ b = None /\ d = None /\ ar = None /\ aw = None
    OBVIOUS
  <2> QED BY <1>2, <1>3, <1>4, <2>1, <2>2, <2>3, <2>4, <2>5, <2>6, <2>7 DEF TypeOK
<1>6. InPlaces BY DEF InPlaces, InPlace, Held, OnQ, NoQ, OnB
<1>7. Chosen BY DEF Chosen
<1>8. Reads BY DEF Reads, Empty, Asks
<1>9. Writes
  <2>1. wr = <<>> /\ aw = <<>> /\ wq = <<>> BY DEF None
  <2>2. InFlight = <<>> BY <2>1, ConcatEmptySeq DEF InFlight
  <2> QED BY <2>1, <2>2 DEF Writes
<1>10. OnlyRunning BY DEF OnlyRunning
<1> QED BY <1>5, <1>6, <1>7, <1>8, <1>9, <1>10 DEF Busy

(* Counted: what the invariant says of places and registers, in numbers.   *)
LEMMA Counted == Busy => Accounted
<1> SUFFICES ASSUME Busy PROVE Accounted OBVIOUS
<1> USE DEF Busy
<1>1. ASSUME NEW t \in Tags PROVE Places(t) = One(open[t] # None)
  <2> DEFINE oq(m) == OnQ(m, t)
  <2>1. InPlace(t) BY DEF InPlaces
  <2>2. WaitsOn(t) = {m \in Mshrs : oq(m)} BY DEF WaitsOn, OnQ
  <2>3. Cardinality(WaitsOn(t)) = One(~ NoQ(t))
    <3>1. CASE NoQ(t)
      <4>1. WaitsOn(t) = {} BY <2>2, <3>1 DEF NoQ
      <4> QED BY <3>1, <4>1, FS_EmptySet DEF One
    <3>2. CASE ~ NoQ(t)
      <4>1. PICK m \in Mshrs : oq(m) BY <3>2 DEF NoQ
      <4>2. WaitsOn(t) = {m} BY <2>1, <2>2, <4>1 DEF InPlace
      <4> QED BY <3>2, <4>2, FS_Singleton DEF One
    <3> QED BY <3>1, <3>2
  <2>4. Places(t) = One(Held(i, t)) + One(Held(k, t)) + One(~ NoQ(t)) + One(w[t] # None)
                    + One(t \in wack) + One(OnB(t))
    BY <2>3 DEF Places, OnB
  <2> QED BY <2>1, <2>4 DEF InPlace, One
<1>2. LET out == {t \in Tags : w[t] # None} IN ToSet(wq) = out /\ Len(wq) = Cardinality(out) /\ wr_out = Len(wq)
  <2> DEFINE out == {t \in Tags : w[t] # None}
             n == Len(wq)
  <2>1. wq \in Seq(Tags) /\ n \in Nat /\ wr_out = n /\ wq \in [1 .. n -> Tags] BY DEF TypeOK, Writes
  <2>2. /\ \A x, y \in 1 .. n : wq[x] = wq[y] => x = y
        /\ \A t \in Tags : w[t] # None <=> \E x \in 1 .. n : wq[x] = t
    BY DEF Writes
  <2>3. ToSet(wq) = out BY <2>1, <2>2 DEF ToSet
  <2>4. wq \in Bijection(1 .. n, out)
    <3>1. wq \in [1 .. n -> out] BY <2>1, <2>2
    <3>2. wq \in Injection(1 .. n, out) BY <2>2, <3>1 DEF Injection, IsInjective
    <3>3. wq \in Surjection(1 .. n, out) BY <2>2, <3>1 DEF Surjection
    <3> QED BY <3>2, <3>3 DEF Bijection
  <2>5. Cardinality(1 .. n) = n /\ IsFiniteSet(1 .. n)
    <3>1. 1 \in Int /\ n \in Int BY <2>1
    <3> HIDE DEF n
    <3>2. IsFiniteSet(1 .. n) /\ Cardinality(1 .. n) = IF 1 > n THEN 0 ELSE n - 1 + 1 BY <3>1, FS_Interval
    <3> QED BY <2>1, <3>2
  <2>6. ExistsBijection(1 .. n, out) BY <2>4 DEF ExistsBijection
  <2>7. Cardinality(1 .. n) = Cardinality(out) BY <2>5, <2>6, FS_Bijection
  <2> QED BY <2>1, <2>3, <2>5, <2>7
<1>3. Len(wq) = Len(wr) + One(aw # None) BY FlightIs DEF Writes
<1>4. ASSUME NEW m \in Mshrs
      PROVE  One(rd[m] # None) + One(IF ar = None THEN FALSE ELSE ar[1].id = m)
               = One(IF q[m] = None THEN FALSE ELSE q[m][1].data = None)
  BY DEF Reads, Empty, Asks, One
<1> QED BY <1>1, <1>2, <1>3, <1>4 DEF Accounted

(* EveryRequestPlaced: for every size of the cache, no request is lost or  *)
(* duplicated between input register, skid, miss registers, write table    *)
(* and answers, and no read or write is under way for nobody (l1_dcache.sv *)
(* with axi_line_master.sv; see Accounted).                                *)
THEOREM EveryRequestPlaced == Spec => []Accounted
<1>1. Init => Busy BY BusyInit
<1>2. Busy /\ [Next]_vars => Busy' BY BusyStep
<1>3. Busy => Accounted BY Counted
<1> QED BY <1>1, <1>2, <1>3, PTL DEF Spec

-----------------------------------------------------------------------------
(* The first n of the writes F that replace word x of line l, and line l   *)
(* after them.                                                             *)
Over(F, l, x, n) == {j \in 1 .. n : F[j].line = l /\ x \in F[j].be}
Upto(v, F, l, n) == [x \in Words |-> IF Over(F, l, x, n) = {} THEN v[x] ELSE F[Max(Over(F, l, x, n))].data[x]]
(* Line l once the first n of the writes in flight are performed, and once *)
(* all are: the same in the next state, for formulas that name both.       *)
Cover(l, x, n) == Over(InFlight, l, x, n)
After(l, n) == Upto(mem[l], InFlight, l, n)
Due(l) == After(l, Len(InFlight))
After2(l, n) == Upto(mem'[l], InFlight', l, n)
Due2(l) == After2(l, Len(InFlight'))
(* Line l with value v after the request r, if it is a write to l.         *)
Put(r, l, v) == IF r = None THEN v ELSE IF r[1].we /\ r[1].line = l THEN Merge(v, r[1].data, r[1].be) ELSE v
(* Taken: the account has every write that was offered: those memory and   *)
(* the AXI master have, then that in the input register, then the skid.    *)
Taken == \A l \in Lines : amem[l] = Put(k, l, Put(i, l, Due(l)))
(* What the line of read t has been since it was accepted.                 *)
Since(t) == {open[t][1].at} \cup open[t][1].later
(* Asked: every place knows what the request in it asked for.              *)
Asked ==
  \A t \in Tags :
    /\ Held(i, t) => open[t][1].we = i[1].we /\ open[t][1].line = i[1].line
    /\ Held(k, t) => open[t][1].we = k[1].we /\ open[t][1].line = k[1].line
    /\ w[t] # None \/ t \in wack => open[t][1].we
    /\ OnB(t) => ~ open[t][1].we
    /\ \A m \in Mshrs : OnQ(m, t) => ~ open[t][1].we /\ open[t][1].line = q[m][1].line
(* Fresh: every read on its way returns what it may.  A held read is to    *)
(* return what its line will be once the writes before it are performed, a *)
(* waiter of a valid miss what the line is with the writes in flight; one  *)
(* of a stale miss, whose line may have been read before the GO or will be *)
(* read amid writes in flight, is loose and returns what the line has been.*)
Fresh ==
  \A t \in Tags :
    /\ open[t] # None => open[t][1].we \/ amem[open[t][1].line] \in Since(t)
    /\ Held(i, t) => i[1].we \/ open[t][1].at = Due(i[1].line)
    /\ Held(k, t) => k[1].we \/ open[t][1].at = Put(i, k[1].line, Due(k[1].line))
    /\ OnB(t) => Permits(b)
    /\ \A m \in Mshrs : OnQ(m, t) =>
         LET l == q[m][1].line IN
         /\ Put(i, l, Due(l)) \in Since(t)
         /\ IF q[m][1].stale THEN open[t][1].loose ELSE open[t][1].at = Due(l)
         /\ q[m][1].stale =>
            /\ Asks(m) => \A n \in 0 .. Len(InFlight) : After(l, n) \in Since(t)
            /\ rd[m] # None => rd[m][1].data \in Since(t)
            /\ q[m][1].data # None => q[m][1].data[1] \in Since(t)
(* A miss register whose line may be stored: no GO came since the miss.    *)
Valid(m) == IF q[m] = None THEN FALSE ELSE ~ q[m][1].stale
(* Misses: a line with a valid miss is fetched once, is in no way unless   *)
(* it was stored from there, has no write in flight, and while a grid runs *)
(* the data fetched is current.                                            *)
Misses ==
  /\ \A m \in Mshrs : Valid(m) =>
       LET l == q[m][1].line IN
       /\ \A j \in 1 .. Len(InFlight) : InFlight[j].line # l
       /\ running => /\ rd[m] # None => rd[m][1].data = Due(l)
                     /\ q[m][1].data # None => q[m][1].data[1] = Due(l)
       /\ q[m][1].done \/ \A y \in Ways : way[SetOf(l)][y] # None => way[SetOf(l)][y][1].line # l
       /\ \A n \in Mshrs : Valid(n) /\ q[n][1].line = l => m = n
(* Copies: a way holds a line of its set, once, and while a grid runs with *)
(* the writes in flight applied.                                           *)
Copies ==
  \A s \in SetNos, y \in Ways : way[s][y] # None =>
    /\ SetOf(way[s][y][1].line) = s
    /\ running => way[s][y][1].data = Due(way[s][y][1].line)
    /\ \A z \in Ways : way[s][z] # None => (way[s][z][1].line = way[s][y][1].line => z = y)
(* PathInv: the inductive invariant of the path.                           *)
PathInv == Busy /\ Taken /\ Asked /\ Fresh /\ Misses /\ Copies

-----------------------------------------------------------------------------
(* MaxIn: the greatest element of a bounded set of numbers is in it.       *)
LEMMA MaxIn ==
  ASSUME NEW N \in Nat, NEW S \in SUBSET (1 .. N), S # {}
  PROVE  Max(S) \in S /\ \A x \in S : x <= Max(S)
<1> DEFINE T == {N - x : x \in S}
<1>0. \A x \in S : x \in Int /\ 1 <= x /\ x <= N OBVIOUS
<1>1. T \in SUBSET Nat /\ T # {}
  <2>1. \A x \in S : N - x \in Nat BY <1>0
  <2>2. PICK x \in S : TRUE OBVIOUS
  <2> QED BY <2>1, <2>2
<1>2. Min(T) \in T /\ \A x \in T : Min(T) <= x BY <1>1, MinIn
<1>3. PICK x \in S : Min(T) = N - x BY <1>2
<1>4. \A y \in S : x >= y
  <2> SUFFICES ASSUME NEW y \in S PROVE x >= y OBVIOUS
  <2>1. N - y \in T OBVIOUS
  <2>2. N - x <= N - y BY <1>2, <1>3, <2>1
  <2>3. x \in Int /\ y \in Int OBVIOUS
  <2> QED BY <2>2, <2>3
<1>5. \E z \in S : \A y \in S : z >= y BY <1>4
<1>6. Max(S) \in S /\ \A y \in S : Max(S) >= y BY <1>5 DEF Max
<1>7. \A y \in S : y \in Int OBVIOUS
<1> QED BY <1>6, <1>7

(* CoverMax: the last write that covers a word.                            *)
LEMMA CoverMax ==
  ASSUME NEW l, NEW x, NEW n \in Nat, Cover(l, x, n) # {}
  PROVE  /\ Max(Cover(l, x, n)) \in Cover(l, x, n)
         /\ \A y \in Cover(l, x, n) : y <= Max(Cover(l, x, n))
<1>1. Cover(l, x, n) \in SUBSET (1 .. n) BY DEF Cover, Over
<1> QED BY <1>1, MaxIn

(* LastIs: a number above all others of a set is its maximum.              *)
LEMMA LastIs ==
  ASSUME NEW N \in Nat, NEW S \in SUBSET (1 .. N), NEW y \in S, \A x \in S : x <= y
  PROVE  Max(S) = y
<1>1. Max(S) \in S /\ \A x \in S : x <= Max(S) BY MaxIn
<1>2. Max(S) \in Int /\ y \in Int
  <2>1. \A x \in S : x \in Int OBVIOUS
  <2> QED BY <1>1, <2>1
<1>3. Max(S) <= y /\ y <= Max(S) BY <1>1
<1> QED BY <1>2, <1>3

(* AfterFacts: memory with some of the writes in flight applied.           *)
LEMMA AfterFacts ==
  ASSUME TypeOK, NEW l \in Lines
  PROVE  /\ \A n \in 0 .. Len(InFlight) : After(l, n) \in Line
         /\ After(l, 0) = mem[l]
         /\ (\A j \in 1 .. Len(InFlight) : InFlight[j].line # l)
              => \A n \in 0 .. Len(InFlight) : After(l, n) = mem[l]
         /\ Due(l) = Pending(l) /\ Due(l) \in Line
<1>0. mem[l] \in [Words -> Value] BY DEF TypeOK, Line
<1>f. /\ Len(InFlight) \in Nat
      /\ \A x \in 1 .. Len(InFlight) : InFlight[x].data \in [Words -> Value]
  BY FlightIs DEF Line
<1>1. ASSUME NEW n \in 0 .. Len(InFlight) PROVE After(l, n) \in Line
  <2> SUFFICES ASSUME NEW x \in Words, Cover(l, x, n) # {} PROVE InFlight[Max(Cover(l, x, n))].data[x] \in Value
    BY <1>0 DEF After, Upto, Cover, Line
  <2>1. n \in Nat BY <1>f
  <2>2. Max(Cover(l, x, n)) \in Cover(l, x, n) BY <2>1, CoverMax
  <2>3. Max(Cover(l, x, n)) \in 1 .. Len(InFlight) BY <1>f, <2>2 DEF Cover, Over
  <2> QED BY <1>f, <2>3
<1>2. ASSUME NEW n \in 0 .. Len(InFlight), \A x \in Words : Cover(l, x, n) = {} PROVE After(l, n) = mem[l]
  <2>1. After(l, n) = [x \in Words |-> mem[l][x]] BY <1>2 DEF After, Upto, Cover
  <2> QED BY <1>0, <2>1
<1>3. \A x \in Words : Cover(l, x, 0) = {} BY DEF Cover, Over
<1>4. ASSUME \A j \in 1 .. Len(InFlight) : InFlight[j].line # l
      PROVE  \A n \in 0 .. Len(InFlight) : \A x \in Words : Cover(l, x, n) = {}
  BY <1>f, <1>4 DEF Cover, Over
<1>5. 0 \in 0 .. Len(InFlight) /\ Len(InFlight) \in 0 .. Len(InFlight) BY <1>f
<1>6. DOMAIN InFlight = 1 .. Len(InFlight)
  <2>1. wr \in Seq(Write) BY DEF TypeOK
  <2>2. CASE aw = None
    <3>1. InFlight = wr BY <2>1, <2>2, ConcatEmptySeq DEF InFlight, None
    <3> QED BY <2>1, <3>1
  <2>3. CASE aw # None
    <3> DEFINE y == aw[1]
    <3>1. aw = <<y>> BY <2>3 DEF TypeOK, Maybe
    <3> HIDE DEF y
    <3>2. wr \in Seq(Write \cup {y}) /\ <<y>> \in Seq(Write \cup {y}) BY <2>1
    <3>3. wr \o <<y>> \in Seq(Write \cup {y}) BY <3>2
    <3>4. InFlight \in Seq(Write \cup {y}) BY <3>1, <3>3 DEF InFlight
    <3> QED BY <3>4
  <2> QED BY <2>2, <2>3
<1>7. Due(l) = Pending(l)
  <2>1. \A x : Cover(l, x, Len(InFlight)) = {n \in DOMAIN InFlight : InFlight[n].line = l /\ x \in InFlight[n].be}
    BY <1>6 DEF Cover, Over
  <2> QED BY <2>1 DEF Due, After, Upto, Cover, Pending
<1> QED BY <1>1, <1>2, <1>3, <1>4, <1>5, <1>7 DEF Due

(* AfterStep: memory performing its oldest write changes nothing of what   *)
(* memory and the writes in flight hold together.                          *)
LEMMA AfterStep ==
  ASSUME TypeOK, TypeOK', Reads, NEW sr, NEW e, NEW go, InOk(sr, e, go), NEW l \in Lines
  PROVE  \A n \in 0 .. Len(InFlight) - Gone(e) : After2(l, n) = After(l, n + Gone(e))
<1> DEFINE F == InFlight'
           g == Gone(e)
           C(x, n) == {j \in 1 .. n : F[j].line = l /\ x \in F[j].be}
<1>f. /\ Len(InFlight) \in Nat
      /\ BFire(e) => Len(InFlight) >= 1 /\ InFlight[1] = wr[1]
      /\ Len(F) = Len(InFlight) - g + One(Sent)
      /\ \A x \in 1 .. Len(InFlight) - g : Same(F[x], InFlight[x + g])
  BY FlightIs, FlightStep
<1>g. g \in {0, 1} /\ (BFire(e) <=> g = 1) BY DEF Gone
<1>m. /\ g = 0 => mem' = mem
      /\ g = 1 => mem' = [mem EXCEPT ![InFlight[1].line] = Merge(mem[InFlight[1].line], InFlight[1].data, InFlight[1].be)]
  <2>1. Memory(e) BY DEF InOk, Step
  <2>2. BFire(e) => e.b[1] = 1
    <3>1. BFire(e) => e.b # None /\ e \in Env BY DEF BFire, InOk
    <3>2. BFire(e) => e.b = <<1>> BY <3>1, WriteFacts
    <3> QED BY <3>2
  <2>3. CASE BFire(e)
    <3>1. mem' = [mem EXCEPT ![wr[1].line] = Merge(mem[wr[1].line], wr[1].data, wr[1].be)]
      BY <2>1, <2>2, <2>3 DEF Memory
    <3>2. InFlight[1] = wr[1] /\ g = 1 BY <1>f, <1>g, <2>3
    <3> DEFINE y == wr[1]
    <3> HIDE DEF g, y
    <3>3. mem' = [mem EXCEPT ![y.line] = Merge(mem[y.line], y.data, y.be)] BY <3>1 DEF y
    <3>4. InFlight[1] = y BY <3>2 DEF y
    <3> QED BY <3>2, <3>3, <3>4
  <2>4. CASE ~ BFire(e) BY <1>g, <2>1, <2>4 DEF Memory
  <2> QED BY <2>3, <2>4
<1> SUFFICES ASSUME NEW n \in 0 .. Len(InFlight) - g, NEW x \in Words
             PROVE  (IF C(x, n) = {} THEN mem'[l][x] ELSE F[Max(C(x, n))].data[x])
                      = IF Cover(l, x, n + g) = {} THEN mem[l][x] ELSE InFlight[Max(Cover(l, x, n + g))].data[x]
  BY DEF After, After2, Upto, Cover, Over
<1> HIDE DEF F, g
<1>n. n \in Nat /\ n + g \in Nat /\ n + g <= Len(InFlight) BY <1>f, <1>g
<1>1. \A j \in 1 .. n : /\ j + g \in 1 .. n + g
                        /\ j \in C(x, n) <=> j + g \in Cover(l, x, n + g)
                        /\ F[j].data = InFlight[j + g].data
  <2> SUFFICES ASSUME NEW j \in 1 .. n
               PROVE  /\ j + g \in 1 .. n + g
                      /\ j \in C(x, n) <=> j + g \in Cover(l, x, n + g)
                      /\ F[j].data = InFlight[j + g].data
    OBVIOUS
  <2>1. j \in 1 .. Len(InFlight) - g /\ j + g \in 1 .. n + g BY <1>f, <1>g, <1>n
  <2>2. Same(F[j], InFlight[j + g]) BY <1>f, <2>1
  <2> QED BY <2>1, <2>2 DEF Same, Cover, Over
<1>2. \A y \in Cover(l, x, n + g) : y - g \in C(x, n) \/ (g = 1 /\ y = 1)
  <2> SUFFICES ASSUME NEW y \in Cover(l, x, n + g), ~ (g = 1 /\ y = 1) PROVE y - g \in C(x, n) OBVIOUS
  <2>1. y \in 1 .. n + g BY DEF Cover, Over
  <2>2. y - g \in 1 .. n /\ (y - g) + g = y BY <1>g, <1>n, <2>1
  <2> QED BY <1>1, <2>2
<1>3. CASE C(x, n) # {}
  <2> DEFINE y == Max(C(x, n))
  <2>1. y \in C(x, n) /\ \A j \in C(x, n) : j <= y
    <3>1. C(x, n) \in SUBSET (1 .. n) OBVIOUS
    <3> HIDE DEF C
    <3> QED BY <1>3, <1>n, <3>1, MaxIn
  <2>2. y \in 1 .. n BY <2>1
  <2>3. y + g \in Cover(l, x, n + g) /\ F[y].data = InFlight[y + g].data BY <1>1, <2>1, <2>2
  <2>4. \A j \in Cover(l, x, n + g) : j <= y + g
    <3> SUFFICES ASSUME NEW j \in Cover(l, x, n + g) PROVE j <= y + g OBVIOUS
    <3>1. j \in 1 .. n + g BY DEF Cover, Over
    <3>2. CASE j - g \in C(x, n)
      <4>1. j - g <= y BY <2>1, <3>2
      <4> HIDE DEF y, C
      <4> QED BY <1>g, <2>2, <3>1, <4>1
    <3>3. CASE g = 1 /\ j = 1
      <4> HIDE DEF y, C
      <4> QED BY <2>2, <3>3
    <3> QED BY <1>2, <3>2, <3>3
  <2>5. Cover(l, x, n + g) \in SUBSET (1 .. n + g) BY DEF Cover, Over
  <2>6. Max(Cover(l, x, n + g)) = y + g
    <3> HIDE DEF y, C
    <3> QED BY <1>n, <2>3, <2>4, <2>5, LastIs
  <2>7. Cover(l, x, n + g) # {} BY <2>3
  <2> HIDE DEF C
  <2> QED BY <1>3, <2>3, <2>6, <2>7
<1>4. CASE C(x, n) = {}
  <2>1. \A y \in Cover(l, x, n + g) : g = 1 /\ y = 1 BY <1>2, <1>4
  <2>2. mem \in [Lines -> Line] BY DEF TypeOK
  <2>3. CASE g = 0
    <3>1. Cover(l, x, n + g) = {} BY <2>1, <2>3
    <3> HIDE DEF C
    <3> QED BY <1>4, <1>m, <2>3, <3>1
  <2>4. CASE g = 1
    <3>1. 1 \in 1 .. n + g BY <1>n, <2>4
    <3>2. InFlight[1].line \in Lines /\ InFlight[1].data \in Line
      <4>1. 1 \in 1 .. Len(InFlight) BY <1>f, <1>g, <2>4
      <4> QED BY <4>1, FlightIs
    <3>3. mem'[l] = IF InFlight[1].line = l THEN Merge(mem[l], InFlight[1].data, InFlight[1].be) ELSE mem[l]
      BY <1>m, <2>2, <2>4, <3>2
    <3>4. CASE InFlight[1].line = l /\ x \in InFlight[1].be
      <4>1. 1 \in Cover(l, x, n + g) BY <3>1, <3>4 DEF Cover, Over
      <4>2. Cover(l, x, n + g) = {1} BY <2>1, <4>1
      <4>3. Cover(l, x, n + g) \in SUBSET (1 .. n + g) BY DEF Cover, Over
      <4>4. \A y \in Cover(l, x, n + g) : y <= 1 BY <4>2
      <4>5. Max(Cover(l, x, n + g)) = 1 BY <1>n, <4>1, <4>3, <4>4, LastIs
      <4>6. mem'[l][x] = InFlight[1].data[x] BY <3>3, <3>4 DEF Merge
      <4> HIDE DEF C
      <4> QED BY <1>4, <4>1, <4>5, <4>6
    <3>5. CASE ~ (InFlight[1].line = l /\ x \in InFlight[1].be)
      <4>1. Cover(l, x, n + g) = {} BY <2>1, <3>5 DEF Cover, Over
      <4>2. mem'[l][x] = mem[l][x] BY <3>3, <3>5 DEF Merge
      <4> HIDE DEF C
      <4> QED BY <1>4, <4>1, <4>2
    <3> QED BY <3>4, <3>5
  <2> QED BY <1>g, <2>3, <2>4
<1> QED BY <1>3, <1>4

(* DueStep: only a write that is sent changes what they hold together.     *)
LEMMA DueStep ==
  ASSUME TypeOK, TypeOK', Reads, NEW sr, NEW e, NEW go, InOk(sr, e, go), NEW l \in Lines
  PROVE  /\ Due2(l) = IF Sent /\ r_line = l THEN Merge(Due(l), i[1].data, i[1].be) ELSE Due(l)
         /\ i = None \/ Grant => Due2(l) = Put(i, l, Due(l))
         /\ ~ (i = None \/ Grant) => Due2(l) = Due(l)
         /\ Len(InFlight') = Len(InFlight) - Gone(e) + One(Sent)
<1> DEFINE F == InFlight'
           g == Gone(e)
           N == Len(F)
           C(x, n) == {j \in 1 .. n : F[j].line = l /\ x \in F[j].be}
           A(n) == Upto(mem'[l], F, l, n)
           v == i[1].data
           s == i[1].be
           new == Due2(l)
<1>f. /\ Len(InFlight) \in Nat
      /\ BFire(e) => Len(InFlight) >= 1
      /\ N = Len(InFlight) - g + One(Sent)
      /\ Sent => Same(F[N], [line |-> r_line, data |-> v, be |-> s])
  BY FlightIs, FlightStep
<1>g. g \in {0, 1} /\ (BFire(e) <=> g = 1) BY DEF Gone
<1>1. A(Len(InFlight) - g) = Due(l)
  <2> DEFINE n == Len(InFlight) - g
  <2>1. n \in 0 .. Len(InFlight) - g /\ n + g = Len(InFlight) BY <1>f, <1>g
  <2>2. A(n) = After(l, n + g) BY <2>1, AfterStep DEF After, After2
  <2> QED BY <2>1, <2>2 DEF Due
<1>2. new = A(N) BY DEF Due2, After2
<1>3. \A n : A(n) = [x \in Words |-> IF C(x, n) = {} THEN mem'[l][x] ELSE F[Max(C(x, n))].data[x]]
  BY DEF After, After2, Upto, Cover, Over
<1> HIDE DEF F, g, N, A, v, s, new
<1>4. ASSUME ~ Sent PROVE new = IF Sent /\ r_line = l THEN Merge(Due(l), v, s) ELSE Due(l)
  <2>1. N = Len(InFlight) - g BY <1>4, <1>f, <1>g DEF One
  <2> QED BY <1>1, <1>2, <1>4, <2>1
<1>5. ASSUME Sent PROVE new = IF Sent /\ r_line = l THEN Merge(Due(l), v, s) ELSE Due(l)
  <2>1. N = Len(InFlight) - g + 1 /\ N \in Nat /\ N - 1 = Len(InFlight) - g /\ N >= 1
    BY <1>5, <1>f, <1>g DEF One
  <2>2. F[N].line = r_line /\ F[N].data = v /\ F[N].be = s BY <1>5, <1>f DEF Same
  <2>3. ASSUME NEW x \in Words, r_line = l, x \in s
        PROVE  C(x, N) # {} /\ F[Max(C(x, N))].data[x] = v[x]
    <3>1. N \in C(x, N) BY <2>1, <2>2, <2>3
    <3>2. C(x, N) \in SUBSET (1 .. N) OBVIOUS
    <3>3. \A y \in C(x, N) : y <= N BY <2>1
    <3> HIDE DEF C
    <3>4. Max(C(x, N)) = N BY <2>1, <3>1, <3>2, <3>3, LastIs
    <3> QED BY <2>2, <3>1, <3>4
  <2>4. ASSUME NEW x \in Words, ~ (r_line = l /\ x \in s)
        PROVE  C(x, N) = C(x, N - 1)
    <3>1. \A y : y \in 1 .. N <=> y \in 1 .. N - 1 \/ y = N BY <2>1
    <3>2. ~ (F[N].line = l /\ x \in F[N].be) BY <2>2, <2>4
    <3> QED BY <3>1, <3>2
  <2> HIDE DEF C
  <2>5. A(N - 1) = Due(l) BY <1>1, <2>1
  <2>6. CASE r_line = l
    <3>1. \A x \in Words : A(N - 1)[x] = Due(l)[x] BY <2>5
    <3>2. \A x \in Words : (IF C(x, N) = {} THEN mem'[l][x] ELSE F[Max(C(x, N))].data[x])
                             = IF x \in s THEN v[x] ELSE Due(l)[x]
      BY <1>3, <2>3, <2>4, <2>6, <3>1
    <3>3. A(N) = [x \in Words |-> IF x \in s THEN v[x] ELSE Due(l)[x]] BY <1>3, <3>2
    <3> QED BY <1>2, <1>5, <2>6, <3>3 DEF Merge, v, s
  <2>7. CASE r_line # l
    <3>1. \A x \in Words : C(x, N) = C(x, N - 1) BY <2>4, <2>7
    <3>2. A(N) = A(N - 1) BY <1>3, <3>1
    <3> QED BY <1>2, <2>5, <2>7, <3>2
  <2> QED BY <2>6, <2>7
<1>6. new = IF Sent /\ r_line = l THEN Merge(Due(l), v, s) ELSE Due(l)
  BY <1>4, <1>5
<1>7. Grant => (Sent <=> i[1].we) /\ i # None
  <2>1. Grant => i # None /\ (i[1].pf \/ rd_hit \/ rd_join \/ NewMiss \/ Sent) BY Kinds
  <2>2. (rd_hit \/ rd_join \/ NewMiss => ~ i[1].we) /\ (Sent => i[1].we) BY Kinds
  <2>3. i # None => (i[1].pf => ~ i[1].we)
    <3>1. i # None => i[1] \in Req BY Kinds
    <3> QED BY <3>1 DEF Req
  <2> QED BY <2>1, <2>2, <2>3
<1>8. Sent => Grant BY Kinds
<1> QED BY <1>6, <1>7, <1>8, <1>f DEF Put, r_line, F, g, N, v, s, new

(* AmemPut: what the account does with an offered request.                 *)
LEMMA AmemPut ==
  ASSUME TypeOK, NEW sr, NEW e, NEW go, InOk(sr, e, go), NEW l \in Lines
  PROVE  amem'[l] = Put(sr, l, amem[l])
<1>1. amem \in [Lines -> Line] BY DEF TypeOK
<1>2. CASE Comes(sr)
  <2>1. sr[1].line \in Lines /\ amem' = [amem EXCEPT ![sr[1].line] = Offered(sr)] BY <1>2, AmemStep
  <2> QED BY <1>1, <1>2, <2>1 DEF Put, Comes, Offered
<1>3. CASE ~ Comes(sr)
  <2>1. amem' = amem BY <1>3, AmemStep
  <2> QED BY <1>3, <2>1 DEF Put, Comes
<1> QED BY <1>2, <1>3

(* PutStep: a request moves on, and the value its line will have with it.  *)
LEMMA PutStep ==
  ASSUME TypeOK, TypeOK', Reads, Taken, NEW sr, NEW e, NEW go, InOk(sr, e, go), NEW l \in Lines
  PROVE  /\ amem'[l] = Put(k', l, Put(i', l, Due2(l)))
         /\ Put(i', l, Due2(l)) \in {Put(i, l, Due(l)), amem[l], amem'[l]}
<1> DEFINE D0 == Due(l)
           D1 == Due2(l)
           A0 == amem[l]
           A1 == amem'[l]
<1>1. /\ i = None \/ Grant => D1 = Put(i, l, D0)
      /\ ~ (i = None \/ Grant) => D1 = D0
  BY DueStep
<1>2. A1 = Put(sr, l, A0) /\ A0 = Put(k, l, Put(i, l, D0)) BY AmemPut DEF Taken
<1>3. \A r, v : r = None => Put(r, l, v) = v BY DEF Put
<1>4. PfReq.pf => \A v : Put(<<PfReq>>, l, v) = v BY DEF Put, PfReq, None
<1>5. \/ ~ (i = None \/ Grant) /\ i' = i /\ k' = (IF sr = None THEN k ELSE sr)
      \/ (i = None \/ Grant) /\ k # None /\ sr = None /\ i' = k /\ k' = None
      \/ (i = None \/ Grant) /\ k = None /\ i' = sr /\ k' = None
      \/ (i = None \/ Grant) /\ k = None /\ sr = None /\ k' = None /\ i' = <<PfReq>> /\ PfReq.pf
  BY InputStep
<1>6. sr # None => k = None BY OfferFacts DEF InOk
<1> HIDE DEF D0, D1, A0, A1
<1> SUFFICES A1 = Put(k', l, Put(i', l, D1)) /\ Put(i', l, D1) \in {Put(i, l, D0), A0, A1}
  BY DEF D0, D1, A0, A1
<1>7. CASE ~ (i = None \/ Grant) /\ i' = i /\ k' = (IF sr = None THEN k ELSE sr)
  <2>1. D1 = D0 BY <1>1, <1>7
  <2>2. CASE sr = None BY <1>2, <1>3, <1>7, <2>1, <2>2
  <2>3. CASE sr # None BY <1>2, <1>3, <1>6, <1>7, <2>1, <2>3
  <2> QED BY <2>2, <2>3
<1>8. CASE (i = None \/ Grant) /\ k # None /\ sr = None /\ i' = k /\ k' = None
  BY <1>1, <1>2, <1>3, <1>8
<1>9. CASE (i = None \/ Grant) /\ k = None /\ i' = sr /\ k' = None
  BY <1>1, <1>2, <1>3, <1>9
<1>10. CASE (i = None \/ Grant) /\ k = None /\ sr = None /\ k' = None /\ i' = <<PfReq>> /\ PfReq.pf
  <2>1. Put(i', l, D1) = D1 /\ A1 = A0 /\ A0 = Put(i, l, D0) BY <1>2, <1>3, <1>4, <1>10
  <2>2. D1 = Put(i, l, D0) BY <1>1, <1>10
  <2>3. Put(k', l, D1) = D1 BY <1>3, <1>10
  <2> QED BY <2>1, <2>2, <2>3
<1> QED BY <1>5, <1>7, <1>8, <1>9, <1>10

(* Request t is in a place it is not answered from in this clock.          *)
Unanswered(t) ==
  In(t) \/ w[t] # None \/ (t \in wack /\ ~ Owed(t)) \/ (~ Drained(t) /\ \E m \in Mshrs : OnQ(m, t))
Since2(t) == {open'[t][1].at} \cup open'[t][1].later
(* Stays: a request that is not answered keeps what it asked for; a GO     *)
(* makes a read loose, and a write to its line is one more value it may    *)
(* return.                                                                 *)
LEMMA Stays ==
  ASSUME Busy, NEW sr, NEW e, NEW go, InOk(sr, e, go), NEW t \in Tags, Unanswered(t)
  PROVE  /\ open[t] # None /\ ~ Tagged(sr, t) /\ open'[t] # None
         /\ open'[t][1].we = open[t][1].we /\ open'[t][1].line = open[t][1].line
         /\ open'[t][1].at = open[t][1].at
         /\ open'[t][1].loose = (~ open[t][1].we /\ (open[t][1].loose \/ go))
         /\ Since(t) \subseteq Since2(t)
         /\ ~ open[t][1].we => amem'[open[t][1].line] = amem[open[t][1].line]
                               \/ amem'[open[t][1].line] \in Since2(t)
<1> USE DEF Busy
<1>1. InPlace(t) BY DEF InPlaces
<1>2. Owed(t) => t \in wack /\ ~ OnB(t) /\ ~ Drained(t)
  <2>1. wack \in SUBSET Nat BY Basics DEF TypeOK
  <2>2. Owed(t) => Min(wack) \in wack BY <2>1, MinIn DEF Owed, wa_go
  <2>3. Owed(t) => b = None /\ ~ dr_go BY DEF Owed, wa_go
  <2> QED BY <2>2, <2>3 DEF Owed, OnB, Drained
<1>3. Drained(t) => ~ NoQ(t) BY WaitStep, Basics DEF NoQ
<1>4. open[t] # None BY <1>1 DEF InPlace, Unanswered, In, NoQ
<1>5. ~ Tagged(Answer, t)
  <2>1. Tagged(Answer, t) <=> OnB(t) \/ Drained(t) \/ Owed(t) BY AnswerStep
  <2> HIDE DEF Busy
  <2> QED BY <1>1, <1>2, <1>3, <2>1 DEF InPlace, Unanswered, In, NoQ
<1>6. ~ Tagged(sr, t) BY <1>4, OfferFacts DEF InOk, Tagged
<1> DEFINE o == open[t][1]
           y == IF ~ Comes(sr) \/ o.we \/ o.line # sr[1].line THEN o.later ELSE o.later \cup {Offered(sr)}
           z == [we |-> o.we, line |-> o.line, loose |-> ~ o.we /\ (o.loose \/ go), at |-> o.at, later |-> y]
<1>7. open'[t] = <<z>> BY <1>4, <1>5, OpenNext
<1>8. ~ o.we => amem'[o.line] = amem[o.line] \/ amem'[o.line] \in y
  <2>1. amem \in [Lines -> Line] BY DEF TypeOK
  <2>2. CASE Comes(sr)
    <3>1. sr[1].line \in Lines /\ amem' = [amem EXCEPT ![sr[1].line] = Offered(sr)] BY <2>2, AmemStep
    <3>2. CASE o.line = sr[1].line
      <4>1. amem'[o.line] = Offered(sr) BY <2>1, <3>1, <3>2
      <4> QED BY <2>2, <3>2, <4>1
    <3>3. CASE o.line # sr[1].line
      <4>1. amem'[o.line] = amem[o.line]
        <5>1. o.line \in Lines BY <1>4 DEF TypeOK, Table, Maybe
        <5> QED BY <2>1, <3>1, <3>3, <5>1
      <4> QED BY <4>1
    <3> QED BY <3>2, <3>3
  <2>3. CASE ~ Comes(sr)
    <3>1. amem' = amem BY <2>3, AmemStep
    <3> QED BY <3>1
  <2> QED BY <2>2, <2>3
<1>9. o.later \subseteq y OBVIOUS
<1>10. /\ z.we = o.we /\ z.line = o.line /\ z.at = o.at /\ z.later = y
       /\ z.loose = (~ o.we /\ (o.loose \/ go))
  OBVIOUS
<1>11. \A x : <<x>> # None /\ <<x>>[1] = x BY DEF None
<1> HIDE DEF y, z, o
<1>12. open'[t] # None /\ open'[t][1] = z BY <1>7, <1>11
<1> HIDE DEF Busy
<1> QED BY <1>4, <1>6, <1>8, <1>9, <1>10, <1>12 DEF o, Since, Since2

(* Opens: what an offered request asks for.                                *)
LEMMA Opens ==
  ASSUME TypeOK, NEW sr, NEW e, NEW go, InOk(sr, e, go), NEW t \in Tags, Tagged(sr, t)
  PROVE  /\ sr # None /\ k = None /\ open'[t] # None /\ running
         /\ open'[t][1].we = sr[1].we /\ open'[t][1].line = sr[1].line /\ ~ sr[1].pf /\ sr[1].tag = t
         /\ ~ sr[1].we => open'[t][1].at = amem[sr[1].line] /\ sr[1].line \in Lines /\ amem' = amem
<1> DEFINE z == [we |-> sr[1].we, line |-> sr[1].line, loose |-> FALSE,
                 at |-> IF sr[1].we THEN Filled(0) ELSE amem[sr[1].line], later |-> {}]
<1>1. open'[t] = <<z>> BY OpenStep
<1>2. sr # None /\ sr[1].tag = t BY DEF Tagged
<1>3. k = None /\ running /\ Maybe(sr, {r \in Req : ~ r.pf}) BY <1>2, OfferFacts DEF InOk
<1>4. sr[1] \in Req /\ ~ sr[1].pf BY <1>2, <1>3 DEF Maybe
<1>5. sr[1].line \in Lines BY <1>4 DEF Req
<1>6. ~ sr[1].we => amem' = amem
  <2>1. ~ Comes(sr) => amem' = amem BY AmemStep
  <2> QED BY <2>1 DEF Comes
<1>7. open'[t] # None BY <1>1 DEF None
<1>8. open'[t][1] = z BY <1>1
<1> QED BY <1>2, <1>3, <1>4, <1>5, <1>6, <1>7, <1>8

(* MissWas: a miss register that is taken was so before, or is taken now.  *)
LEMMA MissWas ==
  ASSUME TypeOK, Reads, NEW sr, NEW e, NEW go, InOk(sr, e, go), NEW m \in Mshrs, q'[m] # None
  PROVE  \/ /\ Takes(m) /\ q[m] = None /\ q'[m][1].line = r_line /\ q'[m][1].data = None
            /\ ~ q'[m][1].done /\ ~ q'[m][1].stale /\ rd[m] = None /\ ~ Asks(m)
         \/ /\ ~ Takes(m) /\ q[m] # None /\ q'[m][1].line = q[m][1].line /\ q'[m][1].data = LineNow(e, m)
            /\ q'[m][1].done = (q[m][1].done \/ FillNow(m)) /\ q'[m][1].stale = (q[m][1].stale \/ go)
<1>1. CASE Takes(m)
  <2>1. /\ q[m] = None
        /\ q'[m] = <<[line |-> r_line, data |-> None, done |-> FALSE, stale |-> FALSE,
                      wait |-> IF i[1].pf THEN {} ELSE {i[1].tag}]>>
    BY <1>1, MissStep
  <2>2. rd[m] = None /\ ~ Asks(m) BY <2>1 DEF Reads, Empty
  <2> QED BY <1>1, <2>1, <2>2
<1>2. CASE ~ Takes(m)
  <2>1. /\ q[m] # None
        /\ q'[m] = <<[line |-> q[m][1].line, data |-> LineNow(e, m), done |-> q[m][1].done \/ FillNow(m),
                      stale |-> q[m][1].stale \/ go, wait |-> Wait(m)]>>
    BY <1>2, MissStep
  <2> DEFINE x2 == q[m][1].done \/ FillNow(m)
             x3 == q[m][1].stale \/ go
  <2> HIDE DEF x2, x3
  <2>2. q'[m] = <<[line |-> q[m][1].line, data |-> LineNow(e, m), done |-> x2, stale |-> x3, wait |-> Wait(m)]>>
    BY <2>1 DEF x2, x3
  <2>3. /\ q'[m][1].line = q[m][1].line /\ q'[m][1].data = LineNow(e, m)
        /\ q'[m][1].done = x2 /\ q'[m][1].stale = x3
    BY <2>2
  <2> QED BY <1>2, <2>1, <2>3 DEF x2, x3
<1> QED BY <1>1, <1>2

(* QuietLine: no write goes to a line that is being fetched.               *)
LEMMA QuietLine ==
  ASSUME Busy, TypeOK', Misses, NEW sr, NEW e, NEW go, InOk(sr, e, go), NEW m \in Mshrs, NEW l,
         (Valid(m) /\ l = q[m][1].line) \/ (Takes(m) /\ l = r_line)
  PROVE  /\ l \in Lines
         /\ \A x \in 1 .. Len(InFlight) : InFlight[x].line # l
         /\ \A n \in 0 .. Len(InFlight) : After(l, n) = Due(l)
         /\ mem[l] = Due(l) /\ Due2(l) = Due(l)
         /\ \A x \in 1 .. Len(InFlight') : InFlight'[x].line # l
<1> USE DEF Busy
<1>1. l \in Lines
  <2>1. CASE Valid(m) /\ l = q[m][1].line BY <2>1 DEF Valid, TypeOK, MissOk
  <2>2. CASE Takes(m) /\ l = r_line
    <3>1. i # None /\ i[1] \in Req BY <2>2, Kinds DEF Takes
    <3> QED BY <2>2, <3>1 DEF r_line, Req
  <2> QED BY <2>1, <2>2
<1>2. ~ (Sent /\ r_line = l)
  <2>1. CASE Valid(m) /\ l = q[m][1].line
    <3>1. Sent => q_match = {} BY Kinds DEF q_any
    <3>2. r_line = l => m \in q_match BY <2>1 DEF q_match, Valid
    <3> QED BY <3>1, <3>2
  <2>2. CASE Takes(m) BY <2>2, Kinds DEF Takes
  <2> QED BY <2>1, <2>2
<1>3. \A x \in 1 .. Len(InFlight) : InFlight[x].line # l
  <2>1. CASE Valid(m) /\ l = q[m][1].line BY <2>1 DEF Misses
  <2>2. CASE Takes(m) /\ l = r_line
    <3>1. \A t \in Tags : w[t] # <<l>> BY <2>2, Kinds DEF Takes, w_any
    <3>2. \A x \in 1 .. Len(InFlight) : wq[x] \in Tags /\ w[wq[x]] = <<InFlight[x].line>>
      <4>1. Len(wq) = Len(InFlight) /\ \A x \in 1 .. Len(wq) : w[wq[x]] = <<InFlight[x].line>> BY DEF Writes
      <4>2. \A x \in 1 .. Len(wq) : wq[x] \in Tags BY DEF TypeOK
      <4> QED BY <4>1, <4>2
    <3> QED BY <3>1, <3>2
  <2> QED BY <2>1, <2>2
<1>4. \A n \in 0 .. Len(InFlight) : After(l, n) = mem[l] BY <1>1, <1>3, AfterFacts
<1>5. Len(InFlight) \in 0 .. Len(InFlight) BY FlightIs
<1>6. Due(l) = mem[l] BY <1>4, <1>5 DEF Due
<1>7. Due2(l) = Due(l) BY <1>1, <1>2, DueStep
<1>8. \A x \in 1 .. Len(InFlight') : InFlight'[x].line # l
  <2> DEFINE F == InFlight'
             g == Gone(e)
  <2>1. /\ Len(F) = Len(InFlight) - g + One(Sent) /\ Len(InFlight) \in Nat
        /\ BFire(e) => Len(InFlight) >= 1
        /\ \A x \in 1 .. Len(InFlight) - g : F[x].line = InFlight[x + g].line
        /\ Sent => F[Len(F)].line = r_line
    <3>1. /\ Len(F) = Len(InFlight) - g + One(Sent)
          /\ BFire(e) => Len(InFlight) >= 1
          /\ \A x \in 1 .. Len(InFlight) - g : Same(F[x], InFlight[x + g])
          /\ Sent => Same(F[Len(F)], [line |-> r_line, data |-> i[1].data, be |-> i[1].be])
      BY FlightStep
    <3> QED BY <3>1, FlightIs DEF Same
  <2>2. g \in {0, 1} /\ (g = 1 => BFire(e)) BY DEF Gone
  <2> SUFFICES ASSUME NEW x \in 1 .. Len(F) PROVE F[x].line # l OBVIOUS
  <2> HIDE DEF F, g, Busy
  <2>3. CASE x \in 1 .. Len(InFlight) - g
    <3>1. x + g \in 1 .. Len(InFlight) BY <2>1, <2>2, <2>3
    <3> QED BY <1>3, <2>1, <2>3, <3>1
  <2>4. CASE ~ (x \in 1 .. Len(InFlight) - g)
    <3>1. Sent /\ x = Len(F) BY <2>1, <2>2, <2>4 DEF One
    <3> QED BY <1>2, <2>1, <3>1
  <2> QED BY <2>3, <2>4
<1> QED BY <1>1, <1>3, <1>4, <1>6, <1>7, <1>8

(* WaitWas: who waits for a line waited for it before, or is its request.  *)
LEMMA WaitWas ==
  ASSUME Busy, Asked, NEW sr, NEW e, NEW go, InOk(sr, e, go), NEW m \in Mshrs, NEW t \in Tags, OnQ(m, t)'
  PROVE  /\ Unanswered(t) /\ q'[m] # None /\ ~ open[t][1].we /\ open[t][1].line = q'[m][1].line
         /\ \/ OnQ(m, t) /\ ~ Takes(m) /\ q[m] # None
            \/ Held(i, t) /\ Grant /\ ~ i[1].we /\ ~ Takes(m) /\ Valid(m) /\ q'[m][1].line = r_line
            \/ Held(i, t) /\ Grant /\ ~ i[1].we /\ Takes(m) /\ q'[m][1].line = r_line
<1> USE DEF Busy
<1>1. \/ OnQ(m, t) /\ ~ Drained(t)
      \/ Held(i, t) /\ Joined(m)
      \/ Held(i, t) /\ Takes(m)
  BY WaitStep
<1>2. q'[m] # None BY DEF OnQ
<1>3. Takes(m) => q[m] = None BY MissStep
<1>4. \/ Takes(m) /\ q'[m][1].line = r_line
      \/ ~ Takes(m) /\ q[m] # None /\ q'[m][1].line = q[m][1].line
  BY <1>2, MissWas
<1>5. CASE OnQ(m, t) /\ ~ Drained(t)
  <2>1. q[m] # None /\ ~ Takes(m) BY <1>3, <1>5 DEF OnQ
  <2>2. ~ open[t][1].we /\ open[t][1].line = q[m][1].line BY <1>5 DEF Asked
  <2> QED BY <1>2, <1>4, <1>5, <2>1, <2>2 DEF Unanswered
<1>6. CASE Held(i, t) /\ Joined(m)
  <2>1. q[m] # None /\ ~ q[m][1].stale /\ q[m][1].line = r_line BY <1>6, WaitStep
  <2>2. Grant /\ ~ i[1].we /\ ~ NewMiss BY <1>6, Kinds DEF Joined
  <2>3. open[t][1].we = i[1].we /\ open[t][1].line = r_line BY <1>6 DEF Asked, r_line
  <2> QED BY <1>2, <1>4, <1>6, <2>1, <2>2, <2>3 DEF Unanswered, In, Valid, Takes
<1>7. CASE Held(i, t) /\ Takes(m)
  <2>1. Grant /\ ~ i[1].we BY <1>7, Kinds DEF Takes
  <2>2. open[t][1].we = i[1].we /\ open[t][1].line = r_line BY <1>7 DEF Asked, r_line
  <2> QED BY <1>2, <1>4, <1>7, <2>1, <2>2 DEF Unanswered, In
<1> QED BY <1>1, <1>5, <1>6, <1>7

(* HeldIs: where the requests held came from.                              *)
LEMMA HeldIs ==
  ASSUME Busy, NEW sr, NEW e, NEW go, InOk(sr, e, go), NEW t \in Tags
  PROVE  /\ Held(i, t)' => \/ ~ (i = None \/ Grant) /\ i' = i /\ Held(i, t)
                           \/ (i = None \/ Grant) /\ i' = k /\ Held(k, t)
                           \/ (i = None \/ Grant) /\ i' = sr /\ Tagged(sr, t) /\ k = None
         /\ Held(k, t)' => /\ ~ (i = None \/ Grant) /\ i' = i
                           /\ \/ sr = None /\ k' = k /\ Held(k, t)
                              \/ k = None /\ k' = sr /\ Tagged(sr, t)
<1> USE DEF Busy
<1>1. Held(sr, t) => Tagged(sr, t) BY DEF Held, Tagged
<1>2. \A r : r = None => ~ Held(r, t) BY DEF Held
<1>3. PfReq.pf => ~ Held(<<PfReq>>, t) BY DEF Held, None
<1>4. Held(i, t)' = Held(i', t) /\ Held(k, t)' = Held(k', t) BY DEF Held
<1>5. \/ ~ (i = None \/ Grant) /\ i' = i /\ k' = (IF sr = None THEN k ELSE sr)
      \/ (i = None \/ Grant) /\ k # None /\ sr = None /\ i' = k /\ k' = None
      \/ (i = None \/ Grant) /\ k = None /\ i' = sr /\ k' = None
      \/ (i = None \/ Grant) /\ k = None /\ sr = None /\ k' = None /\ i' = <<PfReq>> /\ PfReq.pf
  BY InputStep
<1>6. sr # None => k = None BY OfferFacts DEF InOk
<1> HIDE DEF Busy
<1>7. CASE ~ (i = None \/ Grant) /\ i' = i /\ k' = (IF sr = None THEN k ELSE sr)
  <2>1. CASE sr = None BY <1>1, <1>4, <1>7, <2>1
  <2>2. CASE sr # None BY <1>1, <1>4, <1>6, <1>7, <2>2
  <2> QED BY <2>1, <2>2
<1>8. CASE (i = None \/ Grant) /\ k # None /\ sr = None /\ i' = k /\ k' = None BY <1>2, <1>4, <1>8
<1>9. CASE (i = None \/ Grant) /\ k = None /\ i' = sr /\ k' = None BY <1>1, <1>2, <1>4, <1>9
<1>10. CASE (i = None \/ Grant) /\ k = None /\ sr = None /\ k' = None /\ i' = <<PfReq>> /\ PfReq.pf
  BY <1>2, <1>3, <1>4, <1>10
<1> QED BY <1>5, <1>7, <1>8, <1>9, <1>10

(* AskedStep: every place knows what the request in it asked for.          *)
LEMMA AskedStep ==
  ASSUME Busy, Asked, NEW sr, NEW e, NEW go, InOk(sr, e, go)
  PROVE  Asked'
<1> USE DEF Busy
<1> SUFFICES ASSUME NEW t \in Tags
             PROVE  /\ Held(i, t)' => open'[t][1].we = i'[1].we /\ open'[t][1].line = i'[1].line
                    /\ Held(k, t)' => open'[t][1].we = k'[1].we /\ open'[t][1].line = k'[1].line
                    /\ w'[t] # None \/ t \in wack' => open'[t][1].we
                    /\ OnB(t)' => ~ open'[t][1].we
                    /\ \A m \in Mshrs : OnQ(m, t)' => ~ open'[t][1].we /\ open'[t][1].line = q'[m][1].line
  BY DEF Asked
<1> DEFINE O == open[t][1]
           P == open'[t][1]
<1>1. Unanswered(t) => P.we = O.we /\ P.line = O.line BY Stays
<1>2. Tagged(sr, t) => P.we = sr[1].we /\ P.line = sr[1].line BY Opens
<1>3. /\ Held(i, t) => O.we = i[1].we /\ O.line = i[1].line
      /\ Held(k, t) => O.we = k[1].we /\ O.line = k[1].line
      /\ w[t] # None \/ t \in wack => O.we
  BY DEF Asked
<1>4. Held(i, t)' => \/ i' = i /\ Held(i, t)
                     \/ i' = k /\ Held(k, t)
                     \/ i' = sr /\ Tagged(sr, t)
  BY HeldIs
<1>5. Held(k, t)' => (k' = k /\ Held(k, t)) \/ (k' = sr /\ Tagged(sr, t)) BY HeldIs
<1> HIDE DEF O, P
<1>6. Held(i, t)' => P.we = i'[1].we /\ P.line = i'[1].line BY <1>1, <1>2, <1>3, <1>4 DEF Unanswered, In
<1>7. Held(k, t)' => P.we = k'[1].we /\ P.line = k'[1].line BY <1>1, <1>2, <1>3, <1>5 DEF Unanswered, In
<1>8. w'[t] # None \/ t \in wack' => P.we
  <2>1. /\ w'[t] # None <=> (Held(i, t) /\ Sent) \/ (w[t] # None /\ ~ (BFire(e) /\ Head(wq) = t))
        /\ t \in wack' <=> (t \in wack /\ ~ Owed(t)) \/ (BFire(e) /\ Head(wq) = t)
    BY PlaceStep
  <2>2. BFire(e) /\ Head(wq) = t => w[t] # None
    <3>1. BFire(e) => Len(wq) >= 1 /\ Head(wq) = wq[1] /\ Len(wq) \in Nat BY WqStep
    <3>2. BFire(e) => 1 \in 1 .. Len(wq) BY <3>1
    <3> QED BY <3>1, <3>2 DEF Writes
  <2>3. Sent => i[1].we BY Kinds
  <2> QED BY <1>1, <1>3, <2>1, <2>2, <2>3 DEF Unanswered, In
<1>9. OnB(t)' => ~ P.we
  <2>1. OnB(t)' <=> Held(i, t) /\ rd_hit BY PlaceStep
  <2>2. rd_hit => ~ i[1].we BY Kinds
  <2> QED BY <1>1, <1>3, <2>1, <2>2 DEF Unanswered, In
<1>10. \A m \in Mshrs : OnQ(m, t)' => ~ P.we /\ P.line = q'[m][1].line
  <2>1. \A m \in Mshrs : OnQ(m, t)' => Unanswered(t) /\ ~ O.we /\ O.line = q'[m][1].line BY WaitWas DEF O
  <2> QED BY <1>1, <2>1
<1> QED BY <1>6, <1>7, <1>8, <1>9, <1>10 DEF P

(* FreshOpen: an open read may return what its line is now.                *)
LEMMA FreshOpen ==
  ASSUME Busy, Fresh, NEW sr, NEW e, NEW go, InOk(sr, e, go), NEW t \in Tags, open'[t] # None
  PROVE  open'[t][1].we \/ amem'[open'[t][1].line] \in Since2(t)
<1> USE DEF Busy
<1>1. CASE Tagged(sr, t)
  <2>1. /\ open'[t][1].we = sr[1].we /\ open'[t][1].line = sr[1].line
        /\ ~ sr[1].we => open'[t][1].at = amem[sr[1].line] /\ amem' = amem
    BY <1>1, Opens
  <2> QED BY <2>1 DEF Since2
<1>2. CASE ~ Tagged(sr, t)
  <2>1. open[t] # None /\ ~ Tagged(Answer, t) BY <1>2, OpenStep
  <2>2. ~ OnB(t) /\ ~ Drained(t) /\ ~ Owed(t) BY <2>1, AnswerStep
  <2>3. Unanswered(t) BY <2>1, <2>2 DEF InPlaces, InPlace, Unanswered, In, NoQ
  <2>4. /\ open'[t][1].we = open[t][1].we /\ open'[t][1].line = open[t][1].line
        /\ Since(t) \subseteq Since2(t)
        /\ ~ open[t][1].we => amem'[open[t][1].line] = amem[open[t][1].line]
                              \/ amem'[open[t][1].line] \in Since2(t)
    BY <2>3, Stays
  <2>5. open[t][1].we \/ amem[open[t][1].line] \in Since(t) BY <2>1 DEF Fresh
  <2> HIDE DEF Busy
  <2> QED BY <2>4, <2>5
<1> QED BY <1>1, <1>2

(* FreshHeld: a read that is held is to return what its line will be when  *)
(* its turn comes.                                                         *)
LEMMA FreshHeld ==
  ASSUME Busy, TypeOK', Taken, Asked, Fresh, NEW sr, NEW e, NEW go, InOk(sr, e, go), NEW t \in Tags
  PROVE  /\ Held(i, t)' => i'[1].we \/ open'[t][1].at = Due2(i'[1].line)
         /\ Held(k, t)' => k'[1].we \/ open'[t][1].at = Put(i', k'[1].line, Due2(k'[1].line))
<1> USE DEF Busy
<1> DEFINE O == open[t][1]
           P == open'[t][1]
<1>1. Unanswered(t) => P.at = O.at BY Stays
<1>2. Tagged(sr, t) => k = None /\ (~ sr[1].we => P.at = amem[sr[1].line] /\ sr[1].line \in Lines)
  BY Opens
<1>3. /\ Held(i, t) => i[1].we \/ O.at = Due(i[1].line)
      /\ Held(k, t) => k[1].we \/ O.at = Put(i, k[1].line, Due(k[1].line))
  BY DEF Fresh
<1>4. Held(i, t)' => \/ ~ (i = None \/ Grant) /\ i' = i /\ Held(i, t)
                     \/ (i = None \/ Grant) /\ i' = k /\ Held(k, t)
                     \/ (i = None \/ Grant) /\ i' = sr /\ Tagged(sr, t)
  BY HeldIs
<1>5. Held(k, t)' => /\ ~ (i = None \/ Grant) /\ i' = i
                     /\ (k' = k /\ Held(k, t)) \/ (k' = sr /\ Tagged(sr, t))
  BY HeldIs
<1>6. \A l \in Lines : /\ i = None \/ Grant => Due2(l) = Put(i, l, Due(l))
                       /\ ~ (i = None \/ Grant) => Due2(l) = Due(l)
  BY DueStep
<1>7. \A l \in Lines : k = None => amem[l] = Put(i, l, Due(l)) BY DEF Taken, Put
<1>8. (Held(i, t) => i[1].line \in Lines) /\ (Held(k, t) => k[1].line \in Lines)
  BY DEF Held, TypeOK, Maybe, Req
<1>9. Unanswered(t) <=> Unanswered(t) \/ Held(i, t) \/ Held(k, t) BY DEF Unanswered, In
<1> HIDE DEF O, P, Busy
<1>10. Held(i, t)' => i'[1].we \/ P.at = Due2(i'[1].line)
  BY <1>1, <1>2, <1>3, <1>4, <1>6, <1>7, <1>8, <1>9
<1>11. Held(k, t)' => k'[1].we \/ P.at = Put(i', k'[1].line, Due2(k'[1].line))
  BY <1>1, <1>2, <1>3, <1>5, <1>6, <1>7, <1>8, <1>9
<1> QED BY <1>10, <1>11 DEF P

(* FreshHit: a hit returns the line as it was when the read was accepted.  *)
LEMMA FreshHit ==
  ASSUME Busy, Asked, Fresh, Copies, NEW sr, NEW e, NEW go, InOk(sr, e, go), NEW t \in Tags, OnB(t)'
  PROVE  /\ b' # None /\ b'[1].tag = t /\ open'[t] # None /\ b'[1].data = open'[t][1].at
<1> USE DEF Busy
<1>1. Held(i, t) /\ rd_hit BY PlaceStep
<1>2. i # None /\ hit /\ ~ i[1].we /\ i[1].tag = t BY <1>1, Kinds DEF rd_hit, Held
<1>3. b' = <<[tag |-> i[1].tag, data |-> r_way[hit_way][1].data]>>
  BY <1>1 DEF InOk, Step, CacheClock, Responses
<1>4. /\ r_line \in Lines /\ SetOf(r_line) \in SetNos /\ hit_way \in Ways
      /\ way[SetOf(r_line)][hit_way] # None /\ way[SetOf(r_line)][hit_way][1].line = r_line
      /\ r_way = way[SetOf(r_line)]
  BY <1>2, HitFacts
<1>5. Unanswered(t) BY <1>1 DEF Unanswered, In
<1>6. open[t] # None /\ open'[t] # None /\ open'[t][1].at = open[t][1].at BY <1>5, Stays
<1>7. running BY <1>6 DEF OnlyRunning
<1>8. r_way[hit_way][1].data = Due(r_line) BY <1>4, <1>7 DEF Copies
<1>9. open[t][1].at = Due(r_line) BY <1>1, <1>2 DEF Fresh, r_line
<1>10. b'[1].tag = t /\ b'[1].data = Due(r_line) BY <1>2, <1>3, <1>8
<1>11. b' # None BY <1>3 DEF None
<1> QED BY <1>6, <1>9, <1>10, <1>11

(* SinceStep: what a waiter's line is now stays among what it may return.  *)
LEMMA SinceStep ==
  ASSUME Busy, TypeOK', Taken, Fresh, NEW sr, NEW e, NEW go, InOk(sr, e, go), NEW t \in Tags,
         Unanswered(t), ~ open[t][1].we, NEW l \in Lines, l = open[t][1].line,
         Put(i, l, Due(l)) \in Since(t)
  PROVE  Put(i', l, Due2(l)) \in Since2(t)
<1> USE DEF Busy
<1>1. Put(i', l, Due2(l)) \in {Put(i, l, Due(l)), amem[l], amem'[l]} BY PutStep
<1>2. open[t] # None /\ Since(t) \subseteq Since2(t) /\ (amem'[l] = amem[l] \/ amem'[l] \in Since2(t)) BY Stays
<1>3. amem[l] \in Since(t) BY <1>2 DEF Fresh
<1> HIDE DEF Busy
<1> QED BY <1>1, <1>2, <1>3

(* WaitFresh: a waiter is loose, or its line is as when it was accepted.   *)
LEMMA WaitFresh ==
  ASSUME Busy, TypeOK', Taken, Asked, Fresh, Misses, NEW sr, NEW e, NEW go, InOk(sr, e, go),
         NEW m \in Mshrs, NEW t \in Tags, OnQ(m, t)', NEW l, l = q'[m][1].line
  PROVE  /\ l \in Lines /\ open[t] # None /\ Put(i, l, Due(l)) \in Since(t)
         /\ Unanswered(t) /\ ~ open[t][1].we /\ l = open[t][1].line
         /\ Valid(m) \/ Takes(m) => open[t][1].at = Due(l)
         /\ ~ (Valid(m) \/ Takes(m)) => OnQ(m, t) /\ q[m] # None /\ q[m][1].stale /\ open[t][1].loose
<1> USE DEF Busy
<1>1. /\ Unanswered(t) /\ q'[m] # None /\ ~ open[t][1].we /\ open[t][1].line = l
      /\ \/ OnQ(m, t) /\ ~ Takes(m) /\ q[m] # None
         \/ Held(i, t) /\ Grant /\ ~ i[1].we /\ ~ Takes(m) /\ Valid(m) /\ l = r_line
         \/ Held(i, t) /\ Grant /\ ~ i[1].we /\ Takes(m) /\ l = r_line
  BY WaitWas
<1>2. open[t] # None BY <1>1, Stays
<1>3. l \in Lines BY <1>1, <1>2 DEF TypeOK, Table, Maybe
<1>4. CASE OnQ(m, t) /\ ~ Takes(m) /\ q[m] # None
  <2>1. q[m][1].line = l BY <1>1, <1>4 DEF Asked
  <2>2. /\ Put(i, l, Due(l)) \in Since(t)
        /\ IF q[m][1].stale THEN open[t][1].loose ELSE open[t][1].at = Due(l)
    BY <1>4, <2>1 DEF Fresh
  <2> QED BY <1>1, <1>2, <1>3, <1>4, <2>2 DEF Valid
<1>5. CASE Held(i, t) /\ ~ i[1].we /\ l = r_line /\ (Valid(m) \/ Takes(m))
  <2>1. open[t][1].at = Due(l) BY <1>5 DEF Fresh, r_line
  <2>2. Put(i, l, Due(l)) = Due(l) BY <1>5 DEF Put
  <2> QED BY <1>1, <1>2, <1>3, <1>5, <2>1, <2>2 DEF Since
<1> QED BY <1>1, <1>4, <1>5

(* LineFrom: a line under way, or in its miss register, was read when its  *)
(* address was taken.                                                      *)
LEMMA LineFrom ==
  ASSUME TypeOK, Reads, NEW sr, NEW e, NEW go, InOk(sr, e, go), NEW m \in Mshrs
  PROVE  /\ rd'[m] # None => \/ Asks(m) /\ rd'[m][1].data = mem[q[m][1].line]
                             \/ rd[m] # None /\ rd'[m][1].data = rd[m][1].data
         /\ LineNow(e, m) # None => \/ rd[m] # None /\ LineNow(e, m)[1] = rd[m][1].data
                                    \/ q[m][1].data # None /\ LineNow(e, m) = q[m][1].data
<1>1. \/ Asks(m) /\ rd'[m] = <<[data |-> mem[q[m][1].line], beat |-> 1]>>
      \/ rd'[m] = None
      \/ rd[m] # None /\ rd'[m] = <<[data |-> rd[m][1].data, beat |-> rd[m][1].beat + 1]>>
      \/ rd'[m] = rd[m]
  BY RdStep
<1>2. rd'[m] # None => \/ Asks(m) /\ rd'[m][1].data = mem[q[m][1].line]
                       \/ rd[m] # None /\ rd'[m][1].data = rd[m][1].data
  BY <1>1
<1>3. Arrives(Response(e), m) => rd[m] # None BY AnswerFacts DEF InOk
<1> QED BY <1>2, <1>3 DEF LineNow

(* FreshWait: a waiter for a line fetched since the last GO gets the line  *)
(* as it was when the read was accepted; a waiter for a stale one is loose *)
(* and gets what the line has been since.                                  *)
LEMMA FreshWait ==
  ASSUME Busy, TypeOK', Taken, Asked, Fresh, Misses, NEW sr, NEW e, NEW go, InOk(sr, e, go),
         NEW m \in Mshrs, NEW t \in Tags, OnQ(m, t)', NEW l, l = q'[m][1].line
  PROVE  /\ Put(i', l, Due2(l)) \in Since2(t)
         /\ IF q'[m][1].stale THEN open'[t][1].loose ELSE open'[t][1].at = Due2(l)
         /\ q'[m][1].stale =>
              /\ Asks(m)' => \A n \in 0 .. Len(InFlight') : After2(l, n) \in Since2(t)
              /\ rd'[m] # None => rd'[m][1].data \in Since2(t)
              /\ q'[m][1].data # None => q'[m][1].data[1] \in Since2(t)
<1> USE DEF Busy
<1> DEFINE O == open[t][1]
           P == open'[t][1]
           g == Gone(e)
<1>1. /\ l \in Lines /\ open[t] # None /\ Put(i, l, Due(l)) \in Since(t)
      /\ Unanswered(t) /\ ~ O.we /\ l = O.line
      /\ Valid(m) \/ Takes(m) => O.at = Due(l)
      /\ ~ (Valid(m) \/ Takes(m)) => OnQ(m, t) /\ q[m] # None /\ q[m][1].stale /\ O.loose
  BY WaitFresh
<1>2. Put(i', l, Due2(l)) \in Since2(t) BY <1>1, SinceStep
<1>3. P.at = O.at /\ P.loose = (~ O.we /\ (O.loose \/ go)) /\ Since(t) \subseteq Since2(t) BY <1>1, Stays
<1>4. q'[m] # None BY DEF OnQ
<1>5. \/ /\ Takes(m) /\ q[m] = None /\ l = r_line /\ ~ q'[m][1].stale
      \/ /\ ~ Takes(m) /\ q[m] # None /\ l = q[m][1].line /\ q'[m][1].data = LineNow(e, m)
         /\ q'[m][1].stale = (q[m][1].stale \/ go)
  BY <1>4, MissWas
<1>6. running BY <1>1 DEF OnlyRunning
<1>7. Asks(m)' => Takes(m) \/ Asks(m) BY AsksStep
<1>8. /\ rd'[m] # None => \/ Asks(m) /\ rd'[m][1].data = mem[q[m][1].line]
                          \/ rd[m] # None /\ rd'[m][1].data = rd[m][1].data
      /\ LineNow(e, m) # None => \/ rd[m] # None /\ LineNow(e, m)[1] = rd[m][1].data
                                 \/ q[m][1].data # None /\ LineNow(e, m) = q[m][1].data
  BY LineFrom
<1>9. \A n \in 0 .. Len(InFlight') : \/ n + g \in 0 .. Len(InFlight) /\ After2(l, n) = After(l, n + g)
                                     \/ After2(l, n) = Due2(l) /\ Sent
  <2> DEFINE N == Len(InFlight')
  <2>1. N = Len(InFlight) - g + One(Sent) /\ Len(InFlight) \in Nat BY <1>1, DueStep, FlightIs
  <2>2. BFire(e) => Len(InFlight) >= 1 BY FlightStep
  <2>3. g \in {0, 1} /\ (g = 1 => BFire(e)) BY DEF Gone
  <2>4. \A n \in 0 .. Len(InFlight) - g : After2(l, n) = After(l, n + g) BY <1>1, AfterStep
  <2>5. Due2(l) = After2(l, N) BY DEF Due2
  <2> HIDE DEF N, g, Busy
  <2> SUFFICES ASSUME NEW n \in 0 .. N
               PROVE  \/ n + g \in 0 .. Len(InFlight) /\ After2(l, n) = After(l, n + g)
                      \/ After2(l, n) = Due2(l) /\ Sent
    BY DEF N
  <2>6. CASE n \in 0 .. Len(InFlight) - g
    <3>1. n + g \in 0 .. Len(InFlight) BY <2>1, <2>3, <2>6
    <3> QED BY <2>4, <2>6, <3>1
  <2>7. CASE ~ (n \in 0 .. Len(InFlight) - g)
    <3>1. n = N /\ Sent BY <2>1, <2>2, <2>3, <2>7 DEF One
    <3> QED BY <2>5, <3>1
  <2> QED BY <2>6, <2>7
<1>10. Sent => Due2(l) = Put(i, l, Due(l))
  <2>1. Sent => Grant BY Kinds
  <2> QED BY <1>1, <2>1, DueStep
<1>11. CASE Valid(m) \/ Takes(m)
  <2>1. /\ \A n \in 0 .. Len(InFlight) : After(l, n) = Due(l)
        /\ mem[l] = Due(l) /\ Due2(l) = Due(l)
    <3>1. (Valid(m) /\ l = q[m][1].line) \/ (Takes(m) /\ l = r_line) BY <1>5, <1>11
    <3> QED BY <3>1, QuietLine
  <2>2. O.at = Due(l) BY <1>1, <1>11
  <2>3. Due(l) \in Since2(t) BY <1>3, <2>2 DEF Since2
  <2>4. IF q'[m][1].stale THEN P.loose ELSE P.at = Due2(l)
    BY <1>1, <1>3, <1>5, <1>11, <2>1, <2>2 DEF Valid
  <2>5. \A n \in 0 .. Len(InFlight') : After2(l, n) \in Since2(t)
    <3> HIDE DEF Busy
    <3> QED BY <1>9, <2>1, <2>3
  <2>6. ASSUME q'[m][1].stale
        PROVE  /\ rd'[m] # None => rd'[m][1].data = Due(l)
               /\ q'[m][1].data # None => q'[m][1].data[1] = Due(l)
    <3>1. ~ Takes(m) /\ Valid(m) /\ l = q[m][1].line /\ q'[m][1].data = LineNow(e, m)
      BY <1>5, <1>11, <2>6
    <3>2. /\ rd[m] # None => rd[m][1].data = Due(l)
          /\ q[m][1].data # None => q[m][1].data[1] = Due(l)
      BY <1>6, <3>1 DEF Misses
    <3> HIDE DEF Busy
    <3> QED BY <1>8, <2>1, <3>1, <3>2
  <2> HIDE DEF Busy
  <2> QED BY <1>2, <2>3, <2>4, <2>5, <2>6
<1>12. CASE ~ (Valid(m) \/ Takes(m))
  <2>1. /\ ~ Takes(m) /\ OnQ(m, t) /\ q[m][1].stale /\ O.loose /\ l = q[m][1].line
        /\ q'[m][1].data = LineNow(e, m) /\ q'[m][1].stale
    BY <1>1, <1>5, <1>12
  <2>2. /\ Asks(m) => \A n \in 0 .. Len(InFlight) : After(l, n) \in Since(t)
        /\ rd[m] # None => rd[m][1].data \in Since(t)
        /\ q[m][1].data # None => q[m][1].data[1] \in Since(t)
    BY <2>1 DEF Fresh
  <2>3. After(l, 0) = mem[l] /\ 0 \in 0 .. Len(InFlight) BY <1>1, AfterFacts, FlightIs
  <2>4. P.loose BY <1>1, <1>3, <2>1
  <2> HIDE DEF Busy
  <2>5. Asks(m)' => \A n \in 0 .. Len(InFlight') : After2(l, n) \in Since2(t)
    <3> SUFFICES ASSUME Asks(m)', NEW n \in 0 .. Len(InFlight') PROVE After2(l, n) \in Since2(t) OBVIOUS
    <3>1. Asks(m) BY <1>7, <2>1
    <3>2. CASE n + g \in 0 .. Len(InFlight) /\ After2(l, n) = After(l, n + g)
      BY <1>3, <2>2, <3>1, <3>2
    <3>3. CASE After2(l, n) = Due2(l) /\ Sent BY <1>1, <1>3, <1>10, <3>3
    <3> QED BY <1>9, <3>2, <3>3
  <2>6. rd'[m] # None => rd'[m][1].data \in Since2(t) BY <1>3, <1>8, <2>1, <2>2, <2>3
  <2>7. q'[m][1].data # None => q'[m][1].data[1] \in Since2(t) BY <1>3, <1>8, <2>1, <2>2
  <2> QED BY <1>2, <2>1, <2>4, <2>5, <2>6, <2>7
<1> QED BY <1>11, <1>12

(* FreshStep: the parts together.                                          *)
LEMMA FreshStep ==
  ASSUME Busy, TypeOK', Taken, Asked, Fresh, Misses, Copies, NEW sr, NEW e, NEW go, InOk(sr, e, go)
  PROVE  Fresh'
<1> SUFFICES ASSUME NEW t \in Tags
             PROVE  /\ open'[t] # None => open'[t][1].we \/ amem'[open'[t][1].line] \in Since2(t)
                    /\ Held(i, t)' => i'[1].we \/ open'[t][1].at = Due2(i'[1].line)
                    /\ Held(k, t)' => k'[1].we \/ open'[t][1].at = Put(i', k'[1].line, Due2(k'[1].line))
                    /\ OnB(t)' => Permits(b)'
                    /\ \A m \in Mshrs : OnQ(m, t)' =>
                         LET l == q'[m][1].line IN
                         /\ Put(i', l, Due2(l)) \in Since2(t)
                         /\ IF q'[m][1].stale THEN open'[t][1].loose ELSE open'[t][1].at = Due2(l)
                         /\ q'[m][1].stale =>
                            /\ Asks(m)' => \A n \in 0 .. Len(InFlight') : After2(l, n) \in Since2(t)
                            /\ rd'[m] # None => rd'[m][1].data \in Since2(t)
                            /\ q'[m][1].data # None => q'[m][1].data[1] \in Since2(t)
  BY DEF Fresh, Since, Since2, Due, Due2, After, After2
<1>1. open'[t] # None => open'[t][1].we \/ amem'[open'[t][1].line] \in Since2(t) BY FreshOpen
<1>2. /\ Held(i, t)' => i'[1].we \/ open'[t][1].at = Due2(i'[1].line)
      /\ Held(k, t)' => k'[1].we \/ open'[t][1].at = Put(i', k'[1].line, Due2(k'[1].line))
  BY FreshHeld
<1>3. OnB(t)' => Permits(b)'
  <2>1. OnB(t)' => b' # None /\ b'[1].tag = t /\ open'[t] # None /\ b'[1].data = open'[t][1].at BY FreshHit
  <2> QED BY <2>1 DEF Permits
<1>4. ASSUME NEW m \in Mshrs, OnQ(m, t)', NEW l, l = q'[m][1].line
      PROVE  /\ Put(i', l, Due2(l)) \in Since2(t)
             /\ IF q'[m][1].stale THEN open'[t][1].loose ELSE open'[t][1].at = Due2(l)
             /\ q'[m][1].stale =>
                /\ Asks(m)' => \A n \in 0 .. Len(InFlight') : After2(l, n) \in Since2(t)
                /\ rd'[m] # None => rd'[m][1].data \in Since2(t)
                /\ q'[m][1].data # None => q'[m][1].data[1] \in Since2(t)
  BY <1>4, FreshWait
<1> QED BY <1>1, <1>2, <1>3, <1>4

(* Miss register m will be valid after this clock, and its line.           *)
Was(m) == Valid(m) \/ Takes(m)
LineOf(m) == IF Takes(m) THEN r_line ELSE q[m][1].line
(* ValidWas: a valid miss register was valid or is taken now.              *)
LEMMA ValidWas ==
  ASSUME TypeOK, Reads, NEW sr, NEW e, NEW go, InOk(sr, e, go), NEW m \in Mshrs, Valid(m)'
  PROVE  /\ Was(m) /\ q'[m] # None /\ q'[m][1].line = LineOf(m)
         /\ Takes(m) => q[m] = None /\ q'[m][1].data = None /\ ~ q'[m][1].done /\ rd[m] = None /\ ~ Asks(m)
         /\ ~ Takes(m) => /\ Valid(m) /\ ~ go /\ q'[m][1].data = LineNow(e, m)
                          /\ q'[m][1].done = (q[m][1].done \/ FillNow(m))
<1>1. q'[m] # None /\ ~ q'[m][1].stale BY DEF Valid
<1>2. \/ /\ Takes(m) /\ q[m] = None /\ q'[m][1].line = r_line /\ q'[m][1].data = None
         /\ ~ q'[m][1].done /\ rd[m] = None /\ ~ Asks(m)
      \/ /\ ~ Takes(m) /\ q[m] # None /\ q'[m][1].line = q[m][1].line /\ q'[m][1].data = LineNow(e, m)
         /\ q'[m][1].done = (q[m][1].done \/ FillNow(m)) /\ q'[m][1].stale = (q[m][1].stale \/ go)
  BY <1>1, MissWas
<1> QED BY <1>1, <1>2 DEF Was, Valid, LineOf

(* MissesStep: a line that is being fetched for readers who may keep it is *)
(* fetched once, is in no way, and has no write on its way to memory.      *)
LEMMA MissesStep ==
  ASSUME Busy, TypeOK', Misses, Copies, NEW sr, NEW e, NEW go, InOk(sr, e, go), go \/ running' = running
  PROVE  Misses'
<1> USE DEF Busy
<1>1. ASSUME NEW m \in Mshrs, Valid(m)', NEW l, l = q'[m][1].line
      PROVE  /\ l \in Lines /\ l = LineOf(m)
             /\ \A j \in 1 .. Len(InFlight') : InFlight'[j].line # l
             /\ running' => /\ rd'[m] # None => rd'[m][1].data = Due2(l)
                            /\ q'[m][1].data # None => q'[m][1].data[1] = Due2(l)
             /\ q'[m][1].done \/ \A y \in Ways : way'[SetOf(l)][y] # None => way'[SetOf(l)][y][1].line # l
  <2>1. /\ Was(m) /\ l = LineOf(m)
        /\ Takes(m) => q[m] = None /\ q'[m][1].data = None /\ ~ q'[m][1].done /\ rd[m] = None /\ ~ Asks(m)
        /\ ~ Takes(m) => /\ Valid(m) /\ ~ go /\ q'[m][1].data = LineNow(e, m)
                         /\ q'[m][1].done = (q[m][1].done \/ FillNow(m))
    BY <1>1, ValidWas
  <2>2. /\ l \in Lines /\ mem[l] = Due(l) /\ Due2(l) = Due(l)
        /\ \A x \in 1 .. Len(InFlight') : InFlight'[x].line # l
    <3>1. (Valid(m) /\ l = q[m][1].line) \/ (Takes(m) /\ l = r_line) BY <2>1 DEF LineOf
    <3> QED BY <3>1, QuietLine
  <2>3. /\ rd'[m] # None => \/ Asks(m) /\ rd'[m][1].data = mem[q[m][1].line]
                            \/ rd[m] # None /\ rd'[m][1].data = rd[m][1].data
        /\ LineNow(e, m) # None => \/ rd[m] # None /\ LineNow(e, m)[1] = rd[m][1].data
                                   \/ q[m][1].data # None /\ LineNow(e, m) = q[m][1].data
    BY LineFrom
  <2>4. running' => /\ rd'[m] # None => rd'[m][1].data = Due2(l)
                    /\ q'[m][1].data # None => q'[m][1].data[1] = Due2(l)
    <3>1. CASE Takes(m) BY <2>1, <2>3, <3>1
    <3>2. CASE ~ Takes(m)
      <4>1. Valid(m) /\ ~ go /\ l = q[m][1].line BY <2>1, <3>2 DEF LineOf
      <4>2. running => /\ rd[m] # None => rd[m][1].data = Due(l)
                       /\ q[m][1].data # None => q[m][1].data[1] = Due(l)
        BY <4>1 DEF Misses
      <4> HIDE DEF Busy
      <4> QED BY <2>1, <2>2, <2>3, <3>2, <4>1, <4>2
    <3> QED BY <3>1, <3>2
  <2>5. SetOf(l) \in SetNos BY <2>2, Basics
  <2>6. ASSUME ~ q'[m][1].done, NEW y \in Ways, way'[SetOf(l)][y] # None
        PROVE  way'[SetOf(l)][y][1].line # l
    <3> DEFINE s == SetOf(l)
    <3>1. \/ Hits(s, y) /\ way[s][y] # None /\ way[s][y][1].line = r_line
             /\ way'[s][y] = <<[line |-> r_line, data |-> Merge(way[s][y][1].data, i[1].data, i[1].be)]>>
          \/ Fills(s, y)
             /\ way'[s][y] = <<[line |-> q[fill_m][1].line, data |-> q[fill_m][1].data[1]]>>
          \/ way'[s][y] = way[s][y]
      <4>1. s \in SetNos /\ way'[s][y] # None BY <2>5, <2>6
      <4>2. \/ go /\ way'[s][y] = None
            \/ ~ go /\ Hits(s, y) /\ way[s][y] # None /\ way[s][y][1].line = r_line
               /\ way'[s][y] = <<[line |-> r_line, data |-> Merge(way[s][y][1].data, i[1].data, i[1].be)]>>
            \/ ~ go /\ Fills(s, y)
               /\ way'[s][y] = <<[line |-> q[fill_m][1].line, data |-> q[fill_m][1].data[1]]>>
            \/ ~ go /\ ~ Hits(s, y) /\ ~ Fills(s, y) /\ way'[s][y] = way[s][y]
        BY <4>1, WayStep
      <4> HIDE DEF s, Busy
      <4> QED BY <4>1, <4>2
    <3>2. way[s][y] # None => way[s][y][1].line # l
      <4>1. CASE Takes(m)
        <5>1. ~ hit /\ l = r_line BY <2>1, <4>1 DEF Takes, NewMiss, acc_miss, rd_miss, LineOf
        <5> QED BY <5>1 DEF hit, hit_w, r_way
      <4>2. CASE ~ Takes(m)
        <5>1. Valid(m) /\ l = q[m][1].line /\ ~ q[m][1].done BY <2>1, <2>6, <4>2 DEF LineOf
        <5> QED BY <5>1 DEF Misses
      <4> QED BY <4>1, <4>2
    <3>3. Fills(s, y) => q[fill_m][1].line # l
      <4> SUFFICES ASSUME Fills(s, y) PROVE q[fill_m][1].line # l OBVIOUS
      <4>1. fill_m \in Mshrs /\ q[fill_m] # None /\ ~ q[fill_m][1].stale /\ FillNow(fill_m) /\ ~ Grant
        BY FillFacts DEF Fills
      <4>2. ~ Takes(m) BY <4>1, Kinds DEF Takes
      <4>3. Valid(m) /\ l = q[m][1].line /\ ~ FillNow(m) BY <2>1, <2>6, <4>2 DEF LineOf
      <4>4. fill_m # m BY <4>1, <4>3
      <4> QED BY <4>1, <4>3, <4>4 DEF Misses, Valid
    <3> DEFINE S == way'[s][y]
    <3>4. CASE Hits(s, y) /\ way[s][y] # None /\ way[s][y][1].line = r_line
               /\ S = <<[line |-> r_line, data |-> Merge(way[s][y][1].data, i[1].data, i[1].be)]>>
      <4>1. S[1].line = r_line BY <3>4
      <4> QED BY <3>2, <3>4, <4>1
    <3>5. CASE Fills(s, y) /\ S = <<[line |-> q[fill_m][1].line, data |-> q[fill_m][1].data[1]]>>
      <4>1. S[1].line = q[fill_m][1].line BY <3>5
      <4> QED BY <3>3, <3>5, <4>1
    <3>6. CASE S = way[s][y] BY <2>6, <3>2, <3>6
    <3> QED BY <3>1, <3>4, <3>5, <3>6
  <2> HIDE DEF Busy
  <2> QED BY <2>1, <2>2, <2>4, <2>6
<1>2. ASSUME NEW m \in Mshrs, Valid(m)', NEW n \in Mshrs, Valid(n)', q'[n][1].line = q'[m][1].line
      PROVE  m = n
  <2>1. /\ q'[m][1].line = LineOf(m) /\ q'[n][1].line = LineOf(n)
        /\ Takes(m) \/ Valid(m)
        /\ Takes(n) \/ Valid(n)
        /\ ~ Takes(m) => Valid(m)
        /\ ~ Takes(n) => Valid(n)
    BY <1>2, ValidWas DEF Was
  <2>2. CASE Takes(m) /\ Takes(n) BY <2>2 DEF Takes
  <2>3. CASE Takes(m) /\ ~ Takes(n)
    <3>1. Valid(n) /\ q[n][1].line = r_line BY <1>2, <2>1, <2>3 DEF LineOf
    <3>2. ~ q_any BY <2>3 DEF Takes, NewMiss, acc_miss, rd_miss
    <3> QED BY <3>1, <3>2 DEF q_any, q_match, Valid
  <2>4. CASE ~ Takes(m) /\ Takes(n)
    <3>1. Valid(m) /\ q[m][1].line = r_line BY <1>2, <2>1, <2>4 DEF LineOf
    <3>2. ~ q_any BY <2>4 DEF Takes, NewMiss, acc_miss, rd_miss
    <3> QED BY <3>1, <3>2 DEF q_any, q_match, Valid
  <2>5. CASE ~ Takes(m) /\ ~ Takes(n)
    <3>1. Valid(m) /\ Valid(n) /\ q[n][1].line = q[m][1].line BY <1>2, <2>1, <2>5 DEF LineOf
    <3> QED BY <3>1 DEF Misses
  <2> QED BY <2>2, <2>3, <2>4, <2>5
<1> SUFFICES \A m \in Mshrs : Valid(m)' =>
               LET l == q'[m][1].line IN
               /\ \A j \in 1 .. Len(InFlight') : InFlight'[j].line # l
               /\ running' => /\ rd'[m] # None => rd'[m][1].data = Due2(l)
                              /\ q'[m][1].data # None => q'[m][1].data[1] = Due2(l)
               /\ q'[m][1].done \/ \A y \in Ways : way'[SetOf(l)][y] # None => way'[SetOf(l)][y][1].line # l
               /\ \A n \in Mshrs : Valid(n)' /\ q'[n][1].line = l => m = n
  BY DEF Misses, Due, Due2, After, After2, SetOf
<1> HIDE DEF Busy
<1> QED BY <1>1, <1>2

(* CopiesStep: cached lines follow the writes.                             *)
LEMMA CopiesStep ==
  ASSUME Busy, TypeOK', Misses, Copies, NEW sr, NEW e, NEW go, InOk(sr, e, go), go \/ running' = running
  PROVE  Copies'
<1> USE DEF Busy
<1> SUFFICES ASSUME NEW s \in SetNos, NEW y \in Ways, way'[s][y] # None
             PROVE  /\ SetOf(way'[s][y][1].line) = s
                    /\ running' => way'[s][y][1].data = Due2(way'[s][y][1].line)
                    /\ \A z \in Ways : way'[s][z] # None => (way'[s][z][1].line = way'[s][y][1].line => z = y)
  BY DEF Copies, Due, Due2, After, After2, SetOf
<1> DEFINE Old(z) == way[s][z]
           New(z) == way'[s][z]
<1>1. \A z \in Ways : New(z) # None =>
        /\ ~ go
        /\ \/ /\ Hits(s, z) /\ Old(z) # None /\ New(z)[1].line = Old(z)[1].line /\ Old(z)[1].line = r_line
              /\ New(z)[1].data = Merge(Old(z)[1].data, i[1].data, i[1].be)
           \/ /\ Fills(s, z) /\ New(z)[1].line = q[fill_m][1].line
              /\ New(z)[1].data = q[fill_m][1].data[1]
           \/ ~ Hits(s, z) /\ ~ Fills(s, z) /\ New(z) = Old(z)
  <2> SUFFICES ASSUME NEW z \in Ways, New(z) # None
               PROVE  /\ ~ go
                      /\ \/ /\ Hits(s, z) /\ Old(z) # None /\ New(z)[1].line = Old(z)[1].line /\ Old(z)[1].line = r_line
                            /\ New(z)[1].data = Merge(Old(z)[1].data, i[1].data, i[1].be)
                         \/ /\ Fills(s, z) /\ New(z)[1].line = q[fill_m][1].line
                            /\ New(z)[1].data = q[fill_m][1].data[1]
                         \/ ~ Hits(s, z) /\ ~ Fills(s, z) /\ New(z) = Old(z)
    OBVIOUS
  <2>1. \/ go /\ New(z) = None
        \/ ~ go /\ Hits(s, z) /\ Old(z) # None /\ Old(z)[1].line = r_line
           /\ New(z) = <<[line |-> r_line, data |-> Merge(Old(z)[1].data, i[1].data, i[1].be)]>>
        \/ ~ go /\ Fills(s, z)
           /\ New(z) = <<[line |-> q[fill_m][1].line, data |-> q[fill_m][1].data[1]]>>
        \/ ~ go /\ ~ Hits(s, z) /\ ~ Fills(s, z) /\ New(z) = Old(z)
    BY WayStep
  <2> HIDE DEF New, Old, Busy
  <2> QED BY <2>1
<1>2. \A z \in Ways : Old(z) # None =>
        /\ SetOf(Old(z)[1].line) = s
        /\ running => Old(z)[1].data = Due(Old(z)[1].line)
        /\ \A x \in Ways : Old(x) # None => (Old(x)[1].line = Old(z)[1].line => x = z)
  BY DEF Copies
<1>3. fill_go(m_gnt) =>
        /\ fill_m \in Mshrs /\ Valid(fill_m) /\ ~ q[fill_m][1].done /\ q[fill_m][1].data # None /\ ~ Sent
        /\ f_set = SetOf(q[fill_m][1].line)
  <2>1. fill_go(m_gnt) => /\ fill_m \in Mshrs /\ q[fill_m] # None /\ q[fill_m][1].data # None
                          /\ ~ q[fill_m][1].done /\ ~ q[fill_m][1].stale /\ ~ Grant
    BY FillFacts
  <2>2. ~ Grant => ~ Sent BY Kinds
  <2> QED BY <2>1, <2>2 DEF Valid, f_set
<1>4. fill_go(m_gnt) =>
        /\ running => q[fill_m][1].data[1] = Due(q[fill_m][1].line)
        /\ q[fill_m][1].line \in Lines
        /\ f_set = s => \A z \in Ways : Old(z) # None => Old(z)[1].line # q[fill_m][1].line
  <2>1. fill_go(m_gnt) => q[fill_m][1].line \in Lines BY FillFacts
  <2> QED BY <1>3, <2>1 DEF Misses
<1>5. \A l \in Lines : Due2(l) = IF Sent /\ r_line = l THEN Merge(Due(l), i[1].data, i[1].be) ELSE Due(l)
  BY DueStep
<1>6. Sent /\ hit => r_line \in Lines
  <2>1. Sent => i # None BY Kinds
  <2> QED BY <2>1, HitFacts
<1>7. Old(y) # None => Old(y)[1].line \in Lines BY DEF TypeOK, Table, Maybe
<1>8. \A z \in Ways : (Hits(s, z) => Sent /\ hit /\ SetOf(r_line) = s) /\ (Fills(s, z) => fill_go(m_gnt) /\ f_set = s)
  BY DEF Hits, Fills
<1>9. ~ go /\ (running' => running) BY <1>1
<1> HIDE DEF Old, New, Busy
<1>10. SetOf(New(y)[1].line) = s
  <2>1. CASE Hits(s, y) /\ Old(y) # None /\ New(y)[1].line = Old(y)[1].line BY <1>2, <2>1
  <2>2. CASE Fills(s, y) /\ New(y)[1].line = q[fill_m][1].line BY <1>3, <1>8, <2>2
  <2>3. CASE New(y) = Old(y) BY <1>2, <2>3 DEF New
  <2> QED BY <1>1, <2>1, <2>2, <2>3 DEF New
<1>11. running' => New(y)[1].data = Due2(New(y)[1].line)
  <2>1. CASE /\ Hits(s, y) /\ Old(y) # None /\ New(y)[1].line = Old(y)[1].line /\ Old(y)[1].line = r_line
             /\ New(y)[1].data = Merge(Old(y)[1].data, i[1].data, i[1].be)
    BY <1>2, <1>5, <1>6, <1>8, <1>9, <2>1
  <2>2. CASE Fills(s, y) /\ New(y)[1].line = q[fill_m][1].line /\ New(y)[1].data = q[fill_m][1].data[1]
    BY <1>3, <1>4, <1>5, <1>8, <1>9, <2>2
  <2>3. CASE ~ Hits(s, y) /\ New(y) = Old(y)
    <3>1. Old(y) # None BY <2>3 DEF New
    <3>2. ASSUME Sent, r_line = Old(y)[1].line PROVE FALSE
      <4>1. SetOf(r_line) = s /\ r_way = way[s] BY <1>2, <3>1, <3>2 DEF r_way
      <4>2. y \in hit_w BY <3>1, <3>2, <4>1 DEF hit_w, Old
      <4>3. hit BY <4>2 DEF hit
      <4>4. i # None BY <3>2, Kinds DEF Busy
      <4>5. /\ hit_way \in Ways /\ way[SetOf(r_line)][hit_way] # None
            /\ way[SetOf(r_line)][hit_way][1].line = r_line
        BY <4>3, <4>4, HitFacts DEF Busy
      <4>6. Old(hit_way) # None /\ Old(hit_way)[1].line = r_line BY <4>1, <4>5 DEF Old
      <4>7. hit_way = y BY <1>2, <3>1, <3>2, <4>5, <4>6
      <4> QED BY <2>3, <3>2, <4>1, <4>3, <4>7 DEF Hits
    <3>3. Due2(Old(y)[1].line) = Due(Old(y)[1].line) BY <1>5, <1>7, <3>1, <3>2
    <3> QED BY <1>2, <1>9, <2>3, <3>1, <3>3
  <2> QED BY <1>1, <2>1, <2>2, <2>3 DEF New
<1>12. ASSUME NEW z \in Ways, New(z) # None, New(z)[1].line = New(y)[1].line PROVE z = y
  <2>0. New(y) # None BY DEF New
  <2> DEFINE fl == q[fill_m][1].line
  <2>1. \A x \in Ways : New(x) # None =>
          \/ Old(x) # None /\ New(x)[1].line = Old(x)[1].line
          \/ Fills(s, x) /\ New(x)[1].line = fl
    BY <1>1
  <2>2. \A x \in Ways : Fills(s, x) => \A u \in Ways : Old(u) # None => Old(u)[1].line # fl
    BY <1>4, <1>8
  <2>3. Fills(s, y) /\ Fills(s, z) => y = z BY DEF Fills
  <2> HIDE DEF fl
  <2> QED BY <1>2, <1>12, <2>0, <2>1, <2>2, <2>3
<1> QED BY <1>10, <1>11, <1>12 DEF New

(* PathClock: a clock keeps the invariant of the path.                     *)
LEMMA PathClock ==
  ASSUME PathInv, NEW sr, NEW e, NEW go, InOk(sr, e, go), running' \in BOOLEAN, running => running',
         go \/ running' = running
  PROVE  PathInv'
<1> USE DEF PathInv
<1>1. Busy' BY ClockStep
<1>2. TypeOK' BY <1>1 DEF Busy
<1>3. Taken'
  <2>1. \A l \in Lines : amem'[l] = Put(k', l, Put(i', l, Due2(l))) BY <1>2, PutStep DEF Busy
  <2> QED BY <2>1 DEF Taken, Due, Due2, After, After2
<1>4. Asked' BY AskedStep
<1>5. Fresh' BY <1>2, FreshStep
<1>6. Misses' BY <1>2, MissesStep
<1>7. Copies' BY <1>2, CopiesStep
<1> QED BY <1>1, <1>3, <1>4, <1>5, <1>6, <1>7

(* Idle: with no request open, no write is anywhere.                       *)
LEMMA Idle ==
  ASSUME PathInv, \A t \in Tags : open[t] = None
  PROVE  /\ Len(InFlight) = 0
         /\ \A l \in Lines : \A v : Put(i, l, v) = v /\ Put(k, l, v) = v
         /\ \A l \in Lines : amem[l] = mem[l] /\ Due(l) = mem[l]
<1> USE DEF PathInv, Busy
<1>1. \A t \in Tags : ~ Held(i, t) /\ ~ Held(k, t) /\ w[t] = None BY DEF InPlaces, InPlace
<1>2. Len(InFlight) = 0
  <2>1. Len(InFlight) = Len(wq) /\ Len(wq) \in Nat BY DEF Writes, TypeOK
  <2>2. Len(wq) >= 1 => wq[1] \in Tags /\ w[wq[1]] # None
    <3>1. Len(wq) >= 1 => 1 \in 1 .. Len(wq) /\ wq[1] \in Tags BY DEF TypeOK
    <3> QED BY <3>1 DEF Writes
  <2> QED BY <1>1, <2>1, <2>2
<1>3. i # None => ~ i[1].we
  <2>1. i # None => i[1] \in Req BY DEF TypeOK, Maybe
  <2>2. i # None /\ i[1].we => i[1].tag \in Tags /\ ~ i[1].pf BY <2>1 DEF Req
  <2> QED BY <1>1, <2>2 DEF Held
<1>4. k # None => ~ k[1].we
  <2>1. k # None => k[1] \in Req /\ ~ k[1].pf BY DEF TypeOK, Maybe
  <2>2. k # None => k[1].tag \in Tags BY <2>1 DEF Req
  <2> QED BY <1>1, <2>1, <2>2 DEF Held
<1>5. \A l \in Lines : \A v : Put(i, l, v) = v /\ Put(k, l, v) = v BY <1>3, <1>4 DEF Put
<1>6. \A l \in Lines : Due(l) = mem[l]
  <2> SUFFICES ASSUME NEW l \in Lines PROVE Due(l) = mem[l] OBVIOUS
  <2>1. After(l, 0) = mem[l] BY AfterFacts
  <2> QED BY <1>2, <2>1 DEF Due
<1> QED BY <1>2, <1>5, <1>6 DEF Taken

(* RestStep: the steps outside the clock that leave memory alone.          *)
LEMMA RestStep ==
  ASSUME PathInv, Busy', UNCHANGED <<avars, cvars, xvars, mem, rd, wr>>, running' => running
  PROVE  PathInv'
<1> USE DEF PathInv
<1>0. /\ amem' = amem /\ open' = open /\ mem' = mem /\ rd' = rd /\ wr' = wr
      /\ i' = i /\ k' = k /\ way' = way /\ q' = q /\ w' = w /\ b' = b /\ d' = d /\ wack' = wack
      /\ ar' = ar /\ aw' = aw
  BY DEF avars, cvars, xvars
<1>1. InFlight' = InFlight BY <1>0 DEF InFlight
<1>2. \A l, n : After2(l, n) = After(l, n) BY <1>0, <1>1 DEF After, After2
<1>3. \A l : Due2(l) = Due(l) BY <1>1, <1>2 DEF Due, Due2
<1>4. Taken' BY <1>0, <1>3 DEF Taken, Due, Due2, After, After2, Put
<1>5. Asked' BY <1>0 DEF Asked, Held, OnB, OnQ
<1>6. Fresh'
  <2>1. /\ Permits(b)' <=> Permits(b)
        /\ \A t : /\ Since(t)' = Since(t) /\ (OnB(t)' <=> OnB(t))
                 /\ (Held(i, t)' <=> Held(i, t)) /\ (Held(k, t)' <=> Held(k, t))
        /\ \A m, t : (OnQ(m, t)' <=> OnQ(m, t)) /\ (Asks(m)' <=> Asks(m))
        /\ \A l, v : Put(i, l, v)' = Put(i, l, v)
    BY <1>0 DEF Permits, Since, OnB, Held, OnQ, Asks, Put
  <2>2. (\A l : Due(l)' = Due(l)) /\ (\A l, n : After(l, n)' = After(l, n)) /\ Len(InFlight)' = Len(InFlight)
    BY <1>1, <1>2, <1>3 DEF Due, Due2, After, After2
  <2>3. ASSUME NEW t \in Tags, NEW m \in Mshrs, OnQ(m, t)'
        PROVE  LET l == q[m][1].line IN
               (/\ Put(i, l, Due(l)) \in Since(t)
                /\ IF q[m][1].stale THEN open[t][1].loose ELSE open[t][1].at = Due(l)
                /\ q[m][1].stale =>
                    /\ Asks(m) => \A n \in 0 .. Len(InFlight) : After(l, n) \in Since(t)
                    /\ rd[m] # None => rd[m][1].data \in Since(t)
                    /\ q[m][1].data # None => q[m][1].data[1] \in Since(t))'
    <3> DEFINE l == q[m][1].line
    <3>1. OnQ(m, t) BY <2>1, <2>3
    <3>2. /\ Put(i, l, Due(l)) \in Since(t)
          /\ IF q[m][1].stale THEN open[t][1].loose ELSE open[t][1].at = Due(l)
          /\ q[m][1].stale =>
              /\ Asks(m) => \A n \in 0 .. Len(InFlight) : After(l, n) \in Since(t)
              /\ rd[m] # None => rd[m][1].data \in Since(t)
              /\ q[m][1].data # None => q[m][1].data[1] \in Since(t)
      BY <3>1 DEF Fresh
    <3>3. Put(i, l, Due(l))' = Put(i, l, Due(l)) BY <1>0, <2>1, <2>2 DEF Put
    <3> QED BY <1>0, <1>1, <2>1, <2>2, <3>2, <3>3
  <2>4. ASSUME NEW t \in Tags
        PROVE  (/\ open[t] # None => open[t][1].we \/ amem[open[t][1].line] \in Since(t)
                /\ Held(i, t) => i[1].we \/ open[t][1].at = Due(i[1].line)
                /\ Held(k, t) => k[1].we \/ open[t][1].at = Put(i, k[1].line, Due(k[1].line))
                /\ OnB(t) => Permits(b))'
    <3>1. Put(i, k[1].line, Due(k[1].line))' = Put(i, k[1].line, Due(k[1].line)) BY <1>0, <2>1, <2>2 DEF Put
    <3> QED BY <1>0, <2>1, <2>2, <3>1 DEF Fresh
  <2> QED BY <2>3, <2>4 DEF Fresh
<1>7. Misses' BY <1>0, <1>1, <1>3 DEF Misses, Valid, Due, Due2, After, After2
<1>8. Copies' BY <1>0, <1>3 DEF Copies, Due, Due2, After, After2
<1> QED BY <1>4, <1>5, <1>6, <1>7, <1>8

(* AfterNone: none of the writes in flight applied.                        *)
LEMMA AfterNone == TypeOK => \A l \in Lines : After(l, 0) = mem[l]
BY AfterFacts

(* HostStep: the host writes DRAM between grids, when nothing is open.     *)
LEMMA HostStep ==
  ASSUME PathInv, Busy', NEW h \in Lines, Host(h)
  PROVE  PathInv'
<1> USE DEF PathInv
<1>0. /\ open' = open /\ rd' = rd /\ wr' = wr
      /\ i' = i /\ k' = k /\ way' = way /\ q' = q /\ w' = w /\ b' = b /\ d' = d /\ wack' = wack
      /\ ar' = ar /\ aw' = aw /\ ~ running /\ ~ running'
      /\ amem' = [amem EXCEPT ![h] = Filled(MaxReq + 1)]
      /\ mem' = [mem EXCEPT ![h] = Filled(MaxReq + 1)]
      /\ \A t \in Tags : open[t] = None
  BY DEF Host, HostWrite, cvars, xvars
<1>1. /\ Len(InFlight) = 0
      /\ \A l \in Lines : \A v : Put(i, l, v) = v /\ Put(k, l, v) = v
      /\ \A l \in Lines : amem[l] = mem[l] /\ Due(l) = mem[l]
  BY <1>0, Idle
<1>2. InFlight' = InFlight BY <1>0 DEF InFlight
<1>3. \A t \in Tags : ~ Held(i, t) /\ ~ Held(k, t) /\ w[t] = None /\ t \notin wack /\ ~ OnB(t) /\ \A m \in Mshrs : ~ OnQ(m, t)
  BY <1>0 DEF Busy, InPlaces, InPlace, NoQ
<1>4. Taken'
  <2>1. (\A l \in Lines : After(l, 0) = mem[l])'
    <3>1. TypeOK' BY DEF Busy
    <3> QED BY <3>1, AfterNone, PTL
  <2>2. \A l \in Lines : amem'[l] = mem'[l]
    <3>1. amem \in [Lines -> Line] /\ mem \in [Lines -> Line] BY DEF Busy, TypeOK
    <3> QED BY <1>0, <1>1, <3>1
  <2>3. \A l \in Lines : \A v : Put(i', l, v) = v /\ Put(k', l, v) = v BY <1>0, <1>1 DEF Put
  <2> QED BY <1>1, <1>2, <2>1, <2>2, <2>3 DEF Taken, Due, After
<1>5. Asked' BY <1>0, <1>3 DEF Asked, Held, OnB, OnQ
<1>6. Fresh' BY <1>0, <1>3 DEF Fresh, Held, OnB, OnQ
<1>7. Misses'
  <2>1. Misses BY DEF PathInv
  <2> QED BY <1>0, <1>2, <2>1 DEF Misses, Valid
<1>8. Copies' BY <1>0 DEF Copies
<1> QED BY <1>4, <1>5, <1>6, <1>7, <1>8

(* PathStep: every step keeps the invariant of the path.                   *)
LEMMA PathStep == PathInv /\ [Next]_vars => PathInv'
<1> SUFFICES ASSUME PathInv, [Next]_vars PROVE PathInv' OBVIOUS
<1>0. Busy /\ running \in BOOLEAN BY DEF PathInv, Busy, TypeOK
<1>b. Busy' BY <1>0, BusyStep
<1>1. CASE Clock
  <2>1. PICK sr \in Offers, e \in Env : Step(sr, e, FALSE) /\ running' = running BY <1>1 DEF Clock
  <2>2. InOk(sr, e, FALSE) BY <2>1 DEF InOk
  <2> QED BY <1>0, <2>1, <2>2, PathClock
<1>2. CASE Go
  <2>1. PICK e \in Env : Step(None, e, TRUE) /\ running' = TRUE BY <1>2 DEF Go
  <2>2. InOk(None, e, TRUE) BY <2>1 DEF InOk, Offers
  <2> QED BY <2>1, <2>2, PathClock
<1>3. CASE Done
  <2>1. running' = FALSE /\ UNCHANGED <<avars, cvars, xvars, mem, rd, wr>> BY <1>3 DEF Done
  <2> QED BY <1>b, <2>1, RestStep
<1>4. ASSUME NEW l \in Lines, Host(l) PROVE PathInv' BY <1>b, <1>4, HostStep
<1>5. CASE UNCHANGED vars
  <2>1. running' = running /\ UNCHANGED <<avars, cvars, xvars, mem, rd, wr>> BY <1>5 DEF vars
  <2> QED BY <1>b, <2>1, RestStep
<1> QED BY <1>1, <1>2, <1>3, <1>4, <1>5 DEF Next

(* PathInit: at reset nothing is open and memory is as accounted for.      *)
LEMMA PathInit == Init => PathInv
<1> SUFFICES ASSUME Init PROVE PathInv OBVIOUS
<1>1. Busy BY BusyInit
<1>2. /\ mem = amem /\ open = [t \in Tags |-> None] /\ wr = <<>> /\ aw = None
      /\ i = None /\ k = None /\ b = None /\ wack = {} /\ w = [t \in Tags |-> None]
      /\ q = [m \in Mshrs |-> None] /\ way = [s \in SetNos |-> [y \in Ways |-> None]]
  BY DEF Init, LineInit, CacheInit, AxiInit
<1>3. Taken
  <2>1. Len(InFlight) = 0
    <3>1. Len(InFlight) = Len(wq) /\ wq = <<>> BY <1>1 DEF Busy, Writes, Init, AxiInit
    <3> QED BY <3>1
  <2>2. \A l \in Lines : After(l, 0) = mem[l] BY <1>1, AfterFacts DEF Busy
  <2>3. \A l \in Lines : Due(l) = amem[l] BY <1>2, <2>1, <2>2 DEF Due
  <2> QED BY <1>2, <2>3 DEF Taken, Put
<1>4. Asked BY <1>2 DEF Asked, Held, OnB, OnQ
<1>5. Fresh BY <1>2 DEF Fresh, Held, OnB, OnQ
<1>6. Misses BY <1>2 DEF Misses, Valid
<1>7. Copies BY <1>2 DEF Copies
<1> QED BY <1>1, <1>3, <1>4, <1>5, <1>6, <1>7 DEF PathInv

(* RightNow: each of the three sources of answers is a permitted one.      *)
LEMMA RightNow == PathInv => AnswersRight
<1> SUFFICES ASSUME PathInv PROVE Permits(Answer) BY DEF AnswersRight
<1> USE DEF PathInv, Busy
<1>0. /\ dr_go <=> d # None /\ b = None
      /\ wa_go <=> wack # {} /\ b = None /\ ~ dr_go
  BY DEF dr_go, wa_go
<1>1. CASE b # None
  <2>1. Answer = b BY <1>0, <1>1 DEF Answer
  <2>2. b[1].tag \in Tags BY <1>1 DEF TypeOK, Maybe
  <2>3. OnB(b[1].tag) BY <1>1 DEF OnB
  <2> QED BY <2>1, <2>2, <2>3 DEF Fresh
<1>2. CASE dr_go
  <2> DEFINE m == d[1].m
             t == d[1].t
             l == q[m][1].line
  <2>1. Answer = <<[tag |-> t, data |-> q[m][1].data[1]]>> BY <1>0, <1>2 DEF Answer
  <2>2. m \in Mshrs /\ t \in Tags /\ q[m] # None /\ q[m][1].data # None /\ OnQ(m, t)
    BY <1>2 DEF dr_go, TypeOK, Maybe, Chosen
  <2>3. open[t] # None
    <3>1. InPlace(t) /\ ~ NoQ(t) BY <2>2 DEF InPlaces, NoQ
    <3> QED BY <3>1 DEF InPlace
  <2>4. running BY <2>2, <2>3 DEF OnlyRunning
  <2>5. IF q[m][1].stale THEN open[t][1].loose /\ q[m][1].data[1] \in Since(t) ELSE open[t][1].at = Due(l)
    BY <2>2 DEF Fresh
  <2>6. ~ q[m][1].stale => q[m][1].data[1] = Due(l) BY <2>2, <2>4 DEF Misses, Valid
  <2>7. \/ q[m][1].data[1] = open[t][1].at
        \/ open[t][1].loose /\ q[m][1].data[1] \in open[t][1].later
    BY <2>5, <2>6 DEF Since
  <2> HIDE DEF m, t, l
  <2> QED BY <2>1, <2>3, <2>7 DEF Permits
<1>3. CASE wa_go
  <2> DEFINE t == Min(wack)
  <2>1. t \in wack /\ t \in Tags
    <3>1. wack \in SUBSET Tags /\ wack # {} BY <1>3 DEF TypeOK, wa_go
    <3>2. wack \in SUBSET Nat BY <3>1, Basics
    <3> QED BY <3>1, <3>2, MinIn
  <2>2. open[t] # None /\ open[t][1].we
    <3>1. InPlace(t) BY <2>1 DEF InPlaces
    <3> QED BY <2>1, <3>1 DEF InPlace, Asked
  <2> HIDE DEF t
  <2>3. Answer = <<[tag |-> t, data |-> [x \in Words |-> 0]]>> BY <1>3 DEF Answer, wa_go, t
  <2> QED BY <2>2, <2>3 DEF Permits
<1>4. CASE b = None /\ ~ dr_go /\ ~ wa_go
  <2>1. Answer = None BY <1>4 DEF Answer
  <2> QED BY <2>1 DEF Permits
<1> QED BY <1>1, <1>2, <1>3, <1>4

(* CurrentNow: cached lines and, with nothing open, memory are current.    *)
LEMMA CurrentNow == PathInv => CopiesCurrent
<1> SUFFICES ASSUME PathInv PROVE CopiesCurrent OBVIOUS
<1>0. TypeOK BY DEF PathInv, Busy
<1>1. ASSUME running, NEW s \in SetNos, NEW y \in Ways, way[s][y] # None
      PROVE  /\ SetOf(way[s][y][1].line) = s
             /\ way[s][y][1].data = Pending(way[s][y][1].line)
             /\ \A z \in Ways \ {y} : way[s][z] # None => way[s][z][1].line # way[s][y][1].line
  <2> DEFINE l == way[s][y][1].line
  <2>1. /\ SetOf(l) = s /\ way[s][y][1].data = Due(l)
        /\ \A z \in Ways : way[s][z] # None => (way[s][z][1].line = l => z = y)
    BY <1>1 DEF PathInv, Copies
  <2>2. l \in Lines BY <1>0, <1>1 DEF TypeOK, Table, Maybe
  <2> HIDE DEF l
  <2>3. Due(l) = Pending(l) BY <1>0, <2>2, AfterFacts
  <2> QED BY <2>1, <2>3 DEF l
<1>2. FreeTags = Tags => mem = amem
  <2> SUFFICES ASSUME FreeTags = Tags PROVE mem = amem OBVIOUS
  <2>1. \A t \in Tags : open[t] = None BY DEF FreeTags
  <2>2. \A l \in Lines : amem[l] = mem[l] BY <2>1, Idle
  <2> QED BY <1>0, <2>2 DEF TypeOK
<1> QED BY <1>1, <1>2 DEF CopiesCurrent

(* AnswersAreRight: for every size of the cache and every number of words, *)
(* tags and misses, every answer of the path is one the engine may be      *)
(* given (l1_dcache.sv with axi_line_master.sv; see AnswersRight).         *)
THEOREM AnswersAreRight == Spec => []AnswersRight
<1>1. Init => PathInv BY PathInit
<1>2. PathInv /\ [Next]_vars => PathInv' BY PathStep
<1>3. PathInv => AnswersRight BY RightNow
<1> QED BY <1>1, <1>2, <1>3, PTL DEF Spec

(* CopiesStayCurrent: likewise no cached line is ever out of date while a  *)
(* grid runs, and DRAM holds every result once all requests are answered   *)
(* (see CopiesCurrent).                                                    *)
THEOREM CopiesStayCurrent == Spec => []CopiesCurrent
<1>1. Init => PathInv BY PathInit
<1>2. PathInv /\ [Next]_vars => PathInv' BY PathStep
<1>3. PathInv => CopiesCurrent BY CurrentNow
<1> QED BY <1>1, <1>2, <1>3, PTL DEF Spec
=============================================================================
