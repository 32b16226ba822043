------------------------------ MODULE MemPath ------------------------------
(***************************************************************************)
(* The path of the board build from the memory engine to DRAM: L1DCache    *)
(* and AxiLineMaster clocked together, an AXI memory, the engine's port    *)
(* and the host that launches grids (rtl/soc/simt_ps_top.sv).  LineMemory  *)
(* runs beside it as the account of what the engine may be told.           *)
(*                                                                         *)
(* The AXI memory is external: it takes addresses and beats when it likes, *)
(* reads a line when it takes the address, answers reads of different IDs  *)
(* in any order with their beats interleaved, performs a write when it     *)
(* answers it, and keeps the order of the writes of one ID only.           *)
(***************************************************************************)
EXTENDS AxiLineMaster, SequencesExt

CONSTANTS ByteEnables,    \* the sets of words a write may replace
          MaxGo,          \* bound on the GO writes
          Wild            \* TRUE: GO may also be written while a grid runs

ASSUME EnableAssumption == ByteEnables \subseteq SUBSET Words

VARIABLES mem,            \* the memory
          rd,             \* read ID |-> None or the line read and the next beat
          wr,             \* writes taken and not answered
          running,        \* a grid is running
          nreq, ngo       \* requests and GO writes so far
vars == <<avars, cvars, xvars, mem, rd, wr, running, nreq, ngo>>

Init ==
  /\ LineInit /\ CacheInit /\ AxiInit
  /\ mem = amem /\ rd = [m \in Mshrs |-> None] /\ wr = <<>>
  /\ running = FALSE /\ nreq = 0 /\ ngo = 0

(* What the memory and the engine may do in a clock. *)
FreeTags == {t \in Tags : open[t] = None}
Request(t, l, we, be) ==
  [tag |-> t, line |-> l, we |-> we, data |-> IF we THEN Filled(nreq + 1) ELSE Filled(0), be |-> be, pf |-> FALSE]
Offers ==
  {None} \cup
  (IF ~ running \/ ~ s_gnt \/ nreq >= MaxReq \/ FreeTags = {} THEN {}
   ELSE {<<Request(Min(FreeTags), l, FALSE, {})>> : l \in Lines}
        \cup {<<Request(Min(FreeTags), x[1], TRUE, x[2])>> : x \in Lines \X ByteEnables})
ReadBeats ==
  {None} \cup {<<[id |-> m, data |-> rd[m][1].data[rd[m][1].beat]]>> : m \in {m \in Mshrs : rd[m] # None}}
InOrder(n) == \A j \in 1..(n - 1) : wr[j].id # wr[n].id
WriteAnswers == {None} \cup {<<n>> : n \in {n \in DOMAIN wr : InOrder(n)}}
Opt(c) == IF c THEN BOOLEAN ELSE {FALSE}
Env ==
  [ar : Opt(ar # None), aw : Opt(IF aw = None THEN FALSE ELSE aw[1].av),
   w : Opt(IF aw = None THEN FALSE ELSE aw[1].beat <= Beats), r : ReadBeats, b : WriteAnswers]

Memory(e) ==
  /\ mem' = IF BFire(e) THEN LET x == wr[e.b[1]] IN [mem EXCEPT ![x.line] = Merge(@, x.data, x.be)] ELSE mem
  /\ wr' = LET left == IF BFire(e) THEN RemoveAt(wr, e.b[1]) ELSE wr
           IN  IF WriteOut(e) THEN Append(left, [id |-> aw[1].id, line |-> aw[1].line, data |-> aw[1].data, be |-> aw[1].be])
               ELSE left
  /\ rd' = [m \in Mshrs |->
       IF ArFire(e) /\ <<m>> = [n \in DOMAIN ar |-> ar[n].id] THEN <<[data |-> mem[ar[1].line], beat |-> 1]>>
       ELSE IF e.r = None THEN rd[m] ELSE IF e.r[1].id # m THEN rd[m]
       ELSE IF rd[m][1].beat = Beats THEN None ELSE <<[rd[m][1] EXCEPT !.beat = @ + 1]>>]

(* One clock, with request sr; go: the host writes GO in this clock. *)
Step(sr, e, go) ==
  /\ CacheClock(sr, m_gnt, Response(e), go) /\ AxiClock(e) /\ Memory(e)
  /\ Effect(sr, Answer, go)
  /\ nreq' = IF sr = None THEN nreq ELSE nreq + 1

Clock == \E sr \in Offers, e \in Env : Step(sr, e, FALSE) /\ UNCHANGED <<running, ngo>>
(* GO starts a grid and invalidates the L1 in the same clock; while a grid *)
(* runs the dispatcher ignores it and the L1 is invalidated all the same.  *)
Go ==
  /\ ngo < MaxGo /\ (~ running \/ Wild)
  /\ \E e \in Env : Step(None, e, TRUE)
  /\ running' = TRUE /\ ngo' = ngo + 1
(* The grid is done once all its requests are answered. *)
Done ==
  /\ running /\ FreeTags = Tags
  /\ running' = FALSE
  /\ UNCHANGED <<avars, cvars, xvars, mem, rd, wr, nreq, ngo>>
(* The host prepares the next grid in DRAM. *)
Host(l) ==
  /\ ~ running /\ ngo = 1 /\ ngo < MaxGo
  /\ HostWrite(l, Filled(MaxReq + 1))
  /\ mem' = [mem EXCEPT ![l] = Filled(MaxReq + 1)]
  /\ UNCHANGED <<cvars, xvars, rd, wr, running, nreq, ngo>>

Next == Clock \/ Go \/ Done \/ \E l \in Lines : Host(l)

(* The design is clocked: steps go on as long as a clock without requests  *)
(* or memory events would change something.  The memory, whatever it       *)
(* delays, takes every address and beat in the end and answers every read  *)
(* and write.                                                              *)
Quiet == [ar |-> FALSE, aw |-> FALSE, w |-> FALSE, r |-> None, b |-> None]
Tick == Step(None, Quiet, FALSE) /\ UNCHANGED <<running, ngo>>
Fairness ==
  /\ []<>(~ ENABLED <<Tick>>_vars) \/ []<><<TRUE>>_vars
  /\ []<>(ar = None) /\ []<>(aw = None) /\ []<>(wr = <<>>)
  /\ \A m \in Mshrs : []<>(rd[m] = None)
Spec == Init /\ [][Next]_vars /\ Fairness
------------------------------------------------------------------------------
(* AnswersRight: every answer goes to an open request, a read with the     *)
(* line as it was when the request was accepted (after a GO in between, as *)
(* it has been since): no read passes a write accepted before it, no line  *)
(* fetched before the host's or an earlier grid's write is ever returned   *)
(* after it (l1_dcache.sv, read misses wait for writes in flight, misses   *)
(* in flight at inv are stale; axi_line_master.sv, one write ID).          *)
AnswersRight == Permits(Answer)

(* CopiesCurrent: while a grid runs every cached line equals memory with   *)
(* the writes in flight applied in their order, a line is in one way only, *)
(* and when all requests are answered memory itself holds every write, so  *)
(* that the host reads the results from DRAM (l1_dcache.sv, write-through; *)
(* write acknowledged after memory's acknowledgement).                     *)
InFlight == wr \o aw
Pending(l) ==
  [x \in Words |-> LET over == {n \in DOMAIN InFlight : InFlight[n].line = l /\ x \in InFlight[n].be}
                   IN  IF over = {} THEN mem[l][x] ELSE InFlight[Max(over)].data[x]]
CopiesCurrent ==
  /\ running => \A s \in SetNos, y \in Ways :
       way[s][y] # None =>
         /\ SetOf(way[s][y][1].line) = s
         /\ way[s][y][1].data = Pending(way[s][y][1].line)
         /\ \A z \in Ways \ {y} : way[s][z] # None => way[s][z][1].line # way[s][y][1].line
  /\ FreeTags = Tags => mem = amem

(* Accounted: every open request is in exactly one place (input register,  *)
(* skid, a miss register, the write table, a hit or an acknowledgement to  *)
(* send) and nothing else is anywhere; the write table, the counter and    *)
(* the FIFO of write tags agree; a miss register without its line has one  *)
(* read under way, and no other read is (l1_dcache.sv, skid and s_gnt,     *)
(* miss registers; axi_line_master.sv, wq).                                *)
Held(r, t) == IF r = None THEN FALSE ELSE ~ r[1].pf /\ r[1].tag = t
WaitsOn(t) == {m \in Mshrs : IF q[m] = None THEN FALSE ELSE t \in q[m][1].wait}
One(c) == IF c THEN 1 ELSE 0
Places(t) ==
  One(Held(i, t)) + One(Held(k, t)) + Cardinality(WaitsOn(t)) + One(w[t] # None)
  + One(t \in wack) + One(IF b = None THEN FALSE ELSE b[1].tag = t)
Accounted ==
  /\ \A t \in Tags : Places(t) = One(open[t] # None)
  /\ LET out == {t \in Tags : w[t] # None}
     IN  ToSet(wq) = out /\ Len(wq) = Cardinality(out) /\ wr_out = Len(wq)
  /\ Len(wq) = Len(wr) + One(aw # None)
  /\ \A m \in Mshrs :
       One(rd[m] # None) + One(IF ar = None THEN FALSE ELSE ar[1].id = m)
         = One(IF q[m] = None THEN FALSE ELSE q[m][1].data = None)

(* EveryAnswered: again and again no request is open; as requests are      *)
(* finitely many, every accepted one is answered, whatever waits for       *)
(* whatever: reads for writes, writes for misses, misses for a free        *)
(* register, fills for an idle port, answers for one another               *)
(* (l1_dcache.sv, i_gnt and the order of the upstream responses).          *)
EveryAnswered == []<>(FreeTags = Tags)
=============================================================================
