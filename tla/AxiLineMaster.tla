--------------------------- MODULE AxiLineMaster ---------------------------
(***************************************************************************)
(* The AXI4 master behind the L1 (rtl/accel/axi_line_master.sv): one read  *)
(* and one write in staging registers, the beats of each read ID collected *)
(* on their own, and the tags of the writes in flight in a FIFO for their  *)
(* in-order B responses.  The sticky err flag, which nothing reads back    *)
(* into the datapath, is left out.                                         *)
(***************************************************************************)
EXTENDS L1DCache

VARIABLES ar,             \* read waiting for AR
          aw,             \* write waiting for AW or its W beats
          wq,             \* tags of the writes in flight, in AW order
          rbuf            \* read ID |-> beats received
xvars == <<ar, aw, wq, rbuf>>

(* Mutant: each write goes out with the ID of its tag.                     *)
WIDByTag(tag) == tag
(* Every write has the one write ID. *)
WID(tag) == 0

AxiInit == ar = None /\ aw = None /\ wq = <<>> /\ rbuf = [m \in Mshrs |-> <<>>]

m_gnt == IF wr_go THEN aw = None ELSE ar = None
Sends == m_req /\ m_gnt

(* Handshakes of this clock: the address channels and a W beat. *)
ArFire(e) == ar # None /\ e.ar
AwFire(e) == IF aw = None THEN FALSE ELSE aw[1].av /\ e.aw
WFire(e) == IF aw = None THEN FALSE ELSE aw[1].beat <= Beats /\ e.w
AwNext(e) == [aw[1] EXCEPT !.av = @ /\ ~ AwFire(e), !.beat = IF WFire(e) THEN @ + 1 ELSE @]
(* The write has left: address and all beats are taken. *)
WriteOut(e) == aw # None /\ ~ AwNext(e).av /\ AwNext(e).beat > Beats

(* Read beat of ID m, or None; the last one completes the line.  A write   *)
(* response is taken only when no line completes.                          *)
RLast(e) == IF e.r = None THEN FALSE ELSE Len(rbuf[e.r[1].id]) = Beats - 1
bready(e) == ~ RLast(e)
BFire(e) == e.b # None /\ bready(e)
Response(e) ==
  CASE RLast(e) -> <<[id |-> <<0, e.r[1].id>>, data |-> Append(rbuf[e.r[1].id], e.r[1].data)]>>
    [] BFire(e) -> <<[id |-> <<1, Head(wq)>>, data |-> Filled(0)]>>
    [] OTHER -> None

AxiClock(e) ==
  /\ ar' = IF Sends /\ ~ wr_go THEN <<[id |-> MReq.id[2], line |-> MReq.line]>>
           ELSE IF ArFire(e) THEN None ELSE ar
  /\ aw' = IF Sends /\ wr_go
           THEN <<[id |-> WID(MReq.id[2]), line |-> MReq.line, data |-> MReq.data, be |-> MReq.be,
                   av |-> TRUE, beat |-> 1]>>
           ELSE IF aw = None \/ WriteOut(e) THEN None ELSE <<AwNext(e)>>
  /\ wq' = LET left == IF BFire(e) THEN Tail(wq) ELSE wq
           IN  IF Sends /\ wr_go THEN Append(left, MReq.id[2]) ELSE left
  /\ rbuf' = [m \in Mshrs |->
                IF e.r = None THEN rbuf[m]
                ELSE IF e.r[1].id # m THEN rbuf[m]
                ELSE IF RLast(e) THEN <<>> ELSE Append(rbuf[m], e.r[1].data)]
=============================================================================
