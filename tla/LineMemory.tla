----------------------------- MODULE LineMemory -----------------------------
(***************************************************************************)
(* What the path from the memory engine to DRAM promises the engine: a     *)
(* line memory behind a tagged port.  A write takes effect when its        *)
(* request is accepted; a read returns the line as it was when its request *)
(* was accepted.  Every request is answered once, in any order.  The host  *)
(* may change lines while no request is open.  A GO written while requests *)
(* are open makes the reads among them loose: they may return any value    *)
(* their line has had since they were accepted.                            *)
(***************************************************************************)
EXTENDS Integers, Sequences, FiniteSets

CONSTANTS Lines,          \* line addresses
          Beats,          \* words of a line, one for each AXI beat
          Tags,           \* upstream tags
          MaxReq          \* bound on the requests; request n writes the value n

ASSUME PathAssumption ==
  /\ Beats \in Nat \ {0} /\ MaxReq \in Nat
  /\ Lines \subseteq Nat /\ 0 \in Lines /\ Tags \subseteq Nat

None == <<>>
Words == 1..Beats
Filled(v) == [x \in Words |-> v]
(* A line with the words of be replaced. *)
Merge(old, new, be) == [x \in Words |-> IF x \in be THEN new[x] ELSE old[x]]

VARIABLES amem,           \* the memory
          open            \* tag |-> None or the request it carries
avars == <<amem, open>>

LineInit == amem = [l \in Lines |-> Filled(0)] /\ open = [t \in Tags |-> None]

(* The answers allowed now. *)
Permits(rs) ==
  rs # None => IF open[rs[1].tag] = None THEN FALSE
               ELSE LET o == open[rs[1].tag][1]
                    IN  o.we \/ rs[1].data = o.at \/ (o.loose /\ rs[1].data \in o.later)

(* One clock: at most one request sr comes in, at most one answer rs goes  *)
(* out; go says whether the host writes GO.                                *)
Effect(sr, rs, go) ==
  LET writes == IF sr = None THEN FALSE ELSE sr[1].we
      new    == Merge(amem[sr[1].line], sr[1].data, sr[1].be)
      Aged(o) == [we |-> o.we, line |-> o.line, loose |-> ~ o.we /\ (o.loose \/ go), at |-> o.at,
                  later |-> IF ~ writes \/ o.we \/ o.line # sr[1].line THEN o.later ELSE o.later \cup {new}]
  IN  /\ amem' = IF writes THEN [amem EXCEPT ![sr[1].line] = new] ELSE amem
      /\ open' = [t \in Tags |->
           IF <<t>> = [n \in DOMAIN sr |-> sr[n].tag]
           THEN <<[we |-> sr[1].we, line |-> sr[1].line, loose |-> FALSE,
                   at |-> IF sr[1].we THEN Filled(0) ELSE amem[sr[1].line], later |-> {}]>>
           ELSE IF open[t] = None \/ <<t>> = [n \in DOMAIN rs |-> rs[n].tag] THEN None
           ELSE <<Aged(open[t][1])>>]

HostWrite(l, data) ==
  /\ \A t \in Tags : open[t] = None
  /\ amem' = [amem EXCEPT ![l] = data] /\ UNCHANGED open
=============================================================================
