---------------------------- MODULE MCMemEngine -----------------------------
(***************************************************************************)
(* Instances of the memory engine: two lanes, lines of two words, and      *)
(* instructions whose lanes share a word, a line, or neither.              *)
(***************************************************************************)
EXTENDS MemEngine

Ins(w, kind, fn, where, ret, a, b, x, y) ==
  [w |-> w, kind |-> kind, fn |-> fn, scratch |-> where # "global", shared |-> where = "shared",
   wb |-> ret, mask |-> {1, 2}, addr |-> <<a, b>>, data |-> <<x, y>>]

MixedOps == {
  Ins(0, "load",  "add",  "global",  TRUE,  0, 2, 0, 0),    \* two lines
  Ins(0, "amo",   "add",  "global",  TRUE,  0, 0, 1, 2),    \* one word
  Ins(1, "amo",   "add",  "global",  TRUE,  1, 0, 1, 1),    \* two words of a line
  Ins(1, "amo",   "swap", "global",  FALSE, 0, 2, 3, 3),    \* two lines, rd = x0
  Ins(1, "store", "add",  "global",  FALSE, 0, 0, 1, 2),    \* one word
  Ins(0, "load",  "add",  "shared",  TRUE,  0, 1, 0, 0),
  Ins(1, "amo",   "maxu", "shared",  TRUE,  1, 1, 3, 2) }

(* The board's build, the same with one read-modify-write per lane and     *)
(* with parallel AMOs, and the chip's build.                               *)
Builds == {[BYP |-> FALSE, AGG |-> TRUE,  APAR |-> FALSE],
           [BYP |-> FALSE, AGG |-> FALSE, APAR |-> FALSE],
           [BYP |-> FALSE, AGG |-> TRUE,  APAR |-> TRUE],
           [BYP |-> TRUE,  AGG |-> TRUE,  APAR |-> FALSE]}
=============================================================================
