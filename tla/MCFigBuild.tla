---------------------------- MODULE MCFigBuild ----------------------------
(***************************************************************************)
(* Layouts for FigBuild: the shipped chip_top diagram, the shipped         *)
(* datapath figure and a family of sketches.  A sketch has a block of      *)
(* every kind on the left, wired to a box on the right (net a, drawn in    *)
(* either direction, with a branch to a box below) and a thin box hanging  *)
(* from a labelled stub (net b) at x, y; the parameters sweep the          *)
(* crossing, the stub's end, the thin box and a label across the limits of *)
(* verify().  Kind "free" has a wide corridor and a wire c whose right end *)
(* hangs in it at w: before, in or behind the stretch compaction cuts out. *)
(***************************************************************************)
EXTENDS FigBuild

DP == INSTANCE Datapath

Left(k) ==
  CASE k \in {"and", "or", "not"} -> gate("s", k, 0, <<220, 180>>, 120, 32)
    [] k = "circ" -> circ("s", 60, 200, 60)
    [] k = "alu" -> alu("s", 0, 268, 132, 120, TRUE)
    [] k = "mux" -> mux("s", 0, <<240, 160>>, 120, 40, FALSE)
    [] k = "bar" -> bar("s", 50, 140, 70, 120, FALSE)
    [] OTHER -> box("s", 0, 140, 120, 120, TRUE)

Sketch(n) ==
  LET far == IF n.flow = "datapath" \/ n.k = "free" THEN 1200 ELSE 600   \* the right box
      low == IF n.flow = "datapath" THEN -900 ELSE 0        \* the box below
      xd  == far - 120
      tw  == IF n.k = "free" THEN 16 ELSE n.w               \* the thin box
      a   == <<<<120, 200>>, <<far, 200>>>>
  IN  Fig(<<Left(n.k), box("r", far, 140, 120, 120, FALSE), box("d", xd - 40, low, 80, 60, FALSE),
            box("t", n.x - (tw \div 2), n.y - tw, tw, tw, FALSE)>>,
          <<wire("a", IF n.rev THEN Reverse(a) ELSE a),
            wire("a", <<<<xd, 200>>, <<xd, low + 60>>>>),
            StubWire("b", <<n.x, n.y>>, "up", 420 - n.y)>>
          \o (IF n.k = "slant" THEN <<wire("c", <<<<60, 140>>, <<90, 100>>>>)>>
              ELSE IF n.k = "free" THEN <<wire("c", <<<<120, 160>>, <<n.w, 160>>>>)>> ELSE <<>>),
          <<StubLabel(<<n.x, n.y>>, "up", 420 - n.y, 3, 10), label(4, 1, 300, 200 + n.l, "south", "mid", 10)>>,
          <<>>)

MCNames ==
  [k : {"box"}, x : {128, 144, 146, 160, 300, 448, 450, 512}, y : {340, 212, 206, 186, 100},
   w : {16, 60}, l : {-10, 7}, rev : BOOLEAN, flow : {"chip"}]
  \cup [k : {"and", "or", "not", "circ", "alu", "mux", "bar"}, x : {100, 150, 420}, y : {300, 100},
        w : {60}, l : {7}, rev : {FALSE}, flow : {"chip"}]
  \cup [k : {"box", "bar", "slant"}, x : {160, 300, 466}, y : {340, 206, 100}, w : {16}, l : {7},
        rev : {FALSE}, flow : {"datapath"}]
  \cup [k : {"free"}, x : {160}, y : {340, 206}, w : {400, 600, 760, 1000}, l : {7}, rev : {FALSE}, flow : {"chip"}]
  \cup [k : {"box"}, x : {160}, y : {206, 100}, w : {16}, l : {7}, rev : {FALSE}, flow : {"arch"}]
  \cup [k : {"chip_top"}, x : {0}, y : {0}, w : {16}, l : {7}, rev : {FALSE}, flow : {"chip"}]
  \cup [k : {"datapath"}, x : {0}, y : {0}, w : {16}, l : {7}, rev : {FALSE}, flow : {"datapath"}]

MCLayouts ==
  [n \in MCNames |-> CASE n.k = "chip_top" -> ChipFig [] n.k = "datapath" -> DP!DatapathFig [] OTHER -> Sketch(n)]
MCFlow == [n \in MCNames |-> n.flow]
(* An edit pulls the stub down across net a. *)
MCEdits == [n \in MCNames |-> {m \in {[n EXCEPT !.y = 100]} : m \in MCNames}]
MCShiftCuts ==
  [n \in MCNames |-> IF n.k = "datapath" THEN DP!DatapathCuts ELSE <<<<420, -60>>, <<230, -20>>>>]
=============================================================================
