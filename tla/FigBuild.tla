------------------------------ MODULE FigBuild ------------------------------
(***************************************************************************)
(* The figure builds of docs/figs: an author draws a layout, the script    *)
(* tightens it, checks it, writes the TikZ file and only then typesets.    *)
(*                                                                         *)
(*   chip      gen_chip_top.py: compact both axes, verify, emit, pdflatex, *)
(*             pdftoppm                                                    *)
(*   datapath  gen_datapath_tikz.py: two cuts by shift, stage bands and    *)
(*             legend, verify, emit, pdflatex twice (figure, then the      *)
(*             document around it)                                         *)
(*   arch      gen_arch_v2.py, gen_arch_v3.py, gen_amo_fig.py: no check;   *)
(*             pdflatex, then the PDF is copied to docs/figs               *)
(*                                                                         *)
(* A build may fail in pdflatex or be killed at any step; the files it     *)
(* leaves are the ones the next build, of an edited layout, starts from.   *)
(***************************************************************************)
EXTENDS ChipTop

CONSTANTS Layouts,        \* function: name of a layout |-> the figure the script draws
          Flow,           \* function: name of a layout |-> "chip", "datapath" or "arch"
          Edits,          \* function: name |-> the layouts an edit of it may give
          ShiftCuts,      \* function: name |-> the cuts <<from, by>> of the datapath script, in order
          Builds          \* bound on the number of builds in a row

VARIABLES lay,            \* the layout being built
          pc,             \* the next step of its script
          fig,            \* the Fig object
          errs,           \* what verify() returned
          tex, pdf, out,  \* the files: .tex, the PDF beside it, the final PDF
          status,         \* how the last build ended
          count
vars == <<lay, pc, fig, errs, tex, pdf, out, status, count>>

Names == DOMAIN Layouts
(* A file holds one figure or does not exist. *)
NoFile == <<>>
Damaged == <<EmptyFig>>
GAPX == 100
GAPY == 80

Init ==
  /\ lay \in Names
  /\ pc = "draw" /\ fig = EmptyFig /\ errs = {}
  /\ tex = NoFile /\ pdf = NoFile /\ out = NoFile
  /\ status = "none" /\ count = 1

(* A slanted wire raises in the middle of the drawing. *)
Draw ==
  /\ pc = "draw"
  /\ fig' = Layouts[lay]
  /\ pc' = IF ~ fig'.ok THEN "end" ELSE IF Flow[lay] = "arch" THEN "emit" ELSE "tighten"
  /\ status' = IF fig'.ok THEN "running" ELSE "failed"
  /\ UNCHANGED <<lay, errs, tex, pdf, out, count>>

(* The two compactions, or the two cuts. *)
Compacted(f) == compact(compact(f, 1, GAPX, {}), 2, GAPY, {})
Shifted(f) == FoldLeft(LAMBDA g, cut : shift(g, cut[1], cut[2], 1), f, ShiftCuts[lay])

(* add_frame and add_legend: the stage bands are no obstacles; the legend  *)
(* is four wires and five labels in the lower left corner.                 *)
LegendNets == <<"lg_s", "lg_b", "lg_w", "lg_c">>
LegendCols == <<13, 21, 19, 7>>
add_legend(f, lx, ly, lh) ==
  LET Row(i) == ly + lh - Mm(9) - 10 - 132 * (i - 1)
  IN  [f EXCEPT
        !.wires = @ \o [i \in 1..4 |-> wire(LegendNets[i], <<<<lx + Mm(3), Row(i)>>, <<lx + Mm(15), Row(i)>>>>)],
        !.labels = Append(@, label(8, 1, lx + Mm(2), ly + lh - 24, "north", "west", 13))
                   \o [i \in 1..4 |-> label(LegendCols[i], 1, lx + Mm(19), Row(i), "mid", "west", 11)]]
Framed(f) ==
  LET e == extent(f) IN add_legend(f, e[1] + 10, e[2] - 30 + 50, Mm(36))

Tighten ==
  /\ pc = "tighten"
  /\ fig' = IF Flow[lay] = "chip" THEN Compacted(fig) ELSE Framed(Shifted(fig))
  /\ pc' = "verify"
  /\ UNCHANGED <<lay, errs, tex, pdf, out, status, count>>

Verify ==
  /\ pc = "verify"
  /\ errs' = verify(fig)
  /\ pc' = "emit"
  /\ UNCHANGED <<lay, fig, tex, pdf, out, status, count>>

(* Mutant: the exit on errors is missing.                                  *)
EmitAnyway ==
  /\ pc = "emit"
  /\ tex' = <<fig>> /\ pc' = "latex"
  /\ UNCHANGED <<lay, fig, errs, pdf, out, status, count>>
(* The TikZ file is written whatever verify() said; then the script stops  *)
(* on errors.                                                              *)
Emit ==
  /\ pc = "emit"
  /\ tex' = <<fig>>
  /\ pc' = IF errs = {} THEN "latex" ELSE "end"
  /\ status' = IF errs = {} THEN status ELSE "failed"
  /\ UNCHANGED <<lay, fig, errs, pdf, out, count>>

(* A failing pdflatex stops the script; with -halt-on-error it leaves the  *)
(* old PDF or none, without it (arch) perhaps a damaged new one.           *)
Latex(ok) ==
  /\ pc = "latex"
  /\ pdf' \in IF ok THEN {tex}
              ELSE {pdf, NoFile} \cup (IF Flow[lay] = "arch" THEN {Damaged} ELSE {})
  /\ pc' = IF ok THEN "finish" ELSE "end"
  /\ status' = IF ok THEN status ELSE "failed"
  /\ UNCHANGED <<lay, fig, errs, tex, out, count>>

(* chip: the PDF is the product; a preview is rendered from it.  datapath: *)
(* the document that includes the figure's PDF, whose pdflatex may fail    *)
(* too.  arch: the copy.                                                   *)
Finish(ok) ==
  /\ pc = "finish"
  /\ out' = IF ok THEN pdf ELSE out
  /\ status' = IF ok THEN "built" ELSE "failed"
  /\ pc' = "end"
  /\ UNCHANGED <<lay, fig, errs, tex, pdf, count>>
Preview == Flow[lay] = "chip" /\ Finish(TRUE)
Document == Flow[lay] = "datapath" /\ \E ok \in BOOLEAN : Finish(ok)
CopyPdf == Flow[lay] = "arch" /\ Finish(TRUE)

(* A kill leaves the file being written whole, missing or damaged.         *)
Torn(file) == {file, NoFile, Damaged}
Kill ==
  /\ pc \notin {"draw", "end"}
  /\ pdf' \in IF pc = "latex" THEN Torn(pdf) ELSE {pdf}
  /\ out' \in IF pc = "finish" THEN Torn(out) ELSE {out}
  /\ pc' = "end" /\ status' = "failed"
  /\ UNCHANGED <<lay, fig, errs, tex, count>>

(* The author edits the layout and runs the script again: a new process,   *)
(* the same files.                                                         *)
Rebuild ==
  /\ pc = "end" /\ count < Builds
  /\ lay' \in Edits[lay]
  /\ pc' = "draw" /\ fig' = EmptyFig /\ errs' = {} /\ status' = "none"
  /\ count' = count + 1
  /\ UNCHANGED <<tex, pdf, out>>

Next ==
  \/ Draw \/ Tighten \/ Verify \/ Emit
  \/ Latex(TRUE) \/ Latex(FALSE) \/ Preview \/ Document \/ CopyPdf
  \/ Kill \/ Rebuild

Spec == Init /\ [][Next]_vars
------------------------------------------------------------------------------
(* Exact geometry, independent of the sampling in verify(). *)

Points(g) ==
  {<<x, y>> : x \in Least(g.a[1], g.b[1])..Most(g.a[1], g.b[1]),
              y \in Least(g.a[2], g.b[2])..Most(g.a[2], g.b[2])}
Depth == 8
WiresOutside(f) ==
  \A g \in Range(segments(f)), s \in Range(f.shapes) :
    Near(g, s.bb, 0) =>
      \A p \in Points(g) :
        pip(p, s.poly) => \E e \in Edges(s.poly) : Under(dist_seg(p, e[1], e[2]), Depth)

(* Two segments have a common point. *)
Common(g, h) == Overlap1(g, h, 1) >= 0 /\ Overlap1(g, h, 2) >= 0
NetsApart(f) ==
  \A g, h \in Range(segments(f)) :
    g.net # h.net /\ Common(g, h) /\ Horizontal(g.a, g.b) =>
      /\ ~ Horizontal(h.a, h.b)
      /\ Inner(h.a[1], g.a[1], g.b[1], HOP_R + 7)
      /\ Inner(g.a[2], h.a[2], h.b[2], CLEAR - 1)

(* A rectangle and a label share at most a strip thinner than the distance *)
(* between the sample points of the label.                                 *)
Cover(bb, q, c) == Least(bb[c + 2], q[c + 2]) - Most(bb[c], q[c])
LabelsClear(f) ==
  \A l \in Range(f.labels), s \in Range(f.shapes) :
    LET bb == label_bbox(l)
    IN  Len(s.poly) = 4 /\ s.poly[1][2] = s.poly[2][2] =>
          \/ Cover(bb, s.bb, 1) <= ((bb[3] - bb[1]) \div 8) + 1
          \/ Cover(bb, s.bb, 2) <= ((bb[4] - bb[2]) \div 4) + 1

Verified(n) == Flow[n] \in {"chip", "datapath"}

(* AcceptedIsClean: whatever sequence of edits, failing builds and kills   *)
(* produced it, a PDF built by the two verified scripts shows a layout in  *)
(* which no wire runs inside a block (at any tick, not only at verify()'s  *)
(* samples), different nets meet only in crossings with room for a hop,    *)
(* and labels are off the blocks; and a script that ended well has         *)
(* typeset the layout it was given (gen_chip_top.py, the exit before       *)
(* pdflatex).                                                              *)
AcceptedIsClean ==
  /\ pc = "finish" /\ Verified(lay) =>
       WiresOutside(pdf[1]) /\ NetsApart(pdf[1]) /\ LabelsClear(pdf[1])
  /\ pc = "end" /\ status = "built" => out = <<fig>> /\ tex = <<fig>>

(* Two lines of a net run along a common stretch. *)
SharesTrunk(f) ==
  \E i, j \in DOMAIN f.wires :
    /\ i < j /\ f.wires[i].net = f.wires[j].net
    /\ \E d \in Range(Pieces(f.wires[i].pts)), e \in Range(Pieces(f.wires[j].pts)) :
         LET g == [a |-> d[1], b |-> d[2]]
             h == [a |-> e[1], b |-> e[2]]
         IN  Common(g, h) /\ (Overlap1(g, h, 1) > 0 \/ Overlap1(g, h, 2) > 0)
Covers(p, q, x, r) == Least(p[1], q[1]) < x + r /\ Most(p[1], q[1]) > x - r
(* The strokes of a pen that are an arc around p; the points where the     *)
(* horizontal pieces of a line meet other nets.                            *)
Arcs(pen, p) ==
  {k \in 2..Len(pen) : /\ pen[k][1] = "arc" /\ pen[k][2][2] = p[2]
                       /\ pen[k][2][1] + pen[k - 1][2][1] = 2 * p[1]}
Meets(f, w) ==
  {<<h.a[1], e[1][2]>> : <<e, h>> \in
     {<<e, h>> \in Range(Pieces(w.pts)) \X Range(segments(f)) :
        /\ h.net # w.net /\ Horizontal(e[1], e[2]) /\ Vertical(h.a, h.b)
        /\ Common([a |-> e[1], b |-> e[2]], h)}}
HopsRight(pen, meets, dots) ==
  /\ \A p \in meets :
       /\ Cardinality(Arcs(pen, p)) = 1
       /\ \A k \in 2..Len(pen) :
            pen[k][1] = "line" /\ pen[k][2][2] = p[2] /\ pen[k - 1][2][2] = p[2] =>
              ~ Covers(pen[k - 1][2], pen[k][2], p[1], HOP_R)
       /\ \A j \in dots : SqLen(j[1] - p[1], j[2] - p[2]) > HOP_R * HOP_R
  /\ \A k \in 2..Len(pen) :
       pen[k][1] = "arc" => \E p \in meets : k \in Arcs(pen, p)
(* CrossingsHopped: in an accepted layout, wherever two nets meet the pen  *)
(* goes around the point in one arc on every horizontal line through it    *)
(* and draws no straight stroke there; arcs are drawn nowhere else, and no *)
(* junction dot falls within a hop (dp_engine.py emit, header comment).    *)
(* Assumed: no two lines of a net share a stretch of a trunk.              *)
CrossingsHopped ==
  pc = "finish" /\ Verified(lay) /\ ~ SharesTrunk(fig) =>
    \A w \in Range(fig.wires) :
      HopsRight(Pen(fig, w), Meets(fig, w), junctions(fig, w.net))

(* TighteningSound: compaction and the cuts move blocks rigidly and keep   *)
(* the order of all block edges and labels on both axes (compaction of the *)
(* labels' boxes, a cut only of their anchors: a wide label may reach over *)
(* a cut); compaction leaves no corridor wider than the gap.  If no wire   *)
(* ends inside a stretch that is cut out, wire corners keep their place in *)
(* that order too, and compaction turns no accepted layout into a rejected *)
(* one (dp_engine.py compact, shift).  An end inside one may move past the *)
(* blocks before it; that verify() looks at the compacted layout is what   *)
(* keeps it out of them (AcceptedIsClean).                                 *)
LabelCoords(f, c) ==
  IF Flow[lay] = "chip"
  THEN FlattenSeq([i \in DOMAIN f.labels |-> <<label_bbox(f.labels[i])[c], label_bbox(f.labels[i])[c + 2]>>])
  ELSE [i \in DOMAIN f.labels |-> <<f.labels[i].x, f.labels[i].y>>[c]]
BlockCoords(f, c) ==
  FlattenSeq([i \in DOMAIN f.shapes |-> <<f.shapes[i].bb[c], f.shapes[i].bb[c + 2]>>])
  \o LabelCoords(f, c)
WireCoords(f, c) ==
  FlattenSeq([i \in DOMAIN f.wires |-> [k \in DOMAIN f.wires[i].pts |-> f.wires[i].pts[k][c]]])
FreeEnd(f) ==
  /\ Flow[lay] = "chip"
  /\ \E c \in 1..2 : \E cut \in Cuts(f, c, <<GAPX, GAPY>>[c], {}) :
       \E v \in Range(WireCoords(f, c)) : cut[1] < v /\ v < cut[1] + cut[2]
Moved(v, w) == {<<v[i], w[i]>> : i \in DOMAIN v}
Monotone(moves) == \A p, q \in moves : p[1] <= q[1] => p[2] <= q[2]
TighteningSound ==
  pc = "emit" /\ Verified(lay) =>
    LET before    == Layouts[lay]
        Blocks(c) == Moved(BlockCoords(before, c), BlockCoords(fig, c))
        Wires(c)  == Moved(WireCoords(before, c), WireCoords(fig, c))
    IN  /\ \A i \in DOMAIN before.shapes, c \in 1..2 :
             fig.shapes[i].bb[c + 2] - fig.shapes[i].bb[c]
               = before.shapes[i].bb[c + 2] - before.shapes[i].bb[c]
        /\ \A c \in 1..2 : Monotone(Blocks(c))
        /\ Flow[lay] = "chip" => \A c \in 1..2 : Cuts(fig, c, <<GAPX, GAPY>>[c], {}) = {}
        /\ \/ FreeEnd(before)
           \/ /\ \A c \in 1..2 : Monotone(Blocks(c) \cup Wires(c))
              /\ Flow[lay] = "chip" /\ verify(before) = {} => errs = {}
=============================================================================
