----------------------------- MODULE FigEngine -----------------------------
(***************************************************************************)
(* The schematic engine of docs/figs/datapath_tikz/dp_engine.py: shapes,   *)
(* orthogonal wires grouped into nets, labels; the layout check verify(),  *)
(* the crossings and the hops emit() draws for them, the junction dots,    *)
(* and the two transformations shift() and compact().                      *)
(*                                                                         *)
(* Lengths are integers in ticks of 0.05 mm (20 ticks to the millimetre);  *)
(* float tolerances below a tick vanish and interpolated points are        *)
(* rounded down to a tick.  TikZ text is left out, the path of the pen is  *)
(* kept.  A text is its number of columns and lines; sizes in points are   *)
(* doubled (5.5 pt is 11).                                                 *)
(***************************************************************************)
EXTENDS Integers, Sequences, FiniteSets, SequencesExt, FiniteSetsExt

Mm(v) == 20 * v
MIN_PAR == 32
CLEAR == 12
HOP_R == 17

Abs2(v) == IF v < 0 THEN -v ELSE v
Least(a, b) == IF a < b THEN a ELSE b
Most(a, b) == IF a < b THEN b ELSE a
Clamp(v, lo, hi) == Most(lo, Least(v, hi))
SqLen(dx, dy) == dx * dx + dy * dy

Sorted(S, Before(_, _)) == SortSeq(FoldSet(LAMBDA e, acc : Append(acc, e), <<>>, S), Before)

(* The edges of a closed polygon, the pieces of an open line. *)
Edges(poly) == {<<poly[i], poly[(i % Len(poly)) + 1]>> : i \in DOMAIN poly}
Pieces(pts) == [i \in 1..(Len(pts) - 1) |-> <<pts[i], pts[i + 1]>>]
------------------------------------------------------------------------------
(* pip: the ray to the right of p crosses an odd number of edges.  The     *)
(* comparison with the intersection's abscissa is multiplied out.          *)
RayCuts(p, e) ==
  LET dx == e[2][1] - e[1][1]
      dy == e[2][2] - e[1][2]
      l  == (p[2] - e[1][2]) * dx
      r  == (p[1] - e[1][1]) * dy
  IN  /\ (e[1][2] > p[2]) # (e[2][2] > p[2])
      /\ IF dy > 0 THEN l > r ELSE l < r
pip(p, poly) ==
  Cardinality({i \in DOMAIN poly :
                 RayCuts(p, <<poly[i], poly[(i % Len(poly)) + 1]>>)}) % 2 = 1

(* dist_seg, as the square of the distance, a fraction <<n, d>>.  Beyond   *)
(* CrossBound a slanted edge is farther away than any limit in use.        *)
CrossBound == 40000
dist_seg(p, a, b) ==
  LET dx == b[1] - a[1]
      dy == b[2] - a[2]
      dot == (p[1] - a[1]) * dx + (p[2] - a[2]) * dy
      crs == (p[1] - a[1]) * dy - (p[2] - a[2]) * dx
  IN  IF dx = 0 \/ dy = 0
      THEN <<SqLen(p[1] - Clamp(p[1], Least(a[1], b[1]), Most(a[1], b[1])),
                   p[2] - Clamp(p[2], Least(a[2], b[2]), Most(a[2], b[2]))), 1>>
      ELSE CASE dot <= 0 -> <<SqLen(p[1] - a[1], p[2] - a[2]), 1>>
             [] dot >= SqLen(dx, dy) -> <<SqLen(p[1] - b[1], p[2] - b[2]), 1>>
             [] OTHER -> IF Abs2(crs) > CrossBound THEN <<CrossBound, 1>>
                         ELSE <<crs * crs, SqLen(dx, dy)>>
Under(q, r) == q[1] < r * r * q[2]
Over(q, r) == q[1] > r * r * q[2]

rect_poly(x, y, w, h) == <<<<x, y>>, <<x + w, y>>, <<x + w, y + h>>, <<x, y + h>>>>
MinC(poly, c) == Min({poly[i][c] : i \in DOMAIN poly})
MaxC(poly, c) == Max({poly[i][c] : i \in DOMAIN poly})
BBox(poly) == <<MinC(poly, 1), MinC(poly, 2), MaxC(poly, 1), MaxC(poly, 2)>>
Horizontal(a, b) == a[2] = b[2]
Vertical(a, b) == a[1] = b[1]

seg_hits_box(a, b, bb) ==
  IF Horizontal(a, b)
  THEN bb[2] < a[2] /\ a[2] < bb[4] /\ Least(a[1], b[1]) < bb[3] /\ Most(a[1], b[1]) > bb[1]
  ELSE bb[1] < a[1] /\ a[1] < bb[3] /\ Least(a[2], b[2]) < bb[4] /\ Most(a[2], b[2]) > bb[2]
------------------------------------------------------------------------------
(* Shapes: the outline and the decorations labels must avoid as well. *)
Shape(name, poly, extra) == [name |-> name, poly |-> poly, extra |-> extra, bb |-> BBox(poly)]
L(s, y) == <<s.bb[1], y>>
R(s, y) == <<s.bb[3], y>>
T(s, x) == <<x, s.bb[4]>>
B(s, x) == <<x, s.bb[2]>>

box(name, x, y, w, h, rep) ==
  Shape(name, rect_poly(x, y, w, h), IF rep THEN <<rect_poly(x, y, w + 36, h + 36)>> ELSE <<>>)
reg(name, x, y, w, h) == Shape(name, rect_poly(x, y, w, h), <<>>)
bar(name, x, y, w, h, below) ==
  Shape(name, rect_poly(x, y, w, h),
        <<rect_poly(x + (w \div 2) - 60, IF below THEN y - 72 ELSE y + h + 12, 120, 60)>>)

(* A multiplexer: the trapezoid around its inputs, with the ports. *)
MuxD(ys, pad) == Least(40, (Max(Range(ys)) - Min(Range(ys)) + 2 * pad) \div 5)
mux(name, x, ys, w, pad, flip) ==
  LET y1 == Max(Range(ys)) + pad
      y0 == Min(Range(ys)) - pad
      d  == MuxD(ys, pad)
  IN  Shape(name, IF flip THEN <<<<x, y0 + d>>, <<x + w, y0>>, <<x + w, y1>>, <<x, y1 - d>>>>
                  ELSE <<<<x, y0>>, <<x + w, y0 + d>>, <<x + w, y1 - d>>, <<x, y1>>>>, <<>>)
MuxIn(s, y, flip) == IF flip THEN R(s, y) ELSE L(s, y)
MuxOut(s, flip) ==
  IF flip THEN L(s, (s.bb[2] + s.bb[4]) \div 2) ELSE R(s, (s.bb[2] + s.bb[4]) \div 2)
MuxSel(s, d, top) ==
  <<(s.bb[1] + s.bb[3]) \div 2, IF top THEN s.bb[4] - (d \div 2) ELSE s.bb[2] + (d \div 2)>>

(* An ALU between its two inputs (fa = 0.84): seven corners, one notch. *)
alu(name, x, ya, yb, w, rep) ==
  LET h  == ((ya - yb) * 100) \div 68
      y  == yb - ((16 * h) \div 100)
      k  == (h * 24) \div 100
      n  == (h * 9) \div 100
      ym == y + (h \div 2)
      poly == <<<<x, y>>, <<x + w, y + k>>, <<x + w, y + h - k>>, <<x, y + h>>,
                <<x, ym + n>>, <<x + ((n * 11) \div 10), ym>>, <<x, ym - n>>>>
  IN  Shape(name, poly, IF rep THEN <<[i \in 1..7 |-> <<poly[i][1] + 36, poly[i][2] + 36>>]>>
                        ELSE <<>>)

(* Sine in thousandths at multiples of pi/16, over the full turn. *)
Sin16(k) ==
  LET q == <<0, 195, 383, 556, 707, 831, 924, 981, 1000>>
      j == k % 32
  IN  CASE j <= 8 -> q[j + 1]
        [] j > 8 /\ j <= 16 -> q[17 - j]
        [] j > 16 /\ j <= 24 -> -q[j - 15]
        [] OTHER -> -q[33 - j]
Cos16(k) == Sin16(k + 8)
circ(name, cx, cy, r) ==
  Shape(name, [k \in 1..16 |-> <<cx + ((r * Cos16(2 * (k - 1))) \div 1000),
                                 cy + ((r * Sin16(2 * (k - 1))) \div 1000)>>], <<>>)

(* The outline of a gate; the bubbles of negated inputs are drawn, not     *)
(* part of the outline.                                                    *)
gate(name, typ, x, ys, w, pad) ==
  LET y1 == Max(Range(ys)) + pad
      y0 == Min(Range(ys)) - pad
      h  == y1 - y0
      yc == (y0 + y1) \div 2
      xa == x + w - (h \div 2)
      xo == x + ((w * 45) \div 100)
      OrX(i) == xo + ((w * 55 * Sin16(i)) \div 100000)
      OrDy(i) == (h * (1000 - Cos16(i))) \div 2000
      pts == CASE typ = "and" ->
                    <<<<x, y0>>, <<xa, y0>>>>
                    \o [i \in 1..15 |-> <<xa + ((h * Cos16(i - 8)) \div 2000),
                                          yc + ((h * Sin16(i - 8)) \div 2000)>>]
                    \o <<<<xa, y1>>, <<x, y1>>>>
               [] typ = "or" ->
                    <<<<x, y0>>>>
                    \o [i \in 1..9 |-> <<OrX(i - 1), y0 + OrDy(i - 1)>>]
                    \o [i \in 1..9 |-> <<OrX(9 - i), y1 - OrDy(9 - i)>>]
                    \o <<<<x, y1>>, <<x + (h \div 5), yc>>>>
               [] typ = "not" -> <<<<x, y0>>, <<x + w - 28, yc>>, <<x, y1>>>>
  IN  Shape(name, pts, <<>>)
GateOut(s, x, w) == <<x + w, (s.bb[2] + s.bb[4]) \div 2>>
------------------------------------------------------------------------------
(* A figure. *)
EmptyFig == [shapes |-> <<>>, wires |-> <<>>, labels |-> <<>>, groups |-> <<>>, ok |-> TRUE]
Fig(shapes, wires, labels, groups) ==
  [shapes |-> shapes, wires |-> wires, labels |-> labels, groups |-> groups,
   ok |-> \A w \in Range(wires) : w.orthogonal]

(* wire: repeated points are dropped; a slanted piece raises, so the       *)
(* figure script ends before it builds anything.                           *)
Dedupe(pts) ==
  FoldLeft(LAMBDA q, p : IF q # <<>> /\ Last(q) = p THEN q ELSE Append(q, p), <<>>, pts)
wire(net, pts) ==
  LET q == Dedupe(pts)
  IN  [net |-> net, pts |-> q,
       orthogonal |-> \A e \in Range(Pieces(q)) : Horizontal(e[1], e[2]) \/ Vertical(e[1], e[2])]
label(cols, lines, x, y, av, ah, pt2) ==
  [cols |-> cols, lines |-> lines, x |-> x, y |-> y, av |-> av, ah |-> ah, pt2 |-> pt2]
Dir(direction) ==
  CASE direction = "down" -> <<0, -1>> [] direction = "up" -> <<0, 1>>
    [] direction = "left" -> <<-1, 0>> [] OTHER -> <<1, 0>>
StubFar(p, direction, length) ==
  <<p[1] + Dir(direction)[1] * length, p[2] + Dir(direction)[2] * length>>
StubWire(net, p, direction, length) == wire(net, <<StubFar(p, direction, length), p>>)
StubLabel(p, direction, length, cols, pt2) ==
  LET far == StubFar(p, direction, length)
      d   == Dir(direction)
  IN  label(cols, 1, far[1] + 6 * d[1], far[2] + 6 * d[2],
            CASE d[2] < 0 -> "north" [] d[2] > 0 -> "south" [] OTHER -> "mid",
            CASE d[1] < 0 -> "east" [] d[1] > 0 -> "west" [] OTHER -> "mid", pt2)
(* A group's title is a label inside a corner of its frame. *)
GroupLabel(g, cols, north, west, pt2) ==
  label(cols, 1, IF west THEN g[1] + 32 ELSE g[3] - 32, IF north THEN g[4] - 24 ELSE g[2] + 24,
        IF north THEN "north" ELSE "south", IF west THEN "west" ELSE "east", pt2)

text_wh(cols, lines, pt2) == <<cols * 2 * pt2, (lines * 42 * pt2) \div 10>>
label_bbox(l) ==
  LET w == text_wh(l.cols, l.lines, l.pt2)[1] + 10
      h == text_wh(l.cols, l.lines, l.pt2)[2] + 6
      x0 == CASE l.ah = "west" -> l.x [] l.ah = "east" -> l.x - w [] OTHER -> l.x - (w \div 2)
      y0 == CASE l.av = "south" -> l.y [] l.av = "north" -> l.y - h [] OTHER -> l.y - (h \div 2)
  IN  <<x0, y0, x0 + w, y0 + h>>

(* segments: every piece of every line, with its net. *)
segments(f) ==
  FlattenSeq([i \in DOMAIN f.wires |->
    [k \in 1..(Len(f.wires[i].pts) - 1) |->
       [net |-> f.wires[i].net, a |-> f.wires[i].pts[k], b |-> f.wires[i].pts[k + 1]]]])
------------------------------------------------------------------------------
(* verify: the kinds of errors it reports. *)
Meet(p, q, slack) ==
  p[1] < q[3] - slack /\ q[1] < p[3] - slack /\ p[2] < q[4] - slack /\ q[2] < p[4] - slack
ShapeOverlap(f) ==
  \E i, j \in DOMAIN f.shapes : i < j /\ Meet(f.shapes[i].bb, f.shapes[j].bb, 1)

(* A segment is sampled every 0.2 mm; within 1 mm of its ends it may touch. *)
NSteps(len) == Most(2, len \div 4)
Near(g, bb, m) ==
  ~ \/ Most(g.a[1], g.b[1]) < bb[1] - m \/ Least(g.a[1], g.b[1]) > bb[3] + m
    \/ Most(g.a[2], g.b[2]) < bb[2] - m \/ Least(g.a[2], g.b[2]) > bb[4] + m
BadSample(g, s, len, n, k) ==
  LET p == <<g.a[1] + (((g.b[1] - g.a[1]) * k) \div n), g.a[2] + (((g.b[2] - g.a[2]) * k) \div n)>>
      inside == pip(p, s.poly)
  IN  IF inside THEN \A e \in Edges(s.poly) : Over(dist_seg(p, e[1], e[2]), 3)
      ELSE /\ Least(k, n - k) * len > 20 * n
           /\ \E e \in Edges(s.poly) : Under(dist_seg(p, e[1], e[2]), CLEAR)
WireOnShape(f) ==
  \E g \in Range(segments(f)), s \in Range(f.shapes) :
    /\ Near(g, s.bb, 30)
    /\ LET len == Abs2(g.b[1] - g.a[1]) + Abs2(g.b[2] - g.a[2])
       IN  \E k \in 0..NSteps(len) : BadSample(g, s, len, NSteps(len), k)

Overlap1(g, h, c) ==
  Least(Most(g.a[c], g.b[c]), Most(h.a[c], h.b[c])) - Most(Least(g.a[c], g.b[c]), Least(h.a[c], h.b[c]))
Parallel(g, h) ==
  \/ /\ Horizontal(g.a, g.b) /\ Horizontal(h.a, h.b)
     /\ Overlap1(g, h, 1) > 1 /\ Abs2(g.a[2] - h.a[2]) < MIN_PAR
  \/ /\ ~ Horizontal(g.a, g.b) /\ ~ Horizontal(h.a, h.b)
     /\ Overlap1(g, h, 2) > 1 /\ Abs2(g.a[1] - h.a[1]) < MIN_PAR
Touch(g, h) == \E p \in {g.a, g.b} : Under(dist_seg(p, h.a, h.b), CLEAR)
NetClash(f) ==
  \E g, h \in Range(segments(f)) : g.net # h.net /\ (Parallel(g, h) \/ Touch(g, h))

LabelOnPoly(bb, poly) ==
  /\ Meet(bb, BBox(poly), 0)
  /\ \E u \in 0..8, v \in 0..4 :
       pip(<<bb[1] + (((bb[3] - bb[1]) * u) \div 8), bb[2] + (((bb[4] - bb[2]) * v) \div 4)>>, poly)
LabelClash(f) ==
  LET bbs == [i \in DOMAIN f.labels |-> label_bbox(f.labels[i])]
  IN  \E i \in DOMAIN bbs :
        \/ \E s \in Range(f.shapes) : \E poly \in {s.poly} \cup Range(s.extra) :
             LabelOnPoly(bbs[i], poly)
        \/ \E g \in Range(segments(f)) : seg_hits_box(g.a, g.b, bbs[i])
        \/ \E j \in DOMAIN bbs : i < j /\ Meet(bbs[i], bbs[j], 0)

(* crossings: pairs of indices of a horizontal and a vertical segment of   *)
(* two nets that cross more than 0.3 mm from all ends.                     *)
Inner(v, p, q, m) == Least(p, q) + m < v /\ v < Most(p, q) - m
crossings(f) ==
  LET segs == segments(f)
  IN  {c \in (DOMAIN segs) \X (DOMAIN segs) :
         LET g == segs[c[1]]
             h == segs[c[2]]
         IN  /\ g.net # h.net /\ Horizontal(g.a, g.b) /\ Vertical(h.a, h.b)
             /\ Inner(h.a[1], g.a[1], g.b[1], 6)
             /\ Inner(g.a[2], h.a[2], h.b[2], 6)}
CrossNet(segs, c) == segs[c[1]].net
CrossAt(segs, c) == <<segs[c[2]].a[1], segs[c[1]].a[2]>>
HopTooClose(f) ==
  LET segs == segments(f)
  IN  \E c \in crossings(f), g \in Range(segs) :
        LET x == CrossAt(segs, c)[1]
        IN  /\ g.net = CrossNet(segs, c) /\ Horizontal(g.a, g.b) /\ g.a[2] = CrossAt(segs, c)[2]
            /\ Least(g.a[1], g.b[1]) <= x /\ x <= Most(g.a[1], g.b[1])
            /\ Least(Abs2(x - g.a[1]), Abs2(x - g.b[1])) < HOP_R + 8

verify(f) ==
  {e \in {"SHAPE OVERLAP", "WIRE ON SHAPE", "NETS CLASH", "LABEL", "HOP"} :
     CASE e = "SHAPE OVERLAP" -> ShapeOverlap(f)
       [] e = "WIRE ON SHAPE" -> WireOnShape(f)
       [] e = "NETS CLASH" -> NetClash(f)
       [] e = "LABEL" -> LabelClash(f)
       [] OTHER -> HopTooClose(f)}
------------------------------------------------------------------------------
(* _map_all, shift, compact, extent. *)
MapPt(F(_, _), p) == <<F(p[1], 1), F(p[2], 2)>>
MapPts(F(_, _), pts) == [i \in DOMAIN pts |-> MapPt(F, pts[i])]
map_all(f, F(_, _)) ==
  [f EXCEPT
    !.shapes = [i \in DOMAIN f.shapes |->
                  Shape(f.shapes[i].name, MapPts(F, f.shapes[i].poly),
                        [k \in DOMAIN f.shapes[i].extra |-> MapPts(F, f.shapes[i].extra[k])])],
    !.wires = [i \in DOMAIN f.wires |-> [f.wires[i] EXCEPT !.pts = MapPts(F, @)]],
    !.labels = [i \in DOMAIN f.labels |->
                  [f.labels[i] EXCEPT !.x = F(@, 1), !.y = F(@, 2)]],
    !.groups = [i \in DOMAIN f.groups |->
                  LET g == f.groups[i] IN <<F(g[1], 1), F(g[2], 2), F(g[3], 1), F(g[4], 2)>>]]

shift(f, from, dv, axis) ==
  map_all(f, LAMBDA v, c : IF c = axis /\ v >= from THEN v + dv ELSE v)

(* Mutant: labels, decorations and group edges do not hold a corridor.    *)
OccupiedBare(f, c) ==
  {<<s.bb[c], s.bb[c + 2]>> : s \in Range(f.shapes)}
  \cup {<<g.a[c], g.a[c]>> : g \in {g \in Range(segments(f)) : g.a[c] = g.b[c]}}
(* The occupied intervals along an axis (1 is x): outlines, decorations,   *)
(* labels, perpendicular wires and the edges of the groups.                *)
Occupied(f, c) ==
  UNION {{<<MinC(poly, c), MaxC(poly, c)>> : poly \in {s.poly} \cup Range(s.extra)} :
           s \in Range(f.shapes)}
  \cup {LET bb == label_bbox(l) IN <<bb[c], bb[c + 2]>> : l \in Range(f.labels)}
  \cup {<<g.a[c], g.a[c]>> : g \in {g \in Range(segments(f)) : g.a[c] = g.b[c]}}
  \cup UNION {{<<g[c], g[c]>>, <<g[c + 2], g[c + 2]>>} : g \in Range(f.groups)}
Merged(f, c) ==
  LET Add(ms, iv) == IF ms # <<>> /\ iv[1] <= Last(ms)[2]
                     THEN [ms EXCEPT ![Len(ms)][2] = Most(@, iv[2])]
                     ELSE Append(ms, iv)
  IN  FoldLeft(Add, <<>>, Sorted(Occupied(f, c),
                 LAMBDA p, q : p[1] < q[1] \/ (p[1] = q[1] /\ p[2] < q[2])))
Cuts(f, c, gap, keep) ==
  LET ms == Merged(f, c)
  IN  {<<ms[i][2] + gap, ms[i + 1][1] - ms[i][2] - gap>> :
         i \in {i \in 1..(Len(ms) - 1) :
                  /\ ms[i + 1][1] - ms[i][2] > gap
                  /\ ~ \E k \in keep : k[1] <= ms[i][2] /\ ms[i + 1][1] <= k[2]}}
Removed(cuts, v) ==
  FoldSet(LAMBDA cut, acc : acc + cut[2], 0, {cut \in cuts : v > cut[1]})
compact(f, c, gap, keep) ==
  LET cuts == Cuts(f, c, gap, keep)
  IN  map_all(f, LAMBDA v, axis : IF axis = c THEN v - Removed(cuts, v) ELSE v)

extent(f) ==
  LET bbs == {BBox(poly) : poly \in UNION {{s.poly} \cup Range(s.extra) : s \in Range(f.shapes)}}
             \cup {label_bbox(l) : l \in Range(f.labels)}
             \cup {BBox(<<g.a, g.b>>) : g \in Range(segments(f))}
  IN  <<Min({b[1] : b \in bbs}), Min({b[2] : b \in bbs}), Max({b[3] : b \in bbs}), Max({b[4] : b \in bbs})>>
------------------------------------------------------------------------------
(* junctions: a line that starts on another line of its net gets a dot,    *)
(* unless the first such line ends at that point.                          *)
OnLine(p, pts) == \E e \in Range(Pieces(pts)) : Under(dist_seg(p, e[1], e[2]), 1)
junctions(f, net) ==
  LET mine == {i \in DOMAIN f.wires : f.wires[i].net = net}
      Hit(i) == {j \in mine \ {i} : OnLine(f.wires[i].pts[1], f.wires[j].pts)}
  IN  {f.wires[i].pts[1] : i \in {i \in mine :
         Hit(i) # {} /\ Last(f.wires[Min(Hit(i))].pts) # f.wires[i].pts[1]}}

(* emit: the pen's path along a line: to each hop, around it, and on to    *)
(* the next corner.  A crossing found on several segments of the net at    *)
(* one height is hopped once for each.                                     *)
HopsOf(f, net, a, b) ==
  LET segs == segments(f)
      on == {c \in crossings(f) : /\ CrossNet(segs, c) = net /\ CrossAt(segs, c)[2] = a[2]
                                  /\ Inner(CrossAt(segs, c)[1], a[1], b[1], 6)}
      seq == Sorted(on, LAMBDA c, d : CrossAt(segs, c)[1] < CrossAt(segs, d)[1]
                                            \/ (CrossAt(segs, c)[1] = CrossAt(segs, d)[1]
                                                /\ (c[1] < d[1] \/ (c[1] = d[1] /\ c[2] < d[2]))))
      xs == [i \in DOMAIN seq |-> CrossAt(segs, seq[i])[1]]
  IN  IF ~ Horizontal(a, b) THEN <<>> ELSE IF b[1] < a[1] THEN Reverse(xs) ELSE xs
Strokes(xs, r, e) ==       \* hops at xs, a stroke to r before and an arc to r behind each
  FlattenSeq([i \in DOMAIN xs |-> <<<<"line", <<xs[i] - r, e[1][2]>>>>,
                                    <<"arc", <<xs[i] + r, e[1][2]>>>>>>])
  \o <<<<"line", e[2]>>>>
(* Mutant: hops drawn for a line that runs to the right only.              *)
PenRight(f, w) ==
  LET ps == Pieces(w.pts)
  IN  <<<<"start", w.pts[1]>>>>
      \o FlattenSeq([k \in DOMAIN ps |-> Strokes(HopsOf(f, w.net, ps[k][1], ps[k][2]), HOP_R, ps[k])])
Pen(f, w) ==
  LET ps == Pieces(w.pts)
      Radius(e) == IF e[2][1] > e[1][1] THEN HOP_R ELSE -HOP_R
  IN  <<<<"start", w.pts[1]>>>>
      \o FlattenSeq([k \in DOMAIN ps |->
           Strokes(HopsOf(f, w.net, ps[k][1], ps[k][2]), Radius(ps[k]), ps[k])])
=============================================================================
