------------------------------ MODULE AppScans ------------------------------
(***************************************************************************)
(* sim/gen_apps.py: the prefix sums, whose launches recurse over the block *)
(* totals until one block is left.                                         *)
(***************************************************************************)
EXTENDS AppCases

Prefix(vals) ==
  [i \in DOMAIN vals |-> SumTo(vals, i + 1) % Mask]

(* One level of the block scan: scan, then recursively the block totals,   *)
(* then scan_add.  Returns the case; its .at is the address of the result. *)
RECURSIVE ScanLevel(_, _, _)
ScanLevel(c, src, m) ==
  LET b  == 4 * LANES
      nb == m \div b
      pad == CeilDiv(nb, b) * b
      c1 == alloc(c, Zeros(m))
      c2 == alloc(c1, Zeros(pad))
      l  == launch(c2, "scan", <<src, c1.at, c2.at>>, m, 2)
      r  == ScanLevel(l, c2.at, pad)
      e  == IF nb > 1 THEN launch(r, "scan_add", <<c1.at, r.at>>, m, 0) ELSE l
  IN [e EXCEPT !.at = c1.at]

scan(rng, n) ==
  LET vals == [i \in Idx(n) |-> rng[i] % 2^(W \div 2)]
      c1 == alloc(EmptyCase("scan"), vals)
      c2 == ScanLevel(c1, c1.at, n)
  IN expect(c2, c2.at, Prefix(vals))

(* r = min(rows, m / LANES), halved until r * LANES divides m.             *)
RECURSIVE HalveTo(_, _)
HalveTo(r, m) == IF m % (r * LANES) # 0 THEN HalveTo(r \div 2, m) ELSE r

RECURSIVE SegLevel(_, _, _, _)
SegLevel(c, src, m, rows) ==
  LET r    == HalveTo(IF rows < m \div LANES THEN rows ELSE m \div LANES, m)
      nseg == m \div (r * LANES)
      pad  == CeilDiv(nseg, LANES) * LANES
      c1 == alloc(c, Zeros(m))
      c2 == alloc(c1, Zeros(pad))
      l  == launch(c2, "scan_seg", <<src, c1.at, c2.at, r>>, LANES * nseg, 0)
      t  == SegLevel(l, c2.at, pad, rows)
      e  == IF nseg > 1 THEN launch(t, "scan_segadd", <<c1.at, t.at, r>>, LANES * nseg, 0)
            ELSE l
  IN [e EXCEPT !.at = c1.at]

scanseg(rng, n, rows) ==
  LET vals == [i \in Idx(n) |-> rng[i] % 2^(W \div 2)]
      c1 == alloc(EmptyCase("scanseg"), vals)
      c2 == SegLevel(c1, c1.at, n, rows)
  IN expect(c2, c2.at, Prefix(vals))
=============================================================================
