----------------------------- MODULE AppKernels -----------------------------
(***************************************************************************)
(* kernels/apps/*.S: what a thread or a warp of each application kernel    *)
(* computes from memory.  p is the address of the parameter block, t the   *)
(* thread.  A store is <<word, part, value>>: part Whole is the word, 0..3 *)
(* one of its bytes.  Floating point is the unit's (Fp32), not the model   *)
(* of the golden results.                                                  *)
(***************************************************************************)
EXTENDS AppCases

Whole == 4
W32(v) == v % Mask
Word(a, v) == <<a, Whole, W32(v)>>

MaddAll(xys) ==                   \* acc = fmadd(x, y, acc) over the pairs <<x, y>>
  FoldLeft(LAMBDA acc, xy : HwMadd(xy[1], xy[2], acc), 0, xys)
Dot(mem, a, sa, b, sb, n) ==
  MaddAll([i \in 1..n |-> <<mem[a + (i - 1) * sa], mem[b + (i - 1) * sb]>>])

GemmStores(mem, p, t) ==
  LET n == 2^mem[p + 4]
      k == mem[p + 3]
  IN {Word(mem[p + 2] + t,
           Dot(mem, mem[p] + (t \div n) * k, 1, mem[p + 1] + (t % n), n, k))}

GemmRbStores(mem, p, t) ==
  LET n  == 2^mem[p + 4]
      k  == mem[p + 3]
      nb == n \div (4 * LANES)
      w  == t \div LANES
      r0 == 4 * (w \div nb)
      c0 == (w % nb) * 4 * LANES + (t % LANES)
  IN {Word(mem[p + 2] + (r0 + i) * n + c0 + j * LANES,
           Dot(mem, mem[p] + (r0 + i) * k, 1, mem[p + 1] + c0 + j * LANES, n, k)) :
        i \in 0..3, j \in 0..3}

SpmvStores(mem, p, t) ==
  LET from == mem[mem[p] + t]
      to   == mem[mem[p] + t + 1]
      y    == MaddAll([i \in 1..(to - from) |->
                         <<mem[mem[p + 2] + from + i - 1],
                           mem[mem[p + 3] + mem[mem[p + 1] + from + i - 1]]>>])
  IN {Word(mem[p + 4] + t, y)}

Point(mem, p, x) ==               \* the five-point update of the word x of IN
  LET s   == mem[p + 3]
      in  == mem[p] + x
      sum == HwAdd(HwAdd(mem[in - s], mem[in + s]), HwAdd(mem[in - 1], mem[in + 1]))
  IN Word(mem[p + 1] + x, HwMadd(mem[p + 5], sum, HwMul(mem[p + 4], mem[in])))

StencilStores(mem, p, t) ==
  LET w == 2^mem[p + 2]
  IN {Point(mem, p, (t \div w + 1) * mem[p + 3] + (t % w) + LANES)}

StencilRbStores(mem, p, t) ==
  LET w == 2^mem[p + 2]
      r == mem[p + 6]
  IN {Point(mem, p, ((t \div w) * r + i + 1) * mem[p + 3] + (t % w) + LANES) : i \in Idx(r)}

(* slt, and the branch-free minimum: the lowest index on a tie.            *)
NearestOf(mem, p, x, y) ==
  LET Dist(k) == W32((x - mem[mem[p + 2] + k])^2 + (y - mem[mem[p + 3] + k])^2)
  IN FoldLeft(LAMBDA acc, k : IF Signed(Dist(k)) < acc.best
                              THEN [best |-> Signed(Dist(k)), k |-> k] ELSE acc,
              [best |-> Mask \div 2 - 1, k |-> 0], Iota(mem[p + 4])).k

Assigned(mem, p, i) ==            \* store and three amoadd.w for point i
  LET x == mem[mem[p] + i]
      y == mem[mem[p + 1] + i]
      k == NearestOf(mem, p, x, y)
  IN [st  |-> Word(mem[p + 5] + i, k),
      amo |-> <<<<"add", mem[p + 6] + k, x>>, <<"add", mem[p + 7] + k, y>>,
                <<"add", mem[p + 8] + k, 1>>>>]

(* The points of thread t: one, or t and t + T for kmeans_u.               *)
PointsOf(kernel, n, t) == IF kernel = "kmeans_u" THEN <<t, t + n>> ELSE <<t>>

(* shfl_up steps of a warp's inclusive scan: 1, 2, then 4, then 8.         *)
ScanRow(v) ==
  FoldLeft(LAMBDA u, k : [l \in DOMAIN u |-> W32(u[l] + (IF l >= k THEN u[l - k] ELSE 0))],
           v, <<1, 2>> \o (IF LANES > 4 THEN <<4>> ELSE <<>>)
                       \o (IF LANES > 8 THEN <<8>> ELSE <<>>))

ScanAddStores(mem, p, t) ==
  LET b == t \div (4 * LANES)
  IN IF b = 0 THEN {}
     ELSE {Word(mem[p] + t, mem[mem[p] + t] + mem[mem[p + 1] + b - 1])}

(* Warp g scans its rows, each on top of the total of the rows before it.  *)
Carry(rows) == FoldLeft(LAMBDA tot, v : W32(v[LANES - 1] + tot), 0, rows)
SegStores(mem, p, g) ==
  LET r    == mem[p + 3]
      base == g * r * LANES
      rows == [j \in 1..r |-> ScanRow([l \in Idx(LANES) |-> mem[mem[p] + base + (j - 1) * LANES + l]])]
  IN {Word(mem[p + 1] + base + (j - 1) * LANES + l, rows[j][l] + Carry(SubSeq(rows, 1, j - 1))) :
        j \in 1..r, l \in Idx(LANES)}
     \cup {Word(mem[p + 2] + g, Carry(rows))}

SegAddStores(mem, p, g) ==
  LET r == mem[p + 2]
  IN IF g = 0 THEN {}
     ELSE {Word(mem[p] + i, mem[mem[p] + i] + mem[mem[p + 1] + g - 1]) :
             i \in (g * r * LANES) .. ((g + 1) * r * LANES - 1)}

ZbStores(mem, p, t) ==
  LET a == mem[mem[p] + t]
      b == mem[mem[p + 1] + t]
      sel == b % 2
      Pick(first, x, y) == IF first THEN x ELSE y
      r == <<2 * a + b, 4 * a + b, 8 * a + b,
             Pick(Signed(a) < Signed(b), a, b), Pick(a < b, a, b),
             Pick(Signed(a) > Signed(b), a, b), Pick(a > b, a, b),
             Pick(sel = 0, 0, a), Pick(sel # 0, 0, a)>>
  IN {Word(mem[p + 2] + 9 * t + i, r[i + 1]) : i \in 0..8}

ByteOf(w, i) == (w \div 2^(BB * i)) % 2^BB
SByte(w, i)  == LET b == ByteOf(w, i) IN IF b >= 2^(BB - 1) THEN b - 2^BB ELSE b
pdot8(x, y)  == SumTo([i \in Idx(4) |-> SByte(x, i) * SByte(y, i)], 4)

MlpStores(mem, p, t) ==
  LET kp  == mem[p + 3]
      n   == 2^mem[p + 4]
      acc == SumTo([kk \in Idx(kp) |-> pdot8(mem[mem[p] + (t \div n) * kp + kk],
                                             mem[mem[p + 1] + kk * n + (t % n)])], kp)
      f   == HwMadd(HwFromInt(acc), mem[p + 5], mem[p + 6])
      q   == HwToInt(HwMax(HwMin(f, F127), 0))
  IN IF mem[p + 7] = 0 THEN {Word(mem[p + 2] + t, acc)}
     ELSE {<<mem[p + 2] + t \div 4, t % 4, q>>}

(* The stores of unit u of a kernel that only loads and then stores; its   *)
(* lanes are the threads ts.                                               *)
StoresOf(kernel, mem, p, ts, u) ==
  CASE kernel = "scan_seg"    -> SegStores(mem, p, u)
    [] kernel = "scan_segadd" -> SegAddStores(mem, p, u)
    [] kernel = "gemm"        -> UNION {GemmStores(mem, p, t) : t \in ts}
    [] kernel = "gemm_rb"     -> UNION {GemmRbStores(mem, p, t) : t \in ts}
    [] kernel \in {"spmv", "spmv_z"} -> UNION {SpmvStores(mem, p, t) : t \in ts}
    [] kernel = "stencil"     -> UNION {StencilStores(mem, p, t) : t \in ts}
    [] kernel = "stencil_rb"  -> UNION {StencilRbStores(mem, p, t) : t \in ts}
    [] kernel = "scan_add"    -> UNION {ScanAddStores(mem, p, t) : t \in ts}
    [] kernel = "zbtest"      -> UNION {ZbStores(mem, p, t) : t \in ts}
    [] kernel = "mlp"         -> UNION {MlpStores(mem, p, t) : t \in ts}

(* Memory after a set of stores.                                           *)
SetPart(w, part, v) ==
  IF part = Whole THEN v ELSE w + (v - ByteOf(w, part)) * 2^(BB * part)
Stored(mem, stores) ==
  [a \in DOMAIN mem |->
     LET here == SetToSeq({s \in stores : s[1] = a})
     IN FoldLeft(LAMBDA w, s : SetPart(w, s[2], s[3]), mem[a], here)]
=============================================================================
