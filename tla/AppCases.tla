------------------------------ MODULE AppCases ------------------------------
(***************************************************************************)
(* sim/gen_apps.py: the DDR4 image, the launches and the expected words of *)
(* every application case.  Arrays are functions from 0, addresses count   *)
(* words, a word has W = 4 * BB bits.  Random draws come from a stream     *)
(* rng, a function from draw number to a natural.                          *)
(***************************************************************************)
EXTENDS Fp32, Sequences, SequencesExt

CONSTANTS LANES,       \* --lanes
          BB,          \* bits of a byte; a word packs four
          ImageWords,  \* words of each kernel's .hex image
          IRAM_WORDS,  \* words of the instruction RAM
          DRAW         \* bits of a random draw below 1 (52 of a double)

ASSUME LanesAssumption == LANES \in Nat \ {0}

W      == 4 * BB
Mask   == 2^W
UNSEEN == Mask - 1
Idx(n)  == 0 .. (n - 1)
Iota(n) == [i \in 1..n |-> i - 1]
Arr(s)  == [i \in Idx(Len(s)) |-> s[i + 1]]
Zeros(n) == [i \in Idx(n) |-> 0]
Size(a) == Cardinality(DOMAIN a)
CeilDiv(a, b) == (a + b - 1) \div b
Log2(n) == BitLength(n) - 1
Signed(v) == IF v >= Mask \div 2 THEN v - Mask ELSE v
SumTo(f, n) == FoldLeft(LAMBDA acc, i : acc + f[i], 0, Iota(n))

----------------------------------------------------------------------------
(* Kernel images in 16-word slots of the instruction RAM, in KERNELS order *)
KERNELS == <<"gemm", "spmv", "stencil", "kmeans", "bfs", "scan", "scan_add",
             "mlp", "gemm_rb", "scan_seg", "scan_segadd", "stencil_rb",
             "kmeans_u", "zbtest", "spmv_z">>

(* Mutant: the last, partly filled slot of an image is not counted.        *)
SlotsOfFloor(n) == n \div 16
SlotsOf(n) == CeilDiv(n, 16)

place_kernels ==
  FoldLeft(LAMBDA acc, k : [slot |-> [acc.slot EXCEPT ![k] = acc.s],
                            s |-> acc.s + SlotsOf(ImageWords[k])],
           [slot |-> [k \in ToSet(KERNELS) |-> 0], s |-> 0], KERNELS)
SLOTS == place_kernels.slot
KernelsFit == 16 * place_kernels.s <= IRAM_WORDS

----------------------------------------------------------------------------
(* Image and Case: allocated words, the top, the address of the latest     *)
(* buffer; launches and expected words.                                    *)
LineWords == 8                                   \* 32 bytes
EmptyCase(name) == [name |-> name, words |-> [a \in {} |-> 0], top |-> 0,
                    at |-> 0, launches |-> <<>>, gold |-> [a \in {} |-> 0]]

Put(f, addr, vals) ==
  LET new == {addr + i : i \in DOMAIN vals}
  IN [a \in DOMAIN f \cup new |->
        IF a \in new THEN vals[a - addr] % Mask ELSE f[a]]

AllocAt(c, addr, vals) ==
  [c EXCEPT !.words = Put(@, addr, vals), !.at = addr,
            !.top = addr + CeilDiv(Size(vals), LineWords) * LineWords]
alloc(c, vals) == AllocAt(c, c.top, vals)

launch(c, kernel, params, threads, blk) ==
  LET p == alloc(c, Arr(params))
  IN [p EXCEPT !.launches = Append(@, [slot |-> SLOTS[kernel], kernel |-> kernel,
                                       prm |-> p.at, n |-> threads, blk |-> blk])]

expect(c, addr, vals) == [c EXCEPT !.gold = Put(@, addr, vals)]

----------------------------------------------------------------------------
(* Applications.  rng.uniform(-1, 1) is -1 + 2 * random(): a multiple of   *)
(* 2^-DRAW in [-1, 1), zero included, then rounded to FP32.                *)
rand_f32(r) == fr2f(Reduced((r % 2^(DRAW + 1)) - 2^DRAW, 2^DRAW))

gemm(rng, m, n, k, blocked) ==
  LET a  == [i \in Idx(m * k) |-> rand_f32(rng[i])]
      b  == [i \in Idx(k * n) |-> rand_f32(rng[m * k + i])]
      ca == alloc(EmptyCase(IF blocked THEN "gemmrb" ELSE "gemm"), a)
      cb == alloc(ca, b)
      cc == alloc(cb, Zeros(m * n))
      prm == <<ca.at, cb.at, cc.at, k, Log2(n)>>
      l  == IF blocked THEN launch(cc, "gemm_rb", prm, (m * n) \div 16, 0)
            ELSE launch(cc, "gemm", prm, m * n, 0)
      out == [i \in Idx(m * n) |->
                FoldLeft(LAMBDA acc, kk : fma(a[(i \div n) * k + kk],
                                              b[kk * n + (i % n)], acc),
                         0, Iota(k))]
  IN expect(l, cc.at, out)

spmv(rng, rows, cols, maxnnz, zba) ==
  LET nz     == [r \in Idx(rows) |-> rng[r] % (maxnnz + 1)]
      rowptr == [r \in 0..rows |-> SumTo(nz, r)]
      RowOf(j)    == CHOOSE r \in Idx(rows) : rowptr[r] <= j /\ j < rowptr[r + 1]
      Sample(r)   == {(rng[rows + r] + i) % cols : i \in Idx(nz[r])}
      col == [j \in Idx(rowptr[rows]) |->
                LET r == RowOf(j)
                IN SetToSortSeq(Sample(r), LAMBDA x, y : x < y)[j - rowptr[r] + 1]]
      val == [j \in DOMAIN col |-> rand_f32(rng[2 * rows + j])]
      x   == [i \in Idx(cols) |-> rand_f32(rng[2 * rows + rows * maxnnz + i])]
      Or0(a) == IF DOMAIN a = {} THEN Zeros(1) ELSE a
      cr == alloc(EmptyCase(IF zba THEN "spmvz" ELSE "spmv"), rowptr)
      cc == alloc(cr, Or0(col))
      cv == alloc(cc, Or0(val))
      cx == alloc(cv, x)
      cy == alloc(cx, Zeros(rows))
      l  == launch(cy, IF zba THEN "spmv_z" ELSE "spmv",
                   <<cr.at, cc.at, cv.at, cx.at, cy.at>>, rows, 0)
      y  == [r \in Idx(rows) |->
               FoldLeft(LAMBDA acc, i : fma(val[rowptr[r] + i],
                                            x[col[rowptr[r] + i]], acc),
                        0, Iota(nz[r]))]
  IN expect(l, cy.at, y)

Half == fr2f(<<1, 2>>)
Eighth == fr2f(<<1, 8>>)
(* Mutant: every sweep reads and writes the same buffer.                   *)
SweepBufSame(bufs, t) == bufs[1]
SweepBuf(bufs, t) == bufs[(t % 2) + 1]
(* rows = 0: stencil.S; else stencil_rb.S with strips of `rows` points.    *)
stencil(rng, h, w, sweeps, rows) ==
  LET s    == w + 2 * LANES
      grid == [i \in Idx((h + 2) * s) |-> rand_f32(rng[i])]
      c1   == alloc(EmptyCase(IF rows > 0 THEN "stencilrb" ELSE "stencil"), grid)
      c2   == alloc(c1, grid)
      bufs == <<c1.at, c2.at>>
      Buf(t) == SweepBuf(bufs, t)
      Launch(c, t) ==
        IF rows > 0
        THEN launch(c, "stencil_rb", <<Buf(t), Buf(t + 1), Log2(w), s, Half, Eighth, rows>>,
                    (h \div rows) * w, 0)
        ELSE launch(c, "stencil", <<Buf(t), Buf(t + 1), Log2(w), s, Half, Eighth>>, h * w, 0)
      Interior == {(i + 1) * s + LANES + j : i \in Idx(h), j \in Idx(w)}
      Sweep(cur) ==
        [p \in DOMAIN cur |->
           IF p \notin Interior THEN cur[p]
           ELSE LET sm == fadd(fadd(cur[p - s], cur[p + s]), fadd(cur[p - 1], cur[p + 1]))
                IN fma(Eighth, sm, fmul(Half, cur[p]))]
      end == FoldLeft(LAMBDA acc, t : [c |-> Launch(acc.c, t), cur |-> Sweep(acc.cur)],
                      [c |-> c2, cur |-> grid], Iota(sweeps))
  IN expect(end.c, Buf(sweeps), end.cur)

(* Coordinates stay below 2^Coord, so that a distance is a positive word.  *)
Coord == (W - 4) \div 2
kmeans(rng, npts, k, two) ==
  LET px == [i \in Idx(npts) |-> rng[i] % 2^Coord]
      py == [i \in Idx(npts) |-> rng[npts + i] % 2^Coord]
      seeds == [j \in Idx(k) |-> (rng[2 * npts] + j) % npts]
      cx == [j \in Idx(k) |-> px[seeds[j]]]
      cy == [j \in Idx(k) |-> py[seeds[j]]]
      a1 == alloc(EmptyCase(IF two THEN "kmeansu" ELSE "kmeans"), px)
      a2 == alloc(a1, py)
      a3 == alloc(a2, cx)
      a4 == alloc(a3, cy)
      a5 == alloc(a4, Zeros(npts))
      a6 == alloc(a5, Zeros(k))
      a7 == alloc(a6, Zeros(k))
      a8 == alloc(a7, Zeros(k))
      l  == launch(a8, IF two THEN "kmeans_u" ELSE "kmeans",
                   <<a1.at, a2.at, a3.at, a4.at, k, a5.at, a6.at, a7.at, a8.at>>,
                   IF two THEN npts \div 2 ELSE npts, 0)
      d(i, j) == (px[i] - cx[j])^2 + (py[i] - cy[j])^2
      best == [i \in Idx(npts) |->
                 CHOOSE j \in Idx(k) : /\ \A h \in Idx(k) : d(i, j) <= d(i, h)
                                       /\ \A h \in Idx(j) : d(i, h) > d(i, j)]
      Sums(v) == [j \in Idx(k) |->
                    SumTo([i \in Idx(npts) |-> IF best[i] = j THEN v[i] ELSE 0], npts)]
  IN expect(expect(expect(expect(l, a5.at, best), a6.at, Sums(px)),
                   a7.at, Sums(py)), a8.at, Sums([i \in Idx(npts) |-> 1]))

(* par: the random tree, par[v] < v; extra: the further edges drawn.       *)
bfs(par, extra) ==
  LET nv  == Size(par) + 1
      Edge(u, v) == \/ v > 0 /\ par[v] = u
                    \/ <<u, v>> \in extra /\ u # v
      adj == [v \in Idx(nv) |-> {u \in Idx(nv) : Edge(u, v) \/ Edge(v, u)}]
      deg == [v \in Idx(nv) |-> Cardinality(adj[v])]
      rowptr == [v \in 0..nv |-> SumTo(deg, v)]
      col == Arr(FlattenSeq([i \in 1..nv |-> SetToSortSeq(adj[i - 1], LAMBDA x, y : x < y)]))
      level == [v \in Idx(nv) |-> IF v = 0 THEN 0 ELSE UNSEEN]
      c1 == alloc(EmptyCase("bfs"), rowptr)
      c2 == alloc(c1, col)
      c3 == alloc(c2, level)
      Round(acc, L) ==
        IF acc.stop THEN acc
        ELSE LET f == alloc(acc.c, Zeros(1))
                 l == launch(f, "bfs", <<c1.at, c2.at, c3.at, L, f.at>>, nv, 0)
                 nxt == {u \in Idx(nv) : acc.lev[u] = UNSEEN
                                          /\ \E v \in acc.frontier : u \in adj[v]}
             IN [c |-> expect(l, f.at, Arr(<<IF nxt = {} THEN 0 ELSE 1>>)),
                 lev |-> [u \in Idx(nv) |-> IF u \in nxt THEN L + 1 ELSE acc.lev[u]],
                 frontier |-> nxt, stop |-> nxt = {}]
      end == FoldLeft(Round, [c |-> c3, lev |-> level, frontier |-> {0}, stop |-> FALSE],
                      Iota(nv))
  IN expect(end.c, c3.at, end.lev)

zbtest(rng, n) ==
  LET edge == <<0, 1, Mask \div 2 - 1, Mask \div 2, Mask - 1, Mask - 2>>
      Pick(i) == IF rng[2 * i] % 5 = 0 THEN edge[(rng[2 * i + 1] % 6) + 1]
                 ELSE (rng[2 * i + 1] * 263) % Mask
      a == [i \in Idx(n) |-> Pick(i)]
      b == [i \in Idx(n) |-> Pick(n + i)]
      c1 == alloc(EmptyCase("zbtest"), a)
      c2 == alloc(c1, b)
      c3 == alloc(c2, Zeros(9 * n))
      l  == launch(c3, "zbtest", <<c1.at, c2.at, c3.at>>, n, 0)
      Ops(x, y) == <<(y + 2 * x) % Mask, (y + 4 * x) % Mask, (y + 8 * x) % Mask,
                     IF Signed(x) < Signed(y) THEN x ELSE y, IF x < y THEN x ELSE y,
                     IF Signed(x) > Signed(y) THEN x ELSE y, IF x > y THEN x ELSE y,
                     IF y % 2 = 0 THEN 0 ELSE x, IF y % 2 = 1 THEN 0 ELSE x>>
  IN expect(l, c3.at, [i \in Idx(9 * n) |-> Ops(a[i \div 9], b[i \div 9])[(i % 9) + 1]])

----------------------------------------------------------------------------
(* The INT8 network.  MaxI8 and F127 stand for 127 and 127.0f.             *)
MaxI8 == 2^(BB - 1) - 1
F127  == fr2f(FrInt(MaxI8))

requant(acc, scale, zp) ==
  LET v  == f2fr(fma(fr2f(FrInt(acc)), scale, zp))
      v0 == IF FrLt(v, FrInt(0)) THEN FrInt(0) ELSE v
      v1 == IF FrLt(f2fr(F127), v0) THEN f2fr(F127) ELSE v0
  IN RoundHalfEven(v1)

pack8(vals) ==
  [j \in Idx(Size(vals) \div 4) |->
     SumTo([i \in Idx(4) |-> (vals[4 * j + i] % 2^BB) * 2^(BB * i)], 4)]

mlp(rng, batch, dims, scale, zp) ==
  LET k0 == dims[1]
      x0 == [i \in Idx(batch * k0) |-> rng[i] % 2^(BB - 1)]
      c0 == alloc(EmptyCase("mlp"), pack8(x0))
      Layer(acc, li) ==
        LET n    == dims[li + 2]
            npad == MaxOf(8, 2^BitLength(n - 1))
            last == li = Len(dims) - 2
            k    == acc.k
            w    == [i \in Idx(k * npad) |->
                       IF i % npad < n THEN (rng[100 * (li + 1) + i] % 2^(BB - 1)) - 2^(BB - 2)
                       ELSE 0]
            wp   == [i \in Idx((k \div 4) * npad) |->
                       pack8([j \in Idx(4) |-> w[(4 * (i \div npad) + j) * npad + (i % npad)]])[0]]
            cw   == alloc(acc.c, wp)
            co   == alloc(cw, Zeros(IF last THEN batch * npad ELSE (batch * npad) \div 4))
            l    == launch(co, "mlp", <<acc.px, cw.at, co.at, k \div 4, Log2(npad), scale, zp,
                                        IF last THEN 0 ELSE 1>>, batch * npad, 0)
            sums == [i \in Idx(batch * npad) |->
                       SumTo([kk \in Idx(k) |-> acc.x[(i \div npad) * k + kk]
                                                * w[kk * npad + (i % npad)]], k)]
            y    == [i \in DOMAIN sums |-> requant(sums[i], scale, zp)]
        IN [c  |-> expect(l, co.at, IF last THEN sums ELSE pack8(y)),
            x  |-> y, px |-> co.at, k |-> npad]
      end == FoldLeft(Layer, [c |-> c0, x |-> x0, px |-> c0.at, k |-> k0],
                      Iota(Len(dims) - 1))
  IN end.c
=============================================================================
