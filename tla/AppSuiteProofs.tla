--------------------------- MODULE AppSuiteProofs ---------------------------
(***************************************************************************)
(* Proofs about the application suite, for every number of lanes, every    *)
(* arithmetic and every content of the buffers. The static layout of a     *)
(* case (which words its kernels read and store, given the parameters and  *)
(* indices in its image) decides whether its launches race:                *)
(*   - a unit's stores are a function of the words it reads, and the words *)
(*     it reads and stores are a function of parameters and indices        *)
(*     (KernelSame, ReadsSame, SpotsSame);                                 *)
(*   - WellLaid, that no unit of a launch stores what another one reads or *)
(*     stores, or a parameter or index, is enough for LaidInv to be        *)
(*     inductive, and LaidInv gives NoRace and LaunchSound;                *)
(*   - gemm of the generator builds well laid out cases of every size.     *)
(***************************************************************************)
EXTENDS AppSuite, FiniteSetTheorems, SequenceTheorems, TLAPS

(* The launches the theorems speak of: all kernels but those that update   *)
(* words by AMOs.                                                          *)
Plain == {"gemm", "gemm_rb", "spmv", "spmv_z", "stencil", "stencil_rb", "scan", "scan_add",
          "scan_seg", "scan_segadd", "zbtest", "mlp"}

(* The parameter block at p, and the words of the row pointers and columns *)
(* that say which words an SpMV reads.                                     *)
ParamsAt(p) == p .. (p + 7)
Index(k, m, p, ts) ==
  IF k \in {"spmv", "spmv_z"}
  THEN UNION {{m[p] + t, m[p] + t + 1}
              \cup {m[p + 1] + m[m[p] + t] + i - 1 : i \in 1 .. (m[m[p] + t + 1] - m[m[p] + t])} : t \in ts}
  ELSE {}

(* The words a unit reads besides: lanes ts of unit u.                     *)
DotReads(a, sa, b, sb, n) == {a + (i - 1) * sa : i \in 1 .. n} \cup {b + (i - 1) * sb : i \in 1 .. n}
PointReads(m, p, x) == LET in == m[p] + x IN {in - m[p + 3], in - 1, in, in + 1, in + m[p + 3]}
GemmReads(m, p, t) ==
  DotReads(m[p] + (t \div 2^m[p + 4]) * m[p + 3], 1, m[p + 1] + (t % 2^m[p + 4]), 2^m[p + 4], m[p + 3])
GemmRbReads(m, p, t) ==
  LET n  == 2^m[p + 4]
      nb == n \div (4 * LANES)
      w  == t \div LANES
      r0 == 4 * (w \div nb)
      c0 == (w % nb) * 4 * LANES + (t % LANES)
  IN  UNION {DotReads(m[p] + (r0 + i) * m[p + 3], 1, m[p + 1] + c0 + j * LANES, n, m[p + 3]) :
               i \in 0..3, j \in 0..3}
SpmvReads(m, p, t) ==
  UNION {{m[p + 2] + m[m[p] + t] + i - 1, m[p + 3] + m[m[p + 1] + m[m[p] + t] + i - 1]} :
           i \in 1 .. (m[m[p] + t + 1] - m[m[p] + t])}
StencilReads(m, p, t) ==
  PointReads(m, p, (t \div 2^m[p + 2] + 1) * m[p + 3] + (t % 2^m[p + 2]) + LANES)
StencilRbReads(m, p, t) ==
  UNION {PointReads(m, p, ((t \div 2^m[p + 2]) * m[p + 6] + i + 1) * m[p + 3] + (t % 2^m[p + 2]) + LANES) :
           i \in Idx(m[p + 6])}
ScanAddReads(m, p, t) ==
  IF t \div (4 * LANES) = 0 THEN {} ELSE {m[p] + t, m[p + 1] + t \div (4 * LANES) - 1}
ZbReads(m, p, t) == {m[p] + t, m[p + 1] + t}
MlpReads(m, p, t) ==
  LET n == 2^m[p + 4]
  IN  UNION {{m[p] + (t \div n) * m[p + 3] + i, m[p + 1] + i * n + (t % n)} : i \in Idx(m[p + 3])}
SegReads(m, p, g) ==
  {m[p] + g * m[p + 3] * LANES + (j - 1) * LANES + l : j \in 1 .. m[p + 3], l \in Idx(LANES)}
SegAddReads(m, p, g) ==
  IF g = 0 THEN {}
  ELSE {m[p + 1] + g - 1} \cup {m[p] + i : i \in (g * m[p + 2] * LANES) .. ((g + 1) * m[p + 2] * LANES - 1)}
Reads(k, m, p, ts, u) ==
  CASE k = "scan_seg"    -> SegReads(m, p, u)
    [] k = "scan_segadd" -> SegAddReads(m, p, u)
    [] k = "gemm"        -> UNION {GemmReads(m, p, t) : t \in ts}
    [] k = "gemm_rb"     -> UNION {GemmRbReads(m, p, t) : t \in ts}
    [] k \in {"spmv", "spmv_z"} -> UNION {SpmvReads(m, p, t) : t \in ts}
    [] k = "stencil"     -> UNION {StencilReads(m, p, t) : t \in ts}
    [] k = "stencil_rb"  -> UNION {StencilRbReads(m, p, t) : t \in ts}
    [] k = "scan_add"    -> UNION {ScanAddReads(m, p, t) : t \in ts}
    [] k = "zbtest"      -> UNION {ZbReads(m, p, t) : t \in ts}
    [] k = "mlp"         -> UNION {MlpReads(m, p, t) : t \in ts}
    [] OTHER             -> {}

----------------------------------------------------------------------------
(* A case, its memory at the start and its launches.                       *)
Image(c)      == [a \in Idx(c.top) |-> IF a \in DOMAIN c.words THEN c.words[a] ELSE 0]
KernelOf(L)   == KernelAt[L.slot]
UnitsOf(L)    == Idx(CeilDiv(L.n, LANES))
ThreadsOf(L, u) == {t \in (u * LANES) .. ((u + 1) * LANES - 1) : t < L.n}
IndexOf(c, L, u) == Index(KernelOf(L), Image(c), L.prm, ThreadsOf(L, u))
ReadsOf(c, L, u) == Reads(KernelOf(L), Image(c), L.prm, ThreadsOf(L, u), u)
(* The words and bytes a unit stores.                                      *)
Spots(stores) == {<<s[1], s[2]>> : s \in stores}
ScanSpots(m, p, blk, u) ==
  {<<m[p + 1] + u * LANES + l, Whole>> : l \in Idx(LANES)}
  \cup (IF u % 2^blk = 3 THEN {<<m[p + 2] + u \div 2^blk, Whole>>} ELSE {})
SpotsOf(c, L, u) ==
  IF KernelOf(L) = "scan" THEN ScanSpots(Image(c), L.prm, L.blk, u)
  ELSE Spots(StoresOf(KernelOf(L), Image(c), L.prm, ThreadsOf(L, u), u))
(* The words that say what is read and stored: parameters and indices.     *)
Fixed(c) == UNION {ParamsAt(L.prm) \cup UNION {IndexOf(c, L, u) : u \in UnitsOf(L)} : L \in ToSet(c.launches)}

(* A case is well laid out if its launches run plain kernels, each unit    *)
(* reads words of the memory and stores to allocated ones, never to        *)
(* parameters or indices, and no unit stores to what another unit of the   *)
(* launch reads or stores.                                                 *)
LaunchLaid(c, L) ==
  /\ KernelOf(L) \in Plain /\ L.n \in Nat /\ L.prm \in Nat
  /\ ParamsAt(L.prm) \subseteq Idx(c.top)
  /\ \A u \in UnitsOf(L) :
       /\ IndexOf(c, L, u) \cup ReadsOf(c, L, u) \subseteq Idx(c.top)
       /\ \A s \in SpotsOf(c, L, u) : s[1] \in DOMAIN c.words \ Fixed(c)
       /\ \A v \in UnitsOf(L) \ {u} :
            /\ SpotsOf(c, L, u) \cap SpotsOf(c, L, v) = {}
            /\ \A s \in SpotsOf(c, L, v) : s[1] \notin ReadsOf(c, L, u)
WellLaid(c) ==
  /\ \E S : c.launches \in Seq(S)
  /\ \A L \in ToSet(c.launches) : LaunchLaid(c, L)

Agree(m, h, S) == \A a \in S : m[a] = h[a]

(* A unit that has loaded is to store what it would load and compute now.  *)
UnitGood(s, m, u) ==
  /\ DOMAIN s = {"pc", "stores", "amo", "v", "j"} /\ s.amo = <<>>
  /\ s.pc \in {"load", "bar", "store", "end"}
  /\ s.pc = "bar" => Kernel = "scan"
  /\ s.pc # "store" => s.stores = {}
  /\ s.pc = "store" =>
       /\ Spots(s.stores) = SpotsOf(case, Launch, u)
       /\ Kernel # "scan" => s.stores = StoresOf(Kernel, m, prm, Threads(u), u)
MemLaid(m) == DOMAIN m = Idx(case.top) /\ Agree(Image(case), m, Fixed(case))
UnitsGood == DOMAIN st = UnitsOf(Launch) /\ \A u \in DOMAIN st : UnitGood(st[u], mem, u)
LaidInv ==
  WellLaid(case) => li \in Nat \ {0} /\ MemLaid(mem) /\ (Running => UnitsGood)

----------------------------------------------------------------------------
(* Memories that agree where a unit looks make it store the same.          *)
LEMMA DotSame ==
  ASSUME NEW m, NEW h, NEW a, NEW sa, NEW b, NEW sb, NEW n, Agree(m, h, DotReads(a, sa, b, sb, n))
  PROVE  Dot(m, a, sa, b, sb, n) = Dot(h, a, sa, b, sb, n)
<1>1. \A i \in 1 .. n : m[a + (i - 1) * sa] = h[a + (i - 1) * sa] /\ m[b + (i - 1) * sb] = h[b + (i - 1) * sb]
  BY DEF Agree, DotReads
<1>2. [i \in 1..n |-> <<m[a + (i - 1) * sa], m[b + (i - 1) * sb]>>]
        = [i \in 1..n |-> <<h[a + (i - 1) * sa], h[b + (i - 1) * sb]>>]
  BY <1>1
<1> QED BY <1>2 DEF Dot

(* The eight words of a parameter block.                                   *)
LEMMA ParamsSame ==
  ASSUME NEW m, NEW h, NEW p \in Nat, Agree(m, h, ParamsAt(p))
  PROVE  /\ m[p] = h[p] /\ m[p + 1] = h[p + 1] /\ m[p + 2] = h[p + 2] /\ m[p + 3] = h[p + 3]
         /\ m[p + 4] = h[p + 4] /\ m[p + 5] = h[p + 5] /\ m[p + 6] = h[p + 6] /\ m[p + 7] = h[p + 7]
<1>1. {p, p + 1, p + 2, p + 3, p + 4, p + 5, p + 6, p + 7} \subseteq ParamsAt(p) BY DEF ParamsAt
<1> QED BY <1>1 DEF Agree

(* gemm.S and gemm_rb.S: a thread's stores depend on its reads alone.      *)
LEMMA GemmSame ==
  ASSUME NEW m, NEW h, NEW p \in Nat, NEW t, Agree(m, h, ParamsAt(p)), Agree(m, h, GemmReads(m, p, t))
  PROVE  GemmStores(m, p, t) = GemmStores(h, p, t)
<1>1. /\ m[p] = h[p] /\ m[p + 1] = h[p + 1] /\ m[p + 2] = h[p + 2] /\ m[p + 3] = h[p + 3]
      /\ m[p + 4] = h[p + 4]
  BY ParamsSame
<1> DEFINE D(x) == Dot(x, m[p] + (t \div 2^m[p + 4]) * m[p + 3], 1, m[p + 1] + (t % 2^m[p + 4]), 2^m[p + 4], m[p + 3])
<1>2. D(m) = D(h) BY DotSame DEF GemmReads
<1>3. GemmStores(m, p, t) = {Word(m[p + 2] + t, D(m))} BY DEF GemmStores
<1>4. GemmStores(h, p, t) = {Word(m[p + 2] + t, D(h))} BY <1>1 DEF GemmStores
<1> QED BY <1>2, <1>3, <1>4

LEMMA GemmRbSame ==
  ASSUME NEW m, NEW h, NEW p \in Nat, NEW t, Agree(m, h, ParamsAt(p)), Agree(m, h, GemmRbReads(m, p, t))
  PROVE  GemmRbStores(m, p, t) = GemmRbStores(h, p, t)
<1>1. /\ m[p] = h[p] /\ m[p + 1] = h[p + 1] /\ m[p + 2] = h[p + 2] /\ m[p + 3] = h[p + 3]
      /\ m[p + 4] = h[p + 4]
  BY ParamsSame
<1> DEFINE n  == 2^m[p + 4]
           nb == n \div (4 * LANES)
           w  == t \div LANES
           r0 == 4 * (w \div nb)
           c0 == (w % nb) * 4 * LANES + (t % LANES)
           R(i, j) == DotReads(m[p] + (r0 + i) * m[p + 3], 1, m[p + 1] + c0 + j * LANES, n, m[p + 3])
           D(x, i, j) == Dot(x, m[p] + (r0 + i) * m[p + 3], 1, m[p + 1] + c0 + j * LANES, n, m[p + 3])
           A(i, j) == m[p + 2] + (r0 + i) * n + c0 + j * LANES
<1>2. GemmRbReads(m, p, t) = UNION {R(i, j) : i \in 0..3, j \in 0..3} BY DEF GemmRbReads
<1>3. GemmRbStores(m, p, t) = {Word(A(i, j), D(m, i, j)) : i \in 0..3, j \in 0..3} BY DEF GemmRbStores
<1>4. GemmRbStores(h, p, t) = {Word(A(i, j), D(h, i, j)) : i \in 0..3, j \in 0..3} BY <1>1 DEF GemmRbStores
<1>5. ASSUME NEW i \in 0..3, NEW j \in 0..3 PROVE D(m, i, j) = D(h, i, j)
  <2>1. Agree(m, h, R(i, j)) BY <1>2 DEF Agree
  <2> QED BY <2>1, DotSame
<1> HIDE DEF A, D
<1> QED BY <1>3, <1>4, <1>5

(* spmv.S: on row pointers, columns and what they lead to.                 *)
LEMMA SpmvSame ==
  ASSUME NEW m, NEW h, NEW p \in Nat, NEW t, Agree(m, h, ParamsAt(p)), Agree(m, h, SpmvReads(m, p, t)),
         Agree(m, h, Index("spmv", m, p, {t}))
  PROVE  SpmvStores(m, p, t) = SpmvStores(h, p, t)
<1>1. /\ m[p] = h[p] /\ m[p + 1] = h[p + 1] /\ m[p + 2] = h[p + 2] /\ m[p + 3] = h[p + 3]
      /\ m[p + 4] = h[p + 4]
  BY ParamsSame
<1>2. m[m[p] + t] = h[m[p] + t] /\ m[m[p] + t + 1] = h[m[p] + t + 1] BY DEF Index, Agree
<1> DEFINE N == 1 .. (m[m[p] + t + 1] - m[m[p] + t])
           f == m[m[p] + t]
           P(x) == [i \in N |-> <<x[m[p + 2] + f + i - 1], x[m[p + 3] + x[m[p + 1] + f + i - 1]]>>]
<1>3. \A i \in N : m[m[p + 1] + f + i - 1] = h[m[p + 1] + f + i - 1]
  BY DEF Index, Agree
<1>4. \A i \in N : /\ m[m[p + 2] + f + i - 1] = h[m[p + 2] + f + i - 1]
                   /\ m[m[p + 3] + m[m[p + 1] + f + i - 1]] = h[m[p + 3] + m[m[p + 1] + f + i - 1]]
  BY DEF SpmvReads, Agree
<1>5. P(m) = P(h) BY <1>3, <1>4
<1>6. SpmvStores(m, p, t) = {Word(m[p + 4] + t, MaddAll(P(m)))} BY DEF SpmvStores
<1>7. SpmvStores(h, p, t) = {Word(m[p + 4] + t, MaddAll(P(h)))} BY <1>1, <1>2 DEF SpmvStores
<1> QED BY <1>5, <1>6, <1>7

(* The stencil kernels: on the five points.                                *)
LEMMA PointSame ==
  ASSUME NEW m, NEW h, NEW p \in Nat, NEW x, Agree(m, h, ParamsAt(p)), Agree(m, h, PointReads(m, p, x))
  PROVE  Point(m, p, x) = Point(h, p, x)
<1>1. /\ m[p] = h[p] /\ m[p + 1] = h[p + 1] /\ m[p + 2] = h[p + 2] /\ m[p + 3] = h[p + 3]
      /\ m[p + 4] = h[p + 4] /\ m[p + 5] = h[p + 5]
  BY ParamsSame
<1> DEFINE in == m[p] + x
           s  == m[p + 3]
<1>2. m[in - s] = h[in - s] /\ m[in + s] = h[in + s] /\ m[in - 1] = h[in - 1] /\ m[in + 1] = h[in + 1] /\ m[in] = h[in]
  BY DEF PointReads, Agree
<1> QED BY <1>1, <1>2 DEF Point
LEMMA StencilSame ==
  ASSUME NEW m, NEW h, NEW p \in Nat, NEW t, Agree(m, h, ParamsAt(p)), Agree(m, h, StencilReads(m, p, t))
  PROVE  StencilStores(m, p, t) = StencilStores(h, p, t)
<1>1. m[p + 2] = h[p + 2] /\ m[p + 3] = h[p + 3] BY ParamsSame
<1> DEFINE x == (t \div 2^m[p + 2] + 1) * m[p + 3] + (t % 2^m[p + 2]) + LANES
<1>2. Point(m, p, x) = Point(h, p, x) BY PointSame DEF StencilReads
<1>3. StencilStores(m, p, t) = {Point(m, p, x)} BY DEF StencilStores
<1>4. StencilStores(h, p, t) = {Point(h, p, x)} BY <1>1 DEF StencilStores
<1> QED BY <1>2, <1>3, <1>4
LEMMA StencilRbSame ==
  ASSUME NEW m, NEW h, NEW p \in Nat, NEW t, Agree(m, h, ParamsAt(p)), Agree(m, h, StencilRbReads(m, p, t))
  PROVE  StencilRbStores(m, p, t) = StencilRbStores(h, p, t)
<1>1. m[p + 2] = h[p + 2] /\ m[p + 3] = h[p + 3] /\ m[p + 6] = h[p + 6] BY ParamsSame
<1> DEFINE x(i) == ((t \div 2^m[p + 2]) * m[p + 6] + i + 1) * m[p + 3] + (t % 2^m[p + 2]) + LANES
<1>2. StencilRbReads(m, p, t) = UNION {PointReads(m, p, x(i)) : i \in Idx(m[p + 6])} BY DEF StencilRbReads
<1>3. StencilRbStores(m, p, t) = {Point(m, p, x(i)) : i \in Idx(m[p + 6])} BY DEF StencilRbStores
<1>4. StencilRbStores(h, p, t) = {Point(h, p, x(i)) : i \in Idx(m[p + 6])} BY <1>1 DEF StencilRbStores
<1>5. ASSUME NEW i \in Idx(m[p + 6]) PROVE Point(m, p, x(i)) = Point(h, p, x(i))
  <2>1. Agree(m, h, PointReads(m, p, x(i))) BY <1>2 DEF Agree
  <2> QED BY <2>1, PointSame
<1> HIDE DEF x
<1> QED BY <1>3, <1>4, <1>5

(* scan_add.S, zbtest.S, mlp.S, and the segmented scan by warps.           *)
LEMMA ScanAddSame ==
  ASSUME NEW m, NEW h, NEW p \in Nat, NEW t, Agree(m, h, ParamsAt(p)), Agree(m, h, ScanAddReads(m, p, t))
  PROVE  ScanAddStores(m, p, t) = ScanAddStores(h, p, t)
<1>1. m[p] = h[p] /\ m[p + 1] = h[p + 1] BY ParamsSame
<1> DEFINE b == t \div (4 * LANES)
<1>2. CASE b = 0 BY <1>2 DEF ScanAddStores
<1>3. CASE b # 0
  <2>1. m[m[p] + t] = h[m[p] + t] /\ m[m[p + 1] + b - 1] = h[m[p + 1] + b - 1]
    BY <1>3 DEF ScanAddReads, Agree
  <2> QED BY <1>1, <1>3, <2>1 DEF ScanAddStores
<1> QED BY <1>2, <1>3
LEMMA ZbSame ==
  ASSUME NEW m, NEW h, NEW p \in Nat, NEW t, Agree(m, h, ParamsAt(p)), Agree(m, h, ZbReads(m, p, t))
  PROVE  ZbStores(m, p, t) = ZbStores(h, p, t)
<1>1. m[p] = h[p] /\ m[p + 1] = h[p + 1] /\ m[p + 2] = h[p + 2] BY ParamsSame
<1>2. m[m[p] + t] = h[m[p] + t] /\ m[m[p + 1] + t] = h[m[p + 1] + t] BY DEF ZbReads, Agree
<1> DEFINE G(a, b) ==
             LET sel == b % 2
                 Pick(first, x, y) == IF first THEN x ELSE y
                 r == <<2 * a + b, 4 * a + b, 8 * a + b,
                        Pick(Signed(a) < Signed(b), a, b), Pick(a < b, a, b),
                        Pick(Signed(a) > Signed(b), a, b), Pick(a > b, a, b),
                        Pick(sel = 0, 0, a), Pick(sel # 0, 0, a)>>
             IN {Word(m[p + 2] + 9 * t + i, r[i + 1]) : i \in 0..8}
<1>3. ZbStores(m, p, t) = G(m[m[p] + t], m[m[p + 1] + t]) BY DEF ZbStores
<1>4. ZbStores(h, p, t) = G(h[m[p] + t], h[m[p + 1] + t]) BY <1>1 DEF ZbStores
<1> HIDE DEF G
<1> QED BY <1>2, <1>3, <1>4
LEMMA MlpSame ==
  ASSUME NEW m, NEW h, NEW p \in Nat, NEW t, Agree(m, h, ParamsAt(p)), Agree(m, h, MlpReads(m, p, t))
  PROVE  MlpStores(m, p, t) = MlpStores(h, p, t)
<1>1. /\ m[p] = h[p] /\ m[p + 1] = h[p + 1] /\ m[p + 2] = h[p + 2] /\ m[p + 3] = h[p + 3]
      /\ m[p + 4] = h[p + 4] /\ m[p + 5] = h[p + 5] /\ m[p + 6] = h[p + 6] /\ m[p + 7] = h[p + 7]
  BY ParamsSame
<1> DEFINE n == 2^m[p + 4]
           F(x) == [kk \in Idx(m[p + 3]) |-> pdot8(x[m[p] + (t \div n) * m[p + 3] + kk], x[m[p + 1] + kk * n + (t % n)])]
<1>2. \A i \in Idx(m[p + 3]) :
        /\ m[m[p] + (t \div n) * m[p + 3] + i] = h[m[p] + (t \div n) * m[p + 3] + i]
        /\ m[m[p + 1] + i * n + (t % n)] = h[m[p + 1] + i * n + (t % n)]
  BY DEF MlpReads, Agree
<1>3. F(m) = F(h) BY <1>2, Zenon
<1> DEFINE G(a) == LET q == HwToInt(HwMax(HwMin(HwMadd(HwFromInt(a), m[p + 5], m[p + 6]), F127), 0))
                   IN IF m[p + 7] = 0 THEN {Word(m[p + 2] + t, a)}
                      ELSE {<<m[p + 2] + t \div 4, t % 4, q>>}
<1>4. MlpStores(m, p, t) = G(SumTo(F(m), m[p + 3])) BY Zenon DEF MlpStores
<1>5. MlpStores(h, p, t) = G(SumTo(F(h), m[p + 3])) BY <1>1, Zenon DEF MlpStores
<1> QED BY <1>3, <1>4, <1>5
LEMMA SegSame ==
  ASSUME NEW m, NEW h, NEW p \in Nat, NEW g, Agree(m, h, ParamsAt(p)), Agree(m, h, SegReads(m, p, g))
  PROVE  SegStores(m, p, g) = SegStores(h, p, g)
<1>1. m[p] = h[p] /\ m[p + 1] = h[p + 1] /\ m[p + 2] = h[p + 2] /\ m[p + 3] = h[p + 3] BY ParamsSame
<1> DEFINE r == m[p + 3]
           base == g * r * LANES
           rows(x) == [j \in 1..r |-> ScanRow([l \in Idx(LANES) |-> x[m[p] + base + (j - 1) * LANES + l]])]
           T(rs) == {Word(m[p + 1] + base + (j - 1) * LANES + l, rs[j][l] + Carry(SubSeq(rs, 1, j - 1))) :
                      j \in 1..r, l \in Idx(LANES)}
                    \cup {Word(m[p + 2] + g, Carry(rs))}
<1>2. \A j \in 1..r : \A l \in Idx(LANES) :
        m[m[p] + base + (j - 1) * LANES + l] = h[m[p] + base + (j - 1) * LANES + l]
  BY DEF SegReads, Agree
<1>3. \A j \in 1..r : [l \in Idx(LANES) |-> m[m[p] + base + (j - 1) * LANES + l]]
                        = [l \in Idx(LANES) |-> h[m[p] + base + (j - 1) * LANES + l]]
  BY <1>2, Zenon
<1>4. rows(m) = rows(h) BY <1>3, Zenon
<1>5. SegStores(m, p, g) = T(rows(m)) BY DEF SegStores
<1>6. SegStores(h, p, g) = T(rows(h)) BY <1>1 DEF SegStores
<1> HIDE DEF T, rows
<1> QED BY <1>4, <1>5, <1>6
LEMMA SegAddSame ==
  ASSUME NEW m, NEW h, NEW p \in Nat, NEW g, Agree(m, h, ParamsAt(p)), Agree(m, h, SegAddReads(m, p, g))
  PROVE  SegAddStores(m, p, g) = SegAddStores(h, p, g)
<1>1. m[p] = h[p] /\ m[p + 1] = h[p + 1] /\ m[p + 2] = h[p + 2] BY ParamsSame
<1>2. CASE g = 0 BY <1>2 DEF SegAddStores
<1>3. CASE g # 0
  <2> DEFINE I == (g * m[p + 2] * LANES) .. ((g + 1) * m[p + 2] * LANES - 1)
             S(x) == {Word(m[p] + i, x[m[p] + i] + x[m[p + 1] + g - 1]) : i \in I}
  <2>1. m[m[p + 1] + g - 1] = h[m[p + 1] + g - 1] /\ \A i \in I : m[m[p] + i] = h[m[p] + i]
    BY <1>3 DEF SegAddReads, Agree
  <2>2. S(m) = S(h) BY <2>1, Zenon
  <2>3. SegAddStores(m, p, g) = S(m) BY <1>3, Zenon DEF SegAddStores
  <2>4. SegAddStores(h, p, g) = S(h) BY <1>1, <1>3, Zenon DEF SegAddStores
  <2> QED BY <2>2, <2>3, <2>4
<1> QED BY <1>2, <1>3

(* The indices one lane reads are among those of its warp.                 *)
LEMMA IndexOfOne ==
  ASSUME NEW k \in {"spmv", "spmv_z"}, NEW m, NEW h, NEW x, NEW p, NEW ts, Agree(m, h, Index(k, x, p, ts))
  PROVE  \A t \in ts : Agree(m, h, Index("spmv", x, p, {t}))
<1>1. \A t \in ts : Index("spmv", x, p, {t}) \subseteq Index(k, x, p, ts) BY DEF Index
<1> QED BY <1>1 DEF Agree

(* Every plain kernel.                                                     *)
LEMMA KernelSame ==
  ASSUME NEW k \in Plain \ {"scan"}, NEW m, NEW h, NEW p \in Nat, NEW ts, NEW u,
         Agree(m, h, ParamsAt(p)), Agree(m, h, Index(k, m, p, ts)), Agree(m, h, Reads(k, m, p, ts, u))
  PROVE  StoresOf(k, m, p, ts, u) = StoresOf(k, h, p, ts, u)
<1>1. CASE k = "scan_seg" BY <1>1, SegSame DEF StoresOf, Reads
<1>2. CASE k = "scan_segadd" BY <1>2, SegAddSame DEF StoresOf, Reads
<1>3. CASE k = "gemm"
  <2>1. \A t \in ts : Agree(m, h, GemmReads(m, p, t)) BY <1>3 DEF Reads, Agree
  <2>2. \A t \in ts : GemmStores(m, p, t) = GemmStores(h, p, t) BY <2>1, GemmSame
  <2> QED BY <1>3, <2>2 DEF StoresOf
<1>4. CASE k = "gemm_rb"
  <2>1. \A t \in ts : Agree(m, h, GemmRbReads(m, p, t)) BY <1>4 DEF Reads, Agree
  <2>2. \A t \in ts : GemmRbStores(m, p, t) = GemmRbStores(h, p, t) BY <2>1, GemmRbSame
  <2> QED BY <1>4, <2>2 DEF StoresOf
<1>5. CASE k \in {"spmv", "spmv_z"}
  <2>1. \A t \in ts : Agree(m, h, SpmvReads(m, p, t)) BY <1>5 DEF Reads, Agree
  <2>2. \A t \in ts : Agree(m, h, Index("spmv", m, p, {t})) BY <1>5, IndexOfOne, Zenon
  <2>3. \A t \in ts : SpmvStores(m, p, t) = SpmvStores(h, p, t) BY <2>1, <2>2, SpmvSame
  <2> QED BY <1>5, <2>3 DEF StoresOf
<1>6. CASE k = "stencil"
  <2>1. \A t \in ts : Agree(m, h, StencilReads(m, p, t)) BY <1>6 DEF Reads, Agree
  <2>2. \A t \in ts : StencilStores(m, p, t) = StencilStores(h, p, t) BY <2>1, StencilSame
  <2> QED BY <1>6, <2>2 DEF StoresOf
<1>7. CASE k = "stencil_rb"
  <2>1. \A t \in ts : Agree(m, h, StencilRbReads(m, p, t)) BY <1>7 DEF Reads, Agree
  <2>2. \A t \in ts : StencilRbStores(m, p, t) = StencilRbStores(h, p, t) BY <2>1, StencilRbSame
  <2> QED BY <1>7, <2>2 DEF StoresOf
<1>8. CASE k = "scan_add"
  <2>1. \A t \in ts : Agree(m, h, ScanAddReads(m, p, t)) BY <1>8 DEF Reads, Agree
  <2>2. \A t \in ts : ScanAddStores(m, p, t) = ScanAddStores(h, p, t) BY <2>1, ScanAddSame
  <2> QED BY <1>8, <2>2 DEF StoresOf
<1>9. CASE k = "zbtest"
  <2>1. \A t \in ts : Agree(m, h, ZbReads(m, p, t)) BY <1>9 DEF Reads, Agree
  <2>2. \A t \in ts : ZbStores(m, p, t) = ZbStores(h, p, t) BY <2>1, ZbSame
  <2> QED BY <1>9, <2>2 DEF StoresOf
<1>10. CASE k = "mlp"
  <2>1. \A t \in ts : Agree(m, h, MlpReads(m, p, t)) BY <1>10 DEF Reads, Agree
  <2>2. \A t \in ts : MlpStores(m, p, t) = MlpStores(h, p, t) BY <2>1, MlpSame
  <2> QED BY <1>10, <2>2 DEF StoresOf
<1> QED BY <1>1, <1>2, <1>3, <1>4, <1>5, <1>6, <1>7, <1>8, <1>9, <1>10 DEF Plain

(* What a unit reads depends on its parameters and indices alone.          *)
LEMMA IndexSame ==
  ASSUME NEW k, NEW m, NEW h, NEW p \in Nat, NEW ts,
         Agree(h, m, ParamsAt(p)), Agree(h, m, Index(k, h, p, ts))
  PROVE  Index(k, m, p, ts) = Index(k, h, p, ts)
<1>1. m[p] = h[p] /\ m[p + 1] = h[p + 1] BY ParamsSame
<1>2. CASE k \in {"spmv", "spmv_z"}
  <2>1. \A t \in ts : m[h[p] + t] = h[h[p] + t] /\ m[h[p] + t + 1] = h[h[p] + t + 1]
    BY <1>2 DEF Index, Agree
  <2>2. \A t \in ts : m[m[p] + t] = h[h[p] + t] /\ m[m[p] + t + 1] = h[h[p] + t + 1]
    BY <2>1, <1>1
  <2> DEFINE S(x, t) == {x[p] + t, x[p] + t + 1}
                        \cup {x[p + 1] + x[x[p] + t] + i - 1 : i \in 1 .. (x[x[p] + t + 1] - x[x[p] + t])}
  <2>3. \A t \in ts : S(m, t) = S(h, t) BY <1>1, <2>2
  <2>4. Index(k, m, p, ts) = UNION {S(m, t) : t \in ts} BY <1>2 DEF Index
  <2>5. Index(k, h, p, ts) = UNION {S(h, t) : t \in ts} BY <1>2 DEF Index
  <2> HIDE DEF S
  <2> QED BY <2>3, <2>4, <2>5
<1>3. CASE k \notin {"spmv", "spmv_z"} BY <1>3 DEF Index
<1> QED BY <1>2, <1>3

(* And what is read depends on parameters and indices alone.               *)
LEMMA SpmvReadsSame ==
  ASSUME NEW m, NEW h, NEW p \in Nat, NEW t,
         Agree(h, m, ParamsAt(p)), Agree(h, m, Index("spmv", h, p, {t}))
  PROVE  SpmvReads(m, p, t) = SpmvReads(h, p, t)
<1>1. m[p] = h[p] /\ m[p + 1] = h[p + 1] /\ m[p + 2] = h[p + 2] /\ m[p + 3] = h[p + 3] BY ParamsSame
<1>2. m[h[p] + t] = h[h[p] + t] /\ m[h[p] + t + 1] = h[h[p] + t + 1] BY DEF Index, Agree
<1>3. m[m[p] + t] = h[h[p] + t] /\ m[m[p] + t + 1] = h[h[p] + t + 1] BY <1>1, <1>2
<1> DEFINE N == 1 .. (h[h[p] + t + 1] - h[h[p] + t])
           f == h[h[p] + t]
           S(x, i) == {h[p + 2] + f + i - 1, h[p + 3] + x[h[p + 1] + f + i - 1]}
<1>4. \A i \in N : m[h[p + 1] + f + i - 1] = h[h[p + 1] + f + i - 1]
  BY DEF Index, Agree
<1>5. SpmvReads(m, p, t) = UNION {S(m, i) : i \in N} BY <1>1, <1>3 DEF SpmvReads
<1>6. SpmvReads(h, p, t) = UNION {S(h, i) : i \in N} BY DEF SpmvReads
<1>7. \A i \in N : S(m, i) = S(h, i) BY <1>4
<1> HIDE DEF S, N
<1> QED BY <1>5, <1>6, <1>7

LEMMA ReadsSame ==
  ASSUME NEW k, NEW m, NEW h, NEW p \in Nat, NEW ts, NEW u,
         Agree(h, m, ParamsAt(p)), Agree(h, m, Index(k, h, p, ts))
  PROVE  Reads(k, m, p, ts, u) = Reads(k, h, p, ts, u)
<1>1. /\ m[p] = h[p] /\ m[p + 1] = h[p + 1] /\ m[p + 2] = h[p + 2] /\ m[p + 3] = h[p + 3]
      /\ m[p + 4] = h[p + 4] /\ m[p + 5] = h[p + 5] /\ m[p + 6] = h[p + 6] /\ m[p + 7] = h[p + 7]
  BY ParamsSame
<1>2. SegReads(m, p, u) = SegReads(h, p, u) BY <1>1 DEF SegReads
<1>3. SegAddReads(m, p, u) = SegAddReads(h, p, u) BY <1>1 DEF SegAddReads
<1>4. \A t \in ts : GemmReads(m, p, t) = GemmReads(h, p, t) BY <1>1, Zenon DEF GemmReads
<1>5. \A t \in ts : GemmRbReads(m, p, t) = GemmRbReads(h, p, t) BY <1>1 DEF GemmRbReads
<1>6. \A x : PointReads(m, p, x) = PointReads(h, p, x) BY <1>1, Zenon DEF PointReads
<1>7. \A t \in ts : StencilReads(m, p, t) = StencilReads(h, p, t) BY <1>1, <1>6, Zenon DEF StencilReads
<1>8. \A t \in ts : StencilRbReads(m, p, t) = StencilRbReads(h, p, t) BY <1>1, <1>6, Zenon DEF StencilRbReads
<1>9. \A t \in ts : ScanAddReads(m, p, t) = ScanAddReads(h, p, t) BY <1>1, Zenon DEF ScanAddReads
<1>10. \A t \in ts : ZbReads(m, p, t) = ZbReads(h, p, t) BY <1>1, Zenon DEF ZbReads
<1>11. \A t \in ts : MlpReads(m, p, t) = MlpReads(h, p, t) BY <1>1, Zenon DEF MlpReads
<1>12. CASE k \in {"spmv", "spmv_z"}
  <2>1. \A t \in ts : Agree(h, m, Index("spmv", h, p, {t})) BY <1>12, IndexOfOne, Zenon
  <2>2. ASSUME NEW t \in ts PROVE SpmvReads(m, p, t) = SpmvReads(h, p, t)
    <3>1. Agree(h, m, Index("spmv", h, p, {t})) BY <2>1
    <3> QED BY <3>1, SpmvReadsSame, Zenon
  <2> QED BY <1>12, <2>2 DEF Reads
<1>13. CASE k \notin {"spmv", "spmv_z"}
  BY <1>2, <1>3, <1>4, <1>5, <1>7, <1>8, <1>9, <1>10, <1>11, <1>13 DEF Reads
<1> QED BY <1>12, <1>13

(* Where a unit stores depends on its parameters alone.                    *)
LEMMA SpotsSame ==
  ASSUME NEW k \in Plain \ {"scan"}, NEW m, NEW h, NEW p \in Nat, NEW ts, NEW u,
         Agree(h, m, ParamsAt(p))
  PROVE  Spots(StoresOf(k, m, p, ts, u)) = Spots(StoresOf(k, h, p, ts, u))
<1>1. /\ m[p] = h[p] /\ m[p + 1] = h[p + 1] /\ m[p + 2] = h[p + 2] /\ m[p + 3] = h[p + 3]
      /\ m[p + 4] = h[p + 4] /\ m[p + 5] = h[p + 5] /\ m[p + 6] = h[p + 6] /\ m[p + 7] = h[p + 7]
  BY ParamsSame
<1>2. \A a, v : Word(a, v)[1] = a /\ Word(a, v)[2] = Whole BY DEF Word
<1>3. CASE k = "scan_seg"
  <2> DEFINE r == h[p + 3]
             A(j, l) == h[p + 1] + u * r * LANES + (j - 1) * LANES + l
             R(x) == [j \in 1..r |-> ScanRow([l \in Idx(LANES) |-> x[h[p] + u * r * LANES + (j - 1) * LANES + l]])]
             V(x, j, l) == R(x)[j][l] + Carry(SubSeq(R(x), 1, j - 1))
             S(x) == {Word(A(j, l), V(x, j, l)) : j \in 1..r, l \in Idx(LANES)}
             T(x) == {Word(h[p + 2] + u, Carry(R(x)))}
             AA   == {<<A(j, l), Whole>> : j \in 1..r, l \in Idx(LANES)}
  <2>1. SegStores(m, p, u) = S(m) \cup T(m) BY <1>1 DEF SegStores
  <2>2. SegStores(h, p, u) = S(h) \cup T(h) BY DEF SegStores
  <2>3. Spots(T(m)) = {<<h[p + 2] + u, Whole>>} /\ Spots(T(h)) = {<<h[p + 2] + u, Whole>>}
    BY <1>2 DEF Spots
  <2>4. Spots(S(m)) = AA /\ Spots(S(h)) = AA
    <3> HIDE DEF A, V
    <3> QED BY <1>2 DEF Spots
  <2> HIDE DEF S, T, AA
  <2>5. /\ Spots(S(m) \cup T(m)) = Spots(S(m)) \cup Spots(T(m))
        /\ Spots(S(h) \cup T(h)) = Spots(S(h)) \cup Spots(T(h))
    BY DEF Spots
  <2> QED BY <1>3, <2>1, <2>2, <2>3, <2>4, <2>5 DEF StoresOf
<1>4. CASE k = "scan_segadd"
  <2> DEFINE I == (u * h[p + 2] * LANES) .. ((u + 1) * h[p + 2] * LANES - 1)
             A(i) == h[p] + i
             V(x, i) == x[h[p] + i] + x[h[p + 1] + u - 1]
             S(x) == {Word(A(i), V(x, i)) : i \in I}
  <2>1. SegAddStores(m, p, u) = IF u = 0 THEN {} ELSE S(m) BY <1>1 DEF SegAddStores
  <2>2. SegAddStores(h, p, u) = IF u = 0 THEN {} ELSE S(h) BY DEF SegAddStores
  <2>3. Spots(S(m)) = Spots(S(h))
    <3> HIDE DEF A, V, I
    <3> QED BY <1>2 DEF Spots
  <2> HIDE DEF S
  <2> QED BY <1>4, <2>1, <2>2, <2>3 DEF StoresOf
<1>5. CASE k = "gemm"
  <2>1. \A t \in ts : Spots(GemmStores(m, p, t)) = Spots(GemmStores(h, p, t))
    BY <1>1 DEF GemmStores, Spots, Word
  <2>2. UNION {Spots(GemmStores(m, p, t)) : t \in ts} = UNION {Spots(GemmStores(h, p, t)) : t \in ts} BY <2>1
  <2>3. Spots(UNION {GemmStores(m, p, t) : t \in ts}) = UNION {Spots(GemmStores(m, p, t)) : t \in ts} BY DEF Spots
  <2>4. Spots(UNION {GemmStores(h, p, t) : t \in ts}) = UNION {Spots(GemmStores(h, p, t)) : t \in ts} BY DEF Spots
  <2> QED BY <1>5, <2>2, <2>3, <2>4 DEF StoresOf
<1>6. CASE k = "gemm_rb"
  <2>1. ASSUME NEW t \in ts PROVE Spots(GemmRbStores(m, p, t)) = Spots(GemmRbStores(h, p, t))
    <3> DEFINE n  == 2^h[p + 4]
               nb == n \div (4 * LANES)
               w  == t \div LANES
               r0 == 4 * (w \div nb)
               c0 == (w % nb) * 4 * LANES + (t % LANES)
               A(i, j) == h[p + 2] + (r0 + i) * n + c0 + j * LANES
               D(x, i, j) == Dot(x, h[p] + (r0 + i) * h[p + 3], 1, h[p + 1] + c0 + j * LANES, n, h[p + 3])
    <3>1. GemmRbStores(m, p, t) = {Word(A(i, j), D(m, i, j)) : i \in 0..3, j \in 0..3} BY <1>1 DEF GemmRbStores
    <3>2. GemmRbStores(h, p, t) = {Word(A(i, j), D(h, i, j)) : i \in 0..3, j \in 0..3} BY DEF GemmRbStores
    <3> HIDE DEF A, D
    <3> QED BY <1>2, <3>1, <3>2 DEF Spots
  <2>2. UNION {Spots(GemmRbStores(m, p, t)) : t \in ts} = UNION {Spots(GemmRbStores(h, p, t)) : t \in ts} BY <2>1
  <2>3. Spots(UNION {GemmRbStores(m, p, t) : t \in ts}) = UNION {Spots(GemmRbStores(m, p, t)) : t \in ts} BY DEF Spots
  <2>4. Spots(UNION {GemmRbStores(h, p, t) : t \in ts}) = UNION {Spots(GemmRbStores(h, p, t)) : t \in ts} BY DEF Spots
  <2> QED BY <1>6, <2>2, <2>3, <2>4 DEF StoresOf
<1>7. CASE k \in {"spmv", "spmv_z"}
  <2>1. ASSUME NEW t \in ts PROVE Spots(SpmvStores(m, p, t)) = Spots(SpmvStores(h, p, t))
    <3>1. ASSUME NEW x PROVE Spots(SpmvStores(x, p, t)) = {<<x[p + 4] + t, Whole>>}
      BY <1>2 DEF SpmvStores, Spots
    <3> QED BY <1>1, <3>1
  <2>2. UNION {Spots(SpmvStores(m, p, t)) : t \in ts} = UNION {Spots(SpmvStores(h, p, t)) : t \in ts} BY <2>1
  <2>3. Spots(UNION {SpmvStores(m, p, t) : t \in ts}) = UNION {Spots(SpmvStores(m, p, t)) : t \in ts} BY DEF Spots
  <2>4. Spots(UNION {SpmvStores(h, p, t) : t \in ts}) = UNION {Spots(SpmvStores(h, p, t)) : t \in ts} BY DEF Spots
  <2> QED BY <1>7, <2>2, <2>3, <2>4 DEF StoresOf
<1>8. CASE k = "stencil"
  <2>1. \A t \in ts : Spots(StencilStores(m, p, t)) = Spots(StencilStores(h, p, t))
    BY <1>1 DEF StencilStores, Spots, Word, Point
  <2>2. UNION {Spots(StencilStores(m, p, t)) : t \in ts} = UNION {Spots(StencilStores(h, p, t)) : t \in ts} BY <2>1
  <2>3. Spots(UNION {StencilStores(m, p, t) : t \in ts}) = UNION {Spots(StencilStores(m, p, t)) : t \in ts} BY DEF Spots
  <2>4. Spots(UNION {StencilStores(h, p, t) : t \in ts}) = UNION {Spots(StencilStores(h, p, t)) : t \in ts} BY DEF Spots
  <2> QED BY <1>8, <2>2, <2>3, <2>4 DEF StoresOf
<1>9. CASE k = "stencil_rb"
  <2>1. ASSUME NEW t \in ts PROVE Spots(StencilRbStores(m, p, t)) = Spots(StencilRbStores(h, p, t))
    <3> DEFINE x(i) == ((t \div 2^h[p + 2]) * h[p + 6] + i + 1) * h[p + 3] + (t % 2^h[p + 2]) + LANES
    <3>1. StencilRbStores(m, p, t) = {Point(m, p, x(i)) : i \in Idx(h[p + 6])} BY <1>1 DEF StencilRbStores
    <3>2. StencilRbStores(h, p, t) = {Point(h, p, x(i)) : i \in Idx(h[p + 6])} BY DEF StencilRbStores
    <3>3. \A y : /\ Point(m, p, y)[1] = h[p + 1] + y /\ Point(m, p, y)[2] = Whole
                 /\ Point(h, p, y)[1] = h[p + 1] + y /\ Point(h, p, y)[2] = Whole
      BY <1>1, <1>2 DEF Point
    <3> HIDE DEF x
    <3> QED BY <3>1, <3>2, <3>3 DEF Spots
  <2>2. UNION {Spots(StencilRbStores(m, p, t)) : t \in ts} = UNION {Spots(StencilRbStores(h, p, t)) : t \in ts} BY <2>1
  <2>3. Spots(UNION {StencilRbStores(m, p, t) : t \in ts}) = UNION {Spots(StencilRbStores(m, p, t)) : t \in ts} BY DEF Spots
  <2>4. Spots(UNION {StencilRbStores(h, p, t) : t \in ts}) = UNION {Spots(StencilRbStores(h, p, t)) : t \in ts} BY DEF Spots
  <2> QED BY <1>9, <2>2, <2>3, <2>4 DEF StoresOf
<1>10. CASE k = "scan_add"
  <2>1. ASSUME NEW t \in ts PROVE Spots(ScanAddStores(m, p, t)) = Spots(ScanAddStores(h, p, t))
    <3> DEFINE V(x) == x[h[p] + t] + x[h[p + 1] + t \div (4 * LANES) - 1]
    <3>1. ScanAddStores(m, p, t) = IF t \div (4 * LANES) = 0 THEN {} ELSE {Word(h[p] + t, V(m))}
      BY <1>1 DEF ScanAddStores
    <3>2. ScanAddStores(h, p, t) = IF t \div (4 * LANES) = 0 THEN {} ELSE {Word(h[p] + t, V(h))}
      BY DEF ScanAddStores
    <3>3. Spots({Word(h[p] + t, V(m))}) = {<<h[p] + t, Whole>>} /\ Spots({Word(h[p] + t, V(h))}) = {<<h[p] + t, Whole>>}
      <4> HIDE DEF V
      <4> QED BY <1>2 DEF Spots
    <3> HIDE DEF V
    <3> QED BY <3>1, <3>2, <3>3
  <2>2. UNION {Spots(ScanAddStores(m, p, t)) : t \in ts} = UNION {Spots(ScanAddStores(h, p, t)) : t \in ts} BY <2>1
  <2>3. Spots(UNION {ScanAddStores(m, p, t) : t \in ts}) = UNION {Spots(ScanAddStores(m, p, t)) : t \in ts} BY DEF Spots
  <2>4. Spots(UNION {ScanAddStores(h, p, t) : t \in ts}) = UNION {Spots(ScanAddStores(h, p, t)) : t \in ts} BY DEF Spots
  <2> QED BY <1>10, <2>2, <2>3, <2>4 DEF StoresOf
<1>11. CASE k = "zbtest"
  <2>1. ASSUME NEW t \in ts PROVE Spots(ZbStores(m, p, t)) = Spots(ZbStores(h, p, t))
    <3> DEFINE Pick(first, x, y) == IF first THEN x ELSE y
               R(a, b) == <<2 * a + b, 4 * a + b, 8 * a + b,
                            Pick(Signed(a) < Signed(b), a, b), Pick(a < b, a, b),
                            Pick(Signed(a) > Signed(b), a, b), Pick(a > b, a, b),
                            Pick(b % 2 = 0, 0, a), Pick(b % 2 # 0, 0, a)>>
               V(x, i) == R(x[h[p] + t], x[h[p + 1] + t])[i + 1]
               A(i) == h[p + 2] + 9 * t + i
    <3>1. ZbStores(m, p, t) = {Word(A(i), V(m, i)) : i \in 0..8} BY <1>1 DEF ZbStores
    <3>2. ZbStores(h, p, t) = {Word(A(i), V(h, i)) : i \in 0..8} BY DEF ZbStores
    <3> HIDE DEF A, V
    <3> QED BY <1>2, <3>1, <3>2 DEF Spots
  <2>2. UNION {Spots(ZbStores(m, p, t)) : t \in ts} = UNION {Spots(ZbStores(h, p, t)) : t \in ts} BY <2>1
  <2>3. Spots(UNION {ZbStores(m, p, t) : t \in ts}) = UNION {Spots(ZbStores(m, p, t)) : t \in ts} BY DEF Spots
  <2>4. Spots(UNION {ZbStores(h, p, t) : t \in ts}) = UNION {Spots(ZbStores(h, p, t)) : t \in ts} BY DEF Spots
  <2> QED BY <1>11, <2>2, <2>3, <2>4 DEF StoresOf
<1>12. CASE k = "mlp"
  <2>1. ASSUME NEW t \in ts PROVE Spots(MlpStores(m, p, t)) = Spots(MlpStores(h, p, t))
    <3> DEFINE F(x) == [kk \in Idx(h[p + 3]) |-> pdot8(x[h[p] + (t \div 2^h[p + 4]) * h[p + 3] + kk],
                                                       x[h[p + 1] + kk * 2^h[p + 4] + (t % 2^h[p + 4])])]
               V(x) == SumTo(F(x), h[p + 3])
               Q(x) == HwToInt(HwMax(HwMin(HwMadd(HwFromInt(V(x)), h[p + 5], h[p + 6]), F127), 0))
               Out(x) == IF h[p + 7] = 0 THEN {Word(h[p + 2] + t, V(x))}
                         ELSE {<<h[p + 2] + t \div 4, t % 4, Q(x)>>}
               Spot == IF h[p + 7] = 0 THEN <<h[p + 2] + t, Whole>> ELSE <<h[p + 2] + t \div 4, t % 4>>
    <3>1. MlpStores(m, p, t) = Out(m) BY <1>1, Zenon DEF MlpStores
    <3>2. MlpStores(h, p, t) = Out(h) BY Zenon DEF MlpStores
    <3>3. Spots(Out(m)) = {Spot} /\ Spots(Out(h)) = {Spot}
      <4>1. \A v, q : /\ Spots({Word(h[p + 2] + t, v)}) = {<<h[p + 2] + t, Whole>>}
                      /\ Spots({<<h[p + 2] + t \div 4, t % 4, q>>}) = {<<h[p + 2] + t \div 4, t % 4>>}
        BY <1>2 DEF Spots
      <4> HIDE DEF V, Q
      <4>2. CASE h[p + 7] = 0 BY <4>1, <4>2
      <4>3. CASE h[p + 7] # 0 BY <4>1, <4>3
      <4> QED BY <4>2, <4>3
    <3> HIDE DEF Out
    <3> QED BY <3>1, <3>2, <3>3
  <2>2. UNION {Spots(MlpStores(m, p, t)) : t \in ts} = UNION {Spots(MlpStores(h, p, t)) : t \in ts} BY <2>1
  <2>3. Spots(UNION {MlpStores(m, p, t) : t \in ts}) = UNION {Spots(MlpStores(m, p, t)) : t \in ts} BY DEF Spots
  <2>4. Spots(UNION {MlpStores(h, p, t) : t \in ts}) = UNION {Spots(MlpStores(h, p, t)) : t \in ts} BY DEF Spots
  <2> QED BY <1>12, <2>2, <2>3, <2>4 DEF StoresOf
<1> QED BY <1>3, <1>4, <1>5, <1>6, <1>7, <1>8, <1>9, <1>10, <1>11, <1>12 DEF Plain

(* A fold over no store.                                                   *)
LEMMA NoneIsEmpty ==
  ASSUME NEW f, f = SetToSeq({})
  PROVE  DOMAIN f = {}
<1>1. Cardinality({}) = 0 BY FS_EmptySet
<1>2. 1..0 = {} OBVIOUS
<1>3. [x \in {} |-> 0] \in [1..Cardinality({}) -> {}] /\ IsInjective([x \in {} |-> 0])
  BY <1>1, <1>2 DEF IsInjective
<1>4. f \in [1..Cardinality({}) -> {}] BY <1>3 DEF SetToSeq
<1> QED BY <1>1, <1>2, <1>4
LEMMA FoldOverNone ==
  ASSUME NEW base, NEW f, DOMAIN f = {}
  PROVE  FoldLeft(LAMBDA w, s : SetPart(w, s[2], s[3]), base, f) = base
<1> DEFINE g(i) == f[i]
           step(it, s) == IF s = {} THEN base
                      ELSE LET x == Max(s) IN SetPart(it[s \ {x}], f[x][2], f[x][3])
           iter == CHOOSE it : it = [s \in SUBSET {} |-> step(it, s)]
<1>1. FoldLeft(LAMBDA w, s : SetPart(w, s[2], s[3]), base, f) = iter[{}]
  BY DEF FoldLeft, MapThenFoldSet
<1>2. \E it : it = [s \in SUBSET {} |-> step(it, s)]
  <2>1. [s \in SUBSET {} |-> base] = [s \in SUBSET {} |-> step([r \in SUBSET {} |-> base], s)] OBVIOUS
  <2> HIDE DEF step
  <2> QED BY <2>1
<1>3. iter = [s \in SUBSET {} |-> step(iter, s)]
  <2> HIDE DEF step
  <2> QED BY <1>2
<1>4. iter[{}] = step(iter, {})
  <2> HIDE DEF step, iter
  <2> QED BY <1>3
<1>5. step(iter, {}) = base OBVIOUS
<1> HIDE DEF step, iter
<1> QED BY <1>1, <1>4, <1>5

(* A set of stores leaves the other words as they were.                    *)
LEMMA StoredKeeps ==
  ASSUME NEW m, NEW stores
  PROVE  /\ DOMAIN Stored(m, stores) = DOMAIN m
         /\ \A a \in DOMAIN m : (\A s \in stores : s[1] # a) => Stored(m, stores)[a] = m[a]
<1>1. DOMAIN Stored(m, stores) = DOMAIN m BY DEF Stored
<1>2. ASSUME NEW a \in DOMAIN m, \A s \in stores : s[1] # a PROVE Stored(m, stores)[a] = m[a]
  <2> DEFINE here == SetToSeq({s \in stores : s[1] = a})
  <2>1. Stored(m, stores)[a] = FoldLeft(LAMBDA w, s : SetPart(w, s[2], s[3]), m[a], here) BY DEF Stored
  <2>2. {s \in stores : s[1] = a} = {} BY <1>2
  <2>3. DOMAIN here = {} BY <2>2, NoneIsEmpty
  <2> HIDE DEF here
  <2> QED BY <2>1, <2>3, FoldOverNone
<1> QED BY <1>1, <1>2

----------------------------------------------------------------------------
(* The launch being run, of a well laid out case.                          *)
LEMMA LaunchFacts ==
  ASSUME WellLaid(case), li \in Nat \ {0}, Running
  PROVE  /\ Launch \in ToSet(case.launches) /\ LaunchLaid(case, Launch)
         /\ Kernel = KernelOf(Launch) /\ Kernel \in Plain /\ prm \in Nat
         /\ Units(Launch) = UnitsOf(Launch)
         /\ \A u : Threads(u) = ThreadsOf(Launch, u)
<1>1. PICK S : case.launches \in Seq(S) BY DEF WellLaid
<1>2. li \in DOMAIN case.launches BY <1>1 DEF Running
<1>3. Launch \in ToSet(case.launches) BY <1>2 DEF Launch, ToSet
<1>4. LaunchLaid(case, Launch) BY <1>3 DEF WellLaid
<1>5. Kernel = KernelOf(Launch) /\ Kernel \in Plain /\ prm \in Nat
  BY <1>4 DEF LaunchLaid, Kernel, KernelOf, prm
<1>6. UnitSize(Kernel) = LANES BY <1>5 DEF UnitSize, Plain
<1>7. Units(Launch) = UnitsOf(Launch) BY <1>6 DEF Units, UnitsOf, Kernel
<1>8. \A u : Threads(u) = ThreadsOf(Launch, u) BY <1>6 DEF Threads, ThreadsOf
<1> QED BY <1>3, <1>4, <1>5, <1>7, <1>8

(* A memory that kept the parameters and indices: each unit reads and      *)
(* stores where the image says.                                            *)
LEMMA UnitFacts ==
  ASSUME WellLaid(case), li \in Nat \ {0}, Running,
         NEW m, Agree(Image(case), m, Fixed(case)), NEW u \in UnitsOf(Launch)
  PROVE  /\ Agree(Image(case), m, ParamsAt(prm))
         /\ Index(Kernel, m, prm, Threads(u)) = IndexOf(case, Launch, u)
         /\ Reads(Kernel, m, prm, Threads(u), u) = ReadsOf(case, Launch, u)
         /\ Kernel # "scan" => Spots(StoresOf(Kernel, m, prm, Threads(u), u)) = SpotsOf(case, Launch, u)
<1>1. /\ Launch \in ToSet(case.launches) /\ Kernel = KernelOf(Launch) /\ Kernel \in Plain /\ prm \in Nat
      /\ Threads(u) = ThreadsOf(Launch, u) /\ prm = Launch.prm
  BY LaunchFacts DEF prm
<1>2. ParamsAt(prm) \subseteq Fixed(case) /\ IndexOf(case, Launch, u) \subseteq Fixed(case)
  BY <1>1 DEF Fixed
<1>3. Agree(Image(case), m, ParamsAt(prm)) /\ Agree(Image(case), m, IndexOf(case, Launch, u))
  BY <1>2 DEF Agree
<1>4. IndexOf(case, Launch, u) = Index(Kernel, Image(case), prm, Threads(u)) BY <1>1 DEF IndexOf
<1>5. ReadsOf(case, Launch, u) = Reads(Kernel, Image(case), prm, Threads(u), u) BY <1>1 DEF ReadsOf
<1>6. Kernel # "scan" => SpotsOf(case, Launch, u) = Spots(StoresOf(Kernel, Image(case), prm, Threads(u), u))
  BY <1>1 DEF SpotsOf
<1>7. Index(Kernel, m, prm, Threads(u)) = Index(Kernel, Image(case), prm, Threads(u))
  BY <1>1, <1>3, <1>4, IndexSame
<1>8. Reads(Kernel, m, prm, Threads(u), u) = Reads(Kernel, Image(case), prm, Threads(u), u)
  BY <1>1, <1>3, <1>4, ReadsSame
<1>9. Kernel # "scan" =>
        Spots(StoresOf(Kernel, m, prm, Threads(u), u)) = Spots(StoresOf(Kernel, Image(case), prm, Threads(u), u))
  BY <1>1, <1>3, SpotsSame
<1> QED BY <1>3, <1>4, <1>5, <1>6, <1>7, <1>8, <1>9

(* Parameters and indices are words of the memory.                         *)
LEMMA FixedInMemory ==
  ASSUME WellLaid(case)
  PROVE  Fixed(case) \subseteq Idx(case.top)
BY DEF WellLaid, LaunchLaid, Fixed

(* A unit that has done nothing is as it should be.                        *)
LEMMA FreshGood ==
  ASSUME NEW m, NEW u
  PROVE  UnitGood(Fresh, m, u)
BY DEF UnitGood, Fresh

(* Init: the memory is the image.                                          *)
LEMMA LaidInit == Init => LaidInv
<1> SUFFICES ASSUME Init, WellLaid(case) PROVE li \in Nat \ {0} /\ MemLaid(mem) /\ (Running => UnitsGood)
  BY DEF LaidInv
<1>1. li = 1 /\ mem = Image(case) /\ st = Units0(1) BY DEF Init, Image
<1>2. MemLaid(mem) BY <1>1 DEF MemLaid, Agree, Image
<1>3. ASSUME Running PROVE UnitsGood
  <2>1. st = [u \in UnitsOf(Launch) |-> Fresh]
    BY <1>1, <1>3, LaunchFacts DEF Units0, Running, Launch
  <2> QED BY <2>1, FreshGood DEF UnitsGood
<1> QED BY <1>1, <1>2, <1>3

(* What a step of unit u needs of the state it is taken in.                *)
InLaunch == WellLaid(case) /\ li \in Nat \ {0} /\ MemLaid(mem) /\ Running /\ UnitsGood
Same == case' = case /\ li' = li /\ Launch' = Launch /\ Kernel' = Kernel /\ prm' = prm
        /\ \A u : Threads(u)' = Threads(u)

(* While case and launch stay, so does what is derived from them.          *)
LEMMA SameLaunch ==
  ASSUME case' = case, li' = li
  PROVE  Same
BY DEF Same, Launch, Kernel, prm, Threads

(* A step that changes unit u alone and no word keeps the invariant if it  *)
(* leaves the unit as it should be.                                        *)
LEMMA OneUnit ==
  ASSUME InLaunch, Same, UNCHANGED mem, NEW u \in DOMAIN st, NEW s, Set(u, s), UnitGood(s, mem, u)
  PROVE  LaidInv'
<1>1. DOMAIN st' = DOMAIN st /\ st'[u] = s /\ \A v \in DOMAIN st \ {u} : st'[v] = st[v] BY DEF Set
<1>2. MemLaid(mem)' BY DEF InLaunch, Same, MemLaid
<1>3. ASSUME NEW v \in DOMAIN st PROVE UnitGood(st'[v], mem, v) BY <1>1 DEF InLaunch, UnitsGood
<1>4. UnitsGood'
  <2>1. DOMAIN st' = UnitsOf(Launch') BY <1>1 DEF InLaunch, UnitsGood, Same
  <2>2. ASSUME NEW v \in DOMAIN st PROVE UnitGood(st[v], mem, v)' BY <1>3 DEF UnitGood, Same
  <2> QED BY <1>1, <2>1, <2>2 DEF UnitsGood
<1> QED BY <1>2, <1>4 DEF LaidInv, InLaunch, Same

(* Loads, and the two steps of scan.S around its barrier.                  *)
LEMMA LoadLaid == ASSUME InLaunch, NEW u \in DOMAIN st, Load(u) PROVE LaidInv'
<1> DEFINE S == StoresOf(Kernel, mem, prm, Threads(u), u)
           s == [Fresh EXCEPT !.pc = "store", !.stores = S]
<1>1. Same /\ UNCHANGED mem /\ Set(u, s) BY SameLaunch DEF Load
<1>2. Kernel # "scan" BY DEF Load, Simple
<1>3. Spots(S) = SpotsOf(case, Launch, u) BY <1>2, UnitFacts DEF InLaunch, MemLaid, UnitsGood
<1> HIDE DEF S
<1>4. DOMAIN s = {"pc", "stores", "amo", "v", "j"} /\ s.amo = <<>> /\ s.pc = "store" /\ s.stores = S BY DEF Fresh
<1> HIDE DEF s
<1>5. UnitGood(s, mem, u) BY <1>3, <1>4 DEF UnitGood, S
<1> QED BY <1>1, <1>5, OneUnit

LEMMA ScanLoadLaid == ASSUME InLaunch, NEW u \in DOMAIN st, ScanLoad(u) PROVE LaidInv'
<1> DEFINE v == ScanRow([l \in Idx(LANES) |-> mem[mem[prm] + u * LANES + l]])
           s == [Fresh EXCEPT !.pc = "bar", !.v = v]
<1>1. Same /\ UNCHANGED mem /\ Set(u, s) BY SameLaunch DEF ScanLoad
<1>2. Kernel = "scan" BY DEF ScanLoad
<1> HIDE DEF v
<1>3. DOMAIN s = {"pc", "stores", "amo", "v", "j"} /\ s.amo = <<>> /\ s.pc = "bar" /\ s.stores = {} BY DEF Fresh
<1> HIDE DEF s
<1>4. UnitGood(s, mem, u) BY <1>2, <1>3 DEF UnitGood
<1> QED BY <1>1, <1>4, OneUnit

LEMMA ScanAfterLaid == ASSUME InLaunch, NEW u \in DOMAIN st, ScanAfter(u) PROVE LaidInv'
<1> DEFINE low == SumTo([w \in Idx(WarpOf(u)) |-> shared[<<Block(u), w>>]], WarpOf(u))
           o   == [l \in Idx(LANES) |-> W32(st[u].v[l] + low)]
           S   == {Word(mem[prm + 1] + u * LANES + l, o[l]) : l \in Idx(LANES)}
                    \cup (IF WarpOf(u) = 3 THEN {Word(mem[prm + 2] + Block(u), o[LANES - 1])} ELSE {})
           s   == [st[u] EXCEPT !.pc = "store", !.stores = S]
<1>1. Same /\ UNCHANGED mem /\ Set(u, s) /\ st[u].pc = "bar" BY SameLaunch DEF ScanAfter
<1> HIDE DEF o, low
<1>2. UnitGood(st[u], mem, u) BY DEF InLaunch, UnitsGood
<1>3. Kernel = "scan" BY <1>1, <1>2 DEF UnitGood
<1>4. SpotsOf(case, Launch, u) = ScanSpots(Image(case), prm, Launch.blk, u)
  BY <1>3, LaunchFacts DEF SpotsOf, InLaunch, prm
<1>5. mem[prm + 1] = Image(case)[prm + 1] /\ mem[prm + 2] = Image(case)[prm + 2]
  <2>1. Agree(Image(case), mem, ParamsAt(prm)) BY UnitFacts DEF InLaunch, MemLaid, UnitsGood
  <2> QED BY <2>1, ParamsSame, LaunchFacts DEF InLaunch
<1>6. Spots(S) = ScanSpots(Image(case), prm, Launch.blk, u)
  <2>1. \A a, x : Word(a, x)[1] = a /\ Word(a, x)[2] = Whole BY DEF Word
  <2> DEFINE A(l) == Image(case)[prm + 1] + u * LANES + l
             T == {Word(A(l), o[l]) : l \in Idx(LANES)}
             X == {Word(Image(case)[prm + 2] + Block(u), o[LANES - 1])}
  <2>2. S = T \cup (IF WarpOf(u) = 3 THEN X ELSE {}) BY <1>5
  <2>3. Spots(T) = {<<A(l), Whole>> : l \in Idx(LANES)}
    <3> HIDE DEF A
    <3> QED BY <2>1 DEF Spots
  <2>4. Spots(X) = {<<Image(case)[prm + 2] + Block(u), Whole>>} BY <2>1 DEF Spots
  <2>5. \A Y, Z : Spots(Y \cup Z) = Spots(Y) \cup Spots(Z) BY DEF Spots
  <2>6. Spots({}) = {} BY DEF Spots
  <2>7. Spots(S) = Spots(T) \cup (IF WarpOf(u) = 3 THEN Spots(X) ELSE {})
    <3> HIDE DEF T, X, S
    <3> QED BY <2>2, <2>5, <2>6
  <2> HIDE DEF T, X, S
  <2> QED BY <2>3, <2>4, <2>7 DEF ScanSpots, WarpOf, Block
<1> HIDE DEF S
<1>7. UnitGood(s, mem, u)
  <2>1. DOMAIN s = {"pc", "stores", "amo", "v", "j"} /\ s.amo = <<>> /\ s.pc = "store" /\ s.stores = S
    BY <1>2 DEF UnitGood
  <2> HIDE DEF s
  <2> QED BY <2>1, <1>3, <1>4, <1>6 DEF UnitGood
<1> HIDE DEF s
<1> QED BY <1>1, <1>7, OneUnit

(* A store touches no word another unit of the launch reads, no parameter  *)
(* and no index, so the others would still load what they loaded.          *)
LEMMA StoreLaid == ASSUME InLaunch, NEW u \in DOMAIN st, Store(u) PROVE LaidInv'
<1> DEFINE s0 == [st[u] EXCEPT !.stores = {}]
           s  == AmoOrEnd(s0)
<1>1. Same /\ mem' = Stored(mem, st[u].stores) /\ Set(u, s) /\ st[u].pc = "store" BY SameLaunch DEF Store
<1>2. u \in UnitsOf(Launch) /\ DOMAIN st = UnitsOf(Launch) /\ UnitGood(st[u], mem, u)
  BY DEF InLaunch, UnitsGood
<1>3. DOMAIN s = {"pc", "stores", "amo", "v", "j"} /\ s.amo = <<>> /\ s.pc = "end" /\ s.stores = {}
  <2>1. DOMAIN s0 = {"pc", "stores", "amo", "v", "j"} /\ s0.amo = <<>> /\ s0.stores = {} BY <1>2 DEF UnitGood
  <2> HIDE DEF s0
  <2>2. s = [s0 EXCEPT !.pc = "end"] BY <2>1 DEF AmoOrEnd
  <2> HIDE DEF s
  <2> QED BY <2>1, <2>2
<1> HIDE DEF s
<1>4. UnitGood(s, mem', u) BY <1>3 DEF UnitGood
(* What it stored was no parameter or index and no other unit's to read.   *)
<1>5. \A x \in st[u].stores : <<x[1], x[2]>> \in SpotsOf(case, Launch, u)
  BY <1>1, <1>2 DEF UnitGood, Spots
<1>6. LaunchLaid(case, Launch) /\ Kernel \in Plain /\ prm \in Nat BY LaunchFacts DEF InLaunch
<1>7. ASSUME NEW a \in Idx(case.top), \A x \in SpotsOf(case, Launch, u) : x[1] # a
      PROVE  mem'[a] = mem[a]
  <2>1. \A x \in st[u].stores : x[1] # a BY <1>5, <1>7
  <2>2. a \in DOMAIN mem BY DEF InLaunch, MemLaid
  <2> QED BY <1>1, <2>1, <2>2, StoredKeeps
<1>8. \A x \in SpotsOf(case, Launch, u) : x[1] \notin Fixed(case) BY <1>2, <1>6 DEF LaunchLaid
<1>9. Agree(mem, mem', Fixed(case)) BY <1>7, <1>8, FixedInMemory DEF Agree, InLaunch
<1>10. MemLaid(mem')
  BY <1>1, <1>9, StoredKeeps DEF MemLaid, InLaunch, Agree
<1>11. ASSUME NEW v \in DOMAIN st, v # u PROVE UnitGood(st[v], mem', v)
  <2>1. UnitGood(st[v], mem, v) /\ v \in UnitsOf(Launch) BY <1>2 DEF InLaunch, UnitsGood
  <2>2. \A x \in SpotsOf(case, Launch, u) : x[1] \notin ReadsOf(case, Launch, v)
    BY <1>2, <1>6, <1>11, <2>1 DEF LaunchLaid
  <2>3. ReadsOf(case, Launch, v) \subseteq Idx(case.top) BY <1>6, <2>1 DEF LaunchLaid
  <2>4. Agree(mem, mem', ReadsOf(case, Launch, v)) BY <1>7, <2>2, <2>3 DEF Agree
  <2>5. /\ Index(Kernel, mem, prm, Threads(v)) = IndexOf(case, Launch, v)
        /\ Reads(Kernel, mem, prm, Threads(v), v) = ReadsOf(case, Launch, v)
    BY <2>1, UnitFacts DEF InLaunch, MemLaid
  <2>6. /\ ParamsAt(prm) \subseteq Fixed(case) /\ IndexOf(case, Launch, v) \subseteq Fixed(case)
    BY <2>1, LaunchFacts DEF Fixed, InLaunch, prm
  <2>7. /\ Agree(mem, mem', ParamsAt(prm)) /\ Agree(mem, mem', Index(Kernel, mem, prm, Threads(v)))
        /\ Agree(mem, mem', Reads(Kernel, mem, prm, Threads(v), v))
    BY <1>9, <2>4, <2>5, <2>6 DEF Agree
  <2>8. Kernel # "scan" => StoresOf(Kernel, mem, prm, Threads(v), v) = StoresOf(Kernel, mem', prm, Threads(v), v)
    BY <1>6, <2>7, KernelSame
  <2> QED BY <2>1, <2>8 DEF UnitGood
<1>12. DOMAIN st' = DOMAIN st /\ st'[u] = s /\ \A v \in DOMAIN st \ {u} : st'[v] = st[v] BY <1>1 DEF Set
<1>13. UnitsGood'
  <2>1. DOMAIN st' = UnitsOf(Launch') BY <1>1, <1>2, <1>12 DEF Same
  <2>2. ASSUME NEW v \in DOMAIN st PROVE UnitGood(st'[v], mem', v) BY <1>4, <1>11, <1>12
  <2>3. ASSUME NEW v \in DOMAIN st PROVE UnitGood(st[v], mem, v)' BY <1>1, <2>2 DEF UnitGood, Same
  <2> QED BY <1>12, <2>1, <2>3 DEF UnitsGood
<1>14. MemLaid(mem)' BY <1>1, <1>10 DEF MemLaid, Same
<1> QED BY <1>1, <1>13, <1>14 DEF LaidInv, InLaunch, Same

(* The host's poll between launches: the units of the next one start.      *)
LEMMA UnitsPlain == WellLaid(case) /\ li \in Nat \ {0} /\ Running => Units(Launch) = UnitsOf(Launch)
BY LaunchFacts
LEMMA AllFreshGood == \A u : UnitGood(Fresh, mem, u)
BY FreshGood
LEMMA NextLaunchLaid == ASSUME LaidInv, NextLaunch PROVE LaidInv'
<1> SUFFICES ASSUME WellLaid(case)' PROVE (li \in Nat \ {0} /\ MemLaid(mem) /\ (Running => UnitsGood))'
  BY DEF LaidInv
<1>1. case' = case /\ mem' = mem /\ li' = li + 1 /\ st' = Units0(li') BY DEF NextLaunch
<1>2. WellLaid(case) /\ li \in Nat \ {0} /\ MemLaid(mem) BY <1>1 DEF LaidInv
<1>3. li' \in Nat \ {0} /\ MemLaid(mem)' BY <1>1, <1>2 DEF MemLaid
<1>4. ASSUME Running' PROVE UnitsGood'
  <2>1. (Units(Launch) = UnitsOf(Launch))'
    <3>1. (WellLaid(case) /\ li \in Nat \ {0} /\ Running => Units(Launch) = UnitsOf(Launch))'
      BY UnitsPlain, PTL
    <3> QED BY <1>3, <1>4, <3>1
  <2>2. st' = [u \in Units(case'.launches[li']) |-> Fresh] BY <1>1, <1>4 DEF Units0, Running
  <2>3. st' = [u \in UnitsOf(Launch') |-> Fresh] BY <2>1, <2>2 DEF Launch
  <2>4. (\A u : UnitGood(Fresh, mem, u))' BY AllFreshGood, PTL
  <2> QED BY <2>3, <2>4 DEF UnitsGood
<1> QED BY <1>3, <1>4

(* No step breaks the invariant; kernels with AMOs, and bfs.S, do not run. *)
LEMMA LaidStep == LaidInv /\ [Next]_vars => LaidInv'
<1> SUFFICES ASSUME LaidInv, [Next]_vars PROVE LaidInv' OBVIOUS
<1>1. CASE NextLaunch BY <1>1, NextLaunchLaid
<1>2. ASSUME Running, NEW u \in DOMAIN st, Unit(u) PROVE LaidInv'
  <2>1. case' = case
    BY <1>2 DEF Unit, Load, KmeansLoad, Store, Amo, ScanLoad, ScanAfter, BfsStart, BfsEdge, BfsMark
  <2>2. CASE ~WellLaid(case) BY <2>1, <2>2 DEF LaidInv
  <2>3. CASE WellLaid(case)
    <3>1. InLaunch BY <1>2, <2>3 DEF InLaunch, LaidInv
    <3>2. Kernel \in Plain BY <3>1, LaunchFacts DEF InLaunch
    <3>3. st[u].pc \in {"load", "bar", "store", "end"} BY <3>1 DEF InLaunch, UnitsGood, UnitGood
    <3>4. ~KmeansLoad(u) /\ ~BfsStart(u) BY <3>2 DEF KmeansLoad, BfsStart, Plain
    <3>5. ~Amo(u) /\ ~BfsEdge(u) /\ ~BfsMark(u) BY <3>3 DEF Amo, BfsEdge, BfsMark
    <3> QED BY <1>2, <3>1, <3>4, <3>5, LoadLaid, StoreLaid, ScanLoadLaid, ScanAfterLaid DEF Unit
  <2> QED BY <2>2, <2>3
<1>3. CASE UNCHANGED vars
  <2>1. Same BY <1>3, SameLaunch DEF vars
  <2>2. MemLaid(mem)' <=> MemLaid(mem) BY <1>3, <2>1 DEF MemLaid, vars, Same
  <2>3. \A u : UnitGood(st[u], mem, u)' <=> UnitGood(st[u], mem, u) BY <1>3, <2>1 DEF UnitGood, vars, Same
  <2>4. UnitsGood' <=> UnitsGood BY <1>3, <2>1, <2>3 DEF UnitsGood, vars, Same
  <2> QED BY <1>3, <2>1, <2>2, <2>4 DEF LaidInv, vars, Same, Running
<1> QED BY <1>1, <1>2, <1>3 DEF Next, Ended

(* In every order of warps and threads, memory keeps the parameters and    *)
(* indices gen_apps.py wrote, and a unit of a plain kernel that has loaded *)
(* is about to store what it would load and compute now.                   *)
THEOREM LaidAlways == Spec => []LaidInv
BY LaidInit, LaidStep, PTL DEF Spec

(* NoRace for every well laid out case: no launch of it has a thread read  *)
(* a word that a thread of another warp stores, so tests/tb_apps.sv sees   *)
(* the same result whatever order the pool runs the warps in.              *)
THEOREM RaceFree == Spec => [](WellLaid(case) => NoRace)
<1>1. LaidInv => (WellLaid(case) => NoRace)
  <2> SUFFICES ASSUME LaidInv, WellLaid(case), Running, Simple, NEW u \in DOMAIN st, st[u].pc = "store"
               PROVE  st[u].stores = StoresOf(Kernel, mem, prm, Threads(u), u)
    BY DEF NoRace
  <2> QED BY DEF LaidInv, UnitsGood, UnitGood, Simple
<1> QED BY <1>1, LaidAlways, PTL

(* Each launch finds the kernel it means in its slot.                      *)
Placed(c) == \A L \in ToSet(c.launches) : KernelOf(L) = L.kernel

(* LaunchSound for every well laid out case whose kernels are whole in     *)
(* their slots: the launch starts the kernel place_kernels put there, and  *)
(* its stores go to allocated words that are no parameters, each to be     *)
(* stored by one warp only.                                                *)
THEOREM StoresSound == Spec => [](WellLaid(case) /\ Placed(case) => LaunchSound)
<1>1. LaidInv => (WellLaid(case) /\ Placed(case) => LaunchSound)
  <2> SUFFICES ASSUME LaidInv, WellLaid(case), Placed(case), Running PROVE LaunchSound BY DEF LaunchSound
  <2>1. /\ Launch \in ToSet(case.launches) /\ LaunchLaid(case, Launch) /\ Kernel = KernelOf(Launch)
        /\ DOMAIN st = UnitsOf(Launch)
    BY LaunchFacts DEF LaidInv, UnitsGood
  <2>2. Kernel = Launch.kernel BY <2>1 DEF Placed
  <2>3. ASSUME NEW u \in DOMAIN st PROVE Targets(u) \subseteq SpotsOf(case, Launch, u)
    BY DEF LaidInv, UnitsGood, UnitGood, Targets, Spots
  <2>4. ParamWords \subseteq Fixed(case)
    <3>1. ASSUME NEW L \in ToSet(case.launches) PROVE Params(L) = ParamsAt(L.prm)
      <4>1. LaunchLaid(case, L) /\ KernelOf(L) = L.kernel BY DEF WellLaid, Placed
      <4>2. L.kernel \notin {"kmeans", "kmeans_u"} BY <4>1 DEF LaunchLaid, Plain
      <4> QED BY <4>2 DEF Params, ParamsAt
    <3>2. ASSUME NEW L \in ToSet(case.launches) PROVE ParamsAt(L.prm) \subseteq Fixed(case)
      BY DEF Fixed
    <3> QED BY <3>1, <3>2 DEF ParamWords, ToSet
  <2>5. ASSUME NEW u \in DOMAIN st, NEW s \in st[u].stores PROVE s[1] \in DOMAIN case.words \ ParamWords
    <3>1. <<s[1], s[2]>> \in SpotsOf(case, Launch, u) BY <2>3 DEF Targets
    <3>2. \A x \in SpotsOf(case, Launch, u) : x[1] \in DOMAIN case.words \ Fixed(case) BY <2>1 DEF LaunchLaid
    <3> QED BY <3>1, <3>2, <2>4
  <2>6. ASSUME NEW u \in DOMAIN st, NEW v \in DOMAIN st, u # v PROVE Targets(u) \cap Targets(v) = {}
    BY <2>1, <2>3, <2>6 DEF LaunchLaid
  <2> QED BY <2>2, <2>5, <2>6 DEF LaunchSound
<1> QED BY <1>1, LaidAlways, PTL

----------------------------------------------------------------------------
(* The cases of the generator as it builds them.                           *)
CaseFields == {"name", "words", "top", "at", "launches", "gold"}
Built(c) == DOMAIN c = CaseFields /\ c.top \in Nat /\ DOMAIN c.words \subseteq Idx(c.top)

(* Idx(n) has n members, and a buffer of n words fits the lines alloc      *)
(* takes for it.                                                           *)
LEMMA IdxSize == ASSUME NEW n \in Nat PROVE Cardinality(Idx(n)) = n
<1>1. IF 0 > n - 1 THEN Cardinality(0..(n - 1)) = 0 ELSE Cardinality(0..(n - 1)) = n - 1 - 0 + 1
  BY FS_Interval
<1> QED BY <1>1 DEF Idx

LEMMA LinesHold ==
  ASSUME NEW n \in Nat
  PROVE  /\ CeilDiv(n, LineWords) * LineWords \in Nat /\ CeilDiv(n, LineWords) * LineWords >= n
         /\ n \in 1..8 => CeilDiv(n, LineWords) * LineWords = 8
BY DEF CeilDiv, LineWords

(* alloc: a buffer at the old top, and what lay below kept.                *)
LEMMA AllocFacts ==
  ASSUME NEW c, Built(c), NEW n \in Nat, NEW vals, DOMAIN vals = Idx(n), NEW d, d = alloc(c, vals)
  PROVE  /\ Built(d) /\ d.at = c.top /\ d.top >= c.top + n /\ d.launches = c.launches
         /\ n \in 1..8 => d.top = c.top + 8
         /\ DOMAIN d.words = DOMAIN c.words \cup {c.top + i : i \in Idx(n)}
         /\ \A i \in Idx(n) : d.words[c.top + i] = vals[i] % Mask
<1> DEFINE new == {c.top + i : i \in Idx(n)}
           f == [a \in DOMAIN c.words \cup new |-> IF a \in new THEN vals[a - c.top] % Mask ELSE c.words[a]]
           top == c.top + CeilDiv(n, LineWords) * LineWords
<1>1. Size(vals) = n BY IdxSize DEF Size
<1>2. Put(c.words, c.top, vals) = f BY DEF Put
<1> HIDE DEF f, new
<1>3. /\ DOMAIN d = CaseFields /\ d.words = Put(c.words, c.top, vals) /\ d.at = c.top
      /\ d.top = c.top + CeilDiv(Size(vals), LineWords) * LineWords /\ d.launches = c.launches
  <2>1. d = AllocAt(c, c.top, vals) BY DEF alloc
  <2> QED BY <2>1 DEF AllocAt, Built, CaseFields
<1>4. /\ DOMAIN d = CaseFields /\ d.words = f /\ d.at = c.top /\ d.top = top /\ d.launches = c.launches
  BY <1>1, <1>2, <1>3
<1> HIDE DEF top
<1> USE DEF new
<1>5. top \in Nat /\ top >= c.top + n /\ (n \in 1..8 => top = c.top + 8) BY LinesHold DEF top, Built
<1>6. DOMAIN f = DOMAIN c.words \cup new BY DEF f
<1>7. new \subseteq Idx(top) BY <1>5 DEF Idx, Built
<1>8. DOMAIN c.words \subseteq Idx(top) BY <1>5 DEF Idx, Built
<1>9. \A i \in Idx(n) : f[c.top + i] = vals[i] % Mask
  <2> SUFFICES ASSUME NEW i \in Idx(n) PROVE f[c.top + i] = vals[i] % Mask OBVIOUS
  <2> DEFINE x == (c.top + i) - c.top
  <2>1. c.top + i \in new /\ x = i BY DEF Idx, Built
  <2>2. f[c.top + i] = vals[x] % Mask BY <2>1, Zenon DEF f
  <2> HIDE DEF x, new
  <2> QED BY <2>1, <2>2
<1> QED BY <1>4, <1>5, <1>6, <1>7, <1>8, <1>9 DEF Built

(* launch: a line of parameters, and the launch that names it.             *)
Launched(d, c, q, params, L) ==
  /\ Built(d) /\ d.top >= c.top + q /\ (q \in 1..8 => d.top = c.top + 8)
  /\ d.launches = Append(c.launches, L)
  /\ DOMAIN d.words = DOMAIN c.words \cup {c.top + i : i \in Idx(q)}
  /\ \A i \in Idx(q) : d.words[c.top + i] = params[i + 1] % Mask

(* launch: a parameter block at the old top, and one more launch.          *)
LEMMA LaunchBuilt ==
  ASSUME NEW c, Built(c), NEW q \in Nat, NEW params, Len(params) = q, NEW k, NEW n, NEW b,
         NEW d, d = launch(c, k, params, n, b)
  PROVE  Launched(d, c, q, params, [slot |-> SLOTS[k], kernel |-> k, prm |-> c.top, n |-> n, blk |-> b])
<1> DEFINE arr == Arr(params)
           p   == alloc(c, arr)
           L   == [slot |-> SLOTS[k], kernel |-> k, prm |-> p.at, n |-> n, blk |-> b]
<1>1. DOMAIN arr = Idx(q) /\ \A i \in Idx(q) : arr[i] = params[i + 1] BY DEF Arr
<1>2. d = [p EXCEPT !.launches = Append(p.launches, L)] BY DEF launch
<1> HIDE DEF arr
<1>3. /\ Built(p) /\ p.at = c.top /\ p.top >= c.top + q /\ p.launches = c.launches
      /\ (q \in 1..8 => p.top = c.top + 8)
      /\ DOMAIN p.words = DOMAIN c.words \cup {c.top + i : i \in Idx(q)}
      /\ \A i \in Idx(q) : p.words[c.top + i] = arr[i] % Mask
  BY <1>1, AllocFacts
<1> HIDE DEF p, L
<1>4. DOMAIN d = CaseFields /\ d.words = p.words /\ d.top = p.top /\ d.launches = Append(p.launches, L)
  BY <1>2, <1>3 DEF Built, CaseFields
<1>5. Built(d) BY <1>3, <1>4 DEF Built
<1>6. \A i \in Idx(q) : d.words[c.top + i] = params[i + 1] % Mask BY <1>1, <1>3, <1>4
<1> QED BY <1>3, <1>4, <1>5, <1>6 DEF L, Launched

(* expect: the case but for its expected words.                            *)
LEMMA ExpectBuilt ==
  ASSUME NEW c, Built(c), NEW addr, NEW vals, NEW d, d = expect(c, addr, vals)
  PROVE  Built(d) /\ d.words = c.words /\ d.top = c.top /\ d.launches = c.launches
<1> DEFINE g == Put(c.gold, addr, vals)
<1>1. d = [c EXCEPT !.gold = g] BY DEF expect
<1> HIDE DEF g
<1>2. DOMAIN d = CaseFields /\ d.words = c.words /\ d.top = c.top /\ d.launches = c.launches
  BY <1>1 DEF Built, CaseFields
<1> QED BY <1>2 DEF Built

(* Case(name): nothing allocated.                                          *)
LEMMA EmptyBuilt ==
  ASSUME NEW name, NEW c, c = EmptyCase(name)
  PROVE  Built(c) /\ c.top = 0 /\ c.launches = <<>> /\ DOMAIN c.words = {}
BY DEF EmptyCase, Built, CaseFields

(* A case of one launch.                                                   *)
LEMMA OneLaunch ==
  ASSUME NEW c, NEW L, c.launches = <<L>>
  PROVE  /\ ToSet(c.launches) = {L}
         /\ Fixed(c) = ParamsAt(L.prm) \cup UNION {IndexOf(c, L, u) : u \in UnitsOf(L)}
         /\ LaunchLaid(c, L) => WellLaid(c)
         /\ Placed(c) <=> KernelOf(L) = L.kernel
<1>1. ToSet(c.launches) = {L} BY DEF ToSet
<1>2. c.launches \in Seq({L}) OBVIOUS
<1> QED BY <1>1, <1>2 DEF Fixed, WellLaid, Placed

(* Arithmetic the solver does not do by itself.                            *)
LEMMA Products ==
  ASSUME NEW m \in Nat, NEW k \in Nat
  PROVE  m * k \in Nat
OBVIOUS

(* The threads of a unit are threads of the launch, and no other unit's.   *)
LEMMA UnitThreads ==
  ASSUME NEW L, L.n \in Nat, NEW u \in UnitsOf(L), NEW t \in ThreadsOf(L, u)
  PROVE  t \in Idx(L.n) /\ \A v \in UnitsOf(L) \ {u} : t \notin ThreadsOf(L, v)
<1> USE LanesAssumption
<1>1. u \in Nat /\ \A v \in UnitsOf(L) : v \in Nat BY DEF UnitsOf, Idx
<1>2. u * LANES \in Nat /\ (u + 1) * LANES \in Nat BY <1>1, Products
<1>3. t \in Nat /\ t >= u * LANES /\ t < (u + 1) * LANES /\ t < L.n BY <1>2 DEF ThreadsOf
<1>4. ASSUME NEW v \in Nat, t >= v * LANES, t < (v + 1) * LANES PROVE v = u
  <2>1. v * LANES < (u + 1) * LANES /\ u * LANES < (v + 1) * LANES BY <1>1, <1>3, <1>4
  <2>2. v < u + 1 /\ u < v + 1 BY <1>1, <2>1
  <2> QED BY <1>1, <2>2
<1> QED BY <1>1, <1>3, <1>4 DEF ThreadsOf, Idx

(* The indices of row t \div n of A and of column t % n of B.              *)
LEMMA InMatrix ==
  ASSUME NEW m \in Nat \ {0}, NEW n \in Nat \ {0}, NEW k \in Nat \ {0}, NEW t \in Idx(m * n), NEW i \in 1..k
  PROVE  /\ (t \div n) * k + (i - 1) * 1 \in Idx(m * k)
         /\ (t % n) + (i - 1) * n \in Idx(k * n)
<1>1. t \in Nat /\ t < m * n BY Products DEF Idx
<1> DEFINE r == t \div n
           c == t % n
<1>2. r \in Nat /\ c \in Nat /\ c < n /\ t = n * r + c BY <1>1
<1> HIDE DEF r, c
<1>3. r < m
  <2> SUFFICES ASSUME r >= m PROVE FALSE BY <1>2
  <2>1. n * r >= n * m BY <1>2
  <2> QED BY <1>1, <1>2, <2>1
<1>4. r * k <= (m - 1) * k BY <1>2, <1>3
<1>5. r * k \in Nat /\ (m - 1) * k = m * k - k /\ m * k \in Nat BY <1>2, Products
<1>6. r * k + (i - 1) * 1 \in Idx(m * k) BY <1>4, <1>5 DEF Idx
<1>7. (i - 1) * n <= (k - 1) * n OBVIOUS
<1>8. (i - 1) * n \in Nat /\ (k - 1) * n = k * n - n /\ k * n \in Nat BY Products
<1>9. c + (i - 1) * n \in Idx(k * n) BY <1>2, <1>7, <1>8 DEF Idx
<1> QED BY <1>6, <1>9 DEF r, c

(* What gemm builds: A, B and C one after the other, then the parameters.  *)
GemmLayout(c, m, n, k, kernel, threads) ==
  \E pb \in Nat, pc \in Nat, pr \in Nat :
    /\ pb >= m * k /\ pc >= pb + k * n /\ pr >= pc + m * n /\ c.top >= pr + 8
    /\ Built(c)
    /\ c.launches = <<[slot |-> SLOTS[kernel], kernel |-> kernel, prm |-> pr, n |-> threads, blk |-> 0]>>
    /\ {pc + i : i \in Idx(m * n)} \subseteq DOMAIN c.words
    /\ {pr + i : i \in Idx(5)} \subseteq DOMAIN c.words
    /\ c.words[pr] = 0 % Mask /\ c.words[pr + 1] = pb % Mask /\ c.words[pr + 2] = pc % Mask
    /\ c.words[pr + 3] = k % Mask /\ c.words[pr + 4] = Log2(n) % Mask

(* gemm allocates A, B and C one after the other, launches and expects.    *)
LEMMA GemmSteps ==
  ASSUME NEW m \in Nat \ {0}, NEW n \in Nat \ {0}, NEW k \in Nat \ {0}, NEW name, NEW kernel, NEW threads,
         NEW a, DOMAIN a = Idx(m * k), NEW b, DOMAIN b = Idx(k * n), NEW out,
         NEW ca, ca = alloc(EmptyCase(name), a), NEW cb, cb = alloc(ca, b),
         NEW cc, cc = alloc(cb, Zeros(m * n)),
         NEW l, l = launch(cc, kernel, <<ca.at, cb.at, cc.at, k, Log2(n)>>, threads, 0)
  PROVE  GemmLayout(expect(l, cc.at, out), m, n, k, kernel, threads)
<1> DEFINE z  == Zeros(m * n)
           c0 == EmptyCase(name)
           prm_ == <<ca.at, cb.at, cc.at, k, Log2(n)>>
           c  == expect(l, cc.at, out)
<1>2. DOMAIN a = Idx(m * k) /\ DOMAIN b = Idx(k * n) /\ DOMAIN z = Idx(m * n) BY DEF Zeros
<1>20. ca = alloc(c0, a) /\ cc = alloc(cb, z) OBVIOUS
<1> HIDE DEF z
<1>3. m * k \in Nat /\ k * n \in Nat /\ m * n \in Nat BY Products
<1>4. Built(c0) /\ c0.top = 0 /\ c0.launches = <<>> /\ DOMAIN c0.words = {} BY EmptyBuilt
<1> HIDE DEF c0
<1>5. Built(ca) /\ ca.at = 0 /\ ca.top >= m * k /\ ca.launches = <<>>
  BY <1>2, <1>3, <1>4, <1>20, AllocFacts
<1>6. Built(cb) /\ cb.at = ca.top /\ cb.top >= ca.top + k * n /\ cb.launches = <<>>
  BY <1>2, <1>3, <1>5, AllocFacts
<1>7. /\ Built(cc) /\ cc.at = cb.top /\ cc.top >= cb.top + m * n /\ cc.launches = <<>>
      /\ {cb.top + i : i \in Idx(m * n)} \subseteq DOMAIN cc.words
  BY <1>2, <1>3, <1>6, <1>20, AllocFacts
<1>8. Len(prm_) = 5 /\ prm_[1] = 0 /\ prm_[2] = ca.top /\ prm_[3] = cb.top /\ prm_[4] = k /\ prm_[5] = Log2(n)
  BY <1>5, <1>6, <1>7
<1>1. l = launch(cc, kernel, prm_, threads, 0) OBVIOUS
<1> HIDE DEF prm_
<1> DEFINE L == [slot |-> SLOTS[kernel], kernel |-> kernel, prm |-> cc.top, n |-> threads, blk |-> 0]
<1>9. /\ Built(l) /\ l.top = cc.top + 8 /\ l.launches = Append(<<>>, L)
      /\ DOMAIN l.words = DOMAIN cc.words \cup {cc.top + i : i \in Idx(5)}
      /\ \A i \in Idx(5) : l.words[cc.top + i] = prm_[i + 1] % Mask
  <2>1. Built(cc) /\ Len(prm_) = 5 /\ 5 \in Nat /\ 5 \in 1..8 BY <1>7, <1>8
  <2>2. Launched(l, cc, 5, prm_, L) BY <1>1, <2>1, LaunchBuilt
  <2> HIDE DEF L
  <2> QED BY <1>7, <2>1, <2>2 DEF Launched
<1> HIDE DEF L
<1>18. Built(l) BY <1>9
<1>10. Built(c) /\ c.words = l.words /\ c.top = l.top /\ c.launches = l.launches
  BY <1>18, ExpectBuilt
<1> HIDE DEF c
<1>11. ca.top \in Nat /\ cb.top \in Nat /\ cc.top \in Nat BY <1>5, <1>6, <1>7 DEF Built
<1>12. /\ l.words[cc.top] = 0 % Mask /\ l.words[cc.top + 1] = ca.top % Mask /\ l.words[cc.top + 2] = cb.top % Mask
       /\ l.words[cc.top + 3] = k % Mask /\ l.words[cc.top + 4] = Log2(n) % Mask
  <2>1. 0 \in Idx(5) /\ 1 \in Idx(5) /\ 2 \in Idx(5) /\ 3 \in Idx(5) /\ 4 \in Idx(5) BY DEF Idx
  <2>2. cc.top + 0 = cc.top BY <1>11
  <2>3. /\ l.words[cc.top + 0] = prm_[0 + 1] % Mask /\ l.words[cc.top + 1] = prm_[1 + 1] % Mask
        /\ l.words[cc.top + 2] = prm_[2 + 1] % Mask /\ l.words[cc.top + 3] = prm_[3 + 1] % Mask
        /\ l.words[cc.top + 4] = prm_[4 + 1] % Mask
    BY <1>9, <2>1
  <2> QED BY <1>8, <2>2, <2>3
<1>13. {cc.top + i : i \in Idx(5)} \subseteq DOMAIN l.words BY <1>9
<1>14. Append(<<>>, L) = <<L>> OBVIOUS
<1>15. l.launches = <<L>> BY <1>9, <1>14
<1>16. {cb.top + i : i \in Idx(m * n)} \subseteq DOMAIN l.words BY <1>7, <1>9
<1>17. ca.top >= m * k /\ cb.top >= ca.top + k * n /\ cc.top >= cb.top + m * n /\ c.top >= cc.top + 8
  <2>1. c.top = cc.top + 8 BY <1>9, <1>10
  <2>2. ca.top >= m * k BY <1>5
  <2>3. cb.top >= ca.top + k * n BY <1>6
  <2>4. cc.top >= cb.top + m * n BY <1>7
  <2>5. c.top >= cc.top + 8 BY <1>11, <2>1
  <2> QED BY <2>2, <2>3, <2>4, <2>5
<1>19. GemmLayout(c, m, n, k, kernel, threads)
  <2>1. c.launches = <<[slot |-> SLOTS[kernel], kernel |-> kernel, prm |-> cc.top, n |-> threads, blk |-> 0]>>
    BY <1>10, <1>15 DEF L
  <2>2. Built(c) /\ c.words = l.words BY <1>10
  <2> DEFINE Body(pb, pc, pr) ==
        /\ pb >= m * k /\ pc >= pb + k * n /\ pr >= pc + m * n /\ c.top >= pr + 8
        /\ Built(c)
        /\ c.launches = <<[slot |-> SLOTS[kernel], kernel |-> kernel, prm |-> pr, n |-> threads, blk |-> 0]>>
        /\ {pc + i : i \in Idx(m * n)} \subseteq DOMAIN c.words
        /\ {pr + i : i \in Idx(5)} \subseteq DOMAIN c.words
        /\ c.words[pr] = 0 % Mask /\ c.words[pr + 1] = pb % Mask /\ c.words[pr + 2] = pc % Mask
        /\ c.words[pr + 3] = k % Mask /\ c.words[pr + 4] = Log2(n) % Mask
  <2>3. Body(ca.top, cb.top, cc.top)
    BY <1>12, <1>13, <1>16, <1>17, <2>1, <2>2
  <2>4. GemmLayout(c, m, n, k, kernel, threads) <=> \E pb \in Nat, pc \in Nat, pr \in Nat : Body(pb, pc, pr)
    BY DEF GemmLayout
  <2> HIDE DEF Body
  <2> QED BY <1>11, <2>3, <2>4
<1> QED BY <1>19 DEF c

(* The case gemm builds, plain and blocked.                                *)
LEMMA GemmBuilt ==
  ASSUME NEW m \in Nat \ {0}, NEW n \in Nat \ {0}, NEW k \in Nat \ {0}, NEW rng
  PROVE  /\ GemmLayout(gemm(rng, m, n, k, FALSE), m, n, k, "gemm", m * n)
         /\ GemmLayout(gemm(rng, m, n, k, TRUE), m, n, k, "gemm_rb", (m * n) \div 16)
<1> DEFINE a  == [i \in Idx(m * k) |-> rand_f32(rng[i])]
           b  == [i \in Idx(k * n) |-> rand_f32(rng[m * k + i])]
           ca(name) == alloc(EmptyCase(name), a)
           cb(name) == alloc(ca(name), b)
           cc(name) == alloc(cb(name), Zeros(m * n))
           prm_(name) == <<ca(name).at, cb(name).at, cc(name).at, k, Log2(n)>>
           l(name, kernel, threads) == launch(cc(name), kernel, prm_(name), threads, 0)
           out == [i \in Idx(m * n) |->
                FoldLeft(LAMBDA acc, kk : fma(a[(i \div n) * k + kk],
                                              b[kk * n + (i % n)], acc),
                         0, Iota(k))]
<1>1. gemm(rng, m, n, k, FALSE) = expect(l("gemm", "gemm", m * n), cc("gemm").at, out) BY Zenon DEF gemm
<1>2. gemm(rng, m, n, k, TRUE) = expect(l("gemmrb", "gemm_rb", (m * n) \div 16), cc("gemmrb").at, out)
  BY Zenon DEF gemm
<1>3. DOMAIN a = Idx(m * k) /\ DOMAIN b = Idx(k * n) OBVIOUS
<1> HIDE DEF a, b, out
<1>4. GemmLayout(expect(l("gemm", "gemm", m * n), cc("gemm").at, out), m, n, k, "gemm", m * n)
  BY <1>3, GemmSteps
<1>5. GemmLayout(expect(l("gemmrb", "gemm_rb", (m * n) \div 16), cc("gemmrb").at, out),
                 m, n, k, "gemm_rb", (m * n) \div 16)
  BY <1>3, GemmSteps
<1> HIDE DEF l, cc
<1> QED BY <1>1, <1>2, <1>4, <1>5, Zenon

(* The numbers of the case fit the words that hold them, and the image of  *)
(* the kernel is whole in its slot.                                        *)
GemmFits(c, n, k, kernel) ==
  /\ Mask \in Nat /\ c.top <= Mask /\ k < Mask /\ Log2(n) \in Idx(Mask) /\ 2^Log2(n) = n
  /\ KernelAt[SLOTS[kernel]] = kernel

(* The launch of such a case, with B at pb and C at pc.                    *)
GemmAt(c, m, n, k, L, pb, pc) ==
  /\ c.launches = <<L>> /\ KernelOf(L) = L.kernel /\ L.n \in Nat
  /\ pb \in Nat /\ pc \in Nat /\ L.prm \in Nat /\ c.top \in Nat
  /\ pb >= m * k /\ pc >= pb + k * n /\ L.prm >= pc + m * n /\ c.top >= L.prm + 8
  /\ {pc + i : i \in Idx(m * n)} \subseteq DOMAIN c.words
  /\ Image(c)[L.prm] = 0 /\ Image(c)[L.prm + 1] = pb /\ Image(c)[L.prm + 2] = pc
  /\ Image(c)[L.prm + 3] = k /\ 2^Image(c)[L.prm + 4] = n

(* The image holds the parameters as they were given.                      *)
LEMMA GemmLaunch ==
  ASSUME NEW m \in Nat \ {0}, NEW n \in Nat \ {0}, NEW k \in Nat \ {0}, NEW c, NEW kernel, NEW threads \in Nat,
         GemmLayout(c, m, n, k, kernel, threads), GemmFits(c, n, k, kernel)
  PROVE  \E L, pb, pc : GemmAt(c, m, n, k, L, pb, pc) /\ L.kernel = kernel /\ L.n = threads
<1>1. PICK pb \in Nat, pc \in Nat, pr \in Nat :
        /\ pb >= m * k /\ pc >= pb + k * n /\ pr >= pc + m * n /\ c.top >= pr + 8
        /\ Built(c)
        /\ c.launches = <<[slot |-> SLOTS[kernel], kernel |-> kernel, prm |-> pr, n |-> threads, blk |-> 0]>>
        /\ {pc + i : i \in Idx(m * n)} \subseteq DOMAIN c.words
        /\ {pr + i : i \in Idx(5)} \subseteq DOMAIN c.words
        /\ c.words[pr] = 0 % Mask /\ c.words[pr + 1] = pb % Mask /\ c.words[pr + 2] = pc % Mask
        /\ c.words[pr + 3] = k % Mask /\ c.words[pr + 4] = Log2(n) % Mask
  BY DEF GemmLayout
<1> DEFINE L == [slot |-> SLOTS[kernel], kernel |-> kernel, prm |-> pr, n |-> threads, blk |-> 0]
           h == Image(c)
<1>2. L.slot = SLOTS[kernel] /\ L.kernel = kernel /\ L.prm = pr /\ L.n = threads OBVIOUS
<1>3. c.launches = <<L>> BY <1>1
<1> HIDE DEF L
<1>4. KernelOf(L) = L.kernel BY <1>2 DEF KernelOf, GemmFits
<1>5. m * k \in Nat /\ k * n \in Nat /\ m * n \in Nat BY Products
<1>6. c.top \in Nat BY <1>1 DEF Built
<1>7. h[pr] = 0 /\ h[pr + 1] = pb /\ h[pr + 2] = pc /\ h[pr + 3] = k /\ h[pr + 4] = Log2(n)
  <2>1. /\ pr \in DOMAIN c.words /\ pr + 1 \in DOMAIN c.words /\ pr + 2 \in DOMAIN c.words
        /\ pr + 3 \in DOMAIN c.words /\ pr + 4 \in DOMAIN c.words
    <3>1. 0 \in Idx(5) /\ 1 \in Idx(5) /\ 2 \in Idx(5) /\ 3 \in Idx(5) /\ 4 \in Idx(5) BY DEF Idx
    <3>2. pr + 0 = pr OBVIOUS
    <3> QED BY <1>1, <3>1, <3>2
  <2>2. DOMAIN c.words \subseteq Idx(c.top) BY <1>1 DEF Built
  <2>3. \A a \in DOMAIN c.words : h[a] = c.words[a] BY <2>2 DEF Image
  <2>4. Mask \in Nat /\ 0 < Mask /\ pb < Mask /\ pc < Mask /\ k < Mask /\ Log2(n) \in Idx(Mask)
    BY <1>1, <1>5, <1>6 DEF GemmFits
  <2>5. \A x \in Idx(Mask) : x % Mask = x BY <2>4 DEF Idx
  <2>6. 0 % Mask = 0 /\ pb % Mask = pb /\ pc % Mask = pc /\ k % Mask = k /\ Log2(n) % Mask = Log2(n)
    BY <2>4, <2>5 DEF Idx
  <2> QED BY <1>1, <2>1, <2>3, <2>6
<1> HIDE DEF h
<1>8. 2^h[pr + 4] = n BY <1>7 DEF GemmFits
<1>9. GemmAt(c, m, n, k, L, pb, pc) BY <1>1, <1>2, <1>3, <1>4, <1>6, <1>7, <1>8 DEF GemmAt, h
<1> QED BY <1>2, <1>9

(* Units that read below C and store to distinct words of C.               *)
COwned(c, L, pc, mn) ==
  \A u \in UnitsOf(L) :
    /\ ReadsOf(c, L, u) \subseteq Idx(pc)
    /\ \A s \in SpotsOf(c, L, u) : \E i \in Idx(mn) : s[1] = pc + i
    /\ \A v \in UnitsOf(L) \ {u} : \A s \in SpotsOf(c, L, u), x \in SpotsOf(c, L, v) : s[1] # x[1]

(* What COwned says is all that a launch of gemm needs.                    *)
LEMMA GemmLaunchLaid ==
  ASSUME NEW m \in Nat \ {0}, NEW n \in Nat \ {0}, NEW k \in Nat \ {0}, NEW c, NEW L, NEW pb, NEW pc,
         GemmAt(c, m, n, k, L, pb, pc), L.kernel \in {"gemm", "gemm_rb"}, COwned(c, L, pc, m * n)
  PROVE  WellLaid(c) /\ Placed(c)
<1>1. /\ c.launches = <<L>> /\ KernelOf(L) = L.kernel /\ pc \in Nat /\ L.prm \in Nat /\ L.n \in Nat
      /\ L.prm >= pc + m * n /\ c.top \in Nat /\ c.top >= L.prm + 8
      /\ {pc + i : i \in Idx(m * n)} \subseteq DOMAIN c.words
  BY DEF GemmAt
<1>2. \A u \in UnitsOf(L) : IndexOf(c, L, u) = {} BY <1>1 DEF IndexOf, Index
<1>3. Fixed(c) = ParamsAt(L.prm)
  <2>1. Fixed(c) = ParamsAt(L.prm) \cup UNION {IndexOf(c, L, u) : u \in UnitsOf(L)} BY <1>1, OneLaunch
  <2>2. UNION {IndexOf(c, L, u) : u \in UnitsOf(L)} = {} BY <1>2
  <2> QED BY <2>1, <2>2
<1>4. KernelOf(L) \in Plain /\ L.n \in Nat /\ L.prm \in Nat BY <1>1 DEF Plain
<1>5. m * n \in Nat BY Products
<1>6. ParamsAt(L.prm) \subseteq Idx(c.top) BY <1>1 DEF ParamsAt, Idx
<1>7. Idx(pc) \subseteq Idx(c.top) BY <1>1, <1>5 DEF Idx
<1>8. ASSUME NEW i \in Idx(m * n)
      PROVE  pc + i \in DOMAIN c.words \ Fixed(c) /\ pc + i \notin Idx(pc)
  <2>1. i \in Nat /\ i < m * n BY <1>5 DEF Idx
  <2>2. pc + i \notin ParamsAt(L.prm) BY <1>1, <1>5, <2>1 DEF ParamsAt
  <2>3. pc + i \notin Idx(pc) BY <1>1, <2>1 DEF Idx
  <2> QED BY <1>1, <1>3, <2>2, <2>3
<1>9. ASSUME NEW u \in UnitsOf(L)
      PROVE  /\ ReadsOf(c, L, u) \subseteq Idx(pc)
             /\ \A s \in SpotsOf(c, L, u) : s[1] \in DOMAIN c.words \ Fixed(c) /\ s[1] \notin Idx(pc)
             /\ \A v \in UnitsOf(L) \ {u} : SpotsOf(c, L, u) \cap SpotsOf(c, L, v) = {}
  BY <1>8 DEF COwned
<1>10. LaunchLaid(c, L) BY <1>2, <1>4, <1>6, <1>7, <1>9 DEF LaunchLaid
<1> QED BY <1>1, <1>10, OneLaunch

(* gemm.S: thread t reads row t \div n of A and column t % n of B.         *)
LEMMA GemmReadsAt ==
  ASSUME NEW m \in Nat \ {0}, NEW n \in Nat \ {0}, NEW k \in Nat \ {0}, NEW t \in Idx(m * n),
         NEW h, NEW p \in Nat, NEW pb \in Nat, NEW pc \in Nat, pb >= m * k, pc >= pb + k * n,
         h[p] = 0, h[p + 1] = pb, h[p + 3] = k, 2^h[p + 4] = n
  PROVE  GemmReads(h, p, t) \subseteq Idx(pc)
<1> DEFINE A == {0 + (t \div n) * k + (i - 1) * 1 : i \in 1..k}
           B == {pb + (t % n) + (i - 1) * n : i \in 1..k}
<1>1. GemmReads(h, p, t) = A \cup B BY DEF GemmReads, DotReads
<1>2. m * k \in Nat /\ k * n \in Nat BY Products
<1>3. A \subseteq Idx(pc)
  <2> SUFFICES ASSUME NEW i \in 1..k PROVE 0 + (t \div n) * k + (i - 1) * 1 \in Idx(pc) OBVIOUS
  <2> DEFINE x == (t \div n) * k + (i - 1) * 1
  <2>1. x \in Idx(m * k) BY InMatrix
  <2>2. x \in Int /\ 0 + (t \div n) * k + (i - 1) * 1 = x BY Products DEF Idx
  <2> HIDE DEF x
  <2> QED BY <1>2, <2>1, <2>2 DEF Idx
<1>4. B \subseteq Idx(pc)
  <2> SUFFICES ASSUME NEW i \in 1..k PROVE pb + (t % n) + (i - 1) * n \in Idx(pc) OBVIOUS
  <2> DEFINE x == (t % n) + (i - 1) * n
  <2>1. x \in Idx(k * n) BY InMatrix
  <2>2. pb + (t % n) + (i - 1) * n = pb + x BY Products DEF Idx
  <2> HIDE DEF x
  <2> QED BY <1>2, <2>1, <2>2 DEF Idx
<1> QED BY <1>1, <1>3, <1>4

(* gemm.S: thread t stores word t of C.                                    *)
LEMMA GemmOwned ==
  ASSUME NEW m \in Nat \ {0}, NEW n \in Nat \ {0}, NEW k \in Nat \ {0}, NEW c, NEW L, NEW pb, NEW pc,
         GemmAt(c, m, n, k, L, pb, pc), L.kernel = "gemm", L.n = m * n
  PROVE  COwned(c, L, pc, m * n)
<1> DEFINE h == Image(c)
           p == L.prm
<1>1. /\ KernelOf(L) = "gemm" /\ pb \in Nat /\ pc \in Nat /\ p \in Nat /\ pb >= m * k /\ pc >= pb + k * n
      /\ h[p] = 0 /\ h[p + 1] = pb /\ h[p + 2] = pc /\ h[p + 3] = k /\ 2^h[p + 4] = n /\ L.n \in Nat
  BY DEF GemmAt
<1>2. \A u \in UnitsOf(L) : \A t \in ThreadsOf(L, u) :
        t \in Idx(m * n) /\ \A v \in UnitsOf(L) \ {u} : t \notin ThreadsOf(L, v)
  BY <1>1, UnitThreads
<1>3. ASSUME NEW u \in UnitsOf(L) PROVE ReadsOf(c, L, u) \subseteq Idx(pc)
  <2>1. ReadsOf(c, L, u) = UNION {GemmReads(h, p, t) : t \in ThreadsOf(L, u)}
    BY <1>1 DEF ReadsOf, Reads
  <2> HIDE DEF h, p
  <2>2. ASSUME NEW t \in ThreadsOf(L, u) PROVE GemmReads(h, p, t) \subseteq Idx(pc)
    <3>1. t \in Idx(m * n) BY <1>2
    <3>2. pb >= m * k /\ pc >= pb + k * n /\ pb \in Nat /\ pc \in Nat /\ p \in Nat BY <1>1
    <3>3. h[p] = 0 /\ h[p + 1] = pb /\ h[p + 3] = k /\ 2^h[p + 4] = n BY <1>1
    <3> QED BY <3>1, <3>2, <3>3, GemmReadsAt
  <2> QED BY <2>1, <2>2
<1>4. ASSUME NEW u \in UnitsOf(L) PROVE SpotsOf(c, L, u) = {<<pc + t, Whole>> : t \in ThreadsOf(L, u)}
  <2>1. SpotsOf(c, L, u) = Spots(UNION {GemmStores(h, p, t) : t \in ThreadsOf(L, u)})
    BY <1>1 DEF SpotsOf, StoresOf
  <2> HIDE DEF h, p
  <2>2. \A t : Spots(GemmStores(h, p, t)) = {<<pc + t, Whole>>} BY <1>1 DEF GemmStores, Spots, Word
  <2>3. Spots(UNION {GemmStores(h, p, t) : t \in ThreadsOf(L, u)})
          = UNION {Spots(GemmStores(h, p, t)) : t \in ThreadsOf(L, u)}
    BY DEF Spots
  <2> QED BY <2>1, <2>2, <2>3
<1>5. ASSUME NEW u \in UnitsOf(L), NEW s \in SpotsOf(c, L, u)
      PROVE  \E t \in ThreadsOf(L, u) : s[1] = pc + t /\ t \in Idx(m * n)
  BY <1>2, <1>4
<1>6. ASSUME NEW u \in UnitsOf(L), NEW v \in UnitsOf(L) \ {u}, NEW s \in SpotsOf(c, L, u), NEW x \in SpotsOf(c, L, v)
      PROVE  s[1] # x[1]
  <2>1. PICK t \in ThreadsOf(L, u) : s[1] = pc + t /\ t \in Idx(m * n) BY <1>5
  <2>2. PICK y \in ThreadsOf(L, v) : x[1] = pc + y /\ y \in Idx(m * n) BY <1>5
  <2>3. t # y BY <1>2, <2>1, <2>2
  <2> QED BY <1>1, <2>1, <2>2, <2>3 DEF Idx
<1>7. ASSUME NEW u \in UnitsOf(L) PROVE \A s \in SpotsOf(c, L, u) : \E i \in Idx(m * n) : s[1] = pc + i
  BY <1>5
<1> QED BY <1>3, <1>6, <1>7 DEF COwned

(* Quotient and remainder are one pair.                                    *)
LEMMA Euclid ==
  ASSUME NEW d \in Nat \ {0}, NEW a \in Nat, NEW b \in Nat, NEW x \in Idx(d), NEW y \in Idx(d), a * d + x = b * d + y
  PROVE  a = b /\ x = y
<1>1. x \in Nat /\ y \in Nat /\ x < d /\ y < d BY DEF Idx
<1>2. ASSUME NEW e \in Nat, NEW f \in Nat, e < f PROVE (e + 1) * d <= f * d
  BY <1>2
<1>3. (a + 1) * d = a * d + d /\ (b + 1) * d = b * d + d /\ a * d \in Nat /\ b * d \in Nat BY Products
<1>4. ~(a < b) BY <1>1, <1>2, <1>3
<1>5. ~(b < a) BY <1>1, <1>2, <1>3
<1> QED BY <1>1, <1>3, <1>4, <1>5

SameSum(d, a, x, b, y) == a * d + x = b * d + y

(* The same, with the equation as a predicate.                             *)
LEMMA EuclidSame ==
  ASSUME NEW d \in Nat \ {0}, NEW a \in Nat, NEW b \in Nat, NEW x \in Idx(d), NEW y \in Idx(d), SameSum(d, a, x, b, y)
  PROVE  a = b /\ x = y
<1>1. a * d + x = b * d + y BY DEF SameSum
<1> QED BY <1>1, Euclid

(* gemm_rb: the row and column of the word i, j of thread t of warp u.     *)
RbRow(n, u, i) == 4 * (u \div (n \div (4 * LANES))) + i
RbCol(n, u, t, j) == (u % (n \div (4 * LANES))) * 4 * LANES + (t % LANES) + j * LANES

(* Row and column are inside C, and say which warp has the word.           *)
LEMMA RbInside ==
  ASSUME NEW mb \in Nat \ {0}, NEW nb \in Nat \ {0}, NEW n, n = nb * (4 * LANES), NEW u \in Idx(mb * nb),
         NEW t \in Nat, NEW i \in 0..3, NEW j \in 0..3
  PROVE  /\ RbRow(n, u, i) \in Idx(4 * mb) /\ RbCol(n, u, t, j) \in Idx(n)
         /\ RbRow(n, u, i) \div 4 = u \div nb /\ RbCol(n, u, t, j) \div (4 * LANES) = u % nb
<1> USE LanesAssumption
<1> DEFINE B == 4 * LANES
           q == u \div nb
           r == u % nb
           e == t % LANES
           f == e + j * LANES
<1>1. B \in Nat \ {0} OBVIOUS
<1>2. n \div B = nb BY <1>1
<1>3. u \in Nat /\ u < mb * nb BY Products DEF Idx
<1>4. q \in Nat /\ r \in Nat /\ r < nb /\ u = nb * q + r BY <1>3
<1>5. e \in Nat /\ e < LANES OBVIOUS
<1>6. f \in Nat /\ f < B
  <2>1. j * LANES <= 3 * LANES /\ j * LANES \in Nat OBVIOUS
  <2> QED BY <1>5, <2>1
<1>7. RbRow(n, u, i) = 4 * q + i BY <1>2 DEF RbRow
<1>8. RbCol(n, u, t, j) = r * B + f
  <2>1. RbCol(n, u, t, j) = r * 4 * LANES + e + j * LANES BY <1>2 DEF RbCol
  <2>2. r * 4 * LANES = r * (4 * LANES) /\ r * (4 * LANES) \in Nat BY <1>4
  <2> QED BY <1>5, <1>6, <2>1, <2>2
<1> HIDE DEF B, q, r, e, f
<1>9. q < mb
  <2> SUFFICES ASSUME q >= mb PROVE FALSE BY <1>4
  <2>1. nb * q >= nb * mb BY <1>4
  <2>2. mb * nb = nb * mb OBVIOUS
  <2> QED BY <1>3, <1>4, <2>1, <2>2, Products
<1>10. RbRow(n, u, i) \in Idx(4 * mb) /\ RbRow(n, u, i) \div 4 = q BY <1>4, <1>7, <1>9 DEF Idx
<1>11. r * B \in Nat /\ r * B <= (nb - 1) * B /\ (nb - 1) * B = nb * B - B BY <1>1, <1>4, Products
<1>12. n = nb * B BY DEF B
<1>13. RbCol(n, u, t, j) \in Idx(n) BY <1>1, <1>6, <1>8, <1>11, <1>12 DEF Idx
<1>14. (r * B + f) \div B = r
  <2> DEFINE x == r * B + f
  <2>1. x \in Nat BY <1>6, <1>11
  <2>2. x \div B \in Nat /\ x % B \in Idx(B) /\ x = (x \div B) * B + (x % B)
    <3> HIDE DEF x
    <3> QED BY <1>1, <2>1 DEF Idx
  <2>3. f \in Idx(B) BY <1>1, <1>6 DEF Idx
  <2> HIDE DEF x
  <2>4. (x \div B) * B + (x % B) = r * B + f BY <2>2 DEF x
  <2>5. x \div B = r BY <1>1, <1>4, <2>2, <2>3, <2>4, Euclid
  <2> QED BY <2>5 DEF x
<1> QED BY <1>8, <1>10, <1>13, <1>14 DEF q, r, B

(* Indices in A, B and C of a row, a column and a step of the product.     *)
LEMMA RowColumn ==
  ASSUME NEW m \in Nat \ {0}, NEW n \in Nat \ {0}, NEW k \in Nat \ {0}, NEW r \in Idx(m), NEW e \in Idx(n), NEW i \in 1..k
  PROVE  /\ r * k + (i - 1) * 1 \in Idx(m * k) /\ e + (i - 1) * n \in Idx(k * n)
         /\ r * n + e \in Idx(m * n)
<1>1. r \in Nat /\ r < m /\ e \in Nat /\ e < n BY DEF Idx
<1>2. r * k <= (m - 1) * k /\ r * n <= (m - 1) * n BY <1>1
<1>3. r * k \in Nat /\ r * n \in Nat /\ m * k \in Nat /\ m * n \in Nat /\ k * n \in Nat BY <1>1, Products
<1>4. (m - 1) * k = m * k - k /\ (m - 1) * n = m * n - n OBVIOUS
<1>5. (i - 1) * n <= (k - 1) * n /\ (i - 1) * n \in Nat /\ (k - 1) * n = k * n - n BY Products
<1>6. r * k + (i - 1) * 1 \in Idx(m * k) BY <1>2, <1>3, <1>4 DEF Idx
<1>7. e + (i - 1) * n \in Idx(k * n) BY <1>1, <1>3, <1>5 DEF Idx
<1>8. r * n + e \in Idx(m * n) BY <1>1, <1>2, <1>3, <1>4 DEF Idx
<1> QED BY <1>6, <1>7, <1>8

(* Warp u of gemm_rb is one of the mb * nb blocks.                         *)
LEMMA RbThreads ==
  ASSUME NEW mb \in Nat \ {0}, NEW nb \in Nat \ {0}, NEW L, L.n = ((4 * mb) * (nb * (4 * LANES))) \div 16,
         NEW u \in UnitsOf(L), NEW t \in ThreadsOf(L, u)
  PROVE  t \in Nat /\ t \div LANES = u /\ u \in Idx(mb * nb)
<1> USE LanesAssumption
<1> DEFINE N == mb * nb
           M == N * LANES
<1>1. N \in Nat /\ M \in Nat BY Products
<1>2. (4 * mb) * (nb * (4 * LANES)) = 16 * M OBVIOUS
<1>3. L.n = M
  <2> HIDE DEF M
  <2> QED BY <1>1, <1>2
<1>4. u \in Nat BY DEF UnitsOf, Idx
<1>5. u * LANES \in Nat /\ (u + 1) * LANES = u * LANES + LANES BY <1>4, Products
<1>6. t \in Nat /\ t >= u * LANES /\ t < u * LANES + LANES /\ t < M
  <2> HIDE DEF M
  <2> QED BY <1>1, <1>3, <1>5 DEF ThreadsOf
<1>7. t \div LANES = u
  <2> DEFINE a == t \div LANES
             x == t - u * LANES
  <2>1. a \in Nat /\ t % LANES \in Idx(LANES) /\ t = a * LANES + (t % LANES) BY <1>6 DEF Idx
  <2>2. x \in Idx(LANES) /\ t = u * LANES + x BY <1>5, <1>6 DEF Idx
  <2> HIDE DEF a, x
  <2>3. a * LANES + (t % LANES) = u * LANES + x BY <2>1, <2>2
  <2>4. a = u BY <1>4, <2>1, <2>2, <2>3, Euclid
  <2> QED BY <2>4 DEF a
<1>8. u < N
  <2> SUFFICES ASSUME u >= N PROVE FALSE BY <1>1, <1>4
  <2>1. u * LANES >= N * LANES
    <3> HIDE DEF N
    <3> QED BY <1>1, <1>4
  <2> QED BY <1>1, <1>5, <1>6, <2>1
<1> QED BY <1>4, <1>6, <1>7, <1>8 DEF Idx

(* gemm_rb.S: the sixteen words of a thread are inside C, and two warps    *)
(* share none.                                                             *)
LEMMA GemmRbOwned ==
  ASSUME NEW mb \in Nat \ {0}, NEW nb \in Nat \ {0}, NEW m, NEW n, m = 4 * mb, n = nb * (4 * LANES),
         NEW k \in Nat \ {0}, NEW c, NEW L, NEW pb, NEW pc,
         GemmAt(c, m, n, k, L, pb, pc), L.kernel = "gemm_rb", L.n = (m * n) \div 16
  PROVE  COwned(c, L, pc, m * n)
<1> DEFINE h == Image(c)
           p == L.prm
           RowAt(u, i) == RbRow(n, u, i)
           ColAt(u, t, j) == RbCol(n, u, t, j)
<1>0. m \in Nat \ {0} /\ n \in Nat \ {0} BY LanesAssumption
<1>1. /\ KernelOf(L) = "gemm_rb" /\ pb \in Nat /\ pc \in Nat /\ p \in Nat /\ pb >= m * k /\ pc >= pb + k * n
      /\ h[p] = 0 /\ h[p + 1] = pb /\ h[p + 2] = pc /\ h[p + 3] = k /\ 2^h[p + 4] = n /\ L.n \in Nat
  BY DEF GemmAt
<1>2. ASSUME NEW u \in UnitsOf(L), NEW t \in ThreadsOf(L, u)
      PROVE  t \in Nat /\ t \div LANES = u /\ u \in Idx(mb * nb)
  BY RbThreads
<1>3. ASSUME NEW u \in UnitsOf(L), NEW t \in ThreadsOf(L, u), NEW i \in 0..3, NEW j \in 0..3
      PROVE  /\ RowAt(u, i) \in Idx(m) /\ ColAt(u, t, j) \in Idx(n)
             /\ RowAt(u, i) \div 4 = u \div nb /\ ColAt(u, t, j) \div (4 * LANES) = u % nb
  BY <1>2, RbInside
<1> DEFINE R(u, t, i, j) == DotReads(h[p] + RowAt(u, i) * k, 1, pb + ColAt(u, t, j), n, k)
           S(u, t, i, j) == pc + (RowAt(u, i) * n + ColAt(u, t, j))
           C0(u, t) == (u % (n \div (4 * LANES))) * 4 * LANES + (t % LANES)
<1>4. ASSUME NEW u \in UnitsOf(L), NEW t \in ThreadsOf(L, u), NEW i \in 0..3, NEW j \in 0..3
      PROVE  /\ pb + C0(u, t) + j * LANES = pb + ColAt(u, t, j)
             /\ pc + RowAt(u, i) * n + C0(u, t) + j * LANES = S(u, t, i, j)
  <2>1. ColAt(u, t, j) = C0(u, t) + j * LANES BY DEF RbCol
  <2>2. C0(u, t) \in Int /\ j * LANES \in Int
    <3>1. u \in Nat /\ t \in Nat /\ n \div (4 * LANES) = nb /\ LANES \in Nat \ {0} /\ nb \in Nat \ {0}
      BY <1>2, LanesAssumption DEF Idx
    <3>2. u % nb \in Nat /\ t % LANES \in Nat BY <3>1
    <3> QED BY <3>1, <3>2
  <2>3. RowAt(u, i) \in Nat BY <1>3 DEF Idx
  <2>4. RowAt(u, i) * n \in Int BY <1>0, <2>3
  <2> HIDE DEF C0, RowAt, ColAt
  <2> QED BY <1>1, <2>1, <2>2, <2>4
<1>5. ASSUME NEW u \in UnitsOf(L), NEW t \in ThreadsOf(L, u)
      PROVE  GemmRbReads(h, p, t) = UNION {R(u, t, i, j) : i \in 0..3, j \in 0..3}
  <2>1. GemmRbReads(h, p, t)
          = UNION {DotReads(h[p] + RowAt(u, i) * k, 1, pb + C0(u, t) + j * LANES, n, k) : i \in 0..3, j \in 0..3}
    <3>1. h[p + 1] = pb /\ h[p + 3] = k /\ 2^h[p + 4] = n /\ t \div LANES = u BY <1>1, <1>2
    <3> HIDE DEF h, p
    <3> QED BY <3>1, SMTT(20) DEF GemmRbReads, RbRow
  <2> HIDE DEF C0, RowAt, ColAt, h, p
  <2>2. \A i \in 0..3, j \in 0..3 :
          DotReads(h[p] + RowAt(u, i) * k, 1, pb + C0(u, t) + j * LANES, n, k) = R(u, t, i, j)
    BY <1>4
  <2> HIDE DEF R
  <2> QED BY <2>1, <2>2
<1>6. ASSUME NEW u \in UnitsOf(L), NEW t \in ThreadsOf(L, u)
      PROVE  Spots(GemmRbStores(h, p, t)) = {<<S(u, t, i, j), Whole>> : i \in 0..3, j \in 0..3}
  <2> DEFINE A(i, j) == pc + RowAt(u, i) * n + C0(u, t) + j * LANES
             V(i, j) == Dot(h, h[p] + RowAt(u, i) * k, 1, pb + C0(u, t) + j * LANES, n, k)
  <2>0. h[p + 1] = pb /\ h[p + 2] = pc /\ h[p + 3] = k /\ 2^h[p + 4] = n /\ t \div LANES = u BY <1>1, <1>2
  <2>1. GemmRbStores(h, p, t) = {Word(A(i, j), V(i, j)) : i \in 0..3, j \in 0..3}
    <3> HIDE DEF h, p
    <3> QED BY <2>0, SMTT(20) DEF GemmRbStores, RbRow
  <2>2. \A i \in 0..3, j \in 0..3 : A(i, j) = S(u, t, i, j) BY <1>4
  <2> DEFINE Wd(i, j) == Word(A(i, j), V(i, j))
  <2> HIDE DEF A, V, S
  <2>3. \A i \in 0..3, j \in 0..3 : Wd(i, j)[1] = A(i, j) /\ Wd(i, j)[2] = Whole BY DEF Word
  <2>4. GemmRbStores(h, p, t) = {Wd(i, j) : i \in 0..3, j \in 0..3} BY <2>1
  <2> HIDE DEF Wd, h, p
  <2>5. Spots(GemmRbStores(h, p, t)) = {<<Wd(i, j)[1], Wd(i, j)[2]>> : i \in 0..3, j \in 0..3}
    BY <2>4 DEF Spots
  <2> QED BY <2>2, <2>3, <2>5
<1>7. ASSUME NEW u \in UnitsOf(L) PROVE ReadsOf(c, L, u) \subseteq Idx(pc)
  <2>1. ReadsOf(c, L, u) = UNION {GemmRbReads(h, p, t) : t \in ThreadsOf(L, u)}
    BY <1>1 DEF ReadsOf, Reads
  <2>2. ASSUME NEW t \in ThreadsOf(L, u), NEW i \in 0..3, NEW j \in 0..3
        PROVE  R(u, t, i, j) \subseteq Idx(pc)
    <3> DEFINE r == RowAt(u, i)
               e == ColAt(u, t, j)
    <3>1. r \in Idx(m) /\ e \in Idx(n) BY <1>3
    <3>2. m * k \in Nat /\ k * n \in Nat BY <1>0, Products
    <3>3. R(u, t, i, j) = {h[p] + r * k + (x - 1) * 1 : x \in 1..k} \cup {pb + e + (x - 1) * n : x \in 1..k}
      BY DEF DotReads
    <3> HIDE DEF r, e, R, h, p
    <3>4. ASSUME NEW x \in 1..k
          PROVE  h[p] + r * k + (x - 1) * 1 \in Idx(pc) /\ pb + e + (x - 1) * n \in Idx(pc)
      <4>1. r * k + (x - 1) * 1 \in Idx(m * k) /\ e + (x - 1) * n \in Idx(k * n)
        BY <1>0, <3>1, RowColumn
      <4>2. r \in Nat /\ e \in Nat BY <3>1 DEF Idx
      <4>3. r * k \in Nat /\ (x - 1) * n \in Nat BY <1>0, <4>2, Products
      <4>4. h[p] + r * k + (x - 1) * 1 = r * k + (x - 1) * 1 BY <1>1, <4>3
      <4>5. pb + e + (x - 1) * n = pb + (e + (x - 1) * n) BY <1>1, <4>2, <4>3
      <4> DEFINE y == r * k + (x - 1) * 1
                 z == e + (x - 1) * n
      <4> HIDE DEF y, z
      <4>6. y \in Idx(m * k) /\ z \in Idx(k * n) BY <4>1 DEF y, z
      <4>7. y \in Idx(pc) /\ pb + z \in Idx(pc) BY <1>1, <3>2, <4>6 DEF Idx
      <4> QED BY <4>4, <4>5, <4>7 DEF y, z
    <3> QED BY <3>3, <3>4
  <2>3. ASSUME NEW t \in ThreadsOf(L, u) PROVE GemmRbReads(h, p, t) \subseteq Idx(pc)
    <3>1. GemmRbReads(h, p, t) = UNION {R(u, t, i, j) : i \in 0..3, j \in 0..3} BY <1>5
    <3> HIDE DEF R, h, p
    <3> QED BY <2>2, <3>1
  <2> QED BY <2>1, <2>3
<1>8. ASSUME NEW u \in UnitsOf(L), NEW s \in SpotsOf(c, L, u)
      PROVE  \E t \in ThreadsOf(L, u), i \in 0..3, j \in 0..3 : s[1] = S(u, t, i, j)
  <2>1. SpotsOf(c, L, u) = Spots(UNION {GemmRbStores(h, p, t) : t \in ThreadsOf(L, u)})
    BY <1>1 DEF SpotsOf, StoresOf
  <2>2. \A t \in ThreadsOf(L, u) :
          Spots(GemmRbStores(h, p, t)) = {<<S(u, t, i, j), Whole>> : i \in 0..3, j \in 0..3}
    BY <1>6
  <2> HIDE DEF h, p, S
  <2>3. Spots(UNION {GemmRbStores(h, p, t) : t \in ThreadsOf(L, u)})
          = UNION {Spots(GemmRbStores(h, p, t)) : t \in ThreadsOf(L, u)}
    BY DEF Spots
  <2>4. PICK t \in ThreadsOf(L, u) : s \in Spots(GemmRbStores(h, p, t)) BY <2>1, <2>3
  <2>5. PICK i \in 0..3, j \in 0..3 : s = <<S(u, t, i, j), Whole>> BY <2>2, <2>4
  <2> QED BY <2>5
<1>9. ASSUME NEW u \in UnitsOf(L), NEW s \in SpotsOf(c, L, u)
      PROVE  \E x \in Idx(m * n) : s[1] = pc + x
  <2>1. PICK t \in ThreadsOf(L, u), i \in 0..3, j \in 0..3 : s[1] = S(u, t, i, j) BY <1>8
  <2>2. RowAt(u, i) \in Idx(m) /\ ColAt(u, t, j) \in Idx(n) BY <1>3
  <2> HIDE DEF RowAt, ColAt
  <2>3. 1 \in 1..k OBVIOUS
  <2>4. RowAt(u, i) * n + ColAt(u, t, j) \in Idx(m * n) BY <1>0, <2>2, <2>3, RowColumn
  <2> QED BY <2>1, <2>4
<1>10. ASSUME NEW u \in UnitsOf(L), NEW v \in UnitsOf(L) \ {u}, NEW s \in SpotsOf(c, L, u), NEW x \in SpotsOf(c, L, v)
       PROVE  s[1] # x[1]
  <2>1. PICK t \in ThreadsOf(L, u), i \in 0..3, j \in 0..3 : s[1] = S(u, t, i, j) BY <1>8
  <2>2. PICK y \in ThreadsOf(L, v), a \in 0..3, b \in 0..3 : x[1] = S(v, y, a, b) BY <1>8
  <2>3. /\ RowAt(u, i) \in Idx(m) /\ ColAt(u, t, j) \in Idx(n)
        /\ RowAt(u, i) \div 4 = u \div nb /\ ColAt(u, t, j) \div (4 * LANES) = u % nb
    BY <1>3
  <2>4. /\ RowAt(v, a) \in Idx(m) /\ ColAt(v, y, b) \in Idx(n)
        /\ RowAt(v, a) \div 4 = v \div nb /\ ColAt(v, y, b) \div (4 * LANES) = v % nb
    BY <1>3
  <2>5. u \in Nat /\ v \in Nat BY DEF UnitsOf, Idx
  <2>6. u = nb * (u \div nb) + (u % nb) /\ v = nb * (v \div nb) + (v % nb) BY <2>5
  <2> HIDE DEF RowAt, ColAt
  <2> SUFFICES ASSUME s[1] = x[1] PROVE FALSE OBVIOUS
  <2> DEFINE r1 == RowAt(u, i)
             r2 == RowAt(v, a)
             e1 == ColAt(u, t, j)
             e2 == ColAt(v, y, b)
  <2>7. r1 \in Idx(m) /\ r2 \in Idx(m) /\ e1 \in Idx(n) /\ e2 \in Idx(n) BY <2>3, <2>4
  <2>8. pc + (r1 * n + e1) = pc + (r2 * n + e2) BY <2>1, <2>2
  <2>9. r1 \div 4 = u \div nb /\ e1 \div (4 * LANES) = u % nb /\ r2 \div 4 = v \div nb /\ e2 \div (4 * LANES) = v % nb
    BY <2>3, <2>4
  <2> HIDE DEF r1, r2, e1, e2
  <2>10. r1 \in Nat /\ r2 \in Nat /\ e1 \in Nat /\ e2 \in Nat BY <2>7 DEF Idx
  <2>11. r1 * n \in Nat /\ r2 * n \in Nat BY <1>0, <2>10, Products
  <2>12. SameSum(n, r1, e1, r2, e2)
    <3> DEFINE a1 == r1 * n
               a2 == r2 * n
    <3>1. pc \in Nat /\ a1 \in Nat /\ a2 \in Nat /\ pc + (a1 + e1) = pc + (a2 + e2) BY <1>1, <2>8, <2>11
    <3>2. SameSum(n, r1, e1, r2, e2) <=> a1 + e1 = a2 + e2 BY DEF SameSum
    <3> HIDE DEF a1, a2
    <3>3. a1 + e1 = a2 + e2 BY <2>10, <3>1
    <3> QED BY <3>2, <3>3
  <2>13. r1 = r2 /\ e1 = e2 BY <1>0, <2>7, <2>10, <2>12, EuclidSame
  <2> QED BY <2>6, <2>9, <2>13
<1> QED BY <1>7, <1>9, <1>10 DEF COwned

(* A suite of matrix products, the blocked ones of the sizes gemm asserts. *)
GemmCase(c) ==
  \E rng : \E k \in Nat \ {0} :
    \/ \E m, n \in Nat \ {0} : c = gemm(rng, m, n, k, FALSE) /\ GemmFits(c, n, k, "gemm")
    \/ \E mb, nb \in Nat \ {0} :
         /\ c = gemm(rng, 4 * mb, nb * (4 * LANES), k, TRUE)
         /\ GemmFits(c, nb * (4 * LANES), k, "gemm_rb")

(* Both forms of gemm are well laid out.                                   *)
LEMMA PlainGemmLaid ==
  ASSUME NEW m \in Nat \ {0}, NEW n \in Nat \ {0}, NEW k \in Nat \ {0}, NEW c,
         GemmLayout(c, m, n, k, "gemm", m * n), GemmFits(c, n, k, "gemm")
  PROVE  WellLaid(c) /\ Placed(c)
<1>1. m * n \in Nat BY Products
<1>2. PICK L, pb, pc : GemmAt(c, m, n, k, L, pb, pc) /\ L.kernel = "gemm" /\ L.n = m * n BY <1>1, GemmLaunch
<1>3. COwned(c, L, pc, m * n) BY <1>2, GemmOwned
<1> QED BY <1>2, <1>3, GemmLaunchLaid

LEMMA BlockedGemmLaid ==
  ASSUME NEW mb \in Nat \ {0}, NEW nb \in Nat \ {0}, NEW m, NEW n, m = 4 * mb, n = nb * (4 * LANES),
         NEW k \in Nat \ {0}, NEW c,
         GemmLayout(c, m, n, k, "gemm_rb", (m * n) \div 16), GemmFits(c, n, k, "gemm_rb")
  PROVE  WellLaid(c) /\ Placed(c)
<1>1. m \in Nat \ {0} /\ n \in Nat \ {0} BY LanesAssumption
<1>2. m * n \in Nat BY <1>1, Products
<1>3. (m * n) \div 16 \in Nat BY <1>2
<1>4. PICK L, pb, pc : GemmAt(c, m, n, k, L, pb, pc) /\ L.kernel = "gemm_rb" /\ L.n = (m * n) \div 16
  <2> HIDE DEF GemmAt
  <2> QED BY <1>1, <1>3, GemmLaunch
<1>5. COwned(c, L, pc, m * n) BY <1>4, GemmRbOwned
<1> QED BY <1>1, <1>4, <1>5, GemmLaunchLaid

(* No race, the right kernel and stores in place for every suite of        *)
(* matrix products, of all sizes, plain and blocked, and all orders of     *)
(* their warps: gemm of gen_apps.py lays out A, B, C and the parameters    *)
(* so that gemm.S and gemm_rb.S, as they index, never meet.                *)
THEOREM GemmSuiteSound ==
  ASSUME \A c \in Cases : GemmCase(c)
  PROVE  Spec => [](NoRace /\ LaunchSound)
<1>1. ASSUME NEW c \in Cases PROVE WellLaid(c) /\ Placed(c)
  <2>1. PICK rng : \E k \in Nat \ {0} :
          \/ \E m, n \in Nat \ {0} : c = gemm(rng, m, n, k, FALSE) /\ GemmFits(c, n, k, "gemm")
          \/ \E mb, nb \in Nat \ {0} :
               /\ c = gemm(rng, 4 * mb, nb * (4 * LANES), k, TRUE)
               /\ GemmFits(c, nb * (4 * LANES), k, "gemm_rb")
    BY Zenon DEF GemmCase
  <2>2. PICK k \in Nat \ {0} :
          \/ \E m, n \in Nat \ {0} : c = gemm(rng, m, n, k, FALSE) /\ GemmFits(c, n, k, "gemm")
          \/ \E mb, nb \in Nat \ {0} :
               /\ c = gemm(rng, 4 * mb, nb * (4 * LANES), k, TRUE)
               /\ GemmFits(c, nb * (4 * LANES), k, "gemm_rb")
    BY <2>1, Zenon
  <2>3. ASSUME NEW m \in Nat \ {0}, NEW n \in Nat \ {0},
               c = gemm(rng, m, n, k, FALSE), GemmFits(c, n, k, "gemm")
        PROVE  WellLaid(c) /\ Placed(c)
    <3>1. GemmLayout(gemm(rng, m, n, k, FALSE), m, n, k, "gemm", m * n) BY GemmBuilt
    <3>2. GemmLayout(c, m, n, k, "gemm", m * n) BY <2>3, <3>1, Zenon
    <3>3. GemmFits(c, n, k, "gemm") BY <2>3, Zenon
    <3> QED BY <3>2, <3>3, PlainGemmLaid
  <2>4. ASSUME NEW mb \in Nat \ {0}, NEW nb \in Nat \ {0},
               c = gemm(rng, 4 * mb, nb * (4 * LANES), k, TRUE), GemmFits(c, nb * (4 * LANES), k, "gemm_rb")
        PROVE  WellLaid(c) /\ Placed(c)
    <3> DEFINE m == 4 * mb
               n == nb * (4 * LANES)
    <3>1. m \in Nat \ {0} /\ n \in Nat \ {0} BY LanesAssumption
    <3> HIDE DEF m, n
    <3>2. GemmLayout(gemm(rng, m, n, k, TRUE), m, n, k, "gemm_rb", (m * n) \div 16) BY <3>1, GemmBuilt
    <3>3. c = gemm(rng, m, n, k, TRUE) /\ GemmFits(c, n, k, "gemm_rb") BY <2>4, Zenon DEF m, n
    <3>4. GemmLayout(c, m, n, k, "gemm_rb", (m * n) \div 16) BY <3>2, <3>3, Zenon
    <3>5. GemmFits(c, n, k, "gemm_rb") BY <3>3, Zenon
    <3>6. m = 4 * mb /\ n = nb * (4 * LANES) BY DEF m, n
    <3> QED BY <3>4, <3>5, <3>6, BlockedGemmLaid
  <2> QED BY <2>2, <2>3, <2>4, Zenon
<1>2. Init => case \in Cases BY DEF Init
<1>3. case \in Cases /\ [Next]_vars => (case \in Cases)'
  BY DEF Next, vars, NextLaunch, Ended, Unit, Load, KmeansLoad, Store, Amo, ScanLoad, ScanAfter, BfsStart, BfsEdge, BfsMark
<1>4. Spec => [](case \in Cases) BY <1>2, <1>3, PTL DEF Spec
<1>5. case \in Cases => WellLaid(case) /\ Placed(case) BY <1>1
<1> QED BY <1>4, <1>5, RaceFree, StoresSound, PTL
=============================================================================
