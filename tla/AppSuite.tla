------------------------------ MODULE AppSuite ------------------------------
(***************************************************************************)
(* The application suite: tests/tb_apps.sv runs the launches of a case in  *)
(* order on the memory image that sim/gen_apps.py wrote, and compares the  *)
(* expected words at the end.  Within a launch the warps (or threads, for  *)
(* the kernels whose threads touch common words) run in any order.  What   *)
(* is checked is that the golden results, computed in one sequential order *)
(* with exact fractions, are the results of every order.                   *)
(***************************************************************************)
EXTENDS AppKernels

CONSTANT Cases            \* the cases written to the manifest

VARIABLES case,           \* the case being run
          li,             \* the launch being run
          mem,            \* the DDR4 model
          shared,         \* scan: warp totals, by block and warp
          st              \* what each unit of the launch has left to do

vars == <<case, li, mem, shared, st>>

Running   == li <= Len(case.launches)
Launch    == case.launches[li]
prm       == Launch.prm

(* The instruction RAM after the KERNEL lines, in order; a slot runs the   *)
(* kernel whose image starts there and is intact.                          *)
Iram ==
  FoldLeft(LAMBDA ram, k : [w \in DOMAIN ram |->
               IF w \in (16 * SLOTS[k]) .. (16 * SLOTS[k] + ImageWords[k] - 1)
               THEN <<k, w - 16 * SLOTS[k]>> ELSE ram[w]],
           [w \in Idx(IRAM_WORDS) |-> <<"", 0>>], KERNELS)
Holds(slot, k) == \A i \in Idx(ImageWords[k]) : Iram[16 * slot + i] = <<k, i>>
KernelAt == [s \in Idx(IRAM_WORDS \div 16) |->
               IF \E k \in ToSet(KERNELS) : Holds(s, k)
               THEN CHOOSE k \in ToSet(KERNELS) : Holds(s, k) ELSE "none"]
Kernel == KernelAt[Launch.slot]

(* Units of a launch: threads where threads share words, else warps.       *)
UnitSize(k) == IF k \in {"bfs", "kmeans", "kmeans_u"} THEN 1 ELSE LANES
Units(l)    == Idx(CeilDiv(l.n, UnitSize(KernelAt[l.slot])))
Threads(u)  == {t \in (u * UnitSize(Kernel)) .. ((u + 1) * UnitSize(Kernel) - 1) : t < Launch.n}
Fresh       == [pc |-> "load", stores |-> {}, amo |-> <<>>, v |-> <<>>, j |-> 0]
Units0(i)   == IF i <= Len(case.launches)
               THEN [u \in Units(case.launches[i]) |-> Fresh] ELSE <<>>

(* CASE clears the memory, MEM loads the image.                            *)
Init ==
  /\ case \in Cases
  /\ li = 1
  /\ mem = [a \in Idx(case.top) |-> IF a \in DOMAIN case.words THEN case.words[a] ELSE 0]
  /\ shared = [b \in {} |-> 0]
  /\ st = Units0(1)

Set(u, s) == st' = [st EXCEPT ![u] = s]
AmoOrEnd(s) == IF s.amo = <<>> THEN [s EXCEPT !.pc = "end"] ELSE [s EXCEPT !.pc = "amo"]

----------------------------------------------------------------------------
(* Kernels that load, compute and store *)
Simple == Kernel \notin {"bfs", "scan", "kmeans", "kmeans_u", "none"}
Load(u) ==
  /\ st[u].pc = "load" /\ Simple
  /\ Set(u, [Fresh EXCEPT !.pc = "store",
                          !.stores = StoresOf(Kernel, mem, prm, Threads(u), u)])
  /\ UNCHANGED <<case, li, mem, shared>>

KmeansLoad(u) ==
  /\ st[u].pc = "load" /\ Kernel \in {"kmeans", "kmeans_u"}
  /\ LET pts == PointsOf(Kernel, Launch.n, u)
         asg == [i \in DOMAIN pts |-> Assigned(mem, prm, pts[i])]
     IN Set(u, [Fresh EXCEPT !.pc = "store", !.stores = {asg[i].st : i \in DOMAIN asg},
                             !.amo = FlattenSeq([i \in DOMAIN asg |-> asg[i].amo])])
  /\ UNCHANGED <<case, li, mem, shared>>

Store(u) ==
  /\ st[u].pc = "store"
  /\ mem' = Stored(mem, st[u].stores)
  /\ Set(u, AmoOrEnd([st[u] EXCEPT !.stores = {}]))
  /\ UNCHANGED <<case, li, shared>>

(* amoadd.w and amoor.w with rd = x0: one atomic update of the word.       *)
AmoVal(op, old, v) == IF op = "add" THEN W32(old + v) ELSE IF old % 2 = 1 THEN old ELSE old + v
Amo(u) ==
  /\ st[u].pc = "amo"
  /\ LET a == Head(st[u].amo)
     IN mem' = [mem EXCEPT ![a[2]] = AmoVal(a[1], @, a[3])]
  /\ Set(u, AmoOrEnd([st[u] EXCEPT !.amo = Tail(@)]))
  /\ UNCHANGED <<case, li, shared>>

----------------------------------------------------------------------------
(* scan.S: the warp's scan, its total to shared memory, the barrier of the *)
(* block's four warps, then the totals of the lower warps.                 *)
Block(u) == u \div 2^Launch.blk
WarpOf(u) == u % 2^Launch.blk
ScanLoad(u) ==
  /\ st[u].pc = "load" /\ Kernel = "scan"
  /\ LET v == ScanRow([l \in Idx(LANES) |-> mem[mem[prm] + u * LANES + l]])
         at == <<Block(u), WarpOf(u)>>
     IN /\ shared' = [x \in DOMAIN shared \cup {at} |->
                        IF x = at THEN v[LANES - 1] ELSE shared[x]]
        /\ Set(u, [Fresh EXCEPT !.pc = "bar", !.v = v])
  /\ UNCHANGED <<case, li, mem>>

AtBarrier(u) == \A x \in DOMAIN st : Block(x) = Block(u) => st[x].pc # "load"
ScanAfter(u) ==
  /\ st[u].pc = "bar" /\ AtBarrier(u)
  /\ LET low == SumTo([w \in Idx(WarpOf(u)) |-> shared[<<Block(u), w>>]], WarpOf(u))
         o   == [l \in Idx(LANES) |-> W32(st[u].v[l] + low)]
     IN Set(u, [st[u] EXCEPT !.pc = "store",
                  !.stores = {Word(mem[prm + 1] + u * LANES + l, o[l]) : l \in Idx(LANES)}
                    \cup (IF WarpOf(u) = 3
                          THEN {Word(mem[prm + 2] + Block(u), o[LANES - 1])} ELSE {})])
  /\ UNCHANGED <<case, li, mem, shared>>

----------------------------------------------------------------------------
(* bfs.S: each load and store of the level array is a step of its own.     *)
Row(u) == mem[prm] + u
BfsDone(s, flag) == AmoOrEnd([s EXCEPT !.amo = IF s.v = <<1>> THEN <<<<"or", flag, 1>>>> ELSE <<>>])
BfsNext(s, u) == IF s.j < mem[Row(u) + 1] THEN [s EXCEPT !.pc = "edge"]
                 ELSE BfsDone(s, mem[prm + 4])
BfsStart(u) ==
  /\ st[u].pc = "load" /\ Kernel = "bfs"
  /\ Set(u, IF mem[mem[prm + 2] + u] # mem[prm + 3] THEN [Fresh EXCEPT !.pc = "end"]
            ELSE BfsNext([Fresh EXCEPT !.j = mem[Row(u)]], u))
  /\ UNCHANGED <<case, li, mem, shared>>

LevelAt(u) == mem[prm + 2] + mem[mem[prm + 1] + st[u].j]
BfsEdge(u) ==
  /\ st[u].pc = "edge"
  /\ Set(u, IF mem[LevelAt(u)] = UNSEEN THEN [st[u] EXCEPT !.pc = "mark"]
            ELSE BfsNext([st[u] EXCEPT !.j = @ + 1], u))
  /\ UNCHANGED <<case, li, mem, shared>>

BfsMark(u) ==
  /\ st[u].pc = "mark"
  /\ mem' = [mem EXCEPT ![LevelAt(u)] = mem[prm + 3] + 1]
  /\ Set(u, BfsNext([st[u] EXCEPT !.j = @ + 1, !.v = <<1>>], u))
  /\ UNCHANGED <<case, li, shared>>

----------------------------------------------------------------------------
(* The host polls STATUS until DONE before the next launch.                *)
NextLaunch ==
  /\ Running /\ \A u \in DOMAIN st : st[u].pc = "end"
  /\ li' = li + 1
  /\ st' = Units0(li + 1)
  /\ shared' = [b \in {} |-> 0]
  /\ UNCHANGED <<case, mem>>

Unit(u) == \/ Load(u) \/ KmeansLoad(u) \/ Store(u) \/ Amo(u)
           \/ ScanLoad(u) \/ ScanAfter(u)
           \/ BfsStart(u) \/ BfsEdge(u) \/ BfsMark(u)
Ended == ~Running /\ UNCHANGED vars

Next == \/ Running /\ \E u \in DOMAIN st : Unit(u)
        \/ NextLaunch
        \/ Ended

Spec == Init /\ [][Next]_vars

----------------------------------------------------------------------------
(* Whatever order the warps and threads of the launches ran in, every      *)
(* word the generator expects is in memory when the last launch is done:   *)
(* the sequential golden model, its rounding and its choice of launches    *)
(* agree with the kernels.                                                 *)
GoldMatches == ~Running => \A a \in DOMAIN case.gold : mem[a] = case.gold[a]

(* A unit that has loaded its inputs and not yet stored would load the     *)
(* same again: no other unit of the launch stores to a word it reads, so   *)
(* no order of loads and stores changes a result.                          *)
NoRace ==
  Running /\ Simple =>
    \A u \in DOMAIN st : st[u].pc = "store" =>
      st[u].stores = StoresOf(Kernel, mem, prm, Threads(u), u)

(* The host starts the kernel the case means, and every store of a launch  *)
(* goes to a word the image allocated, never to the padding of a buffer or *)
(* to a parameter block, and never to bytes another unit stores too.       *)
Params(L)  == L.prm .. (L.prm + (IF L.kernel \in {"kmeans", "kmeans_u"} THEN 8 ELSE 7))
ParamWords == UNION {Params(case.launches[i]) : i \in DOMAIN case.launches}
Targets(u) == {<<s[1], s[2]>> : s \in st[u].stores}
LaunchSound ==
  Running =>
    /\ Kernel = Launch.kernel
    /\ \A u \in DOMAIN st : \A s \in st[u].stores :
         s[1] \in DOMAIN case.words \ ParamWords
    /\ \A u, v \in DOMAIN st : u # v => Targets(u) \cap Targets(v) = {}
=============================================================================
