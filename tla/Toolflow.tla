------------------------------ MODULE Toolflow ------------------------------
(***************************************************************************)
(* The simulation scripts of sim/ and the files they share: kernel images, *)
(* manifests (gen_apps.py), work directories with simulator logs           *)
(* (run_xsim.py), and the committed CSV files the sweeps write             *)
(* (lane_sweep.py, app_sweep.py, amo_sweep.py, board_sim.py) and           *)
(* vortex_compare.py reads.                                                *)
(*                                                                         *)
(* A script is an execution of units, one simulation each, on a pool of    *)
(* workers.  Any tool may fail and a script may be killed at any step; the *)
(* files then stay as they are, and the next execution starts from them.   *)
(* A row's cycle counts are abstracted to its provenance: the execution    *)
(* that simulated it (sim), the one that generated the manifest it ran     *)
(* (man), and the one that put it into the CSV (by).                       *)
(***************************************************************************)
EXTENDS Integers, Sequences, FiniteSets, SequencesExt

CONSTANTS Invocations,    \* the command lines offered
          Suite,          \* function: size |-> sequence of cases [name, launches]
          Kernels,        \* sequence of kernel names, in the order they are built and placed
          SlotsAt,        \* function: version of a kernel's source |-> slots of its image
          Uses,           \* function: name of a case |-> the kernels its launches run
          VortexRows,     \* the (case, launch) pairs of the Vortex run compared with
          MaxExec,        \* bound on the number of executions
          MaxVer          \* bound on the edits of a kernel

ASSUME ToolflowAssumption == MaxExec \in Nat /\ MaxVer \in Nat

VARIABLES inv, pc, exec,  \* the running command line, its step, its number
          wk,             \* the workers: one record for each unit
          genAt,          \* cases gen_apps has written to the open manifest
          pend,           \* rows about to be written to the CSV
          src, img,       \* kernel sources; images by directory
          man,            \* manifests by directory
          wd,             \* work directories by test: the simulator's log
          csv,            \* the CSV files, as sets of rows
          cmp,            \* vortex_apps.csv: sequence of at most one table
          status,         \* exit status of the last execution
          snap            \* the CSV files when the execution started
vars == <<inv, pc, exec, wk, genAt, pend, src, img, man, wd, csv, cmp, status, snap>>
files == <<src, img, man, wd, csv, cmp>>

NoFile == <<>>
AppsDir == "kernels/apps"
------------------------------------------------------------------------------
(* The units of the scripts: the test's name, the directory of its data    *)
(* and of its kernels, the lanes compiled in, the rows' group, and when    *)
(* the unit generates its data: always, if missing (prepare), or never.    *)
Unit(test, dir, kdir, lanes, size, grp, gen) ==
  [test |-> test, dir |-> dir, kdir |-> kdir, lanes |-> lanes, size |-> size,
   grp |-> grp, gen |-> gen]
Inv(script, units, width, out, pre) ==
  [script |-> script, units |-> units, width |-> width, out |-> out, pre |-> pre]

lane_sweep(lanes, size) ==
  Inv("lane", [i \in DOMAIN lanes |->
        LET d == IF lanes[i] = 8 THEN "l8" ELSE "l4"
        IN  Unit("apps_" \o d, "build_apps_" \o d,
                 IF lanes[i] = 8 THEN AppsDir ELSE "build_apps_l4/kernels",
                 lanes[i], size, d, "always")],
      1, "lanes_apps", NoFile)
app_sweep(size, variants) ==
  Inv("app", [i \in DOMAIN variants |->
        Unit("apps_" \o variants[i], "build_apps", AppsDir, 8, size, variants[i], "never")],
      3, "apps_agg", <<Unit("", "build_apps", AppsDir, 8, size, "", "always")>>)
amo_sweep(jobs) ==
  Inv("amo", [i \in DOMAIN jobs |->
        Unit("amo_" \o jobs[i], "none", AppsDir, 8, "sync", jobs[i], "never")],
      3, "amo_agg", NoFile)
board_sim(size, lats) ==
  Inv("board", [i \in DOMAIN lats |->
        Unit("apps_" \o size \o lats[i], "build_apps_" \o size, AppsDir, 8, size,
             size \o lats[i], "always")],
      1, "board_sim", NoFile)
(* run_xsim.py on its own: no CSV. *)
run_xsim(test) ==
  Inv("xsim", <<IF test = "apps_w8"
                THEN Unit(test, "build_apps_w8", AppsDir, 8, "w8", test, "missing")
                ELSE Unit(test, "build_apps", AppsDir, 8, "small", test, "never")>>,
      1, "none", NoFile)
vortex_compare == Inv("compare", <<>>, 1, "none", NoFile)
kernel_build == Inv("kbuild", <<>>, 1, "none", NoFile)

Tests == {"apps_l4", "apps_l8", "apps_base", "apps_ser", "amo_lat0", "amo_axi", "apps_board24",
          "apps_board48", "apps", "apps_w8"}
DataDirs == {"build_apps", "build_apps_l4", "build_apps_l8", "build_apps_board", "build_apps_w8"}
KernelDirs == {AppsDir, "build_apps_l4/kernels"}
CsvFiles == {"lanes_apps", "apps_agg", "amo_agg", "board_sim"}
------------------------------------------------------------------------------
(* What the scripts' command lines have in common: each unit has a work    *)
(* directory of its own, a sweep has its own CSV file, and the data its    *)
(* units simulate are generated by the sweep itself, before the workers or *)
(* by each unit, one unit at a time.  prepare has a directory to itself.   *)
OutOf(script) ==
  CASE script = "lane" -> "lanes_apps" [] script = "app" -> "apps_agg"
    [] script = "amo" -> "amo_agg" [] script = "board" -> "board_sim" [] OTHER -> "none"
Scripts == {"lane", "app", "amo", "board", "xsim", "compare", "kbuild"}
OwnSuite(u) == u.dir \in DataDirs /\ (u.dir = "build_apps_w8" <=> u.size = "w8")
CommandLine(v) ==
  /\ v.script \in Scripts /\ v.out = OutOf(v.script)
  /\ IsFiniteSet(DOMAIN v.units)
  /\ v.script \in {"compare", "kbuild"} => v.units = <<>>
  /\ v.script # "app" => v.pre = NoFile
  /\ v.pre # NoFile => OwnSuite(v.pre[1])
  /\ \A i \in DOMAIN v.units :
       /\ v.units[i].test \in Tests
       /\ \A j \in DOMAIN v.units : v.units[i].test = v.units[j].test => i = j
       /\ v.units[i].kdir # AppsDir => v.units[i].gen = "always"
       /\ v.units[i].gen # "never" => OwnSuite(v.units[i]) /\ v.width = 1 /\ v.pre = NoFile
       /\ v.units[i].gen = "missing" => v.units[i].size = "w8"
       /\ v.script \in {"lane", "app", "board"} =>
            \/ v.units[i].gen = "always"
            \/ v.pre # NoFile /\ v.pre[1].dir = v.units[i].dir /\ v.pre[1].size = v.units[i].size
       /\ v.script = "amo" => v.units[i].dir = "none" /\ v.units[i].size = "sync"
ASSUME InvocationsAssumption == \A v \in Invocations : CommandLine(v)
(* prepare calls gen_apps with --only gemmrb.  It looks only whether there *)
(* is a manifest: with a second case, one cut short would be simulated.    *)
ASSUME SuiteAssumption == Len(Suite["w8"]) = 1

Idle == [st |-> "wait", ok |-> FALSE, rows |-> {}]

Init ==
  /\ inv = vortex_compare /\ pc = "idle" /\ exec = 0
  /\ wk = <<>> /\ genAt = 0 /\ pend = {}
  /\ src = [k \in Range(Kernels) |-> 0]
  /\ img = [d \in KernelDirs |-> IF d = AppsDir THEN [k \in Range(Kernels) |-> 0] ELSE NoFile]
  /\ man = [d \in DataDirs |-> NoFile]
  /\ wd = [t \in Tests |-> NoFile]
  /\ csv = [c \in CsvFiles |-> {}]
  /\ cmp = NoFile
  /\ status = "none" /\ snap = csv

Start ==
  /\ pc = "idle" /\ exec < MaxExec
  /\ inv' \in Invocations
  /\ exec' = exec + 1
  /\ wk' = [i \in DOMAIN inv'.units |-> Idle]
  /\ pc' = IF inv'.script \in {"compare", "kbuild"} THEN inv'.script
           ELSE IF inv'.pre # NoFile THEN "pre" ELSE "pool"
  /\ genAt' = 0 /\ pend' = {} /\ status' = "none" /\ snap' = csv
  /\ UNCHANGED files

(* An exception or a failed check=True in the main thread. *)
Abort == pc' = "idle" /\ status' = "failed"

(* An edit of a kernel's source, between executions. *)
EditKernel(k) ==
  /\ pc = "idle" /\ exec < MaxExec /\ src[k] < MaxVer
  /\ src' = [src EXCEPT ![k] = @ + 1]
  /\ UNCHANGED <<inv, pc, exec, wk, genAt, pend, img, man, wd, csv, cmp, status, snap>>

(* kernels/apps/build.py: one kernel after the other; a failing assembler  *)
(* leaves the later images as they were.                                   *)
Assembled(d, n) ==
  [k \in Range(Kernels) |->
     IF \E i \in 1..n : Kernels[i] = k THEN src[k]
     ELSE IF img[d] = NoFile THEN -1 ELSE img[d][k]]
KernelBuild ==
  /\ pc = "kbuild"
  /\ \E n \in 0..Len(Kernels) :
       /\ img' = [img EXCEPT ![AppsDir] = Assembled(AppsDir, n)]
       /\ IF n = Len(Kernels) THEN pc' = "idle" /\ status' = "0" ELSE Abort
  /\ UNCHANGED <<inv, exec, wk, genAt, pend, src, man, wd, csv, cmp, snap>>
------------------------------------------------------------------------------
(* gen_apps.py.  Slots are placed from the images as they are now and the  *)
(* cases are generated before the manifest is opened; the manifest is      *)
(* truncated, gets the KERNEL lines and then one case after the other; a   *)
(* case that does not fit the memory stops it there.                       *)
GenOpen(u, go, stop) ==
  \/ /\ \A k \in Range(Kernels) : img[u.kdir] # NoFile /\ img[u.kdir][k] # -1
     /\ man' = [man EXCEPT ![u.dir] = <<[by |-> exec, size |-> u.size, n |-> 0,
                                         kdir |-> u.kdir, imgs |-> img[u.kdir]]>>]
     /\ genAt' = 0 /\ go
  \/ UNCHANGED <<man, genAt>> /\ stop
GenCase(u, go, stop) ==
  \/ /\ genAt < Len(Suite[u.size])
     /\ genAt' = genAt + 1
     /\ man' = [man EXCEPT ![u.dir] = <<[@[1] EXCEPT !.n = genAt + 1]>>]
     /\ UNCHANGED <<pc, wk, status>>
  \/ genAt < Len(Suite[u.size]) /\ UNCHANGED <<man, genAt>> /\ stop
  \/ genAt = Len(Suite[u.size]) /\ UNCHANGED <<man, genAt>> /\ go

PreGen ==
  /\ pc \in {"pre", "preCase"}
  /\ LET u == inv.pre[1]
     IN  IF pc = "pre" THEN GenOpen(u, pc' = "preCase" /\ UNCHANGED status, Abort)
         ELSE GenCase(u, pc' = "pool" /\ UNCHANGED status, Abort)
  /\ UNCHANGED <<inv, exec, wk, pend, src, img, wd, csv, cmp, snap>>
------------------------------------------------------------------------------
(* The workers.  At most width units run at a time; a lone unit starts     *)
(* when the one before has been collected.                                 *)
Running == {i \in DOMAIN wk : wk[i].st \notin {"wait", "done", "raised", "merged"}}
StepTo(i, st) == wk' = [wk EXCEPT ![i].st = st] /\ UNCHANGED <<pc, status>>

Begin(i) ==
  /\ pc = "pool" /\ wk[i].st = "wait"
  /\ \A j \in 1..(i - 1) : wk[j].st # "wait"
  /\ Cardinality(Running) < inv.width
  /\ LET u == inv.units[i]
     IN  StepTo(i, IF u.kdir # AppsDir THEN "kern"
                   ELSE IF u.gen = "always" \/ (u.gen = "missing" /\ man[u.dir] = NoFile) THEN "gen"
                   ELSE "clean")
  /\ UNCHANGED <<inv, exec, genAt, pend, files, snap>>

(* lane_sweep builds the kernels of the other lane counts first. *)
Kern(i) ==
  /\ pc = "pool" /\ wk[i].st = "kern"
  /\ LET d == inv.units[i].kdir
     IN  \E n \in 0..Len(Kernels) :
           /\ img' = [img EXCEPT ![d] = Assembled(d, n)]
           /\ IF n = Len(Kernels) THEN StepTo(i, "gen") ELSE Abort /\ UNCHANGED wk
  /\ UNCHANGED <<inv, exec, genAt, pend, src, man, wd, csv, cmp, snap>>

Gen(i) ==
  /\ pc = "pool" /\ wk[i].st \in {"gen", "genCase"}
  /\ LET u == inv.units[i]
     IN  IF wk[i].st = "gen" THEN GenOpen(u, StepTo(i, "genCase"), Abort /\ UNCHANGED wk)
         ELSE GenCase(u, StepTo(i, "clean"), Abort /\ UNCHANGED wk)
  /\ UNCHANGED <<inv, exec, pend, src, img, wd, csv, cmp, snap>>

(* run_test: the work directory is removed and made anew.  rmtree ignores  *)
(* errors; makedirs then raises if anything is left.                       *)
(* Mutant: makedirs with exist_ok.                                         *)
CleanKeeps(i) ==
  /\ pc = "pool" /\ wk[i].st = "clean"
  /\ LET t == inv.units[i].test
     IN  wd' \in {wd, [wd EXCEPT ![t] = NoFile]} /\ StepTo(i, "build")
  /\ UNCHANGED <<inv, exec, genAt, pend, src, img, man, csv, cmp, snap>>
Clean(i) ==
  /\ pc = "pool" /\ wk[i].st = "clean"
  /\ LET t == inv.units[i].test
     IN  \/ wd' = [wd EXCEPT ![t] = NoFile] /\ StepTo(i, "build")
         \/ wd[t] # NoFile /\ UNCHANGED wd /\ StepTo(i, "raised")
  /\ UNCHANGED <<inv, exec, genAt, pend, src, img, man, csv, cmp, snap>>

(* xvlog, xsc, xelab: the first that fails ends the test; the caller still *)
(* looks for a log.                                                        *)
Build(i) ==
  /\ pc = "pool" /\ wk[i].st = "build"
  /\ \/ StepTo(i, "sim")
     \/ StepTo(i, "failed")
  /\ UNCHANGED <<inv, exec, genAt, pend, files, snap>>

(* What a simulation of unit u would print: a row for every launch of the  *)
(* manifest's complete cases.                                              *)
Launches(cases, n) ==
  UNION {{<<cases[i].name, l>> : l \in 1..cases[i].launches} : i \in 1..n}
Ready(u) == u.dir = "none" \/ man[u.dir] # NoFile
Promised(u) ==
  IF u.dir = "none" THEN Launches(Suite["sync"], Len(Suite["sync"]))
  ELSE IF man[u.dir] = NoFile THEN {}
  ELSE Launches(Suite[man[u.dir][1].size], man[u.dir][1].n)
(* A kernel that has grown since the manifest runs over its slots, and the *)
(* one loaded after it cuts off its tail.  That spoils the cases using it. *)
Fits(u) ==
  u.dir # "none" =>
    LET m == man[u.dir][1]
    IN  \A i \in 1..m.n : \A k \in Uses[Suite[m.size][i].name] :
          k = Last(Kernels) \/ SlotsAt[img[m.kdir][k]] <= SlotsAt[m.imgs[k]]

(* xsim -R: any part of the launches may have run; PASS is printed only    *)
(* when all were checked and there was at least one.                       *)
Sim(i) ==
  /\ pc = "pool" /\ wk[i].st = "sim"
  /\ LET u == inv.units[i]
         all == Promised(u)
         Row(p) == [grp |-> u.grp, case |-> p[1], launch |-> p[2], sim |-> exec,
                    man |-> IF Ready(u) /\ u.dir # "none" THEN man[u.dir][1].by ELSE 0]
     IN  \E part \in {{}, {p \in all : p[2] = 1}, all}, verdict \in {"PASS", "FAIL"} :
           /\ verdict = "PASS" => part = all /\ (IF all = {} THEN FALSE ELSE Fits(u))
           /\ wd' = [wd EXCEPT ![u.test] = <<[rows |-> {Row(p) : p \in part}, end |-> verdict]>>]
  /\ StepTo(i, "read")
  /\ UNCHANGED <<inv, exec, genAt, pend, src, img, man, csv, cmp, snap>>

(* one(): the verdict and the rows of the log, if there is one.  A pool of *)
(* one hands its result to board_sim's merge at once.                      *)
Collect(i) ==
  /\ pc = "pool" /\ wk[i].st \in {"read", "failed"}
  /\ LET log == wd[inv.units[i].test]
     IN  wk' = [wk EXCEPT ![i] = [st |-> "done",
                                  ok |-> wk[i].st = "read" /\ log # NoFile /\ log[1].end = "PASS",
                                  rows |-> IF log = NoFile THEN {} ELSE log[1].rows]]
  /\ pc' = IF inv.script = "board" THEN "merge" ELSE "pool"
  /\ UNCHANGED <<inv, exec, genAt, pend, status, files, snap>>
------------------------------------------------------------------------------
(* The merges.  lane_sweep keeps the lane counts it did not repeat,        *)
(* board_sim the (size, latency, case) triples it did not; the others      *)
(* start afresh.                                                           *)
Recorded(r) == [grp |-> r.grp, case |-> r.case, launch |-> r.launch, sim |-> r.sim, man |-> r.man, by |-> exec]
NewRows == UNION {{Recorded(r) : r \in wk[i].rows} : i \in {i \in DOMAIN wk : wk[i].st = "done"}}
(* Mutant: lane_sweep keeps what this run did not print.                   *)
KeptByCase ==
  {r \in csv[inv.out] : \A n \in NewRows : <<r.grp, r.case, r.launch>> # <<n.grp, n.case, n.launch>>}
Kept ==
  CASE inv.script = "lane" ->
         {r \in csv[inv.out] : \A i \in DOMAIN inv.units : r.grp # inv.units[i].grp}
    [] inv.script = "board" ->
         {r \in csv[inv.out] : \A n \in NewRows : <<r.grp, r.case>> # <<n.grp, n.case>>}
    [] OTHER -> {}

PoolDone ==
  /\ pc = "pool" /\ \A i \in DOMAIN wk : wk[i].st \in {"done", "raised", "merged"}
  /\ IF \E i \in DOMAIN wk : wk[i].st = "raised" THEN Abort
     ELSE IF inv.script \in {"board", "xsim"} THEN pc' = "exit" /\ UNCHANGED status
     ELSE pc' = "merge" /\ UNCHANGED status
  /\ UNCHANGED <<inv, exec, wk, genAt, pend, files, snap>>

(* Opening for writing empties the file; the old rows are in memory. *)
MergeOpen ==
  /\ pc = "merge"
  /\ pend' = Kept \cup NewRows
  /\ csv' = [csv EXCEPT ![inv.out] = {}]
  /\ pc' = "mergeWrite"
  /\ UNCHANGED <<inv, exec, wk, genAt, src, img, man, wd, cmp, status, snap>>

MergeWrite ==
  /\ pc = "mergeWrite"
  /\ csv' = [csv EXCEPT ![inv.out] = pend]
  /\ pend' = {}
  /\ pc' = IF inv.script = "board" THEN "pool" ELSE "exit"
  /\ wk' = [i \in DOMAIN wk |-> IF wk[i].st = "done" THEN [wk[i] EXCEPT !.st = "merged"] ELSE wk[i]]
  /\ UNCHANGED <<inv, exec, genAt, src, img, man, wd, cmp, status, snap>>

(* Mutant: only the last unit's verdict counts.                            *)
ExitLast ==
  /\ pc = "exit"
  /\ status' = IF wk[Len(wk)].ok THEN "0" ELSE "1"
  /\ pc' = "idle"
  /\ UNCHANGED <<inv, exec, wk, genAt, pend, files, snap>>
Exit ==
  /\ pc = "exit"
  /\ status' = IF \A i \in DOMAIN wk : wk[i].ok THEN "0" ELSE "1"
  /\ pc' = "idle"
  /\ UNCHANGED <<inv, exec, wk, genAt, pend, files, snap>>

(* vortex_compare.py: the launches of the ser variant must be the ones of  *)
(* the Vortex run, none missing and none extra; then the table is opened,  *)
(* written and the script ends.                                            *)
(* Mutant: the launches Vortex has beyond ours are let through.            *)
LaunchesMissing(rows) ==
  \E r \in rows : <<r.case, r.launch>> \notin VortexRows
LaunchesDiffer(rows) == {<<r.case, r.launch>> : r \in rows} # VortexRows
Compare ==
  /\ pc = "compare"
  /\ LET rows == {r \in csv["apps_agg"] : r.grp = "ser"}
     IN  IF LaunchesDiffer(rows) THEN Abort /\ UNCHANGED <<cmp, pend>>
         ELSE /\ cmp' = <<{}>> /\ pend' = rows
              /\ pc' = "compareWrite" /\ UNCHANGED status
  /\ UNCHANGED <<inv, exec, wk, genAt, src, img, man, wd, csv, snap>>
CompareWrite ==
  /\ pc = "compareWrite"
  /\ cmp' = <<pend>> /\ pend' = {} /\ pc' = "idle" /\ status' = "0"
  /\ UNCHANGED <<inv, exec, wk, genAt, src, img, man, wd, csv, snap>>

(* Killed: buffered lines of an open manifest or CSV may be lost. *)
Kill ==
  /\ pc # "idle"
  /\ pc' = "idle" /\ status' = "killed"
  /\ csv' \in IF pc = "mergeWrite"
              THEN {[csv EXCEPT ![inv.out] = part] : part \in {{}, {r \in pend : r.launch = 1}}}
              ELSE {csv}
  /\ man' \in LET open == {i \in DOMAIN wk : wk[i].st = "genCase"}
                  dir == IF pc = "preCase" THEN inv.pre[1].dir
                         ELSE IF open # {} THEN inv.units[CHOOSE i \in open : TRUE].dir ELSE "none"
              IN  IF dir = "none" THEN {man}
                  ELSE {[man EXCEPT ![dir] = <<[@[1] EXCEPT !.n = n]>>] : n \in 0..genAt}
  /\ UNCHANGED <<inv, exec, wk, genAt, pend, src, img, wd, cmp, snap>>

Next ==
  \/ Start \/ KernelBuild \/ PreGen \/ PoolDone \/ MergeOpen \/ MergeWrite \/ Exit
  \/ Compare \/ CompareWrite \/ Kill
  \/ \E k \in Range(Kernels) : EditKernel(k)
  \/ \E i \in DOMAIN wk :
       Begin(i) \/ Kern(i) \/ Gen(i) \/ Clean(i) \/ Build(i) \/ Sim(i) \/ Collect(i)

Spec == Init /\ [][Next]_vars
------------------------------------------------------------------------------
(* RowsFresh: whatever failed or was killed before, every row of a         *)
(* committed CSV was simulated by the execution that wrote it there, from  *)
(* a manifest that execution generated: no log or manifest left by an      *)
(* earlier one is ever read (run_test's rmtree, the sweeps' gen_apps).     *)
RowsFresh ==
  \A c \in CsvFiles : \A r \in csv[c] :
    r.sim = r.by /\ (c # "amo_agg" => r.man = r.by)

(* GroupsWhole: the rows of one group (a lane count, a variant, or a size, *)
(* latency and case) come from one simulation, so that a sum over a group  *)
(* never adds an old launch to new ones; and an execution that ends by     *)
(* itself leaves the rows of the groups it did not run as they were        *)
(* (lane_sweep.py and board_sim.py merges).                                *)
Group(c, r) == IF c = "board_sim" THEN <<r.grp, r.case>> ELSE <<r.grp>>
GroupsWhole ==
  \A c \in CsvFiles :
    /\ \A r, s \in csv[c] : Group(c, r) = Group(c, s) => r.by = s.by
    /\ pc = "idle" /\ status \in {"0", "1"} /\ c \in {"lanes_apps", "board_sim"} =>
         \A r \in snap[c] :
           r \in csv[c] \/ (c = inv.out /\ \E i \in DOMAIN inv.units : inv.units[i].grp = r.grp)

(* CompareFair: a comparison with Vortex that ended is of exactly the      *)
(* launches Vortex ran, and the table's rows are always of one sweep: the  *)
(* partial or emptied CSV of a failed or killed sweep never reaches it     *)
(* (vortex_compare.py, the missing / extra check).                         *)
CompareFair ==
  cmp # NoFile =>
    /\ pc = "idle" /\ inv.script = "compare" /\ status = "0" =>
         {<<r.case, r.launch>> : r \in cmp[1]} = VortexRows
    /\ \A r, s \in cmp[1] : r.by = s.by /\ r.sim = s.sim

(* PassIsComplete: when a script that generates its own data exits with 0, *)
(* every unit was simulated in this execution and checked every launch of  *)
(* its suite; a manifest cut short by a failure or a kill never passes     *)
(* (run_xsim.py prepare and main, tb_apps.sv's checks != 0).               *)
PassIsComplete ==
  pc = "idle" /\ status = "0" /\ inv.script \notin {"compare", "kbuild"} =>
    \A i \in DOMAIN inv.units :
      LET u == inv.units[i]
          log == wd[u.test]
      IN  /\ log # NoFile /\ log[1].end = "PASS"
          /\ \A r \in log[1].rows : r.sim = exec
          /\ inv.script # "xsim" \/ u.gen = "missing" =>
               {<<r.case, r.launch>> : r \in log[1].rows} = Launches(Suite[u.size], Len(Suite[u.size]))
=============================================================================
