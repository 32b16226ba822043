--------------------------- MODULE ToolflowProofs ---------------------------
(***************************************************************************)
(* Proofs about the simulation scripts: whatever the tools fail at and     *)
(* whenever a script is killed, a committed CSV holds only rows its writer *)
(* simulated from data it generated (FreshRows), and the rows of a group   *)
(* belong together (WholeGroups).  Both follow from FlowInv, which says of *)
(* every file a script is still to read how the script itself made it.     *)
(* The second part proves what an exit status of 0 is worth: a comparison  *)
(* is of Vortex's launches (FairComparison), and a script that passed has  *)
(* simulated and checked all of its suite (CompletePass).                  *)
(***************************************************************************)
EXTENDS Toolflow, FiniteSetTheorems, TLAPS

(* The sweeps that generate the data they simulate. *)
Sweeps == {"lane", "app", "board"}
(* The manifest of directory d is of the running execution. *)
ManNow(d) == man[d] # NoFile /\ "by" \in DOMAIN man[d][1] /\ man[d][1].by = exec
(* Row r is of unit i, simulated now, and from a manifest generated now. *)
Mine(i, r) ==
  r.grp = inv.units[i].grp /\ r.sim = exec /\ (inv.script \in Sweeps => r.man = exec)

(* FlowInv, part by part.  Shape: the running command line, one worker for *)
(* each of its units, and the steps its script can be at.                  *)
Shape ==
  /\ CommandLine(inv)
  /\ DOMAIN wk = DOMAIN inv.units
  /\ \A i \in DOMAIN wk : DOMAIN wk[i] = {"st", "ok", "rows"}
  /\ DOMAIN man = DataDirs /\ DOMAIN wd = Tests /\ DOMAIN csv = CsvFiles
  /\ pc \in {"pre", "preCase"} => inv.pre # NoFile
  /\ pc \in {"pre", "preCase", "pool", "merge", "mergeWrite", "exit"} =>
       inv.script \notin {"compare", "kbuild"}
  /\ pc \in {"merge", "mergeWrite"} => inv.script # "xsim"

(* A unit past its data generation runs on a manifest of this execution. *)
DataNow ==
  pc # "idle" /\ inv.script \in Sweeps =>
    /\ inv.pre # NoFile /\ pc # "pre" => ManNow(inv.pre[1].dir)
    /\ \A i \in DOMAIN wk :
         wk[i].st \in {"genCase", "clean", "build", "sim"} => ManNow(inv.units[i].dir)
(* A unit past the cleaning of its work directory finds there no log, or a *)
(* log of its own; what it then collects is its own.                       *)
LogsMine ==
  pc # "idle" =>
    \A i \in DOMAIN wk :
      wk[i].st \in {"build", "sim", "read", "failed"} =>
        \/ wd[inv.units[i].test] = NoFile
        \/ \A r \in wd[inv.units[i].test][1].rows : Mine(i, r)
ResultsMine ==
  pc # "idle" =>
    \A i \in DOMAIN wk : wk[i].st = "done" => \A r \in wk[i].rows : Mine(i, r)
(* What the tables hold, also while one is open and its rows are pending. *)
FreshIn(c, r) == r.sim = r.by /\ (c # "amo_agg" => r.man = r.by)
WholeIn(c, rows) == \A r, s \in rows : Group(c, r) = Group(c, s) => r.by = s.by
TableOk(c, rows) == (\A r \in rows : FreshIn(c, r)) /\ WholeIn(c, rows)
TablesOk ==
  /\ \A c \in CsvFiles : TableOk(c, csv[c])
  /\ pc = "mergeWrite" => csv[inv.out] = {} /\ TableOk(inv.out, pend)
(* A row that was there when the execution started is there still, is      *)
(* pending, or is of a group the execution runs again.                     *)
Repeated(c, r) == c = inv.out /\ \E i \in DOMAIN inv.units : inv.units[i].grp = r.grp
OthersKept ==
  pc # "idle" \/ status \in {"0", "1"} =>
    \A c \in {"lanes_apps", "board_sim"} : \A r \in snap[c] :
      \/ r \in csv[c]
      \/ pc = "mergeWrite" /\ c = inv.out /\ r \in pend
      \/ Repeated(c, r)

(* The inductive invariant. *)
FlowInv == Shape /\ DataNow /\ LogsMine /\ ResultsMine /\ TablesOk /\ OthersKept

(* The state before the first script: no file but the kernel images. *)
LEMMA InitFlow == Init => FlowInv
<1> SUFFICES ASSUME Init PROVE FlowInv OBVIOUS
<1>1. CommandLine(inv)
  <2>1. IsFiniteSet(DOMAIN inv.units)
    <3>1. DOMAIN inv.units = {} BY DEF Init, vortex_compare, Inv
    <3> QED BY <3>1, FS_EmptySet
  <2> QED BY <2>1 DEF Init, vortex_compare, Inv, CommandLine, OutOf, Scripts, NoFile
<1>2. Shape BY <1>1 DEF Init, Shape, vortex_compare, Inv
<1>3. DataNow /\ LogsMine /\ ResultsMine BY DEF Init, DataNow, LogsMine, ResultsMine
<1>4. TablesOk BY DEF Init, TablesOk, TableOk, FreshIn, WholeIn
<1>5. OthersKept BY DEF Init, OthersKept
<1> QED BY <1>2, <1>3, <1>4, <1>5 DEF FlowInv

(* A script starts: its workers wait, nothing is generated, and the rows of*)
(* the tables are the ones it must keep.                                   *)
LEMMA StartFlow == ASSUME FlowInv, Start PROVE FlowInv'
<1>1. CommandLine(inv') BY InvocationsAssumption DEF Start
<1>2. Shape'
  <2>1. DOMAIN wk' = DOMAIN inv'.units /\ \A i \in DOMAIN wk' : DOMAIN wk'[i] = {"st", "ok", "rows"}
    BY DEF Start, Idle
  <2>2. DOMAIN man' = DataDirs /\ DOMAIN wd' = Tests /\ DOMAIN csv' = CsvFiles
    BY DEF FlowInv, Shape, Start, files
  <2>3. /\ pc' \in {"compare", "kbuild", "pre", "pool"}
        /\ pc' = "pre" => inv'.pre # NoFile
        /\ pc' \in {"pre", "pool"} => inv'.script \notin {"compare", "kbuild"}
    BY DEF Start
  <2> QED BY <1>1, <2>1, <2>2, <2>3 DEF Shape
<1>3. DataNow' BY DEF Start, DataNow, Idle, Sweeps
<1>4. LogsMine' BY DEF FlowInv, Start, LogsMine, Idle
<1>5. ResultsMine' BY DEF FlowInv, Start, ResultsMine, Idle
<1>6. TablesOk' BY DEF FlowInv, Start, TablesOk, files
<1>7. OthersKept' BY DEF FlowInv, Start, OthersKept, files
<1> QED BY <1>2, <1>3, <1>4, <1>5, <1>6, <1>7 DEF FlowInv

(* An edit of a kernel between two executions touches no manifest or log.  *)
LEMMA EditKernelFlow == ASSUME NEW k, FlowInv, EditKernel(k) PROVE FlowInv'
<1> USE DEF FlowInv
<1>1. Shape' BY DEF EditKernel, Shape, CommandLine
<1>2. DataNow' BY DEF EditKernel, Shape, DataNow, ManNow
<1>3. LogsMine' BY DEF EditKernel, Shape, LogsMine, Mine
<1>4. ResultsMine' BY DEF EditKernel, Shape, ResultsMine, Mine
<1>5. TablesOk' BY DEF EditKernel, TablesOk
<1>6. OthersKept' BY DEF EditKernel, OthersKept, Repeated
<1> QED BY <1>1, <1>2, <1>3, <1>4, <1>5, <1>6 DEF FlowInv

(* kernels/apps/build.py writes images only.                               *)
LEMMA KernelBuildFlow == ASSUME FlowInv, KernelBuild PROVE FlowInv'
<1> USE DEF FlowInv
<1>1. Shape' BY DEF KernelBuild, Abort, Shape, CommandLine
<1>2. DataNow' BY DEF KernelBuild, Abort, Shape, DataNow, ManNow
<1>3. LogsMine' BY DEF KernelBuild, Abort, Shape, LogsMine, Mine
<1>4. ResultsMine' BY DEF KernelBuild, Abort, Shape, ResultsMine, Mine
<1>5. TablesOk' BY DEF KernelBuild, Abort, TablesOk
<1>6. OthersKept' BY DEF KernelBuild, Abort, OthersKept, Repeated
<1> QED BY <1>1, <1>2, <1>3, <1>4, <1>5, <1>6 DEF FlowInv

(* gen_apps before the workers: the manifest is of this execution from the *)
(* moment it is opened.                                                    *)
LEMMA PreGenFlow == ASSUME FlowInv, PreGen PROVE FlowInv'
<1> USE DEF FlowInv
<1>1. Shape' BY DEF PreGen, GenOpen, GenCase, Abort, Shape, CommandLine
<1>2. DataNow'
  <2> DEFINE d == inv.pre[1].dir
  <2>1. d \in DataDirs BY DEF PreGen, Shape, CommandLine, OwnSuite
  <2>2. UNCHANGED <<inv, exec, wk>> BY DEF PreGen, GenOpen, GenCase, Abort
  <2>3. ASSUME NEW c \in DataDirs, ManNow(c)
        PROVE  ManNow(c)'
    <3>1. CASE UNCHANGED man BY <2>2, <2>3, <3>1 DEF ManNow
    <3>2. CASE pc = "pre"
      <4>1. \/ UNCHANGED man
            \/ \E m : /\ man' = [man EXCEPT ![d] = <<m>>]
                      /\ "by" \in DOMAIN m /\ m.by = exec
        BY <3>2 DEF PreGen, GenOpen
      <4> QED BY <2>1, <2>2, <2>3, <3>1, <4>1 DEF Shape, ManNow, NoFile
    <3>3. CASE pc = "preCase" BY <2>1, <2>2, <2>3, <3>3 DEF PreGen, GenCase, Shape, ManNow, NoFile
    <3> QED BY <3>2, <3>3 DEF PreGen
  <2>4. ASSUME inv.script \in Sweeps, pc' \notin {"idle", "pre"}
        PROVE  ManNow(d)'
    <3>1. CASE pc = "pre"
      <4>1. \E m : /\ man' = [man EXCEPT ![d] = <<m>>]
                  /\ "by" \in DOMAIN m /\ m.by = exec
        BY <2>4, <3>1 DEF PreGen, GenOpen, Abort
      <4> QED BY <2>1, <2>2, <4>1 DEF Shape, ManNow, NoFile
    <3>2. CASE pc = "preCase"
      <4>1. ManNow(d) BY <2>4, <3>2 DEF DataNow, Shape
      <4>2. PICK c \in DataDirs : c = d /\ ManNow(c) BY <2>1, <4>1
      <4>3. man'[c] # NoFile /\ "by" \in DOMAIN man'[c][1] /\ man'[c][1].by = exec'
        BY <2>3, <4>2 DEF ManNow
      <4> QED BY <2>2, <4>2, <4>3 DEF ManNow
    <3> QED BY <3>1, <3>2 DEF PreGen
  <2>5. ASSUME inv.script \in Sweeps, NEW i \in DOMAIN inv.units
        PROVE  inv.units[i].dir \in DataDirs
    BY <2>5 DEF Shape, CommandLine, OwnSuite, Sweeps
  <2>6. pc # "idle" BY DEF PreGen
  <2> QED BY <2>2, <2>3, <2>4, <2>5, <2>6 DEF DataNow, Shape
<1>3. LogsMine' BY DEF PreGen, GenOpen, GenCase, Abort, Shape, LogsMine, Mine
<1>4. ResultsMine' BY DEF PreGen, GenOpen, GenCase, Abort, Shape, ResultsMine, Mine
<1>5. TablesOk' BY DEF PreGen, GenOpen, GenCase, Abort, TablesOk
<1>6. OthersKept' BY DEF PreGen, GenOpen, GenCase, Abort, OthersKept, Repeated
<1> QED BY <1>1, <1>2, <1>3, <1>4, <1>5, <1>6 DEF FlowInv

(* A worker takes a unit; a sweep skips the generation only when it was    *)
(* done before the workers.                                                *)
LEMMA BeginFlow == ASSUME NEW i \in DOMAIN wk, FlowInv, Begin(i) PROVE FlowInv'
<1> USE DEF FlowInv
<1>1. Shape' BY DEF Begin, StepTo, files, Shape, CommandLine
<1>2. DataNow'
  BY DEF Begin, StepTo, files, Shape, CommandLine, DataNow, ManNow, Sweeps
<1>3. LogsMine' BY DEF Begin, StepTo, files, Shape, LogsMine, Mine
<1>4. ResultsMine' BY DEF Begin, StepTo, files, Shape, ResultsMine, Mine
<1>5. TablesOk' BY DEF Begin, StepTo, files, TablesOk
<1>6. OthersKept' BY DEF Begin, StepTo, files, OthersKept, Repeated
<1> QED BY <1>1, <1>2, <1>3, <1>4, <1>5, <1>6 DEF FlowInv

(* lane_sweep builds the kernels of another lane count.                    *)
LEMMA KernFlow == ASSUME NEW i \in DOMAIN wk, FlowInv, Kern(i) PROVE FlowInv'
<1> USE DEF FlowInv
<1>1. Shape' BY DEF Kern, StepTo, Abort, Shape, CommandLine
<1>2. DataNow' BY DEF Kern, StepTo, Abort, Shape, DataNow, ManNow
<1>3. LogsMine' BY DEF Kern, StepTo, Abort, Shape, LogsMine, Mine
<1>4. ResultsMine' BY DEF Kern, StepTo, Abort, Shape, ResultsMine, Mine
<1>5. TablesOk' BY DEF Kern, StepTo, Abort, TablesOk
<1>6. OthersKept' BY DEF Kern, StepTo, Abort, OthersKept, Repeated
<1> QED BY <1>1, <1>2, <1>3, <1>4, <1>5, <1>6 DEF FlowInv

(* gen_apps in a worker.                                                   *)
LEMMA GenFlow == ASSUME NEW i \in DOMAIN wk, FlowInv, Gen(i) PROVE FlowInv'
<1> USE DEF FlowInv
<1>1. Shape' BY DEF Gen, GenOpen, GenCase, StepTo, Abort, Shape, CommandLine
<1>2. DataNow'
  <2> DEFINE d == inv.units[i].dir
  <2>1. ASSUME inv.script \in Sweeps, NEW j \in DOMAIN inv.units
        PROVE  inv.units[j].dir \in DataDirs
    BY <2>1 DEF Shape, CommandLine, OwnSuite, Sweeps
  <2>2. UNCHANGED <<inv, exec>> BY DEF Gen
  <2>3. ASSUME NEW c \in DataDirs, ManNow(c)
        PROVE  ManNow(c)'
    <3>1. CASE wk[i].st = "gen" BY <2>2, <2>3, <3>1 DEF Gen, GenOpen, Shape, ManNow, NoFile
    <3>2. CASE wk[i].st = "genCase" BY <2>2, <2>3, <3>2 DEF Gen, GenCase, Shape, ManNow, NoFile
    <3> QED BY <3>1, <3>2 DEF Gen
  <2>4. ASSUME inv.script \in Sweeps, pc' # "idle"
        PROVE  ManNow(d)'
    BY <2>1, <2>2, <2>3, <2>4 DEF Gen, GenOpen, GenCase, Abort, Shape, DataNow, ManNow, NoFile
  <2>5. pc' # "idle" => /\ pc = "pool" /\ DOMAIN wk' = DOMAIN wk
                         /\ \A j \in DOMAIN wk : j # i => wk'[j].st = wk[j].st
    BY DEF Gen, GenOpen, GenCase, Abort, StepTo
  <2>6. inv.pre # NoFile => inv.pre[1].dir \in DataDirs BY DEF Shape, CommandLine, OwnSuite
  <2> QED BY <2>1, <2>2, <2>3, <2>4, <2>5, <2>6 DEF DataNow, Shape
<1>3. LogsMine' BY DEF Gen, GenOpen, GenCase, StepTo, Abort, Shape, LogsMine, Mine
<1>4. ResultsMine' BY DEF Gen, GenOpen, GenCase, StepTo, Abort, Shape, ResultsMine, Mine
<1>5. TablesOk' BY DEF Gen, GenOpen, GenCase, StepTo, Abort, TablesOk
<1>6. OthersKept' BY DEF Gen, GenOpen, GenCase, StepTo, Abort, OthersKept, Repeated
<1> QED BY <1>1, <1>2, <1>3, <1>4, <1>5, <1>6 DEF FlowInv

(* run_test empties the work directory, or raises: no older log survives.  *)
LEMMA CleanFlow == ASSUME NEW i \in DOMAIN wk, FlowInv, Clean(i) PROVE FlowInv'
<1> USE DEF FlowInv
<1>1. Shape' BY DEF Clean, StepTo, Shape, CommandLine
<1>2. DataNow' BY DEF Clean, StepTo, Shape, DataNow, ManNow
<1>3. LogsMine'
  BY DEF Clean, StepTo, Shape, CommandLine, LogsMine, Mine
<1>4. ResultsMine' BY DEF Clean, StepTo, Shape, ResultsMine, Mine
<1>5. TablesOk' BY DEF Clean, StepTo, TablesOk
<1>6. OthersKept' BY DEF Clean, StepTo, OthersKept, Repeated
<1> QED BY <1>1, <1>2, <1>3, <1>4, <1>5, <1>6 DEF FlowInv

(* xvlog, xsc and xelab: a failed one leaves no log.                       *)
LEMMA BuildFlow == ASSUME NEW i \in DOMAIN wk, FlowInv, Build(i) PROVE FlowInv'
<1> USE DEF FlowInv
<1>1. Shape' BY DEF Build, StepTo, files, Shape, CommandLine
<1>2. DataNow' BY DEF Build, StepTo, files, Shape, DataNow, ManNow
<1>3. LogsMine' BY DEF Build, StepTo, files, Shape, LogsMine, Mine
<1>4. ResultsMine' BY DEF Build, StepTo, files, Shape, ResultsMine, Mine
<1>5. TablesOk' BY DEF Build, StepTo, files, TablesOk
<1>6. OthersKept' BY DEF Build, StepTo, files, OthersKept, Repeated
<1> QED BY <1>1, <1>2, <1>3, <1>4, <1>5, <1>6 DEF FlowInv

(* The simulation writes the log of its own directory, from the manifest   *)
(* generated in this execution; the other units have other directories.    *)
LEMMA SimFlow == ASSUME NEW i \in DOMAIN wk, FlowInv, Sim(i) PROVE FlowInv'
<1> USE DEF FlowInv
<1>1. Shape' BY DEF Sim, StepTo, Promised, Ready, Shape, CommandLine
<1>2. DataNow' BY DEF Sim, StepTo, Promised, Ready, Shape, DataNow, ManNow
<1>3. LogsMine'
  <2> DEFINE u == inv.units[i]
  <2>1. /\ u.test \in Tests
        /\ \A j \in DOMAIN wk : j # i => inv.units[j].test # u.test
    BY DEF Shape, CommandLine
  <2>2. /\ UNCHANGED <<inv, exec, pc>> /\ pc = "pool" /\ wk[i].st = "sim"
        /\ DOMAIN wk' = DOMAIN wk
        /\ \A j \in DOMAIN wk : j # i => wk'[j].st = wk[j].st
    BY DEF Sim, StepTo
  <2>3. inv.script \in Sweeps => u.dir # "none" /\ ManNow(u.dir)
    BY <2>2 DEF Shape, CommandLine, OwnSuite, DataNow, Sweeps, DataDirs
  <2>4. \A r \in wd'[u.test][1].rows : Mine(i, r)'
    BY <2>1, <2>2, <2>3 DEF Sim, Shape, Mine, ManNow, Ready
  <2>5. \A j \in DOMAIN wk : j # i => wd'[inv.units[j].test] = wd[inv.units[j].test]
    BY <2>1 DEF Sim, Shape, CommandLine
  <2> QED BY <2>2, <2>4, <2>5 DEF LogsMine, Mine
<1>4. ResultsMine' BY DEF Sim, StepTo, Promised, Ready, Shape, ResultsMine, Mine
<1>5. TablesOk' BY DEF Sim, StepTo, Promised, Ready, TablesOk
<1>6. OthersKept' BY DEF Sim, StepTo, Promised, Ready, OthersKept, Repeated
<1> QED BY <1>1, <1>2, <1>3, <1>4, <1>5, <1>6 DEF FlowInv

(* A unit collects the rows of its own log.                                *)
LEMMA CollectFlow == ASSUME NEW i \in DOMAIN wk, FlowInv, Collect(i) PROVE FlowInv'
<1> USE DEF FlowInv
<1>1. Shape' BY DEF Collect, files, Shape, CommandLine
<1>2. DataNow' BY DEF Collect, files, Shape, DataNow, ManNow
<1>3. LogsMine' BY DEF Collect, files, Shape, LogsMine, Mine
<1>4. ResultsMine'
  BY DEF Collect, files, Shape, ResultsMine, LogsMine, Mine
<1>5. TablesOk' BY DEF Collect, files, TablesOk
<1>6. OthersKept' BY DEF Collect, files, OthersKept, Repeated
<1> QED BY <1>1, <1>2, <1>3, <1>4, <1>5, <1>6 DEF FlowInv

(* All units are collected, or one has raised.                             *)
LEMMA PoolDoneFlow == ASSUME FlowInv, PoolDone PROVE FlowInv'
<1> USE DEF FlowInv
<1>1. Shape' BY DEF PoolDone, Abort, files, Shape, CommandLine
<1>2. DataNow' BY DEF PoolDone, Abort, files, Shape, DataNow, ManNow
<1>3. LogsMine' BY DEF PoolDone, Abort, files, Shape, LogsMine, Mine
<1>4. ResultsMine' BY DEF PoolDone, Abort, files, Shape, ResultsMine, Mine
<1>5. TablesOk' BY DEF PoolDone, Abort, files, TablesOk
<1>6. OthersKept' BY DEF PoolDone, Abort, files, OthersKept, Repeated
<1> QED BY <1>1, <1>2, <1>3, <1>4, <1>5, <1>6 DEF FlowInv

(* What a merge puts together: new rows of this execution and of its units,*)
(* and old rows of other groups.                                           *)
LEMMA MergeRows ==
  ASSUME FlowInv, pc = "merge"
  PROVE  /\ inv.out \in CsvFiles
         /\ inv.out # "amo_agg" => inv.script \in Sweeps
         /\ (inv.out = "board_sim") <=> (inv.script = "board")
         /\ (inv.out = "lanes_apps") <=> (inv.script = "lane")
         /\ \A r \in NewRows : /\ r.by = exec /\ r.sim = exec
                               /\ inv.script \in Sweeps => r.man = exec
                               /\ \E i \in DOMAIN inv.units : r.grp = inv.units[i].grp
         /\ Kept \subseteq csv[inv.out]
         /\ \A k \in Kept, n \in NewRows : Group(inv.out, k) # Group(inv.out, n)
<1> USE DEF FlowInv
<1>1. /\ inv.out \in CsvFiles
      /\ inv.out # "amo_agg" => inv.script \in Sweeps
      /\ (inv.out = "board_sim") <=> (inv.script = "board")
      /\ (inv.out = "lanes_apps") <=> (inv.script = "lane")
  BY DEF Shape, CommandLine, OutOf, Scripts, CsvFiles, Sweeps
<1>2. ASSUME NEW r \in NewRows
      PROVE  /\ r.by = exec /\ r.sim = exec
             /\ inv.script \in Sweeps => r.man = exec
             /\ \E i \in DOMAIN inv.units : r.grp = inv.units[i].grp
  <2>1. PICK i \in DOMAIN wk : wk[i].st = "done" /\ \E q \in wk[i].rows : r = Recorded(q)
    BY DEF NewRows
  <2>2. PICK q \in wk[i].rows : r = Recorded(q) BY <2>1
  <2>3. Mine(i, q) BY <2>1, <2>2 DEF ResultsMine
  <2> QED BY <2>2, <2>3 DEF Recorded, Mine, Shape
<1>3. Kept \subseteq csv[inv.out] BY DEF Kept
<1>4. ASSUME NEW k \in Kept, NEW n \in NewRows
      PROVE  Group(inv.out, k) # Group(inv.out, n)
  <2>1. CASE inv.script = "lane" BY <1>1, <1>2, <2>1 DEF Kept, Group
  <2>2. CASE inv.script = "board" BY <1>1, <2>2 DEF Kept, Group
  <2>3. CASE inv.script \notin {"lane", "board"} BY <2>3 DEF Kept
  <2> QED BY <2>1, <2>2, <2>3
<1> QED BY <1>1, <1>2, <1>3, <1>4

(* The table is emptied while its rows are pending.                        *)
LEMMA MergeOpenFlow == ASSUME FlowInv, MergeOpen PROVE FlowInv'
<1> USE DEF FlowInv
<1>1. Shape' BY DEF MergeOpen, Shape, CommandLine
<1>2. DataNow' BY DEF MergeOpen, Shape, DataNow, ManNow
<1>3. LogsMine' BY DEF MergeOpen, Shape, LogsMine, Mine
<1>4. ResultsMine' BY DEF MergeOpen, Shape, ResultsMine, Mine
<1>5. TablesOk'
  <2>1. TableOk(inv.out, csv[inv.out]) BY MergeRows DEF MergeOpen, TablesOk
  <2>2. \A r \in Kept \cup NewRows : FreshIn(inv.out, r)
    BY <2>1, MergeRows DEF MergeOpen, TableOk, FreshIn
  <2>3. WholeIn(inv.out, Kept \cup NewRows)
    BY <2>1, MergeRows DEF MergeOpen, TableOk, WholeIn
  <2>4. \A c \in CsvFiles : csv'[c] = csv[c] \/ csv'[c] = {}
    BY DEF MergeOpen, Shape
  <2>5. \A c \in CsvFiles : TableOk(c, csv'[c])
    BY <2>4 DEF TablesOk, TableOk, WholeIn
  <2>6. csv'[inv.out] = {} BY MergeRows DEF MergeOpen, Shape
  <2> QED BY <2>2, <2>3, <2>5, <2>6 DEF MergeOpen, TablesOk, TableOk
<1>6. OthersKept'
  <2>1. /\ pc = "merge" /\ pc' = "mergeWrite" /\ pend' = Kept \cup NewRows
        /\ UNCHANGED <<inv, snap>>
        /\ \A c \in CsvFiles : c # inv.out => csv'[c] = csv[c]
    BY DEF MergeOpen, Shape
  <2>2. ASSUME NEW r \in csv[inv.out], r \notin Kept, inv.out \in {"lanes_apps", "board_sim"}
        PROVE  Repeated(inv.out, r)
    <3>1. CASE inv.script = "lane" BY <2>2, <3>1 DEF Kept, Repeated
    <3>2. CASE inv.script = "board"
      <4>1. PICK n \in NewRows : r.grp = n.grp BY <2>2, <3>2 DEF Kept
      <4> QED BY <2>1, <4>1, MergeRows DEF Repeated
    <3> QED BY <2>1, <2>2, <3>1, <3>2, MergeRows
  <2> QED BY <2>1, <2>2, MergeRows DEF OthersKept, Repeated, CsvFiles
<1> QED BY <1>1, <1>2, <1>3, <1>4, <1>5, <1>6 DEF FlowInv

(* The pending rows are written.                                           *)
LEMMA MergeWriteFlow == ASSUME FlowInv, MergeWrite PROVE FlowInv'
<1> USE DEF FlowInv
<1>1. Shape' BY DEF MergeWrite, Shape, CommandLine
<1>2. DataNow' BY DEF MergeWrite, Shape, DataNow, ManNow
<1>3. LogsMine' BY DEF MergeWrite, Shape, LogsMine, Mine
<1>4. ResultsMine' BY DEF MergeWrite, Shape, ResultsMine, Mine
<1>5. TablesOk' BY DEF MergeWrite, TablesOk
<1>6. OthersKept'
  <2>1. /\ pc = "mergeWrite" /\ csv' = [csv EXCEPT ![inv.out] = pend]
        /\ UNCHANGED <<inv, snap, status>>
    BY DEF MergeWrite
  <2>2. \A c \in CsvFiles : c # inv.out => csv'[c] = csv[c] BY <2>1 DEF Shape
  <2>3. ASSUME inv.out \in CsvFiles PROVE csv'[inv.out] = pend BY <2>1, <2>3 DEF Shape
  <2>4. ASSUME NEW c \in {"lanes_apps", "board_sim"}, NEW r \in snap[c]
        PROVE  r \in csv'[c] \/ Repeated(c, r)
    <3>1. c \in CsvFiles BY DEF CsvFiles
    <3>2. \/ r \in csv[c]
          \/ c = inv.out /\ r \in pend
          \/ Repeated(c, r)
      BY <2>1 DEF OthersKept
    <3>3. CASE c # inv.out BY <2>2, <3>1, <3>2, <3>3
    <3>4. CASE c = inv.out BY <2>3, <3>1, <3>2, <3>4, <2>1 DEF TablesOk
    <3> QED BY <3>3, <3>4
  <2> QED BY <2>1, <2>4 DEF OthersKept, Repeated
<1> QED BY <1>1, <1>2, <1>3, <1>4, <1>5, <1>6 DEF FlowInv

(* The exit status is set; no file changes.                                *)
LEMMA ExitFlow == ASSUME FlowInv, Exit PROVE FlowInv'
<1> USE DEF FlowInv
<1>1. Shape' BY DEF Exit, files, Shape, CommandLine
<1>2. DataNow' BY DEF Exit, files, Shape, DataNow, ManNow
<1>3. LogsMine' BY DEF Exit, files, Shape, LogsMine, Mine
<1>4. ResultsMine' BY DEF Exit, files, Shape, ResultsMine, Mine
<1>5. TablesOk' BY DEF Exit, files, TablesOk
<1>6. OthersKept' BY DEF Exit, files, OthersKept, Repeated
<1> QED BY <1>1, <1>2, <1>3, <1>4, <1>5, <1>6 DEF FlowInv

(* vortex_compare reads the table of the sweep and opens its own.          *)
LEMMA CompareFlow == ASSUME FlowInv, Compare PROVE FlowInv'
<1> USE DEF FlowInv
<1>1. Shape' BY DEF Compare, Abort, Shape, CommandLine
<1>2. DataNow' BY DEF Compare, Abort, Shape, DataNow, ManNow
<1>3. LogsMine' BY DEF Compare, Abort, Shape, LogsMine, Mine
<1>4. ResultsMine'
  <2>1. UNCHANGED <<inv, exec, wk>> /\ pc # "idle" BY DEF Compare
  <2> QED BY <2>1 DEF ResultsMine, Mine
<1>5. TablesOk' BY DEF Compare, Abort, TablesOk
<1>6. OthersKept' BY DEF Compare, Abort, OthersKept, Repeated
<1> QED BY <1>1, <1>2, <1>3, <1>4, <1>5, <1>6 DEF FlowInv

(* vortex_compare writes its own table.                                    *)
LEMMA CompareWriteFlow == ASSUME FlowInv, CompareWrite PROVE FlowInv'
<1> USE DEF FlowInv
<1>1. Shape' BY DEF CompareWrite, Shape, CommandLine
<1>2. DataNow' BY DEF CompareWrite, Shape, DataNow, ManNow
<1>3. LogsMine' BY DEF CompareWrite, Shape, LogsMine, Mine
<1>4. ResultsMine' BY DEF CompareWrite, Shape, ResultsMine, Mine
<1>5. TablesOk' BY DEF CompareWrite, TablesOk
<1>6. OthersKept' BY DEF CompareWrite, OthersKept, Repeated
<1> QED BY <1>1, <1>2, <1>3, <1>4, <1>5, <1>6 DEF FlowInv

(* A kill loses buffered lines: a part of the pending rows, or of a manifest.*)
LEMMA KillFlow == ASSUME FlowInv, Kill PROVE FlowInv'
<1> USE DEF FlowInv
<1>1. Shape'
  <2>1. DOMAIN csv' = DOMAIN csv BY DEF Kill
  <2>2. DOMAIN man' = DOMAIN man BY DEF Kill
  <2> QED BY <2>1, <2>2 DEF Kill, Shape
<1>2. DataNow' BY DEF Kill, Shape, DataNow, ManNow
<1>3. LogsMine' BY DEF Kill, Shape, LogsMine, Mine
<1>4. ResultsMine' BY DEF Kill, Shape, ResultsMine, Mine
<1>5. TablesOk'
  <2>1. CASE pc # "mergeWrite" BY <2>1 DEF Kill, TablesOk
  <2>2. CASE pc = "mergeWrite"
    <3>1. \E part : part \subseteq pend /\ csv' = [csv EXCEPT ![inv.out] = part]
      BY <2>2 DEF Kill
    <3>2. PICK part : part \subseteq pend /\ csv' = [csv EXCEPT ![inv.out] = part] BY <3>1
    <3>3. TableOk(inv.out, part) BY <2>2, <3>2 DEF TablesOk, TableOk, WholeIn
    <3> QED BY <3>2, <3>3 DEF Kill, Shape, TablesOk
  <2> QED BY <2>1, <2>2
<1>6. OthersKept' BY DEF Kill, OthersKept, Repeated
<1> QED BY <1>1, <1>2, <1>3, <1>4, <1>5, <1>6 DEF FlowInv

(* A step of any script, of any worker, an edit or a kill keeps FlowInv.   *)
LEMMA NextFlow == ASSUME FlowInv, [Next]_vars PROVE FlowInv'
<1>1. CASE \E i \in DOMAIN wk :
             Begin(i) \/ Kern(i) \/ Gen(i) \/ Clean(i) \/ Build(i) \/ Sim(i) \/ Collect(i)
  BY <1>1, BeginFlow, KernFlow, GenFlow, CleanFlow, BuildFlow, SimFlow, CollectFlow
<1>2. CASE \E k \in Range(Kernels) : EditKernel(k) BY <1>2, EditKernelFlow
<1>3. CASE Start \/ KernelBuild \/ PreGen \/ PoolDone \/ MergeOpen \/ MergeWrite
           \/ Exit \/ Compare \/ CompareWrite \/ Kill
  BY <1>3, StartFlow, KernelBuildFlow, PreGenFlow, PoolDoneFlow, MergeOpenFlow,
     MergeWriteFlow, ExitFlow, CompareFlow, CompareWriteFlow, KillFlow
<1>4. CASE UNCHANGED vars
  BY <1>4 DEF vars, FlowInv, Shape, DataNow, ManNow, LogsMine, ResultsMine, Mine, TablesOk,
              OthersKept, Repeated
<1> QED BY <1>1, <1>2, <1>3, <1>4 DEF Next

(* The scripts keep FlowInv for any set of command lines, any suite, any   *)
(* kernels and any number of executions, failures and kills.               *)
THEOREM FlowInvariant == Spec => []FlowInv
<1>1. Init => FlowInv BY InitFlow
<1>2. FlowInv /\ [Next]_vars => FlowInv' BY NextFlow
<1> QED BY <1>1, <1>2, PTL DEF Spec

(* Every row of a committed CSV was simulated by the execution that wrote  *)
(* it, from data that execution generated: run_test's rmtree and makedirs  *)
(* and the sweeps' gen_apps suffice, whatever failed or was killed before. *)
THEOREM FreshRows == Spec => []RowsFresh
<1>1. FlowInv => RowsFresh BY DEF FlowInv, TablesOk, TableOk, FreshIn, RowsFresh
<1> QED BY <1>1, FlowInvariant, PTL

(* The rows of one group of a CSV come from one execution, and a sweep     *)
(* that ends by itself keeps the rows of the groups it did not run: the    *)
(* merges of lane_sweep.py and board_sim.py.                               *)
THEOREM WholeGroups == Spec => []GroupsWhole
<1>1. ASSUME FlowInv PROVE GroupsWhole
  <2>1. \A c \in CsvFiles : WholeIn(c, csv[c]) BY <1>1 DEF FlowInv, TablesOk, TableOk
  <2>2. ASSUME pc = "idle", status \in {"0", "1"}, NEW c \in {"lanes_apps", "board_sim"},
               NEW r \in snap[c]
        PROVE  r \in csv[c] \/ Repeated(c, r)
    BY <1>1, <2>2 DEF FlowInv, OthersKept
  <2> QED BY <2>1, <2>2 DEF GroupsWhole, WholeIn, Repeated
<1> QED BY <1>1, FlowInvariant, PTL
------------------------------------------------------------------------------
(* CompareFair.  The tables are of one sweep because the rows read are of  *)
(* one group, and CompareNow says what is pending and what was written.    *)
LaunchesOf(rows) == {<<r.case, r.launch>> : r \in rows}
OneSweep(rows) == \A r, s \in rows : r.by = s.by /\ r.sim = s.sim
CompareNow ==
  /\ inv.script = "compare" => pc \in {"compare", "compareWrite", "idle"}
  /\ pc \in {"compare", "compareWrite"} => inv.script = "compare"
  /\ pc = "kbuild" => inv.script = "kbuild"
  /\ pc = "compareWrite" => OneSweep(pend) /\ LaunchesOf(pend) = VortexRows
  /\ cmp # NoFile => OneSweep(cmp[1])
  /\ pc = "idle" /\ inv.script = "compare" /\ status = "0" => LaunchesOf(cmp[1]) = VortexRows

(* PassIsComplete.  The manifests are records; a unit of a script that     *)
(* generates runs alone.                                                   *)
ManFields == {"by", "size", "n", "kdir", "imgs"}
Steady ==
  /\ genAt \in Nat
  /\ \A d \in DataDirs : man[d] # NoFile =>
       man[d] = <<man[d][1]>> /\ DOMAIN man[d][1] = ManFields
  /\ inv.width = 1 => \A i, j \in Running : i = j
(* The manifest of directory d has the first n cases of a suite. *)
Upto(d, size, n) == man[d] # NoFile /\ man[d][1].size = size /\ man[d][1].n = n
WholeMan(u) == Upto(u.dir, u.size, Len(Suite[u.size]))
(* The manifest a unit simulates is whole from the end of its generation,  *)
(* and the one of prepare is empty or whole at any time.                   *)
DataWhole ==
  /\ pc = "preCase" => Upto(inv.pre[1].dir, inv.pre[1].size, genAt)
  /\ inv.pre # NoFile /\ pc \notin {"idle", "pre", "preCase"} => WholeMan(inv.pre[1])
  /\ pc # "idle" => \A i \in DOMAIN wk :
       /\ wk[i].st \in {"kern", "gen", "genCase"} => inv.units[i].gen # "never"
       /\ wk[i].st = "genCase" => Upto(inv.units[i].dir, inv.units[i].size, genAt)
       /\ wk[i].st \in {"clean", "build", "sim"} /\ inv.units[i].gen = "always" =>
            WholeMan(inv.units[i])
       /\ wk[i].st \in {"clean", "build", "sim"} /\ inv.units[i].gen = "missing" =>
            man[inv.units[i].dir] # NoFile
  /\ man["build_apps_w8"] # NoFile =>
       man["build_apps_w8"][1].size = "w8" /\ man["build_apps_w8"][1].n \in 0..1
(* Unit i's log shows that it passed, all of it, in this execution. *)
Verified(i) ==
  LET u == inv.units[i]
      log == wd[u.test]
  IN  /\ log # NoFile /\ log[1].end = "PASS"
      /\ \A r \in log[1].rows : r.sim = exec
      /\ inv.script # "xsim" \/ u.gen = "missing" =>
           LaunchesOf(log[1].rows) = Launches(Suite[u.size], Len(Suite[u.size]))
(* A log with PASS is a proof, when it is read and when it was collected.  *)
Passed(i) ==
  /\ wk[i].st = "read" /\ wd[inv.units[i].test] # NoFile =>
       (wd[inv.units[i].test][1].end = "PASS" => Verified(i))
  /\ wk[i].ok => wk[i].st \in {"done", "merged"} /\ Verified(i)
AllPassed ==
  /\ \A i \in DOMAIN wk : Passed(i)
  /\ pc = "idle" /\ status = "0" /\ inv.script \notin {"compare", "kbuild"} =>
       \A i \in DOMAIN wk : Verified(i)
EndInv == Steady /\ DataWhole /\ AllPassed

(* What the command line says of a unit, for the steps below.              *)
LEMMA UnitFacts ==
  ASSUME Shape, NEW i \in DOMAIN wk
  PROVE  /\ i \in DOMAIN inv.units /\ inv.units[i].test \in Tests
         /\ \A j \in DOMAIN wk : j # i => inv.units[j].test # inv.units[i].test
         /\ inv.units[i].kdir # AppsDir => inv.units[i].gen = "always"
         /\ inv.units[i].gen # "never" =>
              /\ inv.units[i].dir \in DataDirs
              /\ (inv.units[i].dir = "build_apps_w8" <=> inv.units[i].size = "w8")
              /\ inv.width = 1 /\ inv.pre = NoFile
         /\ inv.units[i].gen = "missing" => inv.units[i].size = "w8"
         /\ inv.script \in Sweeps =>
              \/ inv.units[i].gen = "always"
              \/ /\ inv.pre # NoFile /\ inv.pre[1].dir = inv.units[i].dir
                 /\ inv.pre[1].size = inv.units[i].size
         /\ inv.script = "amo" => inv.units[i].dir = "none" /\ inv.units[i].size = "sync"
BY DEF Shape, CommandLine, OwnSuite, Sweeps

(* What it says of the data generated before the workers.                  *)
LEMMA PreFacts ==
  ASSUME Shape, inv.pre # NoFile
  PROVE  /\ inv.script = "app" /\ inv.pre[1].dir \in DataDirs
         /\ (inv.pre[1].dir = "build_apps_w8" <=> inv.pre[1].size = "w8")
         /\ \A i \in DOMAIN wk : inv.units[i].gen = "never"
BY DEF Shape, CommandLine, OwnSuite

(* The comparison, its table and the rows pending for it.                  *)
LEMMA InitCompare == Init => CompareNow
BY DEF Init, CompareNow, vortex_compare, Inv
(* Only vortex_compare opens and writes the table.                         *)
LEMMA NextCompare == ASSUME FlowInv, CompareNow, [Next]_vars PROVE CompareNow'
<1>1. CASE Start BY <1>1 DEF Start, files, CompareNow, OneSweep, LaunchesOf
<1>2. CASE \E k \in Range(Kernels) : EditKernel(k)
  BY <1>2 DEF EditKernel, CompareNow, OneSweep, LaunchesOf
<1>3. CASE KernelBuild BY <1>3 DEF KernelBuild, Abort, CompareNow, OneSweep, LaunchesOf
<1>4. CASE PreGen
  <2>1. UNCHANGED <<inv, pend, cmp>> /\ pc' \in {"pre", "preCase", "pool", "idle"} /\ pc \in {"pre", "preCase"}
    BY <1>4 DEF PreGen, GenOpen, GenCase, Abort
  <2> QED BY <2>1 DEF FlowInv, Shape, CompareNow, OneSweep, LaunchesOf
<1>5. CASE \E i \in DOMAIN wk :
             Begin(i) \/ Kern(i) \/ Gen(i) \/ Clean(i) \/ Build(i) \/ Sim(i) \/ Collect(i)
  <2>1. UNCHANGED <<inv, pend, cmp>> /\ pc' \in {"pool", "idle", "merge"} /\ pc = "pool"
    BY <1>5 DEF Begin, Kern, Gen, GenOpen, GenCase, Clean, Build, Sim, Collect, StepTo, Abort, files
  <2> QED BY <2>1 DEF FlowInv, Shape, CompareNow, OneSweep, LaunchesOf
<1>6. CASE PoolDone \/ MergeOpen \/ MergeWrite \/ Exit
  <2>1. /\ UNCHANGED <<inv, cmp>> /\ pc' \in {"idle", "exit", "merge", "mergeWrite", "pool"}
        /\ pc \in {"pool", "merge", "mergeWrite", "exit"}
    BY <1>6 DEF PoolDone, MergeOpen, MergeWrite, Exit, Abort, files
  <2> QED BY <2>1 DEF FlowInv, Shape, CompareNow, OneSweep, LaunchesOf
<1>7. CASE Compare
  <2> DEFINE rows == {r \in csv["apps_agg"] : r.grp = "ser"}
  <2>1. OneSweep(rows)
    <3>1. TableOk("apps_agg", csv["apps_agg"]) BY DEF FlowInv, TablesOk, CsvFiles
    <3> QED BY <3>1 DEF TableOk, FreshIn, WholeIn, Group, OneSweep
  <2>2. OneSweep({}) BY DEF OneSweep
  <2>3. CASE LaunchesDiffer(rows)
    BY <1>7, <2>3 DEF Compare, Abort, CompareNow, OneSweep, LaunchesOf
  <2>4. CASE ~LaunchesDiffer(rows)
    <3>1. LaunchesOf(rows) = VortexRows BY <2>4 DEF LaunchesDiffer, LaunchesOf
    <3>2. /\ cmp' = <<{}>> /\ pend' = rows /\ pc' = "compareWrite" /\ pc = "compare" /\ inv' = inv
      BY <1>7, <2>4 DEF Compare
    <3> HIDE DEF rows
    <3> QED BY <2>1, <2>2, <3>1, <3>2 DEF CompareNow, OneSweep, LaunchesOf
  <2> QED BY <2>3, <2>4
<1>8. CASE CompareWrite
  BY <1>8 DEF CompareWrite, CompareNow, OneSweep, LaunchesOf
<1>9. CASE Kill BY <1>9 DEF Kill, CompareNow, OneSweep, LaunchesOf
<1>10. CASE UNCHANGED vars BY <1>10 DEF vars, CompareNow, OneSweep, LaunchesOf
<1> QED BY <1>1, <1>2, <1>3, <1>4, <1>5, <1>6, <1>7, <1>8, <1>9, <1>10 DEF Next

(* vortex_compare.py writes its table only when its launches are exactly   *)
(* the ones of the Vortex run, and never from rows of two sweeps: whatever *)
(* a failed or killed sweep left in its CSV is refused.                    *)
THEOREM FairComparison == Spec => []CompareFair
<1>1. Init => FlowInv /\ CompareNow BY InitFlow, InitCompare
<1>2. FlowInv /\ CompareNow /\ [Next]_vars => FlowInv' /\ CompareNow' BY NextFlow, NextCompare
<1>3. CompareNow => CompareFair BY DEF CompareNow, CompareFair, OneSweep, LaunchesOf
<1> QED BY <1>1, <1>2, <1>3, PTL DEF Spec

(* A step that leaves the workers, the manifests and the logs alone.       *)
LEMMA QuietEnd ==
  ASSUME EndInv, UNCHANGED <<inv, exec, wk, genAt, man, wd>>,
         pc' # "idle" => pc # "idle",
         pc' = "preCase" => pc = "preCase",
         pc' \notin {"idle", "pre", "preCase"} => pc \notin {"idle", "pre", "preCase"},
         pc' = "idle" /\ status' = "0" /\ inv.script \notin {"compare", "kbuild"} =>
           \A i \in DOMAIN wk : Verified(i)
  PROVE  EndInv'
<1>1. Steady' BY DEF EndInv, Steady, Running
<1>2. DataWhole' BY DEF EndInv, DataWhole, WholeMan, Upto
<1>3. AllPassed' BY DEF EndInv, AllPassed, Passed, Verified
<1> QED BY <1>1, <1>2, <1>3 DEF EndInv

(* Before the first script nothing is generated and nothing has passed.    *)
LEMMA InitEnd == Init => EndInv
<1> SUFFICES ASSUME Init PROVE EndInv OBVIOUS
<1>1. inv.pre = NoFile /\ inv.script = "compare" BY DEF Init, vortex_compare, Inv
<1>2. Steady BY DEF Init, Steady, Running
<1>3. DataWhole BY <1>1 DEF Init, DataWhole, DataDirs
<1>4. AllPassed BY <1>1 DEF Init, AllPassed, Passed
<1> QED BY <1>2, <1>3, <1>4 DEF EndInv

(* A script starts with workers that have verified nothing.                *)
LEMMA StartEnd == ASSUME EndInv, Start PROVE EndInv'
<1>1. CommandLine(inv') BY InvocationsAssumption DEF Start
<1>2. /\ \A i \in DOMAIN wk' : wk'[i] = Idle
      /\ UNCHANGED <<man, wd>> /\ genAt' = 0
      /\ pc' \in {"pre", "pool", "compare", "kbuild"}
      /\ inv'.pre # NoFile => pc' = "pre"
  BY <1>1 DEF Start, files, CommandLine
<1>3. Steady' BY <1>2 DEF EndInv, Steady, Running, Idle
<1>4. DataWhole' BY <1>2 DEF EndInv, DataWhole, Idle
<1>5. AllPassed' BY <1>2 DEF AllPassed, Passed, Idle
<1> QED BY <1>3, <1>4, <1>5 DEF EndInv

(* gen_apps before the workers.                                            *)
LEMMA PreGenEnd == ASSUME FlowInv, EndInv, PreGen PROVE EndInv'
<1> DEFINE u == inv.pre[1]
<1>1. inv.pre # NoFile /\ Shape BY DEF FlowInv, Shape, PreGen
<1>2. /\ u.dir \in DataDirs /\ (u.dir = "build_apps_w8" <=> u.size = "w8") /\ inv.script = "app"
      /\ \A i \in DOMAIN wk : inv.units[i].gen = "never"
  BY <1>1, PreFacts
<1>3. UNCHANGED <<inv, exec, wk, wd>> /\ pc' \in {"idle", "preCase", "pool"}
      /\ (pc' = "idle" => status' = "failed") /\ DOMAIN man = DataDirs
  BY <1>1 DEF PreGen, GenOpen, GenCase, Abort, Shape
<1>4. \/ /\ UNCHANGED <<man, genAt>> /\ pc' = "idle"
      \/ /\ UNCHANGED <<man, genAt>> /\ pc = "preCase" /\ pc' = "pool" /\ genAt = Len(Suite[u.size])
      \/ /\ genAt' \in Nat /\ pc' = "preCase"
         /\ \E m : /\ man' = [man EXCEPT ![u.dir] = <<m>>] /\ DOMAIN m = ManFields
                   /\ m.size = u.size /\ m.n = genAt'
                   /\ u.size = "w8" => genAt' \in 0..1
  <2>1. CASE pc = "pre" BY <2>1 DEF PreGen, GenOpen, Abort, ManFields
  <2>2. CASE pc = "preCase"
    <3>1. CASE /\ UNCHANGED <<man, genAt>>
               /\ \/ Abort
                  \/ genAt = Len(Suite[u.size]) /\ pc' = "pool" /\ UNCHANGED status
      BY <2>2, <3>1 DEF Abort
    <3>2. CASE /\ genAt < Len(Suite[u.size]) /\ genAt' = genAt + 1 /\ UNCHANGED <<pc, wk, status>>
               /\ man' = [man EXCEPT ![u.dir] = <<[@[1] EXCEPT !.n = genAt + 1]>>]
      <4>1. genAt \in Nat /\ genAt' \in Nat BY <3>2 DEF EndInv, Steady
      <4>2. ASSUME u.size = "w8" PROVE genAt' \in 0..1
        <5>1. genAt < 1 /\ genAt' = genAt + 1 BY <3>2, <4>2, SuiteAssumption
        <5> QED BY <4>1, <5>1
      <4>3. Upto(u.dir, u.size, genAt) BY <2>2 DEF EndInv, DataWhole
      <4>4. DOMAIN man[u.dir][1] = ManFields BY <1>2, <4>3 DEF EndInv, Steady, Upto
      <4>5. man' = [man EXCEPT ![u.dir] = <<[man[u.dir][1] EXCEPT !.n = genAt + 1]>>]
        BY <1>2, <1>3, <3>2
      <4>6. /\ DOMAIN [man[u.dir][1] EXCEPT !.n = genAt + 1] = ManFields
            /\ [man[u.dir][1] EXCEPT !.n = genAt + 1].size = u.size
            /\ [man[u.dir][1] EXCEPT !.n = genAt + 1].n = genAt'
        BY <3>2, <4>3, <4>4 DEF Upto, ManFields
      <4> QED BY <2>2, <3>2, <4>1, <4>2, <4>5, <4>6
    <3> QED BY <2>2, <3>1, <3>2 DEF PreGen, GenCase
  <2> QED BY <2>1, <2>2 DEF PreGen
<1>5. Steady' BY <1>2, <1>3, <1>4 DEF EndInv, Steady, Running, NoFile
<1>6. DataWhole'
  <2>1. CASE UNCHANGED <<man, genAt>> /\ pc' = "idle"
    BY <1>2, <1>3, <2>1 DEF EndInv, DataWhole, WholeMan, Upto
  <2>2. CASE UNCHANGED <<man, genAt>> /\ pc = "preCase" /\ pc' = "pool" /\ genAt = Len(Suite[u.size])
    BY <1>2, <1>3, <2>2 DEF EndInv, DataWhole, WholeMan, Upto
  <2>3. CASE /\ genAt' \in Nat /\ pc' = "preCase"
             /\ \E m : /\ man' = [man EXCEPT ![u.dir] = <<m>>] /\ DOMAIN m = ManFields
                       /\ m.size = u.size /\ m.n = genAt'
                       /\ u.size = "w8" => genAt' \in 0..1
    <3>1. man'[u.dir] # NoFile /\ man'[u.dir][1].size = u.size /\ man'[u.dir][1].n = genAt'
          /\ (u.size = "w8" => genAt' \in 0..1) /\ \A d \in DataDirs : d # u.dir => man'[d] = man[d]
      BY <1>2, <1>3, <2>3 DEF NoFile
    <3>2. Upto(u.dir, u.size, genAt)' BY <1>3, <3>1 DEF Upto
    <3>3. man["build_apps_w8"]' # NoFile =>
            man["build_apps_w8"]'[1].size = "w8" /\ man["build_apps_w8"]'[1].n \in 0..1
      BY <1>2, <3>1 DEF EndInv, DataWhole, DataDirs
    <3> HIDE DEF u
    <3>4. u' = u BY <1>3 DEF u
    <3>5. pc # "idle" BY DEF PreGen
    <3> QED BY <1>2, <1>3, <2>3, <3>2, <3>3, <3>4, <3>5 DEF EndInv, DataWhole, u
  <2> QED BY <1>4, <2>1, <2>2, <2>3
<1>7. AllPassed' BY <1>3 DEF EndInv, AllPassed, Passed, Verified
<1> QED BY <1>5, <1>6, <1>7 DEF EndInv

(* A worker that moves on before its log is read leaves every verdict as   *)
(* it was.                                                                 *)
LEMMA StillPassed ==
  ASSUME AllPassed, NEW i \in DOMAIN wk, UNCHANGED <<inv, exec, wd>>, pc' # "idle",
         DOMAIN wk' = DOMAIN wk, wk'[i].ok = wk[i].ok,
         wk[i].st \notin {"done", "merged"}, wk'[i].st # "read",
         \A j \in DOMAIN wk : j # i => wk'[j] = wk[j]
  PROVE  AllPassed'
<1>1. \A j \in DOMAIN wk : Verified(j)' <=> Verified(j) BY DEF Verified
<1>2. \A j \in DOMAIN wk : Passed(j) BY DEF AllPassed
<1>3. Passed(i)' BY <1>2 DEF Passed
<1>4. ASSUME NEW j \in DOMAIN wk, j # i PROVE Passed(j)' BY <1>1, <1>2, <1>4 DEF Passed
<1> QED BY <1>3, <1>4 DEF AllPassed

(* A worker takes a unit: alone, if the script generates.                  *)
LEMMA BeginEnd == ASSUME NEW i \in DOMAIN wk, FlowInv, EndInv, Begin(i) PROVE EndInv'
<1>0. Shape BY DEF FlowInv
<1>1. /\ UNCHANGED <<inv, exec, genAt, man, wd, pc, status>> /\ pc = "pool" /\ wk[i].st = "wait"
      /\ DOMAIN wk' = DOMAIN wk /\ wk'[i].st \in {"kern", "gen", "clean"} /\ wk'[i].ok = wk[i].ok
      /\ \A j \in DOMAIN wk : j # i => wk'[j] = wk[j]
      /\ Cardinality(Running) < inv.width
  BY <1>0 DEF Begin, StepTo, files, Shape
<1>2. inv.width = 1 => Running = {}
  <2>1. IsFiniteSet(DOMAIN wk) BY <1>0 DEF Shape, CommandLine
  <2>2. IsFiniteSet(Running) BY <2>1, FS_Subset DEF Running
  <2>3. Cardinality(Running) \in Nat BY <2>2, FS_CardinalityType
  <2> QED BY <1>1, <2>2, <2>3, FS_EmptySet
<1>3. Steady' BY <1>1, <1>2 DEF EndInv, Steady, Running
<1>a. LET u == inv.units[i]
      IN  wk'[i].st = IF u.kdir # AppsDir THEN "kern"
                      ELSE IF u.gen = "always" \/ (u.gen = "missing" /\ man[u.dir] = NoFile) THEN "gen"
                      ELSE "clean"
  BY <1>0 DEF Begin, StepTo, Shape
<1>4. wk'[i].st # "genCase" /\ (wk'[i].st \in {"kern", "gen"} => inv.units[i].gen # "never")
  <2>1. inv.units[i].kdir # AppsDir => inv.units[i].gen = "always" BY <1>0, UnitFacts
  <2> QED BY <1>a, <2>1
<1>5. wk'[i].st = "clean" => inv.units[i].gen # "always" /\
        (inv.units[i].gen = "missing" => man[inv.units[i].dir] # NoFile)
  BY <1>a
<1>6. DataWhole' BY <1>1, <1>4, <1>5 DEF EndInv, DataWhole, WholeMan, Upto
<1>7. AllPassed' BY <1>1 DEF EndInv, AllPassed, Passed, Verified
<1> QED BY <1>3, <1>6, <1>7 DEF EndInv

(* lane_sweep's kernels.                                                   *)
LEMMA KernEnd == ASSUME NEW i \in DOMAIN wk, FlowInv, EndInv, Kern(i) PROVE EndInv'
<1>0. Shape BY DEF FlowInv
<1>1. CASE UNCHANGED wk
  <2>1. UNCHANGED <<inv, exec, genAt, man, wd>> /\ pc = "pool" /\ (pc' # "idle" => UNCHANGED <<pc, status>>)
        /\ (pc' = "idle" => status' = "failed")
    BY DEF Kern, StepTo, Abort
  <2> QED BY <1>1, <2>1, QuietEnd
<1>2. CASE wk' = [wk EXCEPT ![i].st = "gen"] /\ UNCHANGED <<pc, status>>
  <2>1. UNCHANGED <<inv, exec, genAt, man, wd, pc, status>> /\ pc = "pool" /\ wk[i].st = "kern"
    BY <1>2 DEF Kern
  <2>2. inv.units[i].gen # "never"
    BY <2>1 DEF EndInv, DataWhole
  <2>3. /\ DOMAIN wk' = DOMAIN wk /\ wk'[i].st = "gen" /\ wk'[i].ok = wk[i].ok
        /\ \A j \in DOMAIN wk : j # i => wk'[j] = wk[j]
    BY <1>0, <1>2 DEF Shape
  <2>4. Steady' BY <2>1, <2>3 DEF EndInv, Steady, Running
  <2>5. DataWhole' BY <2>1, <2>2, <2>3 DEF EndInv, DataWhole, WholeMan, Upto
  <2>6. AllPassed' BY <2>1, <2>3 DEF EndInv, AllPassed, Passed, Verified
  <2> QED BY <2>4, <2>5, <2>6 DEF EndInv
<1> QED BY <1>1, <1>2 DEF Kern, StepTo

(* gen_apps in a worker: no other worker is running.                       *)
LEMMA GenEnd == ASSUME NEW i \in DOMAIN wk, FlowInv, EndInv, Gen(i) PROVE EndInv'
<1> DEFINE u == inv.units[i]
<1>0. Shape BY DEF FlowInv
<1>1. UNCHANGED <<inv, exec, wd>> /\ pc = "pool" /\ wk[i].st \in {"gen", "genCase"}
  BY DEF Gen
<1>2. /\ u.dir \in DataDirs /\ (u.dir = "build_apps_w8" <=> u.size = "w8")
      /\ inv.width = 1 /\ inv.pre = NoFile /\ DOMAIN man = DataDirs
  BY <1>0, <1>1, UnitFacts DEF EndInv, DataWhole, Shape
<1>3. \A j \in DOMAIN wk : j # i => wk[j].st \notin {"kern", "gen", "genCase", "clean", "build", "sim", "read", "failed"}
  <2>1. i \in Running BY <1>1 DEF Running
  <2> QED BY <1>2, <2>1 DEF EndInv, Steady, Running
<1>4. CASE UNCHANGED <<man, genAt, wk>> /\ Abort
  BY <1>1, <1>4, QuietEnd DEF Abort
<1>5. CASE /\ UNCHANGED <<man, genAt, pc, status>> /\ wk[i].st = "genCase"
           /\ genAt = Len(Suite[u.size]) /\ wk' = [wk EXCEPT ![i].st = "clean"]
  <2>1. /\ DOMAIN wk' = DOMAIN wk /\ wk'[i].st = "clean" /\ wk'[i].ok = wk[i].ok
        /\ \A j \in DOMAIN wk : j # i => wk'[j] = wk[j]
    BY <1>0, <1>5 DEF Shape
  <2>2. Steady' BY <1>1, <1>5, <2>1 DEF EndInv, Steady, Running
  <2>3. Upto(u.dir, u.size, genAt) BY <1>1, <1>5 DEF EndInv, DataWhole
  <2>4. DataWhole'
    <3>1. WholeMan(u) BY <1>5, <2>3 DEF WholeMan
    <3>2. \A j \in DOMAIN wk' :
            /\ wk'[j].st \notin {"kern", "gen", "genCase"}
            /\ wk'[j].st \in {"clean", "build", "sim"} => j = i
      BY <1>3, <2>1
    <3>3. WholeMan(u)' /\ man'[u.dir] # NoFile BY <1>1, <1>5, <3>1 DEF WholeMan, Upto
    <3>4. inv'.pre = NoFile /\ pc' = "pool" BY <1>1, <1>2, <1>5
    <3> QED BY <1>1, <1>5, <3>2, <3>3, <3>4 DEF EndInv, DataWhole
  <2>5. AllPassed' BY <1>1, <1>5, <2>1, StillPassed DEF EndInv
  <2> QED BY <2>2, <2>4, <2>5 DEF EndInv
<1>6. CASE /\ UNCHANGED <<pc, status>> /\ genAt' \in Nat /\ (u.size = "w8" => genAt' \in 0..1)
           /\ \E m : /\ man' = [man EXCEPT ![u.dir] = <<m>>] /\ DOMAIN m = ManFields
                     /\ m.size = u.size /\ m.n = genAt'
           /\ wk' \in {wk, [wk EXCEPT ![i].st = "genCase"]} /\ (wk' = wk => wk[i].st = "genCase")
  <2>1. /\ DOMAIN wk' = DOMAIN wk /\ wk'[i].st = "genCase" /\ wk'[i].ok = wk[i].ok
        /\ \A j \in DOMAIN wk : j # i => wk'[j] = wk[j]
    BY <1>0, <1>6 DEF Shape
  <2>2. /\ man'[u.dir] = <<man'[u.dir][1]>> /\ DOMAIN man'[u.dir][1] = ManFields
        /\ man'[u.dir] # NoFile /\ man'[u.dir][1].size = u.size /\ man'[u.dir][1].n = genAt'
        /\ \A d \in DataDirs : d # u.dir => man'[d] = man[d]
    BY <1>2, <1>6 DEF NoFile
  <2>3. Steady' BY <1>1, <1>2, <1>6, <2>1, <2>2 DEF EndInv, Steady, Running
  <2>4. Upto(u.dir, u.size, genAt)' BY <1>1, <2>2 DEF Upto
  <2>5. man["build_apps_w8"]' # NoFile =>
          man["build_apps_w8"]'[1].size = "w8" /\ man["build_apps_w8"]'[1].n \in 0..1
    BY <1>2, <1>6, <2>2 DEF EndInv, DataWhole, DataDirs
  <2>6. u.gen # "never" BY <1>1 DEF EndInv, DataWhole
  <2> HIDE DEF u
  <2>7. u' = u BY <1>1 DEF u
  <2>8. \A j \in DOMAIN wk' :
          /\ wk'[j].st \in {"kern", "gen", "genCase"} => inv.units[j].gen # "never"
          /\ wk'[j].st = "genCase" => j = i
          /\ wk'[j].st \notin {"clean", "build", "sim"}
    BY <1>3, <2>1, <2>6 DEF u
  <2>9. DataWhole'
    <3>1. pc' = "pool" /\ inv' = inv /\ inv.pre = NoFile BY <1>1, <1>2, <1>6
    <3>2. \A j \in DOMAIN wk' :
          wk'[j].st = "genCase" => Upto(inv.units[j].dir, inv.units[j].size, genAt)'
      BY <2>4, <2>7, <2>8, <3>1 DEF u
    <3> QED BY <2>5, <2>8, <3>1, <3>2 DEF DataWhole
  <2>10. AllPassed' BY <1>1, <1>6, <2>1, StillPassed DEF EndInv
  <2> QED BY <2>3, <2>9, <2>10 DEF EndInv
<1>7. CASE wk[i].st = "gen"
  <2>1. GenOpen(u, StepTo(i, "genCase"), Abort /\ UNCHANGED wk) BY <1>7 DEF Gen
  <2>2. CASE UNCHANGED <<man, genAt>> /\ Abort /\ UNCHANGED wk BY <1>4, <2>2
  <2>3. CASE /\ man' = [man EXCEPT ![u.dir] = <<[by |-> exec, size |-> u.size, n |-> 0,
                                             kdir |-> u.kdir, imgs |-> img[u.kdir]]>>]
             /\ genAt' = 0 /\ StepTo(i, "genCase")
    <3> DEFINE m == [by |-> exec, size |-> u.size, n |-> 0, kdir |-> u.kdir, imgs |-> img[u.kdir]]
    <3>1. DOMAIN m = ManFields /\ m.size = u.size /\ m.n = genAt' BY <2>3 DEF ManFields
    <3>2. man' = [man EXCEPT ![u.dir] = <<m>>] BY <2>3
    <3>3. wk' = [wk EXCEPT ![i].st = "genCase"] /\ UNCHANGED <<pc, status>> /\ genAt' = 0
      BY <2>3 DEF StepTo
    <3>4. wk' = wk => wk[i].st = "genCase" BY <1>0, <3>3 DEF Shape
    <3>5. \E k : /\ man' = [man EXCEPT ![u.dir] = <<k>>] /\ DOMAIN k = ManFields
                 /\ k.size = u.size /\ k.n = genAt'
      BY <3>1, <3>2
    <3>6. genAt' \in Nat /\ (u.size = "w8" => genAt' \in 0..1) BY <3>3
    <3>7. wk' \in {wk, [wk EXCEPT ![i].st = "genCase"]} BY <3>3
    <3> HIDE DEF u, m
    <3> QED BY <1>6, <3>3, <3>4, <3>5, <3>6, <3>7
  <2> QED BY <2>1, <2>2, <2>3 DEF GenOpen
<1>8. CASE wk[i].st = "genCase"
  <2>1. CASE /\ genAt < Len(Suite[u.size]) /\ genAt' = genAt + 1 /\ UNCHANGED <<pc, wk, status>>
             /\ man' = [man EXCEPT ![u.dir] = <<[@[1] EXCEPT !.n = genAt + 1]>>]
    <3>1. genAt \in Nat /\ genAt' \in Nat BY <2>1 DEF EndInv, Steady
    <3>2. ASSUME u.size = "w8" PROVE genAt' \in 0..1
      <4>1. genAt < 1 /\ genAt' = genAt + 1 BY <2>1, <3>2, SuiteAssumption
      <4> QED BY <3>1, <4>1
    <3>3. Upto(u.dir, u.size, genAt) BY <1>1, <1>8 DEF EndInv, DataWhole
    <3>4. DOMAIN man[u.dir][1] = ManFields BY <1>2, <3>3 DEF EndInv, Steady, Upto
    <3>5. man' = [man EXCEPT ![u.dir] = <<[man[u.dir][1] EXCEPT !.n = genAt + 1]>>]
      BY <1>2, <2>1
    <3>6. /\ DOMAIN [man[u.dir][1] EXCEPT !.n = genAt + 1] = ManFields
          /\ [man[u.dir][1] EXCEPT !.n = genAt + 1].size = u.size
          /\ [man[u.dir][1] EXCEPT !.n = genAt + 1].n = genAt'
      BY <2>1, <3>3, <3>4 DEF Upto, ManFields
    <3> QED BY <1>6, <1>8, <2>1, <3>1, <3>2, <3>5, <3>6
  <2>2. CASE UNCHANGED <<man, genAt, wk>> /\ Abort BY <1>4, <2>2
  <2>3. CASE genAt = Len(Suite[u.size]) /\ UNCHANGED <<man, genAt>> /\ StepTo(i, "clean")
    BY <1>5, <1>8, <2>3 DEF StepTo
  <2> QED BY <1>8, <2>1, <2>2, <2>3 DEF Gen, GenCase
<1> QED BY <1>1, <1>7, <1>8

(* A step of worker i that keeps the manifests, and the logs of the others *)
(* and of those it has verified.                                           *)
LEMMA WorkerEnd ==
  ASSUME NEW i \in DOMAIN wk, FlowInv, EndInv, pc = "pool",
         UNCHANGED <<inv, exec, genAt, man>>, pc' \in {"pool", "merge"}, status' = status,
         DOMAIN wk' = DOMAIN wk, i \in Running, wk'[i].st \notin {"kern", "gen", "genCase"},
         wk'[i].st \in {"clean", "build", "sim"} => wk[i].st \in {"clean", "build", "sim"},
         \A j \in DOMAIN wk : j # i => wk'[j] = wk[j],
         \A t \in Tests : t # inv.units[i].test => wd'[t] = wd[t],
         Passed(i)'
  PROVE  EndInv'
<1>0. Shape BY DEF FlowInv
<1>1. Steady' BY DEF EndInv, Steady, Running
<1>2. DataWhole' BY DEF EndInv, DataWhole, WholeMan, Upto
<1>3. ASSUME NEW j \in DOMAIN wk, j # i PROVE Passed(j)'
  <2>1. inv.units[j].test \in Tests /\ inv.units[j].test # inv.units[i].test BY <1>0, <1>3, UnitFacts
  <2>2. wd'[inv.units[j].test] = wd[inv.units[j].test] /\ wk'[j] = wk[j] BY <1>3, <2>1
  <2>3. Passed(j) BY DEF EndInv, AllPassed
  <2> QED BY <2>2, <2>3 DEF Passed, Verified
<1>4. AllPassed' BY <1>3 DEF AllPassed
<1> QED BY <1>1, <1>2, <1>4 DEF EndInv

(* run_test empties a directory whose unit has not passed yet.             *)
LEMMA CleanEnd == ASSUME NEW i \in DOMAIN wk, FlowInv, EndInv, Clean(i) PROVE EndInv'
<1>0. Shape BY DEF FlowInv
<1>1. /\ UNCHANGED <<inv, exec, genAt, man, pc, status>> /\ pc = "pool" /\ wk[i].st = "clean"
      /\ DOMAIN wk' = DOMAIN wk /\ wk'[i].st \in {"build", "raised"} /\ wk'[i].ok = wk[i].ok
      /\ \A j \in DOMAIN wk : j # i => wk'[j] = wk[j]
      /\ \A t \in Tests : t # inv.units[i].test => wd'[t] = wd[t]
  BY <1>0 DEF Clean, StepTo, Shape
<1>2. i \in Running BY <1>1 DEF Running
<1>3. ~wk[i].ok BY <1>1 DEF EndInv, AllPassed, Passed
<1>4. Passed(i)' BY <1>1, <1>3 DEF Passed
<1> QED BY <1>1, <1>2, <1>4, WorkerEnd

(* xvlog, xsc and xelab touch no log.                                      *)
LEMMA BuildEnd == ASSUME NEW i \in DOMAIN wk, FlowInv, EndInv, Build(i) PROVE EndInv'
<1>0. Shape BY DEF FlowInv
<1>1. /\ UNCHANGED <<inv, exec, genAt, man, wd, pc, status>> /\ pc = "pool" /\ wk[i].st = "build"
      /\ DOMAIN wk' = DOMAIN wk /\ wk'[i].st \in {"sim", "failed"} /\ wk'[i].ok = wk[i].ok
      /\ \A j \in DOMAIN wk : j # i => wk'[j] = wk[j]
  BY <1>0 DEF Build, StepTo, Shape, files
<1>2. i \in Running BY <1>1 DEF Running
<1>3. ~wk[i].ok BY <1>1 DEF EndInv, AllPassed, Passed
<1>4. Passed(i)' BY <1>1, <1>3 DEF Passed
<1> QED BY <1>1, <1>2, <1>4, WorkerEnd

(* The launches a unit must check are those of its suite: its manifest is  *)
(* whole, or, for prepare's, whole or empty.                               *)
LEMMA PromiseWhole ==
  ASSUME NEW i \in DOMAIN wk, FlowInv, EndInv, pc = "pool", wk[i].st = "sim",
         inv.script # "xsim" \/ inv.units[i].gen = "missing",
         Promised(inv.units[i]) # {}
  PROVE  Promised(inv.units[i]) = Launches(Suite[inv.units[i].size], Len(Suite[inv.units[i].size]))
<1> DEFINE u == inv.units[i]
<1>0. Shape BY DEF FlowInv
<1>1. inv.script \in Sweeps \cup {"amo", "xsim"}
  BY <1>0 DEF Shape, CommandLine, Scripts, Sweeps
<1>2. CASE inv.script = "amo"
  <2>1. u.dir = "none" /\ u.size = "sync" BY <1>0, <1>2, UnitFacts
  <2> QED BY <2>1 DEF Promised
<1>3. CASE u.gen = "missing"
  <2>1. u.size = "w8" /\ u.dir = "build_apps_w8" BY <1>0, <1>3, UnitFacts
  <2>2. man[u.dir] # NoFile BY <1>3 DEF EndInv, DataWhole
  <2>3. man[u.dir][1].size = "w8" /\ man[u.dir][1].n \in 0..1 BY <2>1, <2>2 DEF EndInv, DataWhole
  <2>4. Promised(u) = Launches(Suite["w8"], man[u.dir][1].n)
    BY <2>1, <2>2, <2>3 DEF Promised
  <2>5. Launches(Suite["w8"], 0) = {} BY DEF Launches
  <2>6. man[u.dir][1].n = 1 BY <2>3, <2>4, <2>5
  <2> QED BY <2>1, <2>4, <2>6, SuiteAssumption
<1>4. CASE inv.script \in Sweeps
  <2>1. u.dir # "none" /\ WholeMan(u)
    <3>1. CASE u.gen = "always"
      <4>1. u.dir \in DataDirs BY <1>0, <3>1, UnitFacts
      <4>2. WholeMan(u) BY <3>1 DEF EndInv, DataWhole
      <4> QED BY <4>1, <4>2 DEF DataDirs
    <3>2. CASE inv.pre # NoFile /\ inv.pre[1].dir = u.dir /\ inv.pre[1].size = u.size
      <4>1. u.dir \in DataDirs BY <1>0, <3>2, PreFacts
      <4>2. WholeMan(inv.pre[1]) BY <3>2 DEF EndInv, DataWhole
      <4> QED BY <3>2, <4>1, <4>2 DEF DataDirs, WholeMan
    <3> QED BY <1>0, <1>4, <3>1, <3>2, UnitFacts
  <2> QED BY <2>1 DEF Promised, WholeMan, Upto
<1> QED BY <1>1, <1>2, <1>3, <1>4

(* The simulator prints PASS after every launch the manifest promises.     *)
LEMMA SimEnd == ASSUME NEW i \in DOMAIN wk, FlowInv, EndInv, Sim(i) PROVE EndInv'
<1> DEFINE u == inv.units[i]
<1>0. Shape BY DEF FlowInv
<1>1. /\ UNCHANGED <<inv, exec, genAt, man, pc, status>> /\ pc = "pool" /\ wk[i].st = "sim"
      /\ DOMAIN wk' = DOMAIN wk /\ wk'[i].st = "read" /\ wk'[i].ok = wk[i].ok
      /\ \A j \in DOMAIN wk : j # i => wk'[j] = wk[j]
  BY <1>0 DEF Sim, StepTo, Shape
<1>2. \A t \in Tests : t # u.test => wd'[t] = wd[t] BY <1>0 DEF Sim, Shape
<1>3. i \in Running BY <1>1 DEF Running
<1>4. ~wk[i].ok BY <1>1 DEF EndInv, AllPassed, Passed
<1>5. ASSUME wd'[u.test][1].end = "PASS"
      PROVE  /\ wd'[u.test] # NoFile
             /\ \A r \in wd'[u.test][1].rows : r.sim = exec
             /\ LaunchesOf(wd'[u.test][1].rows) = Promised(u) /\ Promised(u) # {}
  <2> DEFINE Row(p) == [grp |-> u.grp, case |-> p[1], launch |-> p[2], sim |-> exec,
                        man |-> IF Ready(u) /\ u.dir # "none" THEN man[u.dir][1].by ELSE 0]
  <2>1. u.test \in DOMAIN wd BY <1>0, UnitFacts DEF Shape
  <2>2. PICK part, verdict :
          /\ verdict = "PASS" => part = Promised(u) /\ Promised(u) # {}
          /\ wd' = [wd EXCEPT ![u.test] = <<[rows |-> {Row(p) : p \in part}, end |-> verdict]>>]
    BY DEF Sim
  <2>3. wd'[u.test] = <<[rows |-> {Row(p) : p \in part}, end |-> verdict]>> BY <2>1, <2>2
  <2>4. verdict = "PASS" BY <1>5, <2>3
  <2>5. wd'[u.test][1].rows = {Row(p) : p \in Promised(u)}
    <3>1. part = Promised(u) BY <2>2, <2>4
    <3> HIDE DEF Row
    <3>2. wd'[u.test][1].rows = {Row(p) : p \in part} BY <2>3
    <3> QED BY <3>1, <3>2
  <2>6. \A p \in Promised(u) : p = <<p[1], p[2]>>
    <3>1. ASSUME NEW cases, NEW n, NEW p \in Launches(cases, n) PROVE p = <<p[1], p[2]>>
      BY <3>1 DEF Launches
    <3> QED BY <3>1 DEF Promised
  <2>7. LaunchesOf({Row(p) : p \in Promised(u)}) = Promised(u)
    <3> DEFINE P == Promised(u)
    <3>1. \A p \in P : <<Row(p).case, Row(p).launch>> = p BY <2>6
    <3> HIDE DEF P, Row
    <3> QED BY <3>1 DEF LaunchesOf, P
  <2>8. wd'[u.test] # NoFile BY <2>3 DEF NoFile
  <2>9. \A p \in Promised(u) : Row(p).sim = exec OBVIOUS
  <2> HIDE DEF Row
  <2> QED BY <2>2, <2>4, <2>5, <2>7, <2>8, <2>9
<1>6. wd'[u.test][1].end = "PASS" => Verified(i)'
  <2> HIDE DEF u
  <2>1. u' = u BY <1>1 DEF u
  <2>2. wd'[u.test][1].end = "PASS" /\ (inv.script # "xsim" \/ u.gen = "missing")
          => Promised(u) = Launches(Suite[u.size], Len(Suite[u.size]))
    BY <1>1, <1>5, PromiseWhole DEF u
  <2> QED BY <1>1, <1>5, <2>1, <2>2 DEF Verified, u
<1>7. Passed(i)' BY <1>1, <1>4, <1>6 DEF Passed
<1> QED BY <1>1, <1>2, <1>3, <1>7, WorkerEnd

(* one() takes PASS from the log the simulation left, and from no other.   *)
LEMMA CollectEnd == ASSUME NEW i \in DOMAIN wk, FlowInv, EndInv, Collect(i) PROVE EndInv'
<1> DEFINE log == wd[inv.units[i].test]
<1>0. Shape BY DEF FlowInv
<1>1. /\ UNCHANGED <<inv, exec, genAt, man, wd, status>> /\ pc = "pool" /\ wk[i].st \in {"read", "failed"}
      /\ DOMAIN wk' = DOMAIN wk /\ wk'[i].st = "done"
      /\ wk'[i].ok <=> (wk[i].st = "read" /\ log # NoFile /\ log[1].end = "PASS")
      /\ \A j \in DOMAIN wk : j # i => wk'[j] = wk[j]
      /\ pc' \in {"pool", "merge"}
  BY <1>0 DEF Collect, files, Shape
<1>2. i \in Running BY <1>1 DEF Running
<1>3. Passed(i) BY DEF EndInv, AllPassed
<1>4. wk'[i].ok => Verified(i) BY <1>1, <1>3 DEF Passed
<1>5. Verified(i) => Verified(i)' BY <1>1 DEF Verified
<1>6. Passed(i)' BY <1>1, <1>4, <1>5 DEF Passed
<1> QED BY <1>1, <1>2, <1>6, WorkerEnd

(* A merge changes no log and no verdict.                                  *)
LEMMA MergeWriteEnd == ASSUME FlowInv, EndInv, MergeWrite PROVE EndInv'
<1>0. Shape BY DEF FlowInv
<1>1. /\ UNCHANGED <<inv, exec, genAt, man, wd, status>> /\ pc = "mergeWrite" /\ pc' \in {"pool", "exit"}
      /\ DOMAIN wk' = DOMAIN wk
      /\ \A i \in DOMAIN wk : /\ wk'[i].ok = wk[i].ok
                              /\ wk[i].st # "done" => wk'[i].st = wk[i].st
                              /\ wk[i].st = "done" => wk'[i].st = "merged"
  BY <1>0 DEF MergeWrite, Shape
<1>2. Steady' BY <1>1 DEF EndInv, Steady, Running
<1>3. DataWhole' BY <1>1 DEF EndInv, DataWhole, WholeMan, Upto
<1>4. AllPassed' BY <1>1 DEF EndInv, AllPassed, Passed, Verified
<1> QED BY <1>2, <1>3, <1>4 DEF EndInv

(* A kill cuts the open manifest short; the logs stay.                     *)
LEMMA KillEnd == ASSUME FlowInv, EndInv, Kill PROVE EndInv'
<1>0. Shape BY DEF FlowInv
<1>1. /\ UNCHANGED <<inv, exec, wk, genAt, wd>> /\ pc # "idle" /\ pc' = "idle" /\ status' = "killed"
      /\ DOMAIN man = DataDirs
  BY <1>0 DEF Kill, Shape
<1>2. \/ man' = man
      \/ \E d \in DataDirs : \E n \in 0..genAt :
           /\ man' = [man EXCEPT ![d] = <<[man[d][1] EXCEPT !.n = n]>>]
           /\ man[d] # NoFile /\ man[d][1].n = genAt
  <2>1. CASE pc = "preCase"
    <3>1. inv.pre[1].dir \in DataDirs BY <1>0, <2>1, PreFacts DEF Shape
    <3>2. Upto(inv.pre[1].dir, inv.pre[1].size, genAt) BY <2>1 DEF EndInv, DataWhole
    <3>3. inv.pre[1].dir # "none" BY <3>1 DEF DataDirs
    <3>4. \E n \in 0..genAt :
            man' = [man EXCEPT ![inv.pre[1].dir] = <<[man[inv.pre[1].dir][1] EXCEPT !.n = n]>>]
      BY <1>1, <2>1, <3>1, <3>3 DEF Kill
    <3> QED BY <3>1, <3>2, <3>4 DEF Upto
  <2>2. CASE pc # "preCase"
    <3> DEFINE open == {i \in DOMAIN wk : wk[i].st = "genCase"}
               c == CHOOSE i \in open : TRUE
               d == inv.units[c].dir
    <3>1. CASE open = {} BY <2>2, <3>1 DEF Kill
    <3>2. CASE open # {}
      <4>1. c \in DOMAIN wk /\ wk[c].st = "genCase" BY <3>2
      <4> HIDE DEF c
      <4>2. inv.units[c].gen # "never" BY <1>1, <4>1 DEF EndInv, DataWhole
      <4>3. d \in DataDirs BY <1>0, <4>1, <4>2, UnitFacts
      <4>4. Upto(d, inv.units[c].size, genAt) BY <1>1, <4>1 DEF EndInv, DataWhole
      <4>5. d # "none" BY <4>3 DEF DataDirs
      <4> HIDE DEF open
      <4>6. man' \in IF d = "none" THEN {man}
                     ELSE {[man EXCEPT ![d] = <<[@[1] EXCEPT !.n = n]>>] : n \in 0..genAt}
        BY <2>2, <3>2 DEF Kill, open, c
      <4>7. \E n \in 0..genAt : man' = [man EXCEPT ![d] = <<[man[d][1] EXCEPT !.n = n]>>]
        BY <1>1, <4>3, <4>5, <4>6
      <4> QED BY <4>3, <4>4, <4>7 DEF Upto
    <3> QED BY <3>1, <3>2
  <2> QED BY <2>1, <2>2
<1>3. CASE man' = man BY <1>1, <1>3, QuietEnd
<1>4. ASSUME NEW d \in DataDirs, NEW n \in 0..genAt,
             man' = [man EXCEPT ![d] = <<[man[d][1] EXCEPT !.n = n]>>],
             man[d] # NoFile, man[d][1].n = genAt
      PROVE  EndInv'
  <2>1. genAt \in Nat /\ DOMAIN man[d][1] = ManFields BY <1>4 DEF EndInv, Steady
  <2>2. /\ man'[d] = <<[man[d][1] EXCEPT !.n = n]>>
        /\ \A e \in DataDirs : e # d => man'[e] = man[e]
    BY <1>1, <1>4
  <2>3. /\ man'[d] = <<man'[d][1]>> /\ DOMAIN man'[d][1] = ManFields /\ man'[d] # NoFile
        /\ man'[d][1].size = man[d][1].size /\ man'[d][1].n = n
    BY <2>1, <2>2 DEF ManFields, NoFile
  <2>4. Steady' BY <1>1, <2>2, <2>3 DEF EndInv, Steady, Running
  <2>5. d = "build_apps_w8" => n \in 0..1 BY <1>4, <2>1 DEF EndInv, DataWhole
  <2>6. man["build_apps_w8"]' # NoFile =>
          man["build_apps_w8"]'[1].size = "w8" /\ man["build_apps_w8"]'[1].n \in 0..1
    BY <1>4, <2>2, <2>3, <2>5 DEF EndInv, DataWhole, DataDirs
  <2>7. DataWhole'
    BY <1>1, <2>6 DEF EndInv, DataWhole
  <2>8. AllPassed' BY <1>1 DEF EndInv, AllPassed, Passed, Verified
  <2> QED BY <2>4, <2>7, <2>8 DEF EndInv
<1> QED BY <1>2, <1>3, <1>4

(* A step of any script keeps what is verified.                            *)
LEMMA NextEnd == ASSUME FlowInv, CompareNow, EndInv, [Next]_vars PROVE EndInv'
<1>1. CASE \E i \in DOMAIN wk :
             Begin(i) \/ Kern(i) \/ Gen(i) \/ Clean(i) \/ Build(i) \/ Sim(i) \/ Collect(i)
  BY <1>1, BeginEnd, KernEnd, GenEnd, CleanEnd, BuildEnd, SimEnd, CollectEnd
<1>2. CASE Start \/ PreGen \/ MergeWrite \/ Kill
  BY <1>2, StartEnd, PreGenEnd, MergeWriteEnd, KillEnd
<1>3. CASE \E k \in Range(Kernels) : EditKernel(k)
  <2>1. UNCHANGED <<inv, pc, exec, wk, genAt, man, wd, status>> BY <1>3 DEF EditKernel
  <2>2. DOMAIN wk = DOMAIN inv.units BY DEF FlowInv, Shape
  <2> QED BY <2>1, QuietEnd DEF EndInv, AllPassed
<1>4. CASE KernelBuild
  <2>1. UNCHANGED <<inv, exec, wk, genAt, man, wd>> /\ pc = "kbuild" /\ pc' = "idle"
    BY <1>4 DEF KernelBuild, Abort
  <2>2. inv.script = "kbuild" BY <2>1 DEF CompareNow
  <2> QED BY <2>1, <2>2, QuietEnd
<1>5. CASE PoolDone
  <2>1. UNCHANGED <<inv, exec, wk, genAt, man, wd>> /\ pc = "pool" /\ pc' \in {"idle", "exit", "merge"}
        /\ (pc' = "idle" => status' = "failed")
    BY <1>5 DEF PoolDone, Abort, files
  <2> QED BY <2>1, QuietEnd
<1>6. CASE MergeOpen
  <2>1. UNCHANGED <<inv, exec, wk, genAt, man, wd>> /\ pc = "merge" /\ pc' = "mergeWrite"
    BY <1>6 DEF MergeOpen
  <2> QED BY <2>1, QuietEnd
<1>7. CASE Exit
  <2>1. UNCHANGED <<inv, exec, wk, genAt, man, wd>> /\ pc = "exit" /\ pc' = "idle"
        /\ (status' = "0" => \A i \in DOMAIN wk : wk[i].ok)
    BY <1>7 DEF Exit, files
  <2>2. status' = "0" => \A i \in DOMAIN wk : Verified(i)
    BY <2>1 DEF EndInv, AllPassed, Passed
  <2> QED BY <2>1, <2>2, QuietEnd
<1>8. CASE Compare
  <2>1. UNCHANGED <<inv, exec, wk, genAt, man, wd>> /\ pc = "compare" /\ pc' \in {"idle", "compareWrite"}
    BY <1>8 DEF Compare, Abort
  <2>2. inv.script = "compare" BY <2>1 DEF CompareNow
  <2> QED BY <2>1, <2>2, QuietEnd
<1>9. CASE CompareWrite
  <2>1. UNCHANGED <<inv, exec, wk, genAt, man, wd>> /\ pc = "compareWrite" /\ pc' = "idle"
    BY <1>9 DEF CompareWrite
  <2>2. inv.script = "compare" BY <2>1 DEF CompareNow
  <2> QED BY <2>1, <2>2, QuietEnd
<1>10. CASE UNCHANGED vars
  <2>1. UNCHANGED <<inv, pc, exec, wk, genAt, man, wd, status>> BY <1>10 DEF vars
  <2> QED BY <2>1, QuietEnd DEF EndInv, AllPassed
<1> QED BY <1>1, <1>2, <1>3, <1>4, <1>5, <1>6, <1>7, <1>8, <1>9, <1>10 DEF Next

(* A script that exits with 0 simulated every unit itself and checked all  *)
(* of its launches, after any failures and kills before: run_xsim.py and   *)
(* the sweeps.  prepare's test relies on its suite being one case.         *)
THEOREM CompletePass == Spec => []PassIsComplete
<1>1. Init => FlowInv /\ CompareNow /\ EndInv BY InitFlow, InitCompare, InitEnd
<1>2. FlowInv /\ CompareNow /\ EndInv /\ [Next]_vars => FlowInv' /\ CompareNow' /\ EndInv'
  BY NextFlow, NextCompare, NextEnd
<1>3. FlowInv /\ EndInv => PassIsComplete
  <2> SUFFICES ASSUME FlowInv, EndInv, pc = "idle", status = "0",
                      inv.script \notin {"compare", "kbuild"}, NEW i \in DOMAIN inv.units
               PROVE  Verified(i)
    BY DEF PassIsComplete, Verified, LaunchesOf
  <2> QED BY DEF EndInv, AllPassed, FlowInv, Shape
<1> QED BY <1>1, <1>2, <1>3, PTL DEF Spec
=============================================================================
