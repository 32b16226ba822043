----------------------------- MODULE Dispatcher -----------------------------
(***************************************************************************)
(* The launch handshake: the command registers of mmio_regs.sv, the        *)
(* dispatcher of simt_accel.sv, and the three poll loops that wait for a   *)
(* grid.  One step is one clock; the host makes at most one bus access in  *)
(* it, and what it reads is the register of that clock.  The pool is the   *)
(* time its grid takes (WarpPool models how it gets there).                *)
(***************************************************************************)
EXTENDS Naturals

CONSTANTS
  Hosts,          \* "ps" sw/ps_host, "driver" mnist_driver.S, "readme" README.md
  Sizes,          \* grid sizes the hosts launch; the drivers launch no empty grid
  MaxRun,         \* bound: longest grid, in cycles
  MaxGap,         \* bound: longest pause of the host between two accesses
  MaxLaunches     \* bound: grids the host launches

(* Mutant: the done pulse comes without its register stage.                *)
MinRun_early == 4
(* The shortest grid: spawn, fetch, ecall in X, nothing busy, done.        *)
MinRun == 5

ASSUME HostAssumption  == Hosts \subseteq {"ps", "driver", "readme"}
ASSUME SizeAssumption  == Sizes \subseteq Nat /\ Sizes \ {0} # {}
ASSUME BoundAssumption == /\ MaxRun \in Nat /\ MaxRun >= MinRun
                          /\ MaxGap \in Nat \ {0} /\ MaxLaunches \in Nat \ {0}

VARIABLES
  host,                        \* which of the hosts it is
  go_pulse, n_threads,         \* mmio_regs
  dstate, cyc_count, cycles,   \* dispatcher
  pool,                        \* cycles until the pool's done pulse is over
  phase, gap,                  \* the host's place in its loop, clocks to its next access
  launched, finished, took     \* history: grids asked for and completed, cycles of the last

regs == <<go_pulse, n_threads>>
disp == <<dstate, cyc_count, cycles>>
vars == <<host, go_pulse, n_threads, dstate, cyc_count, cycles, pool, phase, gap,
          launched, finished, took>>

-----------------------------------------------------------------------------
(* Status register and the pool's handshake.                               *)
busy       == dstate \in {"D_LAUNCH", "D_RUN"}
done       == dstate = "D_DONE"
pool_start == dstate = "D_LAUNCH"
pool_done  == pool = 1

(* Mutant: GO is accepted in D_IDLE only, never after a first grid.        *)
Accept_idle_only ==
  IF dstate = "D_IDLE"
  THEN /\ go_pulse
       /\ cyc_count' = 0
       /\ dstate' = IF n_threads = 0 THEN "D_DONE" ELSE "D_LAUNCH"
       /\ UNCHANGED cycles
  ELSE dstate = "D_DONE" /\ go_pulse /\ UNCHANGED disp
(* Mutant: the counter runs on from the last grid.                         *)
Accept_keep_count ==
  /\ dstate \in {"D_IDLE", "D_DONE"} /\ go_pulse
  /\ dstate' = IF n_threads = 0 THEN "D_DONE" ELSE "D_LAUNCH"
  /\ UNCHANGED <<cyc_count, cycles>>

(* The dispatcher's states.                                                *)
Accept ==
  /\ dstate \in {"D_IDLE", "D_DONE"} /\ go_pulse
  /\ cyc_count' = 0
  /\ dstate' = IF n_threads = 0 THEN "D_DONE" ELSE "D_LAUNCH"
  /\ UNCHANGED cycles
(* Mutant: the counter never stops.                                        *)
Rest_counts ==
  /\ dstate \in {"D_IDLE", "D_DONE"} /\ ~go_pulse
  /\ cyc_count' = cyc_count + 1 /\ UNCHANGED <<dstate, cycles>>
Rest ==
  dstate \in {"D_IDLE", "D_DONE"} /\ ~go_pulse /\ UNCHANGED disp
Launch ==
  /\ dstate = "D_LAUNCH"
  /\ cyc_count' = cyc_count + 1 /\ dstate' = "D_RUN"
  /\ UNCHANGED cycles
Run ==
  /\ dstate = "D_RUN"
  /\ cyc_count' = cyc_count + 1
  /\ cycles' = IF pool_done THEN cyc_count + 1 ELSE cycles
  /\ dstate' = IF pool_done THEN "D_DONE" ELSE "D_RUN"
dispatch == Accept \/ Rest \/ Launch \/ Run

(* The warp pool: a start takes MinRun..MaxRun cycles to its done pulse.   *)
warp_pool ==
  /\ pool' \in IF pool_start THEN MinRun .. MaxRun
               ELSE {IF pool = 0 THEN 0 ELSE pool - 1}
  /\ took' = IF pool_start THEN pool' + 1 ELSE took
  /\ finished' = IF pool_done THEN finished + 1 ELSE finished

Engine == dispatch /\ warp_pool /\ UNCHANGED host

-----------------------------------------------------------------------------
(* Mutant: the host does not wait for the response of its write.           *)
AnyGap_posted == 0 .. MaxGap

(* Clocks between one bus access and the next.  The processing system      *)
(* waits for the AXI-Lite response of one access before it starts another. *)
(* The pipelined host puts consecutive instructions one clock apart; its   *)
(* loop lw, andi, beq comes round in six, and falls through in four.       *)
AnyGap    == IF host = "ps" THEN 1 .. MaxGap ELSE 0 .. MaxGap
AfterGo   == IF host = "ps" THEN AnyGap ELSE {0}
PollAgain == IF host = "ps" THEN AnyGap ELSE {5}
FallThru  == IF host = "ps" THEN AnyGap ELSE {3}

NoWrite == go_pulse' = FALSE /\ UNCHANGED n_threads

(* A clock in which the host is between two accesses.                      *)
Pause ==
  /\ gap > 0 /\ gap' = gap - 1
  /\ NoWrite
  /\ Engine
  /\ UNCHANGED <<phase, launched>>

(* The host writes N.                                                      *)
WriteN ==
  /\ gap = 0 /\ phase = "setup"
  /\ n_threads' \in (IF host = "ps" THEN Sizes ELSE Sizes \ {0}) /\ go_pulse' = FALSE
  /\ phase' = "go" /\ gap' \in AnyGap
  /\ Engine
  /\ UNCHANGED launched

(* The host writes GO to CTRL.                                             *)
WriteGo ==
  /\ gap = 0 /\ phase = "go"
  /\ go_pulse' = TRUE /\ UNCHANGED n_threads
  /\ phase' = (IF host = "driver" THEN "busy" ELSE "done") /\ gap' \in AfterGo
  /\ launched' = IF n_threads = 0 THEN launched ELSE launched + 1
  /\ Engine

(* The first loop of the driver: read STATUS until BUSY.                   *)
PollBusy ==
  /\ gap = 0 /\ phase = "busy"
  /\ phase' = (IF busy THEN "done" ELSE "busy")
  /\ gap' \in IF busy THEN FallThru ELSE PollAgain
  /\ NoWrite
  /\ Engine
  /\ UNCHANGED launched

(* Read STATUS until DONE.                                                 *)
PollDone ==
  /\ gap = 0 /\ phase = "done"
  /\ phase' = (IF done THEN "results" ELSE "done")
  /\ gap' \in IF done THEN FallThru ELSE PollAgain
  /\ NoWrite
  /\ Engine
  /\ UNCHANGED launched

(* Read CYCLES and the results, then set up the next grid or halt.         *)
Results ==
  /\ gap = 0 /\ phase = "results"
  /\ phase' \in IF launched < MaxLaunches THEN {"setup", "halt"} ELSE {"halt"}
  /\ gap' \in AnyGap
  /\ NoWrite
  /\ Engine
  /\ UNCHANGED launched

(* The host halts in a self-loop.                                          *)
Halt ==
  /\ gap = 0 /\ phase = "halt"
  /\ NoWrite
  /\ Engine
  /\ UNCHANGED <<phase, gap, launched>>

Init ==
  /\ host \in Hosts
  /\ go_pulse = FALSE /\ n_threads = 0
  /\ dstate = "D_IDLE" /\ cyc_count = 0 /\ cycles = 0
  /\ pool = 0
  /\ phase = "setup" /\ gap \in AnyGap
  /\ launched = 0 /\ finished = 0 /\ took = 0

Next == Pause \/ WriteN \/ WriteGo \/ PollBusy \/ PollDone \/ Results \/ Halt

(* The clock runs.                                                         *)
Spec == Init /\ [][Next]_vars /\ WF_vars(Next)

-----------------------------------------------------------------------------
(* Types; the counters stay inside the longest grid.                       *)
TypeOK ==
  /\ host \in Hosts
  /\ go_pulse \in BOOLEAN /\ n_threads \in Sizes \cup {0}
  /\ dstate \in {"D_IDLE", "D_LAUNCH", "D_RUN", "D_DONE"}
  /\ cyc_count \in 0 .. MaxRun + 1 /\ cycles \in 0 .. MaxRun + 1
  /\ pool \in 0 .. MaxRun /\ took \in 0 .. MaxRun + 1
  /\ phase \in {"setup", "go", "busy", "done", "results", "halt"}
  /\ gap \in 0 .. MaxGap \cup 0 .. 5
  /\ launched \in 0 .. MaxLaunches /\ finished \in 0 .. MaxLaunches

(* Every GO of a non-empty grid is either still on its way through         *)
(* go_pulse and the dispatcher, or has completed: none is dropped, doubled *)
(* or started over a grid that runs.                                       *)
Asked == go_pulse /\ n_threads # 0
OneGridPerGo == launched = finished + (IF busy \/ Asked THEN 1 ELSE 0)

(* A host that has left its poll loop reads the results of its own grid:   *)
(* every grid it launched has completed, although DONE stays set from one  *)
(* grid to the next.                                                       *)
ReadsOwnGrid == phase = "results" => launched = finished

(* CYCLES, when the host reads it, is the time of the last grid that ran.  *)
CyclesOwn == phase = "results" => cycles = took

(* The poll loops end: BUSY is up long enough to be seen, DONE stays.      *)
PollEnds == (phase = "go") ~> (phase = "results")

-----------------------------------------------------------------------------
(* What the invariants rest on.  The pool runs exactly while the           *)
(* dispatcher is in D_RUN, and the counter and the time left add up to the *)
(* time the grid takes.                                                    *)
PoolInStep ==
  /\ pool > 0 <=> dstate = "D_RUN"
  /\ dstate = "D_LAUNCH" => cyc_count = 0
  /\ IF dstate = "D_RUN" THEN cyc_count + pool = took ELSE cycles = took

(* Outside its poll loops the host has no grid on its way; in the second   *)
(* loop it cannot make an access in the clock of its own go_pulse, the one *)
(* clock in which DONE is stale; and it sets up a grid only within its     *)
(* bound.                                                                  *)
HostInStep ==
  /\ phase \in {"setup", "go", "results", "halt"} => ~go_pulse /\ ~busy
  /\ phase = "done" /\ go_pulse => gap > 0
  /\ go_pulse => ~busy
  /\ phase \in {"setup", "go"} => launched < MaxLaunches

(* The inductive invariant of DispatcherProofs.                            *)
LaunchInv == TypeOK /\ OneGridPerGo /\ PoolInStep /\ HostInStep
=============================================================================
