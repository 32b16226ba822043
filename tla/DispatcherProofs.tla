-------------------------- MODULE DispatcherProofs --------------------------
(***************************************************************************)
(* The launch handshake is safe for every grid size, grid time and host    *)
(* timing.  LaunchInv is inductive; the host of the README is excluded,    *)
(* because it does break ReadsOwnGrid.                                     *)
(***************************************************************************)
EXTENDS Dispatcher, TLAPS

(* One clock of the pool.                                                  *)
LEMMA PoolStep ==
  ASSUME Engine
  PROVE  /\ pool_start => pool' \in 1 .. MaxRun /\ took' = pool' + 1
         /\ ~pool_start /\ pool = 0 => pool' = 0 /\ took' = took
         /\ ~pool_start /\ pool # 0 => pool' = pool - 1 /\ took' = took
BY BoundAssumption DEF Engine, warp_pool, MinRun

(* One clock of dispatcher and pool, whatever the host does in it, keeps   *)
(* the types of their registers,                                           *)
LEMMA EngineTypes ==
  ASSUME LaunchInv, Engine
  PROVE  /\ host' = host
         /\ dstate' \in {"D_IDLE", "D_LAUNCH", "D_RUN", "D_DONE"}
         /\ cyc_count' \in 0 .. MaxRun + 1 /\ cycles' \in 0 .. MaxRun + 1
         /\ pool' \in 0 .. MaxRun /\ took' \in 0 .. MaxRun + 1
<1> USE BoundAssumption DEF LaunchInv, TypeOK, PoolInStep
<1>1. host' = host
  BY DEF Engine
<1>2. pool' \in 0 .. MaxRun /\ took' \in 0 .. MaxRun + 1
  BY PoolStep
<1>3. /\ dstate' \in {"D_IDLE", "D_LAUNCH", "D_RUN", "D_DONE"}
      /\ cyc_count' \in 0 .. MaxRun + 1 /\ cycles' \in 0 .. MaxRun + 1
  BY DEF Engine, dispatch, Accept, Rest, Launch, Run, disp
<1> QED BY <1>1, <1>2, <1>3

(* keeps the two in step,                                                  *)
LEMMA EngineInStep ==
  ASSUME LaunchInv, Engine
  PROVE  PoolInStep'
<1> USE BoundAssumption DEF LaunchInv, TypeOK, PoolInStep, pool_start, pool_done
<1>1. CASE Accept
  BY <1>1, PoolStep DEF Accept
<1>2. CASE Rest
  BY <1>2, PoolStep DEF Rest, disp
<1>3. CASE Launch
  BY <1>3, PoolStep DEF Launch
<1>4. CASE Run
  BY <1>4, PoolStep DEF Run
<1> QED BY <1>1, <1>2, <1>3, <1>4 DEF Engine, dispatch

(* and takes a grid that is asked for or running to running or finished.   *)
LEMMA EngineGrid ==
  ASSUME LaunchInv, Engine
  PROVE  /\ finished' = IF pool_done THEN finished + 1 ELSE finished
         /\ busy' <=> (busy /\ ~pool_done) \/ Asked
         /\ pool_done => busy
<1>1. finished' = IF pool_done THEN finished + 1 ELSE finished
  BY DEF Engine, warp_pool
<1>2. pool_done => busy
  BY DEF pool_done, busy, LaunchInv, PoolInStep
<1>3. go_pulse => ~busy
  BY DEF LaunchInv, HostInStep
<1>4. busy' <=> (busy /\ ~pool_done) \/ Asked
  BY <1>2, <1>3 DEF Engine, dispatch, Accept, Rest, Launch, Run, disp, busy, Asked,
     pool_done, LaunchInv, TypeOK, PoolInStep
<1> QED BY <1>1, <1>2, <1>4

LEMMA InitLaunchInv == Init => LaunchInv
<1> SUFFICES ASSUME Init PROVE LaunchInv
  OBVIOUS
<1> USE BoundAssumption DEF Init
<1>1. TypeOK
  <2>1. gap \in 0 .. MaxGap
    BY DEF AnyGap
  <2>2. 0 \in 0 .. MaxRun /\ 0 \in 0 .. MaxRun + 1 /\ 0 \in 0 .. MaxLaunches
    OBVIOUS
  <2> QED BY <2>1, <2>2 DEF TypeOK
<1>2. OneGridPerGo /\ HostInStep
  BY DEF OneGridPerGo, HostInStep, busy, Asked
<1>3. PoolInStep
  BY DEF PoolInStep
<1> QED BY <1>1, <1>2, <1>3 DEF LaunchInv

(* Every step of a host that is not the README's keeps the invariant.      *)
LEMMA NextLaunchInv ==
  ASSUME "readme" \notin Hosts, LaunchInv, [Next]_vars
  PROVE  LaunchInv'
<1> USE BoundAssumption, HostAssumption
<1>0. host \in {"ps", "driver"}
  BY DEF LaunchInv, TypeOK
<1>g. \A g \in AnyGap \cup FallThru \cup PollAgain \cup AfterGo : g \in 0 .. MaxGap \cup 0 .. 5
  BY <1>0 DEF AnyGap, FallThru, PollAgain, AfterGo
<1>1. CASE Pause
  <2> USE <1>1 DEF Pause, NoWrite
  <2>1. Engine
    OBVIOUS
  <2>a. gap' \in 0 .. MaxGap \cup 0 .. 5
    BY DEF LaunchInv, TypeOK
  <2>2. TypeOK'
    BY <2>1, <2>a, EngineTypes, EngineGrid DEF LaunchInv, TypeOK, OneGridPerGo, HostInStep
  <2>3. OneGridPerGo' /\ HostInStep'
    BY <2>1, EngineGrid DEF LaunchInv, TypeOK, OneGridPerGo, HostInStep, Asked
  <2> QED BY <2>1, <2>2, <2>3, EngineInStep DEF LaunchInv
<1>2. CASE WriteN
  <2> USE <1>2 DEF WriteN
  <2>1. Engine
    OBVIOUS
  <2>2. TypeOK'
    BY <2>1, <1>g, EngineTypes, EngineGrid DEF LaunchInv, TypeOK, OneGridPerGo, HostInStep
  <2>3. OneGridPerGo' /\ HostInStep'
    BY <2>1, EngineGrid DEF LaunchInv, TypeOK, OneGridPerGo, HostInStep, Asked
  <2> QED BY <2>1, <2>2, <2>3, EngineInStep DEF LaunchInv
<1>3. CASE WriteGo
  <2> USE <1>3 DEF WriteGo
  <2>1. Engine
    OBVIOUS
  <2>2. TypeOK'
    BY <2>1, <1>g, EngineTypes, EngineGrid DEF LaunchInv, TypeOK, OneGridPerGo, HostInStep
  <2>3. OneGridPerGo' /\ HostInStep'
    BY <2>1, EngineGrid DEF LaunchInv, TypeOK, OneGridPerGo, HostInStep, Asked, AfterGo, AnyGap
  <2> QED BY <2>1, <2>2, <2>3, EngineInStep DEF LaunchInv
<1>4. CASE PollBusy
  <2> USE <1>4 DEF PollBusy, NoWrite
  <2>1. Engine
    OBVIOUS
  <2>2. TypeOK'
    BY <2>1, <1>g, EngineTypes, EngineGrid DEF LaunchInv, TypeOK, OneGridPerGo, HostInStep
  <2>3. OneGridPerGo' /\ HostInStep'
    BY <2>1, EngineGrid DEF LaunchInv, TypeOK, OneGridPerGo, HostInStep, Asked
  <2> QED BY <2>1, <2>2, <2>3, EngineInStep DEF LaunchInv
<1>5. CASE PollDone
  <2> USE <1>5 DEF PollDone, NoWrite
  <2>1. Engine
    OBVIOUS
  <2>2. TypeOK'
    BY <2>1, <1>g, EngineTypes, EngineGrid DEF LaunchInv, TypeOK, OneGridPerGo, HostInStep
  <2>3. OneGridPerGo' /\ HostInStep'
    BY <2>1, EngineGrid DEF LaunchInv, TypeOK, OneGridPerGo, HostInStep, Asked, done, busy
  <2> QED BY <2>1, <2>2, <2>3, EngineInStep DEF LaunchInv
<1>6. CASE Results
  <2> USE <1>6 DEF Results, NoWrite
  <2>1. Engine
    OBVIOUS
  <2>2. TypeOK'
    BY <2>1, <1>g, EngineTypes, EngineGrid DEF LaunchInv, TypeOK, OneGridPerGo, HostInStep
  <2>3. OneGridPerGo' /\ HostInStep'
    BY <2>1, EngineGrid DEF LaunchInv, TypeOK, OneGridPerGo, HostInStep, Asked
  <2> QED BY <2>1, <2>2, <2>3, EngineInStep DEF LaunchInv
<1>7. CASE Halt
  <2> USE <1>7 DEF Halt, NoWrite
  <2>1. Engine
    OBVIOUS
  <2>2. TypeOK'
    BY <2>1, EngineTypes, EngineGrid DEF LaunchInv, TypeOK, OneGridPerGo, HostInStep
  <2>3. OneGridPerGo' /\ HostInStep'
    BY <2>1, EngineGrid DEF LaunchInv, TypeOK, OneGridPerGo, HostInStep, Asked
  <2> QED BY <2>1, <2>2, <2>3, EngineInStep DEF LaunchInv
<1>8. CASE UNCHANGED vars
  BY <1>8 DEF vars, LaunchInv, TypeOK, OneGridPerGo, HostInStep, PoolInStep, busy, Asked
<1> QED BY <1>1, <1>2, <1>3, <1>4, <1>5, <1>6, <1>7, <1>8 DEF Next

(* The inductive invariant holds in every behaviour.                       *)
THEOREM LaunchInvariant ==
  ASSUME "readme" \notin Hosts PROVE Spec => []LaunchInv
<1>1. Init => LaunchInv
  BY InitLaunchInv
<1>2. LaunchInv /\ [Next]_vars => LaunchInv'
  BY NextLaunchInv
<1> QED BY <1>1, <1>2, PTL DEF Spec

(* Every register of the launch path keeps a value of its width, the cycle *)
(* counter included: it never outruns the longest grid (simt_accel.sv).    *)
THEOREM LaunchTypes ==
  ASSUME "readme" \notin Hosts PROVE Spec => []TypeOK
<1>1. LaunchInv => TypeOK
  BY DEF LaunchInv
<1> QED BY <1>1, LaunchInvariant, PTL

(* No GO is lost, doubled or started over a running grid: the dispatcher's *)
(* four states and the two hosts keep launches and completions in step.    *)
THEOREM GridPerGo ==
  ASSUME "readme" \notin Hosts PROVE Spec => []OneGridPerGo
<1>1. LaunchInv => OneGridPerGo
  BY DEF LaunchInv
<1> QED BY <1>1, LaunchInvariant, PTL

(* Although D_DONE is held across launches, the hosts of ps_host and of    *)
(* mnist_driver.S never take an old DONE for their own.                    *)
THEOREM OwnGrid ==
  ASSUME "readme" \notin Hosts PROVE Spec => []ReadsOwnGrid
<1>1. LaunchInv => ReadsOwnGrid
  BY DEF LaunchInv, TypeOK, OneGridPerGo, HostInStep, ReadsOwnGrid, Asked
<1> QED BY <1>1, LaunchInvariant, PTL

(* The CYCLES register a host reads is the time of its last grid.          *)
THEOREM OwnCycles ==
  ASSUME "readme" \notin Hosts PROVE Spec => []CyclesOwn
<1>1. LaunchInv => CyclesOwn
  BY DEF LaunchInv, HostInStep, PoolInStep, CyclesOwn, busy
<1> QED BY <1>1, LaunchInvariant, PTL
=============================================================================
