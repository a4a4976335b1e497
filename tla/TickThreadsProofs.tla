------------------------- MODULE TickThreadsProofs -------------------------
(***************************************************************************)
(* mt_lab1_module.c for every number of processors: nothing of the module  *)
(* runs once it is gone, and no thread runs a pass that no tick asked for. *)
(***************************************************************************)
EXTENDS TickThreads, TLAPS

(* The timer runs only between hrtimer_start and hrtimer_cancel. *)
TimerInv ==
  module \in {"creating", "waking", "arming", "gone"} => timer = "off"

(* lab1_exit has been through the threads before i; a thread it has given
   up has returned. *)
StopInv ==
  /\ module \in {"stopping", "joining"} => \A c \in Cpu : c < i => tasks[c] = "reaped"
  /\ module = "joining" => i \in Cpu
  /\ module \in {"cancelling", "gone"} => \A c \in Cpu : tasks[c] = "reaped"
  /\ \A c \in Cpu : tasks[c] = "reaped" => pc[c] = "done"

(* lab1_init wakes threads that have not begun. *)
WakeInv ==
  /\ module = "creating" =>
       \A c \in Cpu : state[c] = "asleep" /\ pc[c] = IF c < i THEN "created" ELSE "unborn"
  /\ module = "waking" =>
       \A c \in Cpu : c >= i => state[c] = "asleep" /\ pc[c] = "created"

(* After set_current_state it takes a tick or a stop to make a thread run. *)
PassInv ==
  \A c \in Cpu :
    pc[c] = "check" \/ (pc[c] = "schedule" /\ state[c] = "running")
      => ticked[c] \/ should_stop[c]

Inv == TypeOK /\ TimerInv /\ StopInv /\ WakeInv /\ PassInv

USE DEF loader, threads, clock, Cpu

\* The invariant holds before the module is loaded.
LEMMA InitInv == Init => Inv
BY CPUSAssumption DEF Init, Inv, TypeOK, TimerInv, StopInv, WakeInv, PassInv

\* Every step keeps the types.
LEMMA TypeStep == Inv /\ [Next]_vars => TypeOK'
<1> SUFFICES ASSUME Inv, [Next]_vars PROVE TypeOK'
  OBVIOUS
<1> USE CPUSAssumption DEF TypeOK, wake_up_process, Inv
<1>1. CASE lab1_init
  BY SMTT(30), <1>1 DEF lab1_init, kthread_create, create_fails, all_created, wake_first, all_woken, hrtimer_start
<1>2. CASE lab1_exit \/ hrtimer_cancel
  BY <1>2 DEF lab1_exit, hrtimer_cancel
<1>3. CASE unload
  <2>1. CASE kthread_stop \/ all_stopped
    BY <2>1 DEF kthread_stop, all_stopped
  <2>2. CASE kthread_stopped
    BY <2>2 DEF kthread_stopped, StopInv
  <2> QED BY <1>3, <2>1, <2>2 DEF unload
<1>4. ASSUME NEW c \in Cpu, workingfn(c) PROVE TypeOK'
  <2>1. CASE start(c) \/ kthread_should_stop(c)
    BY <1>4, <2>1 DEF start, kthread_should_stop
  <2>2. CASE set_current_state(c) \/ schedule(c)
    BY <1>4, <2>2 DEF set_current_state, schedule
  <2> QED BY <1>4, <2>1, <2>2 DEF workingfn
<1>5. CASE tick
  <2>1. CASE expire \/ HRTIMER_RESTART
    BY <2>1 DEF expire, HRTIMER_RESTART
  <2>2. CASE tick_wakes
    BY <2>2 DEF tick_wakes
  <2> QED BY <1>5, <2>1, <2>2 DEF tick
<1>6. CASE UNCHANGED vars
  BY <1>6 DEF vars
<1> QED BY <1>1, <1>2, <1>3, <1>4, <1>5, <1>6 DEF Next, Ended

\* Every step keeps the invariant.
LEMMA InvStep == Inv /\ [Next]_vars => Inv'
<1> SUFFICES ASSUME Inv, [Next]_vars PROVE Inv'
  OBVIOUS
<1>0. TypeOK'
  BY TypeStep
<1> USE CPUSAssumption DEF TypeOK, Inv
<1>1. CASE lab1_init
  <2> USE DEF TimerInv, StopInv, WakeInv, PassInv
  <2>1. CASE kthread_create
    BY <1>0, <2>1 DEF kthread_create
  <2>2. CASE create_fails
    BY <1>0, <2>2 DEF create_fails
  <2>3. CASE all_created
    BY <1>0, <2>3 DEF all_created
  <2>4. CASE wake_first
    BY <1>0, <2>4 DEF wake_first, wake_up_process
  <2>5. CASE all_woken \/ hrtimer_start
    BY <1>0, <2>5 DEF all_woken, hrtimer_start
  <2> QED BY <1>1, <2>1, <2>2, <2>3, <2>4, <2>5 DEF lab1_init
<1>2. CASE lab1_exit \/ hrtimer_cancel
  BY <1>0, <1>2 DEF lab1_exit, hrtimer_cancel, TimerInv, StopInv, WakeInv, PassInv
<1>3. CASE unload
  <2> USE DEF TimerInv, StopInv, WakeInv, PassInv
  <2>1. CASE kthread_stop
    BY <1>0, <2>1 DEF kthread_stop, wake_up_process
  <2>2. CASE kthread_stopped
    BY <1>0, <2>2 DEF kthread_stopped
  <2>3. CASE all_stopped
    BY <1>0, <2>3 DEF all_stopped
  <2> QED BY <1>3, <2>1, <2>2, <2>3 DEF unload
<1>4. ASSUME NEW c \in Cpu, workingfn(c) PROVE Inv'
  <2> USE <1>4 DEF workingfn, start, set_current_state, schedule, kthread_should_stop
  <2>1. TimerInv'
    BY DEF TimerInv
  <2>2. StopInv'
    BY DEF StopInv
  <2>3. WakeInv'
    BY DEF WakeInv
  <2>4. PassInv'
    BY DEF PassInv
  <2> QED BY <1>0, <2>1, <2>2, <2>3, <2>4
<1>5. CASE tick
  <2> USE <1>5 DEF tick, expire, tick_wakes, HRTIMER_RESTART, wake_up_process
  <2>1. TimerInv'
    BY DEF TimerInv
  <2>2. StopInv'
    BY DEF StopInv
  <2>3. WakeInv'
    BY DEF WakeInv, TimerInv
  <2>4. PassInv'
    BY DEF PassInv
  <2> QED BY <1>0, <2>1, <2>2, <2>3, <2>4
<1>6. CASE UNCHANGED vars
  BY <1>0, <1>6 DEF vars, TimerInv, StopInv, WakeInv, PassInv
<1> QED BY <1>1, <1>2, <1>3, <1>4, <1>5, <1>6 DEF Next, Ended

(* The variables keep their types, the loops' indices included. *)
THEOREM TypeCorrect == Spec => []TypeOK
<1>1. Inv => TypeOK
  BY DEF Inv
<1> QED BY <1>1, InitInv, InvStep, PTL DEF Spec

(* Once the module is gone its threads have returned and its timer is off,
   for every number of processors (NothingRunsOnceGone). *)
THEOREM UnloadLeavesNothing == Spec => []NothingRunsOnceGone
<1>1. Inv => NothingRunsOnceGone
  BY DEF Inv, TimerInv, StopInv, NothingRunsOnceGone
<1> QED BY <1>1, InitInv, InvStep, PTL DEF Spec

(* No thread begins another pass unless a tick woke it since it began the
   last one (PassFollowsTick). *)
THEOREM PassNeedsTick == Spec => PassFollowsTick
<1> DEFINE A == \A c \in Cpu : pc[c] = "check" /\ pc'[c] = "loop" => ticked[c]
<1>1. ASSUME Inv, [Next]_vars PROVE [A]_vars
  <2> SUFFICES ASSUME NEW c \in Cpu, pc[c] = "check", pc'[c] = "loop", Next PROVE ticked[c]
    BY <1>1
  <2> USE <1>1 DEF Inv, TypeOK
  <2>1. CASE \E d \in Cpu : workingfn(d)
    <3> PICK d \in Cpu : workingfn(d)
      BY <2>1
    <3>1. kthread_should_stop(d) /\ d = c
      BY DEF workingfn, start, set_current_state, schedule, kthread_should_stop
    <3>2. ~should_stop[c]
      BY <3>1 DEF kthread_should_stop
    <3> QED BY <3>2 DEF PassInv
  <2>2. CASE ~ \E d \in Cpu : workingfn(d)
    <3>1. pc' = pc \/ (kthread_create /\ pc'[c] \in {pc[c], "created"})
      BY <2>2 DEF Next, Ended, vars, lab1_init, kthread_create, create_fails, all_created, wake_first,
                  all_woken, hrtimer_start, lab1_exit, hrtimer_cancel, unload, kthread_stop,
                  kthread_stopped, all_stopped, tick, expire, tick_wakes, HRTIMER_RESTART
    <3> QED BY <3>1
  <2> QED BY <2>1, <2>2
<1>2. (Inv /\ [Next]_vars => [A]_vars)
  BY <1>1
<1> QED BY <1>2, InitInv, InvStep, PTL DEF Spec, PassFollowsTick
-----------------------------------------------------------------------------
(* That unloading ends, as far as it does not take fairness. *)

(* While threads are to be stopped the timer runs, and a thread that is being
   stopped has been told. *)
TimerRuns ==
  /\ module \in {"loaded", "stopping", "joining", "cancelling"} => timer # "off"
  /\ module = "joining" => should_stop[i]

Runs(c) == pc[c] \in {"loop", "check"} \/ (pc[c] \in {"created", "schedule"} /\ state[c] = "running")

(* Whom kthread_stop waits for runs, or will be woken: by the timer, when the
   wake-up of kthread_stop came before it set its state and was lost. *)
StopIsAwaited == module = "joining" => pc[i] = "done" \/ Runs(i) \/ (pc[i] = "schedule" /\ timer # "off")

(* How many steps a thread that is told to stop has left. *)
StepsLeft(c) ==
  CASE pc[c] = "loop" -> 3
    [] pc[c] = "schedule" -> 2
    [] pc[c] \in {"created", "check"} -> 1
    [] pc[c] = "done" -> 0
    [] OTHER -> 4

(* Once told it takes them, one after the other, and begins no other pass. *)
GoesToItsEnd ==
  \A c \in Cpu : should_stop[c] =>
    /\ should_stop'[c]
    /\ IF workingfn(c) THEN StepsLeft(c)' < StepsLeft(c) ELSE pc'[c] = pc[c]

(* Who has not begun has been woken up when lab1_init is through with it. *)
Woken ==
  \A c \in Cpu :
    module \notin {"creating", "oops"} /\ (module = "waking" => c < i) /\ pc[c] = "created"
      => state[c] = "running"

(* Who is told to stop has been created. *)
Told ==
  \A c \in Cpu :
    /\ should_stop[c] => module \notin {"creating", "oops"}
    /\ module \notin {"creating", "oops"} => pc[c] # "unborn"

UnloadInv == TimerRuns /\ Woken /\ Told

\* Nothing to say before the module is loaded.
LEMMA UnloadInit == Init => UnloadInv
BY DEF Init, UnloadInv, TimerRuns, Woken, Told

\* Every step keeps what unloading rests on.
LEMMA UnloadStep == Inv /\ UnloadInv /\ [Next]_vars => UnloadInv'
<1> SUFFICES ASSUME Inv, UnloadInv, [Next]_vars PROVE UnloadInv'
  OBVIOUS
<1> USE CPUSAssumption DEF TypeOK, Inv, UnloadInv, wake_up_process
<1>1. CASE lab1_init
  <2> USE DEF lab1_init, kthread_create, create_fails, all_created, wake_first, all_woken,
              hrtimer_start
  <2>1. TimerRuns'
    BY <1>1 DEF TimerRuns
  <2>2. Woken'
    BY <1>1 DEF Woken
  <2>3. Told'
    BY <1>1 DEF Told, WakeInv
  <2> QED BY <2>1, <2>2, <2>3
<1>2. CASE lab1_exit \/ unload \/ hrtimer_cancel
  <2> USE DEF lab1_exit, unload, kthread_stop, kthread_stopped, all_stopped, hrtimer_cancel
  <2>1. TimerRuns'
    BY <1>2 DEF TimerRuns
  <2>2. Woken'
    BY <1>2 DEF Woken
  <2>3. Told'
    BY <1>2 DEF Told
  <2> QED BY <2>1, <2>2, <2>3
<1>3. ASSUME NEW c \in Cpu, workingfn(c) PROVE UnloadInv'
  <2> USE <1>3 DEF workingfn, start, set_current_state, schedule, kthread_should_stop
  <2>1. TimerRuns'
    BY DEF TimerRuns
  <2>2. Woken'
    BY DEF Woken
  <2>3. Told'
    BY DEF Told
  <2> QED BY <2>1, <2>2, <2>3
<1>4. CASE tick
  <2> USE DEF tick, expire, tick_wakes, HRTIMER_RESTART
  <2>1. TimerRuns'
    BY <1>4 DEF TimerRuns
  <2>2. Woken'
    BY <1>4 DEF Woken
  <2>3. Told'
    BY <1>4 DEF Told
  <2> QED BY <2>1, <2>2, <2>3
<1>5. CASE UNCHANGED vars
  BY <1>5 DEF vars, TimerRuns, Woken, Told
<1> QED BY <1>1, <1>2, <1>3, <1>4, <1>5 DEF Next, Ended

(* lab1_exit never waits for a thread that sleeps for ever: the wake-up of
   kthread_stop may be lost on it, but not those of the timer, which is
   cancelled last (mt_lab1_module.c:37-39 against 73-81). *)
THEOREM StopNeverLost == Spec => []StopIsAwaited
<1>1. Inv /\ UnloadInv => StopIsAwaited
  <2> SUFFICES ASSUME Inv, UnloadInv, module = "joining"
               PROVE  pc[i] = "done" \/ Runs(i) \/ (pc[i] = "schedule" /\ timer # "off")
    BY DEF StopIsAwaited
  <2>1. i \in Cpu /\ should_stop[i] /\ timer # "off"
    BY DEF Inv, StopInv, UnloadInv, TimerRuns
  <2>2. pc[i] \in {"created", "loop", "schedule", "check", "done"}
    BY <2>1 DEF Inv, TypeOK, UnloadInv, Told
  <2>3. pc[i] = "created" => state[i] = "running"
    BY <2>1 DEF UnloadInv, Woken
  <2> QED BY <2>1, <2>2, <2>3 DEF Runs
<1>2. Inv /\ UnloadInv /\ [Next]_vars => (Inv /\ UnloadInv)'
  BY InvStep, UnloadStep
<1> QED BY <1>1, <1>2, InitInv, UnloadInit, PTL DEF Spec

(* And a thread that has been told to stop takes the steps it has left and
   begins no other pass, whatever the timer does (mt_lab1_module.c:34-42). *)
THEOREM StopIsObeyed == Spec => [][GoesToItsEnd]_vars
<1>1. ASSUME Inv, UnloadInv, [Next]_vars PROVE [GoesToItsEnd]_vars
  <2> SUFFICES ASSUME Next, NEW c \in Cpu, should_stop[c]
               PROVE  /\ should_stop'[c]
                      /\ IF workingfn(c) THEN StepsLeft(c)' < StepsLeft(c) ELSE pc'[c] = pc[c]
    BY <1>1 DEF GoesToItsEnd
  <2> USE <1>1 DEF Inv, TypeOK
  <2>1. module \notin {"creating", "oops"} /\ pc[c] # "unborn"
    BY <1>1 DEF UnloadInv, Told
  <2>2. CASE workingfn(c)
    <3>1. CASE start(c)
      BY <2>2, <3>1 DEF start, StepsLeft
    <3>2. CASE set_current_state(c) \/ schedule(c)
      <4>1. CASE set_current_state(c)
        <5>1. pc[c] = "loop" /\ pc'[c] = "schedule" /\ should_stop' = should_stop
          BY <4>1 DEF set_current_state
        <5>2. StepsLeft(c) = 3 /\ StepsLeft(c)' = 2
          BY <5>1 DEF StepsLeft
        <5> QED BY <2>2, <5>1, <5>2
      <4>2. CASE schedule(c)
        <5>1. pc[c] = "schedule" /\ pc'[c] = "check" /\ should_stop' = should_stop
          BY <4>2 DEF schedule
        <5>2. StepsLeft(c) = 2 /\ StepsLeft(c)' = 1
          BY <5>1 DEF StepsLeft
        <5> QED BY <2>2, <5>1, <5>2
      <4> QED BY <3>2, <4>1, <4>2
    <3>3. CASE kthread_should_stop(c)
      BY <2>2, <3>3 DEF kthread_should_stop, StepsLeft
    <3> QED BY <2>2, <3>1, <3>2, <3>3 DEF workingfn
  <2>3. ASSUME NEW d \in Cpu, d # c, workingfn(d) PROVE should_stop'[c] /\ pc'[c] = pc[c]
    BY <2>3 DEF workingfn, start, set_current_state, schedule, kthread_should_stop
  <2>4. CASE lab1_init
    <3>1. should_stop' = should_stop /\ pc' = pc
      BY <2>1, <2>4 DEF lab1_init, kthread_create, create_fails, all_created, wake_first,
                        all_woken, hrtimer_start
    <3> QED BY <2>2, <3>1
  <2>5. CASE unload \/ hrtimer_cancel \/ lab1_exit \/ tick \/ Ended
    <3>1. should_stop'[c] /\ pc' = pc
      BY <2>5 DEF unload, kthread_stop, kthread_stopped, all_stopped, hrtimer_cancel, lab1_exit,
                  tick, expire, tick_wakes, HRTIMER_RESTART, Ended, vars
    <3> QED BY <2>2, <3>1
  <2> QED BY <2>2, <2>3, <2>4, <2>5 DEF Next
<1>2. Inv /\ UnloadInv /\ [Next]_vars => [GoesToItsEnd]_vars
  BY <1>1
<1>3. Inv /\ UnloadInv /\ [Next]_vars => (Inv /\ UnloadInv)'
  BY InvStep, UnloadStep
<1> QED BY <1>2, <1>3, InitInv, UnloadInit, PTL DEF Spec
=============================================================================
