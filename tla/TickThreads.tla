---------------------------- MODULE TickThreads ----------------------------
(***************************************************************************)
(* The kernel module of lab1/lab1/mt_lab1_module.c: CPUS kernel threads    *)
(* that go to sleep at the end of every pass of their loop, a timer whose  *)
(* callback wakes all of them, and the load and unload functions that      *)
(* create and stop both.  lab1_module.c is the same program with one       *)
(* thread, CPUS = 1.                                                       *)
(*                                                                         *)
(* The callback, the threads and the loader run on different processors,   *)
(* so a step is one kernel call of one of them.  The kernel's side of a    *)
(* call is modelled from how the module uses it:                           *)
(*   - kthread_create answers a task that has not run yet, or ERR_PTR;     *)
(*   - wake_up_process makes a sleeping task runnable and does nothing to  *)
(*     one that is already running: a wake-up is not remembered;           *)
(*   - schedule() returns when the task's state is TASK_RUNNING;           *)
(*   - kthread_stop raises the stop flag, wakes the task, waits until it   *)
(*     has returned and gives up the reference to it;                      *)
(*   - hrtimer_cancel waits for a callback that is running.                *)
(***************************************************************************)
EXTENDS Integers

CONSTANT CPUS

ASSUME CPUSAssumption == CPUS \in Nat \ {0}

Cpu == 0 .. CPUS - 1

VARIABLES
    module,      \* where lab1_init or lab1_exit is
    i,           \* their loop variable
    tasks,       \* the array tasks[]: what each pointer points at
    pc,          \* where each kernel thread is
    state,       \* the scheduler's state of each thread
    should_stop, \* the flag kthread_stop raises
    timer,       \* "off", "armed" or "firing" (tick is running)
    tick_i,      \* tick's own loop variable
    ticked       \* history: a tick woke the thread since its last pass began

vars == <<module, i, tasks, pc, state, should_stop, timer, tick_i, ticked>>
loader == <<module, i>>
threads == <<pc, state, should_stop, ticked>>
clock == <<timer, tick_i>>

TypeOK ==
    /\ module \in {"creating", "waking", "arming", "loaded",
                   "stopping", "joining", "cancelling", "gone", "oops"}
    /\ i \in 0 .. CPUS
    /\ tasks \in [Cpu -> {"NULL", "thread", "ERR_PTR", "reaped"}]
    /\ pc \in [Cpu -> {"unborn", "created", "loop", "schedule", "check", "done"}]
    /\ state \in [Cpu -> {"running", "asleep"}]
    /\ should_stop \in [Cpu -> BOOLEAN]
    /\ timer \in {"off", "armed", "firing"}
    /\ tick_i \in 0 .. CPUS
    /\ ticked \in [Cpu -> BOOLEAN]

Init ==
    /\ module = "creating" /\ i = 0
    /\ tasks = [c \in Cpu |-> "NULL"]
    /\ pc = [c \in Cpu |-> "unborn"]
    /\ state = [c \in Cpu |-> "asleep"]
    /\ should_stop = [c \in Cpu |-> FALSE]
    /\ timer = "off" /\ tick_i = 0
    /\ ticked = [c \in Cpu |-> FALSE]

wake_up_process(c) == state' = [state EXCEPT ![c] = "running"]

-----------------------------------------------------------------------------
(* lab1_init *)

kthread_create ==
    /\ module = "creating" /\ i < CPUS
    /\ tasks' = [tasks EXCEPT ![i] = "thread"]
    /\ pc' = [pc EXCEPT ![i] = "created"]
    /\ i' = i + 1
    /\ UNCHANGED <<module, state, should_stop, ticked, clock>>

(* A creation that fails answers ERR_PTR(-ENOMEM), which is not NULL: the
   test lets it through and kthread_bind dereferences it.  The threads
   created before it stay. *)
create_fails ==
    /\ module = "creating" /\ i < CPUS
    /\ tasks' = [tasks EXCEPT ![i] = "ERR_PTR"]
    /\ module' = "oops"
    /\ UNCHANGED <<i, threads, clock>>

all_created ==
    /\ module = "creating" /\ i = CPUS
    /\ module' = "waking" /\ i' = 0
    /\ UNCHANGED <<tasks, threads, clock>>

wake_first ==
    /\ module = "waking" /\ i < CPUS
    /\ wake_up_process(i)
    /\ i' = i + 1
    /\ UNCHANGED <<module, tasks, pc, should_stop, ticked, clock>>

all_woken ==
    /\ module = "waking" /\ i = CPUS
    /\ module' = "arming"
    /\ UNCHANGED <<i, tasks, threads, clock>>

hrtimer_start ==
    /\ module = "arming"
    /\ timer' = "armed"
    /\ module' = "loaded"
    /\ UNCHANGED <<i, tasks, threads, tick_i>>

-----------------------------------------------------------------------------
(* lab1_exit, which rmmod calls some time after the module is loaded *)

\* Faulty: the timer is cancelled before the threads are stopped.
lab1_exit_timer_first ==
    /\ module = "loaded" /\ timer # "firing"
    /\ timer' = "off"
    /\ module' = "stopping" /\ i' = 0
    /\ UNCHANGED <<tasks, threads, tick_i>>

lab1_exit ==
    /\ module = "loaded"
    /\ module' = "stopping" /\ i' = 0
    /\ UNCHANGED <<tasks, threads, clock>>

kthread_stop ==
    /\ module = "stopping" /\ i < CPUS
    /\ should_stop' = [should_stop EXCEPT ![i] = TRUE]
    /\ wake_up_process(i)
    /\ module' = "joining"
    /\ UNCHANGED <<i, tasks, pc, ticked, clock>>

kthread_stopped ==
    /\ module = "joining"
    /\ pc[i] = "done"
    /\ tasks' = [tasks EXCEPT ![i] = "reaped"]
    /\ i' = i + 1
    /\ module' = "stopping"
    /\ UNCHANGED <<threads, clock>>

all_stopped ==
    /\ module = "stopping" /\ i = CPUS
    /\ module' = "cancelling"
    /\ UNCHANGED <<i, tasks, threads, clock>>

\* Faulty: hrtimer_try_to_cancel, which gives up when the callback runs.
hrtimer_try_to_cancel ==
    /\ module = "cancelling"
    /\ timer' = IF timer = "firing" THEN timer ELSE "off"
    /\ module' = "gone"
    /\ UNCHANGED <<i, tasks, threads, tick_i>>

hrtimer_cancel ==
    /\ module = "cancelling"
    /\ timer # "firing"
    /\ timer' = "off"
    /\ module' = "gone"
    /\ UNCHANGED <<i, tasks, threads, tick_i>>

-----------------------------------------------------------------------------
(* workingfn, run by the thread of processor c *)

(* The kernel calls workingfn after the first wake-up, unless kthread_stop
   came before. *)
start(c) ==
    /\ pc[c] = "created" /\ state[c] = "running"
    /\ pc' = [pc EXCEPT ![c] = IF should_stop[c] THEN "done" ELSE "loop"]
    /\ UNCHANGED <<loader, tasks, state, should_stop, ticked, clock>>

\* Faulty: the thread calls schedule while its state is TASK_RUNNING.
set_current_state_left_out(c) ==
    /\ pc[c] = "loop"
    /\ pc' = [pc EXCEPT ![c] = "schedule"]
    /\ UNCHANGED <<loader, tasks, state, should_stop, ticked, clock>>

set_current_state(c) ==
    /\ pc[c] = "loop"
    /\ state' = [state EXCEPT ![c] = "asleep"]
    /\ pc' = [pc EXCEPT ![c] = "schedule"]
    /\ UNCHANGED <<loader, tasks, should_stop, ticked, clock>>

schedule(c) ==
    /\ pc[c] = "schedule" /\ state[c] = "running"
    /\ pc' = [pc EXCEPT ![c] = "check"]
    /\ UNCHANGED <<loader, tasks, state, should_stop, ticked, clock>>

kthread_should_stop(c) ==
    /\ pc[c] = "check"
    /\ pc' = [pc EXCEPT ![c] = IF should_stop[c] THEN "done" ELSE "loop"]
    /\ ticked' = [ticked EXCEPT ![c] = FALSE]
    /\ UNCHANGED <<loader, tasks, state, should_stop, clock>>

workingfn(c) ==
    start(c) \/ set_current_state(c) \/ schedule(c) \/ kthread_should_stop(c)

-----------------------------------------------------------------------------
(* tick, run by the timer interrupt *)

expire ==
    /\ timer = "armed"
    /\ timer' = "firing" /\ tick_i' = 0
    /\ UNCHANGED <<loader, tasks, threads>>

tick_wakes ==
    /\ timer = "firing" /\ tick_i < CPUS
    /\ wake_up_process(tick_i)
    /\ ticked' = [ticked EXCEPT ![tick_i] = TRUE]
    /\ tick_i' = tick_i + 1
    /\ UNCHANGED <<loader, tasks, pc, should_stop, timer>>

\* Faulty: the callback does not start its timer again.
HRTIMER_NORESTART ==
    /\ timer = "firing" /\ tick_i = CPUS
    /\ timer' = "off"
    /\ UNCHANGED <<loader, tasks, threads, tick_i>>

HRTIMER_RESTART ==
    /\ timer = "firing" /\ tick_i = CPUS
    /\ timer' = "armed"
    /\ UNCHANGED <<loader, tasks, threads, tick_i>>

tick == expire \/ tick_wakes \/ HRTIMER_RESTART

-----------------------------------------------------------------------------

lab1_init ==
    \/ kthread_create \/ create_fails \/ all_created
    \/ wake_first \/ all_woken \/ hrtimer_start

unload == kthread_stop \/ kthread_stopped \/ all_stopped

Ended == module \in {"gone", "oops"} /\ UNCHANGED vars

Next ==
    \/ lab1_init
    \/ lab1_exit \/ unload \/ hrtimer_cancel
    \/ \E c \in Cpu : workingfn(c)
    \/ tick
    \/ Ended

(* Every thread, the loader and the timer get their turn.  Nobody has to
   unload the module.  hrtimer_cancel tries again as long as it finds the
   callback running, and finds the timer between two ticks in the end. *)
Fairness ==
    /\ WF_vars(lab1_init) /\ WF_vars(unload)
    /\ SF_vars(hrtimer_cancel)
    /\ \A c \in Cpu : WF_vars(workingfn(c))
    /\ WF_vars(tick)

Spec == Init /\ [][Next]_vars /\ Fairness

-----------------------------------------------------------------------------

(* Once the module is gone none of its code runs any more: every thread has
   returned from workingfn and the timer, whose callback is module code, is
   off (readme.txt:54-56, mt_lab1_module.c:73-81). *)
NothingRunsOnceGone ==
    module = "gone" => timer = "off" /\ \A c \in Cpu : pc[c] = "done"

(* A thread begins another pass of its loop only when a tick woke it since
   it began the last one (readme.txt:216, "each iteration happens after the
   timer tick"; mt_lab1_module.c:24-26 and 34-42). *)
PassFollowsTick ==
    [][\A c \in Cpu :
        pc[c] = "check" /\ pc'[c] = "loop" => ticked[c]]_vars

(* Unloading ends, although the stop's wake-up is lost on a thread that has
   not yet set its state: the timer still runs and wakes it again
   (mt_lab1_module.c:37-39 against 76-79). *)
UnloadEnds == (module = "stopping") ~> (module = "gone")

(* While the module is loaded a thread that waits gets another pass
   (readme.txt:97): the callback restarts its timer and wakes every thread. *)
PassAfterTick ==
    \A c \in Cpu :
        (module = "loaded" /\ pc[c] = "schedule")
            ~> (pc[c] = "loop" \/ module # "loaded")

(* What the timer wakes up is the thread (readme.txt:52-53, "add a new line
   in timer to wake up the thread"): the task tick is about to wake has not
   been given up by kthread_stop. *)
TickWakesAThread ==
    timer = "firing" /\ tick_i < CPUS => tasks[tick_i] = "thread"
=============================================================================
