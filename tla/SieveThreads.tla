---------------------------- MODULE SieveThreads ----------------------------
(***************************************************************************)
(* The kernel module of lab2 without its sieve: loading it, its worker     *)
(* threads, the barrier (sbarrier) they meet in before and after           *)
(* computing, and unloading it.  The four versions of the module share     *)
(* this part; Eratosthenes and Sundaram add the compute function.          *)
(*                                                                         *)
(* A spin loop is a step that waits for its condition.  One access to an   *)
(* atomic_t, or to a variable other threads may write, is one step.        *)
(* kmalloc and kthread_run may fail.  Unloading may come at any time after *)
(* loading and does not wait for the threads; what the kernel does when a  *)
(* thread runs code or data that is gone is not modelled.                  *)
(***************************************************************************)
EXTENDS Integers, FiniteSets, Functions

CONSTANTS num_threads, upper_bound  \* module parameters, of type unsigned long

ASSUME ParametersAssumption == num_threads \in Nat /\ upper_bound \in Nat

MIN_THREADS == 1
MIN_PRIME   == 2
RUNNING     == 1

VARIABLES
  module,         \* where loading and unloading is: one of ModuleStates
  spawned,        \* how many times lab2_init has called kthread_run
  numbers, counters,         \* the two arrays, Freed when not allocated
  global_index, index_lock,  \* index_lock: who holds it, or Nobody
  barrier_state, begin_flag, start_guard, end_guard,
  pc,             \* where each worker thread is
  site,           \* 1 or 2: which of its calls of sbarrier a thread is in or past
  taken, local,   \* a thread's two locals in compute
  report          \* what lab2_exit printed

shared == <<numbers, counters, global_index, index_lock, taken, local>>
guards == <<barrier_state, start_guard, end_guard>>
admin  == <<module, spawned, report>>
vars   == <<shared, guards, admin, begin_flag, pc, site>>

\* oops: lab2_init wrote through the NULL that kmalloc gave it for counters.
\* exited: lab2_exit has returned, the code is still there.
ModuleStates == {"loading", "failed", "oops", "spawning", "live", "exited", "unloaded"}

Threads == 0 .. num_threads - 1
Nobody  == -1
Freed   == <<>>
Nothing == <<>>

InBarrier == {"enter", "arrive", "last", "wait", "leave", "clear"}
Computing == {"lock", "fetch", "put", "cross", "test"}

InitWith(first_index) ==
  /\ module = "loading" /\ spawned = 0 /\ report = Nothing
  /\ numbers = Freed /\ counters = Freed
  /\ global_index = first_index /\ index_lock = Nobody
  /\ barrier_state = 0 /\ begin_flag = 0 /\ start_guard = 0 /\ end_guard = 0
  /\ pc = [t \in Threads |-> "none"]
  /\ site = [t \in Threads |-> 1]
  /\ taken = [t \in Threads |-> 0] /\ local = [t \in Threads |-> 0]

-----------------------------------------------------------------------------
(* Loading. *)

ValidParameters == num_threads >= MIN_THREADS /\ upper_bound >= MIN_PRIME

\* lab2_init returns -1: bad parameters, or no memory for numbers.
lab2_init_fails ==
  /\ module = "loading"
  /\ module' = "failed"
  /\ UNCHANGED <<spawned, report, shared, guards, begin_flag, pc, site>>

\* No memory for counters is only logged; the next loop writes through NULL.
lab2_init_oops ==
  /\ module = "loading"
  /\ ValidParameters
  /\ module' = "oops"
  /\ UNCHANGED <<spawned, report, shared, guards, begin_flag, pc, site>>

lab2_init ==
  /\ module = "loading"
  /\ ValidParameters
  /\ numbers' = [i \in 0 .. upper_bound |-> i]
  /\ counters' = [t \in Threads |-> 0]
  /\ start_guard' = num_threads
  /\ end_guard' = 0
  /\ begin_flag' = RUNNING
  /\ module' = "spawning"
  /\ UNCHANGED <<spawned, report, global_index, index_lock, barrier_state, pc, site,
                 taken, local>>

\* One turn of lab2_init's last loop; a failure of kthread_run is not noticed.
kthread_run ==
  /\ module = "spawning"
  /\ \/ pc' = [pc EXCEPT ![spawned] = "enter"]
     \/ UNCHANGED pc
  /\ spawned' = spawned + 1
  /\ module' = IF spawned + 1 = num_threads THEN "live" ELSE "spawning"
  /\ UNCHANGED <<report, shared, guards, begin_flag, site>>

Load == lab2_init_fails \/ lab2_init_oops \/ lab2_init \/ kthread_run

-----------------------------------------------------------------------------
(* sbarrier, one action per access to a guard. *)

At(t, label) == module \in {"spawning", "live", "exited"} /\ pc[t] = label

GoTo(t, label) == pc' = [pc EXCEPT ![t] = label]

\* What follows each of sieve_fn's two calls of sbarrier.
Return(t) == IF site[t] = 1 THEN "lock" ELSE "flag"

\* The wait for the previous meeting to be over.
Enter(t) ==
  /\ At(t, "enter")
  /\ end_guard = 0
  /\ GoTo(t, "arrive")
  /\ UNCHANGED <<shared, guards, admin, begin_flag, site>>

\* Faulty: the last but one takes itself for the last.
Arrive_early(t) ==
  /\ At(t, "arrive")
  /\ start_guard' = start_guard - 1
  /\ GoTo(t, IF start_guard <= 2 THEN "last" ELSE "wait")
  /\ UNCHANGED <<shared, barrier_state, end_guard, admin, begin_flag, site>>

Arrive(t) ==
  /\ At(t, "arrive")
  /\ start_guard' = start_guard - 1
  /\ GoTo(t, IF start_guard = 1 THEN "last" ELSE "wait")
  /\ UNCHANGED <<shared, barrier_state, end_guard, admin, begin_flag, site>>

\* The last to arrive counts the meeting and lets the others go.
Last(t) ==
  /\ At(t, "last")
  /\ barrier_state' = barrier_state + 1
  /\ start_guard' = num_threads
  /\ GoTo(t, "leave")
  /\ UNCHANGED <<shared, end_guard, admin, begin_flag, site>>

Wait(t) ==
  /\ At(t, "wait")
  /\ start_guard = num_threads
  /\ GoTo(t, "leave")
  /\ UNCHANGED <<shared, guards, admin, begin_flag, site>>

Leave(t) ==
  /\ At(t, "leave")
  /\ end_guard' = end_guard + 1
  /\ GoTo(t, IF end_guard + 1 = num_threads THEN "clear" ELSE Return(t))
  /\ UNCHANGED <<shared, barrier_state, start_guard, admin, begin_flag, site>>

\* Faulty: end_guard is not set back.
Clear_forgets(t) ==
  /\ At(t, "clear")
  /\ GoTo(t, Return(t))
  /\ UNCHANGED <<shared, guards, admin, begin_flag, site>>

Clear(t) ==
  /\ At(t, "clear")
  /\ end_guard' = 0
  /\ GoTo(t, Return(t))
  /\ UNCHANGED <<shared, barrier_state, start_guard, admin, begin_flag, site>>

sbarrier(t) == Enter(t) \/ Arrive(t) \/ Last(t) \/ Wait(t) \/ Leave(t) \/ Clear(t)

-----------------------------------------------------------------------------
(* The rest of sieve_fn that both algorithms share. *)

\* Faulty: the lock is taken over from its holder.
Lock_unguarded(t) ==
  /\ At(t, "lock")
  /\ index_lock' = t
  /\ GoTo(t, "fetch")
  /\ UNCHANGED <<numbers, counters, global_index, taken, local, guards, admin,
                 begin_flag, site>>

Lock(t) ==
  /\ At(t, "lock")
  /\ index_lock = Nobody
  /\ index_lock' = t
  /\ GoTo(t, "fetch")
  /\ UNCHANGED <<numbers, counters, global_index, taken, local, guards, admin,
                 begin_flag, site>>

\* original = global_index++ is a read, here, and a write; first_local is what the
\* loop after it starts from.
ReadIndex(t, first_local) ==
  /\ taken' = [taken EXCEPT ![t] = global_index]
  /\ local' = [local EXCEPT ![t] = first_local]
  /\ GoTo(t, "put")
  /\ UNCHANGED <<numbers, counters, global_index, index_lock, guards, admin, begin_flag,
                 site>>

\* The write, and the release of index_lock.
WriteIndex(t, next) ==
  /\ At(t, "put")
  /\ global_index' = taken[t] + 1
  /\ index_lock' = Nobody
  /\ GoTo(t, next)
  /\ UNCHANGED <<numbers, counters, taken, local, guards, admin, begin_flag, site>>

\* The test that ends compute's loop reads global_index without the lock.
Test(t) ==
  /\ At(t, "test")
  /\ IF global_index <= upper_bound
     THEN GoTo(t, "lock") /\ UNCHANGED site
     ELSE GoTo(t, "enter") /\ site' = [site EXCEPT ![t] = 2]
  /\ UNCHANGED <<shared, guards, admin, begin_flag>>

\* Each thread clears begin_flag after its second barrier, and ends.
Finish(t) ==
  /\ At(t, "flag")
  /\ begin_flag' = 0
  /\ GoTo(t, "end")
  /\ UNCHANGED <<shared, guards, admin, site>>

-----------------------------------------------------------------------------
(* Unloading. *)

count_sum == FoldFunction(+, 0, counters)

\* Faulty: begin_flag is not looked at.
ExitWith_unconditional(statistics) ==
  /\ module = "live"
  /\ module' = "exited"
  /\ report' = IF barrier_state > 0 THEN statistics ELSE Nothing
  /\ numbers' = Freed
  /\ counters' = Freed
  /\ UNCHANGED <<spawned, global_index, index_lock, taken, local, guards, begin_flag,
                 pc, site>>

\* lab2_exit does nothing while begin_flag is RUNNING, and otherwise prints
\* what the algorithm makes of the arrays and frees them.
ExitWith(statistics) ==
  /\ module = "live"
  /\ module' = "exited"
  /\ IF begin_flag = RUNNING
     THEN UNCHANGED <<numbers, counters, report>>
     ELSE /\ report' = IF barrier_state > 0 THEN statistics ELSE Nothing
          /\ numbers' = Freed
          /\ counters' = Freed
  /\ UNCHANGED <<spawned, global_index, index_lock, taken, local, guards, begin_flag,
                 pc, site>>

\* The kernel frees the code once lab2_exit has returned, whatever it did; a
\* thread that has not ended cannot go on.
Unload ==
  /\ module = "exited"
  /\ module' = "unloaded"
  /\ UNCHANGED <<spawned, report, shared, guards, begin_flag, pc, site>>

\* Nothing is left to happen.
Stopped ==
  /\ module \in {"failed", "oops", "unloaded"}
  /\ UNCHANGED vars

-----------------------------------------------------------------------------
(* Properties of this part. *)

\* The type of every variable.
TypeOK ==
  /\ module \in ModuleStates
  /\ spawned \in 0 .. num_threads
  /\ numbers = Freed \/ numbers \in [0 .. upper_bound -> 0 .. upper_bound]
  /\ counters = Freed \/ counters \in [Threads -> Nat]
  /\ global_index \in Nat
  /\ index_lock \in Threads \cup {Nobody}
  /\ barrier_state \in Nat /\ begin_flag \in {0, RUNNING}
  /\ start_guard \in Nat /\ end_guard \in Nat
  /\ pc \in [Threads -> {"none", "flag", "end"} \cup InBarrier \cup Computing]
  /\ site \in [Threads -> {1, 2}]
  /\ taken \in [Threads -> Nat] /\ local \in [Threads -> Nat]

BeforeArriving == {"none", "enter", "arrive"}

\* How many of its calls of sbarrier a thread has begun: its decrement of
\* start_guard is what the others can see of that.
Arrived(t) == IF pc[t] \in BeforeArriving THEN site[t] - 1 ELSE site[t]

\* How many of its calls of sbarrier a thread has been let out of.
Passed(t) == IF pc[t] \in BeforeArriving \cup {"last", "wait"} THEN site[t] - 1 ELSE site[t]

Barrier == INSTANCE PhaseBarrier
             WITH Workers <- Threads,
                  arrived <- [t \in Threads |-> Arrived(t)],
                  passed  <- [t \in Threads |-> Passed(t)]

\* sbarrier is a barrier in both its uses: nobody computes before every thread
\* runs (so nobody does when kthread_run failed for one), and nobody passes the
\* second meeting before every thread has computed.
ImplementsBarrier == Barrier!Spec

\* What makes the barrier reusable: while a thread has yet to see start_guard
\* back at num_threads, nobody decrements it for the next meeting.
ReleasedMayLeave ==
  \A t \in Threads :
    pc[t] = "wait" /\ site[t] <= barrier_state => start_guard = num_threads

\* lab2_exit frees the arrays, going by begin_flag alone, only when no thread
\* will touch them again.
NoUseAfterFree ==
  module = "exited" /\ numbers = Freed =>
    \A t \in Threads : pc[t] = "none" \/ Passed(t) = 2 \/ (site[t] = 2 /\ pc[t] \in InBarrier)

\* No two threads ever take the same index to cross out from: index_lock.
EachIndexTakenOnce ==
  \A t, u \in Threads : t # u /\ taken[t] # 0 => taken[t] # taken[u]

\* readme.txt:28-29: lab2_exit is "very safe" since begin_flag denotes "the whole
\* program is in progress".  So once it has freed the arrays, no thread is left in
\* the module.  But the first thread out of the second barrier clears begin_flag.
FreedWhenDone ==
  module \in {"exited", "unloaded"} /\ numbers = Freed =>
    \A t \in Threads : pc[t] \in {"none", "end"}

\* Once every thread runs, the spinning on guards and lock comes to an end for all
\* of them, unless the module is unloaded first.
EveryThreadEnds ==
  (\A t \in Threads : pc[t] # "none")
    ~> (module = "unloaded" \/ \A t \in Threads : pc[t] = "end")
=============================================================================
