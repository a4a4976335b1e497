---------------------------- MODULE Eratosthenes ----------------------------
(***************************************************************************)
(* lab2.c and lab2_atomic.c: the threads of SieveThreads run the sieve of  *)
(* Eratosthenes.  Each takes the next number nobody has crossed out, under *)
(* index_lock, and crosses out its multiples without a lock, while the     *)
(* others search and cross out.  The atomic version differs only in the    *)
(* type of numbers, whose int accesses are single steps in both.           *)
(***************************************************************************)
EXTENDS SieveThreads

Init == InitWith(MIN_PRIME)

-----------------------------------------------------------------------------
(* compute. *)

\* One turn of the search for a number not crossed out.
SkipCrossed(t) ==
  /\ At(t, "fetch")
  /\ global_index <= upper_bound
  /\ numbers[global_index] = 0
  /\ global_index' = global_index + 1
  /\ UNCHANGED <<numbers, counters, index_lock, taken, local, guards, admin,
                 begin_flag, pc, site>>

\* Faulty: crossing out starts at the number itself.
Read_itself(t) ==
  /\ At(t, "fetch")
  /\ global_index <= upper_bound => numbers[global_index] # 0
  /\ ReadIndex(t, global_index)

\* The search is over: the number is taken, and its first multiple computed.
Read(t) ==
  /\ At(t, "fetch")
  /\ global_index <= upper_bound => numbers[global_index] # 0
  /\ ReadIndex(t, MIN_PRIME * global_index)

Write(t) == WriteIndex(t, IF taken[t] <= upper_bound THEN "cross" ELSE "test")

CrossOut(t) ==
  /\ At(t, "cross")
  /\ local[t] <= upper_bound
  /\ numbers' = [numbers EXCEPT ![local[t]] = 0]
  /\ counters' = [counters EXCEPT ![t] = @ + 1]
  /\ local' = [local EXCEPT ![t] = @ + taken[t]]
  /\ UNCHANGED <<global_index, index_lock, taken, guards, admin, begin_flag, pc, site>>

CrossedOut(t) ==
  /\ At(t, "cross")
  /\ local[t] > upper_bound
  /\ GoTo(t, "test")
  /\ UNCHANGED <<shared, guards, admin, begin_flag, site>>

compute(t) ==
  \/ Lock(t) \/ SkipCrossed(t) \/ Read(t) \/ Write(t)
  \/ CrossOut(t) \/ CrossedOut(t) \/ Test(t)

sieve_fn(t) == sbarrier(t) \/ compute(t) \/ Finish(t)

-----------------------------------------------------------------------------

prime_nums == Cardinality({i \in MIN_PRIME .. upper_bound : numbers[i] # 0})

\* Faulty: 1 is counted among the composites.
non_prime_nums_and_1 == upper_bound - prime_nums

non_prime_nums == upper_bound - 1 - prime_nums

lab2_exit == ExitWith([primes |-> prime_nums, non_primes |-> non_prime_nums,
                       unnecessary |-> count_sum - non_prime_nums])

Next == Load \/ lab2_exit \/ Unload \/ Stopped \/ \E t \in Threads : sieve_fn(t)

Spec == Init /\ [][Next]_vars

\* insmod runs lab2_init to its end, and every kernel thread is scheduled; index_lock
\* is free again and again, and taken a bounded number of times.  Nobody has to
\* unload the module.
FairSpec == Spec /\ WF_vars(Load) /\ \A t \in Threads : WF_vars(sieve_fn(t))

-----------------------------------------------------------------------------
(* Properties. *)

IsPrime(n) == n >= 2 /\ \A d \in 2 .. n - 1 : n % d # 0

\* However the threads race on numbers, what is left of it when a thread is out of
\* the second barrier is the primes: a composite that one thread takes before
\* another has crossed it out does no harm, and no composite is forgotten.
PrimesLeft ==
  \A t \in Threads : Passed(t) = 2 /\ numbers # Freed =>
    \A i \in 2 .. upper_bound : numbers[i] = IF IsPrime(i) THEN i ELSE 0

\* lab2_exit reports the number of primes, and for unnecessary cross outs those
\* beyond one for each composite, of which there are never fewer than none.
ReportRight ==
  report # Nothing =>
    /\ report.primes = Cardinality({i \in 2 .. upper_bound : IsPrime(i)})
    /\ report.non_primes = Cardinality({i \in 2 .. upper_bound : ~IsPrime(i)})
    /\ report.unnecessary >= 0
=============================================================================
