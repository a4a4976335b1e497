------------------------------ MODULE Sundaram ------------------------------
(***************************************************************************)
(* lab2_sundaram.c and lab2_sundaram_atomic.c: the threads of SieveThreads *)
(* run the sieve of Sundaram.  numbers[k] stands for the odd number        *)
(* 2k + 1; for each j a thread takes, it crosses out i + j + 2ij for every *)
(* i <= j, which are the k whose 2k + 1 is composite.                      *)
(***************************************************************************)
EXTENDS SieveThreads

MIN_NUM == 1

Init == InitWith(MIN_NUM)

-----------------------------------------------------------------------------
(* compute: taken is its j, local its i. *)

Read(t)  == At(t, "fetch") /\ ReadIndex(t, MIN_NUM)
Write(t) == WriteIndex(t, "cross")

\* Faulty: the factor 2 is lost.
index_without_2(t) == local[t] + taken[t] + local[t] * taken[t]

index(t) == local[t] + taken[t] + 2 * local[t] * taken[t]

CrossOut(t) ==
  /\ At(t, "cross")
  /\ local[t] <= taken[t]
  /\ index(t) <= upper_bound
  /\ numbers' = [numbers EXCEPT ![index(t)] = 0]
  /\ counters' = [counters EXCEPT ![t] = @ + 1]
  /\ local' = [local EXCEPT ![t] = @ + 1]
  /\ UNCHANGED <<global_index, index_lock, taken, guards, admin, begin_flag, pc, site>>

CrossedOut(t) ==
  /\ At(t, "cross")
  /\ local[t] > taken[t] \/ index(t) > upper_bound
  /\ GoTo(t, "test")
  /\ UNCHANGED <<shared, guards, admin, begin_flag, site>>

compute(t) == Lock(t) \/ Read(t) \/ Write(t) \/ CrossOut(t) \/ CrossedOut(t) \/ Test(t)

sieve_fn(t) == sbarrier(t) \/ compute(t) \/ Finish(t)

-----------------------------------------------------------------------------

\* Faulty: the prime 2 is not counted.
prime_nums_odd == Cardinality({k \in MIN_NUM .. upper_bound : numbers[k] # 0})

\* The prime 2 is counted in.
prime_nums == 1 + Cardinality({k \in MIN_NUM .. upper_bound : numbers[k] # 0})
best_count == upper_bound - prime_nums

lab2_exit == ExitWith([primes |-> prime_nums,
                       non_primes |-> 2 * upper_bound + 1 - prime_nums,
                       unnecessary |-> count_sum - best_count])

Next == Load \/ lab2_exit \/ Unload \/ Stopped \/ \E t \in Threads : sieve_fn(t)

Spec == Init /\ [][Next]_vars

\* As in Eratosthenes.
FairSpec == Spec /\ WF_vars(Load) /\ \A t \in Threads : WF_vars(sieve_fn(t))

-----------------------------------------------------------------------------
(* Properties. *)

IsPrime(n) == n >= 2 /\ \A d \in 2 .. n - 1 : n % d # 0

\* However the threads are scheduled, what is left of numbers when a thread is out
\* of the second barrier is the k for which 2k + 1 is prime.
OddPrimesLeft ==
  \A t \in Threads : Passed(t) = 2 /\ numbers # Freed =>
    \A k \in MIN_NUM .. upper_bound : numbers[k] = IF IsPrime(2 * k + 1) THEN k ELSE 0

\* lab2_exit reports the primes and the others among 1 .. 2 * upper_bound + 1.
ReportRight ==
  report # Nothing =>
    /\ report.primes = Cardinality({n \in 2 .. 2 * upper_bound + 1 : IsPrime(n)})
    /\ report.non_primes = Cardinality({n \in 1 .. 2 * upper_bound + 1 : ~IsPrime(n)})

=============================================================================
