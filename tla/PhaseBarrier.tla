---------------------------- MODULE PhaseBarrier ----------------------------
(***************************************************************************)
(* What a barrier that threads call again and again promises: no thread    *)
(* returns from its k-th call before every thread has begun its k-th call. *)
(***************************************************************************)
EXTENDS Integers

CONSTANT Workers

VARIABLES arrived,  \* how many calls each thread has begun
          passed    \* how many calls each thread has returned from

vars == <<arrived, passed>>

Init == arrived = [t \in Workers |-> 0] /\ passed = [t \in Workers |-> 0]

Arrive(t) ==
  /\ arrived[t] = passed[t]
  /\ arrived' = [arrived EXCEPT ![t] = @ + 1]
  /\ UNCHANGED passed

Pass(t) ==
  /\ passed[t] < arrived[t]
  /\ \A u \in Workers : arrived[t] <= arrived[u]
  /\ passed' = [passed EXCEPT ![t] = arrived[t]]
  /\ UNCHANGED arrived

Next == \E t \in Workers : Arrive(t) \/ Pass(t)

Spec == Init /\ [][Next]_vars
=============================================================================
