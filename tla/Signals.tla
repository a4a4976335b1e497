------------------------------ MODULE Signals ------------------------------
(***************************************************************************)
(* Studio18: sender.c queues a number of real-time signals for receiver.c, *)
(* each with the value 0, and one with the value 1 that tells it to stop.  *)
(* Several senders may be run against one receiver.                        *)
(*                                                                         *)
(* The kernel keeps the queued signals in order, hands one over at a time  *)
(* (SIGRTMIN is blocked while its handler runs), refuses another with      *)
(* EAGAIN when soft_limit of them are queued, and with ESRCH when the      *)
(* receiver is gone.  The user learns the receiver's pid from its output,  *)
(* so that no sender begins before the handler is installed.               *)
(***************************************************************************)
EXTENDS Integers, Sequences, SequencesExt, FiniteSetsExt

CONSTANTS
    Senders,     \* the runs of sender
    soft_limit,  \* RLIMIT_SIGPENDING
    MaxAsked     \* bound: the largest count on a command line

ASSUME SignalsAssumption ==
    soft_limit \in Nat \ {0} /\ MaxAsked \in Nat /\ IsFiniteSet(Senders)

VARIABLES
    receiver,    \* "starting", "spinning", "handling", "printed" or "reaped"
    done, count, \* its two globals
    si_value,    \* the value its handler was called with
    queue,       \* signals queued for it: who sent them, with which value
    sender,      \* "usage", "sending" or "returned", for each sender
    asked,       \* the count on its command line, then what it was limited to
    i,           \* its loop variable
    ret          \* what its last sigqueue or its main returned

vars == <<receiver, done, count, si_value, queue, sender, asked, i, ret>>
receiverVars == <<receiver, done, count, si_value>>

Signal == [from : Senders, value : {0, 1}]
Alive == receiver \in {"starting", "spinning", "handling"}

Init ==
    /\ receiver = "starting"
    /\ done = 0 /\ count = 0 /\ si_value = 0
    /\ queue = <<>>
    /\ sender = [s \in Senders |-> "usage"]
    /\ asked \in [Senders -> -1 .. MaxAsked]
    /\ i = [s \in Senders |-> 0]
    /\ ret = [s \in Senders |-> 0]

-----------------------------------------------------------------------------
(* The receiver *)

sigaction ==
    /\ receiver = "starting"
    /\ receiver' = "spinning"
    /\ UNCHANGED <<done, count, si_value, queue, sender, asked, i, ret>>

\* Faulty: the newest signal.
deliver_newest ==
    /\ receiver = "spinning" /\ queue # <<>>
    /\ si_value' = Last(queue).value
    /\ queue' = Front(queue)
    /\ receiver' = "handling"
    /\ UNCHANGED <<done, count, sender, asked, i, ret>>

\* The kernel interrupts the spinning, or goes on after a handler, with the
\* oldest signal.
deliver ==
    /\ receiver = "spinning" /\ queue # <<>>
    /\ si_value' = Head(queue).value
    /\ queue' = Tail(queue)
    /\ receiver' = "handling"
    /\ UNCHANGED <<done, count, sender, asked, i, ret>>

\* Faulty: the value 1 is not an end.
sig_action_without_end ==
    /\ receiver = "handling"
    /\ count' = IF si_value = 0 THEN count + 1 ELSE count
    /\ receiver' = "spinning"
    /\ UNCHANGED <<done, si_value, queue, sender, asked, i, ret>>

sig_action ==
    /\ receiver = "handling"
    /\ count' = IF si_value = 0 THEN count + 1 ELSE count
    /\ done' = IF si_value = 1 THEN 1 ELSE done
    /\ receiver' = "spinning"
    /\ UNCHANGED <<si_value, queue, sender, asked, i, ret>>

\* The loop sees done and the program prints count and returns; what is still
\* queued goes with it.
print ==
    /\ receiver = "spinning" /\ done = 1
    /\ receiver' = "printed"
    /\ queue' = <<>>
    /\ UNCHANGED <<done, count, si_value, sender, asked, i, ret>>

\* Until the shell has waited for it a signal to it is taken and forgotten.
reap ==
    /\ receiver = "printed"
    /\ receiver' = "reaped"
    /\ UNCHANGED <<done, count, si_value, queue, sender, asked, i, ret>>

main == sigaction \/ deliver \/ sig_action \/ print

-----------------------------------------------------------------------------
(* A sender s *)

Return(s, value) ==
    /\ sender' = [sender EXCEPT ![s] = "returned"]
    /\ ret' = [ret EXCEPT ![s] = value]

unexpected_count(s) ==
    /\ sender[s] = "usage" /\ receiver # "starting"
    /\ asked[s] <= 0
    /\ Return(s, -2)
    /\ UNCHANGED <<receiverVars, queue, asked, i>>

Limited(n) == IF n >= soft_limit THEN soft_limit ELSE n

getrlimit(s) ==
    /\ sender[s] = "usage" /\ receiver # "starting"
    /\ asked[s] > 0
    /\ asked' = [asked EXCEPT ![s] = Limited(@)]
    /\ sender' = [sender EXCEPT ![s] = "sending"]
    /\ UNCHANGED <<receiverVars, queue, i, ret>>

Refused == receiver = "reaped" \/ (Alive /\ Len(queue) = soft_limit)

\* Faulty: a full queue drops the signal, as it does an ordinary one.
sigqueue_drops(s, value) ==
    /\ receiver # "reaped"
    /\ queue' = IF Alive /\ Len(queue) < soft_limit
                THEN Append(queue, [from |-> s, value |-> value]) ELSE queue

sigqueue(s, value) ==
    /\ ~Refused
    /\ queue' = IF Alive THEN Append(queue, [from |-> s, value |-> value]) ELSE queue

\* Faulty: <= for <.
More_and_one(s) == i[s] <= asked[s]

More(s) == i[s] < asked[s]

send_signal(s) ==
    /\ sender[s] = "sending" /\ More(s)
    /\ sigqueue(s, 0)
    /\ i' = [i EXCEPT ![s] = @ + 1]
    /\ UNCHANGED <<receiverVars, sender, asked, ret>>

send_end(s) ==
    /\ sender[s] = "sending" /\ ~More(s)
    /\ sigqueue(s, 1)
    /\ Return(s, 0)
    /\ UNCHANGED <<receiverVars, asked, i>>

\* Whichever sigqueue is refused, the sender gives up: it sends no end.
send_fails(s) ==
    /\ sender[s] = "sending"
    /\ Refused
    /\ Return(s, -3)
    /\ UNCHANGED <<receiverVars, queue, asked, i>>

run(s) == getrlimit(s) \/ send_signal(s) \/ send_end(s) \/ send_fails(s)

-----------------------------------------------------------------------------

\* The receiver spins for ever when no end reaches it.
Ended == (\A s \in Senders : sender[s] = "returned") /\ UNCHANGED vars

Next ==
    \/ main \/ reap
    \/ \E s \in Senders : unexpected_count(s) \/ run(s)
    \/ Ended

Spec ==
    /\ Init /\ [][Next]_vars
    /\ WF_vars(main) /\ WF_vars(reap)
    /\ \A s \in Senders : WF_vars(run(s))

-----------------------------------------------------------------------------

Zeros == {k \in DOMAIN queue : queue[k].value = 0}
Handled == IF receiver = "handling" /\ si_value = 0 THEN 1 ELSE 0

\* As long as the receiver lives, every signal that sigqueue took is counted, in
\* its handler or still queued: none is lost or merged (studio18.md:123, "Now the
\* signal is queued and the receiver receives all 1024 signals sent").
NoneLost ==
    Alive => count + Handled + Cardinality(Zeros) = MapThenSumSet(LAMBDA s : i[s], Senders)

\* The receiver takes done as the end of a sender that has sent everything, and
\* it has counted all that this sender sent (receiver.c:47-58, 73-75).
EndComesLast ==
    done = 1 =>
        \E s \in Senders :
            /\ sender[s] = "returned" /\ ret[s] = 0
            /\ count >= asked[s]
            /\ \A k \in DOMAIN queue : queue[k].from # s

\* sender.c:63-66 limits the count so that the signals can be queued.  A sender is
\* turned away only when the receiver is gone or when everybody's signals, the
\* ends included, are more than the limit; one sender that asks for the limit
\* itself is: its end is one signal too many.
FailsOnlyOverLimit ==
    \A s \in Senders :
        ret[s] = -3 =>
            \/ receiver = "reaped"
            \/ MapThenSumSet(LAMBDA t : IF asked[t] > 0 THEN asked[t] + 1 ELSE 0, Senders)
                 > soft_limit

\* A sender that returns 0 has stopped the receiver, or somebody has before.
ReceiverEnds ==
    \A s \in Senders :
        (sender[s] = "returned" /\ ret[s] = 0) ~> (receiver = "reaped")
=============================================================================
