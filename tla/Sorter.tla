------------------------------- MODULE Sorter -------------------------------
(***************************************************************************)
(* What lab3's readme promises of the server: it prints all the lines of   *)
(* its input files in the order of their numbers, each once, and no other. *)
(***************************************************************************)
EXTENDS Integers, Sequences, Functions

CONSTANTS Texts,  \* the lines
          Number  \* the number each starts with

VARIABLES printed,  \* what has been printed
          finished  \* whether the server has ended without an error

vars == <<printed, finished>>

Missing == Texts \ Range(printed)

Init == printed = <<>> /\ finished = FALSE

PrintNext(t) ==
  /\ t \in Missing
  /\ \A u \in Missing : Number[t] <= Number[u]
  /\ printed' = Append(printed, t)
  /\ UNCHANGED finished

Finish ==
  /\ Missing = {}
  /\ finished' = TRUE
  /\ UNCHANGED printed

Next == Finish \/ \E t \in Texts : PrintNext(t)

Spec == Init /\ [][Next]_vars
=============================================================================
