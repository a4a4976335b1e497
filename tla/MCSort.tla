------------------------------- MODULE MCSort -------------------------------
(***************************************************************************)
(* Lines longer than a socket holds, lines with equal numbers, files out   *)
(* of order and an empty one.                                              *)
(***************************************************************************)
EXTENDS DistributedSort

MCLines  == 1 .. 3
MCKey    == [l \in MCLines |-> IF l = 3 THEN 2 ELSE 1]
MCLength == [l \in MCLines |-> IF l = 3 THEN 3 ELSE 1]

\* Three files, one of them empty.
MCThree == <<<<3, 2>>, <<>>, <<1>>>>

\* Two files of a line each, the first to come last.
MCTwo == <<<<3>>, <<1>>>>
=============================================================================
