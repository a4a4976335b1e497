------------------------------ MODULE MCHeap --------------------------------
(***************************************************************************)
(* Heap on pages of one and of two entries, with five entries of which two *)
(* share a key: enough to grow a table three times, to give pages back     *)
(* while entries remain, and to have a last level of one and two children. *)
(***************************************************************************)
EXTENDS Heap

MCEntries == 1 .. 5
MCKey == [e \in MCEntries |-> IF e = 5 THEN 4 ELSE e]
MCPageEntries == {1, 2}
MCInitialSizes == {0, 3}
=============================================================================
