-------------------------- MODULE MCDemultiplexers --------------------------
(***************************************************************************)
(* Three clients: one with two lines, one that says quit after a line, one *)
(* that may be killed.                                                     *)
(***************************************************************************)
EXTENDS Demultiplexers

MCThree == {"talker", "quitter", "mortal"}
MCText == [c \in MCThree |-> CASE c = "talker" -> <<"line">>
                               [] c = "quitter" -> <<"line", "quit">>
                               [] c = "mortal" -> <<"line">>]

\* Two clients that write a line and leave.
MCTwo == {"first", "second"}
MCLine == [c \in MCTwo |-> <<"line">>]
=============================================================================
