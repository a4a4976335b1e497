-------------------------------- MODULE Wire --------------------------------
(***************************************************************************)
(* What lies between lab3's server and its clients: the lines they send    *)
(* each other, and the part of the kernel's TCP sockets they depend on.    *)
(*                                                                         *)
(* A stream is a sequence of symbols, each standing for a byte or more: a  *)
(* line l is sent as <<l, 1>> .. <<l, Length[l]>>, the last of them with   *)
(* its newline.  A line starts with its number, Key[l], and a space; a     *)
(* client sends it back as it got it.  The server's "-1 \n" is one symbol. *)
(***************************************************************************)
EXTENDS Integers, FiniteSetsExt, SequencesExt

CONSTANTS
  Lines, Key, Length,  \* the lines of the input files, their numbers and lengths
  Unended,             \* the lines without a newline, at the end of their file
  Stop,                \* the "line" of the symbol STOP
  Clients,             \* the client processes
  BufferSize           \* how many symbols the kernel holds for each direction

ASSUME LinesAssumption ==
  /\ IsFiniteSet(Lines) /\ Stop \notin Lines /\ Unended \subseteq Lines
  /\ Key \in [Lines -> Nat] /\ Length \in [Lines -> Nat \ {0}]

ASSUME BufferAssumption == BufferSize \in Nat \ {0}

VARIABLES
  listening,   \* whether the server's connection socket takes connections
  backlog,     \* the clients connected and not yet accepted, oldest first
  client_end, server_end,  \* the two ends of each client's connection
  down, up     \* what is on its way to each client, and to the server

socketVars == <<listening, backlog, client_end, server_end, down, up>>

STOP == <<Stop, 1>>

Symbols == {STOP} \cup UNION {{l} \X (1 .. Length[l]) : l \in Lines}

Whole(l) == [k \in 1 .. Length[l] |-> <<l, k>>]

EndsLine(symbol) ==
  symbol # STOP => symbol[2] = Length[symbol[1]] /\ symbol[1] \notin Unended

\* The number a piece of text starts with.
KeyOf(text) == Key[text[1][1]]

\* What cmp_node and the heap make of a set of texts: the ones that may come first.
Smallest(texts) == {s \in texts : \A t \in texts : KeyOf(s) <= KeyOf(t)}

Room(stream) == BufferSize - Len(stream)

\* How much of text goes into stream before a write has to wait.
Fitting(text, stream) == IF Len(text) <= Room(stream) THEN Len(text) ELSE Room(stream)

SocketsInit ==
  /\ listening = FALSE
  /\ backlog = <<>>
  /\ client_end = [c \in Clients |-> "none"]
  /\ server_end = [c \in Clients |-> "none"]
  /\ down = [c \in Clients |-> <<>>]
  /\ up = [c \in Clients |-> <<>>]

\* The client's end is closed; reset if that was with something left to read.
Gone(c) == client_end[c] \in {"closed", "reset"}

\* Closing the connection socket resets the connections still in its backlog.
Stop_listening(accepted) ==
  /\ listening' = FALSE
  /\ backlog' = <<>>
  /\ server_end' = [c \in Clients |->
                      IF c \in Range(backlog) \ accepted THEN "closed" ELSE server_end[c]]

SocketsTypeOK ==
  /\ listening \in BOOLEAN
  /\ backlog \in Seq(Clients)
  /\ client_end \in [Clients -> {"none", "open", "closed", "reset"}]
  /\ server_end \in [Clients -> {"none", "open", "closed"}]
  /\ down \in [Clients -> Seq(Symbols)] /\ up \in [Clients -> Seq(Symbols)]
  /\ \A c \in Clients : Len(down[c]) <= BufferSize /\ Len(up[c]) <= BufferSize
=============================================================================
