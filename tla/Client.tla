------------------------------- MODULE Client -------------------------------
(***************************************************************************)
(* lab3/client.c: connect, take lines from the server into a heap until    *)
(* the server says stop, then send them back, smallest number first.       *)
(* read_and_insert is one step per symbol it takes from the socket (stdio  *)
(* may take more at once, which only makes room in the socket earlier).    *)
(* A write is one step for each time it has to wait for room.              *)
(***************************************************************************)
EXTENDS Wire

CONSTANT MayDie  \* the clients that may be killed while they work

ASSUME MayDieAssumption == MayDie \subseteq Clients

VARIABLES
  client,    \* where each client is: see ClientStates
  line_buf,  \* what it has read of the current line
  root,      \* its heap, as the set of its lines
  buf        \* what is left to write of the current line

clientVars == <<client, line_buf, root, buf>>

\* killed: by SIGPIPE, or by somebody.
ClientStates == {"start", "reading", "writing", "done", "failed", "killed"}

ClientInit ==
  /\ client = [c \in Clients |-> "start"]
  /\ line_buf = [c \in Clients |-> <<>>]
  /\ root = [c \in Clients |-> {}]
  /\ buf = [c \in Clients |-> <<>>]

ClientIs(c, state) == client[c] = state

Become(c, state) == client' = [client EXCEPT ![c] = state]

-----------------------------------------------------------------------------
connect(c) ==
  /\ ClientIs(c, "start")
  /\ listening
  /\ backlog' = Append(backlog, c)
  /\ client_end' = [client_end EXCEPT ![c] = "open"]
  /\ server_end' = [server_end EXCEPT ![c] = "open"]
  /\ Become(c, "reading")
  /\ UNCHANGED <<listening, down, up, line_buf, root, buf>>

\* Nobody listens, or another call of the set-up fails.
connect_fails(c) ==
  /\ ClientIs(c, "start")
  /\ Become(c, "failed")
  /\ UNCHANGED <<socketVars, line_buf, root, buf>>

\* Take the next symbol, of those that satisfy the condition.
Take(c, condition) ==
  /\ ClientIs(c, "reading")
  /\ down[c] # <<>>
  /\ condition
  /\ down' = [down EXCEPT ![c] = Tail(@)]
  /\ UNCHANGED <<listening, backlog, client_end, server_end, up, buf>>

ReadPart(c) ==
  /\ Take(c, ~EndsLine(Head(down[c])))
  /\ line_buf' = [line_buf EXCEPT ![c] = Append(@, Head(down[c]))]
  /\ UNCHANGED <<client, root>>

\* The end of a line, or a stop that a line without a newline has swallowed.
ReadLine(c) ==
  /\ Take(c, EndsLine(Head(down[c])) /\ (Head(down[c]) = STOP => line_buf[c] # <<>>))
  /\ root' = [root EXCEPT ![c] = @ \cup {Append(line_buf[c], Head(down[c]))}]
  /\ line_buf' = [line_buf EXCEPT ![c] = <<>>]
  /\ UNCHANGED client

ReadStop(c) ==
  /\ Take(c, Head(down[c]) = STOP /\ line_buf[c] = <<>>)
  /\ Become(c, "writing")
  /\ UNCHANGED <<line_buf, root>>

\* Faulty: the end of the stream is not noticed.
ReadEnd_unnoticed(c) ==
  /\ ClientIs(c, "reading")
  /\ down[c] = <<>> /\ server_end[c] = "closed"
  /\ UNCHANGED <<socketVars, clientVars>>

\* The server is gone; getline gives what there is of the current line, unless
\* the end comes within its number.
ReadEnd(c) ==
  /\ ClientIs(c, "reading")
  /\ down[c] = <<>> /\ server_end[c] = "closed"
  /\ \/ root' = [root EXCEPT ![c] = @ \cup ({line_buf[c]} \ {<<>>})]
     \/ UNCHANGED root
  /\ line_buf' = [line_buf EXCEPT ![c] = <<>>]
  /\ Become(c, "writing")
  /\ UNCHANGED <<socketVars, buf>>

read_and_insert(c) == ReadPart(c) \/ ReadLine(c) \/ ReadStop(c) \/ ReadEnd(c)

-----------------------------------------------------------------------------
heap_delmin(c) ==
  /\ ClientIs(c, "writing")
  /\ buf[c] = <<>>
  /\ \E text \in Smallest(root[c]) :
       /\ root' = [root EXCEPT ![c] = @ \ {text}]
       /\ buf' = [buf EXCEPT ![c] = text]
  /\ UNCHANGED <<socketVars, client, line_buf>>

write(c) ==
  /\ ClientIs(c, "writing")
  /\ server_end[c] = "open"
  /\ LET n == Fitting(buf[c], up[c]) IN
     /\ n > 0
     /\ up' = [up EXCEPT ![c] = @ \o SubSeq(buf[c], 1, n)]
     /\ buf' = [buf EXCEPT ![c] = SubSeq(@, n + 1, Len(@))]
  /\ UNCHANGED <<listening, backlog, client_end, server_end, down, client, line_buf, root>>

\* A write to a connection the server has closed is lost, or kills the client.
write_lost(c) ==
  /\ ClientIs(c, "writing")
  /\ buf[c] # <<>>
  /\ server_end[c] = "closed"
  /\ \/ buf' = [buf EXCEPT ![c] = <<>>] /\ UNCHANGED <<client, client_end>>
     \/ /\ Become(c, "killed")
        /\ client_end' = [client_end EXCEPT ![c] = "closed"]
        /\ UNCHANGED buf
  /\ UNCHANGED <<listening, backlog, server_end, down, up, line_buf, root>>

close(c) ==
  /\ ClientIs(c, "writing")
  /\ buf[c] = <<>> /\ root[c] = {}
  /\ Become(c, "done")
  /\ client_end' = [client_end EXCEPT ![c] = "closed"]
  /\ UNCHANGED <<listening, backlog, server_end, down, up, line_buf, root, buf>>

\* The kernel closes the socket of a client that is killed, and drops what has been
\* sent to it and not been read.
die(c) ==
  /\ c \in MayDie
  /\ client[c] \in {"reading", "writing"}
  /\ Become(c, "killed")
  /\ client_end' = [client_end EXCEPT ![c] = IF down[c] = <<>> THEN "closed" ELSE "reset"]
  /\ down' = [down EXCEPT ![c] = <<>>]
  /\ UNCHANGED <<listening, backlog, server_end, up, line_buf, root, buf>>

ClientNext(c) ==
  \/ connect(c) \/ connect_fails(c) \/ read_and_insert(c)
  \/ heap_delmin(c) \/ write(c) \/ write_lost(c) \/ close(c) \/ die(c)

\* A text is what a line_buf can hold: a sequence of symbols.
ClientTypeOK ==
  /\ client \in [Clients -> ClientStates]
  /\ line_buf \in [Clients -> Seq(Symbols)]
  /\ root \in [Clients -> SUBSET Seq(Symbols)]
  /\ buf \in [Clients -> Seq(Symbols)]
=============================================================================
