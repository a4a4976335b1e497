--------------------------- MODULE StudioSockets ----------------------------
(***************************************************************************)
(* What the three servers of studio17 share: the clients that connect to   *)
(* port PORT (poll-client.c, select-client.c), the keyboard, and the       *)
(* kernel's descriptors and sockets.  One of the servers runs, kind says   *)
(* which; the servers are in modules of their own.                         *)
(*                                                                         *)
(* A text is a sequence of lines, each written with one write; only        *)
(* whether a line is quit matters.  What is there to be read is shorter    *)
(* than the servers' buffer, so a read takes all of it.                    *)
(***************************************************************************)
EXTENDS Naturals, Sequences, FiniteSets, FiniteSetsExt, SequencesExt

CONSTANTS
  Clients,      \* connections, one for each client that runs
  Text,         \* the lines each client writes
  MayDie,       \* clients that may be killed
  Kinds,        \* the servers to look at
  OneAtATime,   \* do clients wait for each other to leave?
  MaxTyped      \* bound: lines typed on the keyboard

\* What a descriptor is when it is not a connection.
NoConnection == {"terminal", "listening", "epoll", "closed"}

ASSUME ClientsAssumption == IsFiniteSet(Clients) /\ Clients \cap NoConnection = {}
ASSUME TextAssumption == Text \in [Clients -> Seq({"line", "quit"})]
ASSUME ServerAssumption ==
  /\ Kinds \subseteq {"poll", "select", "epoll"}
  /\ MayDie \subseteq Clients
  /\ OneAtATime \in BOOLEAN
  /\ MaxTyped \in Nat

VARIABLES
  kind,         \* the server that runs
  pc,           \* where it is: in its loop, between two writes, or gone
  still_looping,
  client,       \* what each client does
  parts,        \* reads of a greeting a client has still to do
  greeting,     \* parts of a greeting that wait for a client
  sent, taken,  \* lines a client has written, and the server has read
  backlog,      \* connections that wait for accept
  typed, got,   \* what was typed, and how many of its lines the server read
  edge,         \* has something been typed since epoll told of it?
  desc,         \* what each descriptor of the server is
  overlapped    \* history: was a connection accepted while another was open?

clientVars == <<client, parts, sent>>
socketVars == <<clientVars, greeting, taken, backlog, typed, got, edge, desc>>

STDIN_FILENO == 0
BACKLOG == 1
Fds == 0 .. 4 + Cardinality(Clients)
server_fd == IF kind = "epoll" THEN 4 ELSE 3

\* select-server.c writes its greeting in two parts, and select-client.c reads
\* it in two; the others in one.
Parts == IF kind = "select" THEN 2 ELSE 1

\* The descriptors when the server waits for events for the first time.
Descriptors(k) ==
  [fd \in Fds |-> CASE fd <= 2 -> "terminal"
                    [] fd = 3 -> IF k = "epoll" THEN "epoll" ELSE "listening"
                    [] fd = 4 /\ k = "epoll" -> "listening"
                    [] OTHER -> "closed"]

SocketsInit ==
  /\ kind \in Kinds
  /\ pc = "loop"
  /\ still_looping = TRUE
  /\ client = [c \in Clients |-> "away"]
  /\ parts = [c \in Clients |-> Parts]
  /\ greeting = [c \in Clients |-> 0]
  /\ sent = [c \in Clients |-> 0]
  /\ taken = [c \in Clients |-> 0]
  /\ backlog = <<>>
  /\ typed = <<>>
  /\ got = 0
  /\ edge = FALSE
  /\ desc = Descriptors(kind)
  /\ overlapped = FALSE

-----------------------------------------------------------------------------
(* What the kernel knows.                                                  *)

IsOpen(c) == \E fd \in Fds : desc[fd] = c
Connections == {fd \in Fds : desc[fd] \in Clients}

\* The server's end of the connection is gone: it was closed, or the process
\* has ended.
Gone(c) == client[c] # "away" /\ ~IsOpen(c) /\ ~Contains(backlog, c)

Unread(c) == SubSeq(Text[c], taken[c] + 1, sent[c])
HasLeft(c) == client[c] \in {"closed", "reset"}

Readable(fd) ==
  \/ desc[fd] = "terminal" /\ got < Len(typed)
  \/ desc[fd] = "listening" /\ backlog # <<>>
  \/ desc[fd] \in Clients /\ (Unread(desc[fd]) # <<>> \/ HasLeft(desc[fd]))

PeerLeft(fd) == desc[fd] \in Clients /\ HasLeft(desc[fd])

LowestFree == Min({fd \in Fds : desc[fd] = "closed"})

-----------------------------------------------------------------------------
(* The clients and the keyboard.                                           *)

\* connect succeeds when the kernel has put the connection into the backlog,
\* which takes one more than listen was told.
Connect(c) ==
  /\ client[c] = "away"
  /\ \E fd \in Fds : desc[fd] = "listening"
  /\ Len(backlog) <= BACKLOG
  /\ OneAtATime => \A d \in Clients \ {c} : client[d] = "away" \/ HasLeft(d)
  /\ client' = [client EXCEPT ![c] = "reading"]
  /\ backlog' = Append(backlog, c)
  /\ UNCHANGED <<parts, sent, greeting, taken, typed, got, edge, desc>>

\* A read takes all parts that have come.
ReadGreeting(c) ==
  /\ client[c] = "reading"
  /\ greeting[c] > 0
  /\ greeting' = [greeting EXCEPT ![c] = 0]
  /\ parts' = [parts EXCEPT ![c] = @ - 1]
  /\ client' = [client EXCEPT ![c] = IF parts[c] = 1 THEN "writing" ELSE @]
  /\ UNCHANGED <<sent, taken, backlog, typed, got, edge, desc>>

WriteLine(c) ==
  /\ client[c] = "writing"
  /\ ~Gone(c)
  /\ sent[c] < Len(Text[c])
  /\ sent' = [sent EXCEPT ![c] = @ + 1]
  /\ UNCHANGED <<client, parts, greeting, taken, backlog, typed, got, edge, desc>>

Leave(c) ==
  /\ client[c] = "writing"
  /\ sent[c] = Len(Text[c])
  /\ client' = [client EXCEPT ![c] = "closed"]
  /\ UNCHANGED <<parts, sent, greeting, taken, backlog, typed, got, edge, desc>>

\* Reads and writes on a connection the server has given up fail or kill: the
\* client ends in the one way or the other.
LeaveForsaken(c) ==
  /\ client[c] \in {"reading", "writing"}
  /\ Gone(c)
  /\ client' = [client EXCEPT ![c] = "closed"]
  /\ UNCHANGED <<parts, sent, greeting, taken, backlog, typed, got, edge, desc>>

\* A killed client resets the connection when there is something it has not
\* read.
Die(c) ==
  /\ c \in MayDie
  /\ client[c] \in {"reading", "writing"}
  /\ client' = [client EXCEPT ![c] = IF greeting[c] > 0 THEN "reset" ELSE "closed"]
  /\ UNCHANGED <<parts, sent, greeting, taken, backlog, typed, got, edge, desc>>

\* The terminal gives out a line with each read; eof is the control character
\* that makes one read return 0.
Type ==
  /\ Len(typed) < MaxTyped
  /\ \E what \in {"line", "quit", "eof"} : typed' = Append(typed, what)
  /\ edge' = TRUE
  /\ UNCHANGED <<clientVars, greeting, taken, backlog, got, desc>>

ClientStep(c) == ReadGreeting(c) \/ WriteLine(c) \/ Leave(c) \/ LeaveForsaken(c)

-----------------------------------------------------------------------------
(* System calls of the server.                                             *)

\* accept, and the first part of the greeting.  What is written to a client
\* that has left resets the connection.
AcceptConnection ==
  LET c == Head(backlog) IN
  /\ backlog # <<>>
  /\ backlog' = Tail(backlog)
  /\ desc' = [desc EXCEPT ![LowestFree] = c]
  /\ overlapped' = (overlapped \/ Connections # {})
  /\ greeting' = [greeting EXCEPT ![c] = 1]
  /\ client' = [client EXCEPT ![c] = IF HasLeft(c) THEN "reset" ELSE @]
  /\ UNCHANGED <<parts, sent, taken, typed, got, edge>>

\* read gives all that client c has written.
Take(c) ==
  /\ taken' = [taken EXCEPT ![c] = sent[c]]
  /\ UNCHANGED <<clientVars, greeting, backlog, typed, got, edge, desc>>

\* read gives the next line that was typed.
TakeTyped ==
  /\ got' = got + 1
  /\ UNCHANGED <<clientVars, greeting, taken, backlog, typed, edge, desc>>

Close(fd) ==
  /\ desc' = [desc EXCEPT ![fd] = "closed"]
  /\ UNCHANGED <<clientVars, greeting, taken, backlog, typed, got, edge>>

\* The process ends, and the kernel closes what it has left open.
EndProcess ==
  /\ desc' = [fd \in Fds |-> "closed"]
  /\ backlog' = <<>>
  /\ UNCHANGED <<clientVars, greeting, taken, typed, got, edge>>
=============================================================================
