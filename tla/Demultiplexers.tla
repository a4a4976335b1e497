--------------------------- MODULE Demultiplexers ---------------------------
(***************************************************************************)
(* One of the three servers of studio17, its clients and the keyboard.     *)
(***************************************************************************)
EXTENDS PollServer, SelectServer, EpollServer

serverVars == <<kind, pc, still_looping, overlapped, pollVars, selectVars, epollVars>>
vars == <<serverVars, socketVars>>

Init == SocketsInit /\ PollInit /\ SelectInit /\ EpollInit

PollRuns == kind = "poll" /\ PollStep /\ UNCHANGED <<kind, selectVars, epollVars>>
SelectRuns == kind = "select" /\ SelectStep /\ UNCHANGED <<kind, pollVars, epollVars>>
EpollRuns == kind = "epoll" /\ EpollStep /\ UNCHANGED <<kind, pollVars, selectVars>>
ServerStep == PollRuns \/ SelectRuns \/ EpollRuns

Outside ==
  /\ Type \/ \E c \in Clients : Connect(c) \/ ClientStep(c) \/ Die(c)
  /\ UNCHANGED serverVars

\* The server is about to call poll, select or epoll_wait.
Waiting == pc = "loop" /\ still_looping /\ Left = {} /\ rdset = {} /\ evlist = {}

\* A server may wait for ever, or be gone.
Quiet == (Waiting \/ pc \in {"ended", "crashed"}) /\ UNCHANGED vars

Next == ServerStep \/ Outside \/ Quiet

Spec == Init /\ [][Next]_vars

\* Processes that can go on do.  Nothing makes anyone connect, type or die.
FairSpec ==
  /\ Spec
  /\ WF_vars(ServerStep)
  /\ \A c \in Clients : WF_vars(ClientStep(c) /\ UNCHANGED serverVars)

-----------------------------------------------------------------------------
(* What the servers keep right.                                            *)

\* The connections a server looks at.
Watched == CASE kind = "poll"   -> {fds[s].fd : s \in 2 .. nfds - 1}
             [] kind = "select" -> {con_fd} \ {0}
             [] kind = "epoll"  -> interest \ {STDIN_FILENO, server_fd}

\* A server that waits waits for its open connections and for nothing else,
\* so none is forgotten and no closed descriptor makes it spin: epoll-server.c
\* always, the others as long as no connection was accepted while another was
\* open.
NothingForgotten ==
  Waiting /\ (overlapped => kind = "epoll") => Watched = Connections

\* A connection is closed only when all that its client wrote has been read:
\* by poll-server.c always, by select-server.c unless connections overlapped
\* or an end of input on the keyboard closed it.  (epoll-server.c does not
\* read.)
ReadBeforeClosed ==
  \A c \in Clients :
    /\ kind # "epoll" /\ pc # "ended"
    /\ Gone(c) /\ taken[c] # sent[c]
    => /\ kind = "select"
       /\ overlapped \/ \E n \in 1 .. got : typed[n] = "eof"

\* poll-server.c never stops polling the keyboard and the listening socket, and
\* writes past fds only when more connections are open than it has slots for:
\* even when it drops the wrong slot, polls a descriptor twice or forgets one.
SlotsKept ==
  /\ nfds \in 2 .. FDSSIZE
  /\ pc = "crashed" => Cardinality(Connections) > FDSSIZE - 2

\* Both parts of select-server.c's greeting came with one read: the client
\* waits for another, and the server for the client.
BothWait(c) == kind = "select" /\ client[c] = "reading" /\ parts[c] = 1 /\ greeting[c] = 0

\* Every client that connects is served: in the end it has left and the server
\* has closed the connection.  epoll-server.c always manages that; the others
\* when connections do not overlap, and select-server.c when its greeting is
\* read in two and it is not left spinning.
EveryClientServed ==
  []<> \A c \in Clients :
         \/ client[c] = "away"
         \/ HasLeft(c) /\ Gone(c)
         \/ kind # "epoll" /\ overlapped
         \/ pc = "crashed" \/ Spins \/ BothWait(c)

\* select-server.c can close a descriptor that it goes on selecting, and then
\* spins, in one way only: an end of input on the keyboard, read while it knew
\* of no connection, closes the keyboard.  No connection that is overwritten,
\* forgotten or closed in place of another brings it about.
SpinsOnlyOnKeyboard ==
  Spins => /\ desc[STDIN_FILENO] = "closed" /\ con_fd = 0
           /\ got > 0 /\ typed[got] = "eof"

\* All that is left to read from client c is a quit.
SaysQuit(c) == kind # "epoll" /\ sent[c] = Len(Text[c]) /\ Unread(c) = <<"quit">>

\* A quit on the keyboard ends the servers that read it, whatever the clients
\* do, unless select-server.c spins on a keyboard that it has closed itself.  So
\* does a client's quit that is read on its own, unless connections overlapped
\* or select-server.c has taken an end of input for that of the connection.
QuitEnds ==
  /\ kind # "epoll" /\ (\E n \in 1 .. Len(typed) : typed[n] = "quit")
       ~> pc \in {"ended", "crashed"} \/ Spins
  /\ (\E c \in Clients : SaysQuit(c))
       ~> \/ pc \in {"ended", "crashed"} \/ overlapped
          \/ kind = "select" /\ \E n \in 1 .. got : typed[n] = "eof"

-----------------------------------------------------------------------------
\* poll-server.c:103 takes a backlog of one to mean that there is one
\* connection at a time, and its description (45-47) says that with the end
\* of a connection only the keyboard and the listening socket are left to
\* poll.  Even clients that wait for each other to leave overlap in the
\* server, and the slot it gives up is then not that of the one that left.
OnlyOpenPolled == kind = "poll" /\ Waiting => Watched = Connections
=============================================================================
