----------------------------- MODULE PollServer -----------------------------
(***************************************************************************)
(* poll-server.c of studio17.  fds[0] is the keyboard, fds[1] the socket   *)
(* that listens, and connections follow.  A connection that is accepted    *)
(* while the array is gone through is reached in the same pass, with       *)
(* whatever its slot's revents were before.                                *)
(***************************************************************************)
EXTENDS StudioSockets

CONSTANT FDSSIZE    \* slots of fds
ASSUME SlotsAssumption == FDSSIZE \in Nat /\ FDSSIZE > 2

VARIABLES
  fds,    \* for each slot a descriptor and the events poll returned
  nfds,   \* slots in use
  i       \* the slot the loop is at, or before

pollVars == <<fds, nfds, i>>

Slots == 0 .. FDSSIZE - 1
Events == SUBSET {"in", "rdhup"}

\* The revents of the slots past the first two are not initialised.
PollInit ==
  /\ nfds = 2
  /\ i = 0
  /\ \E garbage \in [Slots -> Events] :
       /\ garbage[0] = {} /\ garbage[1] = {}
       /\ kind # "poll" => \A s \in Slots : garbage[s] = {}
       /\ fds = [s \in Slots |->
                  [fd |-> IF s = 1 THEN server_fd ELSE 0, revents |-> garbage[s]]]

\* The next slot with an event; the loop passes over those without.
Left == {s \in i .. nfds - 1 : fds[s].revents # {}}
slot == Min(Left)
fd_i == fds[slot].fd
AtSlot == pc = "loop" /\ Left # {}
PeerGone == AtSlot /\ "rdhup" \in fds[slot].revents

\* Faulty: POLLRDHUP is not asked for.
Returned_in(fd) == {e \in {"in"} : Readable(fd)}

\* What poll returns for a descriptor.  It does not watch the keyboard or the
\* listening socket for rdhup, and they have no peer to leave.
Returned(fd) == {e \in {"in", "rdhup"} : \/ e = "in" /\ Readable(fd)
                                         \/ e = "rdhup" /\ PeerLeft(fd)}

\* poll also returns when a descriptor is closed (POLLNVAL), which the loop
\* then takes no notice of.
Poll ==
  /\ pc = "loop" /\ Left = {} /\ still_looping
  /\ \E s \in 0 .. nfds - 1 : Returned(fds[s].fd) # {} \/ desc[fds[s].fd] = "closed"
  /\ fds' = [s \in Slots |-> IF s < nfds
                             THEN [fds[s] EXCEPT !.revents = Returned(fds[s].fd)]
                             ELSE fds[s]]
  /\ i' = 0
  /\ UNCHANGED <<pc, nfds, still_looping, overlapped, socketVars>>

\* The peer left: what it wrote is read before the connection is closed.
\* With an old event the peer may be there yet; then read waits for it.
HangUpRead ==
  LET c == desc[fd_i] IN
  /\ PeerGone
  /\ c \in Clients
  /\ Unread(c) # <<>>
  /\ Unread(c) # <<"quit">>
  /\ Take(c)
  /\ UNCHANGED <<pc, pollVars, still_looping, overlapped>>

\* Faulty: the number of slots stays.
DropSlot_not == i' = slot + 1 /\ UNCHANGED <<fds, nfds>>

\* close, and one slot less to poll: the last one, whichever this one is.
DropSlot == nfds' = nfds - 1 /\ i' = slot + 1 /\ fds' = fds

HangUpQuit ==
  LET c == desc[fd_i] IN
  /\ PeerGone
  /\ c \in Clients
  /\ Unread(c) = <<"quit">>
  /\ still_looping' = FALSE
  /\ taken' = [taken EXCEPT ![c] = sent[c]]
  /\ desc' = [desc EXCEPT ![fd_i] = "closed"]
  /\ DropSlot
  /\ UNCHANGED <<pc, overlapped, clientVars, greeting, backlog, typed, got, edge>>

\* Faulty: what is there is not read first.
ReadToTheEnd_skipped(fd) == desc[fd] \in Clients => HasLeft(desc[fd])

\* read returns 0, or -1 for a reset connection or a descriptor that is
\* closed already.
ReadToTheEnd(fd) ==
  desc[fd] \in Clients => Unread(desc[fd]) = <<>> /\ HasLeft(desc[fd])

HangUp ==
  /\ PeerGone
  /\ ReadToTheEnd(fd_i)
  /\ Close(fd_i)
  /\ DropSlot
  /\ UNCHANGED <<pc, still_looping, overlapped>>

HasInput == AtSlot /\ "rdhup" \notin fds[slot].revents

\* The new slot keeps its old revents.
SlotsLeft == nfds < FDSSIZE

PollAccept ==
  /\ HasInput
  /\ fd_i = server_fd
  /\ AcceptConnection
  /\ SlotsLeft
  /\ fds' = [fds EXCEPT ![nfds].fd = LowestFree]
  /\ nfds' = nfds + 1
  /\ i' = slot + 1
  /\ UNCHANGED <<pc, still_looping>>

\* The slot is past the end of fds; what then happens is not defined.
PollAcceptOverrun ==
  /\ HasInput
  /\ fd_i = server_fd
  /\ AcceptConnection
  /\ ~SlotsLeft
  /\ pc' = "crashed"
  /\ UNCHANGED <<pollVars, still_looping>>

\* Faulty: the outer loop goes on.
Quit_inner_loop == i' = nfds /\ UNCHANGED still_looping

\* break leaves the loop over the slots.
Quit == still_looping' = FALSE /\ i' = nfds

PollReadTyped ==
  /\ HasInput
  /\ fd_i = STDIN_FILENO
  /\ TakeTyped
  /\ IF typed[got'] = "quit" THEN Quit ELSE i' = slot + 1 /\ UNCHANGED still_looping
  /\ UNCHANGED <<pc, fds, nfds, overlapped>>

\* A read that finds nothing waits, unless the client has left: then it
\* returns 0, and an empty text is printed.
PollRead ==
  LET c == desc[fd_i] IN
  /\ HasInput
  /\ c \in Clients
  /\ Unread(c) # <<>> \/ client[c] = "closed"
  /\ Take(c)
  /\ IF Unread(c) = <<"quit">> THEN Quit ELSE i' = slot + 1 /\ UNCHANGED still_looping
  /\ UNCHANGED <<pc, fds, nfds, overlapped>>

PollReadFails ==
  LET c == desc[fd_i] IN
  /\ HasInput
  /\ c \in Clients
  /\ Unread(c) = <<>> /\ client[c] = "reset"
  /\ client' = [client EXCEPT ![c] = "closed"]
  /\ i' = nfds
  /\ UNCHANGED <<pc, fds, nfds, still_looping, overlapped,
                 parts, sent, greeting, taken, backlog, typed, got, edge, desc>>

PollEnd ==
  /\ pc = "loop" /\ Left = {} /\ ~still_looping
  /\ pc' = "ended"
  /\ EndProcess
  /\ UNCHANGED <<pollVars, still_looping, overlapped>>

PollStep ==
  \/ Poll \/ HangUpRead \/ HangUpQuit \/ HangUp
  \/ PollAccept \/ PollAcceptOverrun
  \/ PollReadTyped \/ PollRead \/ PollReadFails
  \/ PollEnd
=============================================================================
