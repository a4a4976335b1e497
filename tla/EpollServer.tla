---------------------------- MODULE EpollServer -----------------------------
(***************************************************************************)
(* epoll-server.c of studio17.  Reading is commented out: it tells that    *)
(* there are data and closes a connection whose client has left.  Nothing  *)
(* ends it.                                                                *)
(***************************************************************************)
EXTENDS StudioSockets

CONSTANT EVENTSIZE    \* events epoll_wait returns at most
ASSUME EventsAssumption == EVENTSIZE \in Nat \ {0}

VARIABLES
  interest,   \* descriptors registered with epoll
  evlist      \* events that are still to be handled

epollVars == <<interest, evlist>>

EpollInit ==
  /\ interest = IF kind = "epoll" THEN {STDIN_FILENO, server_fd} ELSE {}
  /\ evlist = {}

\* The keyboard is registered with EPOLLET: told of once for what was typed.
Ready == {fd \in interest : Readable(fd) /\ (fd = STDIN_FILENO => edge)}

epoll_wait ==
  LET event(fd) == [fd |-> fd, rdhup |-> PeerLeft(fd)] IN
  /\ evlist = {}
  /\ Ready # {}
  /\ \E S \in SUBSET Ready :
       /\ S # {} /\ Cardinality(S) <= EVENTSIZE
       /\ S = Ready \/ Cardinality(S) = EVENTSIZE
       /\ evlist' = {event(fd) : fd \in S}
       /\ edge' = (edge /\ STDIN_FILENO \notin S)
  /\ UNCHANGED <<pc, interest, still_looping, overlapped, clientVars, greeting, taken,
                 backlog, typed, got, desc>>

EpollAccept(e) ==
  /\ e.fd = server_fd
  /\ AcceptConnection
  /\ interest' = interest \cup {LowestFree}
  /\ evlist' = evlist \ {e}
  /\ UNCHANGED <<pc, still_looping>>

EpollHangUp(e) ==
  /\ e.fd # server_fd
  /\ e.rdhup
  /\ interest' = interest \ {e.fd}
  /\ Close(e.fd)
  /\ evlist' = evlist \ {e}
  /\ UNCHANGED <<pc, still_looping, overlapped>>

\* "data available!", and they stay where they are.
EpollData(e) ==
  /\ e.fd # server_fd
  /\ ~e.rdhup
  /\ evlist' = evlist \ {e}
  /\ UNCHANGED <<pc, interest, still_looping, overlapped, socketVars>>

EpollStep ==
  \/ epoll_wait
  \/ \E e \in evlist : EpollAccept(e) \/ EpollHangUp(e) \/ EpollData(e)
=============================================================================
