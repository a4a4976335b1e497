---------------------------- MODULE SelectServer ----------------------------
(***************************************************************************)
(* select-server.c of studio17.  It knows one connection, con_fd: accept   *)
(* overwrites it, and any end of input closes it.                          *)
(***************************************************************************)
EXTENDS StudioSockets

VARIABLES
  con_fd,   \* the connection, or 0
  rdset     \* descriptors select returned that the loop has still to come to

selectVars == <<con_fd, rdset>>

SelectInit == con_fd = 0 /\ rdset = {}

Selected == {STDIN_FILENO, server_fd} \cup (IF con_fd > 0 THEN {con_fd} ELSE {})

\* With a closed descriptor in its set select fails, again and again.
Spins == kind = "select" /\ pc = "loop" /\ \E fd \in Selected : desc[fd] = "closed"

Select ==
  /\ pc = "loop" /\ rdset = {} /\ still_looping
  /\ ~Spins
  /\ rdset' = {fd \in Selected : Readable(fd)}
  /\ rdset' # {}
  /\ UNCHANGED <<pc, con_fd, still_looping, overlapped, socketVars>>

\* The loop goes through the descriptors from the lowest on.
At(fd) == pc = "loop" /\ rdset # {} /\ fd = Min(rdset)
fd_min == Min(rdset)
Done == rdset' = rdset \ {fd_min}
Break == rdset' = {}

SelectAccept ==
  /\ At(server_fd)
  /\ AcceptConnection
  /\ con_fd' = LowestFree
  /\ pc' = "greet"
  /\ UNCHANGED <<rdset, still_looping>>

\* The second write: hosttime.
WriteTime ==
  LET c == desc[con_fd] IN
  /\ pc = "greet"
  /\ greeting' = [greeting EXCEPT ![c] = @ + 1]
  /\ client' = [client EXCEPT ![c] = IF HasLeft(c) THEN "reset" ELSE @]
  /\ pc' = "loop"
  /\ Done
  /\ UNCHANGED <<con_fd, still_looping, overlapped,
                 parts, sent, taken, backlog, typed, got, edge, desc>>

\* After a reset it may raise SIGPIPE, which nothing handles.
WriteTimeKilled ==
  /\ pc = "greet"
  /\ client[desc[con_fd]] = "reset"
  /\ pc' = "ended"
  /\ EndProcess
  /\ UNCHANGED <<selectVars, still_looping, overlapped>>

SelectReadTyped ==
  /\ At(STDIN_FILENO)
  /\ typed[got + 1] # "eof"
  /\ TakeTyped
  /\ IF typed[got + 1] = "quit" THEN still_looping' = FALSE /\ Break
                                ELSE Done /\ UNCHANGED still_looping
  /\ UNCHANGED <<pc, con_fd, overlapped>>

SelectRead ==
  LET c == desc[fd_min] IN
  /\ pc = "loop" /\ rdset # {}
  /\ c \in Clients
  /\ Unread(c) # <<>>
  /\ Take(c)
  /\ IF Unread(c) = <<"quit">> THEN still_looping' = FALSE /\ Break
                               ELSE Done /\ UNCHANGED still_looping
  /\ UNCHANGED <<pc, con_fd, overlapped>>

SelectReadFails ==
  LET c == desc[fd_min] IN
  /\ pc = "loop" /\ rdset # {}
  /\ c \in Clients
  /\ Unread(c) = <<>> /\ client[c] = "reset"
  /\ client' = [client EXCEPT ![c] = "closed"]
  /\ Break
  /\ UNCHANGED <<pc, con_fd, still_looping, overlapped,
                 parts, sent, greeting, taken, backlog, typed, got, edge, desc>>

\* Faulty: con_fd is kept.
Disconnect_keeps_con_fd ==
  /\ desc' = [desc EXCEPT ![con_fd] = "closed"]
  /\ Break
  /\ UNCHANGED con_fd

\* read returned 0, from whichever descriptor: con_fd is closed.
Disconnect ==
  /\ desc' = [desc EXCEPT ![con_fd] = "closed"]
  /\ con_fd' = 0
  /\ Break

SelectHangUp ==
  LET c == desc[fd_min] IN
  /\ pc = "loop" /\ rdset # {}
  /\ c \in Clients
  /\ Unread(c) = <<>> /\ client[c] = "closed"
  /\ Disconnect
  /\ UNCHANGED <<pc, still_looping, overlapped,
                 clientVars, greeting, taken, backlog, typed, got, edge>>

SelectEndOfInput ==
  /\ At(STDIN_FILENO)
  /\ typed[got + 1] = "eof"
  /\ got' = got + 1
  /\ Disconnect
  /\ UNCHANGED <<pc, still_looping, overlapped,
                 clientVars, greeting, taken, backlog, typed, edge>>

SelectEnd ==
  /\ pc = "loop" /\ rdset = {} /\ ~still_looping
  /\ pc' = "ended"
  /\ EndProcess
  /\ UNCHANGED <<selectVars, still_looping, overlapped>>

SelectStep ==
  \/ Select \/ SelectAccept \/ WriteTime \/ WriteTimeKilled
  \/ SelectReadTyped \/ SelectRead \/ SelectReadFails
  \/ SelectHangUp \/ SelectEndOfInput
  \/ SelectEnd
=============================================================================
