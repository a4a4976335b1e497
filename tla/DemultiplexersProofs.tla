------------------------ MODULE DemultiplexersProofs ------------------------
(***************************************************************************)
(* studio17 for any number of clients and any texts: which descriptors the *)
(* three servers watch, that poll-server.c's slots stay within fds as long *)
(* as its connections do, and that what a client wrote is read before its  *)
(* connection is closed.                                                   *)
(***************************************************************************)
EXTENDS Demultiplexers, FiniteSetTheorems, SequenceTheorems, WellFoundedInduction, TLAPS

-----------------------------------------------------------------------------
(* The invariant. *)

Typed ==
  /\ kind \in {"poll", "select", "epoll"}
  /\ pc \in {"loop", "greet", "ended", "crashed"}
  /\ client \in [Clients -> {"away", "reading", "writing", "closed", "reset"}]
  /\ sent \in [Clients -> Nat] /\ taken \in [Clients -> Nat]
  /\ \A c \in Clients : taken[c] <= sent[c] /\ sent[c] <= Len(Text[c])
  /\ backlog \in Seq(Clients)
  /\ desc \in [Fds -> Clients \cup NoConnection]

Running == pc # "ended"

\* The descriptors up to server_fd are no connections and, but for the keyboard,
\* are never closed; a client has one descriptor, or waits in one place.
Kernel ==
  Running =>
    /\ \A fd \in Fds : fd > server_fd => desc[fd] \in Clients \cup {"closed"}
    /\ \A fd \in 1 .. server_fd : desc[fd] \notin Clients \cup {"closed"}
    /\ desc[0] \in {"terminal", "closed"}
    /\ \A a, b \in Connections : desc[a] = desc[b] => a = b
    /\ \A k, l \in DOMAIN backlog : backlog[k] = backlog[l] => k = l
    /\ \A k \in DOMAIN backlog :
         client[backlog[k]] # "away" /\ \A fd \in Fds : desc[fd] # backlog[k]
    /\ \A fd \in Connections : client[desc[fd]] # "away"

\* The slots of poll-server.c: two for what is always there, and no more others
\* than there are connections.
PollInv ==
  /\ nfds \in 2 .. FDSSIZE
  /\ kind # "poll" => nfds = 2 /\ pc # "crashed"
  /\ kind = "poll" =>
       /\ fds \in [Slots -> [fd : Fds, revents : Events]]
       /\ fds[0].fd = STDIN_FILENO /\ fds[1].fd = server_fd
       /\ "rdhup" \notin fds[0].revents /\ "rdhup" \notin fds[1].revents
       /\ \A s \in 2 .. nfds - 1 : fds[s].fd > server_fd
       /\ i \in Nat /\ pc # "greet"
       /\ Running => desc[0] # "closed" /\ nfds - 2 <= Cardinality(Connections)
       /\ pc = "crashed" => Cardinality(Connections) > FDSSIZE - 2
       /\ pc = "loop" /\ ~overlapped => nfds <= 3 /\ Connections = {fds[s].fd : s \in 2 .. nfds - 1}

\* The connection of select-server.c.
SelectInv ==
  kind = "select" =>
    /\ con_fd \in Fds /\ (con_fd = 0 \/ con_fd > server_fd) /\ rdset \subseteq Fds
    /\ pc = "greet" => rdset # {}
    /\ Running /\ desc[0] = "closed" =>
         rdset = {} /\ con_fd = 0 /\ got > 0 /\ typed[got] = "eof"
    /\ Running /\ con_fd # 0 => con_fd \in Connections
    /\ Running /\ con_fd = 0 => \A fd \in rdset : fd <= server_fd
    /\ Running /\ ~overlapped => Connections = {con_fd} \ {0}
    /\ typed \in Seq({"line", "quit", "eof"}) /\ got \in 0 .. Len(typed)
    /\ STDIN_FILENO \in rdset => got < Len(typed)

\* What epoll-server.c has registered.
EpollInv ==
  kind = "epoll" =>
    /\ pc = "loop" /\ desc[0] # "closed"
    /\ interest = {STDIN_FILENO, server_fd} \cup Connections
    /\ \A e \in evlist : e.fd \in Fds /\ (e.rdhup => e.fd > server_fd)

IInv == Typed /\ Kernel /\ PollInv /\ SelectInv /\ EpollInv /\ ReadBeforeClosed

-----------------------------------------------------------------------------
(* Descriptors and their numbers. *)

\* Every set of natural numbers has a least element, which Min finds.
LEMMA LeastNumber ==
  ASSUME NEW S \in SUBSET Nat, S # {}
  PROVE  Min(S) \in S /\ \A x \in S : Min(S) <= x
<1> DEFINE R == OpToRel(<, Nat)
<1>1. PICK m \in S : \A x \in S : ~(<<x, m>> \in R)
  <2> HIDE DEF R
  <2>1. IsWellFoundedOn(R, Nat)
    BY NatLessThanWellFounded DEF R
  <2> QED BY <2>1, WFMin
<1>2. ASSUME NEW x \in S, ~(m <= x) PROVE FALSE
  <2>1. x \in Nat /\ m \in Nat /\ x < m
    BY <1>2
  <2>2. <<x, m>> \in R
    BY <2>1 DEF OpToRel
  <2> HIDE DEF R
  <2> QED BY <1>1, <2>2
<1> QED BY <1>2 DEF Min

\* What the descriptors are numbered.
LEMMA Numbering ==
  /\ Cardinality(Clients) \in Nat
  /\ Fds \subseteq Nat /\ IsFiniteSet(Fds)
  /\ server_fd \in Fds /\ server_fd \in {3, 4} /\ STDIN_FILENO \in Fds
  /\ \A fd \in Fds : fd = 0 \/ fd \in 1 .. server_fd \/ fd > server_fd
<1>1. Cardinality(Clients) \in Nat
  BY ClientsAssumption, FS_CardinalityType
<1>2. server_fd \in {3, 4}
  BY DEF server_fd
<1>3. IsFiniteSet(Fds)
  BY <1>1, FS_Interval DEF Fds
<1> QED BY <1>1, <1>2, <1>3 DEF Fds, STDIN_FILENO

\* A client is nothing else that a descriptor can be.
LEMMA ClientsApart ==
  \A c \in Clients : c \notin {"terminal", "listening", "epoll", "closed"}
  BY ClientsAssumption DEF NoConnection

\* The connections are past the listening socket.
LEMMA ConnectionsApart ==
  ASSUME Kernel, Running
  PROVE  \A fd \in Connections : fd \in Fds /\ fd > server_fd
<1> SUFFICES ASSUME NEW fd \in Connections PROVE fd \in Fds /\ fd > server_fd
  OBVIOUS
<1>1. fd \in Fds /\ desc[fd] \in Clients
  BY DEF Connections
<1>2. fd # 0 /\ fd \notin 1 .. server_fd
  BY <1>1, ClientsApart DEF Kernel
<1> QED BY <1>1, <1>2, Numbering

\* There are finitely many connections.
LEMMA ConnectionsFinite ==
  IsFiniteSet(Connections) /\ Cardinality(Connections) \in Nat
<1>1. Connections \in SUBSET Fds
  BY DEF Connections
<1> QED BY <1>1, Numbering, FS_Subset, FS_CardinalityType

\* There are descriptors for all clients, and one that waits in the backlog has
\* none: accept never runs out of them.
LEMMA DescriptorLeft ==
  ASSUME Typed, Kernel, Running, backlog # <<>>
  PROVE  \E fd \in Fds : fd > server_fd /\ desc[fd] = "closed"
<1> SUFFICES ASSUME \A fd \in Fds : fd > server_fd => desc[fd] # "closed" PROVE FALSE
  OBVIOUS
<1>1. PICK first : first = server_fd + 1
  OBVIOUS
<1>2. PICK last : last = 4 + Cardinality(Clients)
  OBVIOUS
<1>3. PICK c : c = Head(backlog)
  OBVIOUS
<1>4. c \in Clients /\ 1 \in DOMAIN backlog /\ backlog[1] = c
  BY <1>3, EmptySeq DEF Typed
<1>5. first \in {4, 5} /\ last \in Nat /\ last >= 4
  BY <1>1, <1>2, Numbering
<1> DEFINE S == first .. last
<1>6. \A fd \in S : fd \in Fds /\ fd > server_fd
  BY <1>1, <1>2, <1>5, Numbering DEF Fds
<1>7. PICK f : f = [fd \in S |-> desc[fd]]
  OBVIOUS
<1>8. f \in [S -> Clients \ {c}]
  BY <1>4, <1>6, <1>7 DEF Kernel
<1>9. IsFiniteSet(S) /\ Cardinality(S) = IF first > last THEN 0 ELSE last - first + 1
  <2>1. first \in Int /\ last \in Int
    BY <1>5
  <2> QED BY <2>1, FS_Interval
<1>10. IsFiniteSet(Clients \ {c}) /\ Cardinality(Clients \ {c}) = Cardinality(Clients) - 1
  BY <1>4, ClientsAssumption, FS_RemoveElement
<1>11. Cardinality(Clients \ {c}) \in Nat
  BY <1>10, FS_CardinalityType
<1>12. Cardinality(Clients \ {c}) < Cardinality(S)
  BY <1>2, <1>5, <1>9, <1>10, <1>11, Numbering
<1> HIDE DEF S
<1>13. PICK a, b \in S : a # b /\ f[a] = f[b]
  BY <1>8, <1>9, <1>10, <1>12, FS_PigeonHole
<1>14. f[a] = desc[a] /\ f[b] = desc[b]
  BY <1>7
<1>15. a \in Connections /\ b \in Connections
  BY <1>6, <1>8, <1>14 DEF Connections
<1> QED BY <1>13, <1>14, <1>15 DEF Kernel

\* The descriptor accept takes, when the keyboard has not been closed.
LEMMA LowestFreed ==
  ASSUME Typed, Kernel, Running, backlog # <<>>, desc[0] # "closed"
  PROVE  LowestFree \in Fds /\ desc[LowestFree] = "closed" /\ LowestFree > server_fd
<1> DEFINE S == {fd \in Fds : desc[fd] = "closed"}
<1>1. S \in SUBSET Nat /\ S # {}
  BY DescriptorLeft, Numbering
<1>2. LowestFree \in S
  BY <1>1, LeastNumber DEF LowestFree
<1>3. LowestFree # 0 /\ LowestFree \notin 1 .. server_fd
  BY <1>2 DEF Kernel
<1> QED BY <1>2, <1>3, Numbering

-----------------------------------------------------------------------------
(* What a step may do to the descriptors and the connections. *)

\* Nothing, but for what clients do once they are connected.
Same ==
  /\ desc' = desc /\ backlog' = backlog
  /\ \A c \in Clients : client'[c] = "away" <=> client[c] = "away"

\* connect, accept and close.
Connects(c) ==
  /\ client[c] = "away"
  /\ client' = [client EXCEPT ![c] = "reading"]
  /\ backlog' = Append(backlog, c)
  /\ desc' = desc

Accepts ==
  /\ backlog # <<>>
  /\ backlog' = Tail(backlog)
  /\ desc' = [desc EXCEPT ![LowestFree] = Head(backlog)]
  /\ client' = [client EXCEPT ![Head(backlog)] = IF HasLeft(Head(backlog)) THEN "reset" ELSE @]

Closes(fd) ==
  /\ fd \in Fds /\ (fd = 0 \/ fd > server_fd)
  /\ desc' = [desc EXCEPT ![fd] = "closed"]
  /\ backlog' = backlog /\ client' = client

\* What clients do once they are connected keeps the invariant.
LEMMA SameKernel ==
  ASSUME Typed, Kernel, Running, kind' = kind, Same
  PROVE  Kernel' /\ Connections' = Connections
<1>1. Connections' = Connections
  BY DEF Connections, Same, Fds
<1>2. server_fd' = server_fd /\ Fds' = Fds
  BY DEF server_fd, Fds
<1>3. \A k \in DOMAIN backlog : backlog[k] \in Clients
  BY DEF Typed
<1>4. \A fd \in Connections : desc[fd] \in Clients
  BY DEF Connections
<1> QED BY <1>1, <1>2, <1>3, <1>4 DEF Kernel, Same

\* So does connect, which opens no descriptor.
LEMMA ConnectKernel ==
  ASSUME Typed, Kernel, Running, kind' = kind, NEW c \in Clients, Connects(c)
  PROVE  Kernel' /\ Connections' = Connections
<1>1. Connections' = Connections
  BY DEF Connections, Connects, Fds
<1>2. server_fd' = server_fd /\ Fds' = Fds
  BY DEF server_fd, Fds
<1>3. \A k \in DOMAIN backlog : backlog[k] \in Clients
  BY DEF Typed
<1>4. \A fd \in Connections : desc[fd] \in Clients
  BY DEF Connections
<1>5. \A d \in Clients : client'[d] = IF d = c THEN "reading" ELSE client[d]
  BY DEF Typed, Connects
<1>6. /\ DOMAIN backlog' = 1 .. Len(backlog) + 1 /\ DOMAIN backlog = 1 .. Len(backlog)
      /\ Len(backlog) \in Nat
      /\ \A k \in DOMAIN backlog' :
           backlog'[k] = IF k = Len(backlog) + 1 THEN c ELSE backlog[k]
  BY DEF Typed, Connects
<1>7. \A k \in DOMAIN backlog : backlog[k] # c
  BY <1>3 DEF Kernel, Connects
<1>8. \A fd \in Fds : desc[fd] # c
  BY <1>4 DEF Kernel, Connects, Connections
<1>9. \A k, l \in DOMAIN backlog' : backlog'[k] = backlog'[l] => k = l
  <2> SUFFICES ASSUME NEW k \in DOMAIN backlog', NEW l \in DOMAIN backlog',
                      backlog'[k] = backlog'[l], k # l
               PROVE  FALSE
    OBVIOUS
  <2>1. CASE k \in DOMAIN backlog /\ l \in DOMAIN backlog
    <3>1. backlog[k] = backlog[l]
      BY <1>6, <2>1
    <3> QED BY <2>1, <3>1 DEF Kernel, Running
  <2>2. CASE k = Len(backlog) + 1 /\ l \in DOMAIN backlog
    BY <1>6, <1>7, <2>2
  <2>3. CASE l = Len(backlog) + 1 /\ k \in DOMAIN backlog
    BY <1>6, <1>7, <2>3
  <2> QED BY <1>6, <2>1, <2>2, <2>3
<1>10. \A k \in DOMAIN backlog' :
         client'[backlog'[k]] # "away" /\ \A fd \in Fds : desc[fd] # backlog'[k]
  <2> SUFFICES ASSUME NEW k \in DOMAIN backlog'
               PROVE  client'[backlog'[k]] # "away" /\ \A fd \in Fds : desc[fd] # backlog'[k]
    OBVIOUS
  <2>1. CASE k = Len(backlog) + 1
    BY <1>5, <1>6, <1>8, <2>1
  <2>2. CASE k \in DOMAIN backlog
    <3>1. backlog'[k] = backlog[k]
      BY <1>6, <2>2
    <3> QED BY <1>3, <1>5, <2>2, <3>1 DEF Kernel
  <2> QED BY <1>6, <2>1, <2>2
<1>11. \A fd \in Connections : client'[desc[fd]] # "away"
  BY <1>4, <1>5 DEF Kernel
<1>12. desc' = desc
  BY DEF Connects
<1> QED BY <1>1, <1>2, <1>9, <1>10, <1>11, <1>12 DEF Kernel

\* So does close, of a connection or the keyboard.
LEMMA CloseKernel ==
  ASSUME Typed, Kernel, Running, kind' = kind, NEW fd, Closes(fd)
  PROVE  Kernel' /\ Connections' = Connections \ {fd}
<1>1. \A g \in Fds : desc'[g] = IF g = fd THEN "closed" ELSE desc[g]
  BY DEF Typed, Closes
<1>2. server_fd' = server_fd /\ Fds' = Fds
  BY DEF server_fd, Fds
<1>3. Connections' = Connections \ {fd}
  BY <1>1, <1>2, ClientsApart DEF Connections
<1>4. \A k \in DOMAIN backlog : backlog[k] \in Clients
  BY DEF Typed
<1>5. \A g \in 1 .. server_fd : g \in Fds /\ g # fd
  BY Numbering DEF Fds, Closes
<1>6. \A g \in Fds : g > server_fd => desc'[g] \in Clients \cup {"closed"}
  BY <1>1 DEF Kernel
<1>7. \A g \in 1 .. server_fd : desc'[g] \notin Clients \cup {"closed"}
  BY <1>1, <1>5 DEF Kernel
<1>8. desc'[0] \in {"terminal", "closed"}
  BY <1>1, Numbering DEF Kernel, STDIN_FILENO
<1>9. \A a, b \in Connections' : desc'[a] = desc'[b] => a = b
  <2>1. \A a \in Connections' : a \in Connections /\ desc'[a] = desc[a]
    BY <1>1, <1>3 DEF Connections
  <2> QED BY <2>1 DEF Kernel
<1>10. \A k \in DOMAIN backlog : \A g \in Fds : desc'[g] # backlog[k]
  BY <1>1, <1>4, ClientsApart DEF Kernel
<1>11. \A a \in Connections' : client[desc'[a]] # "away"
  BY <1>1, <1>3 DEF Kernel, Connections
<1> QED BY <1>2, <1>3, <1>6, <1>7, <1>8, <1>9, <1>10, <1>11 DEF Kernel, Closes

\* So does accept, which opens a connection with the lowest free descriptor.
LEMMA AcceptKernel ==
  ASSUME Typed, Kernel, Running, kind' = kind, desc[0] # "closed", Accepts
  PROVE  /\ Kernel' /\ desc'[0] # "closed"
         /\ LowestFree \in Fds \ Connections /\ LowestFree > server_fd
         /\ Connections' = Connections \cup {LowestFree}
         /\ Head(backlog) \in Clients
<1>1. PICK new : new = LowestFree
  OBVIOUS
<1>2. PICK c : c = Head(backlog)
  OBVIOUS
<1>3. new \in Fds /\ desc[new] = "closed" /\ new > server_fd
  BY <1>1, LowestFreed DEF Accepts
<1>4. c \in Clients /\ 1 \in DOMAIN backlog /\ backlog[1] = c
  BY <1>2, EmptySeq DEF Typed, Accepts
<1>5. \A g \in Fds : desc'[g] = IF g = new THEN c ELSE desc[g]
  BY <1>1, <1>2 DEF Typed, Accepts
<1>6. server_fd' = server_fd /\ Fds' = Fds
  BY DEF server_fd, Fds
<1>7. Connections' = Connections \cup {new}
  BY <1>3, <1>4, <1>5, <1>6 DEF Connections
<1>8. /\ Len(backlog) \in Nat \ {0} /\ DOMAIN backlog = 1 .. Len(backlog)
      /\ DOMAIN backlog' = 1 .. Len(backlog) - 1
      /\ \A k \in DOMAIN backlog' : k \in Nat /\ backlog'[k] = backlog[k + 1]
  BY EmptySeq, HeadTailProperties DEF Typed, Accepts
<1>9. \A k \in DOMAIN backlog' : k + 1 \in DOMAIN backlog /\ backlog'[k] \in Clients
                                 /\ backlog'[k] # c
  <2> SUFFICES ASSUME NEW k \in DOMAIN backlog'
               PROVE  k + 1 \in DOMAIN backlog /\ backlog'[k] \in Clients /\ backlog'[k] # c
    OBVIOUS
  <2>1. k + 1 \in DOMAIN backlog /\ k + 1 # 1 /\ backlog'[k] = backlog[k + 1]
    BY <1>8
  <2>2. backlog[k + 1] \in Clients
    BY <2>1 DEF Typed
  <2>3. backlog[k + 1] # c
    BY <1>4, <2>1 DEF Kernel
  <2> QED BY <2>1, <2>2, <2>3
<1>10. \A d \in Clients : client'[d] = "away" <=> client[d] = "away"
  BY <1>2, <1>4 DEF Typed, Accepts, HasLeft
<1>11. \A g \in Fds : g > server_fd => desc'[g] \in Clients \cup {"closed"}
  BY <1>4, <1>5 DEF Kernel
<1>12. \A g \in 1 .. server_fd : desc'[g] \notin Clients \cup {"closed"}
  <2>1. \A g \in 1 .. server_fd : g \in Fds /\ g # new
    BY <1>3, Numbering DEF Fds
  <2> QED BY <1>5, <2>1 DEF Kernel
<1>13. desc'[0] = desc[0]
  BY <1>3, <1>5, Numbering DEF STDIN_FILENO
<1>14. \A g \in Fds : desc[g] # c
  BY <1>4 DEF Kernel
<1>15. \A a, b \in Connections' : desc'[a] = desc'[b] => a = b
  <2>1. \A a \in Connections : a \in Fds /\ a # new
    BY <1>3, ClientsApart DEF Connections
  <2> QED BY <1>3, <1>5, <1>7, <1>14, <2>1 DEF Kernel
<1>16. \A k, l \in DOMAIN backlog' : backlog'[k] = backlog'[l] => k = l
  <2> SUFFICES ASSUME NEW k \in DOMAIN backlog', NEW l \in DOMAIN backlog',
                      backlog'[k] = backlog'[l]
               PROVE  k = l
    OBVIOUS
  <2>1. backlog[k + 1] = backlog[l + 1] /\ k + 1 \in DOMAIN backlog /\ l + 1 \in DOMAIN backlog
    BY <1>8, <1>9
  <2>2. k + 1 = l + 1
    BY <2>1 DEF Kernel
  <2> QED BY <1>8, <2>2
<1>17. \A k \in DOMAIN backlog' :
         client'[backlog'[k]] # "away" /\ \A g \in Fds : desc'[g] # backlog'[k]
  <2> SUFFICES ASSUME NEW k \in DOMAIN backlog'
               PROVE  client'[backlog'[k]] # "away" /\ \A g \in Fds : desc'[g] # backlog'[k]
    OBVIOUS
  <2>1. k + 1 \in DOMAIN backlog /\ backlog'[k] = backlog[k + 1] /\ backlog'[k] \in Clients
        /\ backlog'[k] # c
    BY <1>8, <1>9
  <2>2. client[backlog[k + 1]] # "away" /\ \A g \in Fds : desc[g] # backlog[k + 1]
    BY <2>1 DEF Kernel
  <2> QED BY <1>5, <1>10, <2>1, <2>2
<1>18. \A a \in Connections' : client'[desc'[a]] # "away"
  <2>1. client[c] # "away"
    BY <1>4 DEF Kernel
  <2>2. \A a \in Connections : a \in Fds /\ desc[a] \in Clients /\ client[desc[a]] # "away"
    BY DEF Kernel, Connections
  <2> QED BY <1>3, <1>4, <1>5, <1>7, <1>10, <2>1, <2>2
<1>19. Kernel'
  <2>1. desc'[0] \in {"terminal", "closed"}
    BY <1>13 DEF Kernel
  <2> QED BY <1>6, <1>11, <1>12, <2>1, <1>15, <1>16, <1>17, <1>18 DEF Kernel
<1>20. new \notin Connections
  BY <1>3, ClientsApart DEF Connections
<1> QED BY <1>1, <1>2, <1>3, <1>4, <1>7, <1>13, <1>19, <1>20

-----------------------------------------------------------------------------
(* What has been read when a connection goes. *)

\* When nothing is left to read, all that was written has been taken.
LEMMA AllRead ==
  ASSUME Typed, NEW c \in Clients, Unread(c) = <<>>
  PROVE  taken[c] = sent[c]
<1>1. taken[c] \in Nat /\ sent[c] \in Nat /\ taken[c] <= sent[c] /\ sent[c] <= Len(Text[c])
  BY DEF Typed
<1>2. Text[c] \in Seq({"line", "quit"})
  BY TextAssumption
<1>3. PICK s : s = Text[c]
  OBVIOUS
<1>4. SUFFICES ASSUME taken[c] + 1 <= sent[c] PROVE FALSE
  BY <1>1
<1>5. Len(SubSeq(s, taken[c] + 1, sent[c])) = sent[c] - (taken[c] + 1) + 1
  BY <1>1, <1>2, <1>3, <1>4, SubSeqProperties
<1>6. Len(SubSeq(s, taken[c] + 1, sent[c])) = 0
  BY <1>3, EmptySeq DEF Unread
<1> QED BY <1>1, <1>4, <1>5, <1>6

\* The server's end of a connection goes only when its descriptor is closed.
LEMMA SameGone ==
  ASSUME Same
  PROVE  \A c \in Clients : Gone(c)' => Gone(c)
  BY DEF Same, Gone, IsOpen, Contains, Fds

\* connect leaves no connection given up that was not.
LEMMA ConnectGone ==
  ASSUME Typed, NEW d \in Clients, Connects(d)
  PROVE  \A c \in Clients : Gone(c)' => Gone(c)
<1> SUFFICES ASSUME NEW c \in Clients, Gone(c)' PROVE Gone(c)
  OBVIOUS
<1>1. Len(backlog') = Len(backlog) + 1 /\ Len(backlog) \in Nat
      /\ \A k \in 1 .. Len(backlog') :
           backlog'[k] = IF k = Len(backlog) + 1 THEN d ELSE backlog[k]
  BY DEF Typed, Connects
<1>2. ~\E k \in 1 .. Len(backlog') : backlog'[k] = c
  BY DEF Gone, Contains
<1>3. c # d
  <2>1. Len(backlog) + 1 \in 1 .. Len(backlog') /\ backlog'[Len(backlog) + 1] = d
    BY <1>1
  <2> QED BY <1>2, <2>1
<1>4. ~Contains(backlog, c)
  <2>1. \A k \in 1 .. Len(backlog) : k \in 1 .. Len(backlog') /\ backlog'[k] = backlog[k]
    BY <1>1
  <2> QED BY <1>2, <2>1 DEF Contains
<1>5. client'[c] = client[c]
  BY <1>3 DEF Connects, Typed
<1>6. desc' = desc
  BY DEF Connects
<1> QED BY <1>4, <1>5, <1>6 DEF Gone, IsOpen, Fds

\* Nor does accept.
LEMMA AcceptGone ==
  ASSUME Typed, Kernel, Running, desc[0] # "closed", Accepts
  PROVE  \A c \in Clients : Gone(c)' => Gone(c)
<1> SUFFICES ASSUME NEW c \in Clients, Gone(c)' PROVE Gone(c)
  OBVIOUS
<1>1. PICK new : new = LowestFree
  OBVIOUS
<1>2. PICK d : d = Head(backlog)
  OBVIOUS
<1>3. new \in Fds /\ desc[new] = "closed"
  BY <1>1, LowestFreed DEF Accepts
<1>4. d \in Clients /\ d = backlog[1]
  BY <1>2, EmptySeq DEF Typed, Accepts
<1>5. \A g \in Fds : desc'[g] = IF g = new THEN d ELSE desc[g]
  BY <1>1, <1>2 DEF Typed, Accepts
<1>6. ~\E g \in Fds : desc'[g] = c
  BY DEF Gone, IsOpen, Fds
<1>7. c # d
  BY <1>3, <1>5, <1>6
<1>8. ~IsOpen(c)
  BY <1>3, <1>5, <1>6, ClientsApart DEF IsOpen
<1>9. client'[c] = client[c]
  BY <1>2, <1>7 DEF Typed, Accepts
<1>10. Len(backlog) \in Nat \ {0} /\ Len(backlog') = Len(backlog) - 1
       /\ \A k \in 1 .. Len(backlog) - 1 : k \in Nat /\ backlog'[k] = backlog[k + 1]
  BY EmptySeq, HeadTailProperties DEF Typed, Accepts
<1>11. ~Contains(backlog, c)
  <2> SUFFICES ASSUME NEW k \in 1 .. Len(backlog), backlog[k] = c PROVE FALSE
    BY DEF Contains
  <2>1. k # 1
    BY <1>4, <1>7
  <2>2. k - 1 \in 1 .. Len(backlog) - 1 /\ backlog'[k - 1] = c
    <3>1. k - 1 \in 1 .. Len(backlog) - 1 /\ (k - 1) + 1 = k
      BY <1>10, <2>1
    <3> QED BY <1>10, <3>1
  <2> QED BY <1>10, <2>2 DEF Gone, Contains
<1> QED BY <1>8, <1>9, <1>11 DEF Gone

\* close gives up the one connection it closes.
LEMMA CloseGone ==
  ASSUME Typed, NEW fd, Closes(fd)
  PROVE  \A c \in Clients : Gone(c)' => Gone(c) \/ desc[fd] = c
<1>1. \A g \in Fds : desc'[g] = IF g = fd THEN "closed" ELSE desc[g]
  BY DEF Typed, Closes
<1>2. Fds' = Fds
  BY DEF Fds
<1> QED BY <1>1, <1>2 DEF Gone, IsOpen, Closes

\* Then the rule holds on when nobody is newly gone with something unread.
LEMMA NothingMoreUnread ==
  ASSUME ReadBeforeClosed, kind' = kind, pc' # "ended" => pc # "ended",
         \A c \in Clients :
           Gone(c)' /\ taken'[c] # sent'[c] => Gone(c) /\ taken[c] # sent[c],
         overlapped => overlapped',
         (\E n \in 1 .. got : typed[n] = "eof") => \E n \in 1 .. got' : typed'[n] = "eof"
  PROVE  ReadBeforeClosed'
  BY DEF ReadBeforeClosed

-----------------------------------------------------------------------------
(* poll-server.c. *)

\* The slot the loop is at.
LEMMA AtTheSlot ==
  ASSUME Typed, PollInv, kind = "poll", AtSlot
  PROVE  /\ slot \in Nat /\ slot \in 0 .. nfds - 1 /\ slot \in Slots
         /\ fds[slot] \in [fd : Fds, revents : Events] /\ fd_i = fds[slot].fd
         /\ fd_i = 0 \/ fd_i >= server_fd
         /\ PeerGone => slot >= 2 /\ fd_i > server_fd /\ nfds >= 3
<1>1. nfds \in Nat /\ nfds <= FDSSIZE /\ i \in Nat
  BY SlotsAssumption DEF PollInv
<1>2. Left \in SUBSET Nat /\ Left # {}
  BY <1>1 DEF Left, AtSlot
<1>3. PICK s : s = slot
  OBVIOUS
<1>4. s \in Left
  BY <1>2, <1>3, LeastNumber DEF slot
<1>5. s \in Nat /\ s \in 0 .. nfds - 1 /\ s \in Slots
  BY <1>1, <1>4, SlotsAssumption DEF Left, Slots
<1>6. fds[s] \in [fd : Fds, revents : Events]
  BY <1>5 DEF PollInv
<1>7. s = 0 \/ s = 1 \/ s \in 2 .. nfds - 1
  BY <1>1, <1>5
<1>8. /\ s = 0 => fds[s].fd = 0 /\ "rdhup" \notin fds[s].revents
      /\ s = 1 => fds[s].fd = server_fd /\ "rdhup" \notin fds[s].revents
      /\ s \in 2 .. nfds - 1 => fds[s].fd > server_fd
  BY DEF PollInv, STDIN_FILENO
<1>9. fds[s].fd \in Nat /\ server_fd \in Nat
  BY <1>6, Numbering
<1>10. fds[s].fd = 0 \/ fds[s].fd >= server_fd
  BY <1>7, <1>8, <1>9
<1>11. "rdhup" \in fds[s].revents => s >= 2 /\ fds[s].fd > server_fd /\ nfds >= 3
  BY <1>1, <1>5, <1>7, <1>8
<1> QED BY <1>3, <1>5, <1>6, <1>10, <1>11 DEF fd_i, PeerGone

\* Steps that leave the slots and the connections as they are.
LEMMA SlotsSame ==
  ASSUME PollInv, kind = "poll", kind' = kind, Fds' = Fds, server_fd' = server_fd,
         nfds' = nfds, fds' = fds, i' \in Nat, pc' = pc, overlapped' = overlapped,
         Connections' = Connections, desc'[0] = "closed" => desc[0] = "closed"
  PROVE  PollInv'
  BY DEF PollInv, Running, Slots, Events

\* poll-server.c keeps its slots and reads what a client wrote.
LEMMA PollKept ==
  ASSUME IInv, PollRuns
  PROVE  IInv'
<1>1. kind = "poll" /\ kind' = kind /\ Typed /\ Kernel /\ PollInv /\ ReadBeforeClosed
  BY DEF IInv, PollRuns
<1>2. Fds' = Fds /\ server_fd' = server_fd
  BY <1>1 DEF Fds, server_fd
<1>3. SelectInv' /\ EpollInv'
  BY <1>1 DEF SelectInv, EpollInv
<1>4. SUFFICES Typed' /\ Kernel' /\ PollInv' /\ ReadBeforeClosed'
  BY <1>3 DEF IInv
<1>5. pc \in {"loop", "ended", "crashed"} /\ nfds \in Nat /\ nfds >= 2 /\ nfds <= FDSSIZE
  BY <1>1, SlotsAssumption DEF PollInv, Typed
<1>6. CASE Poll
  <2>1. pc = "loop" /\ pc' = pc /\ Running /\ Running' /\ overlapped' = overlapped
        /\ nfds' = nfds /\ i' = 0 /\ UNCHANGED socketVars
    BY <1>6 DEF Poll, Running
  <2>2. Typed' /\ Same
    BY <1>1, <1>2, <2>1 DEF Typed, Same, socketVars, clientVars
  <2>3. Kernel' /\ Connections' = Connections
    BY <1>1, <2>1, <2>2, SameKernel
  <2>4. ReadBeforeClosed'
    BY <1>1, <2>1, <2>2, SameGone, NothingMoreUnread DEF socketVars, clientVars
  <2>5. /\ fds' \in [Slots -> [fd : Fds, revents : Events]]
        /\ \A s \in Slots : fds'[s].fd = fds[s].fd
        /\ \A s \in 0 .. nfds - 1 : fds'[s].revents = Returned(fds[s].fd)
    <3>1. \A s \in Slots : fds[s] \in [fd : Fds, revents : Events]
      BY <1>1 DEF PollInv
    <3>2. \A fd : Returned(fd) \in Events
      BY DEF Returned, Events
    <3>3. \A s \in 0 .. nfds - 1 : s \in Slots /\ s < nfds
      BY <1>5, SlotsAssumption DEF Slots
    <3>4. fds' = [s \in Slots |-> IF s < nfds
                                  THEN [fds[s] EXCEPT !.revents = Returned(fds[s].fd)]
                                  ELSE fds[s]]
      BY <1>6 DEF Poll
    <3> HIDE DEF Returned, Events
    <3> QED BY <3>1, <3>2, <3>3, <3>4
  <2>6. \A fd \in Fds : ~(fd > server_fd) => "rdhup" \notin Returned(fd)
    BY <1>1, <2>1, ConnectionsApart DEF Returned, PeerLeft, Connections
  <2>7. 0 \in Slots /\ 1 \in Slots /\ 0 \in 0 .. nfds - 1 /\ 1 \in 0 .. nfds - 1
        /\ \A s \in 2 .. nfds - 1 : s \in Slots
    BY <1>5, SlotsAssumption DEF Slots
  <2>8. /\ fds'[0].fd = STDIN_FILENO /\ fds'[1].fd = server_fd
        /\ "rdhup" \notin fds'[0].revents /\ "rdhup" \notin fds'[1].revents
    <3>1. fds[0].fd = STDIN_FILENO /\ fds[1].fd = server_fd
      BY <1>1 DEF PollInv
    <3> QED BY <2>5, <2>6, <2>7, <3>1, Numbering DEF STDIN_FILENO
  <2>9. {fds'[s].fd : s \in 2 .. nfds' - 1} = {fds[s].fd : s \in 2 .. nfds - 1}
    BY <2>1, <2>5, <2>7
  <2>10. desc' = desc
    BY <2>2 DEF Same
  <2> QED BY <1>1, <1>2, <2>1, <2>2, <2>3, <2>4, <2>5, <2>7, <2>8, <2>9, <2>10
          DEF PollInv, Running, Slots, Events
<1>7. CASE HangUpRead
  <2>1. AtSlot /\ pc = "loop" /\ pc' = pc /\ Running /\ Running' /\ overlapped' = overlapped
        /\ UNCHANGED <<pollVars, clientVars, backlog, typed, got, desc>>
    BY <1>7 DEF HangUpRead, PeerGone, AtSlot, Running, Take
  <2>2. PICK c : c = desc[fd_i]
    OBVIOUS
  <2>3. c \in Clients /\ taken' = [taken EXCEPT ![c] = sent[c]]
    BY <1>7, <2>2 DEF HangUpRead, Take
  <2>4. Same /\ Typed'
    BY <1>1, <1>2, <2>1, <2>3 DEF Typed, Same, clientVars
  <2>5. Kernel' /\ Connections' = Connections
    BY <1>1, <2>1, <2>4, SameKernel
  <2>6. ReadBeforeClosed'
    <3>1. \A d \in Clients : taken'[d] # sent'[d] => taken[d] # sent[d]
      BY <1>1, <2>1, <2>3 DEF Typed, clientVars
    <3> QED BY <1>1, <2>1, <2>4, <3>1, SameGone, NothingMoreUnread
  <2>7. PollInv'
    BY <1>1, <1>2, <2>1, <2>5, SlotsSame DEF pollVars, PollInv
  <2> QED BY <2>4, <2>5, <2>6, <2>7
<1>8. CASE HangUpQuit \/ HangUp
  <2>1. PICK g : g = fd_i
    OBVIOUS
  <2>2. PICK s : s = slot
    OBVIOUS
  <2>3. AtSlot /\ PeerGone
    BY <1>8 DEF HangUpQuit, HangUp, PeerGone
  <2>4. g \in Fds /\ g > server_fd /\ nfds >= 3 /\ s \in 2 .. nfds - 1 /\ g = fds[s].fd /\ s \in Nat
    BY <1>1, <1>5, <2>1, <2>2, <2>3, AtTheSlot
  <2>5. /\ pc = "loop" /\ pc' = pc /\ Running /\ Running' /\ overlapped' = overlapped
        /\ nfds' = nfds - 1 /\ i' = s + 1 /\ fds' = fds /\ Closes(g)
        /\ client' = client /\ sent' = sent /\ typed' = typed /\ got' = got
    <3>1. CASE HangUpQuit
      BY <1>5, <2>1, <2>2, <2>4, <3>1
         DEF HangUpQuit, PeerGone, AtSlot, Running, DropSlot, Closes, clientVars
    <3>2. CASE HangUp
      BY <1>5, <2>1, <2>2, <2>4, <3>2
         DEF HangUp, PeerGone, AtSlot, Running, DropSlot, Close, Closes, clientVars
    <3> QED BY <1>8, <3>1, <3>2
  <2>6. \A d \in Clients : taken'[d] # sent'[d] => taken[d] # sent[d] /\ desc[g] # d
    <3>1. CASE HangUpQuit
      <4>1. PICK c : c = desc[g]
        OBVIOUS
      <4>2. c \in Clients /\ taken' = [taken EXCEPT ![c] = sent[c]]
        BY <2>1, <3>1, <4>1 DEF HangUpQuit
      <4> QED BY <1>1, <2>5, <4>1, <4>2 DEF Typed
    <3>2. CASE HangUp
      <4>1. taken' = taken
        BY <3>2 DEF HangUp, Close
      <4>2. ASSUME NEW d \in Clients, desc[g] = d PROVE taken[d] = sent[d]
        <5>1. Unread(d) = <<>>
          BY <2>1, <3>2, <4>2 DEF HangUp, ReadToTheEnd
        <5> QED BY <1>1, <5>1, AllRead
      <4> QED BY <2>5, <4>1, <4>2
    <3> QED BY <1>8, <3>1, <3>2
  <2>7. Typed'
    <3>1. taken' \in [Clients -> Nat] /\ \A d \in Clients : taken'[d] <= sent'[d]
      <4>1. CASE HangUpQuit
        <5>1. PICK c : c = desc[g]
          OBVIOUS
        <5>2. c \in Clients /\ taken' = [taken EXCEPT ![c] = sent[c]]
          BY <2>1, <4>1, <5>1 DEF HangUpQuit
        <5> QED BY <1>1, <2>5, <5>2 DEF Typed
      <4>2. CASE HangUp
        <5>1. taken' = taken
          BY <4>2 DEF HangUp, Close
        <5> QED BY <1>1, <2>5, <5>1 DEF Typed
      <4> QED BY <1>8, <4>1, <4>2
    <3> QED BY <1>1, <1>2, <2>5, <3>1 DEF Typed, Closes, NoConnection
  <2>8. Kernel' /\ Connections' = Connections \ {g}
    BY <1>1, <2>5, CloseKernel
  <2>9. ReadBeforeClosed'
    BY <1>1, <2>5, <2>6, CloseGone, NothingMoreUnread
  <2>10. nfds' - 2 <= Cardinality(Connections')
    <3>1. Cardinality(Connections \ {g}) >= Cardinality(Connections) - 1
      BY ConnectionsFinite, FS_RemoveElement
    <3>2. nfds - 2 <= Cardinality(Connections)
      BY <1>1, <2>5 DEF PollInv
    <3>3. Cardinality(Connections \ {g}) \in Nat
      BY ConnectionsFinite, FS_RemoveElement, FS_CardinalityType
    <3> QED BY <1>5, <2>5, <2>8, <3>1, <3>2, <3>3, ConnectionsFinite
  <2>11. ~overlapped => nfds' <= 3 /\ Connections' = {fds[k].fd : k \in 2 .. nfds' - 1}
    <3> SUFFICES ASSUME ~overlapped
                 PROVE  nfds' <= 3 /\ Connections' = {fds[k].fd : k \in 2 .. nfds' - 1}
      OBVIOUS
    <3>1. nfds <= 3 /\ Connections = {fds[k].fd : k \in 2 .. nfds - 1}
      BY <1>1, <2>5 DEF PollInv
    <3>2. nfds = 3 /\ s = 2 /\ 2 .. nfds - 1 = {2} /\ nfds' = 2 /\ 2 .. nfds' - 1 = {}
      BY <1>5, <2>4, <2>5, <3>1
    <3>3. Connections = {g}
      BY <2>4, <3>1, <3>2
    <3> QED BY <2>8, <3>2, <3>3
  <2>12. desc'[0] = desc[0] /\ 0 \in Fds
    BY <1>1, <2>4, <2>5, Numbering DEF Closes, Typed, STDIN_FILENO
  <2>13. nfds' \in 2 .. FDSSIZE /\ i' \in Nat /\ \A k \in 2 .. nfds' - 1 : k \in 2 .. nfds - 1
    BY <1>5, <2>4, <2>5, SlotsAssumption
  <2>14. PollInv'
    BY <1>1, <1>2, <2>5, <2>10, <2>11, <2>12, <2>13 DEF PollInv, Running, Slots, Events
  <2> QED BY <2>7, <2>8, <2>9, <2>14
<1>9. CASE PollAccept \/ PollAcceptOverrun
  <2>1. PICK new : new = LowestFree
    OBVIOUS
  <2>2. AtSlot /\ pc = "loop" /\ Running /\ Running' /\ Accepts
        /\ overlapped' = (overlapped \/ Connections # {}) /\ sent' = sent /\ taken' = taken
        /\ typed' = typed /\ got' = got
    <3>1. AtSlot /\ AcceptConnection
      BY <1>9 DEF PollAccept, PollAcceptOverrun, HasInput
    <3>2. pc' \in {"loop", "crashed"}
      BY <1>9, <3>1 DEF PollAccept, PollAcceptOverrun, AtSlot
    <3> QED BY <3>1, <3>2 DEF AcceptConnection, Accepts, AtSlot, Running
  <2>3. desc[0] # "closed"
    BY <1>1, <2>2 DEF PollInv
  <2>4. /\ Kernel' /\ desc'[0] # "closed"
        /\ new \in Fds \ Connections /\ new > server_fd
        /\ Connections' = Connections \cup {new}
        /\ Head(backlog) \in Clients
    BY <1>1, <2>1, <2>2, <2>3, AcceptKernel
  <2>5. Typed'
    <3>1. pc' \in {"loop", "crashed"}
      BY <1>9, <2>2 DEF PollAccept, PollAcceptOverrun
    <3>2. client' \in [Clients -> {"away", "reading", "writing", "closed", "reset"}]
      BY <1>1, <2>2, <2>4 DEF Typed, Accepts
    <3>3. desc' \in [Fds -> Clients \cup NoConnection] /\ backlog' \in Seq(Clients)
      BY <1>1, <2>2, <2>4, EmptySeq, HeadTailProperties DEF Typed, Accepts
    <3> QED BY <1>1, <1>2, <2>2, <3>1, <3>2, <3>3 DEF Typed
  <2>6. ReadBeforeClosed'
    BY <1>1, <2>2, <2>3, AcceptGone, NothingMoreUnread DEF Running
  <2>7. Cardinality(Connections') = Cardinality(Connections) + 1
    BY <2>4, ConnectionsFinite, FS_AddElement
  <2>8. nfds - 2 <= Cardinality(Connections) /\ Cardinality(Connections) \in Nat
    BY <1>1, <2>2, ConnectionsFinite DEF PollInv
  <2>9. CASE PollAccept
    <3>1. nfds < FDSSIZE /\ nfds' = nfds + 1 /\ i' = slot + 1 /\ pc' = "loop"
          /\ fds' = [fds EXCEPT ![nfds].fd = new]
      BY <2>1, <2>2, <2>9 DEF PollAccept, SlotsLeft
    <3>2. i' \in Nat
      BY <1>1, <2>2, <3>1, AtTheSlot
    <3>3. nfds \in Slots /\ 0 \in Slots /\ 1 \in Slots /\ \A s \in 2 .. nfds - 1 : s \in Slots
      BY <1>5, <3>1, SlotsAssumption DEF Slots
    <3>4. fds \in [Slots -> [fd : Fds, revents : Events]]
      BY <1>1 DEF PollInv
    <3>5. /\ fds' \in [Slots -> [fd : Fds, revents : Events]]
          /\ fds'[nfds].fd = new
          /\ \A s \in Slots : s # nfds => fds'[s] = fds[s]
      <4>1. fds[nfds] \in [fd : Fds, revents : Events] /\ new \in Fds
        BY <2>4, <3>3, <3>4
      <4> HIDE DEF Slots, Fds, Events
      <4> QED BY <3>1, <3>3, <3>4, <4>1
    <3>6. /\ fds'[0].fd = STDIN_FILENO /\ fds'[1].fd = server_fd
          /\ "rdhup" \notin fds'[0].revents /\ "rdhup" \notin fds'[1].revents
      BY <1>1, <1>5, <3>3, <3>5 DEF PollInv
    <3>7. \A s \in 2 .. nfds' - 1 : fds'[s].fd = IF s = nfds THEN new ELSE fds[s].fd
      BY <1>5, <3>1, <3>3, <3>5
    <3>8. \A s \in 2 .. nfds' - 1 : fds'[s].fd > server_fd
      <4>1. \A s \in 2 .. nfds' - 1 : s = nfds \/ s \in 2 .. nfds - 1
        BY <1>5, <3>1
      <4> QED BY <1>1, <2>4, <3>7, <4>1 DEF PollInv
    <3>9. nfds' - 2 <= Cardinality(Connections')
      BY <1>5, <2>7, <2>8, <3>1
    <3>10. ~overlapped' => nfds' <= 3 /\ Connections' = {fds'[s].fd : s \in 2 .. nfds' - 1}
      <4> SUFFICES ASSUME ~overlapped'
                   PROVE  nfds' <= 3 /\ Connections' = {fds'[s].fd : s \in 2 .. nfds' - 1}
        OBVIOUS
      <4>1. ~overlapped /\ Connections = {}
        BY <2>2
      <4>2. {fds[s].fd : s \in 2 .. nfds - 1} = {}
        BY <1>1, <2>2, <4>1 DEF PollInv
      <4>3. nfds = 2
        <5>1. nfds > 2 => 2 \in 2 .. nfds - 1
          BY <1>5
        <5>2. ~(nfds > 2)
          BY <4>2, <5>1
        <5> QED BY <1>5, <5>2
      <4>4. 2 .. nfds' - 1 = {2} /\ nfds' = 3
        BY <3>1, <4>3
      <4> QED BY <2>4, <3>5, <4>1, <4>3, <4>4
    <3>11. nfds' \in 2 .. FDSSIZE
      BY <1>5, <3>1, SlotsAssumption
    <3> HIDE DEF Slots
    <3>12. PollInv'
      BY <1>1, <1>2, <2>4, <3>1, <3>2, <3>5, <3>6, <3>8, <3>9, <3>10, <3>11
         DEF PollInv, Running, Slots, Events
    <3> QED BY <2>4, <2>5, <2>6, <3>12
  <2>10. CASE PollAcceptOverrun
    <3>1. ~(nfds < FDSSIZE) /\ nfds' = nfds /\ i' = i /\ pc' = "crashed" /\ fds' = fds
      BY <2>10 DEF PollAcceptOverrun, SlotsLeft, pollVars
    <3>2. Cardinality(Connections') > FDSSIZE - 2 /\ nfds - 2 <= Cardinality(Connections')
      BY <1>5, <2>7, <2>8, <3>1, SlotsAssumption
    <3>3. PollInv'
      BY <1>1, <1>2, <2>4, <3>1, <3>2 DEF PollInv, Running, Slots, Events
    <3> QED BY <2>4, <2>5, <2>6, <3>3
  <2> QED BY <1>9, <2>9, <2>10
<1>10. CASE PollReadTyped
  <2>1. AtSlot /\ pc = "loop" /\ pc' = pc /\ Running /\ Running' /\ overlapped' = overlapped
        /\ UNCHANGED <<fds, nfds, clientVars, taken, backlog, typed, desc>>
    BY <1>10 DEF PollReadTyped, HasInput, AtSlot, Running, TakeTyped
  <2>2. i' \in Nat
    BY <1>1, <1>5, <1>10, <2>1, AtTheSlot DEF PollReadTyped, Quit
  <2>3. Same /\ Typed'
    BY <1>1, <1>2, <2>1 DEF Typed, Same, clientVars
  <2>4. Kernel' /\ Connections' = Connections
    BY <1>1, <2>1, <2>3, SameKernel
  <2>5. ReadBeforeClosed'
    <3>1. \A c \in Clients : ~(Gone(c) /\ taken[c] # sent[c])
      BY <1>1, <2>1 DEF ReadBeforeClosed
    <3> QED BY <1>1, <2>1, <2>3, <3>1, SameGone DEF ReadBeforeClosed, clientVars
  <2>6. PollInv'
    BY <1>1, <1>2, <2>1, <2>2, <2>4, SlotsSame
  <2> QED BY <2>3, <2>4, <2>5, <2>6
<1>11. CASE PollRead
  <2>1. AtSlot /\ pc = "loop" /\ pc' = pc /\ Running /\ Running' /\ overlapped' = overlapped
        /\ UNCHANGED <<fds, nfds, clientVars, backlog, typed, got, desc>>
    BY <1>11 DEF PollRead, HasInput, AtSlot, Running, Take
  <2>2. PICK c : c = desc[fd_i]
    OBVIOUS
  <2>3. c \in Clients /\ taken' = [taken EXCEPT ![c] = sent[c]]
    BY <1>11, <2>2 DEF PollRead, Take
  <2>4. Same /\ Typed'
    BY <1>1, <1>2, <2>1, <2>3 DEF Typed, Same, clientVars
  <2>5. Kernel' /\ Connections' = Connections
    BY <1>1, <2>1, <2>4, SameKernel
  <2>6. ReadBeforeClosed'
    <3>1. \A d \in Clients : taken'[d] # sent'[d] => taken[d] # sent[d]
      BY <1>1, <2>1, <2>3 DEF Typed, clientVars
    <3> QED BY <1>1, <2>1, <2>4, <3>1, SameGone, NothingMoreUnread
  <2>7. i' \in Nat
    BY <1>1, <1>5, <1>11, <2>1, AtTheSlot DEF PollRead, Quit
  <2>8. PollInv'
    BY <1>1, <1>2, <2>1, <2>5, <2>7, SlotsSame
  <2> QED BY <2>4, <2>5, <2>6, <2>8
<1>12. CASE PollReadFails
  <2>1. AtSlot /\ pc = "loop" /\ pc' = pc /\ Running /\ Running' /\ overlapped' = overlapped
        /\ UNCHANGED <<fds, nfds, sent, taken, backlog, typed, got, desc>> /\ i' = nfds
    BY <1>12 DEF PollReadFails, HasInput, AtSlot, Running
  <2>2. PICK c : c = desc[fd_i]
    OBVIOUS
  <2>3. c \in Clients /\ client[c] = "reset" /\ client' = [client EXCEPT ![c] = "closed"]
    BY <1>12, <2>2 DEF PollReadFails
  <2>4. Same /\ Typed'
    BY <1>1, <1>2, <2>1, <2>3 DEF Typed, Same
  <2>5. Kernel' /\ Connections' = Connections
    BY <1>1, <2>1, <2>4, SameKernel
  <2>6. ReadBeforeClosed'
    BY <1>1, <2>1, <2>4, SameGone, NothingMoreUnread
  <2>7. PollInv'
    BY <1>1, <1>2, <1>5, <2>1, <2>5, SlotsSame
  <2> QED BY <2>4, <2>5, <2>6, <2>7
<1>13. CASE PollEnd
  <2>1. pc = "loop" /\ pc' = "ended" /\ ~Running' /\ overlapped' = overlapped
        /\ UNCHANGED <<pollVars, clientVars, taken>> /\ backlog' = <<>>
        /\ desc' = [fd \in Fds |-> "closed"]
    BY <1>13 DEF PollEnd, EndProcess, Running
  <2>2. Typed'
    <3>1. backlog' \in Seq(Clients)
      BY <2>1
    <3>2. desc' \in [Fds -> Clients \cup NoConnection]
      BY <2>1 DEF NoConnection
    <3> QED BY <1>1, <1>2, <2>1, <3>1, <3>2 DEF Typed, clientVars
  <2>3. Kernel' /\ ReadBeforeClosed'
    BY <2>1 DEF Kernel, ReadBeforeClosed
  <2>4. PollInv'
    BY <1>1, <1>2, <2>1 DEF PollInv, pollVars, Running, Slots, Events
  <2> QED BY <2>2, <2>3, <2>4
<1> QED BY <1>6, <1>7, <1>8, <1>9, <1>10, <1>11, <1>12, <1>13 DEF PollRuns, PollStep

-----------------------------------------------------------------------------
(* select-server.c. *)

\* The descriptor the loop is at.
LEMMA AtTheDescriptor ==
  ASSUME Typed, SelectInv, kind = "select", rdset # {}
  PROVE  fd_min \in rdset /\ fd_min \in Fds
<1>1. rdset \in SUBSET Nat
  BY Numbering DEF SelectInv
<1> QED BY <1>1, LeastNumber DEF fd_min, SelectInv

\* Steps that leave the connections and the keyboard as they are.
LEMMA SelectionSame ==
  ASSUME SelectInv, kind = "select", kind' = kind, Fds' = Fds, server_fd' = server_fd,
         con_fd' = con_fd, rdset' \subseteq rdset, pc' = pc, pc = "loop",
         overlapped' = overlapped, Connections' = Connections, desc'[0] = desc[0],
         typed' = typed, got' = got
  PROVE  SelectInv'
  BY DEF SelectInv, Running

\* select-server.c reads what a client wrote unless its connections overlap or
\* the keyboard's input ends.
LEMMA SelectKept ==
  ASSUME IInv, SelectRuns
  PROVE  IInv'
<1>1. kind = "select" /\ kind' = kind /\ Typed /\ Kernel /\ SelectInv /\ ReadBeforeClosed
      /\ pc # "crashed"
  BY DEF IInv, SelectRuns, PollInv
<1>2. Fds' = Fds /\ server_fd' = server_fd
  BY <1>1 DEF Fds, server_fd
<1>3. EpollInv'
  BY <1>1 DEF EpollInv
<1>4. pc' # "crashed" => PollInv'
  BY <1>1 DEF IInv, PollInv, SelectRuns, pollVars
<1>5. SUFFICES Typed' /\ pc' # "crashed" /\ Kernel' /\ SelectInv' /\ ReadBeforeClosed'
  BY <1>3, <1>4 DEF IInv
<1>6. typed \in Seq({"line", "quit", "eof"}) /\ got \in 0 .. Len(typed) /\ Len(typed) \in Nat
      /\ got \in Nat
  BY <1>1 DEF SelectInv
<1>7. CASE Select
  <2>1. pc = "loop" /\ pc' = pc /\ Running /\ Running' /\ overlapped' = overlapped
        /\ con_fd' = con_fd /\ UNCHANGED socketVars
    BY <1>7 DEF Select, Running
  <2>2. Typed' /\ Same
    BY <1>1, <1>2, <2>1 DEF Typed, Same, socketVars, clientVars
  <2>3. Kernel' /\ Connections' = Connections
    BY <1>1, <2>1, <2>2, SameKernel
  <2>4. ReadBeforeClosed'
    BY <1>1, <2>1, <2>2, SameGone, NothingMoreUnread DEF socketVars, clientVars
  <2>5. rdset' = {fd \in Selected : Readable(fd)} /\ desc[0] # "closed"
    BY <1>1, <1>7, <2>1 DEF Select, Spins, Selected, STDIN_FILENO
  <2>6. rdset' \subseteq Fds
    BY <1>1, <2>5, Numbering DEF Selected, SelectInv
  <2>7. STDIN_FILENO \in rdset' => got < Len(typed)
    <3>1. desc[0] = "terminal"
      BY <1>1, <2>1, <2>5 DEF Kernel
    <3> QED BY <2>5, <3>1, ClientsApart DEF Readable, STDIN_FILENO
  <2>8. typed' = typed /\ got' = got /\ desc' = desc
    BY <2>1 DEF socketVars
  <2>9. con_fd = 0 => \A fd \in rdset' : fd <= server_fd
    BY <2>5, Numbering DEF Selected, STDIN_FILENO
  <2>10. SelectInv'
    BY <1>1, <1>2, <2>1, <2>3, <2>5, <2>6, <2>7, <2>8, <2>9 DEF SelectInv, Running
  <2> QED BY <1>1, <2>1, <2>2, <2>3, <2>4, <2>10
<1>8. CASE SelectAccept
  <2>1. PICK new : new = LowestFree
    OBVIOUS
  <2>2. pc = "loop" /\ pc' = "greet" /\ rdset # {} /\ rdset' = rdset /\ con_fd' = new
        /\ Running /\ Running' /\ Accepts
        /\ overlapped' = (overlapped \/ Connections # {}) /\ sent' = sent /\ taken' = taken
        /\ typed' = typed /\ got' = got
    BY <1>8, <2>1 DEF SelectAccept, At, AcceptConnection, Accepts, Running
  <2>3. desc[0] # "closed"
    BY <1>1, <2>2 DEF SelectInv
  <2>4. /\ Kernel' /\ desc'[0] # "closed"
        /\ new \in Fds \ Connections /\ new > server_fd
        /\ Connections' = Connections \cup {new}
        /\ Head(backlog) \in Clients
    BY <1>1, <2>1, <2>2, <2>3, AcceptKernel
  <2>5. Typed'
    <3>1. client' \in [Clients -> {"away", "reading", "writing", "closed", "reset"}]
      BY <1>1, <2>2, <2>4 DEF Typed, Accepts
    <3>2. desc' \in [Fds -> Clients \cup NoConnection] /\ backlog' \in Seq(Clients)
      BY <1>1, <2>2, <2>4, EmptySeq, HeadTailProperties DEF Typed, Accepts
    <3> QED BY <1>1, <1>2, <2>2, <3>1, <3>2 DEF Typed
  <2>6. ReadBeforeClosed'
    BY <1>1, <2>2, <2>3, AcceptGone, NothingMoreUnread DEF Running
  <2>7. ~overlapped' => Connections' = {con_fd'} \ {0}
    <3>1. new # 0
      BY <2>4, Numbering
    <3> QED BY <2>2, <2>4, <3>1
  <2>8. con_fd' \in Connections' /\ con_fd' # 0
    BY <2>2, <2>4, Numbering
  <2>9. SelectInv'
    BY <1>1, <1>2, <2>2, <2>4, <2>7, <2>8 DEF SelectInv, Running
  <2> QED BY <2>2, <2>4, <2>5, <2>6, <2>9
<1>9. CASE WriteTime
  <2>1. PICK c : c = desc[con_fd]
    OBVIOUS
  <2>2. pc = "greet" /\ pc' = "loop" /\ Running /\ Running' /\ con_fd' = con_fd
        /\ rdset' = rdset \ {fd_min}
        /\ client' = [client EXCEPT ![c] = IF HasLeft(c) THEN "reset" ELSE @]
        /\ UNCHANGED <<overlapped, sent, taken, backlog, typed, got, desc>>
    BY <1>9, <2>1 DEF WriteTime, Done, Running
  <2>3. Same /\ Typed'
    BY <1>1, <1>2, <2>2 DEF Typed, Same, HasLeft
  <2>4. Kernel' /\ Connections' = Connections
    BY <1>1, <2>2, <2>3, SameKernel
  <2>5. ReadBeforeClosed'
    BY <1>1, <2>2, <2>3, SameGone, NothingMoreUnread
  <2>6. SelectInv'
    BY <1>1, <1>2, <2>2, <2>4 DEF SelectInv, Running
  <2> QED BY <2>2, <2>3, <2>4, <2>5, <2>6
<1>10. CASE WriteTimeKilled \/ SelectEnd
  <2>1. pc' = "ended" /\ ~Running' /\ overlapped' = overlapped
        /\ UNCHANGED <<selectVars, clientVars, taken, typed, got>> /\ backlog' = <<>>
        /\ desc' = [fd \in Fds |-> "closed"]
    BY <1>10 DEF WriteTimeKilled, SelectEnd, EndProcess, Running
  <2>2. Typed'
    <3>1. backlog' \in Seq(Clients)
      BY <2>1
    <3>2. desc' \in [Fds -> Clients \cup NoConnection]
      BY <2>1 DEF NoConnection
    <3> QED BY <1>1, <1>2, <2>1, <3>1, <3>2 DEF Typed, clientVars
  <2>3. Kernel' /\ ReadBeforeClosed'
    BY <2>1 DEF Kernel, ReadBeforeClosed
  <2>4. SelectInv'
    BY <1>1, <1>2, <2>1 DEF SelectInv, selectVars, Running
  <2> QED BY <2>1, <2>2, <2>3, <2>4
<1>11. CASE SelectReadTyped
  <2>1. pc = "loop" /\ pc' = pc /\ Running /\ Running' /\ overlapped' = overlapped
        /\ con_fd' = con_fd /\ rdset # {} /\ fd_min = STDIN_FILENO
        /\ rdset' \subseteq rdset \ {fd_min}
        /\ got' = got + 1 /\ UNCHANGED <<clientVars, taken, backlog, typed, desc>>
    BY <1>11 DEF SelectReadTyped, At, Running, TakeTyped, Done, Break, fd_min
  <2>2. Same /\ Typed'
    BY <1>1, <1>2, <2>1 DEF Typed, Same, clientVars
  <2>3. Kernel' /\ Connections' = Connections
    BY <1>1, <2>1, <2>2, SameKernel
  <2>4. got < Len(typed)
    BY <1>1, <2>1, AtTheDescriptor DEF SelectInv
  <2>5. ReadBeforeClosed'
    <3>1. \A n \in 1 .. got : n \in 1 .. got'
      BY <1>6, <2>1
    <3> QED BY <1>1, <2>1, <2>2, <3>1, SameGone, NothingMoreUnread DEF clientVars
  <2>6. got' \in 0 .. Len(typed')
    BY <1>6, <2>1, <2>4
  <2>7. SelectInv'
    BY <1>1, <1>2, <2>1, <2>3, <2>6 DEF SelectInv, Running
  <2> QED BY <1>1, <2>1, <2>2, <2>3, <2>5, <2>7
<1>12. CASE SelectRead
  <2>1. pc = "loop" /\ pc' = pc /\ Running /\ Running' /\ overlapped' = overlapped
        /\ con_fd' = con_fd /\ rdset' \subseteq rdset
        /\ UNCHANGED <<clientVars, backlog, typed, got, desc>>
    BY <1>12 DEF SelectRead, Running, Take, Done, Break
  <2>2. PICK c : c = desc[fd_min]
    OBVIOUS
  <2>3. c \in Clients /\ taken' = [taken EXCEPT ![c] = sent[c]]
    BY <1>12, <2>2 DEF SelectRead, Take
  <2>4. Same /\ Typed'
    BY <1>1, <1>2, <2>1, <2>3 DEF Typed, Same, clientVars
  <2>5. Kernel' /\ Connections' = Connections
    BY <1>1, <2>1, <2>4, SameKernel
  <2>6. ReadBeforeClosed'
    <3>1. \A d \in Clients : taken'[d] # sent'[d] => taken[d] # sent[d]
      BY <1>1, <2>1, <2>3 DEF Typed, clientVars
    <3> QED BY <1>1, <2>1, <2>4, <3>1, SameGone, NothingMoreUnread
  <2>7. SelectInv'
    BY <1>1, <1>2, <2>1, <2>5, SelectionSame
  <2> QED BY <1>1, <2>1, <2>4, <2>5, <2>6, <2>7
<1>13. CASE SelectReadFails
  <2>1. pc = "loop" /\ pc' = pc /\ Running /\ Running' /\ overlapped' = overlapped
        /\ con_fd' = con_fd /\ rdset' \subseteq rdset
        /\ UNCHANGED <<sent, taken, backlog, typed, got, desc>>
    BY <1>13 DEF SelectReadFails, Running, Break
  <2>2. PICK c : c = desc[fd_min]
    OBVIOUS
  <2>3. c \in Clients /\ client[c] = "reset" /\ client' = [client EXCEPT ![c] = "closed"]
    BY <1>13, <2>2 DEF SelectReadFails
  <2>4. Same /\ Typed'
    BY <1>1, <1>2, <2>1, <2>3 DEF Typed, Same
  <2>5. Kernel' /\ Connections' = Connections
    BY <1>1, <2>1, <2>4, SameKernel
  <2>6. ReadBeforeClosed'
    BY <1>1, <2>1, <2>4, SameGone, NothingMoreUnread
  <2>7. SelectInv'
    BY <1>1, <1>2, <2>1, <2>5, SelectionSame
  <2> QED BY <1>1, <2>1, <2>4, <2>5, <2>6, <2>7
<1>14. CASE SelectHangUp \/ SelectEndOfInput
  <2>1. PICK g : g = con_fd
    OBVIOUS
  <2>2. pc = "loop" /\ pc' = pc /\ Running /\ Running' /\ overlapped' = overlapped
        /\ rdset # {} /\ rdset' = {} /\ con_fd' = 0 /\ desc' = [desc EXCEPT ![g] = "closed"]
        /\ UNCHANGED <<clientVars, taken, backlog, typed>>
    BY <1>14, <2>1 DEF SelectHangUp, SelectEndOfInput, At, Disconnect, Break, Running
  <2>3. Closes(g)
    BY <1>1, <2>1, <2>2 DEF Closes, SelectInv, clientVars
  <2>4. Typed'
    BY <1>1, <1>2, <2>2, <2>3 DEF Typed, Closes, NoConnection, clientVars
  <2>5. Kernel' /\ Connections' = Connections \ {g}
    BY <1>1, <2>2, <2>3, CloseKernel
  <2>6. got' \in 0 .. Len(typed) /\ \A n \in 1 .. got : n \in 1 .. got'
    <3>1. CASE SelectHangUp
      BY <1>6, <3>1 DEF SelectHangUp
    <3>2. CASE SelectEndOfInput
      <4>1. STDIN_FILENO \in rdset /\ got' = got + 1
        BY <1>1, <2>2, <3>2, AtTheDescriptor DEF SelectEndOfInput, At, fd_min
      <4>2. got < Len(typed)
        BY <1>1, <4>1 DEF SelectInv
      <4> QED BY <1>6, <4>1, <4>2
    <3> QED BY <1>14, <3>1, <3>2
  <2>7. ReadBeforeClosed'
    <3>1. CASE SelectHangUp /\ ~overlapped
      <4>1. PICK c : c = desc[fd_min]
        OBVIOUS
      <4>2. c \in Clients /\ Unread(c) = <<>> /\ got' = got
        BY <3>1, <4>1 DEF SelectHangUp
      <4>3. taken[c] = sent[c]
        BY <1>1, <4>2, AllRead
      <4>4. fd_min = g
        <5>1. fd_min \in Connections
          BY <1>1, <2>2, <4>1, <4>2, AtTheDescriptor DEF Connections
        <5> QED BY <1>1, <2>1, <2>2, <3>1, <5>1 DEF SelectInv
      <4>5. \A d \in Clients : desc[g] = d => taken[d] = sent[d]
        BY <4>1, <4>3, <4>4
      <4>6. \A d \in Clients :
              Gone(d)' /\ taken'[d] # sent'[d] => Gone(d) /\ taken[d] # sent[d]
        BY <1>1, <2>2, <2>3, <4>5, CloseGone DEF clientVars
      <4> QED BY <1>1, <2>2, <4>2, <4>6, NothingMoreUnread
    <3>2. CASE overlapped
      BY <1>1, <2>2, <3>2 DEF ReadBeforeClosed
    <3>3. CASE SelectEndOfInput
      <4>1. got' = got + 1 /\ typed'[got'] = "eof"
        BY <2>2, <3>3 DEF SelectEndOfInput
      <4>2. got' \in 1 .. got'
        BY <1>6, <4>1
      <4> QED BY <1>1, <4>1, <4>2 DEF ReadBeforeClosed
    <3> QED BY <1>14, <3>1, <3>2, <3>3
  <2>8. ~overlapped => Connections' = {con_fd'} \ {0}
    BY <1>1, <2>1, <2>2, <2>5 DEF SelectInv
  <2>9. con_fd' \in Fds /\ con_fd' = 0
    BY <2>2, Numbering DEF STDIN_FILENO
  <2>10. desc'[0] = "closed" => got' > 0 /\ typed'[got'] = "eof"
    <3>1. CASE SelectHangUp
      <4>1. desc[fd_min] \in Clients /\ fd_min \in rdset /\ fd_min \in Fds
        BY <1>1, <2>2, <3>1, AtTheDescriptor DEF SelectHangUp, At, fd_min
      <4>2. fd_min > server_fd
        BY <1>1, <2>2, <4>1, Numbering, ClientsApart DEF Kernel
      <4>3. g # 0
        BY <1>1, <2>1, <2>2, <4>1, <4>2, Numbering DEF SelectInv, Fds, STDIN_FILENO
      <4>4. desc[0] # "closed"
        BY <1>1, <2>2 DEF SelectInv
      <4> QED BY <1>1, <2>2, <4>3, <4>4 DEF Typed
    <3>2. CASE SelectEndOfInput
      <4>1. got' = got + 1 /\ typed'[got'] = "eof"
        BY <2>2, <3>2 DEF SelectEndOfInput
      <4> QED BY <1>6, <4>1
    <3> QED BY <1>14, <3>1, <3>2
  <2>11. SelectInv'
    BY <1>1, <1>2, <1>6, <2>2, <2>6, <2>8, <2>9, <2>10 DEF SelectInv, Running
  <2> QED BY <1>1, <2>2, <2>4, <2>5, <2>7, <2>11
<1> QED BY <1>7, <1>8, <1>9, <1>10, <1>11, <1>12, <1>13, <1>14 DEF SelectRuns, SelectStep

-----------------------------------------------------------------------------
(* epoll-server.c. *)

\* epoll-server.c has registered its open connections, the keyboard and the
\* listening socket.
LEMMA EpollKept ==
  ASSUME IInv, EpollRuns
  PROVE  IInv'
<1>1. kind = "epoll" /\ kind' = kind /\ Typed /\ Kernel /\ EpollInv
  BY DEF IInv, EpollRuns
<1>2. Fds' = Fds /\ server_fd' = server_fd
  BY <1>1 DEF Fds, server_fd
<1>3. pc = "loop" /\ Running /\ desc[0] # "closed"
  BY <1>1 DEF EpollInv, Running
<1>4. SelectInv' /\ ReadBeforeClosed'
  BY <1>1 DEF SelectInv, ReadBeforeClosed
<1>5. pc' = "loop" => PollInv'
  BY <1>1 DEF IInv, PollInv, EpollRuns, pollVars
<1>6. SUFFICES Typed' /\ Kernel' /\ EpollInv'
  BY <1>1, <1>4, <1>5 DEF IInv, EpollInv
<1>7. CASE epoll_wait
  <2>1. pc' = pc /\ Running' /\ interest' = interest
        /\ UNCHANGED <<clientVars, taken, backlog, desc>>
    BY <1>3, <1>7 DEF epoll_wait, Running
  <2>2. Same /\ Typed'
    BY <1>1, <1>2, <2>1 DEF Typed, Same, clientVars
  <2>3. Kernel' /\ Connections' = Connections
    BY <1>1, <1>3, <2>2, SameKernel
  <2>4. PICK S \in SUBSET Ready : evlist' = {[fd |-> fd, rdhup |-> PeerLeft(fd)] : fd \in S}
    BY <1>7 DEF epoll_wait
  <2>5. \A fd \in Ready : fd \in Fds
    BY <1>1, Numbering DEF EpollInv, Ready, Connections
  <2>6. \A fd \in Fds : PeerLeft(fd) => fd > server_fd
    BY <1>1, <1>3, ConnectionsApart DEF PeerLeft, Connections
  <2>7. \A e \in evlist' : e.fd \in Fds /\ (e.rdhup => e.fd > server_fd)
    <3> HIDE DEF PeerLeft
    <3> QED BY <2>4, <2>5, <2>6
  <2>8. EpollInv'
    BY <1>1, <1>2, <2>1, <2>3, <2>7 DEF EpollInv
  <2> QED BY <2>2, <2>3, <2>8
<1>8. ASSUME NEW e \in evlist, EpollAccept(e) PROVE Typed' /\ Kernel' /\ EpollInv'
  <2>1. PICK new : new = LowestFree
    OBVIOUS
  <2>2. pc' = pc /\ Running' /\ Accepts /\ sent' = sent /\ taken' = taken
        /\ interest' = interest \cup {new} /\ evlist' \subseteq evlist
    BY <1>3, <1>8, <2>1 DEF EpollAccept, AcceptConnection, Accepts, Running
  <2>3. /\ Kernel' /\ desc'[0] # "closed"
        /\ Connections' = Connections \cup {new}
        /\ Head(backlog) \in Clients
    BY <1>1, <1>3, <2>1, <2>2, AcceptKernel
  <2>4. Typed'
    <3>1. client' \in [Clients -> {"away", "reading", "writing", "closed", "reset"}]
      BY <1>1, <2>2, <2>3 DEF Typed, Accepts
    <3>2. desc' \in [Fds -> Clients \cup NoConnection] /\ backlog' \in Seq(Clients)
      BY <1>1, <2>2, <2>3, EmptySeq, HeadTailProperties DEF Typed, Accepts
    <3> QED BY <1>1, <1>2, <2>2, <3>1, <3>2 DEF Typed
  <2>5. EpollInv'
    BY <1>1, <1>2, <2>2, <2>3 DEF EpollInv
  <2> QED BY <2>3, <2>4, <2>5
<1>9. ASSUME NEW e \in evlist, EpollHangUp(e) PROVE Typed' /\ Kernel' /\ EpollInv'
  <2>1. PICK g : g = e.fd
    OBVIOUS
  <2>2. g \in Fds /\ g > server_fd
    BY <1>1, <1>9, <2>1 DEF EpollInv, EpollHangUp
  <2>3. pc' = pc /\ Running' /\ Closes(g) /\ sent' = sent /\ taken' = taken
        /\ interest' = interest \ {g} /\ evlist' \subseteq evlist
    BY <1>3, <1>9, <2>1, <2>2 DEF EpollHangUp, Close, Closes, Running, clientVars
  <2>4. Kernel' /\ Connections' = Connections \ {g}
    BY <1>1, <1>3, <2>3, CloseKernel
  <2>5. Typed'
    BY <1>1, <1>2, <2>3 DEF Typed, Closes, NoConnection
  <2>6. g # 0 /\ g # server_fd
    BY <2>2, Numbering
  <2>7. desc'[0] # "closed"
    BY <1>1, <1>3, <2>3, <2>6, Numbering DEF Closes, Typed, STDIN_FILENO
  <2>8. EpollInv'
    BY <1>1, <1>2, <2>3, <2>4, <2>6, <2>7 DEF EpollInv, STDIN_FILENO
  <2> QED BY <2>4, <2>5, <2>8
<1>10. ASSUME NEW e \in evlist, EpollData(e) PROVE Typed' /\ Kernel' /\ EpollInv'
  <2>1. pc' = pc /\ Running' /\ interest' = interest /\ evlist' \subseteq evlist
        /\ UNCHANGED <<clientVars, taken, backlog, desc>>
    BY <1>3, <1>10 DEF EpollData, Running, socketVars
  <2>2. Same /\ Typed'
    BY <1>1, <1>2, <2>1 DEF Typed, Same, clientVars
  <2>3. Kernel' /\ Connections' = Connections
    BY <1>1, <1>3, <2>2, SameKernel
  <2>4. EpollInv'
    BY <1>1, <1>2, <2>1, <2>3 DEF EpollInv
  <2> QED BY <2>2, <2>3, <2>4
<1> QED BY <1>7, <1>8, <1>9, <1>10 DEF EpollRuns, EpollStep

-----------------------------------------------------------------------------
(* The clients, the keyboard, and the whole. *)

\* What happens outside the server leaves its descriptors alone.
LEMMA OutsideKept ==
  ASSUME IInv, Outside
  PROVE  IInv'
<1>1. Typed /\ Kernel /\ PollInv /\ SelectInv /\ EpollInv /\ ReadBeforeClosed
  BY DEF IInv
<1>2. /\ kind' = kind /\ pc' = pc /\ overlapped' = overlapped
      /\ UNCHANGED <<pollVars, selectVars, epollVars>>
  BY DEF Outside, serverVars
<1>3. Fds' = Fds /\ server_fd' = server_fd /\ (Running' <=> Running)
  BY <1>2 DEF Fds, server_fd, Running
<1>4. /\ got' = got /\ desc' = desc /\ taken' = taken
      /\ typed' = typed \/ \E what \in {"line", "quit", "eof"} : typed' = Append(typed, what)
      /\ Same \/ \E c \in Clients : Connects(c)
      /\ Typed'
      /\ \A d \in Clients : Gone(d)' /\ taken'[d] # sent'[d] => Gone(d) /\ taken[d] # sent[d]
  <2>1. CASE Type
    <3>1. /\ got' = got /\ desc' = desc /\ UNCHANGED <<clientVars, taken, backlog>>
          /\ \E what \in {"line", "quit", "eof"} : typed' = Append(typed, what)
      BY <2>1 DEF Type
    <3>2. Same /\ Typed'
      BY <1>1, <1>2, <1>3, <3>1 DEF Same, Typed, clientVars
    <3> QED BY <3>1, <3>2, SameGone DEF clientVars
  <2>2. ASSUME NEW c \in Clients, Connect(c) PROVE <1>4!:
    <3>1. got' = got /\ desc' = desc /\ taken' = taken /\ typed' = typed /\ sent' = sent
          /\ Connects(c)
      BY <2>2 DEF Connect, Connects
    <3>2. backlog' \in Seq(Clients)
          /\ client' \in [Clients -> {"away", "reading", "writing", "closed", "reset"}]
      BY <1>1, <3>1 DEF Connects, Typed
    <3>3. Typed'
      BY <1>1, <1>2, <1>3, <3>1, <3>2 DEF Typed
    <3>4. \A d \in Clients : Gone(d)' => Gone(d)
      BY <1>1, <3>1, ConnectGone
    <3> QED BY <3>1, <3>3, <3>4
  <2>3. ASSUME NEW c \in Clients, ReadGreeting(c) \/ Leave(c) \/ LeaveForsaken(c) \/ Die(c)
        PROVE  <1>4!:
    <3>1. got' = got /\ desc' = desc /\ taken' = taken /\ typed' = typed /\ sent' = sent
          /\ backlog' = backlog
      BY <2>3 DEF ReadGreeting, Leave, LeaveForsaken, Die
    <3>2. client[c] \in {"reading", "writing"}
          /\ \E s \in {"reading", "writing", "closed", "reset"} :
               client' = [client EXCEPT ![c] = s]
      <4>1. CASE ReadGreeting(c)
        <5>1. client' = [client EXCEPT ![c] = IF parts[c] = 1 THEN "writing" ELSE "reading"]
          BY <1>1, <4>1 DEF ReadGreeting, Typed
        <5> QED BY <4>1, <5>1 DEF ReadGreeting
      <4>2. CASE Leave(c) \/ LeaveForsaken(c)
        BY <4>2 DEF Leave, LeaveForsaken
      <4>3. CASE Die(c)
        BY <4>3 DEF Die
      <4> QED BY <2>3, <4>1, <4>2, <4>3
    <3>3. Same
      BY <1>1, <3>1, <3>2 DEF Same, Typed
    <3>4. Typed'
      BY <1>1, <1>2, <1>3, <3>1, <3>2 DEF Typed
    <3> QED BY <3>1, <3>3, <3>4, SameGone
  <2>4. ASSUME NEW c \in Clients, WriteLine(c) PROVE <1>4!:
    <3>1. got' = got /\ desc' = desc /\ taken' = taken /\ typed' = typed /\ client' = client
          /\ backlog' = backlog /\ sent' = [sent EXCEPT ![c] = @ + 1] /\ ~Gone(c)
          /\ sent[c] < Len(Text[c])
      BY <2>4 DEF WriteLine
    <3>2. Same
      BY <3>1 DEF Same
    <3>3. Typed'
      <4>1. Len(Text[c]) \in Nat
        BY TextAssumption
      <4> QED BY <1>1, <1>2, <1>3, <3>1, <4>1 DEF Typed
    <3>4. \A d \in Clients : d # c => sent'[d] = sent[d]
      BY <1>1, <3>1 DEF Typed
    <3> QED BY <3>1, <3>2, <3>3, <3>4, SameGone
  <2> QED BY <2>1, <2>2, <2>3, <2>4 DEF Outside, ClientStep
<1>5. Connections' = Connections
  BY <1>3, <1>4 DEF Connections
<1>6. Kernel'
  <2>1. CASE Running
    BY <1>1, <1>2, <1>4, <2>1, SameKernel, ConnectKernel
  <2>2. CASE ~Running
    BY <1>3, <2>2 DEF Kernel
  <2> QED BY <2>1, <2>2
<1>7. PollInv'
  BY <1>1, <1>2, <1>3, <1>4, <1>5 DEF PollInv, pollVars, Slots, Events
<1>8. EpollInv'
  BY <1>1, <1>2, <1>3, <1>4, <1>5 DEF EpollInv, epollVars
<1>9. kind = "select" =>
        /\ typed' \in Seq({"line", "quit", "eof"}) /\ Len(typed) <= Len(typed')
        /\ Len(typed') \in Nat /\ \A n \in 1 .. got : typed'[n] = typed[n]
  <2> SUFFICES ASSUME kind = "select" PROVE <1>9!2
    OBVIOUS
  <2>1. typed \in Seq({"line", "quit", "eof"}) /\ got \in 0 .. Len(typed) /\ Len(typed) \in Nat
    BY <1>1 DEF SelectInv
  <2> QED BY SMTT(30), <1>4, <2>1
<1>10. SelectInv'
  <2> SUFFICES ASSUME kind = "select" PROVE SelectInv'
    BY <1>2 DEF SelectInv
  <2>1. got' \in 0 .. Len(typed') /\ (got < Len(typed) => got' < Len(typed'))
    BY <1>1, <1>4, <1>9 DEF SelectInv
  <2> QED BY <1>1, <1>2, <1>3, <1>4, <1>5, <1>9, <2>1 DEF SelectInv, selectVars
<1>11. ReadBeforeClosed'
  <2>1. CASE kind = "select"
    BY <1>1, <1>2, <1>4, <1>9, <2>1, NothingMoreUnread
  <2>2. CASE kind # "select"
    BY <1>1, <1>2, <1>4, <2>2 DEF ReadBeforeClosed
  <2> QED BY <2>1, <2>2
<1> QED BY <1>4, <1>6, <1>7, <1>8, <1>10, <1>11 DEF IInv

\* The invariant holds when a server waits for events for the first time, and
\* in every state it comes to.
LEMMA IInvHolds == Spec => []IInv
<1>1. Init => IInv
  <2> SUFFICES ASSUME Init PROVE IInv
    OBVIOUS
  <2>1. kind \in {"poll", "select", "epoll"} /\ pc = "loop" /\ Running /\ backlog = <<>>
    BY ServerAssumption DEF Init, SocketsInit, Running
  <2>2. desc = Descriptors(kind)
    BY DEF Init, SocketsInit
  <2>3. /\ \A fd \in Fds : desc[fd] = CASE fd <= 2 -> "terminal"
                                        [] fd = 3 -> IF kind = "epoll" THEN "epoll" ELSE "listening"
                                        [] fd = 4 /\ kind = "epoll" -> "listening"
                                        [] OTHER -> "closed"
        /\ desc = [fd \in Fds |-> desc[fd]]
    BY <2>2 DEF Descriptors
  <2>4. ASSUME NEW fd \in Fds
        PROVE  /\ desc[fd] \in NoConnection
               /\ fd > server_fd => desc[fd] = "closed"
               /\ fd <= server_fd => desc[fd] # "closed"
               /\ fd = 0 => desc[fd] = "terminal"
    <3>1. fd \in Nat
      BY Numbering
    <3>2. CASE fd <= 2
      BY <2>3, <3>1, <3>2 DEF NoConnection, server_fd
    <3>3. CASE fd = 3
      BY <2>3, <3>1, <3>3 DEF NoConnection, server_fd
    <3>4. CASE fd = 4
      BY <2>3, <3>1, <3>4 DEF NoConnection, server_fd
    <3>5. CASE fd > 4
      BY <2>3, <3>1, <3>5 DEF NoConnection, server_fd
    <3> QED BY <3>1, <3>2, <3>3, <3>4, <3>5
  <2>5. Connections = {}
    BY <2>4, ClientsApart DEF Connections, NoConnection
  <2>6. \A fd \in 1 .. server_fd : fd \in Fds /\ fd <= server_fd
    BY Numbering DEF Fds
  <2>7. Typed
    <3>1. \A c \in Clients : Len(Text[c]) \in Nat
      BY TextAssumption
    <3>2. desc \in [Fds -> Clients \cup NoConnection]
      BY <2>3, <2>4
    <3> QED BY <2>1, <3>1, <3>2 DEF Init, SocketsInit, Typed
  <2>8. Kernel
    <3>1. 0 \in Fds
      BY Numbering DEF STDIN_FILENO
    <3> QED BY <2>1, <2>4, <2>5, <2>6, <3>1, ClientsApart, EmptySeq DEF Kernel, NoConnection
  <2>9. PollInv
    <3>1. nfds = 2 /\ i = 0 /\ nfds \in 2 .. FDSSIZE
      BY SlotsAssumption DEF Init, PollInit
    <3>2. 0 \in Slots /\ 1 \in Slots
      BY SlotsAssumption DEF Slots
    <3>3. PICK garbage \in [Slots -> Events] :
            /\ garbage[0] = {} /\ garbage[1] = {}
            /\ fds = [s \in Slots |->
                       [fd |-> IF s = 1 THEN server_fd ELSE 0, revents |-> garbage[s]]]
      BY DEF Init, PollInit
    <3>4. fds \in [Slots -> [fd : Fds, revents : Events]]
      <4>1. 0 \in Fds /\ server_fd \in Fds
        BY Numbering DEF STDIN_FILENO
      <4> HIDE DEF Slots, Events
      <4> QED BY <3>3, <4>1
    <3>5. /\ fds[0].fd = STDIN_FILENO /\ fds[1].fd = server_fd
          /\ "rdhup" \notin fds[0].revents /\ "rdhup" \notin fds[1].revents
      BY <3>2, <3>3 DEF STDIN_FILENO
    <3>6. desc[0] # "closed"
      BY <2>4, Numbering DEF STDIN_FILENO
    <3>7. {fds[s].fd : s \in 2 .. nfds - 1} = {} /\ 2 .. nfds - 1 = {} /\ nfds <= 3
          /\ nfds - 2 <= Cardinality(Connections)
      BY <2>5, <3>1, FS_EmptySet
    <3> QED BY <2>1, <2>5, <3>1, <3>4, <3>5, <3>6, <3>7 DEF PollInv
  <2>10. SelectInv
    BY <2>1, <2>4, <2>5, Numbering DEF Init, SocketsInit, SelectInit, SelectInv, STDIN_FILENO
  <2>11. EpollInv
    BY <2>1, <2>4, <2>5, Numbering DEF Init, EpollInit, EpollInv, STDIN_FILENO
  <2>12. ReadBeforeClosed
    BY DEF Init, SocketsInit, ReadBeforeClosed, Gone
  <2> QED BY <2>7, <2>8, <2>9, <2>10, <2>11, <2>12 DEF IInv
<1>2. IInv /\ [Next]_vars => IInv'
  <2> SUFFICES ASSUME IInv, [Next]_vars PROVE IInv'
    OBVIOUS
  <2>1. CASE ServerStep
    BY <2>1, PollKept, SelectKept, EpollKept DEF ServerStep
  <2>2. CASE Outside
    BY <2>2, OutsideKept
  <2>3. CASE UNCHANGED vars
    <3>1. /\ UNCHANGED <<kind, pc, overlapped, pollVars, selectVars, epollVars>>
          /\ UNCHANGED <<clientVars, taken, backlog, typed, got, desc>>
      BY <2>3 DEF vars, serverVars, socketVars
    <3>2. Fds' = Fds /\ server_fd' = server_fd /\ Connections' = Connections
          /\ (Running' <=> Running)
      BY <3>1 DEF Fds, server_fd, Connections, Running
    <3>3. Typed'
      BY <3>1, <3>2 DEF IInv, Typed, clientVars
    <3>4. Kernel'
      BY <3>1, <3>2 DEF IInv, Kernel, clientVars
    <3>5. PollInv'
      BY <3>1, <3>2 DEF IInv, PollInv, pollVars, Slots, Events
    <3>6. SelectInv' /\ EpollInv'
      BY <3>1, <3>2 DEF IInv, SelectInv, EpollInv, selectVars, epollVars
    <3>7. ReadBeforeClosed'
      BY <3>1, <3>2 DEF IInv, ReadBeforeClosed, Gone, IsOpen, Contains, clientVars
    <3> QED BY <3>3, <3>4, <3>5, <3>6, <3>7 DEF IInv
  <2> QED BY <2>1, <2>2, <2>3 DEF Next, Quiet
<1> QED BY <1>1, <1>2, PTL DEF Spec

\* For any number of clients and any slots: a server that waits watches its
\* open connections and nothing else, epoll-server.c always, poll-server.c and
\* select-server.c as long as no connections overlapped.
THEOREM WatchesItsConnections == Spec => []NothingForgotten
<1>1. IInv => NothingForgotten
  <2> SUFFICES ASSUME IInv, Waiting, overlapped => kind = "epoll"
               PROVE  Watched = Connections
    BY DEF NothingForgotten
  <2>1. kind \in {"poll", "select", "epoll"} /\ pc = "loop" /\ Running
    BY DEF IInv, Typed, Waiting, Running
  <2>2. CASE kind = "poll"
    BY <2>1, <2>2 DEF IInv, PollInv, Watched
  <2>3. CASE kind = "select"
    BY <2>1, <2>3 DEF IInv, SelectInv, Watched
  <2>4. CASE kind = "epoll"
    <3>1. interest = {STDIN_FILENO, server_fd} \cup Connections
      BY <2>4 DEF IInv, EpollInv
    <3>2. STDIN_FILENO \notin Connections /\ server_fd \notin Connections
      BY <2>1, ConnectionsApart, Numbering DEF IInv, STDIN_FILENO
    <3> QED BY <2>4, <3>1, <3>2 DEF Watched
  <2> QED BY <2>1, <2>2, <2>3, <2>4
<1> QED BY <1>1, IInvHolds, PTL

\* For any number of clients and any texts: what a client wrote has been read
\* when its connection is closed, by poll-server.c always, by select-server.c
\* when no connections overlapped and the keyboard's input has not ended.
THEOREM ReadsBeforeClosing == Spec => []ReadBeforeClosed
<1>1. IInv => ReadBeforeClosed
  BY DEF IInv
<1> QED BY <1>1, IInvHolds, PTL

\* For any number of clients and any size of fds: poll-server.c never drops the
\* slots of the keyboard and the listening socket, and writes past fds only with
\* more connections open than it has slots for.
THEOREM KeepsItsSlots == Spec => []SlotsKept
<1>1. IInv => SlotsKept
  <2> SUFFICES ASSUME IInv PROVE SlotsKept
    OBVIOUS
  <2>1. PollInv /\ (kind = "poll" \/ kind # "poll")
    BY DEF IInv
  <2> QED BY <2>1 DEF PollInv, SlotsKept
<1> QED BY <1>1, IInvHolds, PTL

\* For any number of clients: select-server.c spins only on a keyboard that it has
\* closed at an end of input, however its connections overlapped.
THEOREM SpinsForTheKeyboard == Spec => []SpinsOnlyOnKeyboard
<1>1. IInv => SpinsOnlyOnKeyboard
  <2> SUFFICES ASSUME IInv, Spins PROVE desc[0] = "closed"
    BY DEF SpinsOnlyOnKeyboard, IInv, SelectInv, Spins, Running, STDIN_FILENO
  <2>1. kind = "select" /\ Running
    BY DEF Spins, Running
  <2>2. PICK fd \in Selected : desc[fd] = "closed"
    BY DEF Spins
  <2>3. fd # server_fd
    BY <2>1, <2>2, ClientsApart, Numbering DEF IInv, Kernel, server_fd
  <2>4. fd \notin Connections
    BY <2>2, ClientsApart DEF Connections, NoConnection
  <2> QED BY <2>1, <2>2, <2>3, <2>4 DEF Selected, IInv, SelectInv, STDIN_FILENO
<1> QED BY <1>1, IInvHolds, PTL

=============================================================================
