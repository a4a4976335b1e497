-------------------------- MODULE DistributedSort --------------------------
(***************************************************************************)
(* lab3 as a whole: the server and its clients, over the sockets they      *)
(* share.  Clients may come before the server listens, may be fewer or     *)
(* more than the input files, and connect in any order.                    *)
(***************************************************************************)
EXTENDS Server, Client

vars == <<socketVars, serverVars, clientVars>>

Init == SocketsInit /\ ServerInit /\ ClientInit

ServerStep == ServerNext /\ UNCHANGED clientVars

ClientStep(c) == ClientNext(c) /\ UNCHANGED serverVars

\* The server has ended, or waits for clients when there are no more.
Stopped ==
  /\ pc \in {"done", "failed", "killed"} \/ (pc = "wait" /\ connections_size < inputs_size)
  /\ \A c \in Clients : client[c] \in {"done", "failed", "killed"}
  /\ \A fd \in DOMAIN interest : pc = "wait" => Events(fd) = {}
  /\ UNCHANGED vars

Next == ServerStep \/ (\E c \in Clients : ClientStep(c)) \/ Stopped

Spec == Init /\ [][Next]_vars

\* Each process runs when it can.  No stronger assumption on epoll is needed: an event
\* that is handled uses up a line, a byte or a connection.
FairSpec == Spec /\ WF_vars(ServerStep) /\ \A c \in Clients : WF_vars(ClientStep(c))

-----------------------------------------------------------------------------
(* Properties. *)

\* The type of every variable.
TypeOK == SocketsTypeOK /\ ServerTypeOK /\ ClientTypeOK

AllTexts == {Whole(l) : l \in UNION {Range(Inputs[i]) : i \in DOMAIN Inputs}}

Sorting == INSTANCE Sorter
             WITH Texts    <- AllTexts,
                  Number   <- [t \in AllTexts |-> KeyOf(t)],
                  printed  <- output,
                  finished <- (pc = "done")

\* However lines are split and delayed on their way to the clients and back, the
\* server prints all of them, once each, by number, or ends with an error.
ImplementsSorter == Sorting!Spec

\* con2rw_obj is large enough for every descriptor accept can return, though the
\* input files, closed at different times, make room for lower ones.
InBounds == DOMAIN con2rw_obj = 0 .. con2rw_obj_size - 1

\* While descriptors are closed and used again, each open connection keeps an rw_obj,
\* and so an input file, of its own, and no descriptor is used for two things.
OwnObject ==
  \A f, g \in DOMAIN conn :
    /\ con2rw_obj[f] = con2rw_obj[g] \/ conn[f] = conn[g] => f = g
    /\ con2rw_obj[f] < connections_size

FileOf(fd) == Inputs[Object(fd) + 1]
Texts(lines) == [i \in DOMAIN lines |-> Whole(lines[i])]

\* On the way to a client nothing is lost, doubled or reordered: what it has in its
\* heap, what it has read of a line, what is in the socket and what the server has
\* still to send make up the client's input file, and the stop that ends it.
LinesGoOut ==
  \A fd \in DOMAIN conn :
    LET c == conn[fd]  obj == rw_objs[Object(fd)]  file == FileOf(fd)
        to_send == SubSeq(obj.line_buf, obj.last_len + 1, Len(obj.line_buf))
                     \o FlattenSeq(Texts(obj.fptr)) \o <<STOP>>
    IN client[c] = "reading" =>
         \E i \in 0 .. Len(file) :
           /\ root[c] = Range(Texts(SubSeq(file, 1, i)))
           /\ line_buf[c] \o down[c] \o (IF "OUT" \in interest[fd] THEN to_send ELSE <<>>)
                = FlattenSeq(Texts(SubSeq(file, i + 1, Len(file)))) \o <<STOP>>

\* On the way back likewise, and in the order of the numbers: what the server has of a
\* line, what is in the socket and what the client has still to write of a line are
\* whole lines, and with those in the client's heap and the server's its input file.
LinesComeBack ==
  \A fd \in DOMAIN conn :
    LET c == conn[fd]  obj == rw_objs[Object(fd)]
        stream == obj.line_buf \o up[c] \o buf[c]
        back == whole_lines(stream)
    IN client[c] \in {"writing", "done"} /\ "IN" \in interest[fd] =>
         /\ compacted(stream) = <<>>
         /\ back \cup root[c] \subseteq AllTexts
         /\ \A s \in back, t \in root[c] : KeyOf(s) <= KeyOf(t)
         /\ back \cup root[c] \cup (heap_root \cap Range(Texts(FileOf(fd))))
              = Range(Texts(FileOf(fd)))

\* A client that closes its connection has read all the server wrote to it, and the
\* server closes it when it has read all the client wrote: data left unread would
\* make the kernel reset the connection and drop what is on its way.
NothingLeftUnread ==
  \A c \in Clients :
    /\ client[c] \in {"writing", "done"} => down[c] = <<>>
    /\ server_end[c] = "closed" /\ pc # "failed" => up[c] = <<>>

Ended == {"done", "failed", "killed"}

\* Once every input file has its client, the server comes to an end, even when clients
\* are killed.
ServerEnds == connections_size = inputs_size ~> pc \in Ended

\* No client that has connected waits for ever, whether it is served, one too many,
\* or left alone by a server that fails.
ClientsEnd == \A c \in Clients : client[c] = "reading" ~> client[c] \in Ended

\* When clients are killed their lines are lost, but what is printed are whole lines of
\* the input files, each at most once, by number.
PrintsInOrder ==
  /\ Range(output) \subseteq AllTexts
  /\ \A i, j \in DOMAIN output :
       i < j => output[i] # output[j] /\ KeyOf(output[i]) <= KeyOf(output[j])
=============================================================================
