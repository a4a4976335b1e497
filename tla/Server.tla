------------------------------- MODULE Server -------------------------------
(***************************************************************************)
(* lab3/server.c: an epoll loop that hands the lines of each input file to *)
(* a client of its own, collects in one heap what the clients send back,   *)
(* and at the end writes the heap to the output file.                      *)
(*                                                                         *)
(* epoll_wait returns the events of some ready descriptors; each is then   *)
(* one step, but for a write, which is one step for each time it has to    *)
(* wait for room.  A descriptor is its number: con2rw_obj is indexed by    *)
(* it, and the kernel gives accept the lowest one that is free.            *)
(***************************************************************************)
EXTENDS Wire

CONSTANTS
  Inputs,       \* the lines of each input file, in the order of the specification file
  RD_BUF_SIZE,  \* in symbols
  EVENT_SIZE

ASSUME ServerAssumption ==
  /\ Inputs \in Seq(Seq(Lines)) /\ Len(Inputs) > 0
  /\ RD_BUF_SIZE \in Nat \ {0} /\ EVENT_SIZE \in Nat \ {0}

VARIABLES
  pc,                \* where main is: see PCs
  writing,           \* the descriptor a call of write is for
  evlist,            \* the events still to be handled, by descriptor
  interest,          \* the events epoll watches, by descriptor
  conn,              \* the client at the other end, by descriptor
  con2rw_obj, rw_objs,
  connections_size, connections_limit,
  heap_root,         \* the heap, as the set of its lines
  output             \* what has been printed to the output file

serverVars == <<pc, writing, evlist, interest, conn, con2rw_obj, rw_objs,
                connections_size, connections_limit, heap_root, output>>

inputs_size == Len(Inputs)
Objects     == 0 .. inputs_size - 1

\* Descriptors 3 and 4 are the specification and output files.
input_fd(o)       == 5 + o
connection_socket == 5 + inputs_size
epoll_fd          == connection_socket + 1

\* wait: in epoll_wait; events: in its loop over evlist; write: in read_and_send.
\* drain: after the loop; failed: an error ended main; killed: by a signal.
PCs == {"start", "wait", "events", "write", "drain", "done", "failed", "killed"}

\* Faulty: the descriptors of the input files are forgotten.
con2rw_obj_size_one_per_connection == inputs_size + connection_socket

\* How many elements con2rw_obj is given.
con2rw_obj_size == 2 * inputs_size + connection_socket

\* An rw_obj while it sends: the lines of its file not read yet, the line it is
\* sending and how much of that is sent.  While it receives, line_buf is what has
\* come and makes no whole line yet, and last_len its length.
NoObject == [fptr |-> <<>>, file_open |-> TRUE, line_buf |-> <<>>, last_len |-> 0]

ServerInit ==
  /\ pc = "start" /\ writing = 0
  /\ evlist = <<>> /\ interest = <<>> /\ conn = <<>>
  /\ con2rw_obj = [fd \in 0 .. con2rw_obj_size - 1 |-> 0]
  /\ rw_objs = [o \in Objects |-> NoObject]
  /\ connections_size = 0 /\ connections_limit = inputs_size
  /\ heap_root = {} /\ output = <<>>

-----------------------------------------------------------------------------
(* Starting, and leaving early. *)

setup ==
  /\ pc = "start"
  /\ listening' = TRUE
  /\ interest' = [fd \in {connection_socket} |-> {"IN"}]
  /\ pc' = "wait"
  /\ UNCHANGED <<backlog, client_end, server_end, down, up, writing, evlist, conn,
                 con2rw_obj, rw_objs, connections_size, connections_limit, heap_root, output>>

\* The exit closes whatever is open.
Exit(how) ==
  /\ pc' = how
  /\ listening' = FALSE
  /\ backlog' = <<>>
  /\ server_end' = [c \in Clients |-> IF server_end[c] = "open" THEN "closed" ELSE server_end[c]]
  /\ evlist' = <<>> /\ interest' = <<>> /\ conn' = <<>>
  /\ UNCHANGED <<client_end, down, up, writing, con2rw_obj, rw_objs,
                 connections_size, connections_limit, heap_root, output>>

\* A file cannot be opened, or a call of the set-up fails; or accept or epoll_ctl
\* fails for a connection.
error_helper ==
  /\ pc = "start" \/ (pc = "events" /\ connection_socket \in DOMAIN evlist)
  /\ Exit("failed")

-----------------------------------------------------------------------------
(* The loop. *)

\* What epoll reports of a descriptor.
Events(fd) ==
  IF fd = connection_socket /\ listening
  THEN {e \in interest[fd] : backlog # <<>>}
  ELSE {e \in interest[fd] :
          \/ e = "IN" /\ (up[conn[fd]] # <<>> \/ Gone(conn[fd]))
          \/ e = "OUT" /\ (Room(down[conn[fd]]) > 0 \/ Gone(conn[fd]))
          \/ e = "RDHUP" /\ Gone(conn[fd])}

epoll_wait ==
  /\ pc = "wait"
  /\ LET ready == {fd \in DOMAIN interest : Events(fd) # {}} IN
     /\ ready # {}
     /\ \E batch \in SUBSET ready :
          /\ Cardinality(batch) = Min({EVENT_SIZE, Cardinality(ready)})
          /\ evlist' = [fd \in batch |-> Events(fd)]
  /\ pc' = "events"
  /\ UNCHANGED <<socketVars, writing, interest, conn, con2rw_obj, rw_objs,
                 connections_size, connections_limit, heap_root, output>>

\* Faulty: the loop ends with one connection left.
LoopAgain_off_by_one == connections_limit' > 1

LoopAgain == connections_limit' > 0

\* The events of fd are handled: on to the next, or to the test of the outer loop.
Handled(fd) ==
  /\ evlist' = Restrict(evlist, DOMAIN evlist \ {fd})
  /\ pc' = IF DOMAIN evlist # {fd} THEN "events" ELSE IF LoopAgain THEN "wait" ELSE "drain"

Has(fd, event) == pc = "events" /\ fd \in DOMAIN evlist /\ event \in evlist[fd]

Object(fd) == con2rw_obj[fd]

\* The descriptors in use, and the one accept returns.
InUse ==
  0 .. 4 \cup {input_fd(o) : o \in {p \in Objects : rw_objs[p].file_open}}
         \cup (IF listening THEN {connection_socket} ELSE {})
         \cup {epoll_fd} \cup DOMAIN conn

lowest_fd == Min((0 .. 2 * epoll_fd) \ InUse)

\* The table with an entry for fd.
Entered(table, fd, entry) ==
  [f \in DOMAIN table \cup {fd} |-> IF f = fd THEN entry ELSE table[f]]

\* Faulty: the object of the first connection is taken for all of them.
assigned_first(fd) == Entered(con2rw_obj, fd, 0)

assigned(fd) == Entered(con2rw_obj, fd, connections_size)

\* Faulty: EPOLL_CTL_DEL is forgotten.
Unregistered_not(fd) == interest

Unregistered(fd) == Restrict(interest, DOMAIN interest \ {fd})

\* A new connection gets the next rw_obj; with the last one the socket is closed.
accept ==
  /\ Has(connection_socket, "IN") /\ listening
  /\ conn' = Entered(conn, lowest_fd, Head(backlog))
  /\ con2rw_obj' = assigned(lowest_fd)
  /\ rw_objs' = [rw_objs EXCEPT ![connections_size] =
                   [NoObject EXCEPT !.fptr = Inputs[connections_size + 1]]]
  /\ connections_size' = connections_size + 1
  /\ UNCHANGED connections_limit
  /\ Handled(connection_socket)
  /\ IF connections_size + 1 = inputs_size
     THEN /\ interest' = Entered(Unregistered(connection_socket), lowest_fd, {"OUT"})
          /\ Stop_listening({Head(backlog)})
     ELSE /\ interest' = Entered(interest, lowest_fd, {"OUT"})
          /\ backlog' = Tail(backlog)
          /\ UNCHANGED <<listening, server_end>>
  /\ UNCHANGED <<client_end, down, up, writing, heap_root, output>>

-----------------------------------------------------------------------------
(* read_and_send, on EPOLLOUT. *)

Sending(fd) == Has(fd, "OUT") /\ "IN" \notin evlist[fd]

\* Faulty: a write is taken to be complete.
LineSent_always(o) == TRUE

LineSent(o) == rw_objs[o].last_len >= Len(rw_objs[o].line_buf)

\* The last write was short: on with the same line.
SendRest(fd) ==
  /\ Sending(fd)
  /\ ~LineSent(Object(fd))
  /\ pc' = "write" /\ writing' = fd
  /\ UNCHANGED <<socketVars, evlist, interest, conn, con2rw_obj, rw_objs,
                 connections_size, connections_limit, heap_root, output>>

SendLine(fd) ==
  /\ Sending(fd)
  /\ LineSent(Object(fd))
  /\ rw_objs[Object(fd)].fptr # <<>>
  /\ rw_objs' = [rw_objs EXCEPT ![Object(fd)].line_buf = Whole(Head(rw_objs[Object(fd)].fptr)),
                                ![Object(fd)].last_len = 0,
                                ![Object(fd)].fptr = Tail(@)]
  /\ pc' = "write" /\ writing' = fd
  /\ UNCHANGED <<socketVars, evlist, interest, conn, con2rw_obj,
                 connections_size, connections_limit, heap_root, output>>

\* write puts in what there is room for.  It returns when all of the line is in, or
\* sooner (a short write); otherwise it waits for room.
write_line ==
  /\ pc = "write"
  /\ ~Gone(conn[writing])
  /\ LET c    == conn[writing]
         obj  == rw_objs[Object(writing)]
         rest == SubSeq(obj.line_buf, obj.last_len + 1, Len(obj.line_buf))
         n    == Fitting(rest, down[c])
     IN /\ n > 0
        /\ down' = [down EXCEPT ![c] = @ \o SubSeq(rest, 1, n)]
        /\ rw_objs' = [rw_objs EXCEPT ![Object(writing)].last_len = @ + n]
        /\ UNCHANGED connections_limit
        /\ \/ Handled(writing)
           \/ n < Len(rest) /\ UNCHANGED <<pc, evlist>>
  /\ UNCHANGED <<listening, backlog, client_end, server_end, up, writing, interest, conn,
                 con2rw_obj, connections_size, heap_root, output>>

SendsStop(fd) ==
  Sending(fd) /\ LineSent(Object(fd)) /\ rw_objs[Object(fd)].fptr = <<>>

\* A reset is reported to one call; the next ones find the connection closed.
Reported(c) == client_end' = [client_end EXCEPT ![c] = IF Gone(c) THEN "closed" ELSE @]

\* A write to a client that is gone is lost: it returns the rest of the line's length,
\* or -1, which makes last_len a huge number.  A reset may also leave last_len as it is
\* (a write that was waiting) or take one off (the -1 is added to it).
write_lost_line ==
  /\ pc = "write"
  /\ Gone(conn[writing])
  /\ LET obj == rw_objs[Object(writing)] IN
     \E n \in {Len(obj.line_buf)} \cup {m \in {obj.last_len, obj.last_len - 1} :
                                          m >= 0 /\ client_end[conn[writing]] = "reset"} :
       rw_objs' = [rw_objs EXCEPT ![Object(writing)].last_len = n]
  /\ Reported(conn[writing])
  /\ UNCHANGED connections_limit
  /\ Handled(writing)
  /\ UNCHANGED <<listening, backlog, server_end, down, up, writing, interest, conn, con2rw_obj,
                 connections_size, heap_root, output>>

\* Or it raises SIGPIPE, for which there is no handler.
sigpipe ==
  /\ \/ pc = "write" /\ Gone(conn[writing])
     \/ \E fd \in DOMAIN evlist : SendsStop(fd) /\ Gone(conn[fd])
  /\ Exit("killed")

\* The file is at its end: say stop, close it, and turn round to receive.
SendStop(fd) ==
  /\ SendsStop(fd)
  /\ down' = IF Gone(conn[fd]) THEN down
                               ELSE [down EXCEPT ![conn[fd]] = Append(@, STOP)]
  /\ Reported(conn[fd])
  /\ rw_objs' = [rw_objs EXCEPT ![Object(fd)] = [NoObject EXCEPT !.file_open = FALSE]]
  /\ interest' = [interest EXCEPT ![fd] = {"IN", "RDHUP"}]
  /\ UNCHANGED connections_limit
  /\ Handled(fd)
  /\ UNCHANGED <<listening, backlog, server_end, up, writing, conn, con2rw_obj,
                 connections_size, heap_root, output>>

-----------------------------------------------------------------------------
(* On EPOLLIN and EPOLLRDHUP. *)

\* Faulty: the end of what has come is taken for the end of a line.
LineEnds_and_last(text) ==
  {j \in DOMAIN text : EndsLine(text[j]) \/ j = Len(text)}

LineEnds(text) == {j \in DOMAIN text : EndsLine(text[j])}

\* Where the line that ends at j starts.
LineStart(text, j) == Max({0} \cup {i \in LineEnds(text) : i < j}) + 1

\* insert_string for each whole line of text.
whole_lines(text) == {SubSeq(text, LineStart(text, j), j) : j \in LineEnds(text)}

\* Faulty: what follows the last whole line is thrown away.
compacted_to_nothing(text) ==
  IF LineEnds(text) = {} THEN text ELSE <<>>

compacted(text) == SubSeq(text, Max({0} \cup LineEnds(text)) + 1, Len(text))

\* Faulty: the end of the stream is not noticed.
AfterRead_unnoticed(fd, ret) == interest

\* On 0 only a hang-up is waited for.
AfterRead(fd, ret) == IF ret = 0 THEN [interest EXCEPT ![fd] = {"RDHUP"}] ELSE interest

\* read takes what has come, as far as line_buf has room.  It returns 0 at the end of
\* the stream, and when line_buf is full.
Receive(fd) ==
  /\ fd # connection_socket
  /\ Has(fd, "IN")
  /\ client_end[conn[fd]] # "reset"
  /\ LET c    == conn[fd]
         obj  == rw_objs[Object(fd)]
         ret  == Min({RD_BUF_SIZE - obj.last_len, Len(up[c])})
         text == obj.line_buf \o SubSeq(up[c], 1, ret)
     IN /\ up' = [up EXCEPT ![c] = SubSeq(@, ret + 1, Len(@))]
        /\ heap_root' = heap_root \cup whole_lines(text)
        /\ rw_objs' = [rw_objs EXCEPT ![Object(fd)].line_buf = compacted(text),
                                      ![Object(fd)].last_len = Len(compacted(text))]
        /\ interest' = AfterRead(fd, ret)
  /\ UNCHANGED connections_limit
  /\ Handled(fd)
  /\ UNCHANGED <<listening, backlog, client_end, server_end, down, writing, conn, con2rw_obj,
                 connections_size, output>>

\* The read of a reset connection returns -1; added to last_len, which is 0, it makes
\* the search for lines run out of line_buf and of memory.
overrun ==
  /\ \E fd \in DOMAIN evlist \ {connection_socket} :
       Has(fd, "IN") /\ client_end[conn[fd]] = "reset"
  /\ Exit("killed")

\* Faulty: a hang-up is handled before what has come.
OnlyHungUp_first(fd) == Has(fd, "RDHUP")

OnlyHungUp(fd) == Has(fd, "RDHUP") /\ evlist[fd] \cap {"IN", "OUT"} = {}

Hangup(fd) ==
  /\ OnlyHungUp(fd)
  /\ server_end' = [server_end EXCEPT ![conn[fd]] = "closed"]
  /\ conn' = Restrict(conn, DOMAIN conn \ {fd})
  /\ interest' = Unregistered(fd)
  /\ connections_limit' = connections_limit - 1
  /\ Handled(fd)
  /\ UNCHANGED <<listening, backlog, client_end, down, up, writing, con2rw_obj, rw_objs,
                 connections_size, heap_root, output>>

-----------------------------------------------------------------------------
(* After the loop. *)

print ==
  /\ pc = "drain"
  /\ \E text \in Smallest(heap_root) :
       /\ heap_root' = heap_root \ {text}
       /\ output' = Append(output, text)
  /\ UNCHANGED <<socketVars, pc, writing, evlist, interest, conn, con2rw_obj, rw_objs,
                 connections_size, connections_limit>>

finish ==
  /\ pc = "drain" /\ heap_root = {}
  /\ pc' = "done"
  /\ UNCHANGED <<socketVars, writing, evlist, interest, conn, con2rw_obj, rw_objs,
                 connections_size, connections_limit, heap_root, output>>

ServerNext ==
  \/ setup \/ error_helper \/ epoll_wait \/ accept \/ write_line \/ write_lost_line \/ sigpipe
  \/ overrun \/ print \/ finish
  \/ \E fd \in DOMAIN evlist :
       SendRest(fd) \/ SendLine(fd) \/ SendStop(fd) \/ Receive(fd) \/ Hangup(fd)

ServerTypeOK ==
  /\ pc \in PCs /\ writing \in Nat
  /\ DOMAIN evlist \subseteq DOMAIN interest
  /\ DOMAIN interest = DOMAIN conn \cup (IF listening THEN {connection_socket} ELSE {})
  /\ \A fd \in DOMAIN evlist : evlist[fd] # {} /\ evlist[fd] \subseteq interest[fd]
  /\ \A fd \in DOMAIN interest : interest[fd] \subseteq {"IN", "OUT", "RDHUP"}
  /\ \A fd \in DOMAIN conn : fd > 4 /\ conn[fd] \in Clients
  /\ \A fd \in DOMAIN con2rw_obj : con2rw_obj[fd] \in Objects
  /\ rw_objs \in [Objects -> [fptr : Seq(Lines), file_open : BOOLEAN,
                              line_buf : Seq(Symbols), last_len : Nat]]
  /\ connections_size \in 0 .. inputs_size /\ connections_limit \in 0 .. inputs_size
  /\ heap_root \subseteq Seq(Symbols) /\ output \in Seq(Seq(Symbols))
=============================================================================
