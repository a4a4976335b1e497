------------------------------ MODULE Numbers -------------------------------
(***************************************************************************)
(* Studio16: clients that send numbers to a server, which takes one        *)
(* connection at a time and ends when it is told to.  Over TCP (server.c,  *)
(* client.c) a code says what the next numbers are; over a local socket    *)
(* (server_local.c, client_local.c) there are only numbers, and END_CODE.  *)
(*                                                                         *)
(* stdio keeps what a client prints until fclose, so its numbers reach the *)
(* socket with one write.                                                  *)
(***************************************************************************)
EXTENDS Naturals, Sequences, SequencesExt

CONSTANTS
  Clients,
  MayDie,       \* clients that may be killed
  DATA_MAX,     \* a client sends the numbers below
  END_CODE, SHORT_CODE, ARRAY_CODE,
  SOCKET_BACKLOG_SIZE

ASSUME NumbersAssumption ==
  /\ DATA_MAX \in Nat /\ SOCKET_BACKLOG_SIZE \in Nat
  /\ END_CODE \in Nat /\ SHORT_CODE \in Nat /\ ARRAY_CODE \in Nat
  /\ END_CODE # SHORT_CODE /\ END_CODE # ARRAY_CODE /\ SHORT_CODE # ARRAY_CODE
  /\ MayDie \subseteq Clients

\* Among plain numbers the end must not be one of them.
ASSUME EndAssumption == END_CODE >= DATA_MAX

VARIABLES
  local,      \* is it the local version?
  client,     \* what each client does
  short_flag, quit_flag,
  socket,     \* numbers sent to the server and not yet read
  backlog,    \* connections that wait for accept
  pc,         \* the server: accepting, what the next number is to it, or ended
  data_fp,    \* connections accepted, the one being read last
  end,
  unread,     \* entries of an array still to be read
  printed     \* history: the numbers the server printed

clientVars == <<client, short_flag, quit_flag>>
numbersVars == <<local, clientVars, socket, backlog, pc, data_fp, end, unread, printed>>

NumbersInit ==
  /\ local \in BOOLEAN
  /\ client = [c \in Clients |-> "away"]
  /\ short_flag = [c \in Clients |-> FALSE]
  /\ quit_flag = [c \in Clients |-> FALSE]
  /\ socket = [c \in Clients |-> <<>>]
  /\ backlog = <<>>
  /\ pc = "accept"
  /\ data_fp = <<>>
  /\ end = FALSE
  /\ unread = 0
  /\ printed = <<>>

-----------------------------------------------------------------------------
(* A client.                                                               *)

\* client.c initialises short_flag only: without the argument quit its
\* quit_flag is whatever was in its place.
Flags(arg) == IF local THEN {arg = "quit"} ELSE IF arg = "quit" THEN {TRUE} ELSE BOOLEAN

\* The kernel takes one connection more than listen was told.
Connect(c) ==
  /\ client[c] = "away"
  /\ pc # "ended"
  /\ Len(backlog) <= SOCKET_BACKLOG_SIZE
  /\ \E arg \in {"none", "quit"} \cup (IF local THEN {} ELSE {"short"}) :
       /\ short_flag' = [short_flag EXCEPT ![c] = arg = "short"]
       /\ \E flag \in Flags(arg) : quit_flag' = [quit_flag EXCEPT ![c] = flag]
  /\ client' = [client EXCEPT ![c] = "connected"]
  /\ backlog' = Append(backlog, c)
  /\ UNCHANGED <<local, socket, pc, data_fp, end, unread, printed>>

ConnectFails(c) ==
  /\ client[c] = "away"
  /\ pc = "ended"
  /\ client' = [client EXCEPT ![c] = "refused"]
  /\ UNCHANGED <<local, short_flag, quit_flag, socket, backlog, pc, data_fp, end,
                 unread, printed>>

Data == [n \in 1 .. DATA_MAX |-> n - 1]
send_short == [n \in 1 .. 2 * DATA_MAX |-> IF n % 2 = 1 THEN SHORT_CODE ELSE Data[n \div 2]]
send_array == <<ARRAY_CODE, DATA_MAX>> \o Data
end_code(c) == IF quit_flag[c] THEN <<END_CODE>> ELSE <<>>

Message(c) ==
  (IF local THEN Data ELSE IF short_flag[c] THEN send_short ELSE send_array) \o end_code(c)

\* Nobody looks at what fclose returns: when the server is gone the numbers
\* are lost, and over TCP the client succeeds all the same; over a local
\* socket SIGPIPE kills it.
Send(c) ==
  /\ client[c] = "connected"
  /\ client' = [client EXCEPT ![c] = IF local /\ pc = "ended" THEN "killed" ELSE "sent"]
  /\ socket' = [socket EXCEPT ![c] = IF pc = "ended" THEN <<>> ELSE Message(c)]
  /\ UNCHANGED <<local, short_flag, quit_flag, backlog, pc, data_fp, end, unread, printed>>

\* What is in its stdio buffer dies with a client.
Die(c) ==
  /\ c \in MayDie
  /\ client[c] = "connected"
  /\ client' = [client EXCEPT ![c] = "killed"]
  /\ UNCHANGED <<local, short_flag, quit_flag, socket, backlog, pc, data_fp, end,
                 unread, printed>>

-----------------------------------------------------------------------------
(* The server.                                                             *)

Current == Last(data_fp)
Next_number == Head(socket[Current])

Accept ==
  /\ pc = "accept"
  /\ backlog # <<>>
  /\ data_fp' = Append(data_fp, Head(backlog))
  /\ backlog' = Tail(backlog)
  /\ pc' = "code"
  /\ UNCHANGED <<local, clientVars, socket, end, unread, printed>>

\* recv_int at one place of recv_socket; it waits until there is a number.
recv_int(place) ==
  /\ pc = place
  /\ socket[Current] # <<>>
  /\ socket' = [socket EXCEPT ![Current] = Tail(@)]
  /\ UNCHANGED <<local, clientVars, backlog, data_fp>>

Put == printed' = Append(printed, Next_number)

\* After END_CODE the server goes on reading, as recv_socket returns what is
\* no error.  A number that is no code is passed over.
AfterCode(n) == IF n = SHORT_CODE THEN "short" ELSE IF n = ARRAY_CODE THEN "length" ELSE "code"

recv_code ==
  /\ ~local
  /\ recv_int("code")
  /\ end' = (end \/ Next_number = END_CODE)
  /\ pc' = AfterCode(Next_number)
  /\ UNCHANGED <<unread, printed>>

recv_short ==
  /\ recv_int("short")
  /\ Put
  /\ pc' = "code"
  /\ UNCHANGED <<end, unread>>

\* Faulty: END_CODE counts wherever it comes, as in server_local.c.
recv_length_or_end ==
  /\ recv_int("length")
  /\ unread' = Next_number
  /\ end' = (end \/ Next_number = END_CODE)
  /\ pc' = IF unread' = 0 THEN "code" ELSE "array"
  /\ UNCHANGED printed

recv_length ==
  /\ recv_int("length")
  /\ unread' = Next_number
  /\ pc' = IF unread' = 0 THEN "code" ELSE "array"
  /\ UNCHANGED <<end, printed>>

\* Faulty: one entry too many.
ArrayLeft_and_one == unread > 0

ArrayLeft == unread > 1

recv_entry ==
  /\ recv_int("array")
  /\ Put
  /\ unread' = unread - 1
  /\ pc' = IF ArrayLeft THEN "array" ELSE "code"
  /\ UNCHANGED end

recv_plain ==
  /\ local
  /\ recv_int("code")
  /\ Next_number # END_CODE
  /\ Put
  /\ UNCHANGED <<pc, end, unread>>

\* The socket is closed, and with the last all that wait in the backlog.
NextConnection(ending) ==
  /\ pc' = IF ending THEN "ended" ELSE "accept"
  /\ backlog' = IF ending THEN <<>> ELSE backlog

recv_plain_end ==
  /\ local
  /\ pc = "code"
  /\ socket[Current] # <<>> /\ Next_number = END_CODE
  /\ end' = TRUE
  /\ NextConnection(TRUE)
  /\ UNCHANGED <<local, clientVars, socket, data_fp, unread, printed>>

\* Faulty: the end is forgotten with the connection.
EndOfStream_goes_on ==
  /\ pc \notin {"accept", "ended"}
  /\ socket[Current] = <<>>
  /\ client[Current] \in {"sent", "killed"}
  /\ NextConnection(FALSE)
  /\ unread' = 0
  /\ UNCHANGED <<local, clientVars, socket, data_fp, end, printed>>

\* fscanf returns EOF, in the middle of an array too; main sets ret anew for
\* the next connection.
EndOfStream ==
  /\ pc \notin {"accept", "ended"}
  /\ socket[Current] = <<>>
  /\ client[Current] \in {"sent", "killed"}
  /\ NextConnection(end)
  /\ unread' = 0
  /\ UNCHANGED <<local, clientVars, socket, data_fp, end, printed>>

Server ==
  \/ Accept
  \/ recv_code \/ recv_short \/ recv_length \/ recv_entry
  \/ recv_plain \/ recv_plain_end
  \/ EndOfStream

-----------------------------------------------------------------------------
\* The server may wait in accept for ever, or have ended.
Quiet == pc \in {"accept", "ended"} /\ UNCHANGED numbersVars

NumbersNext ==
  \/ Server
  \/ \E c \in Clients : Connect(c) \/ ConnectFails(c) \/ Send(c) \/ Die(c)
  \/ Quiet

\* The server goes on, and so do clients that are connected; nobody must come.
NumbersSpec ==
  /\ NumbersInit /\ [][NumbersNext]_numbersVars
  /\ WF_numbersVars(Server)
  /\ \A c \in Clients : WF_numbersVars(Send(c))

-----------------------------------------------------------------------------
(* What the server prints of one connection in the end.                    *)
Whole(c) == IF client[c] = "sent" THEN Data ELSE <<>>

\* The server prints the numbers of each client that was not killed, whole, in
\* order and nothing else, connection by connection as it accepted them; only
\* the last may be in the middle.  Codes among the data are data.
PrintedWhole ==
  LET done == IF pc \in {"accept", "ended"} THEN Len(data_fp) ELSE Len(data_fp) - 1
      before == FlattenSeq([k \in 1 .. done |-> Whole(data_fp[k])])
  IN  IF done = Len(data_fp)
      THEN printed = before
      ELSE IsPrefix(before, printed) /\ IsPrefix(printed, before \o Whole(Current))

\* The server ends with the first connection that sends END_CODE: not without,
\* and it accepts no other after it.
EndsWithTheEnd ==
  LET asked(c) == client[c] = "sent" /\ quit_flag[c] IN
  /\ \A k \in 1 .. Len(data_fp) - 1 : ~asked(data_fp[k])
  /\ pc = "ended" => asked(Current)

\* A client that sends END_CODE ends the server, whatever clients it has to
\* wait for before.
QuitHeeded == (\E c \in Clients : client[c] = "sent" /\ quit_flag[c]) ~> pc = "ended"
=============================================================================
