---------------------------- MODULE RedisTcpClient ----------------------------
(***************************************************************************)
(* cpp_redis/sources/network/tcp_client.cpp on its io_service.  An owner   *)
(* connects and disconnects, senders send, and the io thread runs the      *)
(* completion handlers in the order in which they were queued.             *)
(***************************************************************************)
EXTENDS Integers, Sequences, FiniteSets

CONSTANTS
  Senders,      \* threads that send
  MaxCommands,  \* bound: commands sent
  MaxConnects   \* bound: calls of connect() that start a connection

ASSUME RedisAssumption ==
  /\ MaxCommands \in Nat
  /\ MaxConnects \in Nat

VARIABLES
  m_is_connected,
  m_socket,        \* closed, connecting, open
  m_write_buffer,  \* the bytes of whole commands
  m_read_buffer,   \* what a queued read completion refers to in it
  write_op,        \* the async_write: its commands, those written, whether the
                   \* memory it reads from has been freed
  reads,           \* async_reads that wait for bytes
  completions,     \* handlers queued in the io_service
  is_notified, owner,
  io, sender,      \* where the threads are
  wire, inbox,     \* commands the server has not read, bytes for the client
  eof,             \* the server has closed the connection
  connects, sent   \* calls of connect(); commands appended

netVars == <<wire, inbox, eof>>
linkVars == <<m_is_connected, m_socket>>
bufVars == <<m_write_buffer, m_read_buffer>>
opVars == <<write_op, reads, completions>>
ownerVars == <<is_notified, owner, connects>>
sendVars == <<sender, sent>>
tcpVars == <<linkVars, bufVars, opVars, ownerVars, sendVars, io, netVars>>

Rest(s, n) == SubSeq(s, n + 1, Len(s))

Command == 1..MaxCommands
Garbage == 0
NoWrite == [pc |-> "none", n |-> 0, done |-> 0, moved |-> FALSE]

Completion == [op : {"connect", "close", "read", "write"}, ok : BOOLEAN, length : Nat]
Done(op, ok) == <<[op |-> op, ok |-> ok, length |-> 0]>>

TypeOK ==
  /\ m_is_connected \in BOOLEAN
  /\ m_socket \in {"closed", "connecting", "open"}
  /\ m_write_buffer \in Seq(Command)
  /\ write_op \in [pc : {"none", "writing", "over"}, n : 0..MaxCommands,
                   done : 0..MaxCommands, moved : BOOLEAN]
  /\ reads \in Nat
  /\ completions \in Seq(Completion)
  /\ is_notified \in BOOLEAN
  /\ owner \in {"idle", "testing", "tested", "waiting", "stray"}
  /\ io \in {"idle", "receive", "closing", "handler"}
  /\ sender \in [Senders -> {"idle", "checked", "appended"}]
  /\ wire \in Seq(Command \cup {Garbage})
  /\ eof \in BOOLEAN
  /\ connects \in 0..MaxConnects /\ sent \in 0..MaxCommands

Init ==
  /\ m_is_connected = FALSE /\ m_socket = "closed"
  /\ m_write_buffer = <<>> /\ m_read_buffer = <<>>
  /\ write_op = NoWrite /\ reads = 0 /\ completions = <<>>
  /\ is_notified = FALSE /\ owner = "idle"
  /\ io = "idle" /\ sender = [s \in Senders |-> "idle"]
  /\ wire = <<>> /\ inbox = <<>> /\ eof = FALSE
  /\ connects = 0 /\ sent = 0

-----------------------------------------------------------------------------
(* The owner: connect() and disconnect() wait for their handler.           *)

Connect ==
  /\ owner = "idle" /\ ~m_is_connected
  /\ connects < MaxConnects
  /\ connects' = connects + 1
  /\ is_notified' = FALSE /\ owner' = "testing"
  /\ IF m_socket = "open"
     THEN completions' = completions \o Done("connect", FALSE) /\ UNCHANGED m_socket
     ELSE m_socket' = "connecting" /\ UNCHANGED completions
  /\ UNCHANGED <<m_is_connected, bufVars, write_op, reads, io, netVars, sendVars>>

Disconnect ==
  /\ owner = "idle" /\ m_is_connected
  /\ m_is_connected' = FALSE
  /\ is_notified' = FALSE /\ owner' = "testing"
  /\ completions' = completions \o Done("close", TRUE)
  /\ UNCHANGED <<m_socket, bufVars, write_op, reads, io, netVars, connects, sendVars>>

\* if (not is_notified) ...
TestNotified ==
  /\ owner = "testing"
  /\ owner' = IF is_notified THEN "idle" ELSE "tested"
  /\ UNCHANGED <<linkVars, bufVars, opVars, netVars, is_notified, connects, io, sendVars>>

\* ... wait(lock): what was notified in between is lost.
StartWaiting ==
  /\ owner = "tested"
  /\ owner' = "waiting"
  /\ UNCHANGED <<linkVars, bufVars, opVars, netVars, is_notified, connects, io, sendVars>>

\* condition_variable::wait may return without a notification; the handler
\* then refers to locals of a call that has returned.
WakesSpuriously ==
  /\ owner = "waiting"
  /\ owner' = "stray"
  /\ UNCHANGED <<linkVars, bufVars, opVars, netVars, is_notified, connects, io, sendVars>>

Bug_OnlyNotifies ==
  /\ owner' = IF owner = "waiting" THEN "idle" ELSE owner
  /\ UNCHANGED <<is_notified, connects>>

Notify ==
  /\ is_notified' = TRUE
  /\ owner' = IF owner = "waiting" THEN "idle" ELSE owner
  /\ UNCHANGED connects

-----------------------------------------------------------------------------
(* The io thread.                                                          *)

Runs(op) == io = "idle" /\ completions # <<>> /\ Head(completions).op = op

ReadIsQueued == \E i \in DOMAIN completions : completions[i].op = "read" /\ completions[i].ok

Times(n, s) == [i \in 1..n |-> s[1]]

\* m_socket.close() completes what is outstanding with an error.
Aborted ==
  Times(reads, Done("read", FALSE))
    \o (IF write_op.pc = "writing" THEN Done("write", FALSE) ELSE <<>>)
    \o (IF m_socket = "connecting" THEN Done("connect", FALSE) ELSE <<>>)

CloseSocket(queue) ==
  /\ completions' = queue \o Aborted
  /\ m_socket' = "closed"
  /\ reads' = 0
  /\ write_op' = [write_op EXCEPT !.pc = IF @ = "writing" THEN "over" ELSE @]
  /\ wire' = <<>> /\ inbox' = <<>>
  /\ UNCHANGED eof

\* async_read on a socket that is closed fails at once.
AsyncRead(queue) ==
  IF m_socket = "closed"
  THEN completions' = queue \o Done("read", FALSE) /\ UNCHANGED reads
  ELSE completions' = queue /\ reads' = reads + 1

AsyncWrite(buffer, queue) ==
  /\ write_op' = [pc |-> IF m_socket = "open" THEN "writing" ELSE "over",
                  n |-> Len(buffer), done |-> 0, moved |-> FALSE]
  /\ completions' = queue \o (IF m_socket = "open" THEN <<>> ELSE Done("write", FALSE))

HandleConnect ==
  /\ Runs("connect")
  /\ IF Head(completions).ok
     THEN m_is_connected' = TRUE /\ AsyncRead(Tail(completions))
     ELSE completions' = Tail(completions) /\ UNCHANGED <<m_is_connected, reads>>
  /\ Notify
  /\ UNCHANGED <<m_socket, bufVars, write_op, netVars, sendVars, io>>

HandleClose ==
  /\ Runs("close")
  /\ CloseSocket(Tail(completions))
  /\ Notify
  /\ UNCHANGED <<m_is_connected, bufVars, sendVars, io>>

\* The first statement of process_disconnection.
StartDisconnection == io' = "closing" /\ m_is_connected' = FALSE

HandleRead ==
  /\ Runs("read")
  /\ IF Head(completions).ok
     THEN io' = "receive" /\ UNCHANGED m_is_connected
     ELSE StartDisconnection
  /\ completions' = Tail(completions)
  /\ m_read_buffer' = IF ReadIsQueued' THEN m_read_buffer ELSE <<>>
  /\ UNCHANGED <<m_socket, m_write_buffer, write_op, reads, netVars, ownerVars, sendVars>>

Bug_ReadsOnce(ok) ==
  /\ io = "receive"
  /\ IF ok THEN io' = "idle" /\ UNCHANGED m_is_connected ELSE StartDisconnection
  /\ UNCHANGED <<m_socket, bufVars, opVars, netVars, ownerVars, sendVars>>

\* m_receive_handler returns whether it could use the bytes.
ReceiveReturns(ok) ==
  /\ io = "receive"
  /\ IF ok
     THEN io' = "idle" /\ AsyncRead(completions) /\ UNCHANGED m_is_connected
     ELSE StartDisconnection /\ UNCHANGED <<completions, reads>>
  /\ UNCHANGED <<m_socket, bufVars, write_op, netVars, ownerVars, sendVars>>

Bug_WritesOnce(rest) == write_op' = NoWrite /\ completions' = Tail(completions)

\* What was appended during the write is written next.
WriteNext(rest) ==
  IF rest = <<>> THEN write_op' = NoWrite /\ completions' = Tail(completions)
  ELSE AsyncWrite(rest, Tail(completions))

\* An error leaves the bytes in m_write_buffer.
HandleWrite ==
  /\ Runs("write")
  /\ IF Head(completions).ok
     THEN /\ m_write_buffer' = Rest(m_write_buffer, write_op.n)
          /\ WriteNext(m_write_buffer')
          /\ UNCHANGED <<io, m_is_connected>>
     ELSE /\ StartDisconnection
          /\ write_op' = NoWrite /\ completions' = Tail(completions)
          /\ UNCHANGED m_write_buffer
  /\ UNCHANGED <<m_socket, m_read_buffer, reads, netVars, ownerVars, sendVars>>

Bug_DropsTheBytes ==
  /\ io = "closing"
  /\ io' = "handler"
  /\ CloseSocket(completions)
  /\ m_write_buffer' = <<>>
  /\ UNCHANGED <<m_is_connected, m_read_buffer, ownerVars, sendVars>>

\* The rest of it, up to the handler.
Disconnection ==
  /\ io = "closing"
  /\ io' = "handler"
  /\ CloseSocket(completions)
  /\ UNCHANGED <<m_is_connected, bufVars, ownerVars, sendVars>>

CallDisconnectionHandler ==
  /\ io = "handler"
  /\ io' = "idle"
  /\ UNCHANGED <<linkVars, bufVars, opVars, netVars, ownerVars, sendVars>>

-----------------------------------------------------------------------------
(* A sender.                                                               *)

SendChecks(s) ==
  /\ sender[s] = "idle" /\ sent + Cardinality({t \in Senders : sender[t] = "checked"}) < MaxCommands
  /\ m_is_connected
  /\ sender' = [sender EXCEPT ![s] = "checked"]
  /\ UNCHANGED <<linkVars, bufVars, opVars, netVars, ownerVars, sent, io>>

\* Under m_write_buffer_mutex.  Growing the vector may move it while an
\* async_write reads from it.
SendAppends(s, next) ==
  /\ sender[s] = "checked"
  /\ sender' = [sender EXCEPT ![s] = next]
  /\ sent' = sent + 1
  /\ m_write_buffer' = Append(m_write_buffer, sent + 1)
  /\ IF m_write_buffer # <<>>
     THEN /\ \E moved \in {write_op.moved, write_op.pc = "writing"} :
               write_op' = [write_op EXCEPT !.moved = @ \/ moved]
          /\ UNCHANGED completions
     ELSE AsyncWrite(m_write_buffer', completions)
  /\ UNCHANGED <<linkVars, m_read_buffer, reads, netVars, ownerVars, io>>

-----------------------------------------------------------------------------
(* The socket and the server.                                              *)

ConnectCompletes ==
  /\ m_socket = "connecting"
  /\ \/ /\ m_socket' = "open" /\ eof' = FALSE
        /\ completions' = completions \o Done("connect", TRUE)
        /\ UNCHANGED <<reads, write_op, wire, inbox>>
     \/ CloseSocket(completions)
  /\ UNCHANGED <<m_is_connected, bufVars, ownerVars, sendVars, io>>

SocketWrites ==
  /\ m_socket = "open" /\ write_op.pc = "writing"
  /\ \E unit \in {m_write_buffer[write_op.done + 1]} \cup (IF write_op.moved THEN {Garbage} ELSE {}) :
       wire' = Append(wire, unit)
  /\ IF write_op.done + 1 = write_op.n
     THEN /\ write_op' = [write_op EXCEPT !.done = @ + 1, !.pc = "over"]
          /\ completions' = completions \o Done("write", TRUE)
     ELSE write_op' = [write_op EXCEPT !.done = @ + 1] /\ UNCHANGED completions
  /\ UNCHANGED <<linkVars, bufVars, reads, inbox, eof, ownerVars, sendVars, io>>

WriteFails ==
  /\ m_socket = "open" /\ write_op.pc = "writing" /\ eof
  /\ write_op' = [write_op EXCEPT !.pc = "over"]
  /\ completions' = completions \o Done("write", FALSE)
  /\ UNCHANGED <<linkVars, bufVars, reads, netVars, ownerVars, sendVars, io>>

\* async_read completes with the bytes there are, or some of them.
SocketReads ==
  /\ m_socket = "open" /\ reads > 0 /\ inbox # <<>>
  /\ \E k \in 1..Len(inbox) :
       /\ inbox' = Rest(inbox, k)
       /\ m_read_buffer' = SubSeq(inbox, 1, k)
                             \o (IF ReadIsQueued THEN Rest(m_read_buffer, k) ELSE <<>>)
       /\ completions' = Append(completions, [op |-> "read", ok |-> TRUE, length |-> k])
  /\ reads' = reads - 1
  /\ UNCHANGED <<linkVars, m_write_buffer, write_op, wire, eof, ownerVars, sendVars, io>>

SocketReadFails ==
  /\ m_socket = "open" /\ reads > 0 /\ inbox = <<>> /\ eof
  /\ reads' = reads - 1
  /\ completions' = completions \o Done("read", FALSE)
  /\ UNCHANGED <<linkVars, bufVars, write_op, netVars, ownerVars, sendVars, io>>

ServerAnswers(bytes) ==
  /\ m_socket = "open" /\ ~eof
  /\ wire # <<>> /\ Head(wire) # Garbage
  /\ wire' = Tail(wire)
  /\ inbox' = inbox \o bytes
  /\ UNCHANGED <<linkVars, bufVars, opVars, eof, ownerVars, sendVars, io>>

ServerCloses ==
  /\ m_socket = "open" /\ ~eof
  /\ eof' = TRUE
  /\ UNCHANGED <<linkVars, bufVars, opVars, wire, inbox, ownerVars, sendVars, io>>

-----------------------------------------------------------------------------
OwnerStep == Connect \/ Disconnect \/ TestNotified \/ StartWaiting

NetworkStep == ConnectCompletes \/ SocketWrites \/ WriteFails \/ SocketReads \/ SocketReadFails

Next ==
  \/ OwnerStep \/ WakesSpuriously
  \/ HandleConnect \/ HandleClose \/ HandleRead \/ HandleWrite
  \/ (\E ok \in BOOLEAN : ReceiveReturns(ok))
  \/ Disconnection \/ CallDisconnectionHandler
  \/ (\E s \in Senders : SendChecks(s) \/ SendAppends(s, "idle"))
  \/ NetworkStep \/ ServerAnswers(<<Head(wire)>>) \/ ServerCloses

Spec == Init /\ [][Next]_tcpVars

-----------------------------------------------------------------------------
(* Properties.                                                             *)

\* tcp_client.cpp:123-124, of bytes that are already in the buffer: "async_write
\* callback will process the new buffer".  While the client is connected there is
\* such a callback to come whenever there are bytes, and no other is queued.
BufferIsBeingWritten ==
  m_is_connected /\ m_socket = "open" /\ completions = <<>> /\ m_write_buffer # <<>>
    => write_op.pc # "none"

\* The callback erases what it has written and nothing that was appended in the
\* meantime: a write never covers more than the buffer, and none is outstanding
\* for an empty one, so that two are never started at a time.
WritesStayInBuffer ==
  IF write_op.pc = "none" THEN write_op = NoWrite
  ELSE write_op.n \in 1..Len(m_write_buffer) /\ write_op.done \in 0..write_op.n
=============================================================================
