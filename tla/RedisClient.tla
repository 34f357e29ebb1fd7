------------------------------ MODULE RedisClient ------------------------------
(***************************************************************************)
(* cpp_redis/sources/redis_client.cpp over network/redis_connection.cpp:   *)
(* commands of several threads, their callbacks in a queue, and the        *)
(* replies that the io thread decodes and hands to the callback in front.  *)
(* Each action of RedisTcpClient is taken with what its callers do in it.  *)
(***************************************************************************)
EXTENDS RedisTcpClient, ReplyBuilder

VARIABLES
  m_callbacks_mutex,
  m_callbacks,   \* each callback by the command it was sent with
  m_builder,
  replying,      \* commands the server answered whose reply was not handed over
  sound          \* the connection is open and began with a clean client

clientVars == <<m_callbacks_mutex, m_callbacks, m_builder, replying, sound>>
vars == <<tcpVars, clientVars>>

Free == "free"

ASSUME ClientAssumption == Free \notin Senders

\* PUBLISH is answered with a number; here it names the command.
ReplyTo(c) == [type |-> Number, val |-> c]

ClientTypeOK ==
  /\ TypeOK
  /\ m_callbacks_mutex \in {Free} \cup Senders
  /\ m_callbacks \in Seq(Command)
  /\ m_builder.thrown \in BOOLEAN
  /\ \A i \in DOMAIN m_builder.replies : m_builder.replies[i].val \in Nat
  /\ replying \in Seq(Command) /\ sound \in BOOLEAN

ClientInit ==
  /\ Init
  /\ m_callbacks_mutex = Free /\ m_callbacks = <<>>
  /\ m_builder = NoReplyYet
  /\ replying = <<>> /\ sound = FALSE

-----------------------------------------------------------------------------
(* A sender: send() holds m_callbacks_mutex until the callback is queued.  *)

Bug_LocksLate(s) == SendChecks(s) /\ UNCHANGED clientVars

\* It locks, and returns by an exception if there is no connection.
LockAndCheck(s) ==
  /\ m_callbacks_mutex = Free
  /\ m_callbacks_mutex' = s
  /\ SendChecks(s)
  /\ UNCHANGED <<m_callbacks, m_builder, replying, sound>>

\* Memory that was moved under a running write: its bytes may be anything.
SendCommand(s) ==
  /\ SendAppends(s, "appended")
  /\ sound' = (sound /\ ~write_op'.moved)
  /\ UNCHANGED <<m_callbacks_mutex, m_callbacks, m_builder, replying>>

PushCallback(s) ==
  /\ sender[s] = "appended"
  /\ sender' = [sender EXCEPT ![s] = "idle"]
  /\ m_callbacks' = Append(m_callbacks, sent)
  /\ m_callbacks_mutex' = Free
  /\ UNCHANGED <<linkVars, bufVars, opVars, ownerVars, sent, io, netVars,
                 m_builder, replying, sound>>

-----------------------------------------------------------------------------
(* The io thread.                                                          *)

\* Nothing of an earlier connection is left.
Clean ==
  /\ m_write_buffer = <<>> /\ m_callbacks = <<>> /\ m_builder = NoReplyYet
  /\ reads = 0 /\ ~ReadIsQueued /\ m_callbacks_mutex = Free

ClientConnected ==
  /\ HandleConnect
  /\ sound' = (Head(completions).ok /\ m_socket = "open" /\ Clean)
  /\ UNCHANGED <<m_callbacks_mutex, m_callbacks, m_builder, replying>>

\* tcp_client_receive_handler: m_builder << the bytes of the read ...
FeedBuilder ==
  /\ HandleRead
  /\ m_builder' = IF Head(completions).ok
                  THEN Given(m_builder, SubSeq(m_read_buffer, 1, Head(completions).length))
                  ELSE m_builder
  /\ UNCHANGED <<m_callbacks_mutex, m_callbacks, replying, sound>>

Built == Build(m_builder) = m_builder

Decode ==
  /\ io = "receive" /\ ~Built
  /\ m_builder' = Build(m_builder)
  /\ UNCHANGED <<tcpVars, m_callbacks_mutex, m_callbacks, replying, sound>>

\* ... then one reply after the other to connection_receive_handler.
HandOver ==
  /\ io = "receive" /\ Built /\ ~m_builder.thrown /\ m_builder.replies # <<>>
  /\ m_callbacks_mutex = Free
  /\ m_builder' = [m_builder EXCEPT !.replies = Tail(@)]
  /\ m_callbacks' = Rest(m_callbacks, 1)
  /\ replying' = Rest(replying, 1)
  /\ UNCHANGED <<tcpVars, m_callbacks_mutex, sound>>

Received ==
  /\ Built
  /\ m_builder.thrown \/ m_builder.replies = <<>>
  /\ ReceiveReturns(~m_builder.thrown)
  /\ UNCHANGED clientVars

Lost == sound' = FALSE /\ replying' = <<>>

SocketClosed ==
  /\ HandleClose \/ Disconnection
  /\ Lost
  /\ UNCHANGED <<m_callbacks_mutex, m_callbacks, m_builder>>

Bug_ClearsUnlocked ==
  /\ CallDisconnectionHandler
  /\ m_callbacks' = <<>>
  /\ UNCHANGED <<m_callbacks_mutex, m_builder, replying, sound>>

\* connection_disconnection_handler: clear_callbacks.
ClearCallbacks ==
  /\ m_callbacks_mutex = Free
  /\ CallDisconnectionHandler
  /\ m_callbacks' = <<>>
  /\ UNCHANGED <<m_callbacks_mutex, m_builder, replying, sound>>

-----------------------------------------------------------------------------
RedisAnswers ==
  /\ wire # <<>>
  /\ ServerAnswers(Encoded(ReplyTo(Head(wire))))
  /\ replying' = Append(replying, Head(wire))
  /\ UNCHANGED <<m_callbacks_mutex, m_callbacks, m_builder, sound>>

Send(s) == LockAndCheck(s) \/ SendCommand(s) \/ PushCallback(s)

IoStep ==
  \/ ClientConnected \/ FeedBuilder \/ Decode \/ HandOver \/ Received
  \/ SocketClosed \/ ClearCallbacks
  \/ HandleWrite /\ UNCHANGED clientVars

ClientNext ==
  \/ (OwnerStep \/ WakesSpuriously \/ NetworkStep \/ ServerCloses) /\ UNCHANGED clientVars
  \/ IoStep \/ RedisAnswers
  \/ \E s \in Senders : Send(s)

\* Threads run, the kernel moves bytes, and Redis answers the commands it reads;
\* nobody has to connect, to send or to disconnect.
FairSpec ==
  /\ ClientInit /\ [][ClientNext]_vars
  /\ WF_vars(IoStep)
  /\ WF_vars(RedisAnswers)
  /\ WF_vars((TestNotified \/ StartWaiting) /\ UNCHANGED clientVars)
  /\ WF_vars(NetworkStep /\ UNCHANGED clientVars)
  /\ \A s \in Senders : WF_vars(SendCommand(s) \/ PushCallback(s))

-----------------------------------------------------------------------------
(* Properties.                                                             *)

\* The command of a sender between m_client.send and m_callbacks.push.
Unpushed == IF \E s \in Senders : sender[s] = "appended" THEN <<sent>> ELSE <<>>

\* Replies carry no name: a callback gets the reply that comes when it is in
\* front.  On a connection that began with a clean client the queue of callbacks
\* is, over all threads and buffers, exactly the commands that are being
\* answered, on the wire, or still to be written, in this order, and the replies
\* that are decoded are those of the callbacks in front.  (Once the io thread has
\* begun to give up the connection it forgets how far the last write got.)
CallbacksMeetTheirReplies ==
  sound /\ io # "closing" =>
    /\ m_callbacks \o Unpushed
         = replying \o wire \o Rest(m_write_buffer, write_op.done)
    /\ m_builder.replies
         = [i \in DOMAIN m_builder.replies |-> ReplyTo(replying[i])]

\* When a lost connection has been dealt with, no callback is left that a reply
\* on the next connection could be given to, also if a thread was sending.
NoCallbackSurvives ==
  m_socket = "closed" /\ completions = <<>> /\ io = "idle" /\ m_callbacks_mutex = Free
    => m_callbacks = <<>>

\* The builder of a new client decodes every stream of replies the same way,
\* whatever the reads that bring it: a cut may fall inside a size, between CR and
\* LF, or in a text that looks like an end of line.
RepliesAreCutIndependent == connects = 0 => DecodesHoweverCut(m_builder)

\* connect() and disconnect() return, unless the notification came between
\* their test of is_notified and their wait.
ReturnsUnlessWakeupLost ==
  owner = "testing" ~>
    owner \in {"idle", "stray"} \/ (owner = "waiting" /\ is_notified)

\* On a connection that is not lost every command gets its reply: none stays in
\* a buffer, whoever appended it while the one before was being written.
CommandsAreAnswered ==
  \A c \in Command :
    sound /\ sent >= c ~> ~sound \/ \A i \in DOMAIN m_callbacks : m_callbacks[i] # c

\* A connection that the server has closed is noticed by the client.
EndOfStreamIsNoticed == eof /\ sound ~> ~m_is_connected
=============================================================================
