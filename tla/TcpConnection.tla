---------------------------- MODULE TcpConnection ----------------------------
(***************************************************************************)
(* communication/tcp_connection.{h,cpp} with the object that owns it,      *)
(* RoundBasedPlayer (games/round_based/player.cpp).  Two threads use the   *)
(* connection: the io thread runs the read handlers and, inside them, the  *)
(* callbacks; the user thread registers observers, reads, and in the end   *)
(* destroys the player and with it the connection.                         *)
(***************************************************************************)
EXTENDS Integers, Sequences

CONSTANTS
  MaxLines,   \* bound: lines the peer writes
  MaxCalls    \* bound: calls of the user thread

ASSUME ConnectionAssumption ==
  /\ MaxLines \in Nat
  /\ MaxCalls \in Nat

VARIABLES
  sent, half, kernel, eof,  \* peer: full lines written, a started line, bytes
                            \* the socket has not read yet, end of stream
  buffered,                 \* lines that have reached buffer_
  taken,                    \* those HandleRead has made messages of
  read_op,                  \* the pending async_read_until
  observers, messages,      \* the two queues
  pc, hand,                 \* per thread: where it is, the message it carries
  read_handle_mutex, should_continue_reading, disconnected,
  connection,               \* RoundBasedPlayer::connection_ is not null
  calls, delivered          \* calls made; lines handed out, in order

peerVars == <<sent, half, kernel, eof>>
readVars == <<buffered, taken, read_op>>
queueVars == <<observers, messages>>
stopVars == <<read_handle_mutex, should_continue_reading, disconnected, connection>>
vars == <<peerVars, readVars, queueVars, pc, hand, stopVars, calls, delivered>>

Io == "io"
User == "user"
Free == "free"

\* An observer is RoundBasedPlayer::ProcessMessage, which registers itself
\* again, or a callback that does not.
Kind == {"player", "plain"}

\* armed: a read of the socket is outstanding; ready, failed: its completion is
\* queued for the io thread, with data or with an error.
ReadOp == {"none", "armed", "ready", "failed"}

\* The wait of the destructor ends by a notification (woken) or without one
\* (stray), and with it the life of the object.
UserPc == {"idle", "callback", "again", "destroying", "waiting", "woken",
           "destroyed", "stray", "destroyed early"}
\* An exception has ended io_service.run(), or the process has crashed.
IoPc == {"idle", "callback", "again", "finish", "ended", "crashed"}
Nothing == [line |-> 0, kind |-> "plain"]

TypeOK ==
  /\ sent \in 0..MaxLines /\ buffered \in 0..sent /\ taken \in 0..buffered
  /\ half \in BOOLEAN /\ kernel \in BOOLEAN /\ eof \in BOOLEAN
  /\ read_op \in ReadOp
  /\ observers \in Seq(Kind) /\ messages \in Seq(1..MaxLines)
  /\ pc \in [{Io, User} -> IoPc \cup UserPc]
  /\ pc[Io] \in IoPc /\ pc[User] \in UserPc
  /\ hand \in [{Io, User} -> [line : 0..MaxLines, kind : Kind]]
  /\ read_handle_mutex \in {Free, Io}
  /\ should_continue_reading \in BOOLEAN /\ disconnected \in BOOLEAN
  /\ connection \in BOOLEAN
  /\ calls \in 0..MaxCalls /\ delivered \in Seq(1..MaxLines)

\* The constructor: the first ReadMessage().
Init ==
  /\ sent = 0 /\ half = FALSE /\ kernel = FALSE /\ eof = FALSE
  /\ buffered = 0 /\ taken = 0 /\ read_op = "armed"
  /\ observers = <<>> /\ messages = <<>>
  /\ pc = [t \in {Io, User} |-> "idle"]
  /\ hand = [t \in {Io, User} |-> Nothing]
  /\ read_handle_mutex = Free
  /\ should_continue_reading = TRUE /\ disconnected = FALSE
  /\ connection = TRUE
  /\ calls = 0 /\ delivered = <<>>

-----------------------------------------------------------------------------
(* The peer and the socket.                                                *)

PeerSendsLine ==
  /\ ~eof /\ sent < MaxLines
  /\ sent' = sent + 1 /\ half' = FALSE /\ kernel' = TRUE
  /\ UNCHANGED <<eof, readVars, queueVars, pc, hand, stopVars, calls, delivered>>

PeerSendsHalfALine ==
  /\ ~eof /\ ~half /\ sent < MaxLines
  /\ half' = TRUE /\ kernel' = TRUE
  /\ UNCHANGED <<sent, eof, readVars, queueVars, pc, hand, stopVars, calls, delivered>>

PeerCloses ==
  /\ ~eof
  /\ eof' = TRUE
  /\ UNCHANGED <<sent, half, kernel, readVars, queueVars, pc, hand, stopVars, calls, delivered>>

\* The outstanding read completes with what there is, or with end of file.
SocketCompletes ==
  /\ read_op = "armed"
  /\ \/ kernel /\ read_op' = "ready" /\ buffered' = sent /\ kernel' = FALSE
     \/ ~kernel /\ eof /\ read_op' = "failed" /\ UNCHANGED <<buffered, kernel>>
  /\ UNCHANGED <<sent, half, eof, taken, queueVars, pc, hand, stopVars, calls, delivered>>

-----------------------------------------------------------------------------
(* Both threads.                                                           *)

Bug_TakesLast(t, kind, next) ==
  IF messages # <<>>
  THEN /\ hand' = [hand EXCEPT ![t] = [line |-> messages[Len(messages)], kind |-> kind]]
       /\ messages' = SubSeq(messages, 1, Len(messages) - 1)
       /\ pc' = [pc EXCEPT ![t] = "callback"]
       /\ UNCHANGED observers
  ELSE /\ observers' = Append(observers, kind)
       /\ pc' = [pc EXCEPT ![t] = next]
       /\ UNCHANGED <<hand, messages>>

\* ReadMessageAsync: queue_mutex_ covers the choice, not the callback.
ReadMessageAsync(t, kind, next) ==
  IF messages # <<>>
  THEN /\ hand' = [hand EXCEPT ![t] = [line |-> Head(messages), kind |-> kind]]
       /\ messages' = Tail(messages)
       /\ pc' = [pc EXCEPT ![t] = "callback"]
       /\ UNCHANGED observers
  ELSE /\ observers' = Append(observers, kind)
       /\ pc' = [pc EXCEPT ![t] = next]
       /\ UNCHANGED <<hand, messages>>

AfterCallback(t) == IF t = Io THEN "finish" ELSE "idle"

\* The callback runs; the player's ends in WaitForMessageAsync, which tests
\* connection_ before it uses it.
Callback(t) ==
  /\ pc[t] = "callback"
  /\ delivered' = Append(delivered, hand[t].line)
  /\ pc' = [pc EXCEPT ![t] = IF hand[t].kind = "player" /\ connection
                             THEN "again" ELSE AfterCallback(t)]
  /\ hand' = [hand EXCEPT ![t] = Nothing]
  /\ UNCHANGED <<peerVars, readVars, queueVars, stopVars, calls>>

\* ... and uses it.
WaitForMessageAsync(t) ==
  /\ pc[t] = "again"
  /\ ReadMessageAsync(t, "player", AfterCallback(t))
  /\ UNCHANGED <<peerVars, readVars, stopVars, calls, delivered>>

\* connection_ is reset between the test and the use: a data race, in which the
\* io thread either calls through the null pointer or, as above, the old one.
NullConnection ==
  /\ pc[Io] = "again"
  /\ ~connection
  /\ pc' = [pc EXCEPT ![Io] = "crashed"]
  /\ UNCHANGED <<peerVars, readVars, queueVars, hand, stopVars, calls, delivered>>

\* The callback throws, as JoinRequest and ProcessMessage do on JSON they do not
\* expect.  Nothing in HandleRead catches it: no next read, no notification, and
\* the io loop ends.  In the user thread its caller gets it.
CallbackThrows(t) ==
  /\ pc[t] = "callback"
  /\ delivered' = Append(delivered, hand[t].line)
  /\ hand' = [hand EXCEPT ![t] = Nothing]
  /\ pc' = [pc EXCEPT ![t] = IF t = Io THEN "ended" ELSE "idle"]
  /\ read_handle_mutex' = IF t = Io THEN Free ELSE read_handle_mutex
  /\ UNCHANGED <<peerVars, readVars, queueVars, should_continue_reading, disconnected,
                 connection, calls>>

-----------------------------------------------------------------------------
(* The io thread.                                                          *)

Notified == [pc EXCEPT ![Io] = "idle",
                       ![User] = IF @ = "waiting" THEN "woken" ELSE @]

Bug_LineReady == buffered >= taken

\* buffer_ holds a complete line that HandleRead has not taken.
LineReady == buffered > taken

Bug_ReadsOn == IF LineReady THEN "ready" ELSE "armed"
Bug_ReadsOnlyNewData == IF should_continue_reading THEN "armed" ELSE "none"

\* ReadMessage() at the end of HandleRead: a line that is in buffer_ already
\* completes the read at once.
NextRead ==
  IF ~should_continue_reading THEN "none"
  ELSE IF LineReady THEN "ready" ELSE "armed"

\* The composed read was completed by a part of a line: it reads on, whatever
\* has been cancelled in the meantime.
ContinueRead ==
  /\ pc[Io] = "idle"
  /\ read_op = "ready" /\ ~LineReady
  /\ read_op' = "armed"
  /\ UNCHANGED <<peerVars, buffered, taken, queueVars, pc, hand, stopVars, calls, delivered>>

Bug_QueuesAlways ==
  /\ messages' = Append(messages, taken + 1)
  /\ pc' = [pc EXCEPT ![Io] = "finish"]
  /\ UNCHANGED <<observers, hand>>

\* ProcessMessage up to the call of the observer.
ProcessMessage ==
  IF observers # <<>>
  THEN /\ hand' = [hand EXCEPT ![Io] = [line |-> taken + 1, kind |-> Head(observers)]]
       /\ observers' = Tail(observers)
       /\ pc' = [pc EXCEPT ![Io] = "callback"]
       /\ UNCHANGED messages
  ELSE /\ messages' = Append(messages, taken + 1)
       /\ pc' = [pc EXCEPT ![Io] = "finish"]
       /\ UNCHANGED <<observers, hand>>

\* HandleRead without an error, from its guard on.
HandleRead ==
  /\ pc[Io] = "idle"
  /\ read_op = "ready" /\ LineReady
  /\ read_handle_mutex = Free
  /\ read_handle_mutex' = Io
  /\ read_op' = "none"
  /\ taken' = taken + 1
  /\ ProcessMessage
  /\ UNCHANGED <<peerVars, buffered, should_continue_reading, disconnected,
                 connection, calls, delivered>>

\* The text of the line is not JSON: new Message throws before ProcessMessage,
\* with what an exception of the callback leads to.
MessageThrows ==
  /\ pc[Io] = "idle"
  /\ read_op = "ready" /\ LineReady
  /\ read_handle_mutex = Free
  /\ read_op' = "none"
  /\ pc' = [pc EXCEPT ![Io] = "ended"]
  /\ UNCHANGED <<peerVars, buffered, taken, queueVars, hand, stopVars, calls, delivered>>

FinishRead ==
  /\ pc[Io] = "finish"
  /\ read_op' = NextRead
  /\ read_handle_mutex' = Free
  /\ pc' = Notified
  /\ UNCHANGED <<peerVars, buffered, taken, queueVars, hand, should_continue_reading,
                 disconnected, connection, calls, delivered>>

HandleReadError ==
  /\ pc[Io] = "idle"
  /\ read_op = "failed"
  /\ read_handle_mutex = Free
  /\ read_op' = "none"
  /\ disconnected' = TRUE
  /\ pc' = Notified
  /\ UNCHANGED <<peerVars, buffered, taken, queueVars, hand, read_handle_mutex,
                 should_continue_reading, connection, calls, delivered>>

-----------------------------------------------------------------------------
(* The user thread.                                                        *)

UserReadsAsync(kind) ==
  /\ pc[User] = "idle" /\ calls < MaxCalls
  /\ calls' = calls + 1
  /\ ReadMessageAsync(User, kind, "idle")
  /\ UNCHANGED <<peerVars, readVars, stopVars, delivered>>

\* Read(); the nullptr it returns when there is no message changes nothing.
UserReads ==
  /\ pc[User] = "idle" /\ calls < MaxCalls
  /\ messages # <<>>
  /\ calls' = calls + 1
  /\ messages' = Tail(messages)
  /\ delivered' = Append(delivered, Head(messages))
  /\ UNCHANGED <<peerVars, readVars, observers, pc, hand, stopVars>>

\* ~RoundBasedPlayer: connection_.reset() clears the pointer first.
ResetConnection ==
  /\ pc[User] = "idle"
  /\ connection' = FALSE
  /\ pc' = [pc EXCEPT ![User] = "destroying"]
  /\ UNCHANGED <<peerVars, readVars, queueVars, hand, read_handle_mutex,
                 should_continue_reading, disconnected, calls, delivered>>

Bug_NoCancel == UNCHANGED read_op

\* socket_.cancel() reaches an outstanding read, not a queued completion.
Cancel == read_op' = IF read_op = "armed" THEN "failed" ELSE read_op

\* ~TcpConnection up to the wait, which gives the mutex back.
StopReading ==
  /\ pc[User] = "destroying"
  /\ read_handle_mutex = Free
  /\ IF disconnected
     THEN /\ pc' = [pc EXCEPT ![User] = "destroyed"]
          /\ UNCHANGED <<should_continue_reading, read_op>>
     ELSE /\ pc' = [pc EXCEPT ![User] = "waiting"]
          /\ should_continue_reading' = FALSE
          /\ Cancel
  /\ UNCHANGED <<peerVars, buffered, taken, queueVars, hand, read_handle_mutex,
                 disconnected, connection, calls, delivered>>

\* The wait returns and the object is gone; no predicate is looked at.
Destroyed ==
  /\ pc[User] \in {"woken", "stray"}
  /\ read_handle_mutex = Free
  /\ pc' = [pc EXCEPT ![User] = IF @ = "woken" THEN "destroyed" ELSE "destroyed early"]
  /\ UNCHANGED <<peerVars, readVars, queueVars, hand, stopVars, calls, delivered>>

\* condition_variable::wait may return without a notification.
WakesSpuriously ==
  /\ pc[User] = "waiting"
  /\ pc' = [pc EXCEPT ![User] = "stray"]
  /\ UNCHANGED <<peerVars, readVars, queueVars, hand, stopVars, calls, delivered>>

-----------------------------------------------------------------------------
IoStep == Callback(Io) \/ WaitForMessageAsync(Io) \/ ContinueRead \/ HandleRead
            \/ FinishRead \/ HandleReadError

UserCallback == Callback(User) \/ WaitForMessageAsync(User)
Destructor == StopReading \/ Destroyed

Next ==
  \/ PeerSendsLine \/ PeerSendsHalfALine \/ PeerCloses \/ SocketCompletes
  \/ IoStep \/ NullConnection \/ MessageThrows \/ (\E t \in {Io, User} : CallbackThrows(t))
  \/ UserCallback \/ (\E kind \in Kind : UserReadsAsync(kind)) \/ UserReads
  \/ ResetConnection \/ Destructor \/ WakesSpuriously

Spec == Init /\ [][Next]_vars

\* io_service.run() and a thread in a call keep going, and the kernel reports
\* what has arrived; the peer and the decision to destroy owe nothing.
FairSpec ==
  /\ Spec
  /\ WF_vars(IoStep)
  /\ WF_vars(SocketCompletes)
  /\ WF_vars(UserCallback)
  /\ WF_vars(Destructor)

-----------------------------------------------------------------------------
(* Properties.                                                             *)

NoReadLeft == read_op = "none" /\ pc[Io] \in {"idle", "ended"}
IoLoopEnded == pc[Io] \in {"ended", "crashed"}

\* Once the destructor has returned after a notification, or without a wait, no
\* read of the connection is pending and no handler of it is running: whatever
\* completion was queued when it cancelled, it was woken by the last one.
NotifiedDestructionIsLast == pc[User] = "destroyed" => NoReadLeft

\* tcp_connection.h:56 of read_handle_mutex_ and read_performed_: "Used to
\* synchronize destroying the object with executing last read handler".
DestructionIsLast == pc[User] \in {"destroyed", "destroyed early"} => NoReadLeft

\* No message waits while an observer waits, whichever thread came first.
NoMessageBesideObserver == messages = <<>> \/ observers = <<>>

InHand(t) == IF pc[t] = "callback" THEN <<hand[t].line>> ELSE <<>>

\* Lines reach their readers in the order sent, none twice and none lost, over
\* both queues and both threads: each line taken from the socket is delivered,
\* in the hands of one thread, or queued, and every later line is behind it.
InOrderExactlyOnce ==
  delivered \o InHand(User) \o InHand(Io) \o messages = [i \in 1..taken |-> i]

\* After the destructor has asked for it no read is started any more, so at most
\* the one line whose completion was queued is still handled.
StopsAfterOneMoreLine ==
  [][~should_continue_reading =>
       /\ read_op = "none" => read_op' = "none" /\ taken' = taken
       /\ taken' > taken => read_op' = "none"]_vars

\* A complete line is handled without any further byte of the peer, also when it
\* reached buffer_ together with the line before it, as long as the io loop runs.
NoLineStalls ==
  \A n \in 1..MaxLines : sent >= n ~> taken >= n \/ ~connection \/ IoLoopEnded

\* cancel() came while the completion of a half line was queued: the read goes on
\* and the destructor waits for the peer to end its line or to leave.
AwaitsPeer == pc[User] = "waiting" /\ read_op = "armed" /\ half /\ ~eof

\* While the io loop runs, the destructor returns, whatever the read was doing
\* when it was cancelled, unless it awaits a peer that never does anything more.
DestructorReturns ==
  pc[User] = "destroying" ~>
    pc[User] \in {"destroyed", "destroyed early"} \/ IoLoopEnded \/ []AwaitsPeer
=============================================================================
