-------------------------- MODULE RedisClient_proofs --------------------------
(***************************************************************************)
(* The Redis client for any number of senders, of commands and of          *)
(* connections: its write buffer, its types, the callbacks of a connection *)
(* that was lost, the order of callbacks and replies on one that was not,  *)
(* and that replies are read whole.  Each part strengthens the property to *)
(* an invariant that every step keeps; ClientInv joins those about order.  *)
(***************************************************************************)
EXTENDS RedisClient, ReplyBuilder_proofs, FiniteSetTheorems, TLAPS

\* A write that the socket is still working on has something left to write.
BufferInv ==
  /\ m_write_buffer \in Seq(Nat) /\ sent \in Nat
  /\ write_op \in [pc : {"none", "writing", "over"}, n : Nat, done : Nat, moved : BOOLEAN]
  /\ write_op.pc = "writing" => write_op.done < write_op.n
  /\ WritesStayInBuffer

LEMMA BufferInvInit == Init => BufferInv
  BY EmptySeq DEF Init, BufferInv, WritesStayInBuffer, NoWrite

LEMMA BufferUntouched ==
  BufferInv /\ UNCHANGED <<m_write_buffer, write_op, sent>> => BufferInv'
  BY DEF BufferInv, WritesStayInBuffer

-----------------------------------------------------------------------------
(* The actions that touch the buffer or the write.                         *)

\* A write that is started covers the buffer.
LEMMA WriteStarts ==
  ASSUME m_write_buffer' \in Seq(Nat), m_write_buffer' # <<>>, sent' \in Nat,
         NEW queue, AsyncWrite(m_write_buffer', queue)
  PROVE  BufferInv'
<1> DEFINE l == Len(m_write_buffer')
<1>1. l \in Nat /\ l # 0
  BY EmptySeq, LenProperties
<1>2. /\ write_op' = [pc |-> IF m_socket = "open" THEN "writing" ELSE "over",
                      n |-> l, done |-> 0, moved |-> FALSE]
  BY DEF AsyncWrite
<1> HIDE DEF l
<1>3. /\ write_op' \in [pc : {"none", "writing", "over"}, n : Nat, done : Nat, moved : BOOLEAN]
      /\ write_op'.pc # "none" /\ write_op'.n = l /\ write_op'.done = 0
  BY <1>1, <1>2
<1>4. write_op'.n \in 1..l /\ write_op'.done \in 0..write_op'.n /\ write_op'.done < write_op'.n
  BY <1>1, <1>3
<1> QED
  BY <1>3, <1>4 DEF BufferInv, WritesStayInBuffer, l

LEMMA BufferInvClose ==
  ASSUME BufferInv, NEW queue, CloseSocket(queue), UNCHANGED <<m_write_buffer, sent>>
  PROVE  BufferInv'
<1>1. write_op' = [write_op EXCEPT !.pc = IF @ = "writing" THEN "over" ELSE @]
  BY DEF CloseSocket
<1>2. write_op \in [pc : {"none", "writing", "over"}, n : Nat, done : Nat, moved : BOOLEAN]
  BY DEF BufferInv
<1>3. /\ write_op' \in [pc : {"none", "writing", "over"}, n : Nat, done : Nat, moved : BOOLEAN]
      /\ write_op'.pc # "writing"
      /\ write_op'.pc = "none" <=> write_op.pc = "none"
      /\ write_op'.n = write_op.n /\ write_op'.done = write_op.done
      /\ write_op.pc = "none" => write_op' = write_op
  BY <1>1, <1>2
<1> QED
  BY <1>3 DEF BufferInv, WritesStayInBuffer

LEMMA BufferInvHandleWrite == BufferInv /\ HandleWrite => BufferInv'
<1> SUFFICES ASSUME BufferInv, HandleWrite PROVE BufferInv'
  OBVIOUS
<1>1. sent' = sent /\ sent \in Nat /\ m_write_buffer \in Seq(Nat) /\ write_op.n \in Nat
  BY DEF HandleWrite, sendVars, BufferInv
<1>2. CASE Head(completions).ok
  <2>1. m_write_buffer' = Rest(m_write_buffer, write_op.n) /\ WriteNext(m_write_buffer')
    BY <1>2 DEF HandleWrite
  <2>2. m_write_buffer' \in Seq(Nat)
    <3>1. /\ write_op.n + 1 \in Int /\ Len(m_write_buffer) \in Int
          /\ \A i \in write_op.n + 1..Len(m_write_buffer) : m_write_buffer[i] \in Nat
      BY <1>1, LenProperties, ElementOfSeq
    <3> QED
      BY <2>1, <3>1, SubSeqProperties DEF Rest
  <2>3. CASE m_write_buffer' = <<>>
    <3>1. write_op' = NoWrite
      BY <2>1, <2>3 DEF WriteNext
    <3>2. /\ write_op' \in [pc : {"none", "writing", "over"}, n : Nat, done : Nat, moved : BOOLEAN]
          /\ write_op'.pc = "none"
      BY <3>1 DEF NoWrite
    <3> QED
      BY <1>1, <2>2, <3>1, <3>2 DEF BufferInv, WritesStayInBuffer
  <2>4. CASE m_write_buffer' # <<>>
    BY <1>1, <2>1, <2>2, <2>4, WriteStarts DEF WriteNext
  <2> QED
    BY <2>3, <2>4
<1>3. CASE ~Head(completions).ok
  <2>1. write_op' = NoWrite /\ m_write_buffer' = m_write_buffer
    BY <1>3 DEF HandleWrite
  <2> QED
    BY <1>1, <2>1 DEF BufferInv, WritesStayInBuffer, NoWrite
<1> QED
  BY <1>2, <1>3

\* send() starts a write only if the buffer was empty, and then there is none.
LEMMA BufferInvSendAppends ==
  ASSUME BufferInv, NEW s, NEW next, SendAppends(s, next)
  PROVE  BufferInv'
<1>1. /\ sent' = sent + 1 /\ m_write_buffer' = Append(m_write_buffer, sent + 1)
      /\ sent \in Nat /\ m_write_buffer \in Seq(Nat)
  BY DEF SendAppends, BufferInv
<1>2. /\ m_write_buffer' \in Seq(Nat) /\ m_write_buffer' # <<>>
      /\ Len(m_write_buffer') = Len(m_write_buffer) + 1 /\ Len(m_write_buffer) \in Nat
  BY <1>1, AppendProperties, LenProperties
<1>3. CASE m_write_buffer # <<>>
  <2>1. PICK moved \in {write_op.moved, write_op.pc = "writing"} :
               write_op' = [write_op EXCEPT !.moved = @ \/ moved]
    BY <1>3 DEF SendAppends
  <2>2. /\ write_op \in [pc : {"none", "writing", "over"}, n : Nat, done : Nat, moved : BOOLEAN]
        /\ write_op.pc = "none" => write_op = NoWrite
    BY DEF BufferInv, WritesStayInBuffer
  <2>3. /\ write_op' \in [pc : {"none", "writing", "over"}, n : Nat, done : Nat, moved : BOOLEAN]
        /\ write_op'.pc = write_op.pc
        /\ write_op'.n = write_op.n /\ write_op'.done = write_op.done
    BY <2>1, <2>2
  <2>4. write_op.pc = "none" => write_op' = NoWrite
    BY <2>1, <2>2 DEF NoWrite
  <2> QED
    BY <1>1, <1>2, <2>3, <2>4 DEF BufferInv, WritesStayInBuffer
<1>4. CASE m_write_buffer = <<>>
  <2>1. AsyncWrite(m_write_buffer', completions)
    BY <1>4 DEF SendAppends
  <2> QED
    BY <1>1, <1>2, <2>1, WriteStarts
<1> QED
  BY <1>3, <1>4

LEMMA BufferInvNetwork == BufferInv /\ NetworkStep => BufferInv'
<1> SUFFICES ASSUME BufferInv, NetworkStep PROVE BufferInv'
  OBVIOUS
<1> USE DEF bufVars, sendVars
<1>1. CASE ConnectCompletes
  <2>1. CASE UNCHANGED write_op
    BY <1>1, <2>1, BufferUntouched DEF ConnectCompletes
  <2>2. CASE CloseSocket(completions)
    BY <1>1, <2>2, BufferInvClose DEF ConnectCompletes
  <2> QED
    BY <1>1, <2>1, <2>2 DEF ConnectCompletes
<1>2. CASE SocketWrites \/ WriteFails
  <2>1. /\ write_op \in [pc : {"none", "writing", "over"}, n : Nat, done : Nat, moved : BOOLEAN]
        /\ write_op.pc = "writing" /\ write_op.done < write_op.n
        /\ write_op.n \in 1..Len(m_write_buffer)
        /\ UNCHANGED <<m_write_buffer, sent>>
    BY <1>2 DEF SocketWrites, WriteFails, BufferInv, WritesStayInBuffer
  <2>2. \/ write_op' = [write_op EXCEPT !.pc = "over"]
        \/ write_op' = [write_op EXCEPT !.done = @ + 1, !.pc = "over"]
        \/ write_op' = [write_op EXCEPT !.done = @ + 1] /\ write_op.done + 1 # write_op.n
    BY <1>2 DEF SocketWrites, WriteFails
  <2>3. /\ write_op' \in [pc : {"none", "writing", "over"}, n : Nat, done : Nat, moved : BOOLEAN]
        /\ write_op'.pc # "none" /\ write_op'.n = write_op.n
        /\ write_op'.done \in 0..write_op.n
        /\ write_op'.pc = "writing" => write_op'.done < write_op.n
    <3>1. write_op.n \in Nat /\ write_op.done \in Nat
      BY <2>1
    <3>2. CASE write_op' = [write_op EXCEPT !.pc = "over"]
      BY <2>1, <3>1, <3>2
    <3>3. CASE write_op' = [write_op EXCEPT !.done = @ + 1, !.pc = "over"]
      <4>1. write_op'.pc = "over" /\ write_op'.done = write_op.done + 1 /\ write_op'.n = write_op.n
        BY <2>1, <3>3
      <4>2. write_op' \in [pc : {"none", "writing", "over"}, n : Nat, done : Nat, moved : BOOLEAN]
        <5> DEFINE w == [write_op EXCEPT !.done = @ + 1]
        <5>1. w \in [pc : {"none", "writing", "over"}, n : Nat, done : Nat, moved : BOOLEAN]
          BY <2>1, <3>1
        <5>2. write_op' = [w EXCEPT !.pc = "over"]
          BY <3>3
        <5> HIDE DEF w
        <5> QED
          BY <5>1, <5>2
      <4> QED
        BY <2>1, <3>1, <4>1, <4>2
    <3>4. CASE write_op' = [write_op EXCEPT !.done = @ + 1] /\ write_op.done + 1 # write_op.n
      BY <2>1, <3>1, <3>4
    <3> QED
      BY <2>2, <3>2, <3>3, <3>4
  <2> QED
    BY <2>1, <2>3 DEF BufferInv, WritesStayInBuffer
<1>3. CASE SocketReads \/ SocketReadFails
  BY <1>3, BufferUntouched DEF SocketReads, SocketReadFails
<1> QED
  BY <1>1, <1>2, <1>3 DEF NetworkStep

-----------------------------------------------------------------------------
(* Everything else leaves them alone, with or without redis_client.        *)

LEMMA BufferInvDisconnects ==
  ASSUME BufferInv, HandleClose \/ Disconnection
  PROVE  BufferInv'
  BY BufferInvClose DEF HandleClose, Disconnection, bufVars, sendVars

LEMMA BufferInvOthers ==
  ASSUME BufferInv, NEW ok, NEW s, NEW bytes,
         \/ OwnerStep \/ WakesSpuriously \/ HandleConnect \/ HandleRead \/ ReceiveReturns(ok)
         \/ CallDisconnectionHandler \/ SendChecks(s) \/ ServerAnswers(bytes) \/ ServerCloses
         \/ UNCHANGED tcpVars
  PROVE  BufferInv'
<1>1. UNCHANGED <<m_write_buffer, write_op, sent>>
  BY DEF OwnerStep, Connect, Disconnect, TestNotified, StartWaiting, WakesSpuriously, HandleConnect,
     HandleRead, ReceiveReturns, CallDisconnectionHandler, SendChecks, ServerAnswers, ServerCloses,
     tcpVars, bufVars, opVars, sendVars
<1> QED
  BY <1>1, BufferUntouched

-----------------------------------------------------------------------------
(* The theorems.                                                           *)

\* tcp_client alone: the completion handler never erases more than the buffer
\* has, and no second write is started while one is outstanding.
THEOREM WritesStay == Spec => []WritesStayInBuffer
<1>1. BufferInv /\ [Next]_tcpVars => BufferInv'
  BY BufferInvClose, BufferInvHandleWrite, BufferInvSendAppends, BufferInvNetwork,
     BufferInvDisconnects, BufferInvOthers DEF Next
<1>2. BufferInv => WritesStayInBuffer
  BY DEF BufferInv
<1> QED
  BY <1>1, <1>2, BufferInvInit, PTL DEF Spec

LEMMA BufferInvStays == BufferInv /\ [ClientNext]_vars => BufferInv'
<1> SUFFICES ASSUME BufferInv, [ClientNext]_vars PROVE BufferInv'
  OBVIOUS
<1>1. CASE UNCHANGED vars
  BY <1>1, BufferInvOthers DEF vars
<1>2. CASE (OwnerStep \/ WakesSpuriously \/ NetworkStep \/ ServerCloses) /\ UNCHANGED clientVars
  BY <1>2, BufferInvNetwork, BufferInvOthers
<1>3. CASE ClientConnected \/ FeedBuilder \/ Decode \/ HandOver \/ Received
  BY <1>3, BufferInvOthers DEF ClientConnected, FeedBuilder, Decode, HandOver, Received
<1>4. CASE SocketClosed \/ ClearCallbacks
  BY <1>4, BufferInvDisconnects, BufferInvOthers DEF SocketClosed, ClearCallbacks
<1>5. CASE HandleWrite
  BY <1>5, BufferInvHandleWrite
<1>6. CASE RedisAnswers
  BY <1>6, BufferInvOthers DEF RedisAnswers
<1>7. ASSUME NEW s \in Senders, Send(s) PROVE BufferInv'
  <2>1. CASE LockAndCheck(s)
    BY <2>1, BufferInvOthers DEF LockAndCheck
  <2>2. CASE SendCommand(s)
    BY <2>2, BufferInvSendAppends DEF SendCommand
  <2>3. CASE PushCallback(s)
    BY <2>3, BufferUntouched DEF PushCallback, bufVars, opVars
  <2> QED
    BY <1>7, <2>1, <2>2, <2>3 DEF Send
<1> QED
  BY <1>1, <1>2, <1>3, <1>4, <1>5, <1>6, <1>7 DEF ClientNext, IoStep

\* The same of the whole client, whose senders hold m_callbacks_mutex.
THEOREM ClientWritesStay == FairSpec => []WritesStayInBuffer
<1>1. BufferInv => WritesStayInBuffer
  BY DEF BufferInv
<1>2. ClientInit => BufferInv
  BY BufferInvInit DEF ClientInit
<1> QED
  BY <1>1, <1>2, BufferInvStays, PTL DEF FairSpec

-----------------------------------------------------------------------------
(* Every step is one of these.                                             *)

\* The steps of the client, in the groups that the proofs below go through.
LEMMA ClientSteps ==
  ASSUME [ClientNext]_vars
  PROVE  \/ UNCHANGED vars
         \/ (Connect \/ Disconnect \/ TestNotified \/ StartWaiting \/ WakesSpuriously) /\ UNCHANGED clientVars
         \/ (ConnectCompletes \/ SocketWrites \/ WriteFails) /\ UNCHANGED clientVars
         \/ (SocketReads \/ SocketReadFails \/ ServerCloses) /\ UNCHANGED clientVars
         \/ ClientConnected \/ FeedBuilder \/ Decode \/ HandOver \/ Received
         \/ SocketClosed \/ ClearCallbacks \/ (HandleWrite /\ UNCHANGED clientVars)
         \/ RedisAnswers
         \/ \E s \in Senders : LockAndCheck(s) \/ SendCommand(s) \/ PushCallback(s)
  BY Zenon DEF ClientNext, IoStep, OwnerStep, NetworkStep, Send

-----------------------------------------------------------------------------
(* The queue of handlers.                                                  *)

\* A completion that is queued is one handler.
LEMMA DoneIsQueued ==
  \A op \in {"connect", "close", "read", "write"} : \A ok \in BOOLEAN :
    /\ Done(op, ok) \in Seq(Completion) /\ Len(Done(op, ok)) = 1 /\ DOMAIN Done(op, ok) = 1..1
    /\ Done(op, ok)[1] \in Completion /\ Done(op, ok)[1].op = op
    /\ Done(op, ok)[1].ok = ok /\ Done(op, ok)[1].length = 0
<1> TAKE op \in {"connect", "close", "read", "write"}
<1> TAKE ok \in BOOLEAN
<1> DEFINE c == [op |-> op, ok |-> ok, length |-> 0]
<1>1. c \in Completion /\ c.op = op /\ c.ok = ok /\ c.length = 0
  BY DEF Completion
<1>2. Done(op, ok) = <<c>>
  BY DEF Done
<1> HIDE DEF c
<1> QED
  BY <1>1, <1>2

\* Joined, a queue keeps its handlers in their places.
LEMMA QueueJoined ==
  ASSUME NEW q \in Seq(Completion), NEW r \in Seq(Completion)
  PROVE  /\ q \o r \in Seq(Completion) /\ Len(q) \in Nat /\ Len(r) \in Nat
         /\ DOMAIN q = 1..Len(q) /\ DOMAIN r = 1..Len(r) /\ DOMAIN (q \o r) = 1..Len(q) + Len(r)
         /\ \A i \in DOMAIN q : (q \o r)[i] = q[i]
         /\ \A i \in DOMAIN r : (q \o r)[Len(q) + i] = r[i]
         /\ \A i \in DOMAIN (q \o r) : i \in DOMAIN q \/ i - Len(q) \in DOMAIN r
<1>1. /\ Len(q) \in Nat /\ Len(r) \in Nat /\ DOMAIN q = 1..Len(q) /\ DOMAIN r = 1..Len(r)
  BY LenProperties
<1>2. /\ q \o r \in Seq(Completion) /\ Len(q \o r) = Len(q) + Len(r)
      /\ \A i \in 1..Len(q) + Len(r) : (q \o r)[i] = IF i <= Len(q) THEN q[i] ELSE r[i - Len(q)]
  BY ConcatProperties
<1>3. DOMAIN (q \o r) = 1..Len(q) + Len(r)
  BY <1>2, LenProperties
<1>4. \A i \in DOMAIN q : (q \o r)[i] = q[i]
  BY <1>1, <1>2
<1>5. ASSUME NEW i \in DOMAIN r PROVE (q \o r)[Len(q) + i] = r[i]
  <2>1. Len(q) + i \in 1..Len(q) + Len(r) /\ ~(Len(q) + i <= Len(q)) /\ (Len(q) + i) - Len(q) = i
    BY <1>1
  <2> QED
    BY <1>2, <2>1
<1>6. ASSUME NEW i \in DOMAIN (q \o r) PROVE i \in DOMAIN q \/ i - Len(q) \in DOMAIN r
  BY <1>1, <1>3
<1> QED
  BY <1>1, <1>2, <1>3, <1>4, <1>5, <1>6

\* Without its head a queue holds the same handlers, each one place earlier.
LEMMA QueuePopped ==
  ASSUME NEW q \in Seq(Completion), q # <<>>
  PROVE  /\ Tail(q) \in Seq(Completion) /\ Head(q) = q[1] /\ Head(q) \in Completion
         /\ 1 \in DOMAIN q /\ DOMAIN q = 1..Len(q) /\ Len(q) \in Nat /\ DOMAIN Tail(q) = 1..Len(q) - 1
         /\ \A i \in DOMAIN Tail(q) : i + 1 \in DOMAIN q /\ Tail(q)[i] = q[i + 1]
         /\ \A i \in DOMAIN q : i = 1 \/ (i - 1 \in DOMAIN Tail(q) /\ Tail(q)[i - 1] = q[i])
<1>1. Len(q) \in Nat /\ Len(q) >= 1 /\ DOMAIN q = 1..Len(q)
  BY LenProperties, EmptySeq
<1>2. /\ Tail(q) \in Seq(Completion) /\ Len(Tail(q)) = Len(q) - 1
      /\ \A i \in 1..Len(Tail(q)) : Tail(q)[i] = q[i + 1]
  BY HeadTailProperties
<1>3. DOMAIN Tail(q) = 1..Len(q) - 1
  BY <1>2, LenProperties
<1>4. Head(q) = q[1] /\ Head(q) \in Completion
  BY HeadTailProperties
<1>5. ASSUME NEW i \in DOMAIN q, i # 1 PROVE i - 1 \in DOMAIN Tail(q) /\ Tail(q)[i - 1] = q[i]
  <2>1. i - 1 \in 1..Len(q) - 1 /\ (i - 1) + 1 = i
    BY <1>1, <1>5
  <2> QED
    BY <1>2, <1>3, <2>1
<1>6. ASSUME NEW i \in DOMAIN Tail(q) PROVE i + 1 \in DOMAIN q /\ Tail(q)[i] = q[i + 1]
  BY <1>1, <1>2, <1>3
<1> QED
  BY <1>1, <1>2, <1>3, <1>4, <1>5, <1>6

\* Closing the socket queues failures, one for each read, and one for a write
\* that is under way.
LEMMA AbortedIsQueued ==
  ASSUME reads \in Nat
  PROVE  /\ Aborted \in Seq(Completion)
         /\ \A i \in DOMAIN Aborted : ~Aborted[i].ok
         /\ reads > 0 => \E i \in DOMAIN Aborted : Aborted[i].op = "read"
         /\ \A i, j \in DOMAIN Aborted : Aborted[i].op = "write" /\ Aborted[j].op = "write" => i = j
         /\ \A i \in DOMAIN Aborted : Aborted[i].op = "write" => write_op.pc = "writing"
<1> DEFINE a == Times(reads, Done("read", FALSE))
           b == IF write_op.pc = "writing" THEN Done("write", FALSE) ELSE <<>>
           c == IF m_socket = "connecting" THEN Done("connect", FALSE) ELSE <<>>
<1>1. /\ a \in Seq(Completion) /\ Len(a) = reads
      /\ \A i \in 1..reads : ~a[i].ok /\ a[i].op = "read"
  <2>1. Done("read", FALSE)[1] \in Completion /\ ~Done("read", FALSE)[1].ok /\ Done("read", FALSE)[1].op = "read"
    BY DoneIsQueued
  <2>2. a = [i \in 1..reads |-> Done("read", FALSE)[1]]
    BY DEF Times
  <2> HIDE DEF a
  <2>3. \A i \in 1..reads : a[i] = Done("read", FALSE)[1]
    BY <2>2
  <2>4. a \in Seq(Completion) /\ Len(a) = reads
    <3> DEFINE x == Done("read", FALSE)[1]
    <3>1. x \in Completion /\ a = [i \in 1..reads |-> x]
      BY <2>1, <2>2
    <3> HIDE DEF x
    <3> QED
      BY <3>1
  <2> QED
    BY <2>1, <2>3, <2>4
<1>2. /\ b \in Seq(Completion) /\ Len(b) \in {0, 1} /\ (Len(b) = 1 => write_op.pc = "writing")
      /\ \A i \in 1..Len(b) : i = 1 /\ ~b[i].ok /\ b[i].op = "write"
  <2>1. CASE write_op.pc = "writing"
    <3>1. b = Done("write", FALSE)
      BY <2>1
    <3>2. /\ Done("write", FALSE) \in Seq(Completion) /\ Len(Done("write", FALSE)) = 1
          /\ ~Done("write", FALSE)[1].ok /\ Done("write", FALSE)[1].op = "write"
      BY DoneIsQueued
    <3> HIDE DEF b
    <3>3. \A i \in 1..1 : i = 1
      OBVIOUS
    <3> QED
      BY <2>1, <3>1, <3>2, <3>3
  <2>2. CASE write_op.pc # "writing"
    BY <2>2, EmptySeq
  <2> QED
    BY <2>1, <2>2
<1>3. /\ c \in Seq(Completion) /\ Len(c) \in {0, 1}
      /\ \A i \in 1..Len(c) : ~c[i].ok /\ c[i].op = "connect"
  <2>1. CASE m_socket = "connecting"
    <3>1. c = Done("connect", FALSE)
      BY <2>1
    <3>2. /\ Done("connect", FALSE) \in Seq(Completion) /\ Len(Done("connect", FALSE)) = 1
          /\ ~Done("connect", FALSE)[1].ok /\ Done("connect", FALSE)[1].op = "connect"
      BY DoneIsQueued
    <3> HIDE DEF c
    <3>3. \A i \in 1..1 : i = 1
      OBVIOUS
    <3> QED
      BY <2>1, <3>1, <3>2, <3>3
  <2>2. CASE m_socket # "connecting"
    BY <2>2, EmptySeq
  <2> QED
    BY <2>1, <2>2
<1>4. Aborted = (a \o b) \o c
  BY DEF Aborted
<1> HIDE DEF a, b, c
<1> DEFINE d == a \o b
<1>5. /\ d \in Seq(Completion) /\ DOMAIN d = 1..Len(a) + Len(b)
      /\ \A i \in DOMAIN d : i \in DOMAIN a \/ i - Len(a) \in DOMAIN b
      /\ \A i \in DOMAIN a : d[i] = a[i]
      /\ \A i \in DOMAIN b : d[Len(a) + i] = b[i]
      /\ DOMAIN a = 1..Len(a) /\ DOMAIN b = 1..Len(b)
  BY <1>1, <1>2, QueueJoined
<1>6. \A i \in DOMAIN d : IF i \in 1..reads THEN ~d[i].ok /\ d[i].op = "read"
                          ELSE ~d[i].ok /\ d[i].op = "write" /\ i = reads + 1 /\ write_op.pc = "writing"
  <2> SUFFICES ASSUME NEW i \in DOMAIN d
               PROVE  IF i \in 1..reads THEN ~d[i].ok /\ d[i].op = "read"
                      ELSE ~d[i].ok /\ d[i].op = "write" /\ i = reads + 1 /\ write_op.pc = "writing"
    OBVIOUS
  <2>1. CASE i \in 1..reads
    BY <1>1, <1>5, <2>1
  <2>2. CASE i \notin 1..reads
    <3>1. i - Len(a) \in 1..Len(b) /\ Len(a) + (i - Len(a)) = i
      BY <1>1, <1>5, <2>2
    <3>2. d[i] = b[i - Len(a)] /\ i - Len(a) = 1 /\ Len(b) = 1
      BY <1>2, <1>5, <3>1
    <3> QED
      BY <1>1, <1>2, <2>2, <3>1, <3>2
  <2> QED
    BY <2>1, <2>2
<1>7. Len(d) = Len(a) + Len(b) /\ Len(d) \in Nat
  BY <1>1, <1>2, ConcatProperties, LenProperties
<1> HIDE DEF d
<1>8. /\ Aborted \in Seq(Completion) /\ DOMAIN Aborted = 1..Len(d) + Len(c)
      /\ \A i \in DOMAIN Aborted : i \in DOMAIN d \/ i - Len(d) \in DOMAIN c
      /\ \A i \in DOMAIN d : Aborted[i] = d[i]
      /\ \A i \in DOMAIN c : Aborted[Len(d) + i] = c[i]
      /\ DOMAIN c = 1..Len(c) /\ DOMAIN d = 1..Len(d)
  BY <1>3, <1>4, <1>5, QueueJoined DEF d
<1>9. ASSUME NEW i \in DOMAIN Aborted
      PROVE  /\ ~Aborted[i].ok
             /\ Aborted[i].op = "write" => i = reads + 1 /\ write_op.pc = "writing"
  <2>1. CASE i \in DOMAIN d
    BY <1>6, <1>8, <2>1
  <2>2. CASE i \notin DOMAIN d
    <3>1. i - Len(d) \in DOMAIN c /\ Len(d) + (i - Len(d)) = i
      BY <1>7, <1>8, <2>2
    <3>2. Aborted[i] = c[i - Len(d)]
      BY <1>8, <3>1
    <3> QED
      BY <1>3, <1>8, <3>1, <3>2
  <2> QED
    BY <2>1, <2>2
<1>10. ASSUME reads > 0 PROVE \E i \in DOMAIN Aborted : Aborted[i].op = "read"
  <2>1. 1 \in 1..reads /\ 1 \in DOMAIN d /\ 1 \in DOMAIN Aborted
    BY <1>1, <1>2, <1>3, <1>5, <1>7, <1>8, <1>10
  <2> QED
    BY <1>6, <1>8, <2>1
<1> QED
  BY <1>8, <1>9, <1>10

-----------------------------------------------------------------------------
(* The types, one group of variables after the other.                      *)

LinkType ==
  m_is_connected \in BOOLEAN /\ m_socket \in {"closed", "connecting", "open"}

LEMMA LinkStays == LinkType /\ [ClientNext]_vars => LinkType'
<1> SUFFICES ASSUME LinkType, [ClientNext]_vars PROVE LinkType'
  OBVIOUS
<1> USE DEF LinkType, clientVars, linkVars, opVars, bufVars, ownerVars, sendVars, netVars, Notify,
            StartDisconnection
<1>1. CASE UNCHANGED vars
  BY <1>1 DEF vars, tcpVars
<1>2. CASE (Connect \/ Disconnect \/ TestNotified \/ StartWaiting \/ WakesSpuriously) /\ UNCHANGED clientVars
  BY <1>2 DEF Connect, Disconnect, TestNotified, StartWaiting, WakesSpuriously
<1>3. CASE (ConnectCompletes \/ SocketWrites \/ WriteFails) /\ UNCHANGED clientVars
  BY <1>3 DEF ConnectCompletes, SocketWrites, WriteFails, CloseSocket
<1>4. CASE (SocketReads \/ SocketReadFails \/ ServerCloses) /\ UNCHANGED clientVars
  BY <1>4 DEF SocketReads, SocketReadFails, ServerCloses
<1>5. CASE ClientConnected
  BY <1>5 DEF ClientConnected, HandleConnect, AsyncRead
<1>6. CASE FeedBuilder \/ Decode \/ HandOver \/ Received
  BY <1>6 DEF FeedBuilder, Decode, HandOver, Received, HandleRead, ReceiveReturns, AsyncRead, tcpVars
<1>7. CASE SocketClosed \/ ClearCallbacks
  BY <1>7 DEF SocketClosed, ClearCallbacks, Lost, HandleClose, Disconnection, CloseSocket,
              CallDisconnectionHandler
<1>8. CASE HandleWrite /\ UNCHANGED clientVars
  BY <1>8 DEF HandleWrite
<1>9. CASE RedisAnswers
  BY <1>9 DEF RedisAnswers, ServerAnswers
<1>10. ASSUME NEW s \in Senders, LockAndCheck(s) \/ SendCommand(s) \/ PushCallback(s)
       PROVE  LinkType'
  BY <1>10 DEF LockAndCheck, SendCommand, PushCallback, SendChecks, SendAppends
<1> QED
  BY <1>1, <1>2, <1>3, <1>4, <1>5, <1>6, <1>7, <1>8, <1>9, <1>10, ClientSteps

IoType ==
  io \in {"idle", "receive", "closing", "handler"} /\ sound \in BOOLEAN /\ eof \in BOOLEAN

LEMMA IoStays == IoType /\ [ClientNext]_vars => IoType'
<1> SUFFICES ASSUME IoType, [ClientNext]_vars PROVE IoType'
  OBVIOUS
<1> USE DEF IoType, clientVars, linkVars, opVars, bufVars, ownerVars, sendVars, netVars, Notify,
            StartDisconnection
<1>1. CASE UNCHANGED vars
  BY <1>1 DEF vars, tcpVars
<1>2. CASE (Connect \/ Disconnect \/ TestNotified \/ StartWaiting \/ WakesSpuriously) /\ UNCHANGED clientVars
  BY <1>2 DEF Connect, Disconnect, TestNotified, StartWaiting, WakesSpuriously
<1>3. CASE (ConnectCompletes \/ SocketWrites \/ WriteFails) /\ UNCHANGED clientVars
  BY <1>3 DEF ConnectCompletes, SocketWrites, WriteFails, CloseSocket
<1>4. CASE (SocketReads \/ SocketReadFails \/ ServerCloses) /\ UNCHANGED clientVars
  BY <1>4 DEF SocketReads, SocketReadFails, ServerCloses
<1>5. CASE ClientConnected
  BY <1>5 DEF ClientConnected, HandleConnect, AsyncRead
<1>6. CASE FeedBuilder \/ Decode \/ HandOver \/ Received
  BY <1>6 DEF FeedBuilder, Decode, HandOver, Received, HandleRead, ReceiveReturns, AsyncRead, tcpVars
<1>7. CASE SocketClosed \/ ClearCallbacks
  BY <1>7 DEF SocketClosed, ClearCallbacks, Lost, HandleClose, Disconnection, CloseSocket,
              CallDisconnectionHandler
<1>8. CASE HandleWrite /\ UNCHANGED clientVars
  BY <1>8 DEF HandleWrite
<1>9. CASE RedisAnswers
  BY <1>9 DEF RedisAnswers, ServerAnswers
<1>10. ASSUME NEW s \in Senders, LockAndCheck(s) \/ SendCommand(s) \/ PushCallback(s)
       PROVE  IoType'
  BY <1>10 DEF LockAndCheck, SendCommand, PushCallback, SendChecks, SendAppends
<1> QED
  BY <1>1, <1>2, <1>3, <1>4, <1>5, <1>6, <1>7, <1>8, <1>9, <1>10, ClientSteps

OwnerType ==
  /\ is_notified \in BOOLEAN /\ owner \in {"idle", "testing", "tested", "waiting", "stray"}
  /\ connects \in 0..MaxConnects

LEMMA OwnerStays == OwnerType /\ [ClientNext]_vars => OwnerType'
<1> SUFFICES ASSUME OwnerType, [ClientNext]_vars PROVE OwnerType'
  OBVIOUS
<1> USE DEF OwnerType, clientVars, linkVars, opVars, bufVars, ownerVars, sendVars, netVars, Notify,
            StartDisconnection
<1>1. CASE UNCHANGED vars
  BY <1>1 DEF vars, tcpVars
<1>2. CASE (Connect \/ Disconnect \/ TestNotified \/ StartWaiting \/ WakesSpuriously) /\ UNCHANGED clientVars
  <2>1. CASE Connect
    <3>1. connects' \in 0..MaxConnects
      BY <2>1, RedisAssumption DEF Connect
    <3> QED
      BY <2>1, <3>1 DEF Connect
  <2>2. CASE Disconnect \/ TestNotified \/ StartWaiting \/ WakesSpuriously
    BY <2>2 DEF Disconnect, TestNotified, StartWaiting, WakesSpuriously
  <2> QED
    BY <1>2, <2>1, <2>2
<1>3. CASE (ConnectCompletes \/ SocketWrites \/ WriteFails) /\ UNCHANGED clientVars
  BY <1>3 DEF ConnectCompletes, SocketWrites, WriteFails, CloseSocket
<1>4. CASE (SocketReads \/ SocketReadFails \/ ServerCloses) /\ UNCHANGED clientVars
  BY <1>4 DEF SocketReads, SocketReadFails, ServerCloses
<1>5. CASE ClientConnected
  BY <1>5 DEF ClientConnected, HandleConnect, AsyncRead
<1>6. CASE FeedBuilder \/ Decode \/ HandOver \/ Received
  BY <1>6 DEF FeedBuilder, Decode, HandOver, Received, HandleRead, ReceiveReturns, AsyncRead, tcpVars
<1>7. CASE SocketClosed \/ ClearCallbacks
  BY <1>7 DEF SocketClosed, ClearCallbacks, Lost, HandleClose, Disconnection, CloseSocket,
              CallDisconnectionHandler
<1>8. CASE HandleWrite /\ UNCHANGED clientVars
  BY <1>8 DEF HandleWrite
<1>9. CASE RedisAnswers
  BY <1>9 DEF RedisAnswers, ServerAnswers
<1>10. ASSUME NEW s \in Senders, LockAndCheck(s) \/ SendCommand(s) \/ PushCallback(s)
       PROVE  OwnerType'
  BY <1>10 DEF LockAndCheck, SendCommand, PushCallback, SendChecks, SendAppends
<1> QED
  BY <1>1, <1>2, <1>3, <1>4, <1>5, <1>6, <1>7, <1>8, <1>9, <1>10, ClientSteps

SenderType ==
  /\ sender \in [Senders -> {"idle", "checked", "appended"}]
  /\ m_callbacks_mutex \in {Free} \cup Senders

LEMMA SenderStays == SenderType /\ [ClientNext]_vars => SenderType'
<1> SUFFICES ASSUME SenderType, [ClientNext]_vars PROVE SenderType'
  OBVIOUS
<1> USE DEF SenderType, clientVars, linkVars, opVars, bufVars, ownerVars, sendVars, netVars, Notify,
            StartDisconnection
<1>1. CASE UNCHANGED vars
  BY <1>1 DEF vars, tcpVars
<1>2. CASE (Connect \/ Disconnect \/ TestNotified \/ StartWaiting \/ WakesSpuriously) /\ UNCHANGED clientVars
  BY <1>2 DEF Connect, Disconnect, TestNotified, StartWaiting, WakesSpuriously
<1>3. CASE (ConnectCompletes \/ SocketWrites \/ WriteFails) /\ UNCHANGED clientVars
  BY <1>3 DEF ConnectCompletes, SocketWrites, WriteFails, CloseSocket
<1>4. CASE (SocketReads \/ SocketReadFails \/ ServerCloses) /\ UNCHANGED clientVars
  BY <1>4 DEF SocketReads, SocketReadFails, ServerCloses
<1>5. CASE ClientConnected
  BY <1>5 DEF ClientConnected, HandleConnect, AsyncRead
<1>6. CASE FeedBuilder \/ Decode \/ HandOver \/ Received
  BY <1>6 DEF FeedBuilder, Decode, HandOver, Received, HandleRead, ReceiveReturns, AsyncRead, tcpVars
<1>7. CASE SocketClosed \/ ClearCallbacks
  BY <1>7 DEF SocketClosed, ClearCallbacks, Lost, HandleClose, Disconnection, CloseSocket,
              CallDisconnectionHandler
<1>8. CASE HandleWrite /\ UNCHANGED clientVars
  BY <1>8 DEF HandleWrite
<1>9. CASE RedisAnswers
  BY <1>9 DEF RedisAnswers, ServerAnswers
<1>10. ASSUME NEW s \in Senders, LockAndCheck(s) \/ SendCommand(s) \/ PushCallback(s)
       PROVE  SenderType'
  BY <1>10 DEF LockAndCheck, SendCommand, PushCallback, SendChecks, SendAppends
<1> QED
  BY <1>1, <1>2, <1>3, <1>4, <1>5, <1>6, <1>7, <1>8, <1>9, <1>10, ClientSteps

ReadsStep ==
  reads' = reads \/ reads' = 0 \/ reads' = reads + 1 \/ (reads > 0 /\ reads' = reads - 1)

\* Reads are started one at a time; closing the socket ends all of them.
LEMMA ReadsChange == [ClientNext]_vars => ReadsStep
<1> SUFFICES ASSUME [ClientNext]_vars PROVE ReadsStep
  OBVIOUS
<1> USE DEF ReadsStep, clientVars, linkVars, opVars, bufVars, ownerVars, sendVars, netVars, Notify,
            StartDisconnection
<1>1. CASE UNCHANGED vars
  BY Zenon, <1>1 DEF vars, tcpVars
<1>2. CASE (Connect \/ Disconnect \/ TestNotified \/ StartWaiting \/ WakesSpuriously) /\ UNCHANGED clientVars
  BY Zenon, <1>2 DEF Connect, Disconnect, TestNotified, StartWaiting, WakesSpuriously
<1>3. CASE (ConnectCompletes \/ SocketWrites \/ WriteFails) /\ UNCHANGED clientVars
  BY Zenon, <1>3 DEF ConnectCompletes, SocketWrites, WriteFails, CloseSocket
<1>4. CASE (SocketReads \/ SocketReadFails \/ ServerCloses) /\ UNCHANGED clientVars
  BY Zenon, <1>4 DEF SocketReads, SocketReadFails, ServerCloses
<1>5. CASE ClientConnected
  BY Zenon, <1>5 DEF ClientConnected, HandleConnect, AsyncRead
<1>6. CASE FeedBuilder \/ Decode \/ HandOver \/ Received
  BY Zenon, <1>6 DEF FeedBuilder, Decode, HandOver, Received, HandleRead, ReceiveReturns, AsyncRead, tcpVars
<1>7. CASE SocketClosed \/ ClearCallbacks
  BY Zenon, <1>7 DEF SocketClosed, ClearCallbacks, Lost, HandleClose, Disconnection, CloseSocket,
              CallDisconnectionHandler
<1>8. CASE HandleWrite /\ UNCHANGED clientVars
  BY Zenon, <1>8 DEF HandleWrite
<1>9. CASE RedisAnswers
  BY Zenon, <1>9 DEF RedisAnswers, ServerAnswers
<1>10. ASSUME NEW s \in Senders, LockAndCheck(s) \/ SendCommand(s) \/ PushCallback(s)
       PROVE  ReadsStep
  BY Zenon, <1>10 DEF LockAndCheck, SendCommand, PushCallback, SendChecks, SendAppends
<1> QED
  BY <1>1, <1>2, <1>3, <1>4, <1>5, <1>6, <1>7, <1>8, <1>9, <1>10, ClientSteps

-----------------------------------------------------------------------------
QueueType == completions \in Seq(Completion) /\ reads \in Nat

\* Whatever the io_service or the socket makes of the queue is a queue.
LEMMA QueuesAreMade ==
  ASSUME QueueType
  PROVE  /\ Aborted \in Seq(Completion)
         /\ \A q \in {completions} \cup (IF completions = <<>> THEN {} ELSE {Tail(completions)}) :
              /\ q \in Seq(Completion) /\ q \o <<>> \in Seq(Completion) /\ q \o Aborted \in Seq(Completion)
              /\ \A op \in {"connect", "close", "read", "write"} : \A ok \in BOOLEAN :
                   q \o Done(op, ok) \in Seq(Completion)
              /\ \A k \in Nat : Append(q, [op |-> "read", ok |-> TRUE, length |-> k]) \in Seq(Completion)
<1>1. Aborted \in Seq(Completion)
  BY AbortedIsQueued DEF QueueType
<1> SUFFICES ASSUME NEW q \in {completions} \cup (IF completions = <<>> THEN {} ELSE {Tail(completions)})
             PROVE  /\ q \in Seq(Completion) /\ q \o <<>> \in Seq(Completion) /\ q \o Aborted \in Seq(Completion)
                    /\ \A op \in {"connect", "close", "read", "write"} : \A ok \in BOOLEAN :
                         q \o Done(op, ok) \in Seq(Completion)
                    /\ \A k \in Nat : Append(q, [op |-> "read", ok |-> TRUE, length |-> k]) \in Seq(Completion)
  BY <1>1
<1>2. q \in Seq(Completion)
  BY QueuePopped DEF QueueType
<1>3. <<>> \in Seq(Completion)
  OBVIOUS
<1>4. \A r \in Seq(Completion) : q \o r \in Seq(Completion)
  BY <1>2, QueueJoined
<1>5. ASSUME NEW k \in Nat PROVE Append(q, [op |-> "read", ok |-> TRUE, length |-> k]) \in Seq(Completion)
  <2>1. [op |-> "read", ok |-> TRUE, length |-> k] \in Completion
    BY DEF Completion
  <2> QED
    BY <1>2, <2>1, AppendProperties
<1>6. \A op \in {"connect", "close", "read", "write"} : \A ok \in BOOLEAN : Done(op, ok) \in Seq(Completion)
  BY DoneIsQueued
<1> QED
  BY <1>1, <1>2, <1>3, <1>4, <1>5, <1>6

\* Only handlers that io_service knows are queued.
LEMMA QueueStays == QueueType /\ [ClientNext]_vars => QueueType'
<1> SUFFICES ASSUME QueueType, [ClientNext]_vars PROVE QueueType'
  OBVIOUS
<1> USE DEF QueueType, Runs, AsyncWrite, WriteNext, clientVars, linkVars, opVars, bufVars,
            ownerVars, sendVars, netVars, Notify,
            StartDisconnection
<1>0. reads' \in Nat
  BY ReadsChange DEF ReadsStep
<1> USE <1>0, QueuesAreMade
<1>1. CASE UNCHANGED vars
  BY <1>1 DEF vars, tcpVars
<1>2. CASE (Connect \/ Disconnect \/ TestNotified \/ StartWaiting \/ WakesSpuriously) /\ UNCHANGED clientVars
  BY <1>2 DEF Connect, Disconnect, TestNotified, StartWaiting, WakesSpuriously
<1>3. CASE (ConnectCompletes \/ SocketWrites \/ WriteFails) /\ UNCHANGED clientVars
  BY <1>3 DEF ConnectCompletes, SocketWrites, WriteFails, CloseSocket
<1>4. CASE (SocketReads \/ SocketReadFails \/ ServerCloses) /\ UNCHANGED clientVars
  <2>1. CASE SocketReads
    <3>1. PICK k \in 1..Len(inbox) : completions' = Append(completions, [op |-> "read", ok |-> TRUE, length |-> k])
      BY <2>1 DEF SocketReads
    <3>2. k \in Nat
      OBVIOUS
    <3>3. Append(completions, [op |-> "read", ok |-> TRUE, length |-> k]) \in Seq(Completion)
      BY <3>2
    <3> QED
      BY <3>1, <3>3
  <2>2. CASE SocketReadFails \/ ServerCloses
    BY <2>2 DEF SocketReadFails, ServerCloses
  <2> QED
    BY <1>4, <2>1, <2>2
<1>5. CASE ClientConnected
  BY <1>5 DEF ClientConnected, HandleConnect, AsyncRead
<1>6. CASE FeedBuilder \/ Decode \/ HandOver \/ Received
  BY <1>6 DEF FeedBuilder, Decode, HandOver, Received, HandleRead, ReceiveReturns, AsyncRead, tcpVars
<1>7. CASE SocketClosed \/ ClearCallbacks
  BY <1>7 DEF SocketClosed, ClearCallbacks, Lost, HandleClose, Disconnection, CloseSocket,
              CallDisconnectionHandler
<1>8. CASE HandleWrite /\ UNCHANGED clientVars
  BY <1>8 DEF HandleWrite
<1>9. CASE RedisAnswers
  BY <1>9 DEF RedisAnswers, ServerAnswers
<1>10. ASSUME NEW s \in Senders, LockAndCheck(s) \/ SendCommand(s) \/ PushCallback(s)
       PROVE  QueueType'
  BY <1>10 DEF LockAndCheck, SendCommand, PushCallback, SendChecks, SendAppends
<1> QED
  BY <1>1, <1>2, <1>3, <1>4, <1>5, <1>6, <1>7, <1>8, <1>9, <1>10, ClientSteps

-----------------------------------------------------------------------------
(* The commands.                                                           *)

\* What is left of a sequence.
LEMMA RestIs ==
  ASSUME NEW S, NEW q \in Seq(S), NEW n \in Nat
  PROVE  /\ Rest(q, n) \in Seq(S)
         /\ n <= Len(q) => Len(Rest(q, n)) = Len(q) - n
         /\ n > Len(q) => Rest(q, n) = <<>>
         /\ Len(Rest(q, n)) <= Len(q)
         /\ \A i \in 1..Len(q) - n : Rest(q, n)[i] = q[n + i]
<1>1. Len(q) \in Nat
  BY LenProperties
<1>2. \A i \in n + 1..Len(q) : q[i] \in S
  BY <1>1, ElementOfSeq
<1>3. n + 1 \in Int /\ Len(q) \in Int
  BY <1>1
<1>4. /\ SubSeq(q, n + 1, Len(q)) \in Seq(S)
      /\ Len(SubSeq(q, n + 1, Len(q))) = IF n + 1 <= Len(q) THEN Len(q) - (n + 1) + 1 ELSE 0
      /\ \A i \in 1..Len(q) - (n + 1) + 1 : SubSeq(q, n + 1, Len(q))[i] = q[(n + 1) + i - 1]
  BY <1>2, <1>3, SubSeqProperties
<1> DEFINE r == Rest(q, n)
<1>5. /\ r \in Seq(S) /\ Len(r) = IF n + 1 <= Len(q) THEN Len(q) - (n + 1) + 1 ELSE 0
      /\ \A i \in 1..Len(q) - (n + 1) + 1 : r[i] = q[(n + 1) + i - 1]
  BY <1>4 DEF Rest
<1> HIDE DEF r
<1>6. n > Len(q) => r = <<>>
  BY <1>1, <1>5, EmptySeq
<1>7. ASSUME NEW i \in 1..Len(q) - n PROVE r[i] = q[n + i]
  <2>1. i \in 1..Len(q) - (n + 1) + 1 /\ (n + 1) + i - 1 = n + i
    BY <1>1
  <2> QED
    BY <1>5, <2>1
<1>8. Len(r) <= Len(q) /\ (n <= Len(q) => Len(r) = Len(q) - n)
  BY <1>1, <1>5
<1> QED
  BY <1>5, <1>6, <1>7, <1>8 DEF r

\* A thread that is in send() holds m_callbacks_mutex.
MutexInv ==
  /\ sent \in 0..MaxCommands
  /\ \A s \in Senders :
       /\ sender[s] # "idle" => m_callbacks_mutex = s
       /\ sender[s] = "checked" => sent < MaxCommands
       /\ sender[s] = "appended" => sent >= 1

\* No thread enters send() while another is in it.
LEMMA MutexStays == SenderType /\ MutexInv /\ [ClientNext]_vars => MutexInv'
<1> SUFFICES ASSUME SenderType, MutexInv, [ClientNext]_vars PROVE MutexInv'
  OBVIOUS
<1> USE DEF clientVars, linkVars, opVars, bufVars, ownerVars, sendVars, netVars, Notify,
            StartDisconnection
<1>0. ASSUME UNCHANGED <<sender, sent, m_callbacks_mutex>> PROVE MutexInv'
  BY <1>0, <1>0, Zenon DEF MutexInv
<1>1. CASE UNCHANGED vars
  BY <1>0, <1>1, Zenon DEF vars, tcpVars
<1>2. CASE (Connect \/ Disconnect \/ TestNotified \/ StartWaiting \/ WakesSpuriously) /\ UNCHANGED clientVars
  BY <1>0, <1>2, Zenon DEF Connect, Disconnect, TestNotified, StartWaiting, WakesSpuriously
<1>3. CASE (ConnectCompletes \/ SocketWrites \/ WriteFails) /\ UNCHANGED clientVars
  BY <1>0, <1>3, Zenon DEF ConnectCompletes, SocketWrites, WriteFails, CloseSocket
<1>4. CASE (SocketReads \/ SocketReadFails \/ ServerCloses) /\ UNCHANGED clientVars
  BY <1>0, <1>4, Zenon DEF SocketReads, SocketReadFails, ServerCloses
<1>5. CASE ClientConnected
  BY <1>0, <1>5, Zenon DEF ClientConnected, HandleConnect, AsyncRead
<1>6. CASE FeedBuilder \/ Decode \/ HandOver \/ Received
  BY <1>0, <1>6, Zenon DEF FeedBuilder, Decode, HandOver, Received, HandleRead, ReceiveReturns, AsyncRead, tcpVars
<1>7. CASE SocketClosed \/ ClearCallbacks
  BY <1>0, <1>7, Zenon DEF SocketClosed, ClearCallbacks, Lost, HandleClose, Disconnection, CloseSocket,
              CallDisconnectionHandler
<1>8. CASE HandleWrite /\ UNCHANGED clientVars
  BY <1>0, <1>8, Zenon DEF HandleWrite
<1>9. CASE RedisAnswers
  BY <1>0, <1>9, Zenon DEF RedisAnswers, ServerAnswers
<1>10. ASSUME NEW s \in Senders, LockAndCheck(s) \/ SendCommand(s) \/ PushCallback(s)
       PROVE  MutexInv'
  <2> USE DEF MutexInv, SenderType
  <2>1. CASE LockAndCheck(s)
    <3>1. \A t \in Senders : sender[t] = "idle"
      BY <2>1, ClientAssumption DEF LockAndCheck
    <3>2. {t \in Senders : sender[t] = "checked"} = {}
      BY <3>1
    <3>3. Cardinality({t \in Senders : sender[t] = "checked"}) = 0
      BY <3>2, FS_EmptySet
    <3>4. sent + 0 < MaxCommands /\ UNCHANGED sent /\ m_callbacks_mutex' = s
      BY <2>1, <3>3, Zenon DEF LockAndCheck, SendChecks, sendVars
    <3>5. sender' = [sender EXCEPT ![s] = "checked"]
      BY <2>1 DEF LockAndCheck, SendChecks
    <3>6. \A t \in Senders : sender'[t] = IF t = s THEN "checked" ELSE "idle"
      BY <3>1, <3>5
    <3> QED
      BY <3>4, <3>6, RedisAssumption
  <2>2. CASE SendCommand(s)
    <3>1. /\ sender[s] = "checked" /\ sent' = sent + 1 /\ UNCHANGED m_callbacks_mutex
          /\ sender' = [sender EXCEPT ![s] = "appended"]
      BY <2>2 DEF SendCommand, SendAppends
    <3>2. m_callbacks_mutex = s /\ sent < MaxCommands
      BY <3>1
    <3>3. \A t \in Senders : sender'[t] = IF t = s THEN "appended" ELSE "idle"
      BY <3>1, <3>2
    <3> QED
      BY <3>1, <3>2, <3>3, RedisAssumption
  <2>3. CASE PushCallback(s)
    <3>1. sender[s] = "appended" /\ UNCHANGED sent /\ sender' = [sender EXCEPT ![s] = "idle"]
      BY <2>3 DEF PushCallback
    <3>2. \A t \in Senders : sender'[t] = "idle"
      BY <3>1
    <3> QED
      BY <3>1, <3>2
  <2> QED
    BY <1>10, <2>1, <2>2, <2>3
<1> QED
  BY <1>1, <1>2, <1>3, <1>4, <1>5, <1>6, <1>7, <1>8, <1>9, <1>10, ClientSteps

BufferType == m_write_buffer \in Seq(Command) /\ Len(m_write_buffer) <= sent

\* Only commands are appended, each of them once.
LEMMA BufferStays ==
  BufferInv /\ SenderType /\ MutexInv /\ BufferType /\ [ClientNext]_vars => BufferType'
<1> SUFFICES ASSUME BufferInv, SenderType, MutexInv, BufferType, [ClientNext]_vars PROVE BufferType'
  OBVIOUS
<1> USE DEF clientVars, linkVars, opVars, bufVars, ownerVars, sendVars, netVars, Notify,
            StartDisconnection
<1>0. ASSUME UNCHANGED <<m_write_buffer, sent>> PROVE BufferType'
  BY <1>0, <1>0, Zenon DEF BufferType
<1>1. CASE UNCHANGED vars
  BY <1>0, <1>1, Zenon DEF vars, tcpVars
<1>2. CASE (Connect \/ Disconnect \/ TestNotified \/ StartWaiting \/ WakesSpuriously) /\ UNCHANGED clientVars
  BY <1>0, <1>2, Zenon DEF Connect, Disconnect, TestNotified, StartWaiting, WakesSpuriously
<1>3. CASE (ConnectCompletes \/ SocketWrites \/ WriteFails) /\ UNCHANGED clientVars
  BY <1>0, <1>3, Zenon DEF ConnectCompletes, SocketWrites, WriteFails, CloseSocket
<1>4. CASE (SocketReads \/ SocketReadFails \/ ServerCloses) /\ UNCHANGED clientVars
  BY <1>0, <1>4, Zenon DEF SocketReads, SocketReadFails, ServerCloses
<1>5. CASE ClientConnected
  BY <1>0, <1>5, Zenon DEF ClientConnected, HandleConnect, AsyncRead
<1>6. CASE FeedBuilder \/ Decode \/ HandOver \/ Received
  BY <1>0, <1>6, Zenon DEF FeedBuilder, Decode, HandOver, Received, HandleRead, ReceiveReturns, AsyncRead, tcpVars
<1>7. CASE SocketClosed \/ ClearCallbacks
  BY <1>0, <1>7, Zenon DEF SocketClosed, ClearCallbacks, Lost, HandleClose, Disconnection, CloseSocket,
              CallDisconnectionHandler
<1>8. CASE HandleWrite /\ UNCHANGED clientVars
  <2> USE DEF BufferType, MutexInv
  <2>1. CASE Head(completions).ok
    <3>1. m_write_buffer' = Rest(m_write_buffer, write_op.n) /\ UNCHANGED sent
      BY <1>8, <2>1 DEF HandleWrite
    <3>2. write_op.n \in Nat
      BY DEF BufferInv
    <3>3. Len(m_write_buffer) \in Nat /\ Len(m_write_buffer') \in Nat
      BY <3>1, <3>2, RestIs, LenProperties
    <3> QED
      BY <3>1, <3>2, <3>3, RestIs
  <2>2. CASE ~Head(completions).ok
    BY <1>8, <2>2, Zenon DEF HandleWrite
  <2> QED
    BY <2>1, <2>2
<1>9. CASE RedisAnswers
  BY <1>0, <1>9, Zenon DEF RedisAnswers, ServerAnswers
<1>10. ASSUME NEW s \in Senders, LockAndCheck(s) \/ SendCommand(s) \/ PushCallback(s)
       PROVE  BufferType'
  <2>1. CASE LockAndCheck(s) \/ PushCallback(s)
    BY <1>0, <2>1, Zenon DEF LockAndCheck, SendChecks, PushCallback
  <2>2. CASE SendCommand(s)
    <3>1. /\ sender[s] = "checked" /\ sent' = sent + 1
          /\ m_write_buffer' = Append(m_write_buffer, sent + 1)
      BY <2>2 DEF SendCommand, SendAppends
    <3>2. sent + 1 \in Command /\ sent \in Nat
      BY <3>1, RedisAssumption DEF MutexInv, Command
    <3>3. Len(m_write_buffer) \in Nat
      BY LenProperties DEF BufferType
    <3> QED
      BY <3>1, <3>2, <3>3, AppendProperties DEF BufferType
  <2> QED
    BY <1>10, <2>1, <2>2
<1> QED
  BY <1>1, <1>2, <1>3, <1>4, <1>5, <1>6, <1>7, <1>8, <1>9, <1>10, ClientSteps

CallbacksType == m_callbacks \in Seq(Command)

\* Only callbacks of commands are pushed.
LEMMA CallbacksStay == MutexInv /\ CallbacksType /\ [ClientNext]_vars => CallbacksType'
<1> SUFFICES ASSUME MutexInv, CallbacksType, [ClientNext]_vars PROVE CallbacksType'
  OBVIOUS
<1> USE DEF CallbacksType, clientVars, linkVars, opVars, bufVars, ownerVars, sendVars, netVars, Notify,
            StartDisconnection
<1>1. CASE UNCHANGED vars
  BY Zenon, <1>1 DEF vars, tcpVars
<1>2. CASE (Connect \/ Disconnect \/ TestNotified \/ StartWaiting \/ WakesSpuriously) /\ UNCHANGED clientVars
  BY Zenon, <1>2 DEF Connect, Disconnect, TestNotified, StartWaiting, WakesSpuriously
<1>3. CASE (ConnectCompletes \/ SocketWrites \/ WriteFails) /\ UNCHANGED clientVars
  BY Zenon, <1>3 DEF ConnectCompletes, SocketWrites, WriteFails, CloseSocket
<1>4. CASE (SocketReads \/ SocketReadFails \/ ServerCloses) /\ UNCHANGED clientVars
  BY Zenon, <1>4 DEF SocketReads, SocketReadFails, ServerCloses
<1>5. CASE ClientConnected
  BY Zenon, <1>5 DEF ClientConnected, HandleConnect, AsyncRead
<1>6. CASE FeedBuilder \/ Decode \/ HandOver \/ Received
  <2>1. Rest(m_callbacks, 1) \in Seq(Command)
    BY RestIs
  <2> QED
    BY <1>6, <2>1, Zenon DEF FeedBuilder, Decode, HandOver, Received
<1>7. CASE SocketClosed \/ ClearCallbacks
  <2>1. <<>> \in Seq(Command)
    OBVIOUS
  <2> QED
    BY <1>7, <2>1, Zenon DEF SocketClosed, ClearCallbacks
<1>8. CASE HandleWrite /\ UNCHANGED clientVars
  BY Zenon, <1>8 DEF HandleWrite
<1>9. CASE RedisAnswers
  BY Zenon, <1>9 DEF RedisAnswers, ServerAnswers
<1>10. ASSUME NEW s \in Senders, LockAndCheck(s) \/ SendCommand(s) \/ PushCallback(s)
       PROVE  CallbacksType'
  <2>1. sender[s] = "appended" => Append(m_callbacks, sent) \in Seq(Command)
    <3>1. ASSUME sender[s] = "appended" PROVE sent \in Command
      BY <3>1, RedisAssumption DEF MutexInv, Command
    <3> QED
      BY <3>1, AppendProperties
  <2> QED
    BY <1>10, <2>1, Zenon DEF LockAndCheck, SendCommand, PushCallback
<1> QED
  BY <1>1, <1>2, <1>3, <1>4, <1>5, <1>6, <1>7, <1>8, <1>9, <1>10, ClientSteps

WireType == wire \in Seq(Command \cup {Garbage}) /\ replying \in Seq(Command)

LEMMA WireStays == BufferInv /\ BufferType /\ WireType /\ [ClientNext]_vars => WireType'
<1> SUFFICES ASSUME BufferInv, BufferType, WireType, [ClientNext]_vars PROVE WireType'
  OBVIOUS
<1> USE DEF WireType, clientVars, linkVars, opVars, bufVars, ownerVars, sendVars, netVars, Notify,
            StartDisconnection
<1>0. <<>> \in Seq(Command \cup {Garbage}) /\ <<>> \in Seq(Command)
  OBVIOUS
<1>1. CASE UNCHANGED vars
  BY <1>0, Zenon, <1>1 DEF vars, tcpVars
<1>2. CASE (Connect \/ Disconnect \/ TestNotified \/ StartWaiting \/ WakesSpuriously) /\ UNCHANGED clientVars
  BY <1>0, Zenon, <1>2 DEF Connect, Disconnect, TestNotified, StartWaiting, WakesSpuriously
<1>3. CASE (ConnectCompletes \/ SocketWrites \/ WriteFails) /\ UNCHANGED clientVars
  <2>1. ASSUME SocketWrites PROVE wire' \in Seq(Command \cup {Garbage})
    <3>1. /\ write_op.pc = "writing" /\ write_op.done < write_op.n /\ write_op.n \in 1..Len(m_write_buffer)
          /\ write_op.done \in Nat /\ write_op.n \in Nat
      BY <2>1 DEF SocketWrites, BufferInv, WritesStayInBuffer
    <3>2. m_write_buffer[write_op.done + 1] \in Command
      <4>1. write_op.done + 1 \in 1..Len(m_write_buffer)
        BY <3>1, LenProperties DEF BufferType
      <4> QED
        BY <4>1, ElementOfSeq DEF BufferType
    <3>3. PICK unit \in {m_write_buffer[write_op.done + 1]} \cup (IF write_op.moved THEN {Garbage} ELSE {}) :
                 wire' = Append(wire, unit)
      BY <2>1 DEF SocketWrites
    <3>4. unit \in Command \cup {Garbage}
      BY <3>2, <3>3
    <3> QED
      BY <3>3, <3>4, AppendProperties
  <2>2. CASE SocketWrites
    BY <1>3, <2>1, <2>2, Zenon
  <2>3. CASE ConnectCompletes \/ WriteFails
    BY <1>0, <1>3, <2>3, Zenon DEF ConnectCompletes, WriteFails, CloseSocket
  <2> QED
    BY <1>3, <2>2, <2>3
<1>4. CASE (SocketReads \/ SocketReadFails \/ ServerCloses) /\ UNCHANGED clientVars
  BY <1>0, Zenon, <1>4 DEF SocketReads, SocketReadFails, ServerCloses
<1>5. CASE ClientConnected
  BY <1>0, Zenon, <1>5 DEF ClientConnected, HandleConnect, AsyncRead
<1>6. CASE FeedBuilder \/ Decode \/ HandOver \/ Received
  <2>1. Rest(replying, 1) \in Seq(Command)
    BY RestIs
  <2> QED
    BY <1>6, <2>1, Zenon DEF FeedBuilder, Decode, HandOver, Received, HandleRead, ReceiveReturns, tcpVars
<1>7. CASE SocketClosed \/ ClearCallbacks
  BY <1>0, Zenon, <1>7 DEF SocketClosed, ClearCallbacks, Lost, HandleClose, Disconnection, CloseSocket,
              CallDisconnectionHandler
<1>8. CASE HandleWrite /\ UNCHANGED clientVars
  BY <1>0, Zenon, <1>8 DEF HandleWrite
<1>9. CASE RedisAnswers
  <2>1. /\ wire # <<>> /\ Head(wire) # Garbage
        /\ wire' = Tail(wire) /\ replying' = Append(replying, Head(wire))
    BY <1>0, Zenon, <1>9 DEF RedisAnswers, ServerAnswers
  <2>2. Head(wire) \in Command /\ Tail(wire) \in Seq(Command \cup {Garbage})
    BY <2>1, HeadTailProperties
  <2> QED
    BY <2>1, <2>2, AppendProperties
<1>10. ASSUME NEW s \in Senders, LockAndCheck(s) \/ SendCommand(s) \/ PushCallback(s)
       PROVE  WireType'
  BY <1>0, Zenon, <1>10 DEF LockAndCheck, SendCommand, PushCallback, SendChecks, SendAppends
<1> QED
  BY <1>1, <1>2, <1>3, <1>4, <1>5, <1>6, <1>7, <1>8, <1>9, <1>10, ClientSteps

-----------------------------------------------------------------------------
(* The bytes.                                                              *)

\* Completions of reads that brought no more than n bytes, and all others.
Fits(n) == {c \in Completion : c.op = "read" /\ c.ok => c.length <= n}

\* What fits in a read buffer fits in a longer one.
LEMMA FitsMore ==
  ASSUME NEW m \in Nat, NEW n \in Nat, m <= n, NEW q \in Seq(Fits(m))
  PROVE  q \in Seq(Fits(n))
<1>1. Fits(m) \subseteq Fits(n)
  <2> SUFFICES ASSUME NEW c \in Fits(m) PROVE c \in Fits(n)
    OBVIOUS
  <2>1. c \in Completion /\ c.length \in Nat
    BY DEF Fits, Completion
  <2> QED
    BY <2>1 DEF Fits
<1>2. Len(q) \in Nat /\ \A i \in 1..Len(q) : q[i] \in Fits(m)
  BY LenProperties, ElementOfSeq
<1>3. \A i \in 1..Len(q) : q[i] \in Fits(n)
  BY <1>1, <1>2
<1>4. q = [i \in 1..Len(q) |-> q[i]]
  BY LenProperties
<1> QED
  BY <1>2, <1>3, <1>4

\* A queue that is joined or shortened still fits in its read buffer.
LEMMA QueuesFit ==
  ASSUME QueueType, NEW n \in Nat, completions \in Seq(Fits(n))
  PROVE  \A q \in {completions} \cup (IF completions = <<>> THEN {} ELSE {Tail(completions)}) :
           /\ q \in Seq(Fits(n)) /\ q \o <<>> \in Seq(Fits(n)) /\ q \o Aborted \in Seq(Fits(n))
           /\ \A op \in {"connect", "close", "read", "write"} : \A ok \in BOOLEAN :
                q \o Done(op, ok) \in Seq(Fits(n))
           /\ \A k \in 0..n : Append(q, [op |-> "read", ok |-> TRUE, length |-> k]) \in Seq(Fits(n))
<1>1. Aborted \in Seq(Fits(n))
  <2>1. Aborted \in Seq(Completion) /\ \A i \in DOMAIN Aborted : ~Aborted[i].ok
    BY AbortedIsQueued DEF QueueType
  <2>2. Len(Aborted) \in Nat /\ DOMAIN Aborted = 1..Len(Aborted) /\ Aborted = [i \in 1..Len(Aborted) |-> Aborted[i]]
    BY <2>1, LenProperties
  <2>3. \A i \in 1..Len(Aborted) : Aborted[i] \in Completion
    BY <2>1, ElementOfSeq
  <2>4. \A i \in 1..Len(Aborted) : Aborted[i] \in Fits(n)
    BY <2>1, <2>2, <2>3 DEF Fits
  <2> QED
    BY <2>2, <2>4
<1> SUFFICES ASSUME NEW q \in {completions} \cup (IF completions = <<>> THEN {} ELSE {Tail(completions)})
             PROVE  /\ q \in Seq(Fits(n)) /\ q \o <<>> \in Seq(Fits(n)) /\ q \o Aborted \in Seq(Fits(n))
                    /\ \A op \in {"connect", "close", "read", "write"} : \A ok \in BOOLEAN :
                         q \o Done(op, ok) \in Seq(Fits(n))
                    /\ \A k \in 0..n : Append(q, [op |-> "read", ok |-> TRUE, length |-> k]) \in Seq(Fits(n))
  OBVIOUS
<1>2. q \in Seq(Fits(n))
  BY HeadTailProperties
<1>3. <<>> \in Seq(Fits(n))
  OBVIOUS
<1>4. \A r \in Seq(Fits(n)) : q \o r \in Seq(Fits(n))
  BY <1>2, ConcatProperties
<1>5. ASSUME NEW k \in 0..n PROVE Append(q, [op |-> "read", ok |-> TRUE, length |-> k]) \in Seq(Fits(n))
  <2>1. [op |-> "read", ok |-> TRUE, length |-> k] \in Fits(n)
    BY DEF Completion, Fits
  <2> QED
    BY <1>2, <2>1, AppendProperties
<1>6. ASSUME NEW op \in {"connect", "close", "read", "write"}, NEW ok \in BOOLEAN
      PROVE  Done(op, ok) \in Seq(Fits(n))
  <2> DEFINE c == [op |-> op, ok |-> ok, length |-> 0]
  <2>1. c \in Completion /\ c.length = 0
    BY DEF Completion
  <2>2. c \in Fits(n)
    BY <2>1 DEF Fits
  <2>3. Done(op, ok) = <<c>>
    BY DEF Done
  <2> HIDE DEF c
  <2> QED
    BY <2>2, <2>3
<1> QED
  BY <1>1, <1>2, <1>3, <1>4, <1>5, <1>6

ReadType ==
  /\ inbox \in Seq(Symbol) /\ m_read_buffer \in Seq(Symbol)
  /\ completions \in Seq(Fits(Len(m_read_buffer)))

\* Without a read in the queue nothing is referred to.
LEMMA NoReadFits ==
  ASSUME NEW q \in Seq(Completion), ~\E i \in DOMAIN q : q[i].op = "read" /\ q[i].ok
  PROVE  q \in Seq(Fits(0))
<1>1. Len(q) \in Nat /\ DOMAIN q = 1..Len(q) /\ q = [i \in 1..Len(q) |-> q[i]]
  BY LenProperties
<1>2. \A i \in 1..Len(q) : q[i] \in Completion
  BY ElementOfSeq
<1>3. \A i \in 1..Len(q) : q[i] \in Fits(0)
  BY <1>1, <1>2 DEF Fits
<1> QED
  BY <1>1, <1>3

\* No completion claims more bytes than the read buffer holds.
LEMMA ReadStays == QueueType /\ WireType /\ ReadType /\ [ClientNext]_vars => ReadType'
<1> SUFFICES ASSUME QueueType, WireType, ReadType, [ClientNext]_vars PROVE ReadType'
  OBVIOUS
<1> USE DEF Runs, AsyncWrite, WriteNext, clientVars, linkVars, opVars, bufVars, ownerVars,
            sendVars, netVars, Notify,
            StartDisconnection
<1> DEFINE fit == Seq(Fits(Len(m_read_buffer)))
<1>11. Len(m_read_buffer) \in Nat
  BY LenProperties DEF ReadType
<1>0. \A q \in {completions} \cup (IF completions = <<>> THEN {} ELSE {Tail(completions)}) :
        /\ q \in fit /\ q \o <<>> \in fit /\ q \o Aborted \in fit
        /\ \A op \in {"connect", "close", "read", "write"} : \A ok \in BOOLEAN : q \o Done(op, ok) \in fit
  BY <1>11, QueuesFit DEF ReadType
<1>12. ASSUME UNCHANGED m_read_buffer, inbox' \in {inbox, <<>>}, completions' \in fit PROVE ReadType'
  <2>1. <<>> \in Seq(Symbol)
    OBVIOUS
  <2> QED
    BY <1>12, <2>1 DEF ReadType
<1> HIDE DEF fit
<1>1. CASE UNCHANGED vars
  BY <1>0, <1>12, <1>1 DEF vars, tcpVars
<1>2. CASE (Connect \/ Disconnect \/ TestNotified \/ StartWaiting \/ WakesSpuriously) /\ UNCHANGED clientVars
  BY <1>0, <1>12, <1>2 DEF Connect, Disconnect, TestNotified, StartWaiting, WakesSpuriously
<1>3. CASE (ConnectCompletes \/ SocketWrites \/ WriteFails) /\ UNCHANGED clientVars
  BY <1>0, <1>12, <1>3 DEF ConnectCompletes, SocketWrites, WriteFails, CloseSocket
<1>4. CASE (SocketReads \/ SocketReadFails \/ ServerCloses) /\ UNCHANGED clientVars
  <2>1. CASE SocketReads
    <3>1. PICK k \in 1..Len(inbox) :
            /\ inbox' = Rest(inbox, k)
            /\ m_read_buffer' = SubSeq(inbox, 1, k)
                                  \o (IF ReadIsQueued THEN Rest(m_read_buffer, k) ELSE <<>>)
            /\ completions' = Append(completions, [op |-> "read", ok |-> TRUE, length |-> k])
      BY <2>1 DEF SocketReads
    <3> DEFINE kept == IF ReadIsQueued THEN Rest(m_read_buffer, k) ELSE <<>>
               cut == SubSeq(inbox, 1, k)
    <3>2. inbox \in Seq(Symbol) /\ m_read_buffer \in Seq(Symbol) /\ k \in Nat /\ Len(inbox) \in Nat /\ k <= Len(inbox)
      BY <3>1, LenProperties DEF ReadType
    <3>3. kept \in Seq(Symbol) /\ Len(kept) \in Nat
          /\ (ReadIsQueued /\ k <= Len(m_read_buffer) => Len(kept) = Len(m_read_buffer) - k)
      <4>1. Rest(m_read_buffer, k) \in Seq(Symbol)
            /\ (k <= Len(m_read_buffer) => Len(Rest(m_read_buffer, k)) = Len(m_read_buffer) - k)
        BY <3>2, RestIs
      <4> QED
        BY <4>1, LenProperties
    <3>4. inbox' \in Seq(Symbol)
      BY <3>1, <3>2, RestIs
    <3>5. cut \in Seq(Symbol) /\ Len(cut) = k
      <4>1. \A i \in 1..k : inbox[i] \in Symbol
        BY <3>2, ElementOfSeq
      <4>2. 1 \in Int /\ k \in Int
        BY <3>2
      <4>3. Len(cut) = (IF 1 <= k THEN k - 1 + 1 ELSE 0) /\ cut \in Seq(Symbol)
        BY <4>1, <4>2, SubSeqProperties
      <4> HIDE DEF cut
      <4> QED
        BY <3>1, <4>3
    <3>6. m_read_buffer' = cut \o kept
      BY <3>1
    <3> HIDE DEF kept, cut
    <3> DEFINE n == Len(m_read_buffer')
    <3>7. m_read_buffer' \in Seq(Symbol) /\ n = k + Len(kept)
      BY <3>3, <3>5, <3>6, ConcatProperties
    <3>8. n \in Nat /\ k \in 0..n /\ Len(m_read_buffer) \in Nat
      BY <3>2, <3>3, <3>7, LenProperties
    <3> HIDE DEF n
    <3>9. completions \in Seq(Fits(n))
      <4>1. CASE ReadIsQueued
        <5>1. Len(m_read_buffer) <= n
          BY <3>2, <3>3, <3>7, <3>8, <4>1
        <5> QED
          BY <3>8, <5>1, FitsMore DEF ReadType
      <4>2. CASE ~ReadIsQueued
        <5>1. completions \in Seq(Fits(0))
          BY <4>2, NoReadFits DEF QueueType, ReadIsQueued
        <5> QED
          BY <3>8, <5>1, FitsMore
      <4> QED
        BY <4>1, <4>2
    <3>10. completions' \in Seq(Fits(n))
      BY <3>1, <3>8, <3>9, QueuesFit
    <3> QED
      BY <3>4, <3>7, <3>10 DEF ReadType, n
  <2>2. CASE SocketReadFails \/ ServerCloses
    BY <1>0, <1>12, <2>2, Zenon DEF SocketReadFails, ServerCloses
  <2> QED
    BY <1>4, <2>1, <2>2
<1>5. CASE ClientConnected
  BY <1>0, <1>12, <1>5 DEF ClientConnected, HandleConnect, AsyncRead
<1>6. CASE FeedBuilder \/ Decode \/ HandOver \/ Received
  <2>1. CASE FeedBuilder
    <3>1. /\ completions # <<>> /\ completions' = Tail(completions) /\ UNCHANGED inbox
          /\ m_read_buffer' = IF ReadIsQueued' THEN m_read_buffer ELSE <<>>
      BY <2>1 DEF FeedBuilder, HandleRead
    <3>2. completions' \in fit /\ completions' \in Seq(Completion)
      BY <1>0, <3>1, QueuePopped DEF QueueType
    <3>3. CASE ReadIsQueued'
      BY <1>12, <3>1, <3>2, <3>3
    <3>4. CASE ~ReadIsQueued'
      <4>1. completions' \in Seq(Fits(0))
        BY <3>2, <3>4, NoReadFits DEF ReadIsQueued
      <4>2. m_read_buffer' = <<>> /\ Len(m_read_buffer') = 0
        BY <3>1, <3>4
      <4> QED
        BY <3>1, <4>1, <4>2 DEF ReadType
    <3> QED
      BY <3>3, <3>4
  <2>2. CASE Decode \/ HandOver \/ Received
    BY <1>0, <1>12, <2>2, Zenon DEF Decode, HandOver, Received, ReceiveReturns, AsyncRead, tcpVars
  <2> QED
    BY <1>6, <2>1, <2>2
<1>7. CASE SocketClosed \/ ClearCallbacks
  BY <1>0, <1>12, <1>7 DEF SocketClosed, ClearCallbacks, Lost, HandleClose, Disconnection, CloseSocket,
              CallDisconnectionHandler
<1>8. CASE HandleWrite /\ UNCHANGED clientVars
  BY <1>0, <1>12, <1>8 DEF HandleWrite
<1>9. CASE RedisAnswers
  <2>1. /\ wire # <<>> /\ Head(wire) # Garbage /\ UNCHANGED <<m_read_buffer, completions>>
        /\ inbox' = inbox \o Encoded(ReplyTo(Head(wire)))
    BY <1>0, <1>12, <1>9 DEF RedisAnswers, ServerAnswers
  <2>2. Head(wire) \in Nat
    BY <2>1, HeadTailProperties, RedisAssumption DEF WireType, Command, Garbage
  <2>3. Encoded(ReplyTo(Head(wire))) \in Seq(Symbol)
    BY <2>2, EncodedNumberIsSymbols DEF ReplyTo, NumberReply
  <2>4. inbox' \in Seq(Symbol)
    BY <2>1, <2>3, ConcatProperties DEF ReadType
  <2> QED
    BY <2>1, <2>4 DEF ReadType
<1>10. ASSUME NEW s \in Senders, LockAndCheck(s) \/ SendCommand(s) \/ PushCallback(s)
       PROVE  ReadType'
  BY <1>0, <1>12, <1>10 DEF LockAndCheck, SendCommand, PushCallback, SendChecks, SendAppends
<1> QED
  BY <1>1, <1>2, <1>3, <1>4, <1>5, <1>6, <1>7, <1>8, <1>9, <1>10, ClientSteps

\* All replies are numbers, so that the builder never holds another builder
\* than that of a number.
BuilderType == m_builder \in NumberDecoder

LEMMA ReadIsPart ==
  ASSUME NEW q \in Seq(Symbol), NEW n \in Nat, n <= Len(q)
  PROVE  SubSeq(q, 1, n) \in Seq(Symbol)
<1>1. Len(q) \in Nat
  BY LenProperties
<1>2. \A i \in 1..n : q[i] \in Symbol
  BY <1>1, ElementOfSeq
<1> QED
  BY <1>2, SubSeqProperties

\* A read leaves the decoder one of number replies, ...
LEMMA GivenIsDecoder ==
  ASSUME NEW b \in NumberDecoder, NEW data \in Seq(Symbol)
  PROVE  Given(b, data) \in NumberDecoder
<1>1. b.m_buffer \in Seq(Symbol)
  BY DEF NumberDecoder
<1>2. b.m_buffer \o data \in Seq(Symbol)
  BY <1>1, ConcatProperties
<1> QED
  BY <1>2 DEF NumberDecoder, Given

\* ... and so does every step of the client.
LEMMA BuilderStays == QueueType /\ ReadType /\ BuilderType /\ [ClientNext]_vars => BuilderType'
<1> SUFFICES ASSUME QueueType, ReadType, BuilderType, [ClientNext]_vars PROVE BuilderType'
  OBVIOUS
<1> USE DEF clientVars, linkVars, opVars, bufVars, ownerVars, sendVars, netVars, Notify,
            StartDisconnection
<1>1. CASE UNCHANGED vars
  BY Zenon, <1>1 DEF BuilderType, vars, tcpVars
<1>2. CASE (Connect \/ Disconnect \/ TestNotified \/ StartWaiting \/ WakesSpuriously) /\ UNCHANGED clientVars
  BY Zenon, <1>2 DEF BuilderType, Connect, Disconnect, TestNotified, StartWaiting, WakesSpuriously
<1>3. CASE (ConnectCompletes \/ SocketWrites \/ WriteFails) /\ UNCHANGED clientVars
  BY Zenon, <1>3 DEF BuilderType, ConnectCompletes, SocketWrites, WriteFails, CloseSocket
<1>4. CASE (SocketReads \/ SocketReadFails \/ ServerCloses) /\ UNCHANGED clientVars
  BY Zenon, <1>4 DEF BuilderType, SocketReads, SocketReadFails, ServerCloses
<1>5. CASE ClientConnected
  BY Zenon, <1>5 DEF BuilderType, ClientConnected, HandleConnect, AsyncRead
<1>6. CASE FeedBuilder \/ Decode \/ HandOver \/ Received
  <2>1. CASE FeedBuilder
    <3>1. /\ completions # <<>>
          /\ m_builder' = IF Head(completions).ok
                          THEN Given(m_builder, SubSeq(m_read_buffer, 1, Head(completions).length))
                          ELSE m_builder
      BY <2>1 DEF FeedBuilder, HandleRead, Runs
    <3>2. CASE Head(completions).ok
      <4> DEFINE data == SubSeq(m_read_buffer, 1, Head(completions).length)
      <4>1. Head(completions) \in Fits(Len(m_read_buffer)) /\ Head(completions).op = "read"
        BY <2>1, <3>1, HeadTailProperties DEF ReadType, FeedBuilder, HandleRead, Runs
      <4>2. Head(completions).length \in Nat /\ Head(completions).length <= Len(m_read_buffer)
        BY <3>2, <4>1 DEF Fits, Completion
      <4>3. data \in Seq(Symbol)
        BY <4>2, ReadIsPart DEF ReadType
      <4> HIDE DEF data
      <4>4. m_builder' = Given(m_builder, data)
        BY <3>1, <3>2 DEF data
      <4> QED
        BY <4>3, <4>4, GivenIsDecoder DEF BuilderType
    <3> QED
      BY <3>1, <3>2 DEF BuilderType
  <2>2. CASE Decode
    BY <2>2, BuildStaysNumberDecoder DEF Decode, BuilderType
  <2>3. CASE HandOver
    <3>1. m_builder' = [m_builder EXCEPT !.replies = Tail(@)] /\ m_builder.replies # <<>>
      BY <2>3 DEF HandOver
    <3>2. /\ m_builder.replies \in Seq([type : {Number}, val : Nat])
          /\ m_builder = [m_buffer |-> m_builder.m_buffer, m_builder |-> m_builder.m_builder,
                          replies |-> m_builder.replies, thrown |-> m_builder.thrown]
      BY DEF BuilderType, NumberDecoder
    <3>3. Tail(m_builder.replies) \in Seq([type : {Number}, val : Nat])
      BY <3>1, <3>2, HeadTailProperties
    <3> QED
      BY <3>1, <3>3 DEF BuilderType, NumberDecoder
  <2>4. CASE Received
    BY <2>4, Zenon DEF Received, BuilderType
  <2> QED
    BY <1>6, <2>1, <2>2, <2>3, <2>4
<1>7. CASE SocketClosed \/ ClearCallbacks
  BY Zenon, <1>7 DEF BuilderType, SocketClosed, ClearCallbacks, Lost, HandleClose, Disconnection, CloseSocket,
              CallDisconnectionHandler
<1>8. CASE HandleWrite /\ UNCHANGED clientVars
  BY Zenon, <1>8 DEF BuilderType, HandleWrite
<1>9. CASE RedisAnswers
  BY Zenon, <1>9 DEF BuilderType, RedisAnswers, ServerAnswers
<1>10. ASSUME NEW s \in Senders, LockAndCheck(s) \/ SendCommand(s) \/ PushCallback(s)
       PROVE  BuilderType'
  BY Zenon, <1>10 DEF BuilderType, LockAndCheck, SendCommand, PushCallback, SendChecks, SendAppends
<1> QED
  BY <1>1, <1>2, <1>3, <1>4, <1>5, <1>6, <1>7, <1>8, <1>9, <1>10, ClientSteps

-----------------------------------------------------------------------------
(* The types of all variables, as one inductive invariant.                 *)

TypeInv ==
  /\ LinkType /\ IoType /\ OwnerType /\ SenderType /\ QueueType
  /\ BufferInv /\ MutexInv /\ BufferType /\ CallbacksType /\ WireType /\ ReadType /\ BuilderType

LEMMA TypeInvInit == ClientInit => TypeInv
<1> SUFFICES ASSUME ClientInit PROVE TypeInv
  OBVIOUS
<1> USE DEF ClientInit, Init
<1>0. LinkType /\ IoType
  BY DEF LinkType, IoType
<1>1. OwnerType
  <2>1. connects \in 0..MaxConnects
    BY RedisAssumption
  <2> QED
    BY <2>1 DEF OwnerType
<1>2. SenderType /\ MutexInv
  BY RedisAssumption DEF SenderType, MutexInv
<1>3. QueueType /\ CallbacksType /\ WireType
  BY DEF QueueType, CallbacksType, WireType
<1>4. BufferInv
  BY BufferInvInit
<1>5. BufferType /\ ReadType
  BY DEF BufferType, ReadType
<1>6. BuilderType
  BY DEF BuilderType, NumberDecoder, NoReplyYet
<1> QED
  BY <1>0, <1>1, <1>2, <1>3, <1>4, <1>5, <1>6 DEF TypeInv

LEMMA TypeInvStays == TypeInv /\ [ClientNext]_vars => TypeInv'
  BY LinkStays, IoStays, OwnerStays, SenderStays, QueueStays, BufferInvStays, MutexStays, BufferStays,
     CallbacksStay, WireStays, ReadStays, BuilderStays DEF TypeInv

\* The type invariant of the model follows from the inductive one.
LEMMA TypeInvTypes == TypeInv => ClientTypeOK
<1> SUFFICES ASSUME TypeInv PROVE ClientTypeOK
  OBVIOUS
<1>1. write_op \in [pc : {"none", "writing", "over"}, n : 0..MaxCommands, done : 0..MaxCommands,
                    moved : BOOLEAN]
  <2>1. /\ write_op \in [pc : {"none", "writing", "over"}, n : Nat, done : Nat, moved : BOOLEAN]
        /\ WritesStayInBuffer /\ Len(m_write_buffer) \in Nat /\ Len(m_write_buffer) <= sent
        /\ sent \in 0..MaxCommands
    BY LenProperties DEF TypeInv, BufferInv, BufferType, MutexInv
  <2>2. write_op.n \in 0..MaxCommands /\ write_op.done \in 0..MaxCommands
    <3>1. CASE write_op.pc = "none"
      BY <2>1, <3>1, RedisAssumption DEF WritesStayInBuffer, NoWrite
    <3>2. CASE write_op.pc # "none"
      BY <2>1, <3>2, RedisAssumption DEF WritesStayInBuffer
    <3> QED
      BY <3>1, <3>2
  <2> QED
    BY <2>1, <2>2
<1>2. TypeOK
  BY <1>1 DEF TypeOK, TypeInv, LinkType, IoType, OwnerType, SenderType, QueueType, MutexInv, BufferType, WireType
<1>3. /\ m_callbacks_mutex \in {Free} \cup Senders /\ m_callbacks \in Seq(Command)
      /\ replying \in Seq(Command) /\ sound \in BOOLEAN
  BY DEF TypeInv, SenderType, CallbacksType, WireType, IoType
<1>4. m_builder.thrown \in BOOLEAN /\ \A i \in DOMAIN m_builder.replies : m_builder.replies[i].val \in Nat
  <2>1. m_builder.thrown \in BOOLEAN /\ m_builder.replies \in Seq([type : {Number}, val : Nat])
    BY DEF TypeInv, BuilderType, NumberDecoder
  <2>2. \A i \in DOMAIN m_builder.replies : m_builder.replies[i] \in [type : {Number}, val : Nat]
    BY <2>1, ElementOfSeq, LenProperties
  <2> QED
    BY <2>1, <2>2
<1> QED
  BY <1>2, <1>3, <1>4 DEF ClientTypeOK

\* The types of the whole client, for any number of threads, commands and
\* connections; the builder of the client has decoded nothing but numbers.
THEOREM ClientIsTyped == FairSpec => []ClientTypeOK
<1>1. TypeInv => ClientTypeOK
  BY TypeInvTypes
<1> QED
  BY <1>1, TypeInvInit, TypeInvStays, PTL DEF FairSpec

-----------------------------------------------------------------------------
(* A lost connection is always noticed: as long as the client is connected,  *)
(* or there are callbacks, or a thread is in send(), a read is outstanding,  *)
(* or its completion is in the queue, or the io thread is in a handler that  *)
(* ends by clearing the callbacks or by starting the next read.              *)

HasRead(q) == \E i \in DOMAIN q : q[i].op = "read"

Watched == reads > 0 \/ HasRead(completions) \/ io # "idle"
Watching == m_is_connected \/ m_callbacks # <<>> \/ m_callbacks_mutex # Free

WatchInv ==
  /\ m_socket = "closed" => reads = 0
  /\ io \in {"closing", "handler"} => ~m_is_connected
  /\ Watching => Watched

\* The read of a queue is lost only by running it.
LEMMA ReadsRemain ==
  ASSUME QueueType
  PROVE  \A q \in {completions} \cup (IF completions = <<>> THEN {} ELSE {Tail(completions)}) :
           /\ HasRead(completions) =>
                \/ q # completions /\ Head(completions).op = "read"
                \/ HasRead(q) /\ HasRead(q \o <<>>) /\ HasRead(q \o Aborted)
                   /\ \A op \in {"connect", "close", "read", "write"} : \A ok \in BOOLEAN :
                        HasRead(q \o Done(op, ok))
           /\ reads > 0 => HasRead(q \o Aborted)
           /\ \A ok \in BOOLEAN : HasRead(q \o Done("read", ok))
           /\ \A k \in Nat : HasRead(Append(q, [op |-> "read", ok |-> TRUE, length |-> k]))
<1> SUFFICES ASSUME NEW q \in {completions} \cup (IF completions = <<>> THEN {} ELSE {Tail(completions)})
             PROVE  /\ HasRead(completions) =>
                         \/ q # completions /\ Head(completions).op = "read"
                         \/ HasRead(q) /\ HasRead(q \o <<>>) /\ HasRead(q \o Aborted)
                            /\ \A op \in {"connect", "close", "read", "write"} : \A ok \in BOOLEAN :
                                 HasRead(q \o Done(op, ok))
                    /\ reads > 0 => HasRead(q \o Aborted)
                    /\ \A ok \in BOOLEAN : HasRead(q \o Done("read", ok))
                    /\ \A k \in Nat : HasRead(Append(q, [op |-> "read", ok |-> TRUE, length |-> k]))
  OBVIOUS
<1>1. /\ Aborted \in Seq(Completion) /\ q \in Seq(Completion) /\ <<>> \in Seq(Completion)
      /\ \A op \in {"connect", "close", "read", "write"} : \A ok \in BOOLEAN : Done(op, ok) \in Seq(Completion)
  BY QueuesAreMade, DoneIsQueued
<1>2. ASSUME NEW r \in Seq(Completion), HasRead(q) \/ HasRead(r) PROVE HasRead(q \o r)
  <2>1. CASE HasRead(q)
    <3>1. PICK i \in DOMAIN q : q[i].op = "read"
      BY <2>1 DEF HasRead
    <3>2. i \in DOMAIN (q \o r) /\ (q \o r)[i] = q[i]
      BY <1>1, QueueJoined
    <3> QED
      BY <3>1, <3>2 DEF HasRead
  <2>2. CASE HasRead(r)
    <3>1. PICK i \in DOMAIN r : r[i].op = "read"
      BY <2>2 DEF HasRead
    <3>2. Len(q) + i \in DOMAIN (q \o r) /\ (q \o r)[Len(q) + i] = r[i]
      BY <1>1, QueueJoined
    <3> QED
      BY <3>1, <3>2 DEF HasRead
  <2> QED
    BY <1>2, <2>1, <2>2
<1>3. HasRead(completions) => (q # completions /\ Head(completions).op = "read") \/ HasRead(q)
  <2> SUFFICES ASSUME HasRead(completions), q # completions, Head(completions).op # "read" PROVE HasRead(q)
    OBVIOUS
  <2>1. completions # <<>> /\ q = Tail(completions) /\ completions \in Seq(Completion)
    BY DEF QueueType
  <2>2. PICK i \in DOMAIN completions : completions[i].op = "read"
    BY DEF HasRead
  <2>3. i - 1 \in DOMAIN q /\ q[i - 1] = completions[i]
    BY <2>1, <2>2, QueuePopped
  <2> QED
    BY <2>2, <2>3 DEF HasRead
<1>4. reads > 0 => HasRead(Aborted)
  BY AbortedIsQueued DEF QueueType, HasRead
<1>5. ASSUME NEW ok \in BOOLEAN PROVE HasRead(q \o Done("read", ok))
  <2>1. Done("read", ok)[1].op = "read" /\ 1 \in DOMAIN Done("read", ok) /\ Done("read", ok) \in Seq(Completion)
    <3>1. 1 \in 1..1 /\ DOMAIN Done("read", ok) = 1..1
      BY DoneIsQueued
    <3> QED
      BY <3>1, DoneIsQueued
  <2> QED
    BY <1>2, <2>1 DEF HasRead
<1>6. ASSUME NEW k \in Nat PROVE HasRead(Append(q, [op |-> "read", ok |-> TRUE, length |-> k]))
  <2> DEFINE c == [op |-> "read", ok |-> TRUE, length |-> k]
  <2>1. c \in Completion /\ c.op = "read"
    BY DEF Completion
  <2> HIDE DEF c
  <2>2. /\ Len(q) + 1 \in DOMAIN Append(q, c) /\ Append(q, c)[Len(q) + 1] = c
    BY <1>1, <2>1, AppendProperties, LenProperties
  <2>3. HasRead(Append(q, c))
    BY <2>1, <2>2 DEF HasRead
  <2> QED
    BY <2>3 DEF c
<1> QED
  BY <1>1, <1>2, <1>3, <1>4, <1>5, <1>6

\* A closed socket has no reads.
LEMMA ClosedStays == TypeInv /\ WatchInv /\ [ClientNext]_vars => (m_socket' = "closed" => reads' = 0)
<1> SUFFICES ASSUME TypeInv, WatchInv, [ClientNext]_vars PROVE (m_socket' = "closed" => reads' = 0)
  OBVIOUS
<1> USE DEF clientVars, linkVars, opVars, bufVars, ownerVars, sendVars, netVars, Notify,
            StartDisconnection
<1>11. m_socket = "closed" => reads = 0
  BY DEF WatchInv
<1>1. CASE UNCHANGED vars
  BY <1>11, Zenon, <1>1 DEF vars, tcpVars
<1>2. CASE (Connect \/ Disconnect \/ TestNotified \/ StartWaiting \/ WakesSpuriously) /\ UNCHANGED clientVars
  BY <1>11, Zenon, <1>2 DEF Connect, Disconnect, TestNotified, StartWaiting, WakesSpuriously
<1>3. CASE (ConnectCompletes \/ SocketWrites \/ WriteFails) /\ UNCHANGED clientVars
  BY <1>11, Zenon, <1>3 DEF ConnectCompletes, SocketWrites, WriteFails, CloseSocket
<1>4. CASE (SocketReads \/ SocketReadFails \/ ServerCloses) /\ UNCHANGED clientVars
  BY <1>11, Zenon, <1>4 DEF SocketReads, SocketReadFails, ServerCloses
<1>5. CASE ClientConnected
  BY <1>11, Zenon, <1>5 DEF ClientConnected, HandleConnect, AsyncRead
<1>6. CASE FeedBuilder \/ Decode \/ HandOver \/ Received
  BY <1>11, Zenon, <1>6 DEF FeedBuilder, Decode, HandOver, Received, HandleRead, ReceiveReturns, AsyncRead, tcpVars
<1>7. CASE SocketClosed \/ ClearCallbacks
  BY <1>11, Zenon, <1>7 DEF SocketClosed, ClearCallbacks, Lost, HandleClose, Disconnection, CloseSocket,
              CallDisconnectionHandler
<1>8. CASE HandleWrite /\ UNCHANGED clientVars
  BY <1>11, Zenon, <1>8 DEF HandleWrite
<1>9. CASE RedisAnswers
  BY <1>11, Zenon, <1>9 DEF RedisAnswers, ServerAnswers
<1>10. ASSUME NEW s \in Senders, LockAndCheck(s) \/ SendCommand(s) \/ PushCallback(s)
       PROVE  (m_socket' = "closed" => reads' = 0)
  BY <1>11, Zenon, <1>10 DEF LockAndCheck, SendCommand, PushCallback, SendChecks, SendAppends
<1> QED
  BY <1>1, <1>2, <1>3, <1>4, <1>5, <1>6, <1>7, <1>8, <1>9, <1>10, ClientSteps

\* A connection is disconnected before the io thread gives it up.
LEMMA ClosingStays ==
  TypeInv /\ WatchInv /\ [ClientNext]_vars => (io' \in {"closing", "handler"} => ~m_is_connected')
<1> SUFFICES ASSUME TypeInv, WatchInv, [ClientNext]_vars
             PROVE  (io' \in {"closing", "handler"} => ~m_is_connected')
  OBVIOUS
<1> USE DEF Runs, clientVars, linkVars, opVars, bufVars, ownerVars, sendVars, netVars, Notify,
            StartDisconnection
<1>11. io \in {"closing", "handler"} => ~m_is_connected
  BY DEF WatchInv
<1>1. CASE UNCHANGED vars
  BY <1>11, <1>1 DEF vars, tcpVars
<1>2. CASE (Connect \/ Disconnect \/ TestNotified \/ StartWaiting \/ WakesSpuriously) /\ UNCHANGED clientVars
  BY <1>11, <1>2 DEF Connect, Disconnect, TestNotified, StartWaiting, WakesSpuriously
<1>3. CASE (ConnectCompletes \/ SocketWrites \/ WriteFails) /\ UNCHANGED clientVars
  BY <1>11, <1>3 DEF ConnectCompletes, SocketWrites, WriteFails, CloseSocket
<1>4. CASE (SocketReads \/ SocketReadFails \/ ServerCloses) /\ UNCHANGED clientVars
  BY <1>11, <1>4 DEF SocketReads, SocketReadFails, ServerCloses
<1>5. CASE ClientConnected
  BY <1>11, <1>5 DEF ClientConnected, HandleConnect, AsyncRead
<1>6. CASE FeedBuilder \/ Decode \/ HandOver \/ Received
  BY <1>11, <1>6 DEF FeedBuilder, Decode, HandOver, Received, HandleRead, ReceiveReturns, AsyncRead, tcpVars
<1>7. CASE SocketClosed \/ ClearCallbacks
  BY <1>11, <1>7 DEF SocketClosed, ClearCallbacks, Lost, HandleClose, Disconnection, CloseSocket,
              CallDisconnectionHandler
<1>8. CASE HandleWrite /\ UNCHANGED clientVars
  BY <1>11, <1>8 DEF HandleWrite
<1>9. CASE RedisAnswers
  BY <1>11, <1>9 DEF RedisAnswers, ServerAnswers
<1>10. ASSUME NEW s \in Senders, LockAndCheck(s) \/ SendCommand(s) \/ PushCallback(s)
       PROVE  (io' \in {"closing", "handler"} => ~m_is_connected')
  BY <1>11, <1>10 DEF LockAndCheck, SendCommand, PushCallback, SendChecks, SendAppends
<1> QED
  BY <1>1, <1>2, <1>3, <1>4, <1>5, <1>6, <1>7, <1>8, <1>9, <1>10, ClientSteps

LEMMA TailIsShorter == QueueType /\ completions # <<>> => Tail(completions) # completions
<1> SUFFICES ASSUME QueueType, completions # <<>> PROVE Tail(completions) # completions
  OBVIOUS
<1>1. completions \in Seq(Completion) /\ Len(completions) \in Nat
  BY LenProperties DEF QueueType
<1>2. Len(Tail(completions)) = Len(completions) - 1
  BY <1>1, HeadTailProperties
<1> SUFFICES ASSUME Tail(completions) = completions PROVE FALSE
  OBVIOUS
<1>3. Len(completions) = Len(completions) - 1
  BY <1>2
<1> DEFINE l == Len(completions)
<1>4. l \in Nat /\ l = l - 1
  BY <1>1, <1>3
<1> HIDE DEF l
<1> QED
  BY <1>4

\* A connection, or callbacks left over, are watched until they are cleared.
LEMMA WatchKept == TypeInv /\ WatchInv /\ [ClientNext]_vars => (Watching' => Watched')
<1> SUFFICES ASSUME TypeInv, WatchInv, [ClientNext]_vars PROVE (Watching' => Watched')
  OBVIOUS
<1> USE DEF clientVars, linkVars, opVars, bufVars, ownerVars, sendVars, netVars, Notify,
            StartDisconnection
<1>11. /\ Watching => reads > 0 \/ HasRead(completions) \/ io # "idle"
       /\ reads \in Nat
  BY DEF TypeInv, QueueType, WatchInv, Watched
<1>12. ASSUME UNCHANGED <<reads, io, m_callbacks, m_callbacks_mutex>>, m_is_connected' => m_is_connected,
              HasRead(completions) => HasRead(completions')
       PROVE  Watching' => Watched'
  BY <1>11, <1>12 DEF Watched, Watching
<1>13. /\ Watching' => Watching \/ m_is_connected' # m_is_connected
                      \/ m_callbacks' # m_callbacks \/ m_callbacks_mutex' # m_callbacks_mutex
       /\ reads' > 0 \/ HasRead(completions') \/ io' # "idle" => Watched'
  BY DEF Watched, Watching
<1>14. /\ HasRead(completions) =>
            /\ HasRead(completions \o <<>>) /\ HasRead(completions \o Aborted)
            /\ \A op \in {"connect", "close", "read", "write"} : \A ok \in BOOLEAN :
                 HasRead(completions \o Done(op, ok))
       /\ reads > 0 => HasRead(completions \o Aborted)
       /\ \A ok \in BOOLEAN : HasRead(completions \o Done("read", ok))
       /\ \A k \in Nat : HasRead(Append(completions, [op |-> "read", ok |-> TRUE, length |-> k]))
  BY ReadsRemain DEF TypeInv
<1>15. ASSUME UNCHANGED <<m_is_connected, io, m_callbacks, m_callbacks_mutex>>,
              reads > 0 \/ HasRead(completions) => HasRead(completions')
       PROVE  Watching' => Watched'
  BY <1>11, <1>15 DEF Watched, Watching
<1>16. completions # <<>> =>
         /\ HasRead(completions) /\ Head(completions).op # "read" =>
              /\ HasRead(Tail(completions)) /\ HasRead(Tail(completions) \o <<>>)
              /\ HasRead(Tail(completions) \o Aborted)
              /\ \A op \in {"connect", "close", "read", "write"} : \A ok \in BOOLEAN :
                   HasRead(Tail(completions) \o Done(op, ok))
         /\ reads > 0 => HasRead(Tail(completions) \o Aborted)
         /\ \A ok \in BOOLEAN : HasRead(Tail(completions) \o Done("read", ok))
  <2> SUFFICES ASSUME completions # <<>>
               PROVE  /\ HasRead(completions) /\ Head(completions).op # "read" =>
                           /\ HasRead(Tail(completions)) /\ HasRead(Tail(completions) \o <<>>)
                           /\ HasRead(Tail(completions) \o Aborted)
                           /\ \A op \in {"connect", "close", "read", "write"} : \A ok \in BOOLEAN :
                                HasRead(Tail(completions) \o Done(op, ok))
                      /\ reads > 0 => HasRead(Tail(completions) \o Aborted)
                      /\ \A ok \in BOOLEAN : HasRead(Tail(completions) \o Done("read", ok))
    OBVIOUS
  <2> DEFINE q == Tail(completions)
  <2>1. QueueType
    BY DEF TypeInv
  <2>2. q \in {completions} \cup (IF completions = <<>> THEN {} ELSE {Tail(completions)}) /\ q # completions
    BY <2>1, TailIsShorter
  <2> HIDE DEF q
  <2>3. /\ HasRead(completions) /\ Head(completions).op # "read" =>
             /\ HasRead(q) /\ HasRead(q \o <<>>) /\ HasRead(q \o Aborted)
             /\ \A op \in {"connect", "close", "read", "write"} : \A ok \in BOOLEAN : HasRead(q \o Done(op, ok))
        /\ reads > 0 => HasRead(q \o Aborted)
        /\ \A ok \in BOOLEAN : HasRead(q \o Done("read", ok))
    BY <2>1, <2>2, ReadsRemain, Zenon
  <2> QED
    BY <2>3 DEF q
<1>1. CASE UNCHANGED vars
  BY <1>1, <1>12, Zenon DEF vars, tcpVars
<1>2. CASE (Connect \/ Disconnect \/ TestNotified \/ StartWaiting \/ WakesSpuriously) /\ UNCHANGED clientVars
  <2>1. UNCHANGED <<reads, io, m_callbacks, m_callbacks_mutex>>
    BY <1>2, Zenon DEF Connect, Disconnect, TestNotified, StartWaiting, WakesSpuriously
  <2>3. m_is_connected' = m_is_connected \/ m_is_connected' = FALSE
    BY <1>2, Zenon DEF Connect, Disconnect, TestNotified, StartWaiting, WakesSpuriously
  <2>2. \/ completions' = completions \/ completions' = completions \o Done("connect", FALSE)
        \/ completions' = completions \o Done("close", TRUE)
    BY <1>2, Zenon DEF Connect, Disconnect, TestNotified, StartWaiting, WakesSpuriously
  <2> QED
    BY <1>12, <1>14, <2>1, <2>2, <2>3
<1>3. CASE (ConnectCompletes \/ SocketWrites \/ WriteFails) /\ UNCHANGED clientVars
  <2>1. UNCHANGED <<m_is_connected, io, m_callbacks, m_callbacks_mutex>>
    BY <1>3, Zenon DEF ConnectCompletes, SocketWrites, WriteFails
  <2>2. \/ /\ UNCHANGED reads
           /\ \/ completions' = completions
              \/ completions' = completions \o Done("connect", TRUE)
              \/ \E ok \in BOOLEAN : completions' = completions \o Done("write", ok)
        \/ completions' = completions \o Aborted
    BY <1>3, Zenon DEF ConnectCompletes, SocketWrites, WriteFails, CloseSocket
  <2>3. CASE completions' = completions \o Aborted
    BY <1>14, <1>15, <2>1, <2>3
  <2>4. CASE completions' # completions \o Aborted
    <3>1. HasRead(completions) => HasRead(completions')
      <4>1. CASE completions' = completions
        BY <4>1
      <4>2. CASE completions' = completions \o Done("connect", TRUE)
        BY <1>14, <4>2
      <4>3. ASSUME NEW ok \in BOOLEAN, completions' = completions \o Done("write", ok)
            PROVE  HasRead(completions) => HasRead(completions')
        BY <1>14, <4>3
      <4> QED
        BY <2>2, <2>4, <4>1, <4>2, <4>3
    <3> QED
      <4>1. UNCHANGED <<reads, io, m_callbacks, m_callbacks_mutex>> /\ (m_is_connected' => m_is_connected)
        <5>1. UNCHANGED reads
          BY <2>2, <2>4
        <5> QED
          BY <2>1, <5>1
      <4> QED
        BY <1>12, <3>1, <4>1
  <2> QED
    BY <2>3, <2>4
<1>4. CASE (SocketReads \/ SocketReadFails \/ ServerCloses) /\ UNCHANGED clientVars
  <2>1. CASE SocketReads
    <3>1. PICK k \in 1..Len(inbox) : completions' = Append(completions, [op |-> "read", ok |-> TRUE, length |-> k])
      BY <2>1 DEF SocketReads
    <3>2. HasRead(completions')
      <4>1. k \in Nat
        OBVIOUS
      <4> QED
        BY <1>14, <3>1, <4>1
    <3> QED
      BY <1>13, <3>2
  <2>2. CASE SocketReadFails
    BY <1>13, <1>14, <2>2 DEF SocketReadFails
  <2>3. CASE ServerCloses
    BY <1>4, <1>12, <2>3, Zenon DEF ServerCloses
  <2> QED
    BY <1>4, <2>1, <2>2, <2>3
<1>5. CASE ClientConnected
  <2>1. /\ completions # <<>> /\ Head(completions).op = "connect" /\ io = "idle"
        /\ UNCHANGED <<io, m_callbacks, m_callbacks_mutex>>
        /\ \/ AsyncRead(Tail(completions))
           \/ completions' = Tail(completions) /\ UNCHANGED <<m_is_connected, reads>>
    BY <1>5, Zenon DEF ClientConnected, HandleConnect, Runs
  <2>2. CASE AsyncRead(Tail(completions))
    <3>1. CASE m_socket = "closed"
      BY <1>13, <1>16, <2>1, <2>2, <3>1 DEF AsyncRead
    <3>2. CASE m_socket # "closed"
      <4>1. reads' = reads + 1 /\ reads \in Nat
        BY <1>11, <2>2, <3>2 DEF AsyncRead
      <4> QED
        BY <1>13, <4>1
    <3> QED
      BY <3>1, <3>2
  <2>3. CASE completions' = Tail(completions) /\ UNCHANGED <<m_is_connected, reads>>
    BY <1>12, <1>16, <2>1, <2>3
  <2> QED
    BY <2>1, <2>2, <2>3
<1>6. CASE FeedBuilder \/ Decode \/ HandOver \/ Received
  <2>1. CASE FeedBuilder \/ Decode \/ HandOver
    <3>1. io' # "idle"
      BY <2>1 DEF FeedBuilder, HandleRead, Decode, HandOver, tcpVars
    <3> QED
      BY <1>13, <3>1
  <2>2. CASE Received
    <3>1. CASE io' # "idle"
      BY <1>13, <3>1
    <3>2. CASE io' = "idle"
      <4>1. AsyncRead(completions)
        BY <2>2, <3>2 DEF Received, ReceiveReturns
      <4>2. CASE m_socket = "closed"
        BY <1>13, <1>14, <4>1, <4>2 DEF AsyncRead
      <4>3. CASE m_socket # "closed"
        <5>1. reads' = reads + 1 /\ reads \in Nat
          BY <1>11, <4>1, <4>3 DEF AsyncRead
        <5> QED
          BY <1>13, <5>1
      <4> QED
        BY <4>2, <4>3
    <3> QED
      BY <3>1, <3>2
  <2> QED
    BY <1>6, <2>1, <2>2
<1>7. CASE SocketClosed \/ ClearCallbacks
  <2>1. CASE HandleClose /\ SocketClosed
    <3>1. /\ completions # <<>> /\ Head(completions).op = "close" /\ io = "idle"
          /\ UNCHANGED <<io, m_callbacks, m_callbacks_mutex, m_is_connected>>
          /\ completions' = Tail(completions) \o Aborted
      BY <2>1, Zenon DEF SocketClosed, HandleClose, CloseSocket, Runs
    <3> QED
      BY <1>15, <1>16, <3>1
  <2>2. CASE Disconnection
    <3>1. io' = "handler"
      BY <2>2 DEF Disconnection
    <3> QED
      BY <1>13, <3>1
  <2>3. CASE ClearCallbacks
    <3>1. io = "handler" /\ m_callbacks' = <<>> /\ m_callbacks_mutex' = Free /\ m_is_connected' = m_is_connected
      BY <2>3 DEF ClearCallbacks, CallDisconnectionHandler
    <3>2. ~m_is_connected
      BY <3>1 DEF WatchInv
    <3> QED
      BY <3>1, <3>2 DEF Watching
  <2> QED
    BY <1>7, <2>1, <2>2, <2>3 DEF SocketClosed
<1>8. CASE HandleWrite /\ UNCHANGED clientVars
  <2>1. /\ completions # <<>> /\ Head(completions).op = "write" /\ io = "idle"
        /\ UNCHANGED <<reads, m_callbacks, m_callbacks_mutex>>
    BY <1>8, Zenon DEF HandleWrite, Runs
  <2>2. CASE Head(completions).ok
    <3>1. /\ UNCHANGED <<io, m_is_connected>>
          /\ \/ completions' = Tail(completions)
             \/ completions' = Tail(completions) \o <<>>
             \/ completions' = Tail(completions) \o Done("write", FALSE)
      BY <1>8, <2>2, Zenon DEF HandleWrite, WriteNext, AsyncWrite
    <3> QED
      BY <1>12, <1>16, <2>1, <3>1
  <2>3. CASE ~Head(completions).ok
    <3>1. io' = "closing"
      BY <1>8, <2>3 DEF HandleWrite
    <3> QED
      BY <1>13, <3>1
  <2> QED
    BY <2>2, <2>3
<1>9. CASE RedisAnswers
  BY <1>9, <1>12, Zenon DEF RedisAnswers, ServerAnswers
<1>10. ASSUME NEW s \in Senders, LockAndCheck(s) \/ SendCommand(s) \/ PushCallback(s)
       PROVE  (Watching' => Watched')
  <2>1. UNCHANGED <<reads, io, m_is_connected>>
    BY <1>10, Zenon DEF LockAndCheck, SendCommand, PushCallback, SendChecks, SendAppends
  <2>2. \/ completions' = completions \/ completions' = completions \o <<>>
        \/ completions' = completions \o Done("write", FALSE)
    BY <1>10, Zenon DEF LockAndCheck, SendCommand, PushCallback, SendChecks, SendAppends, AsyncWrite
  <2>3. Watching
    <3>1. CASE LockAndCheck(s)
      BY <3>1 DEF LockAndCheck, SendChecks, Watching
    <3>2. CASE SendCommand(s) \/ PushCallback(s)
      <4>1. sender[s] # "idle"
        BY <3>2 DEF SendCommand, SendAppends, PushCallback
      <4>2. m_callbacks_mutex = s
        BY <4>1 DEF TypeInv, MutexInv
      <4> QED
        BY <4>2, ClientAssumption DEF Watching
    <3> QED
      BY <1>10, <3>1, <3>2
  <2> QED
    BY <1>11, <1>13, <1>14, <2>1, <2>2, <2>3
<1> QED
  BY <1>1, <1>2, <1>3, <1>4, <1>5, <1>6, <1>7, <1>8, <1>9, <1>10, ClientSteps

LEMMA WatchStays == TypeInv /\ WatchInv /\ [ClientNext]_vars => WatchInv'
  BY ClosedStays, ClosingStays, WatchKept DEF WatchInv

\* When a lost connection has been dealt with no callback is left over, for any
\* number of threads that send: one that holds m_callbacks_mutex pushes its
\* callback before the disconnection handler clears them, and one that comes
\* later finds the client disconnected.
THEOREM LostCallbacksAreCleared == FairSpec => []NoCallbackSurvives
<1>1. ClientInit => WatchInv
  BY DEF ClientInit, Init, WatchInv, Watching
<1>2. WatchInv => NoCallbackSurvives
  <2> SUFFICES ASSUME WatchInv, m_socket = "closed", completions = <<>>, io = "idle",
                      m_callbacks_mutex = Free, m_callbacks # <<>>
               PROVE  FALSE
    BY DEF NoCallbackSurvives
  <2>1. reads = 0 /\ Watched
    BY DEF WatchInv, Watching
  <2>2. ~HasRead(completions)
    BY DEF HasRead
  <2> QED
    BY <2>1, <2>2 DEF Watched
<1> QED
  BY <1>1, <1>2, TypeInvInit, TypeInvStays, WatchStays, PTL DEF FairSpec

-----------------------------------------------------------------------------
(* One completion of a write at a time: it belongs to the write that is over, *)
(* and reports it as it ended.                                               *)

NoWriteIn(q) == \A i \in DOMAIN q : q[i].op # "write"
OneWriteIn(q) == \A i, j \in DOMAIN q : q[i].op = "write" /\ q[j].op = "write" => i = j
WrittenIn(q) == \E i \in DOMAIN q : q[i].op = "write" /\ q[i].ok

WriteInv ==
  /\ OneWriteIn(completions)
  /\ NoWriteIn(completions) \/ write_op.pc = "over"
  /\ WrittenIn(completions) => write_op.done = write_op.n

\* Write completions in a queue that is joined, ...
LEMMA JoinedWrites ==
  \A q, r \in Seq(Completion) :
    /\ NoWriteIn(q) /\ NoWriteIn(r) => NoWriteIn(q \o r)
    /\ (OneWriteIn(q) /\ NoWriteIn(r)) \/ (NoWriteIn(q) /\ OneWriteIn(r)) => OneWriteIn(q \o r)
    /\ WrittenIn(q \o r) => WrittenIn(q) \/ WrittenIn(r)
<1> SUFFICES ASSUME NEW q \in Seq(Completion), NEW r \in Seq(Completion)
             PROVE  /\ NoWriteIn(q) /\ NoWriteIn(r) => NoWriteIn(q \o r)
                    /\ (OneWriteIn(q) /\ NoWriteIn(r)) \/ (NoWriteIn(q) /\ OneWriteIn(r)) => OneWriteIn(q \o r)
                    /\ WrittenIn(q \o r) => WrittenIn(q) \/ WrittenIn(r)
  OBVIOUS
<1> DEFINE s == q \o r
           l == Len(q)
<1>1. l \in Nat /\ Len(r) \in Nat /\ DOMAIN q = 1..l /\ DOMAIN r = 1..Len(r) /\ DOMAIN s = 1..l + Len(r)
  BY QueueJoined
<1>2. ASSUME NEW i \in DOMAIN s
      PROVE  \/ i \in DOMAIN q /\ s[i] = q[i]
             \/ i - l \in DOMAIN r /\ s[i] = r[i - l]
  <2>1. i \in DOMAIN q \/ i - l \in DOMAIN r
    BY QueueJoined
  <2>2. i \in DOMAIN q => s[i] = q[i]
    BY QueueJoined
  <2>3. i - l \in DOMAIN r => s[l + (i - l)] = r[i - l]
    BY QueueJoined
  <2>4. l + (i - l) = i
    BY <1>1
  <2> QED
    BY <2>1, <2>2, <2>3, <2>4
<1> HIDE DEF s, l
<1>3. NoWriteIn(q) /\ NoWriteIn(r) => NoWriteIn(s)
  BY <1>2 DEF NoWriteIn
<1>4. WrittenIn(s) => WrittenIn(q) \/ WrittenIn(r)
  <2> SUFFICES ASSUME WrittenIn(s) PROVE WrittenIn(q) \/ WrittenIn(r)
    OBVIOUS
  <2>1. PICK i \in DOMAIN s : s[i].op = "write" /\ s[i].ok
    BY DEF WrittenIn
  <2> QED
    BY <1>2, <2>1 DEF WrittenIn
<1>5. ASSUME (OneWriteIn(q) /\ NoWriteIn(r)) \/ (NoWriteIn(q) /\ OneWriteIn(r)) PROVE OneWriteIn(s)
  <2> SUFFICES ASSUME NEW i \in DOMAIN s, NEW j \in DOMAIN s, s[i].op = "write", s[j].op = "write"
               PROVE  i = j
    BY DEF OneWriteIn
  <2>1. CASE OneWriteIn(q) /\ NoWriteIn(r)
    <3>1. /\ i \in DOMAIN q /\ q[i].op = "write"
          /\ j \in DOMAIN q /\ q[j].op = "write"
      BY <1>2, <2>1 DEF NoWriteIn
    <3> QED
      BY <2>1, <3>1 DEF OneWriteIn
  <2>2. CASE NoWriteIn(q) /\ OneWriteIn(r)
    <3>1. /\ i - l \in DOMAIN r /\ r[i - l].op = "write"
          /\ j - l \in DOMAIN r /\ r[j - l].op = "write"
      BY <1>2, <2>2 DEF NoWriteIn
    <3>2. i - l = j - l
      BY <2>2, <3>1 DEF OneWriteIn
    <3>3. i \in Int /\ j \in Int
      BY <1>1
    <3> QED
      BY <1>1, <3>2, <3>3
  <2> QED
    BY <1>5, <2>1, <2>2
<1> QED
  BY <1>3, <1>4, <1>5 DEF s

\* ... or loses its head, ...
LEMMA PoppedWrites ==
  \A q \in Seq(Completion) : q # <<>> =>
    /\ NoWriteIn(q) => NoWriteIn(Tail(q))
    /\ OneWriteIn(q) => OneWriteIn(Tail(q))
    /\ OneWriteIn(q) /\ Head(q).op = "write" => NoWriteIn(Tail(q))
    /\ WrittenIn(Tail(q)) => WrittenIn(q)
    /\ Head(q).op = "write" => ~NoWriteIn(q)
    /\ Head(q).op = "write" /\ Head(q).ok => WrittenIn(q)
<1> SUFFICES ASSUME NEW q \in Seq(Completion), q # <<>>
             PROVE  /\ NoWriteIn(q) => NoWriteIn(Tail(q))
                    /\ OneWriteIn(q) => OneWriteIn(Tail(q))
                    /\ OneWriteIn(q) /\ Head(q).op = "write" => NoWriteIn(Tail(q))
                    /\ WrittenIn(Tail(q)) => WrittenIn(q)
                    /\ Head(q).op = "write" => ~NoWriteIn(q)
                    /\ Head(q).op = "write" /\ Head(q).ok => WrittenIn(q)
  OBVIOUS
<1> DEFINE s == Tail(q)
<1>1. /\ 1 \in DOMAIN q /\ Head(q) = q[1] /\ DOMAIN s = 1..Len(q) - 1 /\ Len(q) \in Nat
      /\ \A i \in DOMAIN s : i + 1 \in DOMAIN q /\ s[i] = q[i + 1]
  BY QueuePopped
<1> HIDE DEF s
<1>2. NoWriteIn(q) => NoWriteIn(s)
  BY <1>1 DEF NoWriteIn
<1>3. WrittenIn(s) => WrittenIn(q)
  BY <1>1 DEF WrittenIn
<1>4. /\ Head(q).op = "write" => ~NoWriteIn(q)
      /\ Head(q).op = "write" /\ Head(q).ok => WrittenIn(q)
  BY <1>1 DEF NoWriteIn, WrittenIn
<1>5. ASSUME OneWriteIn(q) PROVE OneWriteIn(s)
  <2> SUFFICES ASSUME NEW i \in DOMAIN s, NEW j \in DOMAIN s, s[i].op = "write", s[j].op = "write"
               PROVE  i = j
    BY DEF OneWriteIn
  <2>1. i + 1 = j + 1
    BY <1>1, <1>5 DEF OneWriteIn
  <2>2. i \in Int /\ j \in Int
    BY <1>1
  <2> QED
    BY <2>1, <2>2
<1>6. ASSUME OneWriteIn(q), Head(q).op = "write" PROVE NoWriteIn(s)
  <2> SUFFICES ASSUME NEW i \in DOMAIN s, s[i].op = "write" PROVE FALSE
    BY DEF NoWriteIn
  <2>1. i + 1 = 1
    BY <1>1, <1>6 DEF OneWriteIn
  <2>2. i \in 1..Len(q) - 1
    BY <1>1
  <2> QED
    BY <2>1, <2>2
<1> QED
  BY <1>2, <1>3, <1>4, <1>5, <1>6 DEF s

\* ... or gets one handler, ...
LEMMA WritesOfDone ==
  /\ NoWriteIn(<<>>)
  /\ \A op \in {"connect", "close", "read", "write"} : \A ok \in BOOLEAN :
       /\ Done(op, ok) \in Seq(Completion)
       /\ op # "write" => NoWriteIn(Done(op, ok)) /\ ~WrittenIn(Done(op, ok))
       /\ OneWriteIn(Done(op, ok)) /\ (~ok => ~WrittenIn(Done(op, ok)))
<1>1. NoWriteIn(<<>>)
  BY DEF NoWriteIn
<1> SUFFICES ASSUME NEW op \in {"connect", "close", "read", "write"}, NEW ok \in BOOLEAN
             PROVE  /\ Done(op, ok) \in Seq(Completion)
                    /\ op # "write" => NoWriteIn(Done(op, ok)) /\ ~WrittenIn(Done(op, ok))
                    /\ OneWriteIn(Done(op, ok)) /\ (~ok => ~WrittenIn(Done(op, ok)))
  BY <1>1
<1> DEFINE d == Done(op, ok)
<1>2. d \in Seq(Completion) /\ DOMAIN d = 1..1 /\ d[1].op = op /\ d[1].ok = ok
  BY DoneIsQueued
<1> HIDE DEF d
<1>3. \A i \in DOMAIN d : i = 1
  BY <1>2
<1>4. NoWriteIn(d) \/ op = "write"
  BY <1>2, <1>3 DEF NoWriteIn
<1>5. OneWriteIn(d)
  BY <1>3 DEF OneWriteIn
<1>6. WrittenIn(d) => op = "write" /\ ok
  BY <1>2, <1>3 DEF WrittenIn
<1> QED
  BY <1>2, <1>4, <1>5, <1>6 DEF d

\* ... or those of a socket that is closed, ...
LEMMA WritesOfAborted ==
  ASSUME reads \in Nat
  PROVE  /\ Aborted \in Seq(Completion) /\ OneWriteIn(Aborted) /\ ~WrittenIn(Aborted)
         /\ write_op.pc # "writing" => NoWriteIn(Aborted)
<1>1. /\ \A i \in DOMAIN Aborted : ~Aborted[i].ok
      /\ \A i, j \in DOMAIN Aborted : Aborted[i].op = "write" /\ Aborted[j].op = "write" => i = j
      /\ \A i \in DOMAIN Aborted : Aborted[i].op = "write" => write_op.pc = "writing"
      /\ Aborted \in Seq(Completion)
  BY AbortedIsQueued
<1> QED
  BY <1>1, Zenon DEF OneWriteIn, WrittenIn, NoWriteIn

\* ... or that of a read.
LEMMA WritesOfRead ==
  \A q \in Seq(Completion) : \A k \in Nat :
    LET s == Append(q, [op |-> "read", ok |-> TRUE, length |-> k])
    IN  /\ NoWriteIn(q) => NoWriteIn(s)
        /\ OneWriteIn(q) => OneWriteIn(s)
        /\ WrittenIn(s) => WrittenIn(q)
<1> TAKE q \in Seq(Completion)
<1> TAKE k \in Nat
<1> DEFINE c == [op |-> "read", ok |-> TRUE, length |-> k]
           s == Append(q, c)
<1>1. c \in Completion /\ c.op = "read"
  BY DEF Completion
<1> HIDE DEF c
<1>2. /\ Len(q) \in Nat /\ DOMAIN s = 1..Len(q) + 1 /\ DOMAIN q = 1..Len(q) /\ s[Len(q) + 1] = c
      /\ \A i \in 1..Len(q) : s[i] = q[i]
  <2>1. s \in Seq(Completion) /\ Len(s) = Len(q) + 1
    BY <1>1, AppendProperties
  <2> QED
    BY <1>1, <2>1, AppendProperties, LenProperties
<1> HIDE DEF s
<1>3. \A i \in DOMAIN s : (i \in DOMAIN q /\ s[i] = q[i]) \/ s[i].op = "read"
  BY <1>1, <1>2
<1>4. /\ NoWriteIn(q) => NoWriteIn(s)
      /\ OneWriteIn(q) => OneWriteIn(s)
      /\ WrittenIn(s) => WrittenIn(q)
  BY <1>3 DEF NoWriteIn, OneWriteIn, WrittenIn
<1> QED
  BY <1>4 DEF s, c

\* A write is started, or not, when none was reported and none is under way.
LEMMA AsyncWriteReports ==
  ASSUME NEW q \in Seq(Completion), NoWriteIn(q), NEW buffer, AsyncWrite(buffer, q)
  PROVE  WriteInv'
<1>1. /\ completions' = q \o (IF m_socket = "open" THEN <<>> ELSE Done("write", FALSE))
      /\ write_op'.pc = IF m_socket = "open" THEN "writing" ELSE "over"
  BY DEF AsyncWrite
<1> DEFINE r == IF m_socket = "open" THEN <<>> ELSE Done("write", FALSE)
<1>2. /\ r \in Seq(Completion) /\ OneWriteIn(r) /\ ~WrittenIn(r)
      /\ NoWriteIn(r) \/ write_op'.pc = "over"
  <2>1. CASE m_socket = "open"
    <3>1. r = <<>> /\ <<>> \in Seq(Completion) /\ NoWriteIn(<<>>)
      BY <2>1, WritesOfDone
    <3> QED
      BY <3>1 DEF NoWriteIn, OneWriteIn, WrittenIn
  <2>2. CASE m_socket # "open"
    BY <1>1, <2>2, WritesOfDone
  <2> QED
    BY <2>1, <2>2
<1>3. completions' = q \o r
  BY <1>1
<1> HIDE DEF r
<1>4. OneWriteIn(q \o r) /\ ~WrittenIn(q \o r) /\ (NoWriteIn(q \o r) \/ write_op'.pc = "over")
  <2>1. ~WrittenIn(q)
    BY DEF NoWriteIn, WrittenIn
  <2> QED
    BY <1>2, <2>1, JoinedWrites
<1> QED
  BY <1>3, <1>4 DEF WriteInv

\* Closing the socket reports the write in progress as failed, and no other.
LEMMA CloseReports ==
  ASSUME TypeInv, WriteInv, CloseSocket(completions) \/ (completions # <<>> /\ CloseSocket(Tail(completions)))
  PROVE  WriteInv'
<1>1. PICK q \in Seq(Completion) :
        /\ CloseSocket(q)
        /\ OneWriteIn(q) /\ (NoWriteIn(q) \/ write_op.pc = "over") /\ (WrittenIn(q) => write_op.done = write_op.n)
  <2>1. completions \in Seq(Completion) /\ (completions # <<>> => Tail(completions) \in Seq(Completion))
    BY QueuePopped DEF TypeInv, QueueType
  <2>2. CASE CloseSocket(completions)
    BY <2>1, <2>2 DEF WriteInv
  <2>3. CASE completions # <<>> /\ CloseSocket(Tail(completions))
    BY <2>1, <2>3, PoppedWrites DEF WriteInv
  <2> QED
    BY <2>2, <2>3
<1>2. completions' = q \o Aborted /\ write_op' = [write_op EXCEPT !.pc = IF @ = "writing" THEN "over" ELSE @]
  BY <1>1 DEF CloseSocket
<1>3. write_op \in [pc : {"none", "writing", "over"}, n : Nat, done : Nat, moved : BOOLEAN]
  BY DEF TypeInv, BufferInv
<1>4. /\ write_op'.pc = IF write_op.pc = "writing" THEN "over" ELSE write_op.pc
      /\ write_op'.done = write_op.done /\ write_op'.n = write_op.n
  BY <1>2, <1>3
<1>5. /\ Aborted \in Seq(Completion) /\ OneWriteIn(Aborted) /\ ~WrittenIn(Aborted)
      /\ write_op.pc # "writing" => NoWriteIn(Aborted)
  BY WritesOfAborted DEF TypeInv, QueueType
<1>6. /\ OneWriteIn(q \o Aborted) /\ (WrittenIn(q \o Aborted) => WrittenIn(q))
      /\ NoWriteIn(q) /\ NoWriteIn(Aborted) => NoWriteIn(q \o Aborted)
  <2>1. CASE write_op.pc = "writing"
    BY <1>1, <1>5, <2>1, JoinedWrites
  <2>2. CASE write_op.pc # "writing"
    BY <1>1, <1>5, <2>2, JoinedWrites
  <2> QED
    BY <2>1, <2>2
<1>7. NoWriteIn(q \o Aborted) \/ write_op'.pc = "over"
  BY <1>1, <1>4, <1>5, <1>6
<1> QED
  BY <1>1, <1>2, <1>4, <1>6, <1>7 DEF WriteInv

\* At most one write is queued; a success means that all of it was written.
LEMMA WriteReported == TypeInv /\ WriteInv /\ [ClientNext]_vars => WriteInv'
<1> SUFFICES ASSUME TypeInv, WriteInv, [ClientNext]_vars PROVE WriteInv'
  OBVIOUS
<1> USE DEF clientVars, linkVars, opVars, bufVars, ownerVars, sendVars, netVars, Notify,
            StartDisconnection
<1>11. /\ completions \in Seq(Completion) /\ <<>> \in Seq(Completion)
       /\ completions # <<>> => Tail(completions) \in Seq(Completion)
       /\ write_op \in [pc : {"none", "writing", "over"}, n : Nat, done : Nat, moved : BOOLEAN]
  BY QueuePopped DEF TypeInv, QueueType, BufferInv
<1>12. ASSUME NEW q \in {completions} \cup (IF completions = <<>> THEN {} ELSE {Tail(completions)}),
              \/ completions' = q \/ completions' = q \o <<>>
              \/ \E op \in {"connect", "close", "read"} : \E ok \in BOOLEAN : completions' = q \o Done(op, ok),
              write_op'.pc = write_op.pc, write_op'.n = write_op.n, write_op'.done = write_op.done
       PROVE  WriteInv'
  <2>1. /\ q \in Seq(Completion) /\ OneWriteIn(q) /\ (NoWriteIn(completions) => NoWriteIn(q))
        /\ WrittenIn(q) => WrittenIn(completions)
    BY <1>11, PoppedWrites DEF WriteInv
  <2>2. ASSUME NEW r \in Seq(Completion), NoWriteIn(r), completions' = q \o r PROVE WriteInv'
    <3>1. ~WrittenIn(r)
      BY <2>2 DEF NoWriteIn, WrittenIn
    <3>2. /\ OneWriteIn(q \o r) /\ (NoWriteIn(q) => NoWriteIn(q \o r))
          /\ WrittenIn(q \o r) => WrittenIn(q)
      BY <2>1, <2>2, <3>1, JoinedWrites
    <3> QED
      BY <1>12, <2>1, <2>2, <3>2 DEF WriteInv
  <2>3. CASE completions' = q
    BY <1>12, <2>1, <2>3 DEF WriteInv
  <2>4. CASE completions' = q \o <<>>
    BY <1>11, <2>2, <2>4, WritesOfDone
  <2>5. ASSUME NEW op \in {"connect", "close", "read"}, NEW ok \in BOOLEAN, completions' = q \o Done(op, ok)
        PROVE  WriteInv'
    <3>1. Done(op, ok) \in Seq(Completion) /\ NoWriteIn(Done(op, ok))
      BY WritesOfDone
    <3> QED
      BY <2>2, <2>5, <3>1
  <2> QED
    BY <1>12, <2>3, <2>4, <2>5
<1>13. ASSUME write_op' = write_op,
              \/ completions' = completions
              \/ \E op \in {"connect", "close", "read"} : \E ok \in BOOLEAN : completions' = completions \o Done(op, ok)
       PROVE  WriteInv'
  BY <1>12, <1>13
<1>14. ASSUME write_op' = write_op, completions # <<>>,
              \/ completions' = Tail(completions)
              \/ \E op \in {"connect", "close", "read"} : \E ok \in BOOLEAN : completions' = Tail(completions) \o Done(op, ok)
       PROVE  WriteInv'
  <2>1. Tail(completions) \in {completions} \cup (IF completions = <<>> THEN {} ELSE {Tail(completions)})
    BY <1>14
  <2> QED
    BY <1>12, <1>14, <2>1
<1>1. CASE UNCHANGED vars
  BY <1>1, <1>13, Zenon DEF vars, tcpVars
<1>2. CASE (Connect \/ Disconnect \/ TestNotified \/ StartWaiting \/ WakesSpuriously) /\ UNCHANGED clientVars
  <2>1. UNCHANGED write_op
    BY <1>2, Zenon DEF Connect, Disconnect, TestNotified, StartWaiting, WakesSpuriously
  <2>2. \/ completions' = completions \/ completions' = completions \o Done("connect", FALSE)
        \/ completions' = completions \o Done("close", TRUE)
    BY <1>2, Zenon DEF Connect, Disconnect, TestNotified, StartWaiting, WakesSpuriously
  <2> QED
    BY <1>13, <2>1, <2>2
<1>3. CASE (ConnectCompletes \/ SocketWrites \/ WriteFails) /\ UNCHANGED clientVars
  <2>1. CASE ConnectCompletes
    <3>1. \/ completions' = completions \o Done("connect", TRUE) /\ UNCHANGED write_op
          \/ CloseSocket(completions)
      BY <2>1, Zenon DEF ConnectCompletes
    <3> QED
      BY <1>13, <3>1, CloseReports
  <2>2. CASE SocketWrites \/ WriteFails
    <3>1. write_op.pc = "writing" /\ NoWriteIn(completions)
      BY <2>2 DEF SocketWrites, WriteFails, WriteInv
    <3>2. \/ completions' = completions
          \/ /\ completions' = completions \o Done("write", FALSE)
             /\ write_op' = [write_op EXCEPT !.pc = "over"]
          \/ /\ completions' = completions \o Done("write", TRUE)
             /\ write_op.done + 1 = write_op.n
             /\ write_op' = [write_op EXCEPT !.done = @ + 1, !.pc = "over"]
      BY <2>2, Zenon DEF SocketWrites, WriteFails
    <3>3. ~WrittenIn(completions)
      BY <3>1 DEF NoWriteIn, WrittenIn
    <3>4. CASE completions' = completions
      BY <3>1, <3>3, <3>4 DEF WriteInv
    <3>5. CASE completions' = completions \o Done("write", FALSE) /\ write_op' = [write_op EXCEPT !.pc = "over"]
      <4>1. write_op'.pc = "over"
        BY <1>11, <3>5
      <4>2. OneWriteIn(completions') /\ ~WrittenIn(completions')
        BY <1>11, <3>1, <3>3, <3>5, JoinedWrites, WritesOfDone
      <4> QED
        BY <4>1, <4>2 DEF WriteInv
    <3>6. CASE /\ completions' = completions \o Done("write", TRUE)
               /\ write_op.done + 1 = write_op.n
               /\ write_op' = [write_op EXCEPT !.done = @ + 1, !.pc = "over"]
      <4>1. write_op'.pc = "over" /\ write_op'.done = write_op.done + 1 /\ write_op'.n = write_op.n
        BY <1>11, <3>6
      <4>2. OneWriteIn(completions')
        BY <1>11, <3>1, <3>3, <3>6, JoinedWrites, WritesOfDone
      <4> QED
        BY <3>6, <4>1, <4>2 DEF WriteInv
    <3> QED
      BY <3>2, <3>4, <3>5, <3>6
  <2> QED
    BY <1>3, <2>1, <2>2
<1>4. CASE (SocketReads \/ SocketReadFails \/ ServerCloses) /\ UNCHANGED clientVars
  <2>1. CASE SocketReads
    <3>1. PICK k \in 1..Len(inbox) : completions' = Append(completions, [op |-> "read", ok |-> TRUE, length |-> k])
      BY <2>1 DEF SocketReads
    <3>2. k \in Nat /\ UNCHANGED write_op
      BY <2>1 DEF SocketReads
    <3>3. /\ NoWriteIn(completions) => NoWriteIn(completions')
          /\ OneWriteIn(completions) => OneWriteIn(completions')
          /\ WrittenIn(completions') => WrittenIn(completions)
      BY <1>11, <3>1, <3>2, WritesOfRead
    <3> QED
      BY <3>2, <3>3 DEF WriteInv
  <2>2. CASE SocketReadFails \/ ServerCloses
    BY <1>13, <2>2, Zenon DEF SocketReadFails, ServerCloses
  <2> QED
    BY <1>4, <2>1, <2>2
<1>5. CASE ClientConnected
  <2>1. /\ completions # <<>> /\ UNCHANGED write_op
        /\ completions' \in {Tail(completions), Tail(completions) \o Done("read", FALSE)}
    BY <1>5, Zenon DEF ClientConnected, HandleConnect, AsyncRead, Runs
  <2> QED
    BY <1>14, <2>1
<1>6. CASE FeedBuilder \/ Decode \/ HandOver \/ Received
  <2>1. CASE FeedBuilder
    BY <1>14, <2>1, Zenon DEF FeedBuilder, HandleRead, Runs
  <2>2. CASE Decode \/ HandOver
    BY <1>13, <2>2, Zenon DEF Decode, HandOver, tcpVars
  <2>3. CASE Received
    BY <1>13, <2>3, Zenon DEF Received, ReceiveReturns, AsyncRead
  <2> QED
    BY <1>6, <2>1, <2>2, <2>3
<1>7. CASE SocketClosed \/ ClearCallbacks
  <2>1. CASE SocketClosed
    BY <2>1, CloseReports, Zenon DEF SocketClosed, HandleClose, Disconnection, Runs
  <2>2. CASE ClearCallbacks
    BY <1>13, <2>2, Zenon DEF ClearCallbacks, CallDisconnectionHandler
  <2> QED
    BY <1>7, <2>1, <2>2
<1>8. CASE HandleWrite /\ UNCHANGED clientVars
  <2>1. completions # <<>> /\ Head(completions).op = "write"
    BY <1>8 DEF HandleWrite, Runs
  <2>2. Tail(completions) \in Seq(Completion) /\ NoWriteIn(Tail(completions))
    BY <1>11, <2>1, PoppedWrites DEF WriteInv
  <2>3. \/ completions' = Tail(completions)
        \/ \E buffer \in {m_write_buffer'} : AsyncWrite(buffer, Tail(completions))
    BY <1>8 DEF HandleWrite, WriteNext
  <2>4. CASE completions' = Tail(completions)
    BY <2>2, <2>4 DEF WriteInv, NoWriteIn, OneWriteIn, WrittenIn
  <2> QED
    BY <2>2, <2>3, <2>4, AsyncWriteReports
<1>9. CASE RedisAnswers
  BY <1>9, <1>13, Zenon DEF RedisAnswers, ServerAnswers
<1>10. ASSUME NEW s \in Senders, LockAndCheck(s) \/ SendCommand(s) \/ PushCallback(s)
       PROVE  WriteInv'
  <2>1. CASE LockAndCheck(s) \/ PushCallback(s)
    BY <1>13, <2>1, Zenon DEF LockAndCheck, PushCallback, SendChecks
  <2>2. CASE SendCommand(s)
    <3>1. CASE m_write_buffer # <<>>
      <4>1. PICK moved \in {write_op.moved, write_op.pc = "writing"} :
               write_op' = [write_op EXCEPT !.moved = @ \/ moved]
        BY <2>2, <3>1 DEF SendCommand, SendAppends
      <4>2. /\ write_op'.pc = write_op.pc /\ write_op'.n = write_op.n /\ write_op'.done = write_op.done
            /\ completions' = completions
        <5>1. completions' = completions
          BY <2>2, <3>1 DEF SendCommand, SendAppends
        <5> QED
          BY <1>11, <4>1, <5>1
      <4> QED
        BY <1>12, <4>2
    <3>2. CASE m_write_buffer = <<>>
      <4>1. AsyncWrite(m_write_buffer', completions)
        BY <2>2, <3>2 DEF SendCommand, SendAppends
      <4>2. write_op.pc = "none"
        BY <3>2, EmptySeq DEF TypeInv, BufferInv, WritesStayInBuffer
      <4>3. NoWriteIn(completions)
        BY <4>2 DEF WriteInv
      <4> QED
        BY <1>11, <4>1, <4>3, AsyncWriteReports
    <3> QED
      BY <3>1, <3>2
  <2> QED
    BY <1>10, <2>1, <2>2
<1> QED
  BY <1>1, <1>2, <1>3, <1>4, <1>5, <1>6, <1>7, <1>8, <1>9, <1>10, ClientSteps

-----------------------------------------------------------------------------
(* The reads that brought bytes, and the connections that were made.       *)

NoBytesIn(q) == \A i \in DOMAIN q : ~(q[i].op = "read" /\ q[i].ok)
BytesIn(q, n) ==
  \A i, j \in DOMAIN q : q[i].op = "read" /\ q[i].ok /\ q[j].op = "read" /\ q[j].ok => i = j /\ q[i].length = n

NoConnectIn(q) == \A i \in DOMAIN q : ~(q[i].op = "connect" /\ q[i].ok)
ConnectsBeforeWrites(q) ==
  \A i, j \in DOMAIN q : q[i].op = "connect" /\ q[i].ok /\ q[j].op = "write" => i < j

\* Read and connect completions in a queue that is joined, ...
LEMMA JoinedReads ==
  \A q, r \in Seq(Completion) :
    /\ NoBytesIn(r) => /\ NoBytesIn(q \o r) <=> NoBytesIn(q)
                       /\ \A n \in Nat : BytesIn(q, n) => BytesIn(q \o r, n)
    /\ NoConnectIn(r) => /\ NoConnectIn(q) => NoConnectIn(q \o r)
                         /\ ConnectsBeforeWrites(q) => ConnectsBeforeWrites(q \o r)
<1> SUFFICES ASSUME NEW q \in Seq(Completion), NEW r \in Seq(Completion)
             PROVE  /\ NoBytesIn(r) => /\ NoBytesIn(q \o r) <=> NoBytesIn(q)
                                       /\ \A n \in Nat : BytesIn(q, n) => BytesIn(q \o r, n)
                    /\ NoConnectIn(r) => /\ NoConnectIn(q) => NoConnectIn(q \o r)
                                         /\ ConnectsBeforeWrites(q) => ConnectsBeforeWrites(q \o r)
  OBVIOUS
<1> DEFINE s == q \o r
           l == Len(q)
<1>1. l \in Nat /\ Len(r) \in Nat /\ DOMAIN q = 1..l /\ DOMAIN r = 1..Len(r) /\ DOMAIN s = 1..l + Len(r)
  BY QueueJoined
<1>2. ASSUME NEW i \in DOMAIN s
      PROVE  \/ i \in DOMAIN q /\ s[i] = q[i]
             \/ i - l \in DOMAIN r /\ s[i] = r[i - l] /\ i > l
  <2>1. i \in DOMAIN q \/ i - l \in DOMAIN r
    BY QueueJoined
  <2>2. i \in DOMAIN q => s[i] = q[i]
    BY QueueJoined
  <2>3. i - l \in DOMAIN r => s[l + (i - l)] = r[i - l]
    BY QueueJoined
  <2>4. l + (i - l) = i /\ (i - l \in DOMAIN r => i > l)
    BY <1>1
  <2> QED
    BY <2>1, <2>2, <2>3, <2>4
<1>3. \A i \in DOMAIN q : i \in DOMAIN s /\ s[i] = q[i]
  BY QueueJoined
<1> HIDE DEF s, l
<1>4. ASSUME NoBytesIn(r) PROVE NoBytesIn(s) <=> NoBytesIn(q)
  <2>1. NoBytesIn(q) => NoBytesIn(s)
    BY <1>2, <1>4 DEF NoBytesIn
  <2>2. NoBytesIn(s) => NoBytesIn(q)
    BY <1>3 DEF NoBytesIn
  <2> QED
    BY <2>1, <2>2
<1>5. ASSUME NoBytesIn(r), NEW n \in Nat, BytesIn(q, n) PROVE BytesIn(s, n)
  <2> SUFFICES ASSUME NEW i \in DOMAIN s, NEW j \in DOMAIN s,
                      s[i].op = "read" /\ s[i].ok, s[j].op = "read" /\ s[j].ok
               PROVE  i = j /\ s[i].length = n
    BY DEF BytesIn
  <2>1. i \in DOMAIN q /\ s[i] = q[i] /\ j \in DOMAIN q /\ s[j] = q[j]
    BY <1>2, <1>5 DEF NoBytesIn
  <2> QED
    BY <1>5, <2>1 DEF BytesIn
<1>6. ASSUME NoConnectIn(r), NoConnectIn(q) PROVE NoConnectIn(s)
  BY <1>2, <1>6 DEF NoConnectIn
<1>7. ASSUME NoConnectIn(r), ConnectsBeforeWrites(q) PROVE ConnectsBeforeWrites(s)
  <2> SUFFICES ASSUME NEW i \in DOMAIN s, NEW j \in DOMAIN s,
                      s[i].op = "connect" /\ s[i].ok, s[j].op = "write"
               PROVE  i < j
    BY DEF ConnectsBeforeWrites
  <2>1. i \in DOMAIN q /\ s[i] = q[i]
    BY <1>2, <1>7 DEF NoConnectIn
  <2>2. CASE j \in DOMAIN q /\ s[j] = q[j]
    BY <1>7, <2>1, <2>2 DEF ConnectsBeforeWrites
  <2>3. CASE j > l
    BY <1>1, <2>1, <2>3
  <2> QED
    BY <1>2, <2>2, <2>3
<1> QED
  BY <1>4, <1>5, <1>6, <1>7 DEF s

\* ... or loses its head, ...
LEMMA PoppedReads ==
  \A q \in Seq(Completion) : q # <<>> =>
    /\ ~(Head(q).op = "read" /\ Head(q).ok) => (NoBytesIn(Tail(q)) <=> NoBytesIn(q))
    /\ \A n \in Nat : BytesIn(q, n) =>
         /\ BytesIn(Tail(q), n)
         /\ Head(q).op = "read" /\ Head(q).ok => NoBytesIn(Tail(q)) /\ Head(q).length = n
    /\ NoConnectIn(q) => NoConnectIn(Tail(q)) /\ ~(Head(q).op = "connect" /\ Head(q).ok)
    /\ ConnectsBeforeWrites(q) =>
         /\ ConnectsBeforeWrites(Tail(q))
         /\ Head(q).op = "write" => NoConnectIn(Tail(q))
<1> SUFFICES ASSUME NEW q \in Seq(Completion), q # <<>>
             PROVE  /\ ~(Head(q).op = "read" /\ Head(q).ok) => (NoBytesIn(Tail(q)) <=> NoBytesIn(q))
                    /\ \A n \in Nat : BytesIn(q, n) =>
                         /\ BytesIn(Tail(q), n)
                         /\ Head(q).op = "read" /\ Head(q).ok => NoBytesIn(Tail(q)) /\ Head(q).length = n
                    /\ NoConnectIn(q) => NoConnectIn(Tail(q)) /\ ~(Head(q).op = "connect" /\ Head(q).ok)
                    /\ ConnectsBeforeWrites(q) =>
                         /\ ConnectsBeforeWrites(Tail(q))
                         /\ Head(q).op = "write" => NoConnectIn(Tail(q))
  OBVIOUS
<1> DEFINE s == Tail(q)
<1>1. /\ 1 \in DOMAIN q /\ Head(q) = q[1] /\ DOMAIN s = 1..Len(q) - 1 /\ Len(q) \in Nat /\ DOMAIN q = 1..Len(q)
      /\ \A i \in DOMAIN s : i + 1 \in DOMAIN q /\ s[i] = q[i + 1]
      /\ \A i \in DOMAIN q : i = 1 \/ (i - 1 \in DOMAIN s /\ s[i - 1] = q[i])
  BY QueuePopped
<1> HIDE DEF s
<1>2. ASSUME ~(Head(q).op = "read" /\ Head(q).ok) PROVE NoBytesIn(s) <=> NoBytesIn(q)
  <2>1. NoBytesIn(q) => NoBytesIn(s)
    BY <1>1 DEF NoBytesIn
  <2>2. NoBytesIn(s) => NoBytesIn(q)
    BY <1>1, <1>2 DEF NoBytesIn
  <2> QED
    BY <2>1, <2>2
<1>3. ASSUME NEW n \in Nat, BytesIn(q, n) PROVE BytesIn(s, n)
  <2> SUFFICES ASSUME NEW i \in DOMAIN s, NEW j \in DOMAIN s,
                      s[i].op = "read" /\ s[i].ok, s[j].op = "read" /\ s[j].ok
               PROVE  i = j /\ s[i].length = n
    BY DEF BytesIn
  <2>1. i + 1 = j + 1 /\ q[i + 1].length = n /\ s[i] = q[i + 1]
    BY <1>1, <1>3 DEF BytesIn
  <2>2. i \in Int /\ j \in Int
    BY <1>1
  <2> QED
    BY <2>1, <2>2
<1>4. ASSUME NEW n \in Nat, BytesIn(q, n), Head(q).op = "read", Head(q).ok
      PROVE  NoBytesIn(s) /\ Head(q).length = n
  <2>1. Head(q).length = n
    BY <1>1, <1>4 DEF BytesIn
  <2>2. ASSUME NEW i \in DOMAIN s, s[i].op = "read", s[i].ok PROVE FALSE
    <3>1. i + 1 = 1
      BY <1>1, <1>4, <2>2 DEF BytesIn
    <3>2. i \in 1..Len(q) - 1
      BY <1>1
    <3> QED
      BY <3>1, <3>2
  <2> QED
    BY <2>1, <2>2 DEF NoBytesIn
<1>5. NoConnectIn(q) => NoConnectIn(s) /\ ~(Head(q).op = "connect" /\ Head(q).ok)
  BY <1>1 DEF NoConnectIn
<1>6. ASSUME ConnectsBeforeWrites(q) PROVE ConnectsBeforeWrites(s)
  <2> SUFFICES ASSUME NEW i \in DOMAIN s, NEW j \in DOMAIN s,
                      s[i].op = "connect" /\ s[i].ok, s[j].op = "write"
               PROVE  i < j
    BY DEF ConnectsBeforeWrites
  <2>1. i + 1 < j + 1
    BY <1>1, <1>6 DEF ConnectsBeforeWrites
  <2>2. i \in Int /\ j \in Int
    BY <1>1
  <2> QED
    BY <2>1, <2>2
<1>7. ASSUME ConnectsBeforeWrites(q), Head(q).op = "write" PROVE NoConnectIn(s)
  <2> SUFFICES ASSUME NEW i \in DOMAIN s, s[i].op = "connect" /\ s[i].ok PROVE FALSE
    BY DEF NoConnectIn
  <2>1. i + 1 < 1
    BY <1>1, <1>7 DEF ConnectsBeforeWrites
  <2>2. i \in 1..Len(q) - 1
    BY <1>1
  <2> QED
    BY <2>1, <2>2
<1> QED
  BY <1>2, <1>3, <1>4, <1>5, <1>6, <1>7 DEF s

\* ... or gets one handler, ...
LEMMA ReadsOfDone ==
  /\ NoBytesIn(<<>>) /\ NoConnectIn(<<>>)
  /\ \A op \in {"connect", "close", "read", "write"} : \A ok \in BOOLEAN :
       /\ op # "read" \/ ~ok => NoBytesIn(Done(op, ok))
       /\ op # "connect" \/ ~ok => NoConnectIn(Done(op, ok))
<1>1. NoBytesIn(<<>>) /\ NoConnectIn(<<>>)
  BY DEF NoBytesIn, NoConnectIn
<1> SUFFICES ASSUME NEW op \in {"connect", "close", "read", "write"}, NEW ok \in BOOLEAN
             PROVE  /\ op # "read" \/ ~ok => NoBytesIn(Done(op, ok))
                    /\ op # "connect" \/ ~ok => NoConnectIn(Done(op, ok))
  BY <1>1
<1> DEFINE d == Done(op, ok)
<1>2. DOMAIN d = 1..1 /\ d[1].op = op /\ d[1].ok = ok
  BY DoneIsQueued
<1> HIDE DEF d
<1>3. \A i \in DOMAIN d : i = 1
  BY <1>2
<1>4. op # "read" \/ ~ok => NoBytesIn(d)
  BY <1>2, <1>3 DEF NoBytesIn
<1>5. op # "connect" \/ ~ok => NoConnectIn(d)
  BY <1>2, <1>3 DEF NoConnectIn
<1> QED
  BY <1>4, <1>5 DEF d

\* ... or that of a read, ...
LEMMA ReadsOfRead ==
  \A q \in Seq(Completion) : \A k \in Nat :
    LET s == Append(q, [op |-> "read", ok |-> TRUE, length |-> k])
    IN  /\ ~NoBytesIn(s)
        /\ NoBytesIn(q) => BytesIn(s, k)
        /\ NoConnectIn(q) => NoConnectIn(s)
        /\ ConnectsBeforeWrites(q) => ConnectsBeforeWrites(s)
<1> TAKE q \in Seq(Completion)
<1> TAKE k \in Nat
<1> DEFINE c == [op |-> "read", ok |-> TRUE, length |-> k]
           s == Append(q, c)
<1>1. c \in Completion /\ c.op = "read" /\ c.ok /\ c.length = k
  BY DEF Completion
<1> HIDE DEF c
<1>2. /\ Len(q) \in Nat /\ DOMAIN s = 1..Len(q) + 1 /\ DOMAIN q = 1..Len(q) /\ s[Len(q) + 1] = c
      /\ \A i \in 1..Len(q) : s[i] = q[i]
  <2>1. s \in Seq(Completion) /\ Len(s) = Len(q) + 1
    BY <1>1, AppendProperties
  <2> QED
    BY <1>1, <2>1, AppendProperties, LenProperties
<1> HIDE DEF s
<1>3. \A i \in DOMAIN s : (i \in DOMAIN q /\ s[i] = q[i]) \/ (s[i] = c /\ i = Len(q) + 1)
  BY <1>1, <1>2
<1>4. /\ NoConnectIn(q) => NoConnectIn(s)
      /\ ConnectsBeforeWrites(q) => ConnectsBeforeWrites(s)
  BY <1>1, <1>3 DEF NoConnectIn, ConnectsBeforeWrites
<1>5. ~NoBytesIn(s)
  <2>1. Len(q) + 1 \in DOMAIN s
    BY <1>2
  <2> QED
    BY <1>1, <1>2, <2>1 DEF NoBytesIn
<1>6. ASSUME NoBytesIn(q) PROVE BytesIn(s, k)
  <2> SUFFICES ASSUME NEW i \in DOMAIN s, NEW j \in DOMAIN s,
                      s[i].op = "read" /\ s[i].ok, s[j].op = "read" /\ s[j].ok
               PROVE  i = j /\ s[i].length = k
    BY DEF BytesIn
  <2>1. i = Len(q) + 1 /\ j = Len(q) + 1 /\ s[i] = c
    BY <1>3, <1>6 DEF NoBytesIn
  <2> QED
    BY <1>1, <2>1
<1> QED
  BY <1>4, <1>5, <1>6 DEF s, c

\* ... or those of a socket that is closed.
LEMMA ReadsOfAborted ==
  reads \in Nat => Aborted \in Seq(Completion) /\ NoBytesIn(Aborted) /\ NoConnectIn(Aborted)
<1> SUFFICES ASSUME reads \in Nat
             PROVE  Aborted \in Seq(Completion) /\ NoBytesIn(Aborted) /\ NoConnectIn(Aborted)
  OBVIOUS
<1>1. Aborted \in Seq(Completion) /\ \A i \in DOMAIN Aborted : ~Aborted[i].ok
  BY AbortedIsQueued
<1> QED
  BY <1>1, Zenon DEF NoBytesIn, NoConnectIn

\* A queue that comes of the present one without a read that brought bytes, or
\* without a new connection.
KeepsBytes(q) ==
  /\ NoBytesIn(q) <=> NoBytesIn(completions)
  /\ \A n \in Nat : BytesIn(completions, n) => BytesIn(q, n)

KeepsConnects(q) ==
  /\ NoConnectIn(completions) => NoConnectIn(q)
  /\ ConnectsBeforeWrites(completions) => ConnectsBeforeWrites(q)

LEMMA QueueKept ==
  ASSUME TypeInv,
         NEW q \in {completions} \cup (IF completions = <<>> THEN {} ELSE {Tail(completions)})
  PROVE  /\ KeepsConnects(q) /\ KeepsConnects(q \o <<>>) /\ KeepsConnects(q \o Aborted)
         /\ \A op \in {"connect", "close", "read", "write"} : \A ok \in BOOLEAN :
              op # "connect" \/ ~ok => KeepsConnects(q \o Done(op, ok))
         /\ q = completions \/ Head(completions).op # "read" \/ ~Head(completions).ok =>
              /\ KeepsBytes(q) /\ KeepsBytes(q \o <<>>) /\ KeepsBytes(q \o Aborted)
              /\ \A op \in {"connect", "close", "read", "write"} : \A ok \in BOOLEAN :
                   op # "read" \/ ~ok => KeepsBytes(q \o Done(op, ok))
<1>1. /\ completions \in Seq(Completion) /\ q \in Seq(Completion) /\ <<>> \in Seq(Completion)
      /\ Aborted \in Seq(Completion) /\ NoBytesIn(Aborted) /\ NoConnectIn(Aborted)
      /\ \A op \in {"connect", "close", "read", "write"} : \A ok \in BOOLEAN : Done(op, ok) \in Seq(Completion)
  BY QueuePopped, ReadsOfAborted, DoneIsQueued DEF TypeInv, QueueType
<1>2. /\ NoConnectIn(completions) => NoConnectIn(q)
      /\ ConnectsBeforeWrites(completions) => ConnectsBeforeWrites(q)
  BY <1>1, PoppedReads
<1>3. ASSUME NEW r \in Seq(Completion), NoConnectIn(r) PROVE KeepsConnects(q \o r)
  BY <1>1, <1>2, <1>3, JoinedReads DEF KeepsConnects
<1>4. ASSUME NEW op \in {"connect", "close", "read", "write"}, NEW ok \in BOOLEAN, op # "connect" \/ ~ok
      PROVE  KeepsConnects(q \o Done(op, ok))
  <2>1. Done(op, ok) \in Seq(Completion) /\ NoConnectIn(Done(op, ok))
    BY <1>1, <1>4, ReadsOfDone
  <2> QED
    BY <1>3, <2>1
<1>5. KeepsConnects(q)
  BY <1>2 DEF KeepsConnects
<1>6. KeepsConnects(q \o <<>>) /\ KeepsConnects(q \o Aborted)
  BY <1>1, <1>3, ReadsOfDone
<1>7. ASSUME q = completions \/ Head(completions).op # "read" \/ ~Head(completions).ok
      PROVE  /\ KeepsBytes(q) /\ KeepsBytes(q \o <<>>) /\ KeepsBytes(q \o Aborted)
             /\ \A op \in {"connect", "close", "read", "write"} : \A ok \in BOOLEAN :
                  op # "read" \/ ~ok => KeepsBytes(q \o Done(op, ok))
  <2>1. /\ NoBytesIn(q) <=> NoBytesIn(completions)
        /\ \A n \in Nat : BytesIn(completions, n) => BytesIn(q, n)
    <3>1. CASE q = completions
      BY <3>1
    <3>2. CASE q # completions
      <4>1. completions # <<>> /\ q = Tail(completions)
        BY <3>2
      <4> QED
        BY <1>1, <1>7, <3>2, <4>1, PoppedReads
    <3> QED
      BY <3>1, <3>2
  <2>2. ASSUME NEW r \in Seq(Completion), NoBytesIn(r) PROVE KeepsBytes(q \o r)
    <3>1. /\ NoBytesIn(q \o r) <=> NoBytesIn(q)
          /\ \A n \in Nat : BytesIn(q, n) => BytesIn(q \o r, n)
      BY <1>1, <2>2, JoinedReads
    <3> QED
      BY <2>1, <3>1 DEF KeepsBytes
  <2>3. ASSUME NEW op \in {"connect", "close", "read", "write"}, NEW ok \in BOOLEAN, op # "read" \/ ~ok
        PROVE  KeepsBytes(q \o Done(op, ok))
    <3>1. Done(op, ok) \in Seq(Completion) /\ NoBytesIn(Done(op, ok))
      BY <1>1, <2>3, ReadsOfDone
    <3> QED
      BY <2>2, <3>1
  <2>4. KeepsBytes(q)
    BY <2>1 DEF KeepsBytes
  <2>5. KeepsBytes(q \o <<>>) /\ KeepsBytes(q \o Aborted)
    BY <1>1, <2>2, ReadsOfDone
  <2> QED
    BY <2>3, <2>4, <2>5
<1> QED
  BY <1>4, <1>5, <1>6, <1>7

BytesStep == FeedBuilder \/ SocketReads \/ (KeepsBytes(completions') /\ UNCHANGED m_read_buffer)

\* Only a read that completes or is handled changes which bytes are queued.
LEMMA BytesQueued == TypeInv /\ [ClientNext]_vars => BytesStep
<1> SUFFICES ASSUME TypeInv, [ClientNext]_vars PROVE BytesStep
  OBVIOUS
<1> USE DEF BytesStep, clientVars, linkVars, opVars, bufVars, ownerVars, sendVars, netVars, Notify,
            StartDisconnection
<1>11. /\ KeepsBytes(completions) /\ KeepsBytes(completions \o <<>>) /\ KeepsBytes(completions \o Aborted)
       /\ \A op \in {"connect", "close", "read", "write"} : \A ok \in BOOLEAN :
            op # "read" \/ ~ok => KeepsBytes(completions \o Done(op, ok))
  BY QueueKept
<1>12. ASSUME completions # <<>>, Head(completions).op # "read"
       PROVE  /\ KeepsBytes(Tail(completions)) /\ KeepsBytes(Tail(completions) \o <<>>)
              /\ KeepsBytes(Tail(completions) \o Aborted)
              /\ \A op \in {"connect", "close", "read", "write"} : \A ok \in BOOLEAN :
                   op # "read" \/ ~ok => KeepsBytes(Tail(completions) \o Done(op, ok))
  <2> DEFINE q == Tail(completions)
  <2>1. q \in {completions} \cup (IF completions = <<>> THEN {} ELSE {Tail(completions)})
    BY <1>12
  <2> HIDE DEF q
  <2>2. /\ KeepsBytes(q) /\ KeepsBytes(q \o <<>>) /\ KeepsBytes(q \o Aborted)
        /\ \A op \in {"connect", "close", "read", "write"} : \A ok \in BOOLEAN :
             op # "read" \/ ~ok => KeepsBytes(q \o Done(op, ok))
    BY <1>12, <2>1, QueueKept
  <2> QED
    BY <2>2 DEF q
<1>1. CASE UNCHANGED vars
  BY <1>1, <1>11, Zenon DEF vars, tcpVars
<1>2. CASE (Connect \/ Disconnect \/ TestNotified \/ StartWaiting \/ WakesSpuriously) /\ UNCHANGED clientVars
  BY <1>2, <1>11, Zenon DEF Connect, Disconnect, TestNotified, StartWaiting, WakesSpuriously
<1>3. CASE (ConnectCompletes \/ SocketWrites \/ WriteFails) /\ UNCHANGED clientVars
  BY <1>3, <1>11, Zenon DEF ConnectCompletes, SocketWrites, WriteFails, CloseSocket
<1>4. CASE (SocketReads \/ SocketReadFails \/ ServerCloses) /\ UNCHANGED clientVars
  BY <1>4, <1>11, Zenon DEF SocketReadFails, ServerCloses
<1>5. CASE ClientConnected
  <2>1. /\ completions # <<>> /\ Head(completions).op = "connect" /\ UNCHANGED m_read_buffer
        /\ \/ completions' = Tail(completions)
           \/ completions' = Tail(completions) \o Done("read", FALSE)
    BY <1>5, Zenon DEF ClientConnected, HandleConnect, AsyncRead, Runs
  <2> QED
    BY <1>12, <2>1
<1>6. CASE FeedBuilder \/ Decode \/ HandOver \/ Received
  <2>1. CASE Received
    BY <1>11, <2>1, Zenon DEF Received, ReceiveReturns, AsyncRead
  <2>2. CASE Decode \/ HandOver
    BY <1>11, <2>2, Zenon DEF Decode, HandOver, tcpVars
  <2> QED
    BY <1>6, <2>1, <2>2
<1>7. CASE SocketClosed \/ ClearCallbacks
  <2>1. CASE HandleClose
    <3>1. /\ completions # <<>> /\ Head(completions).op = "close" /\ UNCHANGED m_read_buffer
          /\ completions' = Tail(completions) \o Aborted
      BY <2>1, Zenon DEF HandleClose, CloseSocket, Runs
    <3> QED
      BY <1>12, <3>1
  <2>2. CASE Disconnection \/ ClearCallbacks
    BY <1>11, <2>2, Zenon DEF Disconnection, CloseSocket, ClearCallbacks, CallDisconnectionHandler
  <2> QED
    BY <1>7, <2>1, <2>2 DEF SocketClosed
<1>8. CASE HandleWrite /\ UNCHANGED clientVars
  <2>1. /\ completions # <<>> /\ Head(completions).op = "write" /\ UNCHANGED m_read_buffer
        /\ \/ completions' = Tail(completions)
           \/ completions' = Tail(completions) \o <<>>
           \/ completions' = Tail(completions) \o Done("write", FALSE)
    BY <1>8, Zenon DEF HandleWrite, WriteNext, AsyncWrite, Runs
  <2> QED
    BY <1>12, <2>1
<1>9. CASE RedisAnswers
  BY <1>9, <1>11, Zenon DEF RedisAnswers, ServerAnswers
<1>10. ASSUME NEW s \in Senders, LockAndCheck(s) \/ SendCommand(s) \/ PushCallback(s)
       PROVE  BytesStep
  <2>1. /\ UNCHANGED m_read_buffer
        /\ \/ completions' = completions
           \/ completions' = completions \o <<>>
           \/ completions' = completions \o Done("write", FALSE)
    BY <1>10, Zenon DEF LockAndCheck, SendCommand, PushCallback, SendChecks, SendAppends, AsyncWrite
  <2> QED
    BY <1>11, <2>1
<1> QED
  BY <1>1, <1>2, <1>3, <1>4, <1>5, <1>6, <1>7, <1>8, <1>9, <1>10, ClientSteps

ConnectsStep == ConnectCompletes \/ KeepsConnects(completions')

\* Only a connection that is made puts its handler into the queue.
LEMMA ConnectsQueued == TypeInv /\ [ClientNext]_vars => ConnectsStep
<1> SUFFICES ASSUME TypeInv, [ClientNext]_vars PROVE ConnectsStep
  OBVIOUS
<1> USE DEF ConnectsStep, clientVars, linkVars, opVars, bufVars, ownerVars, sendVars, netVars, Notify,
            StartDisconnection
<1>11. /\ KeepsConnects(completions) /\ KeepsConnects(completions \o <<>>) /\ KeepsConnects(completions \o Aborted)
       /\ \A op \in {"connect", "close", "read", "write"} : \A ok \in BOOLEAN :
            op # "connect" \/ ~ok => KeepsConnects(completions \o Done(op, ok))
  BY QueueKept
<1>12. ASSUME completions # <<>>
       PROVE  /\ KeepsConnects(Tail(completions)) /\ KeepsConnects(Tail(completions) \o <<>>)
              /\ KeepsConnects(Tail(completions) \o Aborted)
              /\ \A op \in {"connect", "close", "read", "write"} : \A ok \in BOOLEAN :
                   op # "connect" \/ ~ok => KeepsConnects(Tail(completions) \o Done(op, ok))
  <2> DEFINE q == Tail(completions)
  <2>1. q \in {completions} \cup (IF completions = <<>> THEN {} ELSE {Tail(completions)})
    BY <1>12
  <2> HIDE DEF q
  <2>2. /\ KeepsConnects(q) /\ KeepsConnects(q \o <<>>) /\ KeepsConnects(q \o Aborted)
        /\ \A op \in {"connect", "close", "read", "write"} : \A ok \in BOOLEAN :
             op # "connect" \/ ~ok => KeepsConnects(q \o Done(op, ok))
    BY <1>12, <2>1, QueueKept
  <2> QED
    BY <2>2 DEF q
<1>1. CASE UNCHANGED vars
  BY <1>1, <1>11, Zenon DEF vars, tcpVars
<1>2. CASE (Connect \/ Disconnect \/ TestNotified \/ StartWaiting \/ WakesSpuriously) /\ UNCHANGED clientVars
  BY <1>2, <1>11, Zenon DEF Connect, Disconnect, TestNotified, StartWaiting, WakesSpuriously
<1>3. CASE (ConnectCompletes \/ SocketWrites \/ WriteFails) /\ UNCHANGED clientVars
  BY <1>3, <1>11, Zenon DEF SocketWrites, WriteFails
<1>4. CASE (SocketReads \/ SocketReadFails \/ ServerCloses) /\ UNCHANGED clientVars
  <2>1. CASE SocketReads
    <3>1. PICK k \in 1..Len(inbox) : completions' = Append(completions, [op |-> "read", ok |-> TRUE, length |-> k])
      BY <2>1 DEF SocketReads
    <3>2. k \in Nat /\ completions \in Seq(Completion)
      BY DEF TypeInv, QueueType
    <3> QED
      BY <3>1, <3>2, ReadsOfRead DEF KeepsConnects
  <2>2. CASE SocketReadFails \/ ServerCloses
    BY <1>11, <2>2, Zenon DEF SocketReadFails, ServerCloses
  <2> QED
    BY <1>4, <2>1, <2>2
<1>5. CASE ClientConnected
  <2>1. /\ completions # <<>> /\ Head(completions).op = "connect" /\ UNCHANGED m_read_buffer
        /\ \/ completions' = Tail(completions)
           \/ completions' = Tail(completions) \o Done("read", FALSE)
    BY <1>5, Zenon DEF ClientConnected, HandleConnect, AsyncRead, Runs
  <2> QED
    BY <1>12, <2>1
<1>6. CASE FeedBuilder \/ Decode \/ HandOver \/ Received
  <2>1. CASE Received
    BY <1>11, <2>1, Zenon DEF Received, ReceiveReturns, AsyncRead
  <2>2. CASE Decode \/ HandOver
    BY <1>11, <2>2, Zenon DEF Decode, HandOver, tcpVars
  <2>3. CASE FeedBuilder
    BY <1>12, <2>3, Zenon DEF FeedBuilder, HandleRead, Runs
  <2> QED
    BY <1>6, <2>1, <2>2, <2>3
<1>7. CASE SocketClosed \/ ClearCallbacks
  <2>1. CASE HandleClose
    <3>1. /\ completions # <<>> /\ Head(completions).op = "close" /\ UNCHANGED m_read_buffer
          /\ completions' = Tail(completions) \o Aborted
      BY <2>1, Zenon DEF HandleClose, CloseSocket, Runs
    <3> QED
      BY <1>12, <3>1
  <2>2. CASE Disconnection \/ ClearCallbacks
    BY <1>11, <2>2, Zenon DEF Disconnection, CloseSocket, ClearCallbacks, CallDisconnectionHandler
  <2> QED
    BY <1>7, <2>1, <2>2 DEF SocketClosed
<1>8. CASE HandleWrite /\ UNCHANGED clientVars
  <2>1. /\ completions # <<>> /\ Head(completions).op = "write" /\ UNCHANGED m_read_buffer
        /\ \/ completions' = Tail(completions)
           \/ completions' = Tail(completions) \o <<>>
           \/ completions' = Tail(completions) \o Done("write", FALSE)
    BY <1>8, Zenon DEF HandleWrite, WriteNext, AsyncWrite, Runs
  <2> QED
    BY <1>12, <2>1
<1>9. CASE RedisAnswers
  BY <1>9, <1>11, Zenon DEF RedisAnswers, ServerAnswers
<1>10. ASSUME NEW s \in Senders, LockAndCheck(s) \/ SendCommand(s) \/ PushCallback(s)
       PROVE  ConnectsStep
  <2>1. /\ UNCHANGED m_read_buffer
        /\ \/ completions' = completions
           \/ completions' = completions \o <<>>
           \/ completions' = completions \o Done("write", FALSE)
    BY <1>10, Zenon DEF LockAndCheck, SendCommand, PushCallback, SendChecks, SendAppends, AsyncWrite
  <2> QED
    BY <1>11, <2>1
<1> QED
  BY <1>1, <1>2, <1>3, <1>4, <1>5, <1>6, <1>7, <1>8, <1>9, <1>10, ClientSteps

-----------------------------------------------------------------------------
(* What there can be on a connection, and which connections are sound.     *)

\* m_read_buffer holds nothing but what a queued read refers to.
ReadBufferInv == NoBytesIn(completions) => m_read_buffer = <<>>

\* Bytes are in the read buffer only until the handler has taken them.
LEMMA ReadBufferStays == TypeInv /\ ReadBufferInv /\ [ClientNext]_vars => ReadBufferInv'
<1> SUFFICES ASSUME TypeInv, ReadBufferInv, [ClientNext]_vars PROVE ReadBufferInv'
  OBVIOUS
<1>1. CASE FeedBuilder
  <2>1. m_read_buffer' = IF ReadIsQueued' THEN m_read_buffer ELSE <<>>
    BY <1>1 DEF FeedBuilder, HandleRead
  <2>2. NoBytesIn(completions') => ~ReadIsQueued'
    BY DEF NoBytesIn, ReadIsQueued
  <2> QED
    BY <2>1, <2>2 DEF ReadBufferInv
<1>2. CASE SocketReads
  <2>1. PICK k \in 1..Len(inbox) : completions' = Append(completions, [op |-> "read", ok |-> TRUE, length |-> k])
    BY <1>2 DEF SocketReads
  <2>2. k \in Nat /\ completions \in Seq(Completion)
    BY DEF TypeInv, QueueType
  <2>3. ~NoBytesIn(completions')
    BY <2>1, <2>2, ReadsOfRead
  <2> QED
    BY <2>3 DEF ReadBufferInv
<1>3. CASE KeepsBytes(completions') /\ UNCHANGED m_read_buffer
  BY <1>3 DEF KeepsBytes, ReadBufferInv
<1> QED
  BY <1>1, <1>2, <1>3, BytesQueued DEF BytesStep

\* Commands or replies are on the way only on an open connection.  A connection
\* whose handler has not run yet may carry them already: then they are of the
\* write that is not over for the client, and its completion comes later.
Traffic == wire # <<>> \/ inbox # <<>> \/ replying # <<>>

TrafficInv ==
  /\ m_socket # "open" => ~Traffic
  /\ Traffic => ConnectsBeforeWrites(completions) /\ (NoConnectIn(completions) \/ write_op.pc # "none")

\* Only a write brings commands, and only answers bring replies.
OnlineStep ==
  /\ m_socket' # "open" => ~Traffic'
  /\ Traffic' => Traffic \/ SocketWrites

LEMMA TrafficIsOnline == TypeInv /\ TrafficInv /\ [ClientNext]_vars => OnlineStep
<1> SUFFICES ASSUME TypeInv, TrafficInv, [ClientNext]_vars PROVE OnlineStep
  OBVIOUS
<1> USE DEF clientVars, linkVars, opVars, bufVars, ownerVars, sendVars, netVars, Notify,
            StartDisconnection
<1>11. m_socket # "open" => ~Traffic
  BY DEF TrafficInv
<1>12. replying = <<>> => Rest(replying, 1) = <<>>
  <2>1. replying \in Seq(Command) /\ 1 \in Nat /\ (1 > Len(replying) => Rest(replying, 1) = <<>>)
    BY RestIs DEF TypeInv, WireType
  <2> QED
    BY <2>1
<1> USE <1>11, <1>12 DEF OnlineStep, Traffic
<1>1. CASE UNCHANGED vars
  BY <1>1, Zenon DEF vars, tcpVars
<1>2. CASE (Connect \/ Disconnect \/ TestNotified \/ StartWaiting \/ WakesSpuriously) /\ UNCHANGED clientVars
  <2>1. CASE Connect
    BY <1>2, <2>1, Zenon DEF Connect
  <2>2. CASE Disconnect \/ TestNotified \/ StartWaiting \/ WakesSpuriously
    BY <1>2, <2>2, Zenon DEF Disconnect, TestNotified, StartWaiting, WakesSpuriously
  <2> QED
    BY <1>2, <2>1, <2>2
<1>3. CASE (ConnectCompletes \/ SocketWrites \/ WriteFails) /\ UNCHANGED clientVars
  BY Zenon, <1>3 DEF ConnectCompletes, SocketWrites, WriteFails, CloseSocket
<1>4. CASE (SocketReads \/ SocketReadFails \/ ServerCloses) /\ UNCHANGED clientVars
  BY Zenon, <1>4 DEF SocketReads, SocketReadFails, ServerCloses
<1>5. CASE ClientConnected
  BY Zenon, <1>5 DEF ClientConnected, HandleConnect, AsyncRead
<1>6. CASE FeedBuilder \/ Decode \/ HandOver \/ Received
  BY Zenon, <1>6 DEF FeedBuilder, Decode, HandOver, Received, HandleRead, ReceiveReturns, AsyncRead, tcpVars
<1>7. CASE SocketClosed \/ ClearCallbacks
  BY Zenon, <1>7 DEF SocketClosed, ClearCallbacks, Lost, HandleClose, Disconnection, CloseSocket,
              CallDisconnectionHandler
<1>8. CASE HandleWrite /\ UNCHANGED clientVars
  BY Zenon, <1>8 DEF HandleWrite
<1>9. CASE RedisAnswers
  BY Zenon, <1>9 DEF RedisAnswers, ServerAnswers
<1>10. ASSUME NEW s \in Senders, LockAndCheck(s) \/ SendCommand(s) \/ PushCallback(s)
       PROVE  OnlineStep
  BY Zenon, <1>10 DEF LockAndCheck, SendCommand, PushCallback, SendChecks, SendAppends
<1> QED
  BY <1>1, <1>2, <1>3, <1>4, <1>5, <1>6, <1>7, <1>8, <1>9, <1>10, ClientSteps

\* Only the completion handler of a write ends it for the client.
OutstandingStep == write_op.pc = "none" \/ write_op'.pc # "none" \/ HandleWrite

LEMMA WriteIsEnded == TypeInv /\ [ClientNext]_vars => OutstandingStep
<1> SUFFICES ASSUME TypeInv, [ClientNext]_vars PROVE OutstandingStep
  OBVIOUS
<1> USE DEF OutstandingStep, clientVars, linkVars, opVars, bufVars, ownerVars, sendVars, netVars,
            Notify,
            StartDisconnection
<1>11. write_op \in [pc : {"none", "writing", "over"}, n : Nat, done : Nat, moved : BOOLEAN]
  BY DEF TypeInv, BufferInv
<1>12. ASSUME NEW q, CloseSocket(q) PROVE write_op.pc = "none" \/ write_op'.pc # "none"
  <2>1. write_op' = [write_op EXCEPT !.pc = IF @ = "writing" THEN "over" ELSE @]
    BY Zenon, <1>12 DEF CloseSocket
  <2> QED
    BY <1>11, <2>1
<1>1. CASE UNCHANGED vars
  BY Zenon, <1>1 DEF vars, tcpVars
<1>2. CASE (Connect \/ Disconnect \/ TestNotified \/ StartWaiting \/ WakesSpuriously) /\ UNCHANGED clientVars
  BY Zenon, <1>2 DEF Connect, Disconnect, TestNotified, StartWaiting, WakesSpuriously
<1>3. CASE (ConnectCompletes \/ SocketWrites \/ WriteFails) /\ UNCHANGED clientVars
  <2>1. \/ UNCHANGED write_op \/ CloseSocket(completions)
        \/ write_op' = [write_op EXCEPT !.pc = "over"]
        \/ write_op' = [write_op EXCEPT !.done = @ + 1, !.pc = "over"]
        \/ write_op' = [write_op EXCEPT !.done = @ + 1]
    BY <1>3, Zenon DEF ConnectCompletes, SocketWrites, WriteFails
  <2> QED
    BY <1>11, <1>12, <2>1
<1>4. CASE (SocketReads \/ SocketReadFails \/ ServerCloses) /\ UNCHANGED clientVars
  BY Zenon, <1>4 DEF SocketReads, SocketReadFails, ServerCloses
<1>5. CASE ClientConnected
  BY Zenon, <1>5 DEF ClientConnected, HandleConnect, AsyncRead
<1>6. CASE FeedBuilder \/ Decode \/ HandOver \/ Received
  BY Zenon, <1>6 DEF FeedBuilder, Decode, HandOver, Received, HandleRead, ReceiveReturns, AsyncRead, tcpVars
<1>7. CASE SocketClosed \/ ClearCallbacks
  <2>1. \/ UNCHANGED write_op \/ CloseSocket(completions) \/ CloseSocket(Tail(completions))
    BY <1>7, Zenon DEF SocketClosed, ClearCallbacks, HandleClose, Disconnection, CallDisconnectionHandler
  <2> QED
    BY <1>12, <2>1
<1>8. CASE HandleWrite /\ UNCHANGED clientVars
  BY <1>8
<1>9. CASE RedisAnswers
  BY Zenon, <1>9 DEF RedisAnswers, ServerAnswers
<1>10. ASSUME NEW s \in Senders, LockAndCheck(s) \/ SendCommand(s) \/ PushCallback(s)
       PROVE  OutstandingStep
  <2>1. CASE LockAndCheck(s) \/ PushCallback(s)
    BY <2>1, Zenon DEF LockAndCheck, PushCallback, SendChecks
  <2>2. CASE SendCommand(s)
    <3>1. CASE m_write_buffer # <<>>
      <4>1. PICK moved \in {write_op.moved, write_op.pc = "writing"} :
               write_op' = [write_op EXCEPT !.moved = @ \/ moved]
        BY <2>2, <3>1 DEF SendCommand, SendAppends
      <4> QED
        BY <1>11, <4>1
    <3>2. CASE m_write_buffer = <<>>
      <4>1. AsyncWrite(m_write_buffer', completions)
        BY <2>2, <3>2 DEF SendCommand, SendAppends
      <4>2. write_op'.pc = IF m_socket = "open" THEN "writing" ELSE "over"
        BY <4>1 DEF AsyncWrite
      <4> QED
        BY <4>2
    <3> QED
      BY <3>1, <3>2
  <2> QED
    BY <1>10, <2>1, <2>2
<1> QED
  BY <1>1, <1>2, <1>3, <1>4, <1>5, <1>6, <1>7, <1>8, <1>9, <1>10, ClientSteps

\* No step leaves traffic on a connection that is not open.
LEMMA TrafficStays == TypeInv /\ WriteInv /\ TrafficInv /\ [ClientNext]_vars => TrafficInv'
<1> SUFFICES ASSUME TypeInv, WriteInv, TrafficInv, [ClientNext]_vars PROVE TrafficInv'
  OBVIOUS
<1>1. /\ m_socket' # "open" => ~Traffic'
      /\ Traffic' => Traffic \/ SocketWrites
  BY TrafficIsOnline DEF OnlineStep
<1>2. /\ completions \in Seq(Completion)
      /\ write_op \in [pc : {"none", "writing", "over"}, n : Nat, done : Nat, moved : BOOLEAN]
  BY DEF TypeInv, QueueType, BufferInv
<1>3. ASSUME Traffic'
      PROVE  ConnectsBeforeWrites(completions') /\ (NoConnectIn(completions') \/ write_op'.pc # "none")
  <2>1. CASE ConnectCompletes
    <3>1. m_socket = "connecting"
      BY <2>1 DEF ConnectCompletes
    <3>2. ~Traffic /\ ~SocketWrites
      BY <3>1 DEF TrafficInv, SocketWrites
    <3> QED
      BY <1>1, <1>3, <3>2
  <2>2. CASE KeepsConnects(completions') /\ SocketWrites
    <3>1. write_op.pc = "writing" /\ NoWriteIn(completions)
      BY <2>2 DEF SocketWrites, WriteInv
    <3>2. ConnectsBeforeWrites(completions)
      BY <3>1 DEF ConnectsBeforeWrites, NoWriteIn
    <3>3. write_op'.pc # "none"
      <4>1. ~HandleWrite
        <5>1. HandleWrite => ~NoWriteIn(completions)
          BY <1>2, PoppedWrites DEF HandleWrite, Runs
        <5> QED
          BY <3>1, <5>1
      <4> QED
        BY <3>1, <4>1, WriteIsEnded DEF OutstandingStep
    <3> QED
      BY <2>2, <3>2, <3>3 DEF KeepsConnects
  <2>3. CASE KeepsConnects(completions') /\ ~SocketWrites
    <3>1. Traffic /\ ConnectsBeforeWrites(completions) /\ (NoConnectIn(completions) \/ write_op.pc # "none")
      BY <1>1, <1>3, <2>3 DEF TrafficInv
    <3>2. ConnectsBeforeWrites(completions') /\ (NoConnectIn(completions) => NoConnectIn(completions'))
      BY <2>3, <3>1 DEF KeepsConnects
    <3>3. ASSUME HandleWrite, write_op'.pc = "none" PROVE NoConnectIn(completions')
      <4>1. completions # <<>> /\ Head(completions).op = "write"
        BY <3>3 DEF HandleWrite, Runs
      <4>2. completions' = Tail(completions)
        <5>1. \/ completions' = Tail(completions)
              \/ write_op'.pc = IF m_socket = "open" THEN "writing" ELSE "over"
          <6>1. completions' = Tail(completions) \/ AsyncWrite(m_write_buffer', Tail(completions))
            BY <3>3 DEF HandleWrite, WriteNext
          <6>2. ASSUME NEW buffer, NEW q, AsyncWrite(buffer, q)
                PROVE  write_op'.pc = IF m_socket = "open" THEN "writing" ELSE "over"
            BY <6>2 DEF AsyncWrite
          <6> QED
            BY <6>1, <6>2
        <5> QED
          BY <3>3, <5>1
      <4> QED
        BY <1>2, <3>1, <4>1, <4>2, PoppedReads
    <3> QED
      BY <3>1, <3>2, <3>3, WriteIsEnded DEF OutstandingStep
  <2> QED
    BY <2>1, <2>2, <2>3, ConnectsQueued DEF ConnectsStep
<1> QED
  BY <1>1, <1>3 DEF TrafficInv

\* A sound connection is open, and what it writes has not been moved.
SoundInv ==
  /\ sound => m_socket = "open" /\ ~write_op.moved
  /\ io = "handler" => ~sound

\* A sound connection stays open until the io thread gives it up.
LEMMA SoundStays == TypeInv /\ SoundInv /\ [ClientNext]_vars => SoundInv'
<1> SUFFICES ASSUME TypeInv, SoundInv, [ClientNext]_vars PROVE SoundInv'
  OBVIOUS
<1> USE DEF clientVars, linkVars, opVars, bufVars, ownerVars, sendVars, netVars, Notify,
            StartDisconnection
<1>12. write_op \in [pc : {"none", "writing", "over"}, n : Nat, done : Nat, moved : BOOLEAN]
  BY DEF TypeInv, BufferInv
<1>13. ASSUME UNCHANGED <<sound, io>>, m_socket' = m_socket \/ (m_socket = "open" => m_socket' = "open"),
              write_op'.moved = write_op.moved \/ write_op' = write_op
       PROVE  SoundInv'
  BY <1>13 DEF SoundInv
<1>14. ASSUME NEW buffer, NEW q, AsyncWrite(buffer, q) PROVE ~write_op'.moved
  BY <1>14 DEF AsyncWrite
<1>1. CASE UNCHANGED vars
  BY <1>1, <1>13, Zenon DEF vars, tcpVars
<1>2. CASE (Connect \/ Disconnect \/ TestNotified \/ StartWaiting \/ WakesSpuriously) /\ UNCHANGED clientVars
  <2>1. CASE Connect
    <3>1. m_socket = "open" => m_socket' = "open"
      BY <2>1 DEF Connect
    <3> QED
      BY <1>2, <1>13, <2>1, <3>1, Zenon DEF Connect
  <2>2. CASE Disconnect \/ TestNotified \/ StartWaiting \/ WakesSpuriously
    BY <1>2, <1>13, <2>2, Zenon DEF Disconnect, TestNotified, StartWaiting, WakesSpuriously
  <2> QED
    BY <1>2, <2>1, <2>2
<1>3. CASE (ConnectCompletes \/ SocketWrites \/ WriteFails) /\ UNCHANGED clientVars
  <2>1. CASE ConnectCompletes
    <3>1. m_socket = "connecting" /\ sound' = sound
      BY <1>3, <2>1 DEF ConnectCompletes
    <3>2. ~sound
      BY <3>1 DEF SoundInv
    <3> QED
      BY <3>1, <3>2 DEF SoundInv
  <2>2. CASE SocketWrites \/ WriteFails
    <3>1. \/ write_op' = [write_op EXCEPT !.pc = "over"]
          \/ write_op' = [write_op EXCEPT !.done = @ + 1, !.pc = "over"]
          \/ write_op' = [write_op EXCEPT !.done = @ + 1]
      BY <2>2, Zenon DEF SocketWrites, WriteFails
    <3>2. write_op'.moved = write_op.moved
      BY <1>12, <3>1
    <3> QED
      BY <1>3, <1>13, <2>2, <3>2, Zenon DEF SocketWrites, WriteFails
  <2> QED
    BY <1>3, <2>1, <2>2
<1>4. CASE (SocketReads \/ SocketReadFails \/ ServerCloses) /\ UNCHANGED clientVars
  BY <1>4, <1>13, Zenon DEF SocketReads, SocketReadFails, ServerCloses
<1>5. CASE ClientConnected
  <2>1. UNCHANGED <<m_socket, write_op, io, m_write_buffer>> /\ io = "idle"
    BY <1>5, Zenon DEF ClientConnected, HandleConnect, Runs
  <2>2. sound' => m_socket = "open" /\ m_write_buffer = <<>>
    BY <1>5 DEF ClientConnected, Clean
  <2>3. m_write_buffer = <<>> => write_op = NoWrite
    BY EmptySeq DEF TypeInv, BufferInv, WritesStayInBuffer
  <2> QED
    BY <2>1, <2>2, <2>3 DEF SoundInv, NoWrite
<1>6. CASE FeedBuilder \/ Decode \/ HandOver \/ Received
  <2>1. CASE Decode \/ HandOver
    BY <1>13, <2>1, Zenon DEF Decode, HandOver, tcpVars
  <2>2. CASE FeedBuilder \/ Received
    <3>1. UNCHANGED <<sound, m_socket, write_op>>
      BY <2>2, Zenon DEF FeedBuilder, Received, HandleRead, ReceiveReturns
    <3>2. io' # "handler"
      BY <2>2, Zenon DEF FeedBuilder, Received, HandleRead, ReceiveReturns
    <3> QED
      BY <3>1, <3>2 DEF SoundInv
  <2> QED
    BY <1>6, <2>1, <2>2
<1>7. CASE SocketClosed \/ ClearCallbacks
  <2>1. CASE SocketClosed
    BY <2>1 DEF SocketClosed, Lost, SoundInv
  <2>2. CASE ClearCallbacks
    <3>1. UNCHANGED <<sound, m_socket, write_op>> /\ io' = "idle"
      BY <2>2, Zenon DEF ClearCallbacks, CallDisconnectionHandler
    <3> QED
      BY <3>1 DEF SoundInv
  <2> QED
    BY <1>7, <2>1, <2>2
<1>8. CASE HandleWrite /\ UNCHANGED clientVars
  <2>1. UNCHANGED <<sound, m_socket>>
    BY <1>8, Zenon DEF HandleWrite
  <2>2. io' = io \/ io' = "closing"
    BY <1>8, Zenon DEF HandleWrite
  <2>3. ~write_op'.moved
    <3>1. write_op' = NoWrite \/ AsyncWrite(m_write_buffer', Tail(completions))
      BY <1>8 DEF HandleWrite, WriteNext
    <3> QED
      BY <1>14, <3>1 DEF NoWrite
  <2> QED
    BY <2>1, <2>2, <2>3 DEF SoundInv
<1>9. CASE RedisAnswers
  BY <1>9, <1>13, Zenon DEF RedisAnswers, ServerAnswers
<1>10. ASSUME NEW s \in Senders, LockAndCheck(s) \/ SendCommand(s) \/ PushCallback(s)
       PROVE  SoundInv'
  <2>1. CASE LockAndCheck(s) \/ PushCallback(s)
    BY <1>13, <2>1, Zenon DEF LockAndCheck, SendChecks, PushCallback
  <2>2. CASE SendCommand(s)
    BY <2>2 DEF SendCommand, SendAppends, SoundInv
  <2> QED
    BY <1>10, <2>1, <2>2
<1> QED
  BY <1>1, <1>2, <1>3, <1>4, <1>5, <1>6, <1>7, <1>8, <1>9, <1>10, ClientSteps

-----------------------------------------------------------------------------
(* One read at a time: on a sound connection that the io thread is not     *)
(* giving up a read is waiting, or it has been queued, or is being handled. *)

Live == sound /\ io # "closing"

OneReadInv == Live =>
  /\ reads <= 1 /\ BytesIn(completions, Len(m_read_buffer))
  /\ ~NoBytesIn(completions) => reads = 0 /\ io # "receive"
  /\ io = "receive" => reads = 0

\* A connection becomes sound in its handler, and nothing saves one that is lost.
LiveStep == Live' => Live \/ ClientConnected

LEMMA LiveBefore == [ClientNext]_vars => LiveStep
<1> SUFFICES ASSUME [ClientNext]_vars PROVE LiveStep
  OBVIOUS
<1> USE DEF LiveStep, Live, clientVars, linkVars, opVars, bufVars, ownerVars, sendVars, netVars, Notify,
            StartDisconnection
<1>1. CASE UNCHANGED vars
  BY Zenon, <1>1 DEF vars, tcpVars
<1>2. CASE (Connect \/ Disconnect \/ TestNotified \/ StartWaiting \/ WakesSpuriously) /\ UNCHANGED clientVars
  BY Zenon, <1>2 DEF Connect, Disconnect, TestNotified, StartWaiting, WakesSpuriously
<1>3. CASE (ConnectCompletes \/ SocketWrites \/ WriteFails) /\ UNCHANGED clientVars
  BY Zenon, <1>3 DEF ConnectCompletes, SocketWrites, WriteFails, CloseSocket
<1>4. CASE (SocketReads \/ SocketReadFails \/ ServerCloses) /\ UNCHANGED clientVars
  BY Zenon, <1>4 DEF SocketReads, SocketReadFails, ServerCloses
<1>5. CASE ClientConnected
  BY <1>5
<1>6. CASE FeedBuilder \/ Decode \/ HandOver \/ Received
  <2>1. UNCHANGED sound
    BY <1>6, Zenon DEF FeedBuilder, Decode, HandOver, Received
  <2>2. io # "closing"
    BY <1>6, Zenon DEF FeedBuilder, Decode, HandOver, Received, HandleRead, ReceiveReturns, Runs
  <2> QED
    BY <2>1, <2>2
<1>7. CASE SocketClosed \/ ClearCallbacks
  <2>1. CASE SocketClosed
    BY <2>1, Zenon DEF SocketClosed, Lost
  <2>2. CASE ClearCallbacks
    BY <2>2, Zenon DEF ClearCallbacks, CallDisconnectionHandler
  <2> QED
    BY <1>7, <2>1, <2>2
<1>8. CASE HandleWrite /\ UNCHANGED clientVars
  <2>1. UNCHANGED sound /\ (io' = io \/ io' = "closing")
    BY <1>8, Zenon DEF HandleWrite
  <2> QED
    BY <2>1
<1>9. CASE RedisAnswers
  BY Zenon, <1>9 DEF RedisAnswers, ServerAnswers
<1>10. ASSUME NEW s \in Senders, LockAndCheck(s) \/ SendCommand(s) \/ PushCallback(s)
       PROVE  LiveStep
  <2>1. (sound' => sound) /\ UNCHANGED io
    <3>1. CASE LockAndCheck(s)
      BY <3>1, Zenon DEF LockAndCheck, SendChecks
    <3>2. CASE SendCommand(s)
      BY <3>2, Zenon DEF SendCommand, SendAppends
    <3>3. CASE PushCallback(s)
      BY <3>3, Zenon DEF PushCallback
    <3> QED
      BY <1>10, <3>1, <3>2, <3>3
  <2> QED
    BY <2>1
<1> QED
  BY <1>1, <1>2, <1>3, <1>4, <1>5, <1>6, <1>7, <1>8, <1>9, <1>10, ClientSteps

ReadsStart ==
  \/ Received \/ SocketReadFails \/ SocketClosed \/ ConnectCompletes \/ ClientConnected
  \/ FeedBuilder \/ SocketReads
  \/ UNCHANGED reads /\ (UNCHANGED io \/ io' # "receive")

\* A read is started by the handler of a connection and by the end of the one before.
LEMMA ReadsAreStarted == [ClientNext]_vars => ReadsStart
<1> SUFFICES ASSUME [ClientNext]_vars PROVE ReadsStart
  OBVIOUS
<1> USE DEF ReadsStart, clientVars, linkVars, opVars, bufVars, ownerVars, sendVars, netVars, Notify,
            StartDisconnection
<1>1. CASE UNCHANGED vars
  BY Zenon, <1>1 DEF vars, tcpVars
<1>2. CASE (Connect \/ Disconnect \/ TestNotified \/ StartWaiting \/ WakesSpuriously) /\ UNCHANGED clientVars
  BY Zenon, <1>2 DEF Connect, Disconnect, TestNotified, StartWaiting, WakesSpuriously
<1>3. CASE (ConnectCompletes \/ SocketWrites \/ WriteFails) /\ UNCHANGED clientVars
  BY Zenon, <1>3 DEF SocketWrites, WriteFails
<1>4. CASE (SocketReads \/ SocketReadFails \/ ServerCloses) /\ UNCHANGED clientVars
  BY Zenon, <1>4 DEF ServerCloses
<1>5. CASE ClientConnected
  BY Zenon, <1>5
<1>6. CASE FeedBuilder \/ Decode \/ HandOver \/ Received
  BY Zenon, <1>6 DEF Decode, HandOver, tcpVars
<1>7. CASE SocketClosed \/ ClearCallbacks
  BY Zenon, <1>7 DEF ClearCallbacks, CallDisconnectionHandler
<1>8. CASE HandleWrite /\ UNCHANGED clientVars
  BY Zenon, <1>8 DEF HandleWrite
<1>9. CASE RedisAnswers
  BY Zenon, <1>9 DEF RedisAnswers, ServerAnswers
<1>10. ASSUME NEW s \in Senders, LockAndCheck(s) \/ SendCommand(s) \/ PushCallback(s)
       PROVE  ReadsStart
  BY Zenon, <1>10 DEF LockAndCheck, SendCommand, PushCallback, SendChecks, SendAppends
<1> QED
  BY <1>1, <1>2, <1>3, <1>4, <1>5, <1>6, <1>7, <1>8, <1>9, <1>10, ClientSteps

\* A read takes a part of the bytes, and the socket keeps the others.
LEMMA CutIsLong ==
  \A q \in Seq(Symbol) : \A k \in 1..Len(q) :
    /\ SubSeq(q, 1, k) \in Seq(Symbol) /\ Len(SubSeq(q, 1, k)) = k /\ SubSeq(q, 1, k) \o <<>> = SubSeq(q, 1, k)
    /\ SubSeq(q, 1, k) \o Rest(q, k) = q /\ Rest(q, k) \in Seq(Symbol)
<1> SUFFICES ASSUME NEW q \in Seq(Symbol), NEW k \in 1..Len(q)
             PROVE  /\ SubSeq(q, 1, k) \in Seq(Symbol) /\ Len(SubSeq(q, 1, k)) = k
                    /\ SubSeq(q, 1, k) \o <<>> = SubSeq(q, 1, k)
                    /\ SubSeq(q, 1, k) \o Rest(q, k) = q /\ Rest(q, k) \in Seq(Symbol)
  OBVIOUS
<1> DEFINE cut == SubSeq(q, 1, k)
           rest == Rest(q, k)
<1>1. Len(q) \in Nat /\ k \in Nat /\ 1 <= k /\ k <= Len(q)
  BY LenProperties
<1>2. cut \in Seq(Symbol) /\ Len(cut) = k /\ \A i \in 1..k : cut[i] = q[i]
  <2>1. \A i \in 1..k : q[i] \in Symbol
    BY <1>1, ElementOfSeq
  <2>2. 1 \in Int /\ k \in Int
    BY <1>1
  <2>3. /\ cut \in Seq(Symbol) /\ Len(cut) = IF 1 <= k THEN k - 1 + 1 ELSE 0
        /\ \A i \in 1..k - 1 + 1 : cut[i] = q[1 + i - 1]
    BY <2>1, <2>2, SubSeqProperties
  <2> HIDE DEF cut
  <2>4. Len(cut) = k
    BY <1>1, <2>3
  <2>5. \A i \in 1..k : cut[i] = q[i]
    <3> TAKE i \in 1..k
    <3>1. i \in 1..k - 1 + 1 /\ 1 + i - 1 = i
      BY <1>1
    <3> QED
      BY <2>3, <3>1
  <2> QED
    BY <2>3, <2>4, <2>5
<1>3. /\ rest \in Seq(Symbol) /\ Len(rest) = Len(q) - k
      /\ \A i \in 1..Len(q) - k : rest[i] = q[k + i]
  BY <1>1, RestIs
<1> HIDE DEF cut, rest
<1>4. cut \o <<>> = cut
  BY <1>2, ConcatEmptySeq
<1>5. /\ cut \o rest \in Seq(Symbol) /\ Len(cut \o rest) = k + (Len(q) - k)
      /\ \A i \in 1..k + (Len(q) - k) : (cut \o rest)[i] = IF i <= k THEN cut[i] ELSE rest[i - k]
  <2>1. /\ cut \o rest \in Seq(Symbol) /\ Len(cut \o rest) = Len(cut) + Len(rest)
        /\ \A i \in 1..Len(cut) + Len(rest) : (cut \o rest)[i] = IF i <= Len(cut) THEN cut[i] ELSE rest[i - Len(cut)]
    BY <1>2, <1>3, ConcatProperties
  <2>2. Len(cut) = k /\ Len(rest) = Len(q) - k
    BY <1>2, <1>3
  <2> QED
    BY <2>1, <2>2, Zenon
<1>6. Len(cut \o rest) = Len(q)
  BY <1>1, <1>5
<1>7. ASSUME NEW i \in 1..Len(q) PROVE (cut \o rest)[i] = q[i]
  <2>1. i \in 1..k + (Len(q) - k)
    BY <1>1
  <2>2. CASE i <= k
    BY <1>1, <1>2, <1>5, <2>1, <2>2
  <2>3. CASE ~(i <= k)
    <3>1. i - k \in 1..Len(q) - k /\ k + (i - k) = i
      BY <1>1, <2>3
    <3> QED
      BY <1>3, <1>5, <2>1, <2>3, <3>1
  <2> QED
    BY <2>2, <2>3
<1>8. cut \o rest = q
  BY <1>5, <1>6, <1>7, SeqEqual
<1> QED
  BY <1>2, <1>3, <1>4, <1>8 DEF cut, rest

\* Never are two reads started on one sound connection.
LEMMA OneReadStays ==
  TypeInv /\ ReadBufferInv /\ SoundInv /\ OneReadInv /\ [ClientNext]_vars => OneReadInv'
<1> SUFFICES ASSUME TypeInv, ReadBufferInv, SoundInv, OneReadInv, [ClientNext]_vars, Live'
             PROVE  /\ reads' <= 1 /\ BytesIn(completions', Len(m_read_buffer'))
                    /\ ~NoBytesIn(completions') => reads' = 0 /\ io' # "receive"
                    /\ io' = "receive" => reads' = 0
  BY DEF OneReadInv
<1>1. completions \in Seq(Completion) /\ reads \in Nat /\ Len(m_read_buffer) \in Nat
  BY LenProperties DEF TypeInv, QueueType, ReadType
<1>2. ASSUME NEW q, NoBytesIn(q), NEW n PROVE BytesIn(q, n)
  BY <1>2 DEF NoBytesIn, BytesIn
<1>3. CASE ClientConnected
  <2>1. /\ Head(completions).ok /\ m_socket = "open" /\ reads = 0 /\ NoBytesIn(completions)
        /\ completions # <<>> /\ Head(completions).op = "connect" /\ io' = "idle"
    <3>1. Head(completions).ok /\ m_socket = "open" /\ Clean
      BY <1>3 DEF ClientConnected, Live
    <3>2. reads = 0 /\ NoBytesIn(completions)
      BY <3>1 DEF Clean, NoBytesIn, ReadIsQueued
    <3>3. completions # <<>> /\ Head(completions).op = "connect" /\ io' = "idle"
      BY <1>3 DEF ClientConnected, HandleConnect, Runs
    <3> QED
      BY <3>1, <3>2, <3>3
  <2>2. completions' = Tail(completions) /\ reads' = reads + 1
    BY <1>3, <2>1 DEF ClientConnected, HandleConnect, AsyncRead
  <2>3. NoBytesIn(completions')
    BY <1>1, <2>1, <2>2, PoppedReads
  <2> QED
    BY <1>2, <2>1, <2>2, <2>3
<1>4. ASSUME Live, ~ClientConnected
      PROVE  /\ reads' <= 1 /\ BytesIn(completions', Len(m_read_buffer'))
             /\ ~NoBytesIn(completions') => reads' = 0 /\ io' # "receive"
             /\ io' = "receive" => reads' = 0
  <2>1. /\ reads <= 1 /\ BytesIn(completions, Len(m_read_buffer))
        /\ ~NoBytesIn(completions) => reads = 0 /\ io # "receive"
        /\ io = "receive" => reads = 0
        /\ m_socket = "open" /\ sound
    BY <1>4 DEF OneReadInv, SoundInv, Live
  <2>2. CASE FeedBuilder
    <3>1. completions # <<>> /\ Head(completions).op = "read" /\ completions' = Tail(completions) /\ UNCHANGED reads
      BY <2>2 DEF FeedBuilder, HandleRead, Runs
    <3>2. Head(completions).ok
      BY <2>2 DEF FeedBuilder, HandleRead, StartDisconnection, Live
    <3>3. NoBytesIn(completions')
      BY <1>1, <2>1, <3>1, <3>2, PoppedReads
    <3>4. ~NoBytesIn(completions)
      BY <1>1, <3>1, <3>2, QueuePopped DEF NoBytesIn
    <3> QED
      BY <1>2, <2>1, <3>1, <3>3, <3>4
  <2>3. CASE SocketReads
    <3>1. PICK k \in 1..Len(inbox) :
            /\ m_read_buffer' = SubSeq(inbox, 1, k)
                                  \o (IF ReadIsQueued THEN Rest(m_read_buffer, k) ELSE <<>>)
            /\ completions' = Append(completions, [op |-> "read", ok |-> TRUE, length |-> k])
      BY <2>3 DEF SocketReads
    <3>2. reads > 0 /\ reads' = reads - 1 /\ UNCHANGED io
      BY <2>3 DEF SocketReads
    <3>3. NoBytesIn(completions) /\ io # "receive" /\ reads' = 0
      BY <1>1, <2>1, <3>2
    <3>4. k \in Nat /\ m_read_buffer' = SubSeq(inbox, 1, k) \o <<>>
      BY <3>1, <3>3 DEF NoBytesIn, ReadIsQueued
    <3>5. Len(m_read_buffer') = k
      <4>1. inbox \in Seq(Symbol)
        BY DEF TypeInv, ReadType
      <4>2. Len(SubSeq(inbox, 1, k)) = k /\ SubSeq(inbox, 1, k) \o <<>> = SubSeq(inbox, 1, k)
        BY <4>1, CutIsLong
      <4> QED
        BY <3>4, <4>2, Zenon
    <3>6. BytesIn(completions', k) /\ ~NoBytesIn(completions')
      BY <1>1, <3>1, <3>3, <3>4, ReadsOfRead
    <3>7. BytesIn(completions', Len(m_read_buffer'))
      BY <3>5, <3>6, Zenon
    <3>8. reads' <= 1 /\ io' # "receive"
      BY <3>2, <3>3
    <3> QED
      BY <3>3, <3>6, <3>7, <3>8, Zenon
  <2>4. CASE KeepsBytes(completions') /\ UNCHANGED m_read_buffer /\ ~FeedBuilder /\ ~SocketReads
    <3>1. BytesIn(completions', Len(m_read_buffer')) /\ (NoBytesIn(completions') <=> NoBytesIn(completions))
      BY <1>1, <2>1, <2>4 DEF KeepsBytes
    <3>2. CASE Received
      <4>1. io' = "idle" /\ AsyncRead(completions) /\ io = "receive"
        BY <3>2 DEF Received, ReceiveReturns, StartDisconnection, Live
      <4>2. reads' = reads + 1
        BY <2>1, <4>1 DEF AsyncRead
      <4> QED
        BY <2>1, <3>1, <4>1, <4>2
    <3>3. CASE SocketReadFails
      <4>1. reads' = reads - 1 /\ reads > 0 /\ UNCHANGED io
        BY <3>3 DEF SocketReadFails
      <4> QED
        BY <1>1, <2>1, <3>1, <4>1
    <3>4. CASE SocketClosed
      BY <3>4 DEF SocketClosed, Lost, Live
    <3>5. CASE ConnectCompletes
      BY <2>1, <3>5 DEF ConnectCompletes
    <3>6. CASE UNCHANGED reads /\ (UNCHANGED io \/ io' # "receive")
      BY <2>1, <3>1, <3>6
    <3> QED
      BY <1>4, <2>4, <3>2, <3>3, <3>4, <3>5, <3>6, ReadsAreStarted DEF ReadsStart
  <2> QED
    BY <2>2, <2>3, <2>4, BytesQueued DEF BytesStep
<1> QED
  BY <1>3, <1>4, LiveBefore DEF LiveStep

-----------------------------------------------------------------------------
(* Joined sequences.                                                       *)

LEMMA Joins ==
  \A q, w \in Seq(Nat) : \A n \in Nat :
    /\ q \o w \in Seq(Nat) /\ Append(q, n) \in Seq(Nat) /\ <<n>> \in Seq(Nat)
    /\ q \o <<>> = q /\ <<>> \o q = q /\ Append(q, n) = q \o <<n>>
<1> SUFFICES ASSUME NEW q \in Seq(Nat), NEW w \in Seq(Nat), NEW n \in Nat
             PROVE  /\ q \o w \in Seq(Nat) /\ Append(q, n) \in Seq(Nat) /\ <<n>> \in Seq(Nat)
                    /\ q \o <<>> = q /\ <<>> \o q = q /\ Append(q, n) = q \o <<n>>
  OBVIOUS
<1>1. <<n>> \in Seq(Nat) /\ q \o w \in Seq(Nat)
  BY ConcatProperties
<1>2. Append(q, n) = q \o <<n>> /\ Append(q, n) \in Seq(Nat)
  BY AppendIsConcat, AppendProperties
<1>3. q \o <<>> = q /\ <<>> \o q = q
  BY ConcatEmptySeq
<1> QED
  BY <1>1, <1>2, <1>3, Zenon

\* The last element of one list becomes the first of the next.
LEMMA MovedOver ==
  ASSUME NEW q \in Seq(Nat), NEW w \in Seq(Nat), NEW r \in Seq(Nat), NEW n \in Nat
  PROVE  (q \o Append(w, n)) \o r = (q \o w) \o (<<n>> \o r)
<1> DEFINE one == <<n>>
           qw == q \o w
<1>1. one \in Seq(Nat) /\ qw \in Seq(Nat) /\ Append(w, n) = w \o one
  BY Joins
<1>2. q \o (w \o one) = qw \o one
  BY <1>1, ConcatAssociative
<1>3. (qw \o one) \o r = qw \o (one \o r)
  BY <1>1, ConcatAssociative
<1> HIDE DEF one
<1>4. (q \o Append(w, n)) \o r = (q \o w) \o (one \o r)
  BY <1>1, <1>2, <1>3, Zenon
<1> QED
  BY <1>4 DEF one

\* The first element of one list becomes the last of the one before.
LEMMA TakenOff ==
  ASSUME NEW q \in Seq(Nat), NEW w \in Seq(Nat), NEW n \in Nat
  PROVE  Append(q, n) \o w = q \o (<<n>> \o w)
<1> DEFINE one == <<n>>
<1>1. one \in Seq(Nat) /\ Append(q, n) = q \o one
  BY Joins
<1>2. (q \o one) \o w = q \o (one \o w)
  BY <1>1, ConcatAssociative
<1> HIDE DEF one
<1>3. Append(q, n) \o w = q \o (one \o w)
  BY <1>1, <1>2, Zenon
<1> QED
  BY <1>3 DEF one

\* Lists of commands can be put together in any order.
LEMMA NatsAssociate == \A x, y, z \in Seq(Nat) : (x \o y) \o z = x \o (y \o z)
<1> DEFINE Item == Nat
<1> HIDE DEF Item
<1>1. \A x, y, z \in Seq(Item) : (x \o y) \o z = x \o (y \o z)
  BY ConcatAssociative
<1> QED
  BY <1>1 DEF Item

\* What is appended to the last of joined lists is appended to both.
LEMMA LastAppended ==
  \A q, r \in Seq(Nat) : \A n \in Nat : q \o Append(r, n) = Append(q \o r, n)
<1> SUFFICES ASSUME NEW q \in Seq(Nat), NEW r \in Seq(Nat), NEW n \in Nat
             PROVE  q \o Append(r, n) = Append(q \o r, n)
  OBVIOUS
<1> DEFINE one == <<n>>
           all == q \o r
<1>1. one \in Seq(Nat) /\ Append(r, n) = r \o one
  BY Joins
<1>2. all \in Seq(Nat)
  BY ConcatProperties
<1>3. Append(all, n) = all \o one
  BY <1>2, AppendIsConcat
<1> HIDE DEF one
<1>4. (q \o r) \o one = q \o (r \o one)
  BY <1>1, NatsAssociate, Zenon
<1> QED
  BY <1>1, <1>3, <1>4, Zenon

\* A list is its first element and the rest.
LEMMA Fronts ==
  \A q \in Seq(Nat) :
    /\ Rest(q, 0) = q
    /\ \A d \in Nat : Rest(q, d) \in Seq(Nat)
    /\ \A d \in 0..Len(q) - 1 : q[d + 1] \in Nat /\ Rest(q, d) = <<q[d + 1]>> \o Rest(q, d + 1)
    /\ q # <<>> => Head(q) \in Nat /\ Tail(q) = Rest(q, 1) /\ q = <<Head(q)>> \o Tail(q)
<1> SUFFICES ASSUME NEW q \in Seq(Nat)
             PROVE  /\ Rest(q, 0) = q
                    /\ \A d \in Nat : Rest(q, d) \in Seq(Nat)
                    /\ \A d \in 0..Len(q) - 1 : q[d + 1] \in Nat /\ Rest(q, d) = <<q[d + 1]>> \o Rest(q, d + 1)
                    /\ q # <<>> => Head(q) \in Nat /\ Tail(q) = Rest(q, 1) /\ q = <<Head(q)>> \o Tail(q)
  OBVIOUS
<1>1. Rest(q, 0) = q
  <2>1. SubSeq(q, 1, Len(q)) = q
    BY SubSeqFull
  <2> QED
    BY <2>1 DEF Rest
<1>2. \A d \in Nat : Rest(q, d) \in Seq(Nat)
  BY RestIs
<1>3. ASSUME NEW d \in 0..Len(q) - 1
      PROVE  q[d + 1] \in Nat /\ Rest(q, d) = <<q[d + 1]>> \o Rest(q, d + 1)
  <2>1. Len(q) \in Nat
    BY LenProperties
  <2>2. d + 1 \in 1..Len(q) /\ Len(q) \in d + 1..Len(q)
    BY <2>1
  <2>3. SubSeq(q, d + 1, Len(q)) = <<q[d + 1]>> \o SubSeq(q, (d + 1) + 1, Len(q))
    BY <2>2, SubSeqRecursiveFirst
  <2>4. q[d + 1] \in Nat
    BY <2>2, ElementOfSeq
  <2> QED
    BY <2>3, <2>4, Zenon DEF Rest
<1>4. ASSUME q # <<>> PROVE Head(q) \in Nat /\ Tail(q) = Rest(q, 1) /\ q = <<Head(q)>> \o Tail(q)
  <2>1. 0 \in 0..Len(q) - 1 /\ 0 + 1 = 1 /\ 1 + 1 = 2
    BY <1>4, EmptySeq
  <2>2. q[1] \in Nat /\ q = <<q[1]>> \o Rest(q, 1)
    BY <1>1, <1>3, <2>1
  <2>3. Tail(q) = Rest(q, 1)
    <3>1. Tail(q) = SubSeq(q, 2, Len(q))
      BY <1>4, TailIsSubSeq
    <3> QED
      BY <2>1, <3>1 DEF Rest
  <2>4. Head(q) = q[1]
    BY <1>4
  <2> QED
    BY <2>2, <2>3, <2>4, Zenon
<1> QED
  BY <1>1, <1>2, <1>3, <1>4

\* The first of joined lists loses its head, and so do they.
LEMMA RestOfJoined ==
  \A q, r \in Seq(Nat) : q # <<>> => q \o r # <<>> /\ Rest(q \o r, 1) = Rest(q, 1) \o r
<1> SUFFICES ASSUME NEW q \in Seq(Nat), NEW r \in Seq(Nat), q # <<>>
             PROVE  q \o r # <<>> /\ Rest(q \o r, 1) = Rest(q, 1) \o r
  OBVIOUS
<1> DEFINE h == <<Head(q)>>
           a == q \o r
           b == Tail(q) \o r
<1>1. a \in Seq(Nat) /\ a # <<>>
  BY ConcatProperties, ConcatEqualIffEmpty
<1>2. Head(q) \in Nat /\ Tail(q) = Rest(q, 1) /\ q = h \o Tail(q) /\ Tail(q) \in Seq(Nat)
  BY Fronts, HeadTailProperties
<1>3. h \in Seq(Nat) /\ b \in Seq(Nat)
  BY <1>2, ConcatProperties
<1>4. a = h \o b
  <2>1. (h \o Tail(q)) \o r = h \o (Tail(q) \o r)
    BY <1>2, <1>3, ConcatAssociative
  <2> QED
    BY <1>2, <2>1, Zenon
<1>5. Tail(a) = Rest(a, 1) /\ Head(a) \in Nat /\ Tail(a) \in Seq(Nat)
  BY <1>1, Fronts, HeadTailProperties
<1>6. Tail(a) = b
  <2>1. /\ Len(h) = 1 /\ Len(b) \in Nat /\ Len(h \o b) = Len(h) + Len(b)
        /\ \A i \in 1..Len(h) + Len(b) : (h \o b)[i] = IF i <= Len(h) THEN h[i] ELSE b[i - Len(h)]
    BY <1>3, ConcatProperties, LenProperties
  <2> HIDE DEF h, b
  <2>2. Len(Tail(a)) = Len(a) - 1 /\ \A i \in 1..Len(Tail(a)) : Tail(a)[i] = a[i + 1]
    BY <1>1, HeadTailProperties
  <2> HIDE DEF a
  <2>3. Len(Tail(a)) = Len(b)
    BY <1>4, <2>1, <2>2
  <2>4. ASSUME NEW i \in 1..Len(Tail(a)) PROVE Tail(a)[i] = b[i]
    <3>1. i + 1 \in 1..Len(h) + Len(b) /\ ~(i + 1 <= Len(h)) /\ i + 1 - Len(h) = i
      BY <2>1, <2>3
    <3>2. Tail(a)[i] = a[i + 1]
      BY <2>2
    <3>3. (h \o b)[i + 1] = b[i + 1 - Len(h)]
      BY <2>1, <3>1
    <3> QED
      BY <1>4, <3>1, <3>2, <3>3
  <2> QED
    BY <1>3, <1>5, <2>3, <2>4, SeqEqual
<1> QED
  BY <1>1, <1>2, <1>5, <1>6, Zenon

\* What is appended to a list is appended to its rest.
LEMMA RestOfAppend ==
  \A q \in Seq(Nat) : \A n \in Nat : \A d \in 0..Len(q) :
    Rest(Append(q, n), d) = Append(Rest(q, d), n)
<1> SUFFICES ASSUME NEW q \in Seq(Nat), NEW n \in Nat, NEW d \in 0..Len(q)
             PROVE  Rest(Append(q, n), d) = Append(Rest(q, d), n)
  OBVIOUS
<1> DEFINE more == Append(q, n)
           r == Rest(q, d)
           a == Rest(more, d)
           b == Append(r, n)
<1>1. Len(q) \in Nat /\ d \in Nat /\ d <= Len(q)
  BY LenProperties
<1>2. /\ more \in Seq(Nat) /\ Len(more) = Len(q) + 1 /\ more[Len(q) + 1] = n
      /\ \A i \in 1..Len(q) : more[i] = q[i]
  BY AppendProperties
<1> HIDE DEF more
<1>3. r \in Seq(Nat) /\ Len(r) = Len(q) - d /\ \A i \in 1..Len(q) - d : r[i] = q[d + i]
  BY <1>1, RestIs
<1>4. a \in Seq(Nat) /\ Len(a) = Len(more) - d /\ \A i \in 1..Len(more) - d : a[i] = more[d + i]
  <2>1. d <= Len(more)
    BY <1>1, <1>2
  <2> QED
    <3>1. /\ Rest(more, d) \in Seq(Nat)
          /\ d <= Len(more) => Len(Rest(more, d)) = Len(more) - d
          /\ \A i \in 1..Len(more) - d : Rest(more, d)[i] = more[d + i]
      BY <1>1, <1>2, RestIs
    <3> QED
      BY <2>1, <3>1
<1> HIDE DEF r, a
<1>5. /\ b \in Seq(Nat) /\ Len(b) = Len(r) + 1 /\ b[Len(r) + 1] = n
      /\ \A i \in 1..Len(r) : b[i] = r[i]
  BY <1>3, AppendProperties
<1> HIDE DEF b
<1>6. Len(a) = Len(b)
  BY <1>1, <1>2, <1>3, <1>4, <1>5
<1>7. ASSUME NEW i \in 1..Len(a) PROVE a[i] = b[i]
  <2>1. i \in 1..Len(more) - d /\ a[i] = more[d + i]
    BY <1>4
  <2>2. CASE i <= Len(r)
    <3>1. i \in 1..Len(r) /\ i \in 1..Len(q) - d /\ d + i \in 1..Len(q)
      BY <1>1, <1>3, <2>1, <2>2
    <3> QED
      BY <1>2, <1>3, <1>5, <2>1, <3>1
  <2>3. CASE ~(i <= Len(r))
    <3>2. i \in Nat /\ i <= Len(q) + 1 - d /\ ~(i <= Len(q) - d)
      BY <1>1, <1>2, <1>3, <2>1, <2>3
    <3>1. i = Len(r) + 1 /\ d + i = Len(q) + 1
      BY <1>1, <1>3, <3>2
    <3> QED
      BY <1>2, <1>5, <2>1, <3>1
  <2> QED
    BY <2>2, <2>3
<1>8. a = b
  BY <1>4, <1>5, <1>6, <1>7, SeqEqual
<1> QED
  BY <1>8 DEF a, b, r, more

\* Commands and what stands for garbage are numbers.
LEMMA ClientSequences ==
  TypeInv => /\ m_callbacks \in Seq(Nat) /\ replying \in Seq(Nat) /\ wire \in Seq(Nat)
             /\ m_write_buffer \in Seq(Nat) /\ sent \in Nat
<1> SUFFICES ASSUME TypeInv
             PROVE  /\ m_callbacks \in Seq(Nat) /\ replying \in Seq(Nat) /\ wire \in Seq(Nat)
                    /\ m_write_buffer \in Seq(Nat) /\ sent \in Nat
  OBVIOUS
<1>1. ASSUME NEW q \in Seq(Command \cup {Garbage}) PROVE q \in Seq(Nat)
  <2>1. Len(q) \in Nat /\ q = [i \in 1..Len(q) |-> q[i]] /\ \A i \in 1..Len(q) : q[i] \in Command \cup {Garbage}
    BY LenProperties, ElementOfSeq
  <2>2. \A i \in 1..Len(q) : q[i] \in Nat
    BY <2>1 DEF Command, Garbage
  <2> QED
    BY <2>1, <2>2
<1>2. ASSUME NEW q \in Seq(Command) PROVE q \in Seq(Nat)
  <2>1. Len(q) \in Nat /\ q = [i \in 1..Len(q) |-> q[i]] /\ \A i \in 1..Len(q) : q[i] \in Command
    BY LenProperties, ElementOfSeq
  <2>2. \A i \in 1..Len(q) : q[i] \in Nat
    BY <2>1 DEF Command
  <2> QED
    BY <2>1, <2>2
<1>3. m_callbacks \in Seq(Command) /\ replying \in Seq(Command) /\ wire \in Seq(Command \cup {Garbage})
  BY DEF TypeInv, CallbacksType, WireType
<1> QED
  BY <1>1, <1>2, <1>3 DEF TypeInv, BufferInv

\* The thread that holds m_callbacks_mutex is the only one with a command whose
\* callback is not pushed yet.
LEMMA UnpushedIs ==
  TypeInv => /\ m_callbacks_mutex = Free => Unpushed = <<>>
             /\ \A s \in Senders : /\ sender[s] = "appended" => Unpushed = <<sent>>
                                   /\ sender[s] = "checked" => Unpushed = <<>>
<1> SUFFICES ASSUME TypeInv
             PROVE  /\ m_callbacks_mutex = Free => Unpushed = <<>>
                    /\ \A s \in Senders : /\ sender[s] = "appended" => Unpushed = <<sent>>
                                          /\ sender[s] = "checked" => Unpushed = <<>>
  OBVIOUS
<1>1. \A s \in Senders : sender[s] # "idle" => m_callbacks_mutex = s
  BY DEF TypeInv, MutexInv
<1>2. m_callbacks_mutex = Free => ~\E s \in Senders : sender[s] = "appended"
  BY <1>1, ClientAssumption
<1>3. ASSUME NEW s \in Senders, sender[s] = "checked" PROVE ~\E t \in Senders : sender[t] = "appended"
  BY <1>1, <1>3
<1> QED
  BY <1>2, <1>3 DEF Unpushed

-----------------------------------------------------------------------------
(* The callbacks are, in this order, those of the commands.                *)

Unwritten == Rest(m_write_buffer, write_op.done)
Commands == (replying \o wire) \o Unwritten
Callers == m_callbacks \o Unpushed

OrderInv == Live => Callers = Commands

LEMMA ClientLists ==
  TypeInv => Commands \in Seq(Nat) /\ Callers \in Seq(Nat) /\ Unwritten \in Seq(Nat)
  /\ Unpushed \in Seq(Nat)
<1> SUFFICES ASSUME TypeInv
             PROVE  Commands \in Seq(Nat) /\ Callers \in Seq(Nat) /\ Unwritten \in Seq(Nat) /\ Unpushed \in Seq(Nat)
  OBVIOUS
<1>1. write_op.done \in Nat
  BY DEF TypeInv, BufferInv
<1>2. Unwritten \in Seq(Nat)
  BY <1>1, ClientSequences, Fronts DEF Unwritten
<1>3. Unpushed \in Seq(Nat)
  <2>1. <<sent>> \in Seq(Nat) /\ <<>> \in Seq(Nat)
    BY ClientSequences
  <2> QED
    BY <2>1 DEF Unpushed
<1>4. replying \o wire \in Seq(Nat)
  BY ClientSequences, ConcatProperties
<1> QED
  BY <1>2, <1>3, <1>4, ClientSequences, ConcatProperties DEF Commands, Callers

\* A callback is pushed after its command is appended, and handed over in its turn.
CallersStep ==
  \/ HandOver \/ ClearCallbacks
  \/ sent' = sent /\ Callers' = Callers
  \/ sent' = sent + 1 /\ Callers' = Append(Callers, sent + 1)

LEMMA CallersAreKept == TypeInv /\ [ClientNext]_vars => CallersStep
<1> SUFFICES ASSUME TypeInv, [ClientNext]_vars PROVE CallersStep
  OBVIOUS
<1> USE DEF CallersStep, clientVars, linkVars, opVars, bufVars, ownerVars, sendVars, netVars, Notify,
            StartDisconnection
<1>11. sender \in [Senders -> {"idle", "checked", "appended"}]
  BY DEF TypeInv, SenderType
<1>0. ASSUME UNCHANGED <<m_callbacks, sender, sent>> PROVE CallersStep
  <2>1. Unpushed' = Unpushed
    BY <1>0, Zenon DEF Unpushed
  <2> QED
    BY <1>0, <2>1, Zenon DEF Callers
<1>1. CASE UNCHANGED vars
  BY <1>0, Zenon, <1>1 DEF vars, tcpVars
<1>2. CASE (Connect \/ Disconnect \/ TestNotified \/ StartWaiting \/ WakesSpuriously) /\ UNCHANGED clientVars
  BY <1>0, Zenon, <1>2 DEF Connect, Disconnect, TestNotified, StartWaiting, WakesSpuriously
<1>3. CASE (ConnectCompletes \/ SocketWrites \/ WriteFails) /\ UNCHANGED clientVars
  BY <1>0, Zenon, <1>3 DEF ConnectCompletes, SocketWrites, WriteFails, CloseSocket
<1>4. CASE (SocketReads \/ SocketReadFails \/ ServerCloses) /\ UNCHANGED clientVars
  BY <1>0, Zenon, <1>4 DEF SocketReads, SocketReadFails, ServerCloses
<1>5. CASE ClientConnected
  BY <1>0, Zenon, <1>5 DEF ClientConnected, HandleConnect, AsyncRead
<1>6. CASE FeedBuilder \/ Decode \/ HandOver \/ Received
  <2>1. CASE FeedBuilder \/ Decode \/ Received
    BY <1>0, <2>1, Zenon DEF FeedBuilder, Decode, Received, HandleRead, ReceiveReturns, AsyncRead, tcpVars
  <2> QED
    BY <1>6, <2>1, Zenon
<1>7. CASE SocketClosed \/ ClearCallbacks
  <2>1. CASE SocketClosed
    BY <1>0, <2>1, Zenon DEF SocketClosed, Lost, HandleClose, Disconnection, CloseSocket
  <2> QED
    BY <1>7, <2>1, Zenon
<1>8. CASE HandleWrite /\ UNCHANGED clientVars
  BY <1>0, Zenon, <1>8 DEF HandleWrite
<1>9. CASE RedisAnswers
  BY <1>0, Zenon, <1>9 DEF RedisAnswers, ServerAnswers
<1>10. ASSUME NEW s \in Senders, LockAndCheck(s) \/ SendCommand(s) \/ PushCallback(s)
       PROVE  CallersStep
  <2>1. CASE LockAndCheck(s)
    <3>1. /\ m_callbacks' = m_callbacks /\ sent' = sent /\ m_callbacks_mutex = Free
          /\ sender' = [sender EXCEPT ![s] = "checked"] /\ sender[s] = "idle"
      BY <2>1, Zenon DEF LockAndCheck, SendChecks
    <3>2. \A t \in Senders : sender'[t] = "appended" <=> sender[t] = "appended"
      BY <1>11, <3>1
    <3>3. Unpushed' = Unpushed
      BY <3>1, <3>2, Zenon DEF Unpushed
    <3> QED
      BY <3>1, <3>3, Zenon DEF Callers
  <2>2. CASE SendCommand(s)
    <3>1. /\ m_callbacks' = m_callbacks /\ sent' = sent + 1 /\ sender[s] = "checked"
          /\ sender' = [sender EXCEPT ![s] = "appended"]
      BY <2>2, Zenon DEF SendCommand, SendAppends
    <3>2. sender'[s] = "appended"
      BY <1>11, <3>1
    <3>3. Unpushed = <<>> /\ Unpushed' = <<sent + 1>>
      BY <3>1, <3>2, UnpushedIs, Zenon DEF Unpushed
    <3>4. m_callbacks \o <<sent + 1>> = Append(m_callbacks \o <<>>, sent + 1)
      <4>1. m_callbacks \in Seq(Nat) /\ sent + 1 \in Nat
        BY ClientSequences
      <4> QED
        BY <4>1, Joins
    <3> QED
      BY <3>1, <3>3, <3>4, Zenon DEF Callers
  <2>3. CASE PushCallback(s)
    <3>1. /\ m_callbacks' = Append(m_callbacks, sent) /\ sender[s] = "appended"
          /\ sender' = [sender EXCEPT ![s] = "idle"]
      BY <2>3, Zenon DEF PushCallback
    <3>5. sent' = sent
      BY <2>3, Zenon DEF PushCallback
    <3>2. \A t \in Senders : sender'[t] # "appended"
      <4> SUFFICES ASSUME NEW t \in Senders, sender'[t] = "appended" PROVE FALSE
        OBVIOUS
      <4>1. t # s /\ sender[t] = "appended"
        BY <1>11, <3>1
      <4>2. m_callbacks_mutex = s /\ m_callbacks_mutex = t
        BY <3>1, <4>1 DEF TypeInv, MutexInv
      <4> QED
        BY <4>1, <4>2
    <3>3. Unpushed = <<sent>> /\ Unpushed' = <<>>
      BY <3>1, <3>2, UnpushedIs, Zenon DEF Unpushed
    <3>4. Append(m_callbacks, sent) \o <<>> = m_callbacks \o <<sent>>
      <4>1. m_callbacks \in Seq(Nat) /\ sent \in Nat
        BY ClientSequences
      <4>2. Append(m_callbacks, sent) \in Seq(Nat) /\ Append(m_callbacks, sent) = m_callbacks \o <<sent>>
        BY <4>1, Joins
      <4>3. Append(m_callbacks, sent) \o <<>> = Append(m_callbacks, sent)
        BY <4>2, ConcatEmptySeq
      <4> QED
        BY <4>2, <4>3, Zenon
    <3> QED
      BY <3>1, <3>3, <3>4, <3>5, Zenon DEF Callers
  <2> QED
    BY <1>10, <2>1, <2>2, <2>3
<1> QED
  BY <1>1, <1>2, <1>3, <1>4, <1>5, <1>6, <1>7, <1>8, <1>9, <1>10, ClientSteps

\* A command is written, answered, or erased in its turn; none is skipped.
CommandsStep ==
  \/ HandOver
  \/ sent' = sent /\ Commands' = Commands
  \/ sent' = sent + 1 /\ Commands' = Append(Commands, sent + 1)

LEMMA CommandsAreKept ==
  TypeInv /\ WriteInv /\ SoundInv /\ Live /\ Live' /\ [ClientNext]_vars => CommandsStep
<1> SUFFICES ASSUME TypeInv, WriteInv, SoundInv, Live, Live', [ClientNext]_vars PROVE CommandsStep
  OBVIOUS
<1> USE DEF CommandsStep, clientVars, linkVars, opVars, bufVars, ownerVars, sendVars, netVars, Notify,
            StartDisconnection
<1>11. write_op \in [pc : {"none", "writing", "over"}, n : Nat, done : Nat, moved : BOOLEAN]
  BY DEF TypeInv, BufferInv
<1>12. m_socket = "open" /\ ~write_op.moved
  BY DEF SoundInv, Live
<1>0. ASSUME UNCHANGED <<replying, wire, m_write_buffer, sent>>, write_op' = write_op \/ write_op'.done = write_op.done
      PROVE  CommandsStep
  <2>1. write_op'.done = write_op.done
    BY <1>0
  <2>2. Unwritten' = Unwritten
    BY <1>0, <2>1, Zenon DEF Unwritten
  <2> QED
    BY <1>0, <2>2, Zenon DEF Commands
<1>1. CASE UNCHANGED vars
  BY <1>0, Zenon, <1>1 DEF vars, tcpVars
<1>2. CASE (Connect \/ Disconnect \/ TestNotified \/ StartWaiting \/ WakesSpuriously) /\ UNCHANGED clientVars
  BY <1>0, Zenon, <1>2 DEF Connect, Disconnect, TestNotified, StartWaiting, WakesSpuriously
<1>3. CASE (ConnectCompletes \/ SocketWrites \/ WriteFails) /\ UNCHANGED clientVars
  <2>1. CASE ConnectCompletes
    BY <1>12, <2>1 DEF ConnectCompletes
  <2>2. CASE SocketWrites
    <3>1. UNCHANGED <<replying, m_write_buffer, sent>> /\ write_op.pc = "writing"
      BY <1>3, <2>2, Zenon DEF SocketWrites
    <3>2. /\ write_op.done \in 0..Len(m_write_buffer) - 1
          /\ write_op'.done = write_op.done + 1
      <4>1. \/ write_op' = [write_op EXCEPT !.done = @ + 1, !.pc = "over"]
            \/ write_op' = [write_op EXCEPT !.done = @ + 1]
        BY <2>2, Zenon DEF SocketWrites
      <4>2. write_op'.done = write_op.done + 1
        BY <1>11, <4>1
      <4>3. write_op.done < write_op.n /\ write_op.n \in 1..Len(m_write_buffer)
        BY <3>1 DEF TypeInv, BufferInv, WritesStayInBuffer
      <4> QED
        BY <1>11, <4>2, <4>3, LenProperties, ClientSequences
    <3> DEFINE unit == m_write_buffer[write_op.done + 1]
               rest == Rest(m_write_buffer, write_op.done + 1)
    <3>3. wire' = Append(wire, unit)
      <4>1. wire' = Append(wire, unit) \/ write_op.moved
        BY <2>2 DEF SocketWrites
      <4> QED
        BY <1>12, <4>1
    <3>4. unit \in Nat /\ Rest(m_write_buffer, write_op.done) = <<unit>> \o rest /\ rest \in Seq(Nat)
      <4>1. m_write_buffer \in Seq(Nat) /\ write_op.done + 1 \in Nat
        BY <1>11, ClientSequences
      <4> QED
        BY <3>2, <4>1, Fronts, Zenon
    <3>5. (replying \o Append(wire, unit)) \o rest = (replying \o wire) \o (<<unit>> \o rest)
      <4> HIDE DEF unit, rest
      <4>1. replying \in Seq(Nat) /\ wire \in Seq(Nat)
        BY ClientSequences
      <4> QED
        BY <3>4, <4>1, MovedOver
    <3> HIDE DEF unit
    <3> QED
      BY <3>1, <3>2, <3>3, <3>4, <3>5, Zenon DEF Commands, Unwritten
  <2>3. CASE WriteFails
    <3>1. UNCHANGED <<replying, m_write_buffer, wire, sent>> /\ write_op' = [write_op EXCEPT !.pc = "over"]
      BY <1>3, <2>3, Zenon DEF WriteFails
    <3>2. write_op'.done = write_op.done
      BY <1>11, <3>1
    <3> QED
      BY <1>0, <3>1, <3>2, Zenon
  <2> QED
    BY <1>3, <2>1, <2>2, <2>3, Zenon
<1>4. CASE (SocketReads \/ SocketReadFails \/ ServerCloses) /\ UNCHANGED clientVars
  BY <1>0, Zenon, <1>4 DEF SocketReads, SocketReadFails, ServerCloses
<1>5. CASE ClientConnected
  BY <1>0, Zenon, <1>5 DEF ClientConnected, HandleConnect, AsyncRead
<1>6. CASE FeedBuilder \/ Decode \/ HandOver \/ Received
  <2>1. CASE FeedBuilder \/ Decode \/ Received
    BY <1>0, <2>1, Zenon DEF FeedBuilder, Decode, Received, HandleRead, ReceiveReturns, AsyncRead, tcpVars
  <2> QED
    BY <1>6, <2>1, Zenon
<1>7. CASE SocketClosed \/ ClearCallbacks
  <2>1. CASE SocketClosed
    BY <2>1 DEF SocketClosed, Lost, Live
  <2>2. CASE ClearCallbacks
    BY <1>0, <2>2, Zenon DEF ClearCallbacks, CallDisconnectionHandler
  <2> QED
    BY <1>7, <2>1, <2>2, Zenon
<1>8. CASE HandleWrite /\ UNCHANGED clientVars
  <2>1. completions # <<>> /\ Head(completions).op = "write" /\ Head(completions).ok
    BY <1>8 DEF HandleWrite, Runs, Live
  <2>2. write_op.done = write_op.n
    <3>1. 1 \in DOMAIN completions /\ Head(completions) = completions[1]
      BY <2>1, QueuePopped DEF TypeInv, QueueType
    <3>2. WrittenIn(completions)
      BY <2>1, <3>1 DEF WrittenIn
    <3> QED
      BY <3>2 DEF WriteInv
  <2>3. m_write_buffer' = Unwritten
    BY <1>8, <2>1, <2>2 DEF HandleWrite, Unwritten
  <2>4. write_op'.done = 0
    <3>1. write_op' = NoWrite \/ AsyncWrite(m_write_buffer', Tail(completions))
      BY <1>8, <2>1 DEF HandleWrite, WriteNext
    <3>2. ASSUME NEW buffer, NEW q, AsyncWrite(buffer, q) PROVE write_op'.done = 0
      BY <3>2 DEF AsyncWrite
    <3> QED
      BY <3>1, <3>2 DEF NoWrite
  <2>5. Rest(Unwritten, 0) = Unwritten
    BY ClientLists, Fronts
  <2>6. Unwritten' = Unwritten
    BY <2>3, <2>4, <2>5, Zenon DEF Unwritten
  <2>7. UNCHANGED <<replying, wire, sent>>
    BY <1>8, Zenon DEF HandleWrite
  <2> QED
    BY <2>6, <2>7, Zenon DEF Commands
<1>9. CASE RedisAnswers
  <2>1. /\ wire # <<>> /\ wire' = Tail(wire) /\ replying' = Append(replying, Head(wire))
        /\ UNCHANGED <<m_write_buffer, write_op, sent>>
    BY <1>9, Zenon DEF RedisAnswers, ServerAnswers
  <2>2. wire \in Seq(Nat) /\ replying \in Seq(Nat)
    BY ClientSequences
  <2>3. Head(wire) \in Nat /\ wire = <<Head(wire)>> \o Tail(wire) /\ Tail(wire) \in Seq(Nat)
    BY <2>1, <2>2, Fronts, HeadTailProperties
  <2>4. Append(replying, Head(wire)) \o Tail(wire) = replying \o (<<Head(wire)>> \o Tail(wire))
    BY <2>2, <2>3, TakenOff
  <2> QED
    BY <2>1, <2>3, <2>4, Zenon DEF Commands, Unwritten
<1>10. ASSUME NEW s \in Senders, LockAndCheck(s) \/ SendCommand(s) \/ PushCallback(s)
       PROVE  CommandsStep
  <2>1. CASE LockAndCheck(s) \/ PushCallback(s)
    BY <1>0, <2>1, Zenon DEF LockAndCheck, PushCallback, SendChecks
  <2>2. CASE SendCommand(s)
    <3>1. /\ UNCHANGED <<replying, wire>> /\ m_write_buffer' = Append(m_write_buffer, sent + 1)
          /\ sent' = sent + 1
      BY <2>2, Zenon DEF SendCommand, SendAppends
    <3>2. write_op'.done = write_op.done /\ write_op.done \in 0..Len(m_write_buffer)
      <4>1. CASE m_write_buffer # <<>>
        <5>1. PICK moved \in {write_op.moved, write_op.pc = "writing"} :
                 write_op' = [write_op EXCEPT !.moved = @ \/ moved]
          BY <2>2, <4>1 DEF SendCommand, SendAppends
        <5>2. write_op'.done = write_op.done
          BY <1>11, <5>1
        <5>3. write_op.done \in 0..Len(m_write_buffer)
          <6>1. Len(m_write_buffer) \in Nat
            BY ClientSequences, LenProperties
          <6>2. \/ write_op.done = 0
                \/ write_op.n \in 1..Len(m_write_buffer) /\ write_op.done \in 0..write_op.n
            BY DEF TypeInv, BufferInv, WritesStayInBuffer, NoWrite
          <6> QED
            BY <6>1, <6>2
        <5> QED
          BY <5>2, <5>3
      <4>2. CASE m_write_buffer = <<>>
        <5>1. AsyncWrite(m_write_buffer', completions)
          BY <2>2, <4>2 DEF SendCommand, SendAppends
        <5>2. write_op'.done = 0
          BY <5>1 DEF AsyncWrite
        <5>3. Len(m_write_buffer) = 0
          BY <4>2
        <5>4. write_op.done = 0
          BY <5>3 DEF TypeInv, BufferInv, WritesStayInBuffer, NoWrite
        <5> QED
          BY <5>2, <5>3, <5>4
      <4> QED
        BY <4>1, <4>2
    <3>3. sent + 1 \in Nat /\ m_write_buffer \in Seq(Nat) /\ replying \in Seq(Nat) /\ wire \in Seq(Nat)
      BY ClientSequences
    <3>4. Unwritten' = Append(Unwritten, sent + 1)
      <4>1. Rest(Append(m_write_buffer, sent + 1), write_op.done) = Append(Rest(m_write_buffer, write_op.done), sent + 1)
        <5> DEFINE d == write_op.done
                   e == sent + 1
        <5>1. m_write_buffer \in Seq(Nat) /\ e \in Nat /\ d \in 0..Len(m_write_buffer)
          BY <3>2, <3>3
        <5> HIDE DEF d, e
        <5>2. Rest(Append(m_write_buffer, e), d) = Append(Rest(m_write_buffer, d), e)
          BY <5>1, RestOfAppend
        <5> QED
          BY <5>2 DEF d, e
      <4> QED
        BY <3>1, <3>2, <4>1, Zenon DEF Unwritten
    <3>5. (replying \o wire) \o Append(Unwritten, sent + 1) = Append((replying \o wire) \o Unwritten, sent + 1)
      <4> DEFINE front == replying \o wire
                 rest == Unwritten
                 e == sent + 1
      <4>1. front \in Seq(Nat) /\ rest \in Seq(Nat) /\ e \in Nat
        BY <3>3, ClientLists, ConcatProperties
      <4> HIDE DEF front, rest, e
      <4>2. front \o Append(rest, e) = Append(front \o rest, e)
        BY <4>1, LastAppended, Zenon
      <4> QED
        BY <4>2 DEF front, rest, e
    <3> QED
      BY <3>1, <3>4, <3>5, Zenon DEF Commands
  <2> QED
    BY <1>10, <2>1, <2>2
<1> QED
  BY <1>1, <1>2, <1>3, <1>4, <1>5, <1>6, <1>7, <1>8, <1>9, <1>10, ClientSteps

-----------------------------------------------------------------------------
(* Decoder b has decoded the first replies to the commands in expected, and *)
(* what it holds is, with what is to come later, the replies to the others. *)

Decodes(b, later, expected) ==
  /\ ~b.thrown /\ Len(b.replies) <= Len(expected)
  /\ \A i \in 1..Len(b.replies) : b.replies[i] = ReplyTo(expected[i])
  /\ Streams(Unfinished(b) \o later, Rest(expected, Len(b.replies)))

\* A new decoder has nothing decoded and nothing to come.
LEMMA FreshDecodes == Decodes(NoReplyYet, <<>>, <<>>)
<1> DEFINE none == <<>>
<1>1. none \in Seq(Symbol) /\ none \in Seq(Nat) /\ Len(none) = 0 /\ none \o none = none /\ 1..0 = {}
  BY EmptySeq
<1>2. Rest(none, 0) = none
  BY <1>1, Fronts
<1>3. Streams(none, none)
  BY <1>1, NoNumbersNoBytes
<1>4. ~NoReplyYet.thrown /\ NoReplyYet.replies = none /\ Unfinished(NoReplyYet) = none
  BY <1>1 DEF NoReplyYet, Unfinished
<1> HIDE DEF none
<1>5. Decodes(NoReplyYet, none, none)
  BY <1>1, <1>2, <1>3, <1>4 DEF Decodes
<1> QED
  BY <1>5 DEF none

LEMMA SymbolsAssociate == \A x, y, z \in Seq(Symbol) : (x \o y) \o z = x \o (y \o z)
<1> SUFFICES ASSUME NEW x \in Seq(Symbol), NEW y \in Seq(Symbol), NEW z \in Seq(Symbol)
             PROVE  (x \o y) \o z = x \o (y \o z)
  OBVIOUS
<1> QED
  BY ConcatAssociative

LEMMA SymbolsJoin == \A x, y \in Seq(Symbol) : x \o y \in Seq(Symbol)
  BY ConcatProperties

\* Bytes that a read brings were to come, and now the decoder holds them.
LEMMA GivenDecodes ==
  ASSUME NEW b \in NumberDecoder, NEW data \in Seq(Symbol), NEW later \in Seq(Symbol),
         NEW expected, Decodes(b, data \o later, expected)
  PROVE  Decodes(Given(b, data), <<>> \o later, expected)
<1> DEFINE g == Given(b, data)
           mark == IF b.m_builder = <<>> THEN <<>> ELSE <<Number>>
           buffer == b.m_buffer
<1>1. mark \in Seq(Symbol) /\ buffer \in Seq(Symbol)
  <2>1. Number \in Symbol
    BY DEF Symbol
  <2>2. <<Number>> \in Seq(Symbol) /\ <<>> \in Seq(Symbol)
    BY <2>1
  <2>3. buffer \in Seq(Symbol)
    BY DEF NumberDecoder
  <2> QED
    BY <2>2, <2>3
<1>2. g.m_buffer = buffer \o data /\ g.m_builder = b.m_builder /\ g.replies = b.replies /\ ~g.thrown
  BY DEF Given, NumberDecoder
<1>3. Unfinished(b) = mark \o buffer /\ Unfinished(g) = mark \o (buffer \o data)
  BY <1>2 DEF Unfinished
<1> HIDE DEF mark, buffer, g
<1>4. mark \o buffer \in Seq(Symbol) /\ <<>> \o later = later
  <2>1. mark \o buffer \in Seq(Symbol)
    BY <1>1, SymbolsJoin, Zenon
  <2> QED
    BY <2>1, ConcatEmptySeq
<1>5. /\ mark \o (buffer \o data) = (mark \o buffer) \o data
      /\ ((mark \o buffer) \o data) \o later = (mark \o buffer) \o (data \o later)
  <2>1. (mark \o buffer) \o data = mark \o (buffer \o data)
    BY <1>1, SymbolsAssociate, Zenon
  <2>2. ((mark \o buffer) \o data) \o later = (mark \o buffer) \o (data \o later)
    BY <1>4, SymbolsAssociate, Zenon
  <2> QED
    BY <2>1, <2>2, Zenon
<1>6. Unfinished(g) \o (<<>> \o later) = Unfinished(b) \o (data \o later)
  BY <1>3, <1>4, <1>5, Zenon
<1> QED
  BY <1>2, <1>6, Zenon DEF Decodes, g

\* A step of the decoder decodes at most the next of the expected replies.
LEMMA BuildDecodes ==
  ASSUME NEW b \in NumberDecoder, NEW later \in Seq(Symbol), NEW expected \in Seq(Nat),
         Decodes(b, later, expected)
  PROVE  Decodes(Build(b), later, expected)
<1> DEFINE n == Len(b.replies)
           numbers == Rest(expected, n)
<1>1. b.replies \in Seq([type : {Number}, val : Nat]) /\ n \in Nat /\ Len(expected) \in Nat
  BY LenProperties DEF NumberDecoder
<1>2. /\ ~b.thrown /\ n <= Len(expected)
      /\ \A i \in 1..n : b.replies[i] = ReplyTo(expected[i])
      /\ Streams(Unfinished(b) \o later, numbers)
  BY DEF Decodes
<1>3. numbers \in Seq(Nat) /\ Len(numbers) = Len(expected) - n /\ \A i \in 1..Len(expected) - n : numbers[i] = expected[n + i]
  <2>1. /\ Rest(expected, n) \in Seq(Nat)
        /\ n <= Len(expected) => Len(Rest(expected, n)) = Len(expected) - n
        /\ \A i \in 1..Len(expected) - n : Rest(expected, n)[i] = expected[n + i]
    BY <1>1, RestIs
  <2> QED
    BY <1>2, <2>1
<1> HIDE DEF numbers
<1>4. /\ ~Build(b).thrown
      /\ \/ /\ Build(b).replies = b.replies
            /\ Streams(Unfinished(Build(b)) \o later, numbers)
         \/ /\ numbers # <<>>
            /\ Build(b).replies = Append(b.replies, NumberReply(numbers[1]))
            /\ Streams(Unfinished(Build(b)) \o later, Tail(numbers))
  BY <1>2, <1>3, DecoderFollowsStream
<1>5. CASE Build(b).replies = b.replies /\ Streams(Unfinished(Build(b)) \o later, numbers)
  BY <1>2, <1>4, <1>5 DEF Decodes, numbers
<1>6. CASE /\ numbers # <<>>
           /\ Build(b).replies = Append(b.replies, NumberReply(numbers[1]))
           /\ Streams(Unfinished(Build(b)) \o later, Tail(numbers))
  <2> DEFINE more == Build(b).replies
  <2>1. n + 1 <= Len(expected) /\ numbers[1] = expected[n + 1]
    <3>1. Len(numbers) \in Nat \ {0}
      BY <1>3, <1>6, EmptySeq
    <3>2. n + 1 <= Len(expected) /\ 1 \in 1..Len(expected) - n
      BY <1>1, <1>3, <3>1
    <3> QED
      BY <1>3, <3>2
  <2>2. expected[n + 1] \in Nat
    <3>1. n + 1 \in 1..Len(expected)
      BY <1>1, <2>1
    <3> QED
      BY <3>1, ElementOfSeq
  <2>3. Len(more) = n + 1 /\ more[n + 1] = NumberReply(expected[n + 1]) /\ \A i \in 1..n : more[i] = b.replies[i]
    <3>1. NumberReply(expected[n + 1]) \in [type : {Number}, val : Nat]
      BY <2>2 DEF NumberReply
    <3> QED
      BY <1>1, <1>6, <2>1, <3>1, AppendProperties
  <2> HIDE DEF more
  <2>4. ASSUME NEW i \in 1..n + 1 PROVE more[i] = ReplyTo(expected[i])
    <3>1. CASE i = n + 1
      BY <2>3, <3>1 DEF ReplyTo, NumberReply
    <3>2. CASE i # n + 1
      <4>1. i \in 1..n
        BY <1>1, <3>2
      <4> QED
        BY <1>2, <2>3, <4>1
    <3> QED
      BY <3>1, <3>2
  <2>5. Tail(numbers) = Rest(expected, n + 1)
    <3>1. n + 1 \in 1..Len(expected) /\ Len(expected) \in n + 1..Len(expected)
      BY <1>1, <2>1
    <3>2. Tail(SubSeq(expected, n + 1, Len(expected))) = SubSeq(expected, (n + 1) + 1, Len(expected))
      BY <3>1, HeadTailOfSubSeq
    <3> QED
      BY <3>2, Zenon DEF Rest, numbers
  <2>6. Streams(Unfinished(Build(b)) \o later, Rest(expected, n + 1))
    BY <1>6, <2>5
  <2>7. /\ n + 1 = Len(Build(b).replies) /\ \A i \in 1..n + 1 : Build(b).replies[i] = ReplyTo(expected[i])
    BY <2>3, <2>4 DEF more
  <2> HIDE DEF n
  <2> QED
    BY <1>4, <2>1, <2>6, <2>7, Zenon DEF Decodes
<1> QED
  BY <1>4, <1>5, <1>6

LEMMA RestOfRest ==
  \A q \in Seq(Nat) : \A n \in 1..Len(q) :
    Rest(Rest(q, 1), n - 1) = Rest(q, n) /\ Len(Rest(q, 1)) = Len(q) - 1
<1> SUFFICES ASSUME NEW q \in Seq(Nat), NEW n \in 1..Len(q)
             PROVE  Rest(Rest(q, 1), n - 1) = Rest(q, n) /\ Len(Rest(q, 1)) = Len(q) - 1
  OBVIOUS
<1> DEFINE l == Len(q)
           r == Rest(q, 1)
           a == Rest(r, n - 1)
           b == Rest(q, n)
<1>1. l \in Nat /\ n \in Nat /\ 1 <= n /\ n <= l /\ n - 1 \in Nat
  BY LenProperties
<1>2. r \in Seq(Nat) /\ Len(r) = l - 1 /\ \A i \in 1..l - 1 : r[i] = q[1 + i]
  BY <1>1, RestIs
<1>3. b \in Seq(Nat) /\ Len(b) = l - n /\ \A i \in 1..l - n : b[i] = q[n + i]
  BY <1>1, RestIs
<1> HIDE DEF r, b, l
<1>4. a \in Seq(Nat) /\ Len(a) = l - n /\ \A i \in 1..l - n : a[i] = r[(n - 1) + i]
  <2>1. /\ Rest(r, n - 1) \in Seq(Nat)
        /\ n - 1 <= Len(r) => Len(Rest(r, n - 1)) = Len(r) - (n - 1)
        /\ \A i \in 1..Len(r) - (n - 1) : Rest(r, n - 1)[i] = r[(n - 1) + i]
    <3> DEFINE m == n - 1
    <3>1. m \in Nat /\ r \in Seq(Nat)
      BY <1>1, <1>2
    <3> HIDE DEF m
    <3>2. /\ Rest(r, m) \in Seq(Nat)
          /\ m <= Len(r) => Len(Rest(r, m)) = Len(r) - m
          /\ \A i \in 1..Len(r) - m : Rest(r, m)[i] = r[m + i]
      BY <3>1, RestIs
    <3> QED
      BY <3>2 DEF m
  <2>2. n - 1 <= Len(r) /\ Len(r) - (n - 1) = l - n
    BY <1>1, <1>2
  <2> QED
    BY <2>1, <2>2, Zenon
<1> HIDE DEF a
<1>5. ASSUME NEW i \in 1..l - n PROVE a[i] = b[i]
  <2>1. (n - 1) + i \in 1..l - 1 /\ 1 + ((n - 1) + i) = n + i
    BY <1>1
  <2> QED
    BY <1>2, <1>3, <1>4, <2>1
<1>6. a = b
  BY <1>3, <1>4, <1>5, SeqEqual
<1> QED
  BY <1>2, <1>6 DEF a, b, r, l

\* The reply that is handed over is that to the first command.
LEMMA HandedDecodes ==
  ASSUME NEW b \in NumberDecoder, NEW later, NEW expected \in Seq(Nat),
         Decodes(b, later, expected), b.replies # <<>>
  PROVE  expected # <<>> /\ Decodes([b EXCEPT !.replies = Tail(@)], later, Rest(expected, 1))
<1> DEFINE n == Len(b.replies)
           h == [b EXCEPT !.replies = Tail(@)]
           fewer == Rest(expected, 1)
<1>1. b.replies \in Seq([type : {Number}, val : Nat]) /\ n \in Nat /\ n >= 1 /\ Len(expected) \in Nat
  BY LenProperties, EmptySeq DEF NumberDecoder
<1>2. /\ ~b.thrown /\ n <= Len(expected)
      /\ \A i \in 1..n : b.replies[i] = ReplyTo(expected[i])
      /\ Streams(Unfinished(b) \o later, Rest(expected, n))
  BY DEF Decodes
<1>3. /\ h.replies = Tail(b.replies) /\ h.m_buffer = b.m_buffer /\ h.m_builder = b.m_builder
      /\ h.thrown = b.thrown
  BY DEF NumberDecoder
<1>4. /\ Len(Tail(b.replies)) = n - 1
      /\ \A i \in 1..n - 1 : Tail(b.replies)[i] = b.replies[i + 1]
  BY <1>1, HeadTailProperties
<1>5. n \in 1..Len(expected)
  BY <1>1, <1>2
<1>6. Rest(fewer, n - 1) = Rest(expected, n) /\ Len(fewer) = Len(expected) - 1
  BY <1>5, RestOfRest
<1>7. \A i \in 1..Len(expected) - 1 : fewer[i] = expected[1 + i]
  BY RestIs
<1>8. Unfinished(h) = Unfinished(b)
  BY <1>3, Zenon DEF Unfinished
<1> HIDE DEF h, fewer, n
<1>9. ASSUME NEW i \in 1..n - 1 PROVE h.replies[i] = ReplyTo(fewer[i])
  <2>1. i + 1 \in 1..n /\ i \in 1..Len(expected) - 1 /\ 1 + i = i + 1
    BY <1>1, <1>2
  <2> QED
    BY <1>2, <1>3, <1>4, <1>7, <2>1
<1>10. n - 1 <= Len(fewer)
  BY <1>1, <1>2, <1>6
<1>11. Decodes(h, later, fewer)
  BY <1>2, <1>3, <1>4, <1>6, <1>8, <1>9, <1>10, Zenon DEF Decodes
<1>12. expected # <<>>
  BY <1>5
<1> QED
  BY <1>11, <1>12 DEF h, fewer

\* An answer of the server brings the bytes of the next reply.
LEMMA AnsweredDecodes ==
  ASSUME NEW b \in NumberDecoder, NEW data \in Seq(Symbol), NEW later \in Seq(Symbol),
         NEW expected \in Seq(Nat), NEW n \in Nat, Decodes(b, data \o later, expected)
  PROVE  Decodes(b, data \o (later \o Bytes(n)), Append(expected, n))
<1> DEFINE l == Len(b.replies)
           u == Unfinished(b)
           bytes == Bytes(n)
           more == Append(expected, n)
<1>1. b.replies \in Seq([type : {Number}, val : Nat]) /\ l \in Nat /\ Len(expected) \in Nat
  BY LenProperties DEF NumberDecoder
<1>2. /\ ~b.thrown /\ l <= Len(expected)
      /\ \A i \in 1..l : b.replies[i] = ReplyTo(expected[i])
      /\ Streams(u \o (data \o later), Rest(expected, l))
  BY DEF Decodes
<1>3. u \in Seq(Symbol) /\ bytes \in Seq(Symbol)
  BY UnfinishedIsSymbols, BytesShape
<1>4. Len(more) = Len(expected) + 1 /\ \A i \in 1..Len(expected) : more[i] = expected[i]
  BY AppendProperties
<1>5. Rest(more, l) = Append(Rest(expected, l), n) /\ Rest(expected, l) \in Seq(Nat)
  <2>1. l \in 0..Len(expected)
    BY <1>1, <1>2
  <2> HIDE DEF l
  <2>2. Rest(more, l) = Append(Rest(expected, l), n)
    BY <2>1, RestOfAppend, Zenon
  <2>3. Rest(expected, l) \in Seq(Nat)
    BY <1>1, <2>1, Fronts
  <2> QED
    BY <2>2, <2>3
<1> HIDE DEF u, l
<1>6. data \o later \in Seq(Symbol) /\ u \o (data \o later) \in Seq(Symbol)
  <2>1. data \o later \in Seq(Symbol)
    BY SymbolsJoin, Zenon
  <2>2. u \o (data \o later) \in Seq(Symbol)
    BY <1>3, <2>1, SymbolsJoin, Zenon
  <2> QED
    BY <2>1, <2>2
<1>7. Streams((u \o (data \o later)) \o bytes, Rest(more, l))
  BY <1>2, <1>5, <1>6, StreamGrows
<1> HIDE DEF bytes
<1>8. (u \o (data \o later)) \o bytes = u \o (data \o (later \o bytes))
  <2> DEFINE coming == data \o later
  <2>1. u \in Seq(Symbol) /\ coming \in Seq(Symbol) /\ bytes \in Seq(Symbol)
    BY <1>3, <1>6, Zenon
  <2>2. (data \o later) \o bytes = data \o (later \o bytes)
    BY <1>3, SymbolsAssociate, Zenon
  <2> HIDE DEF coming
  <2>3. (u \o coming) \o bytes = u \o (coming \o bytes)
    <3>1. \A y, z \in Seq(Symbol) : (u \o y) \o z = u \o (y \o z)
      BY <2>1, SymbolsAssociate, Zenon
    <3>2. \A z \in Seq(Symbol) : (u \o coming) \o z = u \o (coming \o z)
      BY <2>1, <3>1, Zenon
    <3> QED
      BY <2>1, <3>2, Zenon
  <2> QED
    BY <2>2, <2>3, Zenon DEF coming
<1> HIDE DEF more
<1>9. l <= Len(more)
  BY <1>1, <1>2, <1>4
<1>10. ASSUME NEW i \in 1..l PROVE b.replies[i] = ReplyTo(more[i])
  <2>1. i \in 1..Len(expected)
    BY <1>1, <1>2
  <2>2. more[i] = expected[i]
    BY <1>4, <2>1, Zenon
  <2> QED
    BY <1>2, <2>2
<1>11. Streams(u \o (data \o (later \o bytes)), Rest(more, l))
  BY <1>7, <1>8, Zenon
<1>12. Decodes(b, data \o (later \o bytes), more)
  BY <1>2, <1>9, <1>10, <1>11, Zenon DEF Decodes, u, l
<1> QED
  BY <1>12 DEF bytes, more

\* What the decoder holds, the read buffer and the socket bring exactly the
\* replies to the commands that are answered.
DecodeInv == Live => Decodes(m_builder, m_read_buffer \o inbox, replying)

\* A connection that becomes sound has nothing of an earlier one.
LEMMA CleanStart ==
  ASSUME TypeInv, ReadBufferInv, TrafficInv, ClientConnected, Live'
  PROVE  /\ m_callbacks = <<>> /\ m_write_buffer = <<>> /\ m_builder = NoReplyYet /\ m_callbacks_mutex = Free
         /\ m_read_buffer = <<>> /\ wire = <<>> /\ inbox = <<>> /\ replying = <<>>
         /\ write_op.done = 0
<1>1. Clean /\ Head(completions).ok
  BY DEF ClientConnected, Live
<1>2. m_read_buffer = <<>>
  BY <1>1 DEF Clean, ReadBufferInv, NoBytesIn, ReadIsQueued
<1>3. write_op = NoWrite
  BY <1>1, EmptySeq DEF Clean, TypeInv, BufferInv, WritesStayInBuffer
<1>4. ~NoConnectIn(completions)
  <2>1. completions # <<>> /\ Head(completions).op = "connect"
    BY DEF ClientConnected, HandleConnect, Runs
  <2>2. 1 \in DOMAIN completions /\ Head(completions) = completions[1]
    BY <2>1, QueuePopped DEF TypeInv, QueueType
  <2> QED
    BY <1>1, <2>1, <2>2 DEF NoConnectIn
<1>5. ~Traffic
  BY <1>3, <1>4 DEF TrafficInv, NoWrite
<1> QED
  BY <1>1, <1>2, <1>3, <1>5 DEF Clean, Traffic, NoWrite

\* No step of any thread disturbs the order of callbacks and commands.
LEMMA OrderStays ==
  TypeInv /\ WriteInv /\ ReadBufferInv /\ TrafficInv /\ SoundInv /\ OrderInv /\ DecodeInv /\ [ClientNext]_vars => OrderInv'
<1> SUFFICES ASSUME TypeInv, WriteInv, ReadBufferInv, TrafficInv, SoundInv, OrderInv, DecodeInv, [ClientNext]_vars, Live'
             PROVE  Callers' = Commands'
  BY DEF OrderInv
<1>1. CASE ClientConnected
  <2> DEFINE none == <<>>
  <2>1. /\ m_callbacks = none /\ m_write_buffer = none /\ m_callbacks_mutex = Free
        /\ wire = none /\ replying = none /\ write_op.done = 0
    BY <1>1, CleanStart
  <2>2. UNCHANGED <<m_callbacks, m_write_buffer, wire, replying, write_op, sender, sent>>
    BY <1>1, Zenon DEF ClientConnected, HandleConnect, bufVars, netVars, sendVars
  <2>3. Unpushed' = none
    <3>1. Unpushed = none
      BY <2>1, UnpushedIs
    <3>2. Unpushed' = Unpushed
      BY <2>2, Zenon DEF Unpushed
    <3> QED
      BY <3>1, <3>2
  <2>4. none \o none = none /\ Rest(none, 0) = none
    <3>1. none \in Seq(Nat)
      OBVIOUS
    <3> QED
      BY <3>1, Joins, Fronts
  <2> HIDE DEF none
  <2>5. Callers' = none
    BY <2>1, <2>2, <2>3, <2>4, Zenon DEF Callers
  <2>6. Unwritten' = none
    BY <2>1, <2>2, <2>4, Zenon DEF Unwritten
  <2>7. Commands' = none
    BY <2>1, <2>2, <2>4, <2>6, Zenon DEF Commands
  <2> QED
    BY <2>5, <2>7
<1>2. CASE Live
  <2>1. Callers = Commands
    BY <1>2 DEF OrderInv
  <2>2. CASE HandOver
    <3>1. /\ m_callbacks' = Rest(m_callbacks, 1) /\ replying' = Rest(replying, 1) /\ m_callbacks_mutex = Free
          /\ UNCHANGED <<wire, m_write_buffer, write_op, sender, sent>> /\ m_builder.replies # <<>>
      BY <2>2, Zenon DEF HandOver, tcpVars, bufVars, netVars, opVars, sendVars
    <3>2. m_callbacks \in Seq(Nat) /\ replying \in Seq(Nat) /\ wire \in Seq(Nat) /\ Unwritten \in Seq(Nat)
      BY ClientSequences, ClientLists
    <3>3. replying # <<>>
      <4>1. m_builder \in NumberDecoder /\ Decodes(m_builder, m_read_buffer \o inbox, replying)
        BY <1>2 DEF TypeInv, BuilderType, DecodeInv
      <4> QED
        BY <3>1, <3>2, <4>1, HandedDecodes
    <3>4. Unpushed = <<>> /\ Unpushed' = Unpushed
      <4>1. Unpushed' = Unpushed
        BY <3>1, Zenon DEF Unpushed
      <4> QED
        BY <3>1, <4>1, UnpushedIs
    <3>5. m_callbacks \o <<>> = m_callbacks /\ Rest(m_callbacks, 1) \o <<>> = Rest(m_callbacks, 1)
      <4>1. Rest(m_callbacks, 1) \in Seq(Nat)
        BY <3>2, Fronts
      <4> QED
        BY <3>2, <4>1, ConcatEmptySeq
    <3>6. replying \o wire \in Seq(Nat) /\ replying \o wire # <<>> /\ Rest(replying \o wire, 1) = Rest(replying, 1) \o wire
      BY <3>2, <3>3, RestOfJoined, ConcatProperties
    <3>7. Rest((replying \o wire) \o Unwritten, 1) = Rest(replying \o wire, 1) \o Unwritten
      <4> DEFINE ahead == replying \o wire
      <4>1. ahead \in Seq(Nat) /\ ahead # <<>>
        BY <3>6
      <4> HIDE DEF ahead
      <4>2. Rest(ahead \o Unwritten, 1) = Rest(ahead, 1) \o Unwritten
        BY <3>2, <4>1, RestOfJoined
      <4> QED
        BY <4>2 DEF ahead
    <3>8. Callers' = Rest(m_callbacks, 1)
      BY <3>1, <3>4, <3>5, Zenon DEF Callers
    <3>9. m_callbacks = (replying \o wire) \o Unwritten
      BY <2>1, <3>4, <3>5, Zenon DEF Callers, Commands
    <3>10. Unwritten' = Unwritten
      BY <3>1, Zenon DEF Unwritten
    <3>11. Commands' = (Rest(replying, 1) \o wire) \o Unwritten
      BY <3>1, <3>10, Zenon DEF Commands
    <3> QED
      BY <3>6, <3>7, <3>8, <3>9, <3>11, Zenon
  <2>3. ~ClearCallbacks
    BY <1>2 DEF ClearCallbacks, CallDisconnectionHandler, SoundInv, Live
  <2>5. sent + 1 # sent
    BY ClientSequences
  <2> QED
    BY <1>2, <2>1, <2>2, <2>3, <2>5, CallersAreKept, CommandsAreKept, Zenon DEF CallersStep, CommandsStep
<1> QED
  BY <1>1, <1>2, LiveBefore DEF LiveStep

\* No step of any thread disturbs the stream of replies, ...
LEMMA DecodesOn ==
  TypeInv /\ ReadBufferInv /\ SoundInv /\ OneReadInv /\ DecodeInv /\ Live /\ Live'
  /\ ~ClientConnected /\ [ClientNext]_vars => Decodes(m_builder', m_read_buffer' \o inbox', replying')
<1> SUFFICES ASSUME TypeInv, ReadBufferInv, SoundInv, OneReadInv, DecodeInv, Live, Live', ~ClientConnected,
                    [ClientNext]_vars
             PROVE  Decodes(m_builder', m_read_buffer' \o inbox', replying')
  OBVIOUS
<1> USE DEF clientVars, linkVars, opVars, bufVars, ownerVars, sendVars, netVars, Notify,
            StartDisconnection
<1>11. /\ m_builder \in NumberDecoder /\ m_read_buffer \in Seq(Symbol) /\ inbox \in Seq(Symbol)
       /\ m_read_buffer \o inbox \in Seq(Symbol) /\ replying \in Seq(Nat)
       /\ Decodes(m_builder, m_read_buffer \o inbox, replying)
  <2>1. m_read_buffer \in Seq(Symbol) /\ inbox \in Seq(Symbol)
    BY DEF TypeInv, ReadType
  <2>2. m_read_buffer \o inbox \in Seq(Symbol)
    BY <2>1, ConcatProperties
  <2>3. m_builder \in NumberDecoder /\ Decodes(m_builder, m_read_buffer \o inbox, replying)
    BY DEF TypeInv, BuilderType, DecodeInv
  <2> QED
    BY <2>1, <2>2, <2>3, ClientSequences
<1>12. m_socket = "open"
  BY DEF SoundInv, Live
<1>13. ASSUME UNCHANGED <<m_builder, replying>>, m_read_buffer' \o inbox' = m_read_buffer \o inbox
       PROVE  Decodes(m_builder', m_read_buffer' \o inbox', replying')
  BY <1>11, <1>13, Zenon
<1>0. ASSUME UNCHANGED <<m_builder, m_read_buffer, inbox, replying>>
      PROVE  Decodes(m_builder', m_read_buffer' \o inbox', replying')
  BY <1>0, <1>11, Zenon
<1>1. CASE UNCHANGED vars
  BY <1>0, Zenon, <1>1 DEF vars, tcpVars
<1>2. CASE (Connect \/ Disconnect \/ TestNotified \/ StartWaiting \/ WakesSpuriously) /\ UNCHANGED clientVars
  BY <1>0, Zenon, <1>2 DEF Connect, Disconnect, TestNotified, StartWaiting, WakesSpuriously
<1>3. CASE (ConnectCompletes \/ SocketWrites \/ WriteFails) /\ UNCHANGED clientVars
  <2>1. CASE ConnectCompletes
    BY <1>12, <2>1 DEF ConnectCompletes
  <2>2. CASE SocketWrites \/ WriteFails
    BY <1>0, <1>3, <2>2, Zenon DEF SocketWrites, WriteFails
  <2> QED
    BY <1>3, <2>1, <2>2, Zenon
<1>4. CASE (SocketReads \/ SocketReadFails \/ ServerCloses) /\ UNCHANGED clientVars
  <2>1. CASE SocketReads
    <3>1. PICK k \in 1..Len(inbox) :
            /\ inbox' = Rest(inbox, k)
            /\ m_read_buffer' = SubSeq(inbox, 1, k)
                                  \o (IF ReadIsQueued THEN Rest(m_read_buffer, k) ELSE <<>>)
      BY <2>1, Zenon DEF SocketReads
    <3>2. reads > 0
      BY <2>1, Zenon DEF SocketReads
    <3>3. NoBytesIn(completions)
      BY <3>2 DEF OneReadInv, TypeInv, QueueType
    <3>4. ~ReadIsQueued /\ m_read_buffer = <<>>
      BY <3>3 DEF NoBytesIn, ReadIsQueued, ReadBufferInv
    <3>5. /\ SubSeq(inbox, 1, k) \o <<>> = SubSeq(inbox, 1, k)
          /\ SubSeq(inbox, 1, k) \o Rest(inbox, k) = inbox
      BY <1>11, CutIsLong
    <3>6. m_read_buffer' \o inbox' = m_read_buffer \o inbox
      <4>1. <<>> \o inbox = inbox
        BY <1>11, ConcatEmptySeq
      <4>2. m_read_buffer' = SubSeq(inbox, 1, k)
        BY <3>1, <3>4, <3>5, Zenon
      <4> QED
        BY <3>1, <3>4, <3>5, <4>1, <4>2, Zenon
    <3>7. UNCHANGED <<m_builder, replying>>
      BY <1>4, Zenon
    <3> QED
      BY <1>13, <3>6, <3>7, Zenon
  <2>2. CASE SocketReadFails \/ ServerCloses
    BY <1>0, <1>4, <2>2, Zenon DEF SocketReadFails, ServerCloses
  <2> QED
    BY <1>4, <2>1, <2>2, Zenon
<1>5. CASE ClientConnected
  BY <1>5
<1>6. CASE FeedBuilder \/ Decode \/ HandOver \/ Received
  <2>1. CASE Received
    BY <1>0, <2>1, Zenon DEF Received, ReceiveReturns
  <2>2. CASE FeedBuilder
    <3>1. completions # <<>> /\ Head(completions).op = "read" /\ Head(completions).ok
      BY <2>2 DEF FeedBuilder, HandleRead, Runs, StartDisconnection, Live
    <3> DEFINE n == Head(completions).length
    <3>2. /\ UNCHANGED <<inbox, replying>> /\ completions' = Tail(completions)
          /\ m_builder' = Given(m_builder, SubSeq(m_read_buffer, 1, n))
          /\ m_read_buffer' = IF ReadIsQueued' THEN m_read_buffer ELSE <<>>
      BY <2>2, <3>1, Zenon DEF FeedBuilder, HandleRead
    <3>3. completions \in Seq(Completion) /\ BytesIn(completions, Len(m_read_buffer)) /\ Len(m_read_buffer) \in Nat
      BY LenProperties DEF TypeInv, QueueType, ReadType, OneReadInv
    <3>4. NoBytesIn(Tail(completions))
      BY <3>1, <3>3, PoppedReads
    <3>5. m_read_buffer' = <<>>
      <4>1. ~ReadIsQueued'
        BY <3>2, <3>4 DEF NoBytesIn, ReadIsQueued
      <4> QED
        BY <3>2, <4>1
    <3>6. n = Len(m_read_buffer)
      <4>1. 1 \in DOMAIN completions /\ Head(completions) = completions[1]
        BY <3>1, <3>3, QueuePopped
      <4> QED
        BY <3>1, <3>3, <4>1 DEF BytesIn
    <3>7. SubSeq(m_read_buffer, 1, n) = m_read_buffer
      <4>1. SubSeq(m_read_buffer, 1, Len(m_read_buffer)) = m_read_buffer
        BY <1>11, SubSeqFull
      <4> QED
        BY <3>6, <4>1, Zenon
    <3> HIDE DEF n
    <3>8. Decodes(Given(m_builder, m_read_buffer), <<>> \o inbox, replying)
      BY <1>11, GivenDecodes
    <3> QED
      BY <3>2, <3>5, <3>7, <3>8, Zenon
  <2>3. CASE Decode
    <3>1. m_builder' = Build(m_builder) /\ UNCHANGED <<m_read_buffer, inbox, replying>>
      BY <2>3, Zenon DEF Decode, tcpVars
    <3>2. Decodes(Build(m_builder), m_read_buffer \o inbox, replying)
      BY <1>11, BuildDecodes
    <3> QED
      BY <3>1, <3>2, Zenon
  <2>4. CASE HandOver
    <3>1. /\ m_builder' = [m_builder EXCEPT !.replies = Tail(@)] /\ m_builder.replies # <<>>
          /\ replying' = Rest(replying, 1) /\ UNCHANGED <<m_read_buffer, inbox>>
      BY <2>4, Zenon DEF HandOver, tcpVars
    <3>2. Decodes([m_builder EXCEPT !.replies = Tail(@)], m_read_buffer \o inbox, Rest(replying, 1))
      BY <1>11, <3>1, HandedDecodes
    <3> QED
      BY <3>1, <3>2, Zenon
  <2> QED
    BY <1>6, <2>1, <2>2, <2>3, <2>4, Zenon
<1>7. CASE SocketClosed \/ ClearCallbacks
  <2>1. CASE SocketClosed
    BY <2>1 DEF SocketClosed, Lost, Live
  <2>2. CASE ClearCallbacks
    BY <1>0, <2>2, Zenon DEF ClearCallbacks, CallDisconnectionHandler
  <2> QED
    BY <1>7, <2>1, <2>2, Zenon
<1>8. CASE HandleWrite /\ UNCHANGED clientVars
  BY <1>0, Zenon, <1>8 DEF HandleWrite
<1>9. CASE RedisAnswers
  <2> DEFINE c == Head(wire)
  <2>1. /\ wire # <<>> /\ inbox' = inbox \o Encoded(ReplyTo(c)) /\ replying' = Append(replying, c)
        /\ UNCHANGED <<m_builder, m_read_buffer>>
    BY <1>9, Zenon DEF RedisAnswers, ServerAnswers
  <2>2. c \in Nat
    BY <2>1, ClientSequences, Fronts
  <2> HIDE DEF c
  <2>3. Encoded(ReplyTo(c)) = Bytes(c)
    BY DEF ReplyTo, Bytes, NumberReply
  <2>4. Decodes(m_builder, m_read_buffer \o (inbox \o Bytes(c)), Append(replying, c))
    BY <1>11, <2>2, AnsweredDecodes
  <2> QED
    BY <2>1, <2>3, <2>4, Zenon
<1>10. ASSUME NEW s \in Senders, LockAndCheck(s) \/ SendCommand(s) \/ PushCallback(s)
       PROVE  Decodes(m_builder', m_read_buffer' \o inbox', replying')
  BY <1>0, Zenon, <1>10 DEF LockAndCheck, SendCommand, PushCallback, SendChecks, SendAppends
<1> QED
  BY <1>1, <1>2, <1>3, <1>4, <1>5, <1>6, <1>7, <1>8, <1>9, <1>10, ClientSteps

\* ... and a connection begins with an empty one.
LEMMA DecodeStays ==
  TypeInv /\ ReadBufferInv /\ TrafficInv /\ SoundInv /\ OneReadInv /\ DecodeInv /\ [ClientNext]_vars => DecodeInv'
<1> SUFFICES ASSUME TypeInv, ReadBufferInv, TrafficInv, SoundInv, OneReadInv, DecodeInv, [ClientNext]_vars, Live'
             PROVE  Decodes(m_builder', m_read_buffer' \o inbox', replying')
  BY DEF DecodeInv
<1>1. CASE ClientConnected
  <2> DEFINE none == <<>>
  <2>1. m_builder = NoReplyYet /\ m_read_buffer = none /\ inbox = none /\ replying = none
    BY <1>1, CleanStart
  <2>2. UNCHANGED <<m_builder, m_read_buffer, inbox, replying>>
    BY <1>1, Zenon DEF ClientConnected, HandleConnect, bufVars, netVars
  <2>3. none \o none = none /\ Decodes(NoReplyYet, none, none)
    BY FreshDecodes
  <2> HIDE DEF none
  <2> QED
    BY <2>1, <2>2, <2>3, Zenon
<1>2. CASE Live /\ ~ClientConnected
  BY <1>2, DecodesOn
<1> QED
  BY <1>1, <1>2, LiveBefore DEF LiveStep

\* All that keeps the replies with their callbacks.
ClientInv ==
  /\ TypeInv /\ WriteInv /\ ReadBufferInv /\ TrafficInv /\ SoundInv
  /\ OneReadInv /\ OrderInv /\ DecodeInv

LEMMA ClientInvInit == ClientInit => ClientInv
<1> SUFFICES ASSUME ClientInit PROVE ClientInv
  OBVIOUS
<1>1. completions = <<>> /\ m_read_buffer = <<>> /\ ~sound /\ io = "idle"
  BY DEF ClientInit, Init
<1>2. WriteInv
  BY <1>1 DEF WriteInv, OneWriteIn, NoWriteIn, WrittenIn
<1>3. ~Traffic
  BY DEF ClientInit, Init, Traffic
<1> QED
  BY <1>1, <1>2, <1>3, TypeInvInit DEF ClientInv, ReadBufferInv, TrafficInv, SoundInv, OneReadInv, OrderInv, DecodeInv, Live

LEMMA ClientInvStays == ClientInv /\ [ClientNext]_vars => ClientInv'
  BY TypeInvStays, WriteReported, ReadBufferStays, TrafficStays, SoundStays, OneReadStays, OrderStays, DecodeStays
     DEF ClientInv

\* Order and stream together give each callback its reply.
LEMMA InOrder == ClientInv => CallbacksMeetTheirReplies
<1> SUFFICES ASSUME ClientInv, sound, io # "closing"
             PROVE  /\ m_callbacks \o Unpushed = replying \o wire \o Rest(m_write_buffer, write_op.done)
                    /\ m_builder.replies = [i \in DOMAIN m_builder.replies |-> ReplyTo(replying[i])]
  BY DEF CallbacksMeetTheirReplies
<1>1. Live
  BY DEF Live
<1>2. Callers = Commands /\ Decodes(m_builder, m_read_buffer \o inbox, replying)
  BY <1>1 DEF ClientInv, OrderInv, DecodeInv
<1>3. m_callbacks \o Unpushed = replying \o wire \o Rest(m_write_buffer, write_op.done)
  BY <1>2, Zenon DEF Callers, Commands, Unwritten
<1>4. m_builder.replies = [i \in DOMAIN m_builder.replies |-> ReplyTo(replying[i])]
  <2> DEFINE q == m_builder.replies
  <2>1. q \in Seq([type : {Number}, val : Nat])
    BY DEF ClientInv, TypeInv, BuilderType, NumberDecoder
  <2>2. \A i \in 1..Len(q) : q[i] = ReplyTo(replying[i])
    BY <1>2 DEF Decodes
  <2>3. DOMAIN q = 1..Len(q) /\ q = [i \in DOMAIN q |-> q[i]]
    BY <2>1, LenProperties
  <2> HIDE DEF q
  <2>4. q = [i \in DOMAIN q |-> ReplyTo(replying[i])]
    BY <2>2, <2>3
  <2> QED
    BY <2>4 DEF q
<1> QED
  BY <1>3, <1>4

\* Replies carry no name.  For any number of threads, commands and connections
\* the callback in front is the one whose command the next reply answers, on a
\* connection that began with a clean client and is not being given up.
THEOREM RepliesMeetTheirCallbacks == FairSpec => []CallbacksMeetTheirReplies
<1> QED
  BY ClientInvInit, ClientInvStays, InOrder, PTL DEF FairSpec

-----------------------------------------------------------------------------
(* A client that was never connected.                                      *)

\* Nothing can have happened to it: without a connection no handler is queued, and
\* nobody sends.
Unused ==
  /\ ~m_is_connected /\ m_socket = "closed" /\ io = "idle" /\ completions = <<>>
  /\ \A s \in Senders : sender[s] = "idle"
  /\ m_builder = NoReplyYet

UnusedInv == connects = 0 => Unused

LEMMA UnusedInit == ClientInit => UnusedInv
  BY DEF ClientInit, Init, UnusedInv, Unused

\* Only connect() changes it, and counts.
LEMMA UnusedStays == OwnerType /\ UnusedInv /\ [ClientNext]_vars => UnusedInv'
<1> SUFFICES ASSUME OwnerType, UnusedInv, [ClientNext]_vars PROVE UnusedInv'
  OBVIOUS
<1>1. CASE Connect
  <2>1. connects \in Nat /\ connects' = connects + 1
    BY <1>1, RedisAssumption DEF Connect, OwnerType
  <2> QED
    BY <2>1 DEF UnusedInv
<1>2. ASSUME ~Connect PROVE connects' = connects
  <2> USE DEF ownerVars, Notify, tcpVars
  <2>1. CASE UNCHANGED vars
    BY <2>1 DEF vars
  <2>2. CASE (Disconnect \/ TestNotified \/ StartWaiting \/ WakesSpuriously) /\ UNCHANGED clientVars
    BY <2>2 DEF Disconnect, TestNotified, StartWaiting, WakesSpuriously
  <2>3. CASE (ConnectCompletes \/ SocketWrites \/ WriteFails \/ SocketReads \/ SocketReadFails \/ ServerCloses)
             /\ UNCHANGED clientVars
    BY <2>3 DEF ConnectCompletes, SocketWrites, WriteFails, SocketReads, SocketReadFails, ServerCloses
  <2>4. CASE ClientConnected \/ FeedBuilder \/ Decode \/ HandOver \/ Received
    BY <2>4 DEF ClientConnected, FeedBuilder, Decode, HandOver, Received, HandleConnect, HandleRead, ReceiveReturns
  <2>5. CASE SocketClosed \/ ClearCallbacks \/ (HandleWrite /\ UNCHANGED clientVars) \/ RedisAnswers
    BY <2>5 DEF SocketClosed, ClearCallbacks, HandleClose, Disconnection, CallDisconnectionHandler,
                HandleWrite, RedisAnswers, ServerAnswers
  <2>6. ASSUME NEW s \in Senders, LockAndCheck(s) \/ SendCommand(s) \/ PushCallback(s)
        PROVE  connects' = connects
    BY <2>6 DEF LockAndCheck, SendCommand, PushCallback, SendChecks, SendAppends
  <2> QED
    BY <1>2, <2>1, <2>2, <2>3, <2>4, <2>5, <2>6, ClientSteps
<1>3. ASSUME Unused, ~Connect PROVE Unused'
  <2> USE DEF Unused
  <2>1. CASE UNCHANGED vars
    BY <1>3, <2>1 DEF vars, tcpVars, clientVars, linkVars, opVars, sendVars
  <2>2. CASE (Disconnect \/ TestNotified \/ StartWaiting \/ WakesSpuriously) /\ UNCHANGED clientVars
    <3>1. ~Disconnect
      BY <1>3 DEF Disconnect
    <3>2. UNCHANGED <<linkVars, opVars, io, sendVars, clientVars>>
      BY <2>2, <3>1 DEF TestNotified, StartWaiting, WakesSpuriously
    <3>3. UNCHANGED <<m_is_connected, m_socket, completions, io, sender, m_builder>>
      BY <3>2 DEF clientVars, linkVars, opVars, sendVars
    <3> QED
      BY <1>3, <3>3
  <2>3. ~(ConnectCompletes \/ SocketWrites \/ WriteFails \/ SocketReads \/ SocketReadFails \/ ServerCloses
          \/ RedisAnswers)
    BY <1>3 DEF ConnectCompletes, SocketWrites, WriteFails, SocketReads, SocketReadFails, ServerCloses,
                RedisAnswers, ServerAnswers
  <2>4. ~(ClientConnected \/ FeedBuilder \/ Decode \/ HandOver \/ Received)
    BY <1>3 DEF ClientConnected, FeedBuilder, Decode, HandOver, Received, HandleConnect, HandleRead,
                ReceiveReturns, Runs
  <2>5. ~(SocketClosed \/ ClearCallbacks \/ HandleWrite)
    BY <1>3 DEF SocketClosed, ClearCallbacks, HandleClose, Disconnection, CallDisconnectionHandler,
                HandleWrite, Runs
  <2>6. ASSUME NEW s \in Senders PROVE ~(LockAndCheck(s) \/ SendCommand(s) \/ PushCallback(s))
    BY <1>3 DEF LockAndCheck, SendCommand, PushCallback, SendChecks, SendAppends
  <2> QED
    BY <1>3, <2>1, <2>2, <2>3, <2>4, <2>5, <2>6, ClientSteps
<1>4. CASE ~Connect
  BY <1>2, <1>3, <1>4 DEF UnusedInv
<1> QED
  BY <1>1, <1>4

\* Its decoder is new, and a new decoder does with every stream of replies what
\* EveryCutDecodes says: whatever replies are chosen.
LEMMA UnusedDecodes == UnusedInv => RepliesAreCutIndependent
<1> SUFFICES ASSUME m_builder = NoReplyYet, NEW replies \in BoundedSeq(SomeReplies, 2)
             PROVE  DecodesStream(m_builder, replies)
  BY DEF UnusedInv, Unused, RepliesAreCutIndependent, DecodesHoweverCut
<1>1. PICK n \in 0..2 : replies \in [1..n -> SomeReplies]
  BY DEF BoundedSeq, SeqOf
<1>2. replies \in Seq(Reply)
  <2>1. n \in Nat /\ replies \in [1..n -> Reply]
    BY <1>1, RepliesAssumption
  <2> QED
    BY <2>1
<1> QED
  BY <1>2, EveryCutDecodes

\* However the reads cut what the server sends, also inside a size or an end of
\* line: after every byte the client has the replies that are complete.
THEOREM RepliesAreReadWhole == FairSpec => []RepliesAreCutIndependent
<1> DEFINE Inv == TypeInv /\ UnusedInv
<1>1. Inv /\ [ClientNext]_vars => Inv'
  BY TypeInvStays, UnusedStays DEF TypeInv
<1>2. ClientInit => Inv
  BY TypeInvInit, UnusedInit
<1>3. Inv => RepliesAreCutIndependent
  BY UnusedDecodes
<1> QED
  BY <1>1, <1>2, <1>3, PTL DEF FairSpec

=============================================================================
