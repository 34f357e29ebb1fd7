------------------------- MODULE TcpConnection_proofs -------------------------
(***************************************************************************)
(* Safety of a connection, for any number of lines of the peer and calls   *)
(* of the user thread.                                                     *)
(***************************************************************************)
EXTENDS TcpConnection, SequenceTheorems, TLAPS

\* What a thread carries is a line as long as its callback has not run.
HandInv == \A t \in {Io, User} : pc[t] = "callback" => hand[t].line \in 1..MaxLines

\* A thread that has taken a message found no observer, and a handler that has
\* taken an observer found no message; nobody can add one before it is done.  So
\* never more than one line is in the hands of a thread, and no other overtakes
\* it.
QueueInv ==
  /\ pc[Io] \in {"callback", "again", "crashed"} => messages = <<>>
  /\ pc[User] \in {"callback", "again"} =>
       observers = <<>> /\ pc[Io] \notin {"callback", "again"}

\* read_handle_mutex_ is held from HandleRead to the end of its handler.
MutexInv == (read_handle_mutex = Io) <=> pc[Io] \in {"callback", "again", "finish", "crashed"}

\* A handler that finds the wait of the destructor, or an error, starts no read.
StopInv ==
  /\ pc[User] = "waiting" => ~should_continue_reading
  /\ disconnected => NoReadLeft
  /\ pc[User] \in {"woken", "destroyed"} => NoReadLeft

ConnectionInv ==
  /\ TypeOK
  /\ HandInv
  /\ NoMessageBesideObserver
  /\ QueueInv
  /\ MutexInv
  /\ StopInv
  /\ InOrderExactlyOnce

-----------------------------------------------------------------------------
(* Sequences.                                                              *)

LEMMA HeadFirst ==
  ASSUME NEW S, NEW s \in Seq(S), s # <<>>
  PROVE  s = <<Head(s)>> \o Tail(s)
<1>1. /\ Head(s) \in S /\ Tail(s) \in Seq(S) /\ Len(Tail(s)) = Len(s) - 1
      /\ \A i \in 1..Len(Tail(s)) : Tail(s)[i] = s[i + 1]
  BY HeadTailProperties
<1>2. <<Head(s)>> \in Seq(S) /\ Len(<<Head(s)>>) = 1 /\ <<Head(s)>>[1] = s[1]
  BY <1>1
<1>3. /\ <<Head(s)>> \o Tail(s) \in Seq(S)
      /\ Len(<<Head(s)>> \o Tail(s)) = Len(s)
      /\ \A i \in 1..Len(s) : (<<Head(s)>> \o Tail(s))[i] = s[i]
  <2>1. Len(s) \in Nat
    BY LenProperties
  <2> QED
    BY <1>1, <1>2, <2>1, ConcatProperties
<1> QED
  BY <1>3, SeqEqual

LEMMA CountOneMore ==
  ASSUME NEW n \in Nat
  PROVE  Append([i \in 1..n |-> i], n + 1) = [i \in 1..n + 1 |-> i]
  OBVIOUS

\* A thread takes the first queued message into its hand ...
LEMMA TakeFirst ==
  ASSUME NEW S, NEW d \in Seq(S), NEW m \in Seq(S), m # <<>>
  PROVE  /\ d \o <<Head(m)>> \o <<>> \o Tail(m) = d \o <<>> \o <<>> \o m
         /\ Append(d, Head(m)) \o <<>> \o <<>> \o Tail(m) = d \o <<>> \o <<>> \o m
<1>1. /\ Head(m) \in S /\ Tail(m) \in Seq(S) /\ <<Head(m)>> \in Seq(S)
      /\ d \o <<Head(m)>> \in Seq(S)
  BY HeadTailProperties, ConcatProperties
<1>2. d \o <<Head(m)>> \o Tail(m) = d \o m
  BY <1>1, HeadFirst, ConcatAssociative
<1>3. Append(d, Head(m)) = d \o <<Head(m)>>
  BY <1>1, AppendIsConcat
<1>4. d \o <<Head(m)>> \o <<>> = d \o <<Head(m)>> /\ d \o <<>> = d
  BY <1>1, ConcatEmptySeq
<1> QED
  BY <1>2, <1>3, <1>4

LEMMA TakenFirst ==
  \A S : \A d, m \in Seq(S) : m # <<>> =>
    /\ d \o <<Head(m)>> \o <<>> \o Tail(m) = d \o <<>> \o <<>> \o m
    /\ Append(d, Head(m)) \o <<>> \o <<>> \o Tail(m) = d \o <<>> \o <<>> \o m
  BY TakeFirst, Zenon

\* ... and a handler queues the last one.
LEMMA QueueLast ==
  ASSUME NEW S, NEW d \in Seq(S), NEW m \in Seq(S), NEW e \in S
  PROVE  d \o Append(m, e) = Append(d \o m, e)
<1>1. <<e>> \in Seq(S) /\ d \o m \in Seq(S)
  BY ConcatProperties
<1> QED
  BY <1>1, AppendIsConcat, ConcatAssociative

-----------------------------------------------------------------------------
(* The steps.                                                              *)

USE DEF Io, User, Free, Nothing

LEMMA ConnectionInvInit == Init => ConnectionInv
<1> SUFFICES ASSUME Init PROVE ConnectionInv
  OBVIOUS
<1> USE ConnectionAssumption DEF Init
<1>1. TypeOK
  <2>1. /\ sent \in 0..MaxLines /\ buffered \in 0..sent /\ taken \in 0..buffered
        /\ calls \in 0..MaxCalls
    OBVIOUS
  <2>2. hand \in [{Io, User} -> [line : 0..MaxLines, kind : Kind]]
    BY DEF Kind
  <2>3. observers \in Seq(Kind) /\ messages \in Seq(1..MaxLines) /\ delivered \in Seq(1..MaxLines)
    BY EmptySeq
  <2> QED
    BY <2>1, <2>2, <2>3 DEF TypeOK, ReadOp, IoPc, UserPc
<1>2. InOrderExactlyOnce
  <2>1. InHand(User) = <<>> /\ InHand(Io) = <<>>
    BY DEF InHand
  <2>2. [j \in 1..taken |-> j] = <<>>
    OBVIOUS
  <2> QED
    BY <2>1, <2>2 DEF InOrderExactlyOnce
<1>3. HandInv /\ NoMessageBesideObserver /\ QueueInv /\ MutexInv /\ StopInv
  BY DEF HandInv, NoMessageBesideObserver, QueueInv, MutexInv, StopInv, NoReadLeft
<1> QED
  BY <1>1, <1>2, <1>3 DEF ConnectionInv

\* What the peer and the socket do concerns no queue and no thread.
LEMMA ConnectionInvPeer ==
  ConnectionInv /\ (PeerSendsLine \/ PeerSendsHalfALine \/ PeerCloses \/ SocketCompletes)
    => ConnectionInv'
<1> SUFFICES ASSUME ConnectionInv,
                    PeerSendsLine \/ PeerSendsHalfALine \/ PeerCloses \/ SocketCompletes
             PROVE  ConnectionInv'
  OBVIOUS
<1> USE ConnectionAssumption
<1>1. UNCHANGED <<taken, observers, messages, pc, hand, stopVars, calls, delivered>>
  BY DEF PeerSendsLine, PeerSendsHalfALine, PeerCloses, SocketCompletes, readVars, queueVars
<1>2. TypeOK'
  <2> USE DEF ConnectionInv, TypeOK, readVars
  <2>1. /\ sent' \in 0..MaxLines /\ buffered' \in 0..sent' /\ taken' \in 0..buffered'
    <3>1. sent \in 0..MaxLines /\ buffered \in 0..sent /\ taken \in 0..buffered
      OBVIOUS
    <3>2. CASE PeerSendsLine
      <4>1. sent < MaxLines /\ sent' = sent + 1 /\ buffered' = buffered
        BY <3>2 DEF PeerSendsLine
      <4> QED
        BY <1>1, <3>1, <4>1
    <3>3. CASE SocketCompletes
      <4>1. sent' = sent /\ buffered' \in {sent, buffered}
        BY <3>3 DEF SocketCompletes
      <4> QED
        BY <1>1, <3>1, <4>1
    <3>4. CASE PeerSendsHalfALine \/ PeerCloses
      BY <1>1, <3>1, <3>4 DEF PeerSendsHalfALine, PeerCloses
    <3> QED
      BY <3>2, <3>3, <3>4
  <2>2. half' \in BOOLEAN /\ kernel' \in BOOLEAN /\ eof' \in BOOLEAN /\ read_op' \in ReadOp
    BY DEF ReadOp, PeerSendsLine, PeerSendsHalfALine, PeerCloses, SocketCompletes
  <2> QED
    BY <1>1, <2>1, <2>2 DEF stopVars
<1>3. NoReadLeft => NoReadLeft'
  BY <1>1 DEF NoReadLeft, PeerSendsLine, PeerSendsHalfALine, PeerCloses, SocketCompletes, readVars
<1>4. InOrderExactlyOnce'
  BY <1>1 DEF ConnectionInv, InOrderExactlyOnce, InHand
<1>5. (HandInv /\ NoMessageBesideObserver /\ QueueInv /\ MutexInv /\ StopInv)'
  BY <1>1, <1>3 DEF ConnectionInv, HandInv, NoMessageBesideObserver, QueueInv, MutexInv,
       StopInv, stopVars
<1> QED
  BY <1>2, <1>4, <1>5 DEF ConnectionInv

\* A callback returns or throws.
LEMMA ConnectionInvCallback ==
  ASSUME ConnectionInv, NEW t \in {Io, User}, Callback(t) \/ CallbackThrows(t)
  PROVE  ConnectionInv'
<1> USE ConnectionAssumption
<1>0. /\ pc[t] = "callback" /\ delivered' = Append(delivered, hand[t].line)
      /\ hand' = [hand EXCEPT ![t] = Nothing]
      /\ UNCHANGED <<peerVars, readVars, queueVars, should_continue_reading, disconnected,
                     connection, calls>>
      /\ \/ /\ read_handle_mutex' = read_handle_mutex
            /\ \/ pc' = [pc EXCEPT ![t] = "again"]
               \/ t = Io /\ pc' = [pc EXCEPT ![t] = "finish"]
               \/ t = User /\ pc' = [pc EXCEPT ![t] = "idle"]
         \/ t = Io /\ read_handle_mutex' = Free /\ pc' = [pc EXCEPT ![t] = "ended"]
  BY DEF Callback, CallbackThrows, AfterCallback, stopVars
<1>1. hand[t].line \in 1..MaxLines
  BY <1>0 DEF ConnectionInv, HandInv
<1>2. TypeOK'
  <2>1. delivered' \in Seq(1..MaxLines)
    BY <1>0, <1>1, AppendProperties DEF ConnectionInv, TypeOK
  <2>2. hand' \in [{Io, User} -> [line : 0..MaxLines, kind : Kind]]
    BY <1>0 DEF ConnectionInv, TypeOK, Kind
  <2>3. /\ pc' \in [{Io, User} -> IoPc \cup UserPc]
        /\ pc'[Io] \in IoPc /\ pc'[User] \in UserPc
    BY <1>0 DEF ConnectionInv, TypeOK, IoPc, UserPc
  <2> QED
    BY <1>0, <2>1, <2>2, <2>3 DEF ConnectionInv, TypeOK, peerVars, readVars, queueVars
<1>3. HandInv'
  BY <1>0 DEF ConnectionInv, TypeOK, HandInv
<1>4. InOrderExactlyOnce'
  <2> DEFINE S == 1..MaxLines
  <2>1. /\ delivered \in Seq(S) /\ <<hand[t].line>> \in Seq(S) /\ messages \in Seq(S)
        /\ delivered \o <<hand[t].line>> \in Seq(S)
    BY <1>1, ConcatProperties DEF ConnectionInv, TypeOK
  <2>2. delivered' = delivered \o <<hand[t].line>> /\ messages' = messages /\ taken' = taken
    BY <1>0, <1>1, <2>1, AppendIsConcat DEF queueVars, readVars
  <2>3. InHand(t) = <<hand[t].line>> /\ InHand(t)' = <<>>
    BY <1>0 DEF ConnectionInv, TypeOK, InHand
  <2>4. \A u \in {Io, User} \ {t} : InHand(u) = <<>> /\ InHand(u)' = <<>>
    BY <1>0 DEF ConnectionInv, TypeOK, QueueInv, InHand
  <2>5. delivered \o <<hand[t].line>> \o <<>> = delivered \o <<hand[t].line>>
        /\ delivered \o <<>> = delivered
    BY <2>1, ConcatEmptySeq
  <2>6. CASE t = User
    <3>1. InHand(Io) = <<>> /\ InHand(Io)' = <<>>
      BY <2>4, <2>6
    <3> DEFINE none == <<>>
               one == <<hand[t].line>>
    <3>2. /\ InHand(User) = one /\ InHand(User)' = none /\ InHand(Io) = none /\ InHand(Io)' = none
          /\ delivered' = delivered \o one /\ messages' = messages /\ taken' = taken
          /\ (delivered \o one) \o none = delivered \o one
      BY <2>2, <2>3, <2>5, <2>6, <3>1
    <3> HIDE DEF none, one
    <3>3. delivered \o InHand(User) \o InHand(Io) \o messages = [i \in 1..taken |-> i]
      BY DEF ConnectionInv, InOrderExactlyOnce
    <3> QED
      BY <3>2, <3>3, Zenon DEF InOrderExactlyOnce
  <2>7. CASE t = Io
    <3>1. InHand(User) = <<>> /\ InHand(User)' = <<>>
      BY <2>4, <2>7
    <3> DEFINE none == <<>>
               one == <<hand[t].line>>
    <3>2. /\ InHand(Io) = one /\ InHand(Io)' = none /\ InHand(User) = none /\ InHand(User)' = none
          /\ delivered' = delivered \o one /\ messages' = messages /\ taken' = taken
          /\ (delivered \o one) \o none = delivered \o one /\ delivered \o none = delivered
      BY <2>2, <2>3, <2>5, <2>7, <3>1
    <3> HIDE DEF none, one
    <3>3. delivered \o InHand(User) \o InHand(Io) \o messages = [i \in 1..taken |-> i]
      BY DEF ConnectionInv, InOrderExactlyOnce
    <3> QED
      BY <3>2, <3>3, Zenon DEF InOrderExactlyOnce
  <2> QED
    BY <2>6, <2>7
<1>5. (NoMessageBesideObserver /\ QueueInv /\ MutexInv)'
  BY <1>0 DEF ConnectionInv, TypeOK, NoMessageBesideObserver, QueueInv, MutexInv, queueVars
<1>6. StopInv'
  BY <1>0 DEF ConnectionInv, TypeOK, StopInv, NoReadLeft, readVars
<1> QED
  BY <1>2, <1>3, <1>4, <1>5, <1>6 DEF ConnectionInv

\* ReadMessageAsync, called by the user or by a callback that registers again.
LEMMA ConnectionInvRead ==
  ASSUME ConnectionInv, NEW t \in {Io, User}, NEW kind \in Kind,
         pc[t] = "again" \/ (t = User /\ pc[t] = "idle"),
         ReadMessageAsync(t, kind, AfterCallback(t)),
         UNCHANGED <<peerVars, readVars, stopVars, delivered>>, calls' \in 0..MaxCalls
  PROVE  ConnectionInv'
<1> USE ConnectionAssumption
<1>1. CASE messages # <<>>
  <2>1. /\ hand' = [hand EXCEPT ![t] = [line |-> Head(messages), kind |-> kind]]
        /\ messages' = Tail(messages)
        /\ pc' = [pc EXCEPT ![t] = "callback"]
        /\ observers' = observers
    BY <1>1 DEF ReadMessageAsync
  <2>2. /\ t = User /\ pc[Io] \notin {"callback", "again", "crashed"}
        /\ observers = <<>>
    BY <1>1 DEF ConnectionInv, QueueInv, NoMessageBesideObserver
  <2>3. Head(messages) \in 1..MaxLines /\ Tail(messages) \in Seq(1..MaxLines)
    BY <1>1, HeadTailProperties DEF ConnectionInv, TypeOK
  <2>4. TypeOK'
    <3>1. hand' \in [{Io, User} -> [line : 0..MaxLines, kind : Kind]]
      BY <2>1, <2>3 DEF ConnectionInv, TypeOK
    <3>2. /\ pc' \in [{Io, User} -> IoPc \cup UserPc]
          /\ pc'[Io] \in IoPc /\ pc'[User] \in UserPc
      BY <2>1, <2>2 DEF ConnectionInv, TypeOK, IoPc, UserPc
    <3> QED
      BY <2>1, <2>3, <3>1, <3>2 DEF ConnectionInv, TypeOK, peerVars, readVars, stopVars
  <2>5. InOrderExactlyOnce'
    <3>1. InHand(User) = <<>> /\ InHand(Io) = <<>>
      BY <2>2 DEF InHand
    <3>2. InHand(User)' = <<Head(messages)>> /\ InHand(Io)' = <<>>
      BY <2>1, <2>2 DEF InHand, ConnectionInv, TypeOK
    <3>3. delivered \o <<Head(messages)>> \o <<>> \o Tail(messages)
            = delivered \o <<>> \o <<>> \o messages
      <4>1. delivered \in Seq(1..MaxLines) /\ messages \in Seq(1..MaxLines) /\ messages # <<>>
        BY <1>1 DEF ConnectionInv, TypeOK
      <4> QED
        BY <4>1, TakenFirst, Zenon
    <3>4. delivered' = delivered /\ taken' = taken
      BY DEF readVars
    <3> QED
      BY <2>1, <3>1, <3>2, <3>3, <3>4 DEF ConnectionInv, InOrderExactlyOnce
  <2>6. HandInv'
    BY <2>1, <2>2, <2>3 DEF ConnectionInv, TypeOK, HandInv
  <2>7. (NoMessageBesideObserver /\ QueueInv /\ MutexInv /\ StopInv)'
    BY <2>1, <2>2 DEF ConnectionInv, TypeOK, NoMessageBesideObserver, QueueInv, MutexInv,
         StopInv, NoReadLeft, readVars, stopVars
  <2> QED
    BY <2>4, <2>5, <2>6, <2>7 DEF ConnectionInv
<1>2. CASE messages = <<>>
  <2>1. /\ observers' = Append(observers, kind)
        /\ pc' = [pc EXCEPT ![t] = AfterCallback(t)]
        /\ hand' = hand /\ messages' = <<>>
    BY <1>2 DEF ReadMessageAsync
  <2>2. pc[t] # "callback" /\ AfterCallback(t) \in {"idle", "finish"}
        /\ (t = Io <=> AfterCallback(t) = "finish")
    BY DEF AfterCallback
  <2>3. TypeOK'
    <3>1. observers' \in Seq(Kind)
      BY <2>1, AppendProperties DEF ConnectionInv, TypeOK
    <3>2. /\ pc' \in [{Io, User} -> IoPc \cup UserPc]
          /\ pc'[Io] \in IoPc /\ pc'[User] \in UserPc
      BY <2>1, <2>2 DEF ConnectionInv, TypeOK, IoPc, UserPc
    <3> QED
      BY <1>2, <2>1, <3>1, <3>2 DEF ConnectionInv, TypeOK, peerVars, readVars, stopVars
  <2>4. InOrderExactlyOnce'
    <3>1. InHand(User)' = InHand(User) /\ InHand(Io)' = InHand(Io)
      BY <2>1, <2>2 DEF InHand, ConnectionInv, TypeOK
    <3> QED
      BY <1>2, <2>1, <3>1 DEF ConnectionInv, InOrderExactlyOnce, readVars
  <2>5. (HandInv /\ NoMessageBesideObserver /\ QueueInv /\ MutexInv /\ StopInv)'
    <3>1. pc[User] \in {"callback", "again"} => t = User
      BY DEF ConnectionInv, QueueInv
    <3> QED
      BY <1>2, <2>1, <2>2, <3>1 DEF ConnectionInv, TypeOK, HandInv, NoMessageBesideObserver, QueueInv,
         MutexInv, StopInv, NoReadLeft, readVars, stopVars
  <2> QED
    BY <2>3, <2>4, <2>5 DEF ConnectionInv
<1> QED
  BY <1>1, <1>2

LEMMA ConnectionInvUserReads == ConnectionInv /\ UserReads => ConnectionInv'
<1> SUFFICES ASSUME ConnectionInv, UserReads PROVE ConnectionInv'
  OBVIOUS
<1> USE ConnectionAssumption
<1>1. /\ messages # <<>> /\ messages' = Tail(messages) /\ pc[User] = "idle"
      /\ delivered' = Append(delivered, Head(messages))
      /\ UNCHANGED <<peerVars, readVars, observers, pc, hand, stopVars>>
  BY DEF UserReads
<1>2. Head(messages) \in 1..MaxLines /\ Tail(messages) \in Seq(1..MaxLines)
  BY <1>1, HeadTailProperties DEF ConnectionInv, TypeOK
<1>3. TypeOK'
  <2>1. delivered' \in Seq(1..MaxLines)
    BY <1>1, <1>2, AppendProperties DEF ConnectionInv, TypeOK
  <2>2. calls' \in 0..MaxCalls
    BY DEF ConnectionInv, TypeOK, UserReads
  <2> QED
    BY <1>1, <1>2, <2>1, <2>2 DEF ConnectionInv, TypeOK, peerVars, readVars, stopVars
<1>4. InOrderExactlyOnce'
  <2>1. InHand(User) = <<>> /\ InHand(Io) = <<>> /\ InHand(User)' = <<>> /\ InHand(Io)' = <<>>
    BY <1>1 DEF ConnectionInv, QueueInv, InHand
  <2>2. Append(delivered, Head(messages)) \o <<>> \o <<>> \o Tail(messages)
          = delivered \o <<>> \o <<>> \o messages
    <3>1. delivered \in Seq(1..MaxLines) /\ messages \in Seq(1..MaxLines) /\ messages # <<>>
      BY <1>1 DEF ConnectionInv, TypeOK
    <3> QED
      BY <3>1, TakenFirst, Zenon
  <2>3. taken' = taken
    BY <1>1 DEF readVars
  <2> QED
    BY <1>1, <2>1, <2>2, <2>3 DEF ConnectionInv, InOrderExactlyOnce
<1>5. (HandInv /\ NoMessageBesideObserver /\ QueueInv /\ MutexInv /\ StopInv)'
  BY <1>1 DEF ConnectionInv, HandInv, NoMessageBesideObserver, QueueInv, MutexInv,
       StopInv, NoReadLeft, readVars, stopVars
<1> QED
  BY <1>3, <1>4, <1>5 DEF ConnectionInv

LEMMA ConnectionInvHandleRead == ConnectionInv /\ HandleRead => ConnectionInv'
<1> SUFFICES ASSUME ConnectionInv, HandleRead PROVE ConnectionInv'
  OBVIOUS
<1> USE ConnectionAssumption
<1>1. /\ pc[Io] = "idle" /\ taken < buffered
      /\ read_handle_mutex' = Io /\ read_op = "ready" /\ taken' = taken + 1
      /\ UNCHANGED <<peerVars, buffered, should_continue_reading, disconnected,
                     connection, calls, delivered>>
  BY DEF ConnectionInv, TypeOK, HandleRead, LineReady
<1>2. /\ taken \in Nat /\ taken + 1 \in 1..MaxLines /\ taken' \in 0..buffered'
      /\ read_op' = "none"
  <2>1. sent \in 0..MaxLines /\ buffered \in 0..sent /\ taken \in 0..buffered
    BY DEF ConnectionInv, TypeOK
  <2>2. read_op' = "none" /\ buffered' = buffered
    BY <1>1 DEF HandleRead
  <2> QED
    BY <1>1, <2>1, <2>2
<1>3. ~disconnected /\ pc[User] \notin {"woken", "destroyed"}
  BY <1>1 DEF ConnectionInv, StopInv, NoReadLeft
<1>4. delivered \in Seq(1..MaxLines) /\ messages \in Seq(1..MaxLines) /\ InHand(User) \in Seq(1..MaxLines)
      /\ InHand(Io) = <<>>
  <2>1. delivered \in Seq(1..MaxLines) /\ messages \in Seq(1..MaxLines)
    BY DEF ConnectionInv, TypeOK
  <2>2. pc[User] = "callback" => <<hand[User].line>> \in Seq(1..MaxLines)
    BY DEF ConnectionInv, HandInv
  <2>3. InHand(User) \in Seq(1..MaxLines)
    BY <2>2, EmptySeq DEF InHand
  <2> QED
    BY <1>1, <2>1, <2>3 DEF InHand
<1>5. CASE observers # <<>>
  <2>1. /\ hand' = [hand EXCEPT ![Io] = [line |-> taken + 1, kind |-> Head(observers)]]
        /\ observers' = Tail(observers) /\ messages' = messages
        /\ pc' = [pc EXCEPT ![Io] = "callback"]
    BY <1>5 DEF HandleRead, ProcessMessage
  <2>2. messages = <<>> /\ pc[User] \notin {"callback", "again"}
    BY <1>5 DEF ConnectionInv, NoMessageBesideObserver, QueueInv
  <2>3. Head(observers) \in Kind /\ Tail(observers) \in Seq(Kind)
    BY <1>5, HeadTailProperties DEF ConnectionInv, TypeOK
  <2>4. TypeOK'
    <3>1. hand' \in [{Io, User} -> [line : 0..MaxLines, kind : Kind]]
      BY <1>2, <2>1, <2>3 DEF ConnectionInv, TypeOK
    <3>2. /\ pc' \in [{Io, User} -> IoPc \cup UserPc]
          /\ pc'[Io] \in IoPc /\ pc'[User] \in UserPc
      BY <2>1 DEF ConnectionInv, TypeOK, IoPc, UserPc
    <3> QED
      BY <1>1, <1>2, <2>1, <2>3, <3>1, <3>2 DEF ConnectionInv, TypeOK, ReadOp, peerVars
  <2>5. InOrderExactlyOnce'
    <3>1. InHand(User) = <<>> /\ InHand(User)' = <<>> /\ InHand(Io)' = <<taken + 1>>
      BY <2>1, <2>2 DEF InHand, ConnectionInv, TypeOK
    <3>2. delivered \o <<>> \o <<>> \o <<>> = delivered
      BY <1>4, ConcatEmptySeq
    <3>3. delivered = [i \in 1..taken |-> i]
      BY <1>4, <2>2, <3>1, <3>2 DEF ConnectionInv, InOrderExactlyOnce
    <3>4. delivered \o <<>> \o <<taken + 1>> \o <<>> = Append(delivered, taken + 1)
      <4>1. <<taken + 1>> \in Seq(1..MaxLines)
        BY <1>2
      <4>2. delivered \o <<taken + 1>> \in Seq(1..MaxLines)
        BY <1>4, <4>1, ConcatProperties
      <4> QED
        BY <1>2, <1>4, <4>2, ConcatEmptySeq, AppendIsConcat
    <3>5. delivered \o <<>> \o <<taken + 1>> \o <<>> = [i \in 1..taken + 1 |-> i]
      BY <1>2, <3>3, <3>4, CountOneMore
    <3> QED
      BY <1>1, <2>1, <2>2, <3>1, <3>5 DEF InOrderExactlyOnce
  <2>6. (HandInv /\ NoMessageBesideObserver /\ QueueInv /\ MutexInv /\ StopInv)'
    BY <1>1, <1>2, <1>3, <2>1, <2>2 DEF ConnectionInv, TypeOK, HandInv, NoMessageBesideObserver,
       QueueInv, MutexInv, StopInv
  <2> QED
    BY <2>4, <2>5, <2>6 DEF ConnectionInv
<1>6. CASE observers = <<>>
  <2>1. /\ messages' = Append(messages, taken + 1)
        /\ observers' = observers /\ hand' = hand
        /\ pc' = [pc EXCEPT ![Io] = "finish"]
    BY <1>6 DEF HandleRead, ProcessMessage
  <2>2. TypeOK'
    <3>1. messages' \in Seq(1..MaxLines)
      BY <1>2, <1>4, <2>1, AppendProperties
    <3>2. /\ pc' \in [{Io, User} -> IoPc \cup UserPc]
          /\ pc'[Io] \in IoPc /\ pc'[User] \in UserPc
      BY <2>1 DEF ConnectionInv, TypeOK, IoPc, UserPc
    <3> QED
      BY <1>1, <1>2, <2>1, <3>1, <3>2 DEF ConnectionInv, TypeOK, ReadOp, peerVars
  <2>3. InOrderExactlyOnce'
    <3> DEFINE before == delivered \o InHand(User) \o InHand(Io)
    <3>1. InHand(User)' = InHand(User) /\ InHand(Io)' = InHand(Io)
      BY <1>4, <2>1 DEF InHand, ConnectionInv, TypeOK
    <3>2. before \in Seq(1..MaxLines)
      <4>1. delivered \o InHand(User) \in Seq(1..MaxLines)
        BY <1>4, ConcatProperties
      <4> QED
        BY <1>4, <4>1, ConcatEmptySeq
    <3>3. before \o messages' = Append(before \o messages, taken + 1)
      <4> HIDE DEF before
      <4> DEFINE S == 1..MaxLines
                 e == taken + 1
      <4>1. before \in Seq(S) /\ messages \in Seq(S) /\ e \in S /\ messages' = Append(messages, e)
        BY <1>2, <1>4, <2>1, <3>2
      <4> HIDE DEF S, e
      <4>2. before \o messages' = Append(before \o messages, e)
        BY <4>1, QueueLast
      <4> QED
        BY <4>2 DEF e
    <3>4. before \o messages = [i \in 1..taken |-> i]
      BY DEF ConnectionInv, InOrderExactlyOnce
    <3>5. before \o messages' = [i \in 1..taken + 1 |-> i]
      BY <1>2, <3>3, <3>4, CountOneMore
    <3> QED
      BY <1>1, <3>1, <3>5 DEF InOrderExactlyOnce
  <2>4. (HandInv /\ NoMessageBesideObserver /\ QueueInv /\ MutexInv /\ StopInv)'
    BY <1>1, <1>2, <1>3, <1>6, <2>1 DEF ConnectionInv, TypeOK, HandInv, NoMessageBesideObserver,
       QueueInv, MutexInv, StopInv
  <2> QED
    BY <2>2, <2>3, <2>4 DEF ConnectionInv
<1> QED
  BY <1>5, <1>6

\* The ends of the handlers, which notify the destructor.
LEMMA ConnectionInvNotified ==
  ConnectionInv /\ (FinishRead \/ HandleReadError) => ConnectionInv'
<1> SUFFICES ASSUME ConnectionInv, FinishRead \/ HandleReadError PROVE ConnectionInv'
  OBVIOUS
<1> USE ConnectionAssumption
<1>1. /\ UNCHANGED <<peerVars, buffered, taken, queueVars, hand, should_continue_reading,
                     connection, calls, delivered>>
      /\ pc' = Notified /\ read_handle_mutex' = Free /\ pc[Io] \in {"idle", "finish"}
  BY DEF FinishRead, HandleReadError
<1>2. read_op' \in ReadOp /\ disconnected' \in BOOLEAN
  BY DEF ConnectionInv, TypeOK, ReadOp, FinishRead, HandleReadError, NextRead
<1>3. pc'[Io] = "idle" /\ pc'[User] = (IF pc[User] = "waiting" THEN "woken" ELSE pc[User])
      /\ pc' \in [{Io, User} -> IoPc \cup UserPc]
  BY <1>1 DEF ConnectionInv, TypeOK, Notified, IoPc, UserPc
<1>4. TypeOK'
  BY <1>1, <1>2, <1>3 DEF ConnectionInv, TypeOK, peerVars, queueVars, IoPc, UserPc
<1>5. InOrderExactlyOnce'
  <2>1. InHand(User)' = InHand(User) /\ InHand(Io)' = InHand(Io)
    BY <1>1, <1>3 DEF InHand
  <2> QED
    BY <1>1, <2>1 DEF ConnectionInv, InOrderExactlyOnce, queueVars
<1>6. (HandInv /\ NoMessageBesideObserver /\ QueueInv /\ MutexInv)'
  BY <1>1, <1>3 DEF ConnectionInv, HandInv, NoMessageBesideObserver, QueueInv, MutexInv, queueVars
<1>7. StopInv'
  <2>1. CASE HandleReadError
    BY <1>3, <2>1 DEF ConnectionInv, StopInv, NoReadLeft, HandleReadError
  <2>2. CASE FinishRead
    BY <1>3, <2>2 DEF ConnectionInv, StopInv, NoReadLeft, FinishRead, NextRead
  <2> QED
    BY <2>1, <2>2
<1> QED
  BY <1>4, <1>5, <1>6, <1>7 DEF ConnectionInv

\* The other steps move one thread on or change the read that is pending.
LEMMA ConnectionInvRest ==
  ConnectionInv /\ (NullConnection \/ MessageThrows \/ ContinueRead \/ ResetConnection
                      \/ StopReading \/ Destroyed \/ WakesSpuriously \/ UNCHANGED vars)
    => ConnectionInv'
<1> SUFFICES ASSUME ConnectionInv,
                    NullConnection \/ MessageThrows \/ ContinueRead \/ ResetConnection
                      \/ StopReading \/ Destroyed \/ WakesSpuriously \/ UNCHANGED vars
             PROVE  ConnectionInv'
  OBVIOUS
<1> USE ConnectionAssumption
<1>1. UNCHANGED <<peerVars, buffered, taken, queueVars, hand, read_handle_mutex, disconnected,
                  calls, delivered>>
  BY DEF NullConnection, MessageThrows, ContinueRead, ResetConnection, StopReading, Destroyed,
       WakesSpuriously, vars, readVars, stopVars
<1>2. /\ pc' \in [{Io, User} -> IoPc \cup UserPc] /\ pc'[Io] \in IoPc /\ pc'[User] \in UserPc
      /\ pc[Io] # pc'[Io] => \/ pc[Io] = "again" /\ pc'[Io] = "crashed"
                             \/ pc[Io] = "idle" /\ pc'[Io] = "ended"
      /\ pc[User] # pc'[User] =>
           pc[User] # "callback" /\ pc'[User] \notin {"idle", "callback", "again"}
  BY DEF ConnectionInv, TypeOK, IoPc, UserPc, NullConnection, MessageThrows, ContinueRead, ResetConnection,
       StopReading, Destroyed, WakesSpuriously, vars
<1>3. TypeOK'
  <2>1. read_op' \in ReadOp /\ connection' \in BOOLEAN /\ should_continue_reading' \in BOOLEAN
    BY DEF ConnectionInv, TypeOK, ReadOp, NullConnection, MessageThrows, ContinueRead, ResetConnection, Cancel,
       StopReading, Destroyed, WakesSpuriously, vars, readVars, stopVars
  <2> QED
    BY <1>1, <1>2, <2>1 DEF ConnectionInv, TypeOK, peerVars, queueVars
<1>4. InOrderExactlyOnce'
  <2>1. InHand(User)' = InHand(User) /\ InHand(Io)' = InHand(Io)
    BY <1>1, <1>2 DEF InHand
  <2> QED
    BY <1>1, <2>1 DEF ConnectionInv, InOrderExactlyOnce, queueVars
<1>5. (HandInv /\ NoMessageBesideObserver /\ QueueInv /\ MutexInv)'
  BY <1>1, <1>2 DEF ConnectionInv, TypeOK, HandInv, NoMessageBesideObserver, QueueInv, MutexInv, queueVars
<1>6. StopInv'
  <2> USE DEF ConnectionInv, TypeOK, StopInv, NoReadLeft
  <2>1. CASE NullConnection
    BY <2>1 DEF NullConnection, readVars, stopVars
  <2>2. CASE ContinueRead
    BY <2>2 DEF ContinueRead, stopVars
  <2>3. CASE ResetConnection
    BY <2>3 DEF ResetConnection, readVars
  <2>4. CASE StopReading
    <3>1. disconnected => pc'[User] = "destroyed" /\ UNCHANGED read_op
      BY <2>4 DEF StopReading
    <3>2. ~disconnected => pc'[User] = "waiting" /\ should_continue_reading' = FALSE
      BY <2>4 DEF StopReading
    <3>3. pc'[Io] = pc[Io]
      BY <2>4 DEF StopReading
    <3> QED
      BY <1>1, <3>1, <3>2, <3>3
  <2>5. CASE Destroyed
    BY <2>5 DEF Destroyed, readVars, stopVars
  <2>6. CASE WakesSpuriously
    BY <2>6 DEF WakesSpuriously, readVars, stopVars
  <2>7. CASE UNCHANGED vars
    BY <2>7 DEF vars, readVars, stopVars
  <2>8. CASE MessageThrows
    BY <2>8 DEF MessageThrows, stopVars
  <2> QED
    BY <2>1, <2>2, <2>3, <2>4, <2>5, <2>6, <2>7, <2>8
<1> QED
  BY <1>3, <1>4, <1>5, <1>6 DEF ConnectionInv

LEMMA ConnectionInvNext == ConnectionInv /\ [Next]_vars => ConnectionInv'
<1> SUFFICES ASSUME ConnectionInv, [Next]_vars PROVE ConnectionInv'
  OBVIOUS
<1>1. ASSUME NEW t \in {Io, User}, WaitForMessageAsync(t) PROVE ConnectionInv'
  <2>1. /\ pc[t] = "again" /\ ReadMessageAsync(t, "player", AfterCallback(t))
        /\ UNCHANGED <<peerVars, readVars, stopVars, calls, delivered>>
    BY <1>1 DEF WaitForMessageAsync
  <2>2. "player" \in Kind /\ calls' \in 0..MaxCalls
    BY <2>1 DEF Kind, ConnectionInv, TypeOK
  <2> QED
    BY <2>1, <2>2, ConnectionInvRead
<1>2. ASSUME NEW kind \in Kind, UserReadsAsync(kind) PROVE ConnectionInv'
  <2>1. /\ pc[User] = "idle" /\ ReadMessageAsync(User, kind, AfterCallback(User))
        /\ UNCHANGED <<peerVars, readVars, stopVars, delivered>>
    BY <1>2 DEF UserReadsAsync, AfterCallback
  <2>2. calls' \in 0..MaxCalls
    BY <1>2, ConnectionAssumption DEF UserReadsAsync, ConnectionInv, TypeOK
  <2> QED
    BY <2>1, <2>2, ConnectionInvRead
<1>3. ASSUME NEW t \in {Io, User}, Callback(t) \/ CallbackThrows(t) PROVE ConnectionInv'
  BY <1>3, ConnectionInvCallback
<1> QED
  BY <1>1, <1>2, <1>3, ConnectionInvPeer, ConnectionInvUserReads, ConnectionInvHandleRead,
     ConnectionInvNotified, ConnectionInvRest
     DEF Next, IoStep, UserCallback, Destructor

-----------------------------------------------------------------------------
(* What holds of every connection.                                         *)

\* The strengthening is inductive.
THEOREM ConnectionInvariant == Spec => []ConnectionInv
<1> QED
  BY ConnectionInvInit, ConnectionInvNext, PTL DEF Spec

\* The buffer, both queues and what the threads carry keep their types; in
\* particular no more lines are taken than have arrived.
THEOREM ConnectionTypeCorrect == Spec => []TypeOK
<1>1. ConnectionInv => TypeOK
  BY DEF ConnectionInv
<1> QED
  BY <1>1, ConnectionInvariant, PTL

\* Lines are handed out in the order sent, each exactly once, over both queues
\* and both threads.
THEOREM LinesInOrder == Spec => []InOrderExactlyOnce
<1>1. ConnectionInv => InOrderExactlyOnce
  BY DEF ConnectionInv
<1> QED
  BY <1>1, ConnectionInvariant, PTL

\* A message and an observer never wait for one another.
THEOREM MessagesMeetObservers == Spec => []NoMessageBesideObserver
<1>1. ConnectionInv => NoMessageBesideObserver
  BY DEF ConnectionInv
<1> QED
  BY <1>1, ConnectionInvariant, PTL

\* A destructor that was notified, or that found the connection lost, returns
\* after the last handler, whatever completion was queued when it cancelled.
THEOREM NotifiedMeansLast == Spec => []NotifiedDestructionIsLast
<1>1. ConnectionInv => NotifiedDestructionIsLast
  BY DEF ConnectionInv, StopInv, NotifiedDestructionIsLast
<1> QED
  BY <1>1, ConnectionInvariant, PTL

\* After the destructor has asked for the end at most one more line is handled,
\* and no read is started.
THEOREM ReadingStops == Spec => StopsAfterOneMoreLine
<1> DEFINE Stops ==
      ~should_continue_reading =>
        /\ read_op = "none" => read_op' = "none" /\ taken' = taken
        /\ taken' > taken => read_op' = "none"
<1>1. ASSUME TypeOK, [Next]_vars PROVE [Stops]_vars
  <2>1. taken \in Int
    BY <1>1 DEF TypeOK
  <2>2. CASE HandleRead
    BY <2>2 DEF HandleRead
  <2>3. CASE FinishRead
    BY <2>1, <2>3 DEF FinishRead, NextRead
  <2>4. CASE StopReading
    BY <2>1, <2>4 DEF StopReading, Cancel
  <2>5. CASE HandleReadError \/ MessageThrows \/ ContinueRead \/ SocketCompletes
    BY <2>1, <2>5 DEF HandleReadError, MessageThrows, ContinueRead, SocketCompletes
  <2>6. CASE UNCHANGED <<taken, read_op>>
    BY <2>1, <2>6
  <2> QED
    BY <1>1, <2>2, <2>3, <2>4, <2>5, <2>6
       DEF Next, IoStep, UserCallback, Destructor, vars, readVars, PeerSendsLine, PeerSendsHalfALine,
           PeerCloses, Callback, CallbackThrows, WaitForMessageAsync, NullConnection, UserReadsAsync, UserReads,
           ResetConnection, Destroyed, WakesSpuriously
<1> QED
  BY <1>1, ConnectionTypeCorrect, PTL DEF Spec, StopsAfterOneMoreLine
=============================================================================
