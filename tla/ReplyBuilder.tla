----------------------------- MODULE ReplyBuilder -----------------------------
(***************************************************************************)
(* cpp_redis/sources/builders: the incremental decoder of Redis replies.   *)
(* A builder state is a record; bytes are character codes.  The builders   *)
(* that own one another are the stack m_builder, the outermost first.      *)
(***************************************************************************)
EXTENDS Integers, Sequences, SequencesExt

CONSTANT SomeReplies   \* bound: the replies whose streams are decoded

CR == 13
LF == 10
Dash == 45
Digit == 48..57
SimpleString == 43
Error == 45
Number == 58
BulkString == 36
Array == 42

\* The size of a bulk string or an array: <<>> until its line is there.
Unknown == <<>>

NoReplyYet == [m_buffer |-> <<>>, m_builder |-> <<>>, replies |-> <<>>, thrown |-> FALSE]

-----------------------------------------------------------------------------
Ends(buffer) ==
  {i \in 1..(Len(buffer) - 1) : buffer[i] = CR /\ buffer[i + 1] = LF}

Dropped(buffer, n) == SubSeq(buffer, n + 1, Len(buffer))

Bug_AnyCharacter(line) == TRUE

IsInteger(line) ==
  \A i \in DOMAIN line : line[i] \in Digit \/ (i = 1 /\ line[i] = Dash)

\* The value of the digits; the minus sign counts once they are read.
Integer(line) ==
  LET m_nbr[i \in 0..Len(line)] ==
        IF i = 0 THEN 0
        ELSE IF line[i] = Dash THEN m_nbr[i - 1]
        ELSE 10 * m_nbr[i - 1] + (line[i] - 48)
  IN IF line # <<>> /\ line[1] = Dash THEN -m_nbr[Len(line)] ELSE m_nbr[Len(line)]

\* The innermost builder is ready: its reply is a row of the array that
\* encloses it, or available.
Ready(b, buffer, reply) ==
  LET outer == Front(b.m_builder) IN
  IF outer = <<>>
  THEN [b EXCEPT !.m_buffer = buffer, !.m_builder = <<>>,
                 !.replies = Append(@, reply)]
  ELSE [b EXCEPT !.m_buffer = buffer,
                 !.m_builder = [outer EXCEPT ![Len(outer)].rows = Append(@, reply)]]

Sized(b, buffer, n) ==
  [b EXCEPT !.m_buffer = buffer, !.m_builder[Len(b.m_builder)].size = <<n>>]

Throw(b) == [b EXCEPT !.thrown = TRUE]

\* create_builder for the id in front.
CreateBuilder(b) ==
  IF b.m_buffer = <<>> THEN b
  ELSE IF Head(b.m_buffer) \notin {SimpleString, Error, Number, BulkString, Array}
  THEN Throw(b)
  ELSE [b EXCEPT !.m_buffer = Tail(@),
          !.m_builder = Append(@, [id |-> Head(b.m_buffer), size |-> Unknown, rows |-> <<>>])]

\* All builders first need a whole line: a text, a number, or a size.  An array
\* takes its size from the buffer before it throws at a negative one: the next read
\* does not throw but builds rows, compares their number with an m_array_size that
\* was never set, and is taken not to meet it, as it never meets a negative size.
ReadLine(b, id) ==
  LET last == Min(Ends(b.m_buffer))
      line == SubSeq(b.m_buffer, 1, last - 1)
      rest == Dropped(b.m_buffer, last + 1)
  IN
  IF Ends(b.m_buffer) = {} THEN b
  ELSE IF id \in {SimpleString, Error} THEN Ready(b, rest, [type |-> id, str |-> line])
  ELSE IF ~IsInteger(line) THEN Throw(b)
  ELSE IF id = Number THEN Ready(b, rest, [type |-> id, val |-> Integer(line)])
  ELSE IF id = BulkString /\ Integer(line) = -1
  THEN Ready(b, rest, [type |-> id, str |-> <<>>, is_null |-> TRUE])
  ELSE IF id = Array /\ Integer(line) < 0 THEN Throw(Sized(b, rest, Integer(line)))
  ELSE Sized(b, rest, Integer(line))

Bug_EndOfTextIsNotAwaited(b, size) ==
  IF Len(b.m_buffer) < size THEN b
  ELSE Ready(b, Dropped(b.m_buffer, size + 2),
             [type |-> BulkString, str |-> SubSeq(b.m_buffer, 1, size), is_null |-> FALSE])

\* bulk_string_builder waits for the end sequence before it cuts the text.  The sum
\* is unsigned: for a size below -2, which no Redis sends, it is some 2^32 bytes;
\* for -2 it is 0, and the bytes before the buffer are not an end sequence.
ReadText(b, size) ==
  IF size = -2 THEN Throw(b)
  ELSE IF size < 0 \/ Len(b.m_buffer) < size + 2 THEN b
  ELSE IF b.m_buffer[size + 1] # CR \/ b.m_buffer[size + 2] # LF THEN Throw(b)
  ELSE Ready(b, Dropped(b.m_buffer, size + 2),
             [type |-> BulkString, str |-> SubSeq(b.m_buffer, 1, size), is_null |-> FALSE])

\* One step of the innermost builder; without the bytes for one, no change.
Build(b) ==
  IF b.thrown THEN b
  ELSE IF b.m_builder = <<>> THEN CreateBuilder(b)
  ELSE LET top == Last(b.m_builder) IN
       IF top.size = Unknown THEN ReadLine(b, top.id)
       ELSE IF top.id = BulkString THEN ReadText(b, top.size[1])
       ELSE IF <<Len(top.rows)>> = top.size
       THEN Ready(b, b.m_buffer, [type |-> Array, rows |-> top.rows])
       ELSE CreateBuilder(b)

\* reply_builder::operator<< begins with m_buffer += data ...
Given(b, data) == [b EXCEPT !.m_buffer = @ \o data, !.thrown = FALSE]

\* ... and builds until it cannot: every step takes a byte or finishes an array,
\* so this many are enough.
Fed(b, data) ==
  LET start == Given(b, data)
      after[i \in Nat] == IF i = 0 THEN start ELSE Build(after[i - 1])
  IN after[2 * Len(start.m_buffer) + Len(b.m_builder)]

-----------------------------------------------------------------------------
(* What a Redis server writes.                                             *)

Byte == 0..255
Text == {s \in Seq(Byte) : Ends(s) = {}}

\* A text ends with its line, a bulk string with its size; arrays have rows, and
\* rows may be arrays.  Numbers are those the code's int can hold: it overflows
\* where Int does not.
Flat ==
  [type : {SimpleString, Error}, str : Text] \cup [type : {Number}, val : Int]
  \cup [type : {BulkString}, str : Seq(Byte), is_null : {FALSE}]
  \cup [type : {BulkString}, str : {<<>>}, is_null : {TRUE}]
ArrayOf(S) == [type : {Array}, rows : Seq(S)]
Row == Flat \cup ArrayOf(Flat)
Reply == Flat \cup ArrayOf(Row)

ASSUME RepliesAssumption == SomeReplies \subseteq Reply

Decimal[n \in Nat] ==
  IF n < 10 THEN <<48 + n>> ELSE Append(Decimal[n \div 10], 48 + (n % 10))

EncodedInt(n) == IF n < 0 THEN <<Dash>> \o Decimal[-n] ELSE Decimal[n]

EndLine(line) == line \o <<CR, LF>>

EncodedFlat(r) ==
  LET body == IF r.type \in {SimpleString, Error} THEN EndLine(r.str)
              ELSE IF r.type = Number THEN EndLine(EncodedInt(r.val))
              ELSE IF r.is_null THEN EndLine(EncodedInt(-1))
              ELSE EndLine(EncodedInt(Len(r.str))) \o EndLine(r.str)
  IN <<r.type>> \o body

EncodedArray(r, EncodedRow(_)) ==
  <<Array>> \o EndLine(EncodedInt(Len(r.rows)))
            \o FlattenSeq([i \in DOMAIN r.rows |-> EncodedRow(r.rows[i])])

EncodedRow(r) == IF r.type = Array THEN EncodedArray(r, EncodedFlat) ELSE EncodedFlat(r)
Encoded(r) == IF r.type = Array THEN EncodedArray(r, EncodedRow) ELSE EncodedFlat(r)

EncodedAll(replies) == FlattenSeq([i \in DOMAIN replies |-> Encoded(replies[i])])

\* The replies whose last byte is among the first n.
WholeWithin(replies, n) ==
  SubSeq(replies, 1, Max({k \in 0..Len(replies) :
                            Len(EncodedAll(SubSeq(replies, 1, k))) <= n}))

\* Decoder b, given a stream of replies, has after every byte exactly the replies
\* that are complete, and its state does not depend on the cuts before: feeding x,
\* then y, is feeding x y.
DecodesStream(b, replies) ==
  LET bytes == EncodedAll(replies)
      after == [i \in 0..Len(bytes) |-> Fed(b, SubSeq(bytes, 1, i))]
  IN \A i \in 0..Len(bytes) :
       /\ ~after[i].thrown
       /\ after[i].replies = WholeWithin(replies, i)
       /\ \A j \in i..Len(bytes) : after[j] = Fed(after[i], SubSeq(bytes, i + 1, j))

DecodesHoweverCut(b) == \A replies \in BoundedSeq(SomeReplies, 2) : DecodesStream(b, replies)
=============================================================================
