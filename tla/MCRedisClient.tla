--------------------------- MODULE MCRedisClient ---------------------------
(***************************************************************************)
(* Instance of RedisClient for TLC, and the replies ReplyBuilder decodes.  *)
(***************************************************************************)
EXTENDS RedisClient

Bulk(s) == [type |-> BulkString, str |-> s, is_null |-> FALSE]
Null == [type |-> BulkString, str |-> <<>>, is_null |-> TRUE]
Rows(s) == [type |-> Array, rows |-> s]
Int3 == [type |-> Number, val |-> 3]

\* "OK", an error "+", numbers, nothing, a text that is an end of line, arrays
\* of nothing and of arrays.
MCReplies ==
  {[type |-> SimpleString, str |-> <<79, 75>>], [type |-> Error, str |-> <<43>>],
   [type |-> Number, val |-> -7], [type |-> Number, val |-> 12],
   Null, Bulk(<<>>), Bulk(<<CR, LF>>), Rows(<<>>),
   Rows(<<Int3, Rows(<<>>), Rows(<<Bulk(<<CR>>), Null>>)>>)}
=============================================================================
