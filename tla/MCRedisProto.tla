---------------------------- MODULE MCRedisProto ----------------------------
(***************************************************************************)
(* TLC instances of RedisProto: strings that are empty, plain, or hold the  *)
(* bytes the protocol itself uses.                                          *)
(***************************************************************************)
EXTENDS RedisProto

Strings == {<<>>, <<97>>, <<CR, LF>>, <<BULK, 49, CR>>}
Bulks == {[kind |-> BULK, text |-> s] : s \in Strings} \cup {[kind |-> NULL]}
Integer(n) == [kind |-> INTEGER, number |-> n]
Array(s) == [kind |-> MULTI_BULK, elements |-> s]

FlatReplies ==
    Bulks
    \cup {[kind |-> p, text |-> t] : p \in {STATUS, ERROR}, t \in {<<97>>, <<97, 36>>}}
    \cup {Array(<<>>)} \cup {Array(<<a>>) : a \in Bulks} \cup {Array(<<a, b>>) : a, b \in Bulks}

\* A cursor and the elements it passed.
ScanReplies ==
    {Array(<<[kind |-> BULK, text |-> <<48>>], Array(s)>>) :
        s \in {<<>>} \cup {<<a, b>> : a, b \in {[kind |-> BULK, text |-> t] : t \in {<<>>, <<97>>}}}}

\* Around the number of significant digits.
IntegerReplies == {Integer(n) : n \in {-100, -1, 0, 10, 99, 100}}

AllReplies == FlatReplies \cup ScanReplies \cup IntegerReplies
=============================================================================
