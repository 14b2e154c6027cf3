----------------------------- MODULE RedisProto -----------------------------
(***************************************************************************)
(* The RESP codec (lhlh_redis_proto.lua) as the proxy uses it to relay the  *)
(* replies of a node to a client: redis_key decodes a reply from the        *)
(* connection of the node and encodes the result again.  Requests go the    *)
(* other way through the same two functions, as arrays of bulk strings.     *)
(*                                                                          *)
(* Bytes are numbers, those that matter to the codec in ASCII.              *)
(***************************************************************************)
EXTENDS Integers, SequencesExt

CONSTANTS
    Replies,            \* the replies a node may give
    Count,              \* how many it gives on one connection
    SignificantDigits   \* of a number as tostring writes it: 14

BULK == 36          \* $
MULTI_BULK == 42    \* *
STATUS == 43        \* +
ERROR == 45         \* -
INTEGER == 58       \* :
CR == 13
LF == 10
NULL == 0           \* the kind of a null bulk reply
CRLF == <<CR, LF>>

-----------------------------------------------------------------------------
(* Numbers as text.                                                         *)

RECURSIVE Digits(_)
Digits(n) == IF n < 10 THEN <<48 + n>> ELSE Append(Digits(n \div 10), 48 + (n % 10))

Decimal(n) == IF n < 0 THEN <<ERROR>> \o Digits(-n) ELSE Digits(n)

RECURSIVE DigitsValue(_)
DigitsValue(s) ==
    IF s = <<>> THEN 0 ELSE 10 * DigitsValue(Front(s)) + (Last(s) - 48)

tonumber(s) == IF Head(s) = ERROR THEN -DigitsValue(Tail(s)) ELSE DigitsValue(s)

\* %.14g: the significant digits, rounded and without trailing zeros, and
\* an exponent when they do not reach the units.
RECURSIVE NoZeros(_)
NoZeros(s) == IF Len(s) > 1 /\ Last(s) = 48 THEN NoZeros(Front(s)) ELSE s

Exponential(n) ==
    LET drop == 10 ^ (Len(Digits(n)) - SignificantDigits)
        rounded == (n + drop \div 2) \div drop
        mantissa == NoZeros(Digits(rounded))
        exponent == Len(Digits(rounded * drop)) - 1
    IN  (IF Len(mantissa) = 1 THEN mantissa ELSE <<mantissa[1], 46>> \o Tail(mantissa))
        \o <<101, 43>> \o (IF exponent < 10 THEN <<48>> ELSE <<>>) \o Digits(exponent)

tostring(n) ==
    LET abs == IF n < 0 THEN -n ELSE n
    IN  (IF n < 0 THEN <<ERROR>> ELSE <<>>)
        \o (IF Len(Digits(abs)) <= SignificantDigits THEN Digits(abs) ELSE Exponential(abs))

-----------------------------------------------------------------------------
(* Lua values: the type, and what the type calls for.                       *)

Nil == [type |-> "nil"]
Null == [type |-> "null"]
False == [type |-> "false"]
Str(s) == [type |-> "string", v |-> s]
Num(n) == [type |-> "number", v |-> n]
Table(t) == [type |-> "table", v |-> t]

-----------------------------------------------------------------------------
(* decode.  A socket is the bytes that arrive on it and what happens then.  *)

\* sock:receive() and sock:receive(n): a line without its end, n bytes, or
\* an error.
Line(sock) ==
    IF LF \notin ToSet(sock.bytes)
    THEN [data |-> Nil, err |-> sock.end, sock |-> sock]
    ELSE LET e == CHOOSE i \in DOMAIN sock.bytes :
                      sock.bytes[i] = LF /\ \A j \in 1 .. i - 1 : sock.bytes[j] # LF
         IN  [data |-> Str(SelectSeq(SubSeq(sock.bytes, 1, e - 1), LAMBDA b : b # CR)),
              err |-> Nil,
              sock |-> [sock EXCEPT !.bytes = SubSeq(@, e + 1, Len(@))]]

Bytes(sock, n) ==
    IF Len(sock.bytes) < n
    THEN [data |-> Nil, err |-> sock.end, sock |-> sock]
    ELSE [data |-> Str(SubSeq(sock.bytes, 1, n)), err |-> Nil,
          sock |-> [sock EXCEPT !.bytes = SubSeq(@, n + 1, Len(@))]]

Result(val, prefix, err, sock) == [val |-> val, prefix |-> prefix, err |-> err, sock |-> sock]

\* Variant: the CRLF after the data is left in the socket.
DecodeBulkNoCRLF(size, sock) ==
    LET data == Bytes(sock, size)
    IN  Result(data.data, BULK, data.err, data.sock)

\* Variant: a CRLF that did not come is overlooked.
DecodeBulkNoCheck(size, sock) ==
    LET data == Bytes(sock, size)
        dummy == Bytes(data.sock, 2)
    IN  Result(data.data, BULK, data.err, dummy.sock)

DecodeBulk(size, sock) ==
    LET data == Bytes(sock, size)
        dummy == Bytes(data.sock, 2)
    IN  IF data.data = Nil THEN Result(Nil, BULK, data.err, data.sock)
        ELSE IF dummy.data = Nil THEN Result(Nil, BULK, dummy.err, dummy.sock)
        ELSE Result(data.data, BULK, Nil, dummy.sock)

\* The second result of the nested decode, its prefix, is taken for err.
RECURSIVE decode(_), DecodeElements(_, _, _)
DecodeElements(n, vals, sock) ==
    IF n = 0 THEN Result(Table(vals), MULTI_BULK, Nil, sock)
    ELSE LET d == decode(sock)
             val == IF d.val = False THEN Table(<<False, Num(d.prefix)>>) ELSE d.val
         IN  IF d.val = Nil THEN Result(Nil, MULTI_BULK, Num(d.prefix), d.sock)
             ELSE DecodeElements(n - 1, Append(vals, val), d.sock)

decode(sock) ==
    LET line == Line(sock)
        prefix == line.data.v[1]
        text == Tail(line.data.v)
    IN  IF line.data = Nil \/ (line.data # Nil /\ line.data.v = <<>>)
        THEN Result(Nil, 0, line.err, line.sock)
        ELSE CASE prefix = BULK ->
                     IF tonumber(text) < 0 THEN Result(Null, prefix, Nil, line.sock)
                     ELSE DecodeBulk(tonumber(text), line.sock)
               [] prefix = STATUS -> Result(Str(text), prefix, Nil, line.sock)
               [] prefix = MULTI_BULK ->
                     IF tonumber(text) < 0 THEN Result(Null, prefix, Nil, line.sock)
                     ELSE DecodeElements(tonumber(text), <<>>, line.sock)
               [] prefix = INTEGER -> Result(Num(tonumber(text)), prefix, Nil, line.sock)
               [] prefix = ERROR -> Result(False, prefix, Str(text), line.sock)
               [] OTHER -> Result(Nil, prefix, Str(text), line.sock)

-----------------------------------------------------------------------------
(* encode, and the flattening of nested tables when the result is sent.     *)

\* A Lua error (the length of a number, a value that cannot be sent) ends
\* the session.
LuaError == [ok |-> FALSE, bytes |-> <<>>]
Sent(bytes) == [ok |-> TRUE, bytes |-> bytes]
Then(a, b) == IF a.ok /\ b.ok THEN Sent(a.bytes \o b.bytes) ELSE LuaError

RECURSIVE Flat(_), Concat(_)
Flat(value) ==
    CASE value.type = "string" -> Sent(value.v)
      [] value.type = "number" -> Sent(tostring(value.v))
      [] value.type = "table"  -> Concat(value.v)
      [] value.type \in {"nil", "null", "false"} -> LuaError
Concat(values) == IF values = <<>> THEN Sent(<<>>) ELSE Then(Flat(Head(values)), Concat(Tail(values)))

\* Variant: the null element is written as an empty string.
EncodeBulkEmpty(value) ==
    IF value.type \in {"null", "nil"} THEN Sent(<<BULK, 48>> \o CRLF \o CRLF)
    ELSE Then(Sent(<<BULK>> \o tostring(Len(value.v)) \o CRLF), Then(Flat(value), Sent(CRLF)))

\* # of a string is its length in bytes, # of a table counts its elements.
EncodeBulk(value) ==
    IF value.type \in {"null", "nil"} THEN Sent(<<BULK, ERROR, 49>> \o CRLF)
    ELSE IF value.type \in {"string", "table"}
    THEN Then(Sent(<<BULK>> \o tostring(Len(value.v)) \o CRLF), Then(Flat(value), Sent(CRLF)))
    ELSE LuaError

RECURSIVE EncodeElements(_)
EncodeElements(values) ==
    IF values = <<>> THEN Sent(<<>>)
    ELSE Then(EncodeBulk(Head(values)), EncodeElements(Tail(values)))

encode(args, prefix) ==
    CASE prefix = BULK -> EncodeBulk(args)
      [] prefix = MULTI_BULK ->
            IF args.type = "table"
            THEN Then(Sent(<<MULTI_BULK>> \o tostring(Len(args.v)) \o CRLF), EncodeElements(args.v))
            ELSE LuaError
      [] prefix \in {STATUS, ERROR, INTEGER} ->
            Then(Then(Sent(<<prefix>>), Flat(args)), Sent(CRLF))
      [] OTHER -> LuaError   \* nothing to send

\* redis_key, when the reply asks for no second attempt.
redis_key(d) == IF d.err # Nil THEN encode(d.err, ERROR) ELSE encode(d.val, d.prefix)

-----------------------------------------------------------------------------
(* A connection that carries Count replies, up to some byte.                *)

\* RESP as a node writes it.
RECURSIVE Wire(_), Wires(_)
Wire(reply) ==
    CASE reply.kind \in {STATUS, ERROR} -> <<reply.kind>> \o reply.text \o CRLF
      [] reply.kind = INTEGER -> <<INTEGER>> \o Decimal(reply.number) \o CRLF
      [] reply.kind = BULK ->
            <<BULK>> \o Decimal(Len(reply.text)) \o CRLF \o reply.text \o CRLF
      [] reply.kind = NULL -> <<BULK, ERROR, 49>> \o CRLF
      [] reply.kind = MULTI_BULK ->
            <<MULTI_BULK>> \o Decimal(Len(reply.elements)) \o CRLF \o Wires(reply.elements)
Wires(replies) == IF replies = <<>> THEN <<>> ELSE Wire(Head(replies)) \o Wires(Tail(replies))

VARIABLES
    replies,  \* what the node sends
    arrived,  \* how many bytes of it arrive
    sock,     \* the connection
    done,     \* replies relayed
    sent,     \* what the client received for each reply
    state     \* "open", or why the session ended

vars == <<replies, arrived, sock, done, sent, state>>

Init ==
    /\ replies \in [1 .. Count -> Replies]
    /\ arrived \in 0 .. Len(Wires(replies))
    /\ \E end \in {<<116>>, <<99>>} :
          sock = [bytes |-> SubSeq(Wires(replies), 1, arrived),
                  end |-> Str(end)]
    /\ done = 0
    /\ sent = <<>>
    /\ state = "open"

\* A reply that does not arrive in full is reported to the client, and the
\* model stops there.  What becomes of its connection is part of ClusterCommand:
\* a timeout inside an array leaves it in the pool.
Relay ==
    LET d == decode(sock)
        rsp == redis_key(d)
        lost == d.val = Nil
    IN  /\ state = "open"
        /\ done < Count
        /\ sock' = d.sock
        /\ IF rsp.ok
           THEN /\ sent' = Append(sent, rsp.bytes)
                /\ done' = IF lost THEN done ELSE done + 1
                /\ state' = IF lost THEN "lost" ELSE "open"
           ELSE state' = "error" /\ UNCHANGED <<sent, done>>
        /\ UNCHANGED <<replies, arrived>>

Next == Relay

Spec == Init /\ [][Next]_vars

Consumed(n) == Len(Wires(SubSeq(replies, 1, n)))

-----------------------------------------------------------------------------

\* decode leaves the socket where the next reply starts, whatever the bytes
\* of the data are: the next request on the connection reads its own reply.
Framed ==
    state = "open" => sock.bytes = SubSeq(Wires(replies), Consumed(done) + 1, arrived)

\* A reply counts as received exactly when its last byte has arrived: decode
\* takes no part of a reply for the whole, wherever it is cut.
Complete ==
    /\ state = "open" => Consumed(done) <= arrived
    /\ state = "lost" => Consumed(done + 1) > arrived

Short(n) == Len(Digits(IF n < 0 THEN -n ELSE n)) <= SignificantDigits

\* Bulk strings, status lines, errors, integers that tostring writes in full,
\* and arrays of bulk strings.
Relayable(reply) ==
    /\ reply.kind = INTEGER => Short(reply.number)
    /\ reply.kind = MULTI_BULK =>
          \A i \in DOMAIN reply.elements : reply.elements[i].kind \in {BULK, NULL}

\* The client receives the bytes the node sent for every reply but the two
\* kinds encode cannot write, nested arrays (HSCAN, SSCAN and ZSCAN) and
\* integers of more than 14 digits; such a reply before it makes no difference.
Faithful ==
    /\ \A i \in 1 .. done : Relayable(replies[i]) => sent[i] = Wire(replies[i])
    /\ state = "error" => ~Relayable(replies[done + 1])
=============================================================================
