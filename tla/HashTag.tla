------------------------------ MODULE HashTag ------------------------------
(***************************************************************************)
(* The bytes of a key that key_hash_slot (ngx_stream_lua_redis.c) hashes:   *)
(* those of its hash tag, or all of them.                                   *)
(***************************************************************************)
EXTENDS Integers, Sequences

OPEN == 123     \* {
CLOSE == 125    \* }

\* The first position from i on that holds b, or the one past the end.
Find(key, b, i) ==
    CHOOSE e \in i .. Len(key) + 1 :
        /\ e = Len(key) + 1 \/ (e <= Len(key) /\ key[e] = b)
        /\ \A j \in i .. e - 1 : key[j] # b

\* Variant: an empty tag is hashed.
HashedBytesEmpty(key) ==
    LET s == Find(key, OPEN, 1)
        e == Find(key, CLOSE, s + 1)
    IN  IF s = Len(key) + 1 \/ e = Len(key) + 1 THEN key ELSE SubSeq(key, s + 1, e - 1)

HashedBytes(key) ==
    LET s == Find(key, OPEN, 1)
        e == Find(key, CLOSE, s + 1)
    IN  IF s = Len(key) + 1 \/ e = Len(key) + 1 \/ e = s + 1 THEN key
        ELSE SubSeq(key, s + 1, e - 1)

-----------------------------------------------------------------------------
(* The Redis Cluster rule on hash tags, which the comments of the file      *)
(* repeat.                                                                  *)

\* The first { of k is at s, the first } after it at e, and there is
\* something between them.
TagAt(k, s, e) ==
    /\ k[s] = OPEN /\ k[e] = CLOSE /\ s + 1 < e
    /\ \A i \in 1 .. s - 1 : k[i] # OPEN
    /\ \A i \in s + 1 .. e - 1 : k[i] # CLOSE

Tags(k) ==
    {SubSeq(k, p[1] + 1, p[2] - 1) :
        p \in {q \in (1 .. Len(k)) \X (1 .. Len(k)) : TagAt(k, q[1], q[2])}}

Hashed(k) == IF Tags(k) = {} THEN k ELSE CHOOSE t \in Tags(k) : TRUE
=============================================================================
