----------------------------- MODULE SharedDict -----------------------------
(***************************************************************************)
(* ngx.shared.DICT (ngx_stream_lua_shdict.c).  Every call holds the mutex   *)
(* of the zone's slab pool from its first to its last access, so each is    *)
(* one action.                                                              *)
(*                                                                          *)
(* The nodes hang in a red-black tree, found by key, and in a queue, the    *)
(* most recently used first.  A call starts by dropping at most two         *)
(* expired nodes from the end of the queue; a store that finds no memory    *)
(* drops nodes from there by force.                                         *)
(***************************************************************************)
EXTENDS Queues, FiniteSetsExt

CONSTANTS
    Key,
    Text,        \* the values that are no numbers
    TextSize,    \* their value_len
    NumberSize,  \* value_len of a number: sizeof(double)
    MaxNumber,   \* bound on numbers
    Amount,      \* what incr may add
    Exptime,     \* times to live in ms; 0: for ever
    Capacity,    \* of the zone, in the units of the sizes
    Rounds,      \* attempts to make room (30 in the code)
    Attempts,    \* bounds passed to flush_expired and get_keys; 0: none
    None,
    MaxTime

ASSUME DictAssumption ==
    /\ Exptime \subseteq Nat
    /\ Amount \subseteq Nat
    /\ Rounds \in Nat
    /\ MaxNumber \in Nat
    /\ MaxTime \in Nat
    /\ Attempts \subseteq Nat
    /\ Text \cap Nat = {}
    /\ None \notin Text \cup Nat \cup [value : Text \cup Nat, expires : Nat]

VARIABLES
    node,    \* the red-black tree: the node of each key, or None
    queue,   \* ctx->sh->queue
    now,     \* ngx_timeofday in ms
    out      \* the last call and its results

vars == <<node, queue, now, out>>

Number == 0 .. MaxNumber
Value == Text \cup Number
SizeOf(v) == IF v \in Text THEN TextSize[v] ELSE NumberSize

\* A zone as the calls pass it from step to step.
Zone == [node |-> node, queue |-> queue]

Answer(op, k, ok, v, err, forcible, stale) ==
    [op |-> op, key |-> k, ok |-> ok, val |-> v, err |-> err, forcible |-> forcible, stale |-> stale]

Return(op, k, ok, v, err) == Answer(op, k, ok, v, err, FALSE, FALSE)

Init ==
    /\ node = [k \in Key |-> None]
    /\ queue = <<>>
    /\ now = 2
    /\ out = Return("none", None, TRUE, None, None)

Becomes(z) == node' = z.node /\ queue' = z.queue

\* ngx_slab_alloc_locked finds no room when the nodes fill the zone.  The
\* slab allocator may also fail earlier, for want of a free page.
Used(z) ==
    MapThenSumSet(LAMBDA k : SizeOf(z.node[k].value), {k \in Key : z.node[k] # None})

Fits(z, v) == Used(z) + SizeOf(v) <= Capacity
MayFail(z, v) == ~Fits(z, v) \/ z.queue # <<>>

-----------------------------------------------------------------------------

\* flush_expired and expire: expired from its very millisecond on.
Dead(e) == e.expires # 0 /\ e.expires <= now

\* lookup: still found in that millisecond.
Late(e) == e.expires # 0 /\ e.expires < now

Position(q, k) == CHOOSE i \in DOMAIN q : q[i] = k

Remove(z, k) ==
    [node |-> [z.node EXCEPT ![k] = None], queue |-> Without(z.queue, Position(z.queue, k))]

\* The zone when only the first n nodes of the queue are left.
Cut(z, n) ==
    [node |-> [k \in Key |-> IF k \in Entries(SubSeq(z.queue, 1, n)) THEN z.node[k] ELSE None],
     queue |-> SubSeq(z.queue, 1, n)]

\* Variant: the node at the end goes whether or not it has expired.
DropDeadAny(z, n) == IF n > 0 THEN n - 1 ELSE n

\* What is left of n nodes after a look at the last one ...
DropDead(z, n) == IF n > 0 /\ Dead(z.node[z.queue[n]]) THEN n - 1 ELSE n

\* ... and after expire(ctx, 1) and expire(ctx, 0): two looks, and before
\* them one node by force.
ExpireLeft(z, n) == DropDead(z, DropDead(z, n))
ForcedLeft(z, n) == IF n = 0 THEN 0 ELSE ExpireLeft(z, n - 1)

Expire(z) == Cut(z, ExpireLeft(z, Len(z.queue)))
ExpireForced(z) == Cut(z, ForcedLeft(z, Len(z.queue)))

\* lookup: a node that is found, expired or not, moves to the head.
Lookup(z, k) ==
    CASE z.node[k] = None -> "DECLINED"
      [] z.node[k] # None /\ Late(z.node[k]) -> "DONE"
      [] z.node[k] # None /\ ~Late(z.node[k]) -> "OK"

\* Variant: the node is not taken out of the queue first.
TouchTwice(z, k) ==
    IF z.node[k] = None THEN z
    ELSE [node |-> z.node, queue |-> Prepend(k, z.queue)]

Touch(z, k) ==
    IF z.node[k] = None THEN z
    ELSE [node |-> z.node, queue |-> Prepend(k, Without(z.queue, Position(z.queue, k)))]

\* The zone after the expiry and the lookup that open a call.
Opened(k) == Touch(Expire(Zone), k)

Deadline(t) == IF t > 0 THEN now + t ELSE 0

Insert(z, k, v, t) ==
    [node |-> [z.node EXCEPT ![k] = [value |-> v, expires |-> Deadline(t)]],
     queue |-> Prepend(k, z.queue)]

Overwrite(z, k, v, expires) ==
    [node |-> [z.node EXCEPT ![k] = [value |-> v, expires |-> expires]], queue |-> z.queue]

Safe(op) == op \in {"safe_set", "safe_add"}

\* n nodes are left after i rounds of expire(ctx, 0).
AfterRounds(z, i, n) ==
    \E left \in [0 .. i -> 0 .. Len(z.queue)] :
        /\ left[0] = Len(z.queue)
        /\ \A j \in 1 .. i : left[j - 1] > 0 /\ left[j] = ForcedLeft(z, left[j - 1])
        /\ left[i] = n

\* Allocation succeeds at once or, unless the store is safe, after i rounds
\* that each freed something.
Allocate(z, op, k, v, t) ==
    \E i \in 0 .. Rounds, n \in 0 .. Len(z.queue) :
        /\ Safe(op) => i = 0
        /\ AfterRounds(z, i, n)
        /\ Fits(Cut(z, n), v)
        /\ Becomes(Insert(Cut(z, n), k, v, t))
        /\ out' = Answer(op, k, TRUE, v, None, i > 0, FALSE)

\* No allocation succeeded: not after the last round, nor when nothing was
\* left to free.
NoMemory(z, op, k, v) ==
    \E i \in 0 .. Rounds, n \in 0 .. Len(z.queue) :
        /\ AfterRounds(z, i, n)
        /\ IF Safe(op) THEN i = 0 ELSE i = Rounds \/ n = 0
        /\ MayFail(Cut(z, n), v)
        /\ Becomes(Cut(z, n))
        /\ out' = Answer(op, k, FALSE, v, "no memory", i > 0, FALSE)

\* set_helper
Refuse(op, k, v, err) == Becomes(Opened(k)) /\ out' = Return(op, k, FALSE, v, err)

StoreValue(op, k, v, t) ==
    LET z == Opened(k)
    IN  \/ /\ z.node[k] # None
           /\ SizeOf(z.node[k].value) = SizeOf(v)
           /\ Becomes(Overwrite(z, k, v, Deadline(t)))
           /\ out' = Return(op, k, TRUE, v, None)
        \/ /\ z.node[k] # None
           /\ SizeOf(z.node[k].value) # SizeOf(v)
           /\ Allocate(Remove(z, k), op, k, v, t) \/ NoMemory(Remove(z, k), op, k, v)
        \/ /\ z.node[k] = None
           /\ Allocate(z, op, k, v, t) \/ NoMemory(z, op, k, v)

set(k, v, t) == StoreValue("set", k, v, t)
safe_set(k, v, t) == StoreValue("safe_set", k, v, t)

\* An expired node counts as absent, and its memory is used again.
AddTo(op, k, v, t) ==
    \/ Lookup(Expire(Zone), k) = "OK" /\ Refuse(op, k, v, "exists")
    \/ Lookup(Expire(Zone), k) # "OK" /\ StoreValue(op, k, v, t)

add(k, v, t) == AddTo("add", k, v, t)
safe_add(k, v, t) == AddTo("safe_add", k, v, t)

replace(k, v, t) ==
    \/ Lookup(Expire(Zone), k) # "OK" /\ Refuse("replace", k, v, "not found")
    \/ Lookup(Expire(Zone), k) = "OK" /\ StoreValue("replace", k, v, t)

\* set_helper with a nil value
delete(k) ==
    LET z == Opened(k)
    IN  /\ Becomes(IF z.node[k] = None THEN z ELSE Remove(z, k))
        /\ out' = Return("delete", k, TRUE, None, None)

incr(k, v) ==
    LET rc == Lookup(Expire(Zone), k)
        z == Opened(k)
        number == rc = "OK" /\ z.node[k].value \notin Text
    IN  \/ rc # "OK" /\ Refuse("incr", k, v, "not found")
        \/ rc = "OK" /\ ~number /\ Refuse("incr", k, v, "not a number")
        \/ /\ number
           /\ z.node[k].value + v <= MaxNumber
           /\ Becomes(Overwrite(z, k, z.node[k].value + v, z.node[k].expires))
           /\ out' = Return("incr", k, TRUE, z.node[k].value + v, None)

\* Variant: an expired node that is found is returned.
getLate(k) ==
    /\ Becomes(Opened(k))
    /\ out' = Return("get", k, TRUE, IF Opened(k).node[k] = None THEN None
                                      ELSE Opened(k).node[k].value, None)

get(k) ==
    LET rc == Lookup(Expire(Zone), k)
    IN  /\ Becomes(Opened(k))
        /\ out' = Return("get", k, TRUE, IF rc = "OK" THEN Opened(k).node[k].value ELSE None, None)

\* get_stale drops nothing and says whether the entry has expired.
get_stale(k) ==
    LET rc == Lookup(Zone, k)
        v == IF rc = "DECLINED" THEN None ELSE node[k].value
    IN  /\ Becomes(Touch(Zone, k))
        /\ out' = Answer("get_stale", k, TRUE, v, None, FALSE, rc = "DONE")

\* Every node expires in 1970; up to three are freed at once.
flush_all ==
    LET z == [node |-> [k \in Key |-> IF node[k] = None THEN None
                                      ELSE [value |-> node[k].value, expires |-> 1]],
              queue |-> queue]
    IN  /\ Becomes(ExpireForced(z))
        /\ out' = Return("flush_all", None, TRUE, None, None)

Stale == {k \in Entries(queue) : Dead(node[k])}

\* The keys of S, from the end of the queue; n bounds them unless 0.
Oldest(S, n) ==
    {k \in S : n # 0 => Cardinality({j \in S : Position(queue, j) >= Position(queue, k)}) <= n}

\* What stays keeps its order.
flush_expired(n) ==
    LET freed == Oldest(Stale, n)
    IN  /\ node' = [k \in Key |-> IF k \in freed THEN None ELSE node[k]]
        /\ \E m \in 0 .. Len(queue) : \E q \in [1 .. m -> Key] :
              /\ Entries(q) = Entries(queue) \ freed
              /\ \A i, j \in 1 .. m : i < j => Position(queue, q[i]) < Position(queue, q[j])
              /\ queue' = q
        /\ out' = Return("flush_expired", None, TRUE, Cardinality(freed), None)

get_keys(n) ==
    /\ out' = Return("get_keys", None, TRUE, Oldest(Entries(queue) \ Stale, n), None)
    /\ UNCHANGED <<node, queue>>

Call ==
    \/ \E k \in Key, v \in Value, t \in Exptime :
          \/ set(k, v, t) \/ safe_set(k, v, t)
          \/ add(k, v, t) \/ safe_add(k, v, t)
          \/ replace(k, v, t)
    \/ \E k \in Key : delete(k) \/ get(k) \/ get_stale(k)
    \/ \E k \in Key, v \in Amount : incr(k, v)
    \/ \E n \in Attempts : flush_expired(n) \/ get_keys(n)
    \/ flush_all

\* One time for all callers.  ngx_timeofday() is cached by each worker, so for
\* calls of two workers the model says what holds if their times agree.
Tick == now < MaxTime /\ now' = now + 1 /\ UNCHANGED <<node, queue, out>>

Next == (Call /\ UNCHANGED now) \/ Tick

Spec == Init /\ [][Next]_vars

-----------------------------------------------------------------------------

\* The type of the state.
TypeOK ==
    /\ node \in [Key -> [value : Value, expires : Nat] \cup {None}]
    /\ queue \in Seq(Key)
    /\ now \in Nat

\* Tree and queue hold the same nodes, each once, whatever call removes,
\* reuses or moves one: a node left in one of the two would be freed memory.
TreeMatchesQueue ==
    /\ Distinct(queue)
    /\ Entries(queue) = {k \in Key : node[k] # None}

\* A live entry of another key disappears only in a flush_all, or in a set,
\* add or replace that reports forcible: safe_set and safe_add never evict
\* one, and neither does the expiry that opens every call.
LossIsReported ==
    [][\A k \in Key :
          (node[k] # None /\ node'[k] = None /\ ~Dead(node[k]) /\ k # out'.key)
          => out'.op = "flush_all" \/ (out'.op \in {"set", "add", "replace"} /\ out'.forcible)]_vars

\* An atomic map that loses entries, as Store specifies it.
Promise == INSTANCE Store WITH
    map <- [k \in Key |-> IF node[k] = None THEN None
                          ELSE IF Late(node[k]) THEN None ELSE node[k].value]
PromiseSpec == Promise!Spec
=============================================================================
