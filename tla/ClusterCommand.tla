--------------------------- MODULE ClusterCommand ---------------------------
(***************************************************************************)
(* send_cluster_command of one worker (plugin/module/lhlh_redis_cluster):  *)
(* every request is a coroutine that finds a connection through the slot   *)
(* table, sends its command, gives the connection back to the keepalive    *)
(* pool and follows MOVED, ASK and TRYAGAIN for at most TryCount retries.  *)
(* A coroutine runs until it waits for the network, so one action is what  *)
(* happens between two waits.                                              *)
(*                                                                         *)
(* The worker's coroutines share g_redis_cluster_slots and the pool.  The  *)
(* pool is the one KeepalivePool shows to implement ConnPool: a connection *)
(* is idle, or held by one request, or closed.  The redis nodes and the    *)
(* network are external: they answer as the code expects a redis cluster   *)
(* to answer while slots migrate, in order on each connection, or never.   *)
(***************************************************************************)
EXTENDS Naturals, Sequences, FiniteSets

CONSTANTS
    Node, Slot, Req, Conn,
    SlotOf,       \* the slot of a request's key; NoSlot for one without a key
    MultiKey,     \* requests with several keys of their slot
    MultiBulk,    \* requests whose reply is a multi-bulk reply
    TryCount,     \* g_config["proxy_try_count"]
    MaxCount,     \* max_count of get_random_connection
    MaxMigrations,\* bound on slot migrations in a behaviour
    NoNode, NoSlot, NoConn

ASSUME ClusterAssumption ==
    /\ SlotOf \in [Req -> Slot \cup {NoSlot}]
    /\ MultiKey \subseteq Req /\ MultiBulk \subseteq Req
    /\ TryCount \in Nat /\ MaxCount \in Nat \ {0} /\ MaxMigrations \in Nat
    /\ NoNode \notin Node /\ NoSlot \notin Slot /\ NoConn \notin Conn

VARIABLES
    slots,       \* g_redis_cluster_slots
    q,           \* the coroutine of each request
    k,           \* each connection, with both directions of its stream
    owner,       \* external: the node that serves a slot
    importing,   \* external: the node a slot migrates to, or NoNode
    moved,       \* external: which keys of a migrating slot have moved
    migrations,  \* external: migrations started so far
    execs        \* history: how often a node executed the request's command

clusterVars == <<owner, importing, moved, migrations>>
vars == <<slots, q, k, owner, importing, moved, migrations, execs>>

-----------------------------------------------------------------------------
(* Connections *)

Closed ==
    [st |-> "closed", peer |-> NoNode, out |-> <<>>, in |-> <<>>,
     asking |-> FALSE, alive |-> FALSE]

Fresh(n) ==
    [st |-> "held", peer |-> n, out |-> <<>>, in |-> <<>>,
     asking |-> FALSE, alive |-> TRUE]

\* close(), or the garbage collection of a connection the code dropped: what
\* was sent is still on its way to the node.
Close(x) ==
    IF x.alive /\ x.out # <<>> THEN [x EXCEPT !.st = "gone", !.in = <<>>] ELSE Closed

SendOn(x, cmd, r) ==
    IF x.alive THEN [x EXCEPT !.out = Append(@, [cmd |-> cmd, req |-> r])] ELSE x

\* set_keepalive, whose result the caller ignores.  It refuses, and the
\* connection is dropped, when it has seen the peer close or more bytes; what
\* it has not seen yet it cannot refuse.
SetKeepalive(x) ==
    IF x.alive /\ x.in = <<>> THEN {[x EXCEPT !.st = "idle"]}
                              ELSE {[x EXCEPT !.st = "idle"], Close(x)}

IdleTo(n) == {c \in Conn : k[c].st = "idle" /\ k[c].peer = n}

\* connect(): the pool's connection to the node if it has one, else a new one.
LinksTo(n) == IF IdleTo(n) # {} THEN IdleTo(n) ELSE {c \in Conn : k[c].st = "closed"}

Linked(c, n) == IF k[c].st = "idle" THEN [k[c] EXCEPT !.st = "held"] ELSE Fresh(n)

-----------------------------------------------------------------------------
(* The coroutine of a request *)

\* Why the coroutine is connecting: to the node of the slot table, to a random
\* node because the table has none, to a random node as the last resort before
\* the first attempt, to the node of a MOVED or an ASK, or to a random node
\* after a redirection.
RandomModes == {"unknown", "last", "again"}

Running(r) == q[r].pc \notin {"start", "done"}

\* The coroutine returns; its locals are gone.
Finished(x, res) ==
    [x EXCEPT !.pc = "done", !.conn = NoConn, !.mode = "last", !.tries = 0,
              !.attempts = 0, !.target = NoNode, !.result = res]

GoRandom(x, mode) ==
    [x EXCEPT !.pc = "link", !.mode = mode, !.tries = 0, !.target = NoNode, !.conn = NoConn]

\* One iteration of get_random_connection failed.  A caller whose table had no
\* node for the slot calls it a second time.
NextTry(x) ==
    LET y == [x EXCEPT !.conn = NoConn] IN
    IF x.tries + 1 < MaxCount THEN [y EXCEPT !.pc = "link", !.tries = @ + 1]
    ELSE IF x.mode = "unknown" THEN GoRandom(y, "last")
    ELSE Finished(y, IF x.mode = "again" THEN "refused" ELSE "failed")

\* Variant: the loop bound is off by one.
MayTryLess(x) == x.attempts < TryCount

\* Variant: the loop has no bound.
MayTryAlways(x) == TRUE

\* The loop of send_cluster_command has a connection c: one more attempt if
\* i <= ttl still holds, else the connection is dropped and the last
\* redirection is the client's answer.
MayTry(x) == x.attempts <= TryCount

\* Variant: a retry is not counted.
AttemptUncounted(x, c) ==
    IF MayTry(x)
    THEN [x EXCEPT !.pc = "wait", !.conn = c, !.mode = "last", !.tries = 0, !.target = NoNode]
    ELSE Finished(x, "refused")

Attempt(x, c) ==
    IF MayTry(x)
    THEN [x EXCEPT !.pc = "wait", !.conn = c, !.attempts = @ + 1,
                   !.mode = "last", !.tries = 0, !.target = NoNode]
    ELSE Finished(x, "refused")

\* Variant: the connection left over after the last attempt is pooled.
AttemptOnPool(x, r, y) ==
    IF MayTry(x) THEN SendOn(y, "CMD", r) ELSE [y EXCEPT !.st = "idle"]

AttemptOn(x, r, y) == IF MayTry(x) THEN SendOn(y, "CMD", r) ELSE Close(y)

Disturbed(x) == [x EXCEPT !.disturbed = TRUE]

\* get_connection_by_key / get_connection_by_slot up to the first connect().
Start(r) ==
    /\ q[r].pc = "start"
    /\ LET node == IF SlotOf[r] = NoSlot THEN NoNode ELSE slots[SlotOf[r]] IN
       q' = [q EXCEPT ![r] = IF node = NoNode THEN GoRandom(@, "unknown")
                             ELSE [@ EXCEPT !.pc = "link", !.mode = "slot", !.target = node]]
    /\ UNCHANGED <<slots, k, clusterVars, execs>>

Candidates(x) == IF x.mode \in RandomModes THEN Node ELSE {x.target}

\* get_redis_link succeeds; the caller goes on to its next wait.
Link(r, n, c) ==
    /\ q[r].pc = "link"
    /\ n \in Candidates(q[r])
    /\ c \in LinksTo(n)
    /\ LET y == Linked(c, n)
           x == IF y.alive THEN q[r] ELSE Disturbed(q[r]) IN
       \/ /\ x.mode \in RandomModes
          /\ q' = [q EXCEPT ![r] = [x EXCEPT !.pc = "pong", !.conn = c]]
          /\ k' = [k EXCEPT ![c] = SendOn(y, "PING", r)]
       \/ /\ x.mode = "ask"
          /\ q' = [q EXCEPT ![r] = [x EXCEPT !.pc = "asked", !.conn = c]]
          /\ k' = [k EXCEPT ![c] = SendOn(y, "ASKING", r)]
       \/ /\ x.mode \in {"slot", "moved"}
          /\ q' = [q EXCEPT ![r] = Attempt(x, c)]
          /\ k' = [k EXCEPT ![c] = AttemptOn(x, r, y)]
    /\ UNCHANGED <<slots, clusterVars, execs>>

\* get_redis_link fails, which it cannot when the pool has a connection.
LinkFail(r, n) ==
    /\ q[r].pc = "link"
    /\ n \in Candidates(q[r])
    /\ IdleTo(n) = {}
    /\ LET x == Disturbed(q[r]) IN
       q' = [q EXCEPT ![r] = CASE x.mode \in RandomModes -> NextTry(x)
                               [] x.mode = "slot"        -> GoRandom(x, "last")
                               [] OTHER                  -> GoRandom(x, "again")]
    /\ UNCHANGED <<slots, k, clusterVars, execs>>

\* The first reply on the connection of r, and the coroutine that read it.
Readable(r) == q[r].conn # NoConn /\ k[q[r].conn].in # <<>>
Reply(r) == Head(k[q[r].conn].in)
Rest(r) == [k[q[r].conn] EXCEPT !.in = Tail(@)]
Reader(r) == [q[r] EXCEPT !.foreign = @ \/ Reply(r).req # r]

\* The reply to ping() in get_random_connection.
ReadPong(r) ==
    /\ q[r].pc = "pong"
    /\ Readable(r)
    /\ LET c == q[r].conn IN
       IF Reply(r).kind = "PONG"
       THEN /\ q' = [q EXCEPT ![r] = Attempt(Reader(r), c)]
            /\ k' = [k EXCEPT ![c] = AttemptOn(q[r], r, Rest(r))]
       ELSE /\ q' = [q EXCEPT ![r] = NextTry(Reader(r))]
            /\ k' = [k EXCEPT ![c] = Close(Rest(r))]
    /\ UNCHANGED <<slots, clusterVars, execs>>

\* The reply to asking() in cluster_error, which nobody looks at.
ReadAsking(r) ==
    /\ q[r].pc = "asked"
    /\ Readable(r)
    /\ q' = [q EXCEPT ![r] = Attempt(Reader(r), q[r].conn)]
    /\ k' = [k EXCEPT ![q[r].conn] = AttemptOn(q[r], r, Rest(r))]
    /\ UNCHANGED <<slots, clusterVars, execs>>

\* decode() has the line of a multi-bulk reply and waits for its elements.
ReadHeader(r) ==
    /\ q[r].pc = "wait"
    /\ Readable(r)
    /\ Reply(r).kind = "HEADER"
    /\ q' = [q EXCEPT ![r] = [Reader(r) EXCEPT !.pc = "nested"]]
    /\ k' = [k EXCEPT ![q[r].conn] = Rest(r)]
    /\ UNCHANGED <<slots, clusterVars, execs>>

\* The attempt has its reply and it is no redirection: the connection goes
\* back to the pool and the client gets the reply.
ReadReply(r) ==
    /\ q[r].pc \in {"wait", "nested"}
    /\ Readable(r)
    /\ q[r].pc = "wait" => Reply(r).kind \notin {"HEADER", "MOVED", "ASK", "TRYAGAIN"}
    /\ q' = [q EXCEPT ![r] = Finished(Reader(r),
               IF q[r].pc = "wait" /\ Reply(r).kind = "ERR" THEN "refused" ELSE "ok")]
    /\ \E y \in SetKeepalive(Rest(r)) : k' = [k EXCEPT ![q[r].conn] = y]
    /\ UNCHANGED <<slots, clusterVars, execs>>

\* The attempt was redirected: the connection goes back to the pool and
\* cluster_error runs up to its first connect().
ReadRedirect(r) ==
    /\ q[r].pc = "wait"
    /\ Readable(r)
    /\ LET m == Reply(r)
           x == Reader(r) IN
       /\ \/ /\ m.kind = "TRYAGAIN" \/ (m.kind \in {"MOVED", "ASK"} /\ m.node = NoNode)
             /\ q' = [q EXCEPT ![r] = GoRandom(x, "again")]
             /\ UNCHANGED slots
          \/ /\ m.kind = "MOVED" /\ m.node # NoNode
             /\ slots' = [slots EXCEPT ![SlotOf[m.req]] = m.node]
             /\ q' = [q EXCEPT ![r] = [GoRandom(x, "moved") EXCEPT !.target = m.node]]
          \/ /\ m.kind = "ASK" /\ m.node # NoNode
             /\ q' = [q EXCEPT ![r] = [GoRandom(x, "ask") EXCEPT !.target = m.node]]
             /\ UNCHANGED slots
       /\ \E y \in SetKeepalive(Rest(r)) : k' = [k EXCEPT ![q[r].conn] = y]
    /\ UNCHANGED <<clusterVars, execs>>

\* Variant: a command without a reply is tried again on a random node.
NoReplyRetry(x) ==
    CASE x.pc = "pong"  -> NextTry(x)
      [] x.pc = "asked" -> Finished(x, IF MayTry(x) THEN "failed" ELSE "refused")
      [] OTHER          -> GoRandom(x, "again")

\* A wait for a reply ends without one.  asking() ignores it, so the command
\* fails on the closed connection; ping() makes the random loop go on.
NoReply(x) ==
    CASE x.pc = "pong"  -> NextTry(x)
      [] x.pc = "asked" -> Finished(x, IF MayTry(x) THEN "failed" ELSE "refused")
      [] OTHER          -> Finished(x, "failed")

\* Variant: a connection that timed out goes back to the pool.
TimeoutKeep(r) ==
    /\ q[r].pc \in {"pong", "asked", "wait", "nested"}
    /\ q' = [q EXCEPT ![r] = NoReply(Disturbed(@))]
    /\ \E y \in SetKeepalive(k[q[r].conn]) : k' = [k EXCEPT ![q[r].conn] = y]
    /\ UNCHANGED <<slots, clusterVars, execs>>

\* proxy_timeout ran out.  _do_cmd closes the connection when decode() reports
\* "timeout"; for an element of a multi-bulk reply decode() reports the nested
\* prefix instead, and set_keepalive takes the connection.
Timeout(r) ==
    /\ q[r].pc \in {"pong", "asked", "wait", "nested"}
    /\ q' = [q EXCEPT ![r] = NoReply(Disturbed(@))]
    /\ \E y \in IF q[r].pc = "nested" THEN SetKeepalive(k[q[r].conn]) ELSE {Close(k[q[r].conn])} :
          k' = [k EXCEPT ![q[r].conn] = y]
    /\ UNCHANGED <<slots, clusterVars, execs>>

\* receive() finds the connection closed by the node; set_keepalive refuses it.
ReadClosed(r) ==
    /\ q[r].pc \in {"pong", "asked", "wait", "nested"}
    /\ ~k[q[r].conn].alive /\ ~Readable(r)
    /\ q' = [q EXCEPT ![r] = NoReply(Disturbed(@))]
    /\ k' = [k EXCEPT ![q[r].conn] = Close(@)]
    /\ UNCHANGED <<slots, clusterVars, execs>>

\* The client went away, or a sibling's failure killed this light thread.
Abort(r) ==
    /\ Running(r)
    /\ q' = [q EXCEPT ![r] = Finished(@, "aborted")]
    /\ k' = IF q[r].conn = NoConn THEN k ELSE [k EXCEPT ![q[r].conn] = Close(@)]
    /\ UNCHANGED <<slots, clusterVars, execs>>

\* An idle connection timed out, was evicted, or became readable.
PoolClose(c) ==
    /\ k[c].st = "idle"
    /\ k' = [k EXCEPT ![c] = Close(@)]
    /\ UNCHANGED <<slots, q, clusterVars, execs>>

-----------------------------------------------------------------------------
(* External: the redis nodes and the network *)

\* What node n answers to the command of r.  While a slot migrates its owner
\* redirects commands on keys that have left, and the importing node serves
\* commands that follow an ASKING unless it has only some of their keys.
Serves(n, r, asking) ==
    LET s == SlotOf[r] IN
    s # NoSlot =>
        \/ owner[s] = n /\ ~(moved[s] = "all" \/ (moved[s] = "some" /\ r \in MultiKey))
        \/ importing[s] = n /\ asking /\ ~(moved[s] # "all" /\ r \in MultiKey)

Refusal(n, r, asking) ==
    LET s == SlotOf[r] IN
    CASE owner[s] = n                -> [kind |-> "ASK", req |-> r, node |-> importing[s]]
      [] importing[s] = n /\ asking  -> [kind |-> "TRYAGAIN", req |-> r, node |-> NoNode]
      [] OTHER                       -> [kind |-> "MOVED", req |-> r, node |-> owner[s]]

Value(r) ==
    IF r \in MultiBulk
    THEN <<[kind |-> "HEADER", req |-> r, node |-> NoNode],
           [kind |-> "REST", req |-> r, node |-> NoNode]>>
    ELSE <<[kind |-> "VALUE", req |-> r, node |-> NoNode]>>

\* A node has read the first command of x and sends the replies; nobody reads
\* them when the proxy has closed its end.
Answered(x, replies, asking) ==
    LET y == [x EXCEPT !.out = Tail(@), !.asking = asking] IN
    IF x.st # "gone" THEN [y EXCEPT !.in = @ \o replies]
    ELSE IF y.out # <<>> THEN y ELSE Closed

Arrived(c) == k[c].alive /\ k[c].out # <<>>

NodePing(c) ==
    /\ Arrived(c)
    /\ LET m == Head(k[c].out) IN
       \/ /\ m.cmd = "PING"
          /\ k' = [k EXCEPT ![c] = Answered(@, <<[kind |-> "PONG", req |-> m.req, node |-> NoNode]>>, FALSE)]
       \/ /\ m.cmd = "ASKING"
          /\ k' = [k EXCEPT ![c] = Answered(@, <<[kind |-> "OK", req |-> m.req, node |-> NoNode]>>, TRUE)]
    /\ UNCHANGED <<slots, q, clusterVars, execs>>

NodeExecute(c) ==
    /\ Arrived(c)
    /\ LET r == Head(k[c].out).req IN
       /\ Head(k[c].out).cmd = "CMD"
       /\ Serves(k[c].peer, r, k[c].asking)
       /\ k' = [k EXCEPT ![c] = Answered(@, Value(r), FALSE)]
       /\ execs' = [execs EXCEPT ![r] = @ + 1]
    /\ UNCHANGED <<slots, q, clusterVars>>

\* A redirection; the node may not know the other's address (port 0).
NodeRedirect(c) ==
    /\ Arrived(c)
    /\ LET r == Head(k[c].out).req
           m == Refusal(k[c].peer, r, k[c].asking) IN
       /\ Head(k[c].out).cmd = "CMD"
       /\ ~Serves(k[c].peer, r, k[c].asking)
       /\ \E node \in {m.node, NoNode} :
            /\ k' = [k EXCEPT ![c] = Answered(@, <<[m EXCEPT !.node = node]>>, FALSE)]
            /\ q' = IF node = NoNode THEN [q EXCEPT ![r] = Disturbed(@)] ELSE q
    /\ UNCHANGED <<slots, clusterVars, execs>>

\* Any other error reply: CLUSTERDOWN, LOADING, a wrong type.
NodeError(c) ==
    /\ Arrived(c)
    /\ LET r == Head(k[c].out).req IN
       /\ Head(k[c].out).cmd = "CMD"
       /\ k' = [k EXCEPT ![c] = Answered(@, <<[kind |-> "ERR", req |-> r, node |-> NoNode]>>, FALSE)]
       /\ q' = [q EXCEPT ![r] = Disturbed(@)]
    /\ UNCHANGED <<slots, clusterVars, execs>>

\* The connection breaks: commands on their way are lost, replies may not be.
Break(c) ==
    /\ k[c].alive
    /\ k' = [k EXCEPT ![c] = IF @.st = "gone" THEN Closed
                             ELSE [@ EXCEPT !.alive = FALSE, !.out = <<>>, !.asking = FALSE]]
    /\ UNCHANGED <<slots, q, clusterVars, execs>>

DisturbRunning == q' = [r \in Req |-> IF Running(r) THEN Disturbed(q[r]) ELSE q[r]]

Migrate(s, n) ==
    /\ importing[s] = NoNode /\ n # owner[s] /\ migrations < MaxMigrations
    /\ importing' = [importing EXCEPT ![s] = n]
    /\ migrations' = migrations + 1
    /\ DisturbRunning
    /\ UNCHANGED <<slots, k, owner, moved, execs>>

MoveKeys(s) ==
    /\ importing[s] # NoNode /\ moved[s] # "all"
    /\ moved' = [moved EXCEPT ![s] = IF @ = "none" THEN "some" ELSE "all"]
    /\ DisturbRunning
    /\ UNCHANGED <<slots, k, owner, importing, migrations, execs>>

Assign(s) ==
    /\ importing[s] # NoNode /\ moved[s] = "all"
    /\ owner' = [owner EXCEPT ![s] = importing[s]]
    /\ importing' = [importing EXCEPT ![s] = NoNode]
    /\ moved' = [moved EXCEPT ![s] = "none"]
    /\ DisturbRunning
    /\ UNCHANGED <<slots, k, migrations, execs>>

-----------------------------------------------------------------------------
\* The table may be empty, stale or right: what a refresh or MOVEDs left in it.
Init ==
    /\ slots \in [Slot -> Node \cup {NoNode}]
    /\ q = [r \in Req |-> [pc |-> "start", mode |-> "last", tries |-> 0, attempts |-> 0,
                           target |-> NoNode, conn |-> NoConn, result |-> "none",
                           disturbed |-> FALSE, foreign |-> FALSE]]
    /\ k = [c \in Conn |-> Closed]
    /\ owner \in [Slot -> Node]
    /\ importing = [s \in Slot |-> NoNode]
    /\ moved = [s \in Slot |-> "none"]
    /\ migrations = 0
    /\ execs = [r \in Req |-> 0]

ReqNext(r) ==
    \/ Start(r)
    \/ \E n \in Node, c \in Conn : Link(r, n, c)
    \/ \E n \in Node : LinkFail(r, n)
    \/ ReadPong(r) \/ ReadAsking(r) \/ ReadHeader(r) \/ ReadReply(r) \/ ReadRedirect(r)
    \/ Timeout(r) \/ ReadClosed(r)

NodeNext(c) == NodePing(c) \/ NodeExecute(c) \/ NodeRedirect(c) \/ NodeError(c) \/ Break(c)

SlotNext(s) == (\E n \in Node : Migrate(s, n)) \/ MoveKeys(s) \/ Assign(s)

Next ==
    \/ \E r \in Req : ReqNext(r) \/ Abort(r)
    \/ \E c \in Conn : PoolClose(c) \/ NodeNext(c)
    \/ \E s \in Slot : SlotNext(s)

Spec == Init /\ [][Next]_vars

\* Every wait of a coroutine has a timer, so a coroutine that waits is resumed.
FairSpec == Spec /\ \A r \in Req : WF_vars(ReqNext(r))

-----------------------------------------------------------------------------
(* Properties *)

Commands == {"PING", "ASKING", "CMD"}
Replies == {"PONG", "OK", "VALUE", "HEADER", "REST", "ERR", "MOVED", "ASK", "TRYAGAIN"}

\* The type of the state.
TypeOK ==
    /\ slots \in [Slot -> Node \cup {NoNode}]
    /\ q \in [Req -> [pc : {"start", "link", "pong", "asked", "wait", "nested", "done"},
                      mode : RandomModes \cup {"slot", "moved", "ask"},
                      tries : 0 .. MaxCount, attempts : 0 .. TryCount + 1,
                      target : Node \cup {NoNode}, conn : Conn \cup {NoConn},
                      result : {"none", "ok", "refused", "failed", "aborted"},
                      disturbed : BOOLEAN, foreign : BOOLEAN]]
    /\ k \in [Conn -> [st : {"closed", "gone", "held", "idle"}, peer : Node \cup {NoNode},
                       out : Seq([cmd : Commands, req : Req]),
                       in : Seq([kind : Replies, req : Req, node : Node \cup {NoNode}]),
                       asking : BOOLEAN, alive : BOOLEAN]]
    /\ owner \in [Slot -> Node]
    /\ importing \in [Slot -> Node \cup {NoNode}]
    /\ moved \in [Slot -> {"none", "some", "all"}]
    /\ migrations \in 0 .. MaxMigrations
    /\ execs \in [Req -> Nat]

\* Every reply a coroutine reads on its connection answers a command it sent
\* itself: retries, redirections, aborts and reuse of pooled connections never
\* hand a request the answer of another one.
OwnReply == \A r \in Req : ~q[r].foreign

\* A connection waits in the pool with no command unanswered, no reply unread
\* and no ASKING in force on the node, whatever made the last user give it back.
PooledClean ==
    \A c \in Conn : k[c].st = "idle" => k[c].out = <<>> /\ k[c].in = <<>> /\ ~k[c].asking

\* The retry loop resends only what a node refused: no command is executed
\* twice, whatever mix of redirections, failures and aborts its request meets,
\* and one the client saw succeed was executed.
AtMostOnce ==
    \A r \in Req : execs[r] <= 1 /\ (q[r].result = "ok" => execs[r] = 1)

\* send_cluster_command keeps the contract its callers rely on (module
\* Command).  In particular a command whose request ends with the error of a
\* node (retries exhausted on a redirection included) was not executed and
\* never will be; only a timeout, a broken connection or an abort leaves
\* that open.
Contract == INSTANCE Command WITH result <- [r \in Req |-> q[r].result]
ContractSpec == Contract!Spec

\* From any slot table, empty or stale, a request that meets no failure, no
\* TRYAGAIN and no change of the cluster succeeds, during a migration too, when
\* two retries are allowed: one MOVED and one ASK are all that can come.
QuietSuccess ==
    TryCount >= 2 =>
        \A r \in Req : q[r].pc = "done" /\ ~q[r].disturbed /\ q[r].result # "aborted"
                          => q[r].result = "ok"

\* Every request ends: no cluster makes the redirection loop, the random
\* connections or their nesting go on forever.
Termination == \A r \in Req : q[r].pc = "link" ~> q[r].pc = "done"

=============================================================================
