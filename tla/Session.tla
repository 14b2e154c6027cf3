------------------------------ MODULE Session ------------------------------
(***************************************************************************)
(* One client connection from accept to close: the loop of                  *)
(* lhlh_service.lua, lhlh_handler.handle, lhlh_parser, the whitelists, the  *)
(* latency and query_count metrics, and the request socket they read from   *)
(* and write to (ngx_stream_lua_socket_tcp.c, raw_downstream).  The client  *)
(* may send requests without waiting for replies, stop reading or leave.    *)
(***************************************************************************)
EXTENDS Integers, Sequences

CONSTANTS
    Kinds,        \* the kinds of requests this client sends, of AllKinds
    MaxRequests,  \* bound on the requests the client sends
    MaxTime,      \* bound on the clock, in units of ngx_gettimeofday
    Second,       \* units of a second
    Milli         \* units of what usec takes for a thousandth of a second

\* "unparsable" makes decode return an error; "raises" has no command name,
\* and upper raises a Lua error; "illegal" is not in g_cmd_whitelist.
AllKinds == {"known", "illegal", "unparsable", "raises"}

ASSUME SessionAssumption ==
    /\ Kinds \subseteq AllKinds
    /\ {MaxRequests, MaxTime} \subseteq Nat
    /\ {Second, Milli} \subseteq Nat \ {0}

VARIABLES
    clock,
    exiting,       \* ngx.worker.exiting()
    client,        \* external: "open", "left"
    inbox,         \* what the client sent and the proxy has not read
    asked,         \* number of requests the client sent
    pc,            \* where the entry thread is
    taken,         \* number of requests read
    request,       \* the request being handled
    now,           \* ngx.ctx.now, or NONE
    began,         \* history: when the request was given to process
    write_closed,  \* of the request socket
    got,           \* the replies the client received, by request number
    query_count,
    measured,      \* history: the last latency recorded
    before         \* history: requests read before the worker was exiting

NONE == -1

world == <<client, inbox, asked, exiting, clock, before>>
vars == <<world, pc, taken, request, now, began, write_closed, got, query_count, measured>>

Init ==
    /\ clock = 0
    /\ exiting = FALSE
    /\ client = "open"
    /\ inbox = <<>>
    /\ asked = 0
    /\ pc = "loop"
    /\ taken = 0
    /\ request = "none"
    /\ now = NONE
    /\ began = NONE
    /\ write_closed = FALSE
    /\ got = <<>>
    /\ query_count = 0
    /\ measured = [of |-> "none", time |-> 0, real |-> 0]
    /\ before = 0

\* Variant: the clock is read in thousandths only.
usecCoarse(t) == (t \div Second) * Second + (t % Second) \div Milli

\* ngx.usec
usec(t) == (t \div Second) * Second + ((t % Second) \div Milli) + (t % Second)

-----------------------------------------------------------------------------
(* The entry thread                                                         *)

\* Variant: the loop does not end with the worker.
LoopForever ==
    /\ pc = "loop"
    /\ pc' = "read"
    /\ UNCHANGED <<world, taken, request, now, began, write_closed, got, query_count, measured>>

\* while not ngx.worker.exiting()
Loop ==
    /\ pc = "loop"
    /\ pc' = IF exiting THEN "ended" ELSE "read"
    /\ UNCHANGED <<world, taken, request, now, began, write_closed, got, query_count, measured>>

\* parse_req returns a request; handle may have to wait for CLUSTER NODES
\* before it looks at it.
ParseReq ==
    /\ pc = "read"
    /\ inbox # <<>>
    /\ inbox' = Tail(inbox)
    /\ request' = Head(inbox)
    /\ taken' = taken + 1
    /\ pc' = IF Head(inbox) = "unparsable" THEN "ended" ELSE "check"
    /\ UNCHANGED <<client, asked, exiting, clock, before, now, began, write_closed, got, query_count,
                   measured>>

\* Variant: a client that stays silent is waited for.
ReadFailsLeft ==
    /\ pc = "read"
    /\ inbox = <<>> /\ client = "left"
    /\ pc' = "ended"
    /\ UNCHANGED <<world, taken, request, now, began, write_closed, got, query_count, measured>>

\* parse_req returns an error: the client left, or lua_socket_read_timeout
\* passed.  An end of the connection is seen at once.
ReadFails ==
    /\ pc = "read"
    /\ inbox = <<>>
    /\ pc' = "ended"
    /\ UNCHANGED <<world, taken, request, now, began, write_closed, got, query_count, measured>>

\* auth and check_cmd; what passes them is timed and processed.  The IP
\* whitelist is the one of the moment.
Check(allowed) ==
    /\ pc = "check"
    /\ \/ /\ allowed /\ request = "raises"
          /\ pc' = "ended"
          /\ UNCHANGED <<request, now, began>>
       \/ /\ allowed => request = "illegal"
          /\ pc' = "send"
          /\ request' = "refused"
          /\ UNCHANGED <<now, began>>
       \/ /\ allowed /\ request = "known"
          /\ pc' = "process"
          /\ now' = usec(clock)
          /\ began' = clock
          /\ UNCHANGED request
    /\ UNCHANGED <<world, taken, write_closed, got, query_count, measured>>

\* process returns, a reply or nil (REDIS_CLUSTER_SERVER_ERR), or it raises.
Process ==
    /\ pc = "process"
    /\ pc' \in {"send", "ended"}
    /\ UNCHANGED <<world, taken, request, now, began, write_closed, got, query_count, measured>>

\* query_count and latency.
Metrics ==
    /\ query_count' = query_count + 1
    /\ measured' = [of |-> request,
                    time |-> usec(clock) - (IF now = NONE THEN 0 ELSE now),
                    real |-> clock - began]

\* Variant: a reply that could not be sent is not counted.
SendCounts(ok) ==
    /\ pc = "send"
    /\ ok => ~write_closed /\ client = "open"
    /\ got' = IF ok THEN Append(got, taken) ELSE got
    /\ write_closed' = ~ok
    /\ IF ok THEN Metrics ELSE UNCHANGED <<query_count, measured>>
    /\ pc' = "loop"
    /\ UNCHANGED <<world, taken, request, now, began>>

\* Variant: a failed send leaves the socket open for the next one.
SendAgain(ok) ==
    /\ pc = "send"
    /\ ok => client = "open"
    /\ got' = IF ok THEN Append(got, taken) ELSE got
    /\ Metrics
    /\ pc' = "loop"
    /\ UNCHANGED <<world, taken, request, now, began, write_closed>>

\* parse_rsp: a send that fails, or times out half way, closes the socket for
\* writing.  Its error is logged and the session goes on.
Send(ok) ==
    /\ pc = "send"
    /\ ok => ~write_closed /\ client = "open"
    /\ got' = IF ok THEN Append(got, taken) ELSE got
    /\ write_closed' = ~ok
    /\ Metrics
    /\ pc' = "loop"
    /\ UNCHANGED <<world, taken, request, now, began>>

\* rd_check_broken_connection and the on_abort callback, ngx.exit(0): the
\* end of the connection is seen while the entry thread waits for something
\* else, unless requests hide it.
OnAbort ==
    /\ pc \in {"check", "process", "send"}
    /\ client = "left" /\ inbox = <<>>
    /\ pc' = "ended"
    /\ UNCHANGED <<world, taken, request, now, began, write_closed, got, query_count, measured>>

-----------------------------------------------------------------------------
(* The client and the worker                                                *)

own == <<pc, taken, request, now, began, write_closed, got, query_count, measured>>

ClientSends(kind) ==
    /\ client = "open" /\ pc # "ended"
    /\ asked < MaxRequests
    /\ inbox' = Append(inbox, kind)
    /\ asked' = asked + 1
    /\ UNCHANGED <<client, exiting, clock, before, own>>

ClientLeaves ==
    /\ client = "open"
    /\ client' = "left"
    /\ UNCHANGED <<inbox, asked, exiting, clock, before, own>>

\* The worker is told to quit gracefully.
Quit ==
    /\ ~exiting
    /\ exiting' = TRUE
    /\ before' = taken
    /\ UNCHANGED <<client, inbox, asked, clock, own>>

Tick ==
    /\ clock < MaxTime
    /\ clock' = clock + 1
    /\ UNCHANGED <<client, inbox, asked, exiting, before, own>>

Step == Loop \/ ParseReq \/ ReadFails \/ Process \/ (\E ok \in BOOLEAN : Check(ok) \/ Send(ok))

Next ==
    \/ Step \/ OnAbort
    \/ \E kind \in Kinds : ClientSends(kind)
    \/ ClientLeaves \/ Quit \/ Tick

\* The entry thread goes on: reading, sending and connecting time out after
\* two seconds (nginx.conf) and process ends (ClusterCommand).
Spec == Init /\ [][Next]_vars /\ WF_vars(Step)

-----------------------------------------------------------------------------
(* Properties                                                               *)

\* The i-th reply a client receives answers its i-th request: requests are
\* answered one by one in the order they were sent, and once a send failed,
\* perhaps in the middle of a reply, nothing more is sent.
InOrder == \A i \in DOMAIN got : got[i] = i

\* Every request that was read has been counted when the next one is read,
\* whether its reply could be sent or not.
AllCounted == pc \in {"loop", "read"} => query_count = taken

\* What latency records for a request that was processed is the time it took,
\* but for the fraction ngx.usec adds twice.  (Refused requests have no start
\* of their own: theirs is the one of an earlier request or none.)
LatencyTrue ==
    LET error == (Second - 1) \div Milli
    IN  measured.of = "known" =>
          measured.time \in measured.real - error .. measured.real + error

\* A worker that is exiting reads at most the request it was waiting for.
LastRequest == exiting => taken <= before + 1

\* A worker that is exiting gets rid of the session, and so does a client
\* that leaves: the read timeout ends a session that waits for a request.
Drains == exiting \/ client = "left" ~> pc = "ended"
=============================================================================
