------------------------------ MODULE MultiKey ------------------------------
(***************************************************************************)
(* MGET, DEL, EXISTS and MSET (plugin/module/lhlh_process.lua): the keys   *)
(* are grouped by slot, one light thread per group sends its part through  *)
(* send_cluster_command (the contract of module Command), and the session  *)
(* waits for the threads in order, killing the others when one fails.      *)
(* Light threads follow ngx_stream_lua_uthread.c: running, zombie once     *)
(* they have returned, dead once waited for or killed.                     *)
(***************************************************************************)
EXTENDS Naturals, Sequences, FiniteSets, Functions

CONSTANTS
    Key, Slot,
    SlotOf,    \* ngx.redis_slot
    Arguments, \* the argument lists a client may send: sequences of keys
    Nil        \* ngx.null

ASSUME MultiKeyAssumption ==
    /\ SlotOf \in [Key -> Slot]
    /\ Arguments \subseteq Seq(Key) \ {<<>>}
    /\ Nil \notin Nat

Kinds == {"MGET", "DEL", "EXISTS", "MSET"}

VARIABLES
    kind, keys,   \* the request; the value MSET gives its j-th key is j
    dangling,     \* an MSET whose last key has no value
    thread_pool,  \* the slots of the spawned threads, in order
    co_status,    \* of each thread
    execs, result,\* of each thread's command: the variables of Command
    values,       \* what the node answered to each thread's command
    req_data,     \* MGET: the value filled in for each argument
    num,          \* DEL, EXISTS: request.num
    waited,       \* threads waited for by thread_wait
    reply,        \* to the client
    store, first  \* external: the cluster's data, now and at the start

request == <<kind, keys, dangling, first>>
vars == <<request, thread_pool, co_status, execs, result, values, req_data, num,
          waited, reply, store>>

C == INSTANCE Command WITH Req <- Slot

Unfilled == <<>>

Slots == {SlotOf[keys[j]] : j \in DOMAIN keys}

\* slots[s]: its keys, inserted in the order of the arguments.
Part(s) ==
    LET f[i \in 0 .. Len(keys)] ==
            IF i = 0 THEN <<>>
            ELSE IF SlotOf[keys[i]] = s THEN Append(f[i - 1], keys[i]) ELSE f[i - 1]
    IN  f[Len(keys)]

Finished == Len(thread_pool) = Cardinality(Slots)

-----------------------------------------------------------------------------
(* The session and its threads *)

\* ngx.thread.spawn, in the order pairs(slots) yields.
Spawn(s) ==
    /\ reply = "none"
    /\ s \in Slots /\ co_status[s] = "none"
    /\ thread_pool' = Append(thread_pool, s)
    /\ co_status' = [co_status EXCEPT ![s] = "running"]
    /\ UNCHANGED <<request, execs, result, values, req_data, num, waited, reply, store>>

\* multi_mget_keys: the value of x goes to the first argument that is still
\* the string x.
Fill(data, x, v) ==
    LET js == {j \in DOMAIN keys : keys[j] = x /\ data[j] = Unfilled} IN
    IF js = {} THEN data
    ELSE [data EXCEPT ![CHOOSE j \in js : \A i \in js : j <= i] = <<x, v>>]

FillAll(data, s) ==
    LET f[i \in 0 .. Len(Part(s))] ==
            IF i = 0 THEN data ELSE Fill(f[i - 1], Part(s)[i], values[s][i])
    IN  f[Len(Part(s))]

\* Variant: the count of one thread replaces that of the others.
NumLast(s) == values[s]

Num(s) == num + values[s]

\* multi_mget_keys, multi_keys or multi_kvs after send_cluster_command.  That it
\* returns "ok" only with the answer to its own command is the contract of
\* Command, which ClusterCommand meets unless a multi-bulk reply, as MGET's is,
\* has stalled midway.
Return(s, res) ==
    /\ co_status[s] = "running"
    /\ C!Finish(s, res)
    /\ co_status' = [co_status EXCEPT ![s] = "zombie"]
    /\ req_data' = IF res = "ok" /\ kind = "MGET" THEN FillAll(req_data, s) ELSE req_data
    /\ num' = IF res = "ok" /\ kind \in {"DEL", "EXISTS"} THEN Num(s) ELSE num
    /\ UNCHANGED <<request, thread_pool, values, waited, reply, store>>

Waited == thread_pool[waited + 1]

\* Variant: the status a thread returns is not looked at.
WaitOkAny ==
    /\ reply = "none" /\ Finished
    /\ co_status[Waited] = "zombie"
    /\ co_status' = [co_status EXCEPT ![Waited] = "dead"]
    /\ waited' = waited + 1
    /\ reply' = IF waited' = Len(thread_pool) THEN "ok" ELSE "none"
    /\ UNCHANGED <<request, thread_pool, execs, result, values, req_data, num, store>>

\* thread_wait: the next thread has returned LHLH_OK; after the last one the
\* client gets its reply.
WaitOk ==
    /\ reply = "none" /\ Finished
    /\ co_status[Waited] = "zombie" /\ result[Waited] = "ok"
    /\ co_status' = [co_status EXCEPT ![Waited] = "dead"]
    /\ waited' = waited + 1
    /\ reply' = IF waited' = Len(thread_pool) THEN "ok" ELSE "none"
    /\ UNCHANGED <<request, thread_pool, execs, result, values, req_data, num, store>>

\* The threads ngx.thread.kill stops while their command is on its way.
Killed(ss) == [s \in Slot |-> IF s \in ss /\ result[s] = "none" THEN "aborted" ELSE result[s]]

\* Variant: the thread after the one that failed is not killed.
WaitErrorSkip ==
    /\ reply = "none" /\ Finished
    /\ co_status[Waited] = "zombie" /\ result[Waited] # "ok"
    /\ LET later == {thread_pool[j] : j \in waited + 3 .. Len(thread_pool)} IN
       /\ co_status' = [s \in Slot |-> IF s \in later \cup {Waited} THEN "dead" ELSE co_status[s]]
       /\ result' = Killed(later)
    /\ reply' = "error"
    /\ UNCHANGED <<request, thread_pool, execs, values, req_data, num, waited, store>>

\* Variant: the thread that failed is waited for again.
WaitErrorNever ==
    /\ reply = "none" /\ Finished
    /\ co_status[Waited] = "zombie" /\ result[Waited] # "ok"
    /\ LET later == {thread_pool[j] : j \in waited + 2 .. Len(thread_pool)} IN
       /\ co_status' = [s \in Slot |-> IF s \in later \cup {Waited} THEN "dead" ELSE co_status[s]]
       /\ result' = Killed(later)
    /\ UNCHANGED <<request, thread_pool, execs, values, req_data, num, waited, reply, store>>

\* The next thread has returned an error: the later ones are killed, zombies
\* among them just collected, and the client gets the error.
WaitError ==
    /\ reply = "none" /\ Finished
    /\ co_status[Waited] = "zombie" /\ result[Waited] # "ok"
    /\ LET later == {thread_pool[j] : j \in waited + 2 .. Len(thread_pool)} IN
       /\ co_status' = [s \in Slot |-> IF s \in later \cup {Waited} THEN "dead" ELSE co_status[s]]
       /\ result' = Killed(later)
    /\ reply' = "error"
    /\ UNCHANGED <<request, thread_pool, execs, values, req_data, num, waited, store>>

\* The client goes away: the session ends with all its threads.
ClientAbort ==
    /\ reply = "none"
    /\ co_status' = [s \in Slot |-> IF co_status[s] = "none" THEN "none" ELSE "dead"]
    /\ result' = Killed({s \in Slot : co_status[s] # "none"})
    /\ reply' = "gone"
    /\ UNCHANGED <<request, thread_pool, execs, values, req_data, num, waited, store>>

-----------------------------------------------------------------------------
(* External: a node executes the command of a thread *)

Present(x) == store[x] # Nil
LastGiven(x) == CHOOSE j \in DOMAIN keys : keys[j] = x /\ \A i \in DOMAIN keys : keys[i] = x => i <= j

Answer(s) ==
    CASE kind = "MGET"   -> [i \in DOMAIN Part(s) |-> store[Part(s)[i]]]
      [] kind = "DEL"    -> Cardinality({x \in Range(Part(s)) : Present(x)})
      [] kind = "EXISTS" -> Cardinality({j \in DOMAIN Part(s) : Present(Part(s)[j])})
      [] kind = "MSET"   -> 0

Stored(s) ==
    [x \in Key |->
        CASE kind = "DEL"  /\ x \in Range(Part(s)) -> Nil
          [] kind = "MSET" /\ x \in Range(Part(s)) -> LastGiven(x)
          [] OTHER                                 -> store[x]]

\* A part with a key and no value is refused.
Execute(s) ==
    /\ co_status[s] # "none"
    /\ ~(dangling /\ SlotOf[keys[Len(keys)]] = s)
    /\ C!Execute(s)
    /\ values' = [values EXCEPT ![s] = Answer(s)]
    /\ store' = Stored(s)
    /\ UNCHANGED <<request, thread_pool, co_status, req_data, num, waited, reply>>

-----------------------------------------------------------------------------
Init ==
    /\ kind \in Kinds
    /\ keys \in Arguments
    /\ dangling \in {FALSE, kind = "MSET"}
    /\ store \in [Key -> {Nil, 0}]
    /\ first = store
    /\ thread_pool = <<>>
    /\ co_status = [s \in Slot |-> "none"]
    /\ C!Init
    /\ values = [s \in Slot |-> Nil]
    /\ req_data = [j \in DOMAIN keys |-> Unfilled]
    /\ num = 0
    /\ waited = 0
    /\ reply = "none"

Session == (\E s \in Slot : Spawn(s)) \/ WaitOk \/ WaitError

Outcomes == {"ok", "refused", "failed"}

Next ==
    \/ Session
    \/ ClientAbort
    \/ \E s \in Slot : Execute(s) \/ \E res \in Outcomes : Return(s, res)

Spec == Init /\ [][Next]_vars

\* The session is resumed when the thread it waits for has returned, and
\* send_cluster_command returns (Termination of ClusterCommand).
FairSpec ==
    /\ Spec
    /\ WF_vars(Session)
    /\ \A s \in Slot : WF_vars(\E res \in Outcomes : Return(s, res))

-----------------------------------------------------------------------------
(* Properties *)

\* The reply of MGET has, for every argument, repeated keys included, the
\* value of that key, whatever the order the parts were answered in.
MgetPositions ==
    kind = "MGET" /\ reply = "ok" =>
        \A j \in DOMAIN keys : req_data[j] = <<keys[j], first[keys[j]]>>

\* The number DEL and EXISTS reply is what one redis node would reply to the
\* whole command, and the keys counted by DEL are gone.
CountExact ==
    reply = "ok" =>
        /\ kind = "DEL" =>
              /\ num = Cardinality({x \in Range(keys) : first[x] # Nil})
              /\ \A x \in Range(keys) : store[x] = Nil
        /\ kind = "EXISTS" => num = Cardinality({j \in DOMAIN keys : first[keys[j]] # Nil})

\* An MSET answered OK has stored, for every key, the last value given to it.
MsetLast ==
    kind = "MSET" /\ reply = "ok" => ~dangling /\ \A x \in Range(keys) : store[x] = LastGiven(x)

\* A multi-key command that is answered OK is answered as one node with all
\* the keys would answer it, and has had the same effect.
AsOneNode == MgetPositions /\ CountExact /\ MsetLast

\* After an OK nothing of the request is still on its way to a node: what is
\* killed or given up only shows after an error reply.
NoLateEffect == [][reply = "ok" => UNCHANGED store]_vars

\* No thread outlives the reply: none can fill in req_data, hold a connection
\* or be counted in ctx->uthreads when the session reads its next request.
NoOrphan == reply # "none" => \A s \in Slot : co_status[s] \in {"none", "dead"}

\* The client of a multi-key command gets a reply unless it goes away.
Replied == <>(reply # "none")
=============================================================================
