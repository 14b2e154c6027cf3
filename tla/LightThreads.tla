---------------------------- MODULE LightThreads ----------------------------
(***************************************************************************)
(* The scheduler of one session: light threads (ngx_stream_lua_uthread.c),  *)
(* coroutines (ngx_stream_lua_coroutine.c), the on_abort callback           *)
(* (ngx_stream_lua_control.c) and the loop that runs them                   *)
(* (ngx_stream_lua_run_thread and its callers in ngx_stream_lua_util.c).    *)
(*                                                                          *)
(* The Lua code is any that uses the features in Uses.  A step is what the  *)
(* running coroutine does next, up to and including what run_thread does    *)
(* about it, or an event that resumes a coroutine.                          *)
(***************************************************************************)
EXTENDS Queues, FiniteSets

CONSTANTS
    Co,       \* the coroutine contexts (co_ctx) of the session
    entry,    \* entry_co_ctx
    abort,    \* on_abort_co_ctx
    NULL,
    Uses,     \* "coroutines": coroutine.*; "wait any": wait on two threads;
              \* "nested": threads spawn threads, and are killed while their
              \* coroutines run; "orphans": a thread may return before it
              \* has waited for or killed its children; "reuse": Lua's
              \* allocator uses memory again
    MaxZombies  \* bound on the children that ended before their parent

ASSUME CoAssumption ==
    /\ {entry, abort} \subseteq Co
    /\ entry # abort
    /\ NULL \notin Co
    /\ IsFiniteSet(Co)

VARIABLES
    status,     \* co_status, or "none" for a context not in use yet
    uthread,    \* is_uthread
    parent,     \* parent_co_ctx
    ref,        \* co_ref # LUA_NOREF
    waited,     \* waited_by_parent
    pending,    \* cleanup # NULL: the coroutine waits for an event
    zombies,    \* zombie_child_threads
    within,     \* what the Lua code is suspended in
    cur,        \* cur_co_ctx
    uthreads,   \* ctx->uthreads
    posted,     \* ctx->posted_threads
    session     \* "open", or why it was finalized

coVars == <<status, uthread, parent, ref, waited, pending, zombies, within>>
vars == <<coVars, cur, uthreads, posted, session>>

User == Co \ {entry}

\* The service registers its on_abort callback before anything else.
Init ==
    /\ status = [c \in Co |-> CASE c = entry -> "running" [] c = abort -> "suspended"
                                [] OTHER -> "none"]
    /\ uthread = [c \in Co |-> c = abort]
    /\ parent = [c \in Co |-> IF c = abort THEN entry ELSE NULL]
    /\ ref = [c \in Co |-> c \in {entry, abort}]
    /\ waited = [c \in Co |-> FALSE]
    /\ pending = [c \in Co |-> FALSE]
    /\ zombies = [c \in Co |-> <<>>]
    /\ within = [c \in Co |-> "lua"]
    /\ cur = entry
    /\ uthreads = 0
    /\ posted = <<>>
    /\ session = "open"

Alive(c) == status[c] \notin {"dead", "zombie"}
IsThread(c) == uthread[c] \/ c = entry
Live(c) == Alive(c) /\ status[c] # "none"
open == session = "open"

\* coroutine_create_helper: a new context, or the one found for the address
\* of the new Lua thread, which belonged to a thread that was collected.
Fresh(d) ==
    LET collected == {e \in User \ {abort} : status[e] = "dead" /\ ~ref[e]}
    IN  status[d] # "none" => "reuse" \in Uses /\ d \in collected

\* The last result of run_thread: control goes to d, or back to the event
\* loop.
Run(d) == cur' = d /\ within' = [within EXCEPT ![d] = "lua"]
Suspend(c, why) == cur' = NULL /\ within' = [within EXCEPT ![c] = why]

\* session_cleanup and finalize_threads.
Finalize(why) ==
    LET counted == {c \in User : ref[c] /\ ~(c = abort /\ status[c] = "suspended")}
    IN  /\ status' = [c \in Co |-> IF ref[c] \/ c = cur THEN "dead" ELSE status[c]]
        /\ pending' = [c \in Co |-> IF ref[c] \/ c = cur THEN FALSE ELSE pending[c]]
        /\ ref' = [c \in Co |-> FALSE]
        /\ uthreads' = uthreads - Cardinality(counted)
        /\ session' = why
        /\ cur' = NULL
        /\ UNCHANGED <<uthread, parent, waited, zombies, within, posted>>

-----------------------------------------------------------------------------
(* The running coroutine c calls ...                                        *)

\* Variant: the parent is not posted.
spawnLost(c, d) ==
    /\ Fresh(d)
    /\ c # entry => "nested" \in Uses
    /\ Len(zombies[c]) < MaxZombies
    /\ status' = [status EXCEPT ![d] = "running"]
    /\ uthread' = [uthread EXCEPT ![d] = TRUE]
    /\ parent' = [parent EXCEPT ![d] = c]
    /\ ref' = [ref EXCEPT ![d] = TRUE]
    /\ within' = [within EXCEPT ![c] = "spawn", ![d] = "lua"]
    /\ uthreads' = uthreads + 1
    /\ cur' = d
    /\ UNCHANGED <<waited, pending, zombies, posted, session>>

\* ngx.thread.spawn: the child runs at once, its parent is posted.
spawn(c, d) ==
    /\ Fresh(d)
    /\ c # entry => "nested" \in Uses
    /\ Len(zombies[c]) < MaxZombies
    /\ status' = [status EXCEPT ![d] = "running"]
    /\ uthread' = [uthread EXCEPT ![d] = TRUE]
    /\ parent' = [parent EXCEPT ![d] = c]
    /\ ref' = [ref EXCEPT ![d] = TRUE]
    /\ waited' = [waited EXCEPT ![d] = FALSE]
    /\ pending' = [pending EXCEPT ![d] = FALSE]
    /\ zombies' = [zombies EXCEPT ![d] = <<>>]
    /\ within' = [within EXCEPT ![c] = "spawn", ![d] = "lua"]
    /\ posted' = Append(posted, c)
    /\ uthreads' = uthreads + 1
    /\ cur' = d
    /\ UNCHANGED session

\* coroutine.create
create(c, d) ==
    /\ "coroutines" \in Uses
    /\ Fresh(d)
    /\ status' = [status EXCEPT ![d] = "suspended"]
    /\ uthread' = [uthread EXCEPT ![d] = FALSE]
    /\ parent' = [parent EXCEPT ![d] = NULL]
    /\ ref' = [ref EXCEPT ![d] = FALSE]
    /\ waited' = [waited EXCEPT ![d] = FALSE]
    /\ pending' = [pending EXCEPT ![d] = FALSE]
    /\ zombies' = [zombies EXCEPT ![d] = <<>>]
    /\ UNCHANGED <<within, cur, uthreads, posted, session>>

\* coroutine.resume
resume(c, d) ==
    /\ "coroutines" \in Uses
    /\ status[d] = "suspended" /\ d # abort
    /\ status' = [status EXCEPT ![c] = "normal", ![d] = "running"]
    /\ parent' = [parent EXCEPT ![d] = c]
    /\ within' = [within EXCEPT ![c] = "resume", ![d] = "lua"]
    /\ cur' = d
    /\ UNCHANGED <<uthread, ref, waited, pending, zombies, uthreads, posted, session>>

\* coroutine.yield: a thread goes behind the posted ones, if there are any,
\* a coroutine returns to the one that resumed it.
yield(c) ==
    /\ "coroutines" \in Uses
    /\ \/ /\ IsThread(c)
          /\ posted # <<>>
          /\ posted' = Append(posted, c)
          /\ Suspend(c, "yield")
          /\ UNCHANGED status
       \/ /\ ~IsThread(c)
          /\ status' = [status EXCEPT ![c] = "suspended", ![parent[c]] = "running"]
          /\ cur' = parent[c]
          /\ within' = [within EXCEPT ![c] = "yield", ![parent[c]] = "lua"]
          /\ UNCHANGED posted
    /\ UNCHANGED <<uthread, parent, ref, waited, pending, zombies, uthreads, session>>

\* A cosocket operation, a sleep, ...: cur_co_ctx->cleanup is set.
block(c) ==
    /\ pending' = [pending EXCEPT ![c] = TRUE]
    /\ Suspend(c, "event")
    /\ UNCHANGED <<status, uthread, parent, ref, waited, zombies, uthreads, posted, session>>

\* del_thread of the threads in S, and the counter of their session.
Delete(S) ==
    /\ status' = [c \in Co |-> IF c \in S THEN "dead" ELSE status[c]]
    /\ pending' = [c \in Co |-> IF c \in S THEN FALSE ELSE pending[c]]
    /\ ref' = [c \in Co |-> IF c \in S THEN FALSE ELSE ref[c]]
    /\ uthreads' = uthreads - Cardinality(S)

\* Variant: a thread that ended already is waited for like a running one.
waitZombie(c, args) ==
    /\ \A i \in DOMAIN args : uthread[args[i]] /\ parent[args[i]] = c /\ args[i] # abort
    /\ \A i \in DOMAIN args : status[args[i]] # "dead"
    /\ waited' = [d \in Co |-> waited[d] \/ \E i \in DOMAIN args : args[i] = d]
    /\ Suspend(c, "wait")
    /\ UNCHANGED <<status, uthread, parent, ref, pending, zombies, uthreads, posted, session>>

\* ngx.thread.wait on the threads args: the first one that has ended already,
\* or, if the last one was waited or killed before, nothing; else the caller
\* is suspended.
wait(c, args) ==
    LET Ended(st) == {i \in DOMAIN args : status[args[i]] = st}
        stop == Ended("zombie") \cup (Ended("dead") \cap {Len(args)})
        first == IF stop = {} THEN Len(args) + 1 ELSE CHOOSE i \in stop : \A j \in stop : i <= j
        flagged == {args[i] : i \in {j \in 1 .. first - 1 : Alive(args[j])}}
    IN  /\ \A i \in DOMAIN args : uthread[args[i]] /\ parent[args[i]] = c /\ args[i] # abort
        /\ waited' = [d \in Co |-> waited[d] \/ d \in flagged]
        /\ IF stop = {}
             THEN Suspend(c, "wait") /\ UNCHANGED <<status, pending, ref, uthreads>>
             ELSE /\ Delete({args[first]} \cap {d \in Co : status[d] = "zombie"})
                  /\ UNCHANGED <<cur, within>>
        /\ UNCHANGED <<uthread, parent, zombies, posted, session>>

\* Variant: killing a thread twice counts twice.
killAgain(c, d) ==
    /\ uthread[d] /\ parent[d] = c /\ d # abort
    /\ status[d] = "normal" => "nested" \in Uses
    /\ Delete({d})
    /\ UNCHANGED <<uthread, parent, waited, zombies, within, cur, posted, session>>

\* Variant: the operation of the killed thread is not cancelled.
killPending(c, d) ==
    /\ uthread[d] /\ parent[d] = c /\ d # abort
    /\ status[d] \notin {"dead", "normal"}
    /\ status' = [status EXCEPT ![d] = "dead"]
    /\ ref' = [ref EXCEPT ![d] = FALSE]
    /\ uthreads' = uthreads - 1
    /\ UNCHANGED <<uthread, parent, waited, pending, zombies, within, cur, posted, session>>

\* ngx.thread.kill: nothing is left to do for a thread that is dead.
kill(c, d) ==
    /\ uthread[d] /\ parent[d] = c /\ d # abort
    /\ status[d] # "dead"
    /\ status[d] = "normal" => "nested" \in Uses
    /\ Delete({d})
    /\ UNCHANGED <<uthread, parent, waited, zombies, within, cur, posted, session>>

\* ngx.exit: handle_exit.
exit(c) == Finalize("exit")

\* Variant: the session ends with its entry thread.
LastThreadEntry(c, ok, left) == c = entry

\* A thread that ends ends the session when it is the entry thread and fails,
\* or no thread is left; left counts the user threads without the children
\* it gives up.
LastThread(c, ok, left) ==
    \/ c = entry /\ (ok => left = 0)
    \/ uthread[c] /\ ~Alive(parent[c]) /\ left = 1 /\ ~ref[entry]

\* The function of c returns (ok) or raises an error.  The children that
\* ended before are given up only when it returns.
finish(c, ok) ==
    LET p == parent[c]
        given == IF ok THEN {d \in Co : (\E i \in DOMAIN zombies[c] : zombies[c][i] = d) /\ ref[d]}
                 ELSE {}
        gone == given \cup {c}
        last == LastThread(c, ok, uthreads - Cardinality(given))
        Become(d, st) ==
            status' = [e \in Co |-> CASE e = d -> st [] e # d /\ e \in gone -> "dead"
                                      [] OTHER -> status[e]]
        Drop(S) ==
            /\ pending' = [d \in Co |-> pending[d] /\ d \notin gone]
            /\ ref' = [d \in Co |-> ref[d] /\ d \notin S]
            /\ uthreads' = uthreads - Cardinality(S \ {entry})
        kept == IF ok THEN <<>> ELSE zombies[c]
    IN  /\ "orphans" \notin Uses /\ ok =>
              \A d \in Co : parent[d] = c /\ d # abort => status[d] = "dead"
        /\ \/ /\ last
              /\ Finalize(IF ok \/ uthread[c] THEN "done" ELSE "error")
           \/ /\ ~last /\ (c = entry \/ (uthread[c] /\ ~Alive(p)))
              /\ Become(c, "dead") /\ Drop(gone) /\ Suspend(c, "end")
              /\ zombies' = [zombies EXCEPT ![c] = kept]
              /\ UNCHANGED <<uthread, parent, waited, posted, session>>
           \/ /\ uthread[c] /\ Alive(p) /\ ~waited[c]
              /\ Become(c, "zombie") /\ Drop(given) /\ Suspend(c, "end")
              /\ zombies' = [zombies EXCEPT ![c] = kept, ![p] = Append(@, c)]
              /\ UNCHANGED <<uthread, parent, waited, posted, session>>
           \/ /\ IF uthread[c] THEN Alive(p) /\ waited[c] ELSE c # entry
              /\ Become(p, "running") /\ Run(p)
              /\ Drop(IF uthread[c] THEN gone ELSE given)
              /\ waited' = [waited EXCEPT ![c] = FALSE]
              /\ zombies' = [zombies EXCEPT ![c] = kept]
              /\ UNCHANGED <<uthread, parent, posted, session>>

-----------------------------------------------------------------------------
(* The event loop.                                                          *)

\* Variant: the status of the posted thread is not looked at.
run_postedAny ==
    /\ open /\ cur = NULL /\ posted # <<>>
    /\ posted' = Tail(posted)
    /\ Run(Head(posted))
    /\ UNCHANGED <<status, uthread, parent, ref, waited, pending, zombies, uthreads, session>>

\* run_posted_threads, which follows every run that returns NGX_AGAIN.
run_posted ==
    /\ open /\ cur = NULL /\ posted # <<>>
    /\ posted' = Tail(posted)
    /\ IF status[Head(posted)] = "running"
         THEN Run(Head(posted))
         ELSE UNCHANGED <<cur, within>>
    /\ UNCHANGED <<status, uthread, parent, ref, waited, pending, zombies, uthreads, session>>

Idle == open /\ cur = NULL /\ posted = <<>>

\* The event of c's operation: its handler resumes c (the resume_handler).
event(c) ==
    /\ Idle
    /\ pending[c]
    /\ pending' = [pending EXCEPT ![c] = FALSE]
    /\ Run(c)
    /\ UNCHANGED <<status, uthread, parent, ref, waited, zombies, uthreads, posted, session>>

\* rd_check_broken_connection: the client closed its connection.
client_abort ==
    /\ Idle
    /\ status[abort] = "suspended"
    /\ status' = [status EXCEPT ![abort] = "running"]
    /\ uthreads' = uthreads + 1
    /\ Run(abort)
    /\ UNCHANGED <<uthread, parent, ref, waited, pending, zombies, posted, session>>

WaitArgs ==
    {<<d>> : d \in User}
    \cup {args \in User \X User : "wait any" \in Uses /\ args[1] # args[2]}

Calls(c) ==
    \/ \E d \in User : spawn(c, d) \/ create(c, d) \/ resume(c, d) \/ kill(c, d)
    \/ \E args \in WaitArgs : wait(c, args)
    \/ yield(c)
    \/ block(c)
    \/ exit(c)
    \/ \E ok \in BOOLEAN : finish(c, ok)

Next ==
    \/ open /\ cur # NULL /\ Calls(cur)
    \/ run_posted
    \/ \E c \in Co : event(c)
    \/ client_abort

Spec == Init /\ [][Next]_vars

-----------------------------------------------------------------------------
(* Properties                                                               *)

\* ctx->uthreads is the number of threads that are anchored in the registry,
\* the on_abort callback only once it runs.  finalize_threads relies on it:
\* it ends with ngx_stream_lua_assert(ctx->uthreads == 0).
CountExact ==
    uthreads = Cardinality({c \in User : ref[c] /\ ~(c = abort /\ status[c] = "suspended")})

\* run_thread resumes only a coroutine that is running and has no operation
\* under way: a coroutine suspended in an operation goes on when that
\* operation ends and at no other time.
OwnResume ==
    cur # NULL => status[cur] = "running" /\ ~pending[cur] /\ (IsThread(cur) => ref[cur])

\* The event of an operation never finds its coroutine gone: a thread that is
\* killed, or whose session is finalized, has its operation cancelled.
WakesLive == \A c \in Co : pending[c] => Live(c) /\ (IsThread(c) => open)

\* When run_posted_threads has nothing left to run, some coroutine of an open
\* session waits for an event: no resumption is lost between spawn, wait,
\* yield and the end of a thread, and a session without threads is finalized.
NoLostWake == Idle => \E c \in Co : pending[c]

\* A coroutine suspended in ngx.thread.wait has a live child that will resume
\* it when it ends.
WaitsForChild ==
    Idle => \A p \in Co : within[p] = "wait" /\ Live(p) =>
                \E d \in Co : parent[d] = p /\ waited[d] /\ Live(d)

\* Unless a thread calls ngx.exit or the entry thread fails, the session is
\* finalized only when every thread has ended.
AllEnded ==
    [][session' = "done" =>
         session = "done" \/ \A c \in User : Live(c) /\ ref[c] => c \in {cur, abort}]_vars
=============================================================================
