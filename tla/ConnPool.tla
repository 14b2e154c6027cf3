------------------------------ MODULE ConnPool ------------------------------
(***************************************************************************)
(* What the cosocket keepalive pool of one worker and one "host:port" key   *)
(* promises to the Lua code above it: a connection is idle in the pool, or  *)
(* held by exactly one socket object, or closed; a socket object gets an    *)
(* idle connection whenever there is one and opens a fresh one otherwise.   *)
(***************************************************************************)

CONSTANTS
    Upstream,   \* socket objects (ngx_stream_lua_socket_tcp_upstream_t)
    Conn,       \* connections (ngx_connection_t)
    NoConn      \* the NULL connection

VARIABLES
    idle,       \* the connections parked in the pool
    held        \* the connection of each socket object, or NoConn

vars == <<idle, held>>

Held == {held[u] : u \in Upstream} \ {NoConn}

Init == idle = {} /\ held = [u \in Upstream |-> NoConn]

Open(u, c) ==
    /\ held[u] = NoConn
    /\ idle = {}
    /\ c \notin Held
    /\ held' = [held EXCEPT ![u] = c]
    /\ UNCHANGED idle

Take(u, c) ==
    /\ held[u] = NoConn
    /\ c \in idle
    /\ idle' = idle \ {c}
    /\ held' = [held EXCEPT ![u] = c]

\* Parking may evict idle connections to make room.
Park(u) ==
    /\ held[u] # NoConn
    /\ \E evicted \in SUBSET idle : idle' = (idle \ evicted) \cup {held[u]}
    /\ held' = [held EXCEPT ![u] = NoConn]

\* Closing a socket object, and parking a connection found to be unsafe.
Drop(u) ==
    /\ held[u] # NoConn
    /\ \E evicted \in SUBSET idle : idle' = idle \ evicted
    /\ held' = [held EXCEPT ![u] = NoConn]

\* Idle timeout, the peer closing an idle connection, worker shutdown.
Expire ==
    /\ idle # {}
    /\ \E evicted \in SUBSET idle : idle' = idle \ evicted
    /\ UNCHANGED held

Next ==
    \/ \E u \in Upstream, c \in Conn : Open(u, c) \/ Take(u, c)
    \/ \E u \in Upstream : Park(u) \/ Drop(u)
    \/ Expire

Spec == Init /\ [][Next]_vars
=============================================================================
