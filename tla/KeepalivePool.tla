--------------------------- MODULE KeepalivePool ---------------------------
(***************************************************************************)
(* The keepalive pool of ngx_stream_lua_socket_tcp.c, for the connections   *)
(* of one worker to one "host:port" key.  Every step below runs to the end  *)
(* without yielding, so each is one action.                                 *)
(*                                                                          *)
(* A pool (spool) is a Lua userdata found through the registry table        *)
(* ngx_stream_lua_socket_pool_key.  It is unregistered when its             *)
(* active_connections reaches 0 and collected by the Lua GC some time       *)
(* later; a socket object keeps a raw pointer to it in u->socket_pool.      *)
(***************************************************************************)
EXTENDS Queues, FiniteSets

CONSTANTS
    Upstream,   \* socket objects (ngx_stream_lua_socket_tcp_upstream_t)
    Conn,       \* connections (ngx_connection_t); a closed one can be recycled
    Pool,       \* addresses of pool userdata
    PoolSizes,  \* the values of keepalive_size in force over time
    NoConn, NoPool

ASSUME PoolAssumption ==
    /\ PoolSizes \subseteq Nat \ {0}
    /\ NoConn \notin Conn
    /\ NoPool \notin Pool
    /\ IsFiniteSet(Upstream)

VARIABLES
    registry,    \* the pool registered for the key, or NoPool
    live,        \* pool userdata not yet collected
    cache,       \* spool->cache: idle connections, most recently parked first
    free,        \* length of spool->free
    size,        \* the pool_size the pool was created with
    active,      \* spool->active_connections
    connection,  \* u->peer.connection
    reused,      \* u->reused > 0
    socket_pool, \* u->socket_pool
    valid,       \* no half closed, no error flag, no unread byte in u->buffer
    open,        \* connections whose descriptor is open
    rcv          \* bytes or EOF in the kernel's receive buffer of a connection

poolVars == <<registry, live, cache, free, size, active>>
upVars   == <<connection, reused, socket_pool, valid>>
vars     == <<poolVars, upVars, open, rcv>>

\* "arrived": the read event has not been dispatched; "seen": read->ready is set.
Receive == {"quiet", "arrived", "seen"}

InUse == {u \in Upstream : connection[u] # NoConn}

Idle == IF registry = NoPool THEN {} ELSE Entries(cache[registry])

-----------------------------------------------------------------------------

Init ==
    /\ registry = NoPool
    /\ live = {}
    /\ cache = [p \in Pool |-> <<>>]
    /\ free = [p \in Pool |-> 0]
    /\ size = [p \in Pool |-> 0]
    /\ active = [p \in Pool |-> 0]
    /\ connection = [u \in Upstream |-> NoConn]
    /\ reused = [u \in Upstream |-> FALSE]
    /\ socket_pool = [u \in Upstream |-> NoPool]
    /\ valid = [u \in Upstream |-> FALSE]
    /\ open = {}
    /\ rcv = [c \in Conn |-> "quiet"]

\* Variant: the pool is not looked up before connecting.
ConnectFreshNoLookup(u, c) ==
    /\ connection[u] = NoConn
    /\ c \notin open
    /\ connection' = [connection EXCEPT ![u] = c]
    /\ reused' = [reused EXCEPT ![u] = FALSE]
    /\ socket_pool' = [socket_pool EXCEPT ![u] = registry]
    /\ valid' = [valid EXCEPT ![u] = TRUE]
    /\ open' = open \cup {c}
    /\ rcv' = [rcv EXCEPT ![c] = "quiet"]
    /\ UNCHANGED poolVars

\* connect() when get_keepalive_peer declines: no pool, or an empty cache.
\* socket_pool is set as soon as a pool is found, even an empty one.
ConnectFresh(u, c) ==
    /\ connection[u] = NoConn
    /\ Idle = {}
    /\ c \notin open
    /\ connection' = [connection EXCEPT ![u] = c]
    /\ reused' = [reused EXCEPT ![u] = FALSE]
    /\ socket_pool' = [socket_pool EXCEPT ![u] = registry]
    /\ valid' = [valid EXCEPT ![u] = TRUE]
    /\ open' = open \cup {c}
    /\ rcv' = [rcv EXCEPT ![c] = "quiet"]
    /\ UNCHANGED poolVars

\* Variant: the item is not removed from the cache queue.
GetKeepalivePeerNoRemove(u) ==
    /\ connection[u] = NoConn
    /\ registry # NoPool
    /\ cache[registry] # <<>>
    /\ connection' = [connection EXCEPT ![u] = Head(cache[registry])]
    /\ reused' = [reused EXCEPT ![u] = TRUE]
    /\ socket_pool' = [socket_pool EXCEPT ![u] = registry]
    /\ valid' = [valid EXCEPT ![u] = TRUE]
    /\ UNCHANGED <<poolVars, open, rcv>>

\* connect() served by get_keepalive_peer: the head of the cache, unpeeked.
GetKeepalivePeer(u) ==
    /\ connection[u] = NoConn
    /\ registry # NoPool
    /\ cache[registry] # <<>>
    /\ connection' = [connection EXCEPT ![u] = Head(cache[registry])]
    /\ reused' = [reused EXCEPT ![u] = TRUE]
    /\ socket_pool' = [socket_pool EXCEPT ![u] = registry]
    /\ valid' = [valid EXCEPT ![u] = TRUE]
    /\ cache' = [cache EXCEPT ![registry] = Tail(@)]
    /\ free' = [free EXCEPT ![registry] = @ + 1]
    /\ UNCHANGED <<registry, live, size, active, open, rcv>>

\* free_pool clears the registry entry of the key, whichever pool is there.
FreePoolAtZero(n, p) == registry' = IF n = 0 THEN NoPool ELSE p

\* The pool setkeepalive works on: the registered one, or a new userdata with
\* empty queues and n free items.
IsTarget(p) == IF registry = NoPool THEN p \notin live ELSE p = registry
Queue0(p) == IF p = registry THEN cache[p] ELSE <<>>
Free0(p, n) == IF p = registry THEN free[p] ELSE n
Active0(p) == IF p = registry THEN active[p] ELSE 0

\* With no free item the least recently parked connection gives up its own.
Full(p, n) == Free0(p, n) = 0
Kept(p, n) == IF Full(p, n) THEN ButLast(Queue0(p)) ELSE Queue0(p)
Evicted(p, n) == IF Full(p, n) THEN {Last(Queue0(p))} ELSE {}
FreeLeft(p, n) == IF Full(p, n) THEN 0 ELSE Free0(p, n) - 1
\* Variant: the eviction is not counted down.
ActiveAfterNoEvict(p, n, u) == Active0(p) + (IF reused[u] THEN 0 ELSE 1)
ActiveAfter(p, n, u) ==
    Active0(p) - (IF Full(p, n) THEN 1 ELSE 0) + (IF reused[u] THEN 0 ELSE 1)

\* What both outcomes of setkeepalive() share; a refused call ("closed",
\* "unread data in buffer", "invalid connection") changes nothing.
SetKeepaliveCommon(u, p, n) ==
    /\ connection[u] # NoConn
    /\ valid[u]
    /\ IsTarget(p)
    /\ live' = live \cup {p}
    /\ size' = [size EXCEPT ![p] = IF p = registry THEN @ ELSE n]
    /\ connection' = [connection EXCEPT ![u] = NoConn]
    /\ UNCHANGED <<reused, socket_pool, rcv>>

\* Variant: no peek at the connection before it is left in the cache.
SetKeepaliveNoPeek(u, p, n) ==
    /\ SetKeepaliveCommon(u, p, n)
    /\ cache' = [cache EXCEPT ![p] = Prepend(connection[u], Kept(p, n))]
    /\ free' = [free EXCEPT ![p] = FreeLeft(p, n)]
    /\ active' = [active EXCEPT ![p] = ActiveAfter(p, n, u)]
    /\ registry' = p
    /\ valid' = [valid EXCEPT ![u] = FALSE]
    /\ open' = open \ Evicted(p, n)

SetKeepalive(u, p, n) ==
    /\ SetKeepaliveCommon(u, p, n)
    /\ rcv[connection[u]] # "seen"
    /\ cache' = [cache EXCEPT ![p] = Prepend(connection[u], Kept(p, n))]
    /\ free' = [free EXCEPT ![p] = FreeLeft(p, n)]
    /\ active' = [active EXCEPT ![p] = ActiveAfter(p, n, u)]
    /\ registry' = p
    /\ valid' = [valid EXCEPT ![u] = FALSE]
    /\ open' = open \ Evicted(p, n)

\* "connection in dubious state": the connection was queued, the peek found
\* something to read, and the close handler takes it out again.
SetKeepaliveDubious(u, p, n) ==
    /\ SetKeepaliveCommon(u, p, n)
    /\ rcv[connection[u]] = "seen"
    /\ cache' = [cache EXCEPT ![p] = Kept(p, n)]
    /\ free' = [free EXCEPT ![p] = FreeLeft(p, n) + 1]
    /\ active' = [active EXCEPT ![p] = ActiveAfter(p, n, u) - 1]
    /\ FreePoolAtZero(ActiveAfter(p, n, u) - 1, p)
    /\ UNCHANGED valid
    /\ open' = open \ (Evicted(p, n) \cup {connection[u]})

\* The read handler of an idle connection: it timed out, or became readable.
KeepaliveClose(p, i) ==
    /\ p \in live
    /\ i \in DOMAIN cache[p]
    /\ open' = open \ {cache[p][i]}
    /\ cache' = [cache EXCEPT ![p] = Without(@, i)]
    /\ free' = [free EXCEPT ![p] = @ + 1]
    /\ active' = [active EXCEPT ![p] = @ - 1]
    /\ FreePoolAtZero(active[p] - 1, registry)
    /\ UNCHANGED <<live, size, upVars, rcv>>

\* Variant: a fresh connection counts down a pool it was never counted in.
FinalizeAnyPool(u) ==
    /\ connection[u] # NoConn
    /\ open' = open \ {connection[u]}
    /\ connection' = [connection EXCEPT ![u] = NoConn]
    /\ IF socket_pool[u] # NoPool
       THEN /\ active' = [active EXCEPT ![socket_pool[u]] = @ - 1]
            /\ FreePoolAtZero(active[socket_pool[u]] - 1, registry)
       ELSE UNCHANGED <<active, registry>>
    /\ valid' = [valid EXCEPT ![u] = FALSE]
    /\ UNCHANGED <<live, cache, free, size, reused, socket_pool, rcv>>

\* tcp_finalize: close(), the Lua GC of the object, a killed light thread, or
\* the end of the session.
Finalize(u) ==
    /\ connection[u] # NoConn
    /\ open' = open \ {connection[u]}
    /\ connection' = [connection EXCEPT ![u] = NoConn]
    /\ IF reused[u] /\ socket_pool[u] # NoPool
       THEN /\ active' = [active EXCEPT ![socket_pool[u]] = @ - 1]
            /\ FreePoolAtZero(active[socket_pool[u]] - 1, registry)
       ELSE UNCHANGED <<active, registry>>
    /\ valid' = [valid EXCEPT ![u] = FALSE]
    /\ UNCHANGED <<live, cache, free, size, reused, socket_pool, rcv>>

\* shutdown_pool, the finalizer of an unregistered pool.
CollectPool(p) ==
    /\ p \in live
    /\ p # registry
    /\ open' = open \ Entries(cache[p])
    /\ live' = live \ {p}
    /\ cache' = [cache EXCEPT ![p] = <<>>]
    /\ active' = [active EXCEPT ![p] = 0]
    /\ UNCHANGED <<registry, free, size, upVars, rcv>>

\* The worker leaves once its sessions are over: cleanup_conn_pools closes the
\* head of the cache and lua_close() finalizes every pool.
CleanupVm ==
    /\ InUse = {}
    /\ registry # NoPool
    /\ open' = open \ UNION {Entries(cache[p]) : p \in live}
    /\ registry' = NoPool
    /\ live' = {}
    /\ cache' = [p \in Pool |-> <<>>]
    /\ active' = [p \in Pool |-> 0]
    /\ UNCHANGED <<free, size, upVars, rcv>>

-----------------------------------------------------------------------------
\* The socket underneath (external): bytes or EOF arrive, the event loop
\* dispatches the read event of a connection in use, the Lua code reads.

Arrive(c) ==
    /\ c \in open
    /\ rcv[c] = "quiet"
    /\ rcv' = [rcv EXCEPT ![c] = "arrived"]
    /\ UNCHANGED <<poolVars, upVars, open>>

Dispatch(u) ==
    /\ connection[u] # NoConn
    /\ rcv[connection[u]] = "arrived"
    /\ rcv' = [rcv EXCEPT ![connection[u]] = "seen"]
    /\ UNCHANGED <<poolVars, upVars, open>>

Read(u) ==
    /\ connection[u] # NoConn
    /\ rcv[connection[u]] = "seen"
    /\ rcv' = [rcv EXCEPT ![connection[u]] = "quiet"]
    /\ UNCHANGED <<poolVars, upVars, open>>

\* A send or receive error, EOF, or a reply read only in part.
Spoil(u) ==
    /\ connection[u] # NoConn
    /\ valid[u]
    /\ valid' = [valid EXCEPT ![u] = FALSE]
    /\ UNCHANGED <<poolVars, connection, reused, socket_pool, open, rcv>>

-----------------------------------------------------------------------------

UpstreamNext(u) ==
    \/ \E c \in Conn : ConnectFresh(u, c)
    \/ GetKeepalivePeer(u)
    \/ \E p \in Pool, n \in PoolSizes : SetKeepalive(u, p, n)
    \/ \E p \in Pool, n \in PoolSizes : SetKeepaliveDubious(u, p, n)
    \/ Finalize(u)
    \/ Dispatch(u)
    \/ Read(u)
    \/ Spoil(u)

PoolNext(p) ==
    \/ \E i \in DOMAIN cache[p] : KeepaliveClose(p, i)
    \/ CollectPool(p)

Next ==
    \/ \E u \in Upstream : UpstreamNext(u)
    \/ \E p \in Pool : PoolNext(p)
    \/ \E c \in Conn : Arrive(c)
    \/ CleanupVm

Spec == Init /\ [][Next]_vars

-----------------------------------------------------------------------------

\* Every variable has its type.
TypeOK ==
    /\ registry \in Pool \cup {NoPool}
    /\ live \subseteq Pool
    /\ cache \in [Pool -> Seq(Conn)]
    /\ free \in [Pool -> Nat]
    /\ size \in [Pool -> Nat]
    /\ active \in [Pool -> Int]
    /\ connection \in [Upstream -> Conn \cup {NoConn}]
    /\ reused \in [Upstream -> BOOLEAN]
    /\ socket_pool \in [Upstream -> Pool \cup {NoPool}]
    /\ valid \in [Upstream -> BOOLEAN]
    /\ open \subseteq Conn
    /\ rcv \in [Conn -> Receive]

Held == {connection[u] : u \in InUse}

\* Each open descriptor has exactly one owner: it is the connection of one
\* socket object, or one item of the registered pool's cache.  So no two
\* sessions share a connection, none is closed twice and none is leaked, over
\* any order of parking, eviction, idle timeouts, kills and collections.
SoleOwner ==
    /\ \A u, v \in InUse : connection[u] = connection[v] => u = v
    /\ Held \cap Idle = {}
    /\ open = Held \cup Idle
    /\ registry # NoPool => Distinct(cache[registry])

\* The socket objects whose connection came out of the pool.
Borrowed == {u \in InUse : reused[u]}

\* active_connections counts the idle connections and the borrowed ones, and
\* the free and cache queues always make up the pool_size of the creation.
ActiveExact ==
    registry # NoPool =>
        /\ active[registry] = Len(cache[registry]) + Cardinality(Borrowed)
        /\ active[registry] > 0
        /\ Len(cache[registry]) + free[registry] = size[registry]

\* tcp_finalize dereferences u->socket_pool of a borrowed connection: it is
\* always the registered pool, never one that was unregistered or collected.
NoDanglingPool ==
    \A u \in Borrowed : socket_pool[u] = registry /\ registry \in live

\* A connection that setkeepalive could see to be readable is not left idle for
\* the next session.
NoDubiousIdle == \A c \in Idle : rcv[c] # "seen"

\* A pool is unregistered only when nothing is idle in it, so its finalizer
\* never closes a connection.
UnregisteredEmpty == \A p \in Pool \ {registry} : cache[p] = <<>>

\* The inductive invariant behind the properties above.
IInv ==
    /\ TypeOK
    /\ SoleOwner
    /\ ActiveExact
    /\ NoDanglingPool
    /\ UnregisteredEmpty
    /\ registry # NoPool => registry \in live /\ size[registry] > 0

\* The pool implements its abstract promise.
Abstract == INSTANCE ConnPool WITH idle <- Idle, held <- connection

AbstractSpec == Abstract!Spec
=============================================================================
