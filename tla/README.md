# TLA+ verification of redis-cluster-ngproxy

The proxy accepts Redis clients on an nginx stream listener and forwards their
commands to the nodes of a Redis Cluster. Its own code is Lua
(`src/plugin/module/*.lua`) on a fork of `stream-lua-nginx-module` (C).

## The system and its parts

Every nginx worker is a process with one Lua VM. Within a worker all sessions
are coroutines: one runs at a time and lets go only when it waits for a socket
or a light thread. Workers share nothing but the dictionaries of
`nginx.conf:40-43` and the files on disk.

A session (`lhlh_service`) reads a request (`lhlh_parser`), refreshes the
configuration and the slot table when the shared version has changed
(`lhlh_handler`, `lhlh_conf_version`, `lhlh_conf`, `lhlh_redis_slot`), checks
two whitelists and processes the request (`lhlh_process`). MGET, DEL, EXISTS and
MSET are split by slot over light threads; every part, and every other command,
goes through `send_cluster_command` (`lhlh_redis_cluster`), which takes a
connection from the cosocket keepalive pool, follows MOVED, ASK and TRYAGAIN and
gives the connection back. PROXY commands read the metrics or reload.

| Part | Source | Module | State |
|---|---|---|---|
| Session loop, parser, handler | `lhlh_service.lua`, `lhlh_parser.lua`, `lhlh_handler.lua`, request socket | `Session` | modelled, proved |
| Configuration, version, slot refresh, RELOAD | `lhlh_conf*.lua`, `lhlh_redis_slot.lua`, `lhlh_init.lua`, `lhlh_proxy.lua` | `ConfigReload` | partly, proved |
| Multi-key commands | `lhlh_process.lua` | `MultiKey` | modelled, proved |
| Cluster command execution | `lhlh_redis_cluster.lua`, `lhlh_redis.lua` | `ClusterCommand`, `Command` | modelled, client partly; proved |
| RESP codec | `lhlh_redis_proto.lua` | `RedisProto`; its waits in `ClusterCommand` | modelled |
| Key slots | `ngx_stream_lua_redis.c` | `KeySlot`, `HashTag` | modelled, hash tags proved |
| Metrics | `lhlh_metric*.lua` | `Metrics` | modelled, proved |
| Shared dictionaries | `ngx_stream_lua_shdict.c` | `SharedDict`, `Store` | modelled, proved |
| Cosocket keepalive pool | `ngx_stream_lua_socket_tcp.c` | `KeepalivePool`, `ConnPool` | modelled, proved |
| Light threads, coroutines, scheduler | `ngx_stream_lua_uthread.c`, `_coroutine.c`, `_control.c`, `_util.c` | `LightThreads` | modelled, scheduler partly, proved |
| Cosocket I/O | `ngx_stream_lua_socket_tcp.c` | what `KeepalivePool`, `RedisProto`, `Session` see of it | partly |
| C RESP parser, timers, UDP and other generic APIs | `ngx_stream_lua_*.c` | none | not called by the proxy |

How the modules fit together. ClusterCommand uses the pool as ConnPool describes
it, and KeepalivePool implements ConnPool. A thread of MultiKey behaves as
Command allows, and ClusterCommand implements Command as long as no multi-bulk
reply stalls midway; the reply of MGET is one, so what MultiKey shows holds up to
such a stall (see Finding). Metrics and ConfigReload
use a dictionary one call at a time, and SharedDict shows that every call is
atomic and implements Store. Session and MultiKey run on coroutines and light
threads that LightThreads resumes only when their own operation ended.

`PROJECT.json` lists the parts, the map from definitions to source lines, the
hazards and the properties that guard against them.

## The modules

**KeepalivePool** is the pool of one worker for one `host:port`. `cache`,
`free`, `active` and `size` are the fields of `spool`; `registry` is the entry
of the Lua registry table; `live` holds the pool userdata not yet collected;
`connection`, `reused` and `socket_pool` are fields of a cosocket `u`; `valid`
says that no check at the head of `setkeepalive` refuses it; `rcv` is what the
kernel has received (`seen` stands for `read->ready`). Its actions are `connect`
with and without a pooled connection, the two outcomes of `setkeepalive`, the
idle close handler, `tcp_finalize`, the finalizer of a pool and the cleanup of
the VM. Each runs without yielding in the code and is atomic here.
**ConnPool** is what the Lua code relies on: a connection is idle, held by one
cosocket, or closed, and an idle one is used before a new one is opened.

**ClusterCommand** is `send_cluster_command` for the concurrent requests of a
worker. `slots` is `g_redis_cluster_slots`; `q[r]` holds the locals of the
coroutine of `r` and where it waits; `k[c]` is a connection with the commands
and replies travelling on it. An action is what a coroutine does between two
waits: `Link`, `ReadPong`, `ReadAsking`, `ReadHeader`, `ReadReply`,
`ReadRedirect`, `Timeout`, `ReadClosed`, `Abort`. It uses the pool as ConnPool
describes it. The nodes are external: they answer in order on a connection,
serve, redirect or refuse by slot owner, importing node and the ASKING flag, and
connections break. **Command** is its promise: at most one execution; none,
ever, after the error of a node; one after an OK.

**MultiKey** is one multi-key request. `thread_pool`, `req_data`, `num` are the
variables of `lhlh_process.lua`; `co_status` follows `ngx_stream_lua_uthread.c`.
A thread's command behaves as Command allows, so the module composes with
ClusterCommand through that contract, which ClusterCommand keeps for
`MultiBulk = {}`. Requests without an argument, which redis
refuses, are left out.

**ConfigReload** has the shared version, the files and the globals of the
workers. Reading and setting the version and loading the files are separate
steps; a worker runs one coroutine at a time except while it waits for
CLUSTER NODES. A version is the time a worker has cached, which may be up to
`MaxLag` behind that of another (`LocalTimes`); `Stamp` sets it, and
`SetsBack` tells whether one as late was set before. `LoadRaises` is a load that
ends in a Lua error, with the IP whitelist replaced already if only the section
of the other is missing. The whitelists are represented by the edit of the files they were
loaded from, the slot table by the topology it was written from. `Elsewhere` is
a worker outside `Worker`: it shares only the version, so it can only serve a
RELOAD or set a version it found missing.

**Session** is one client connection. `pc` follows `lhlh_service` and `handle`
(`loop`, `read`, `check`, `process`, `send`), `inbox` is what the client has
sent, `got` what it received, `write_closed` the `ft_type` that makes the
request socket refuse every send after a failed one. `measured` is what the
metrics recorded for the last request and what it really took; `usec` is
`ngx.usec` with its fraction added twice. How a request is processed is in
ConfigReload, MultiKey and ClusterCommand.

**Metrics** is `metric_incr` of all workers: `incr` and, when the key is
missing, `set`, two calls between which other workers run and the worker may
die. `applied` and `sets` are history.

**SharedDict** has the tree (`node`, found by key) and the queue of a zone; each
call holds the zone's mutex and is one action. `Expire` and `ExpireForced` are
`ngx_stream_lua_shdict_expire` with its two nodes per call, `AfterRounds` the
loop that evicts to make room. Whether an allocation succeeds in a zone that has
room is up to the slab allocator, which is external and may fail
(`MayFail`). **Store** is the promise: an atomic map that may lose entries but
answers only with what was stored last.

**RedisProto** is `decode` and `encode` on bytes. A connection carries `Count`
replies and stops after any byte, by a timeout or a close; `Relay` decodes one
reply and encodes the result for the client. Numbers go through `tonumber` and
`tostring` as in LuaJIT, with `SignificantDigits` for its 14. `Wire` is RESP as
the node writes it, the reference for what the client should get.

**KeySlot** is `key_hash_slot` with its CRC table; the reference is the
polynomial division the CRC is defined by. A nil argument has no slot. Keys grow byte by byte, each key is a
state. **HashTag** has the part of `key_hash_slot` that picks the bytes to hash,
and its reference, the rule on hash tags stated as a set of positions; it is a
module of its own so that it can be proved about.

**LightThreads** is the scheduler of a session. `status`, `uthread`, `parent`,
`ref`, `waited`, `zombies` are fields of a `co_ctx`, `cur`, `uthreads`, `posted`
those of the session's `ctx`; `pending` says that an operation with an event is
under way. The Lua code is any code that uses the features in `Uses`: a step is
a call of the running coroutine up to the end of what `run_thread` does about
it, or an event.

**Queues** holds the operations on `ngx_queue_t` that KeepalivePool, SharedDict
and LightThreads use.

## Runs

| Run | Instance | Distinct states | Shows |
|---|---|---|---|
| `keepalive_pool` | 3 cosockets, 3 connections, 2 pools, sizes 1 and 2 | 406 691 | sole owner of a connection, exact `active_connections`, no pointer to a freed pool, nothing seen readable left idle, refinement of ConnPool |
| `cluster_command` | 2 nodes, 1 slot, 2 requests (one multi-key), 2 connections, 2 retries, 1 migration | 742 945 | replies are one's own, pooled connections are clean, at most one execution, refinement of Command, success when undisturbed |
| `cluster_termination` | 1 connection, a multi-bulk request and one without a key, 1 retry, 2 random tries | 140 848 | every request ends |
| `stalled_reply` | as `cluster_command` with a multi-bulk reply, no retry | violation | see Finding |
| `multi_key` | 3 keys in 2 slots, all lists of up to 3 keys, all stores | 200 000 | an OK reply is that of a single node; no thread or effect after it |
| `config_reload` | 1 worker, 2 sessions and the other workers, 3 seconds, times up to 1 second behind, 2 edits, 2 topologies, 1 crash | 3 102 634 | a RELOAD reaches the whitelists; a slot table with the current version is no older than its RELOAD |
| `session` | 3 requests of 4 kinds, 6 units of time, 4 to a second | 264 146 | replies in order, all requests counted, latencies right up to the clock's error, sessions end with their worker or client |
| `metrics` | 3 workers, 2 counters, amounts 0 to 2 | 29 178 | counts are lost only while a key is created; never too high |
| `shared_dict` | 2 keys, texts of 1 and 2 units, room for 2, 4 ms | 5 969 | implements Store; tree and queue agree; losses are reported |
| `resp_relay` | 2 replies out of all kinds, cut at any byte | 383 316 | framing, no part taken for the whole, the node's bytes reach the client |
| `key_slot` | every first byte, then up to 4 of `a`, `{`, `}` | 30 978 | the slot of the nodes |
| `light_threads` | entry thread, on_abort and 3 more contexts | 157 530 | exact thread count, every coroutine resumed by its own operation and none for ever suspended |

Bounds. Two requests on two connections are enough for one to inherit the
other's connection while it holds its own reply path; two retries for a MOVED
followed by an ASK; one migration passes through all its phases under a running
request. Three arguments over two slots give repeated keys within and across
threads. Two sessions of one worker give two overlapping refreshes, and
`Elsewhere` does to the version what any number of other workers can; three
seconds give a version, a RELOAD and a second RELOAD that changes it again, and
a `MaxLag` of one a RELOAD that sets the version back.
Three requests make one whose predecessor failed to be sent and one more in the
inbox; a second of four units, two to a `Milli`, has requests that cross it.
Three workers make two that race to create a counter while one has counted. A
zone for two short values is full with one long or two short ones, so every
store may have to evict; `Rounds` stands for the 30 attempts of the code and
matters only by being finite. Integers of two and three digits straddle
`SignificantDigits`; the replies hold CR, LF and prefixes as data, nulls, errors,
empty and nested arrays. Three contexts besides the entry thread are two
siblings and a coroutine; `MaxZombies` bounds the list of children that ended
before their parent. `TryCount` and `MaxCount` stand for settings of the code (5
and 5 there); `MaxMigrations`, `MaxTime`, `MaxLag`, `MaxEdits`, `MaxMoves`, `MaxCrashes`,
`MaxArguments`, `MaxRequests`, `MaxApplied`, `MaxNumber`, `MaxLen` only keep the
state space finite.

Symmetry is used for `keepalive_pool`, `cluster_command`, `stalled_reply`,
`config_reload`, `metrics` and `shared_dict`, which check no liveness. Deadlock
is not checked where the system may come to rest: all requests done
(`ClusterCommand`, `MultiKey`), the session ended (`Session`, `LightThreads`),
the last reply relayed (`RedisProto`), or a bound reached (`Metrics`, `KeySlot`).

Fairness. `FairSpec` of ClusterCommand assumes weak fairness of each request's
coroutine: every wait has a timer (`set_timeout`), so it is resumed even if no
node ever answers, and nothing is assumed of nodes or network. `FairSpec` of
MultiKey assumes that the session is resumed and that each thread's command
ends, which is `Termination` of ClusterCommand. `Spec` of Session assumes weak
fairness of the session's own steps: reads and sends on the request socket time
out (`nginx.conf:30-32`), and processing ends by `Replied` and `Termination`;
nothing is assumed of the client or the clock.

### Finding

`stalled_reply`: when a multi-bulk reply stalls after its first line,
`decode` (`lhlh_redis_proto.lua:63`) takes the second result of the nested call,
its prefix, for the error. `_do_cmd` (`lhlh_redis.lua:138`) therefore does not
see `"timeout"` and does not close the connection, `set_keepalive` has nothing
to object to yet, and the next request on the connection reads the remainder as
its own reply. The documentation of `setkeepalive`
(`src/bundle/pod/ngx_lua-0.10.8/ngx_lua-0.10.8.pod:8254`) names this very
reason for refusing connections. `cluster_command` therefore has no multi-bulk
replies; with them `OwnReply` and `PooledClean` fail. So does the contract
Command, and with it what `AsOneNode` and `NoLateEffect` of MultiKey rest on: a
thread of an MGET, or of any request that takes over the connection after one,
may return OK with what another left behind.

### Known limits of the properties

Some of the code does not do what one would hope, in cases that the runs leave
out or the properties except:

- `Faithful` excepts two kinds of replies (`Relayable`). An array within an
  array (HSCAN, SSCAN, ZSCAN) is encoded as one bulk string whose length is its
  number of elements (`lhlh_redis_proto.lua:141`). An integer of more than 14
  digits is written with an exponent. `Framed` and `Complete` hold for them too.
- LightThreads holds without `"wait any"` and `"nested"` in `Uses`, and with
  `"reuse"` only alone. With `"wait any"`, the flag `waited_by_parent` outlives
  the wait that set it and the end of the other thread resumes a parent that is
  doing something else (`OwnResume`). With `"nested"`, a thread that is killed or
  fails leaves its ended children counted and the session is never finalized
  (`NoLostWake`). With `"reuse"` and `"orphans"` the list of ended children may
  name a context that is in use again (`AllEnded`), and with `"reuse"` and
  `"coroutines"` a coroutine may be resumed as the one its context was before
  (`OwnResume`). The proxy waits for one thread at a time, its threads spawn no
  threads, it creates no coroutines, and it waits for or kills each thread before
  it goes on: its `Uses` is `{"reuse"}`, for which the properties are proved.
- `ReloadTakesEffect` and `TableNotOlder` except a RELOAD that does not set a
  later version than all before: one in the same second as the previous, or on a
  worker whose time is behind. A worker may have loaded under that version
  before, so the RELOAD promises nothing, and it voids the promise of the one
  before it until a later version is set.
- `ReloadTakesEffect` excepts a load that failed, `TableNotOlder` a refresh that
  reached no node: the version is stamped all the same and the next attempt waits
  for the next RELOAD.
- `PromiseSpec` of SharedDict is about calls that agree on the time. Every worker
  caches its own (`ngx_timeofday`), so an entry that one worker has found expired
  may for a moment be returned to another. The proxy stores nothing with an
  expiry.
- `LatencyTrue` speaks of processed requests. A refused one has no start time of
  its own and is measured from an earlier request, or from 1970.
- `NeverOvercounts` assumes amounts that are not negative; a latency may come out
  negative at the turn of a second, by at most the error `LatencyTrue` allows.

## Proofs

The proofs hold for every value of the constants that the named `ASSUME` of the
component's module allows, bounds included, so for any number of workers,
requests, connections, steps and so on. The types of the state are part of every
inductive invariant, and are proved here rather than checked by the runs
(`StateTypes`, `DictTypes` and `ReloadTypes` state them; `cluster_command` also
checks `TypeOK`, whose ranges of `attempts` and `tries` bound the retries).

**KeepalivePool_proof** (any finite set of cosockets, any connections, pools and
positive sizes; a zero size is refused, `ngx_stream_lua_socket_tcp.c:4412`).
`IInv` joins the properties because none is inductive alone: the count is exact
only while no connection has two owners; a pool is freed at the right moment
only while the count is exact; `u->socket_pool` is safe only while a pool is not
freed under its borrowers; and the queues need distinct entries for a removal to
remove one connection. It adds that a registered pool is not yet collected and
has a positive size. `Ownership`, `Accounting`, `PoolPointers` and
`UnregisteredPools` follow from it; `IdleNotDubious` is an induction of its own
on top of it; `Refinement` maps every step to a step of ConnPool or a stutter.
The queue lemmas it starts with (`PrependLemma`, `WithoutLemma`, `TailLemma`,
`ButLastLemma`) say
what the operations of Queues do to the entries, the length and the distinctness
of a queue; SharedDict_proof and LightThreads_proof have those they need.

**ClusterCommand_proof** (any requests, connections, nodes, slots, retries and
migrations, with `MultiBulk = {}`: no reply that `decode` reads in two parts.
The run `stalled_reply` shows that `OwnReply` is false without that hypothesis).
The invariant `Safe` is about the exchange on a held connection. Its holder waits
for the answer to one command, and that command is on its way, or its answer is,
or both are lost with the connection; a connection is held by one coroutine, and
exactly while that waits. So what a coroutine reads is its own
(`RepliesAreOwn`), and what it gives back after reading has nothing on it
(`PoolIsClean`); what ends without a reply is closed. `OwnReply` and
`PooledClean` are inductive only together with this. For the executions it adds
where a command may be on its way (`Sending`): on one connection, where its
coroutine waits, or which it has closed after a timeout or an abort and after
which it never sends again; and that the answer on its way to a waiting
coroutine is a value exactly if the command was executed. From this follow
`ExecutedOnce` and `KeepsContract`, the refinement of Command. Two frame lemmas
(`RequestStep`, `ConnStep`) reduce every action to one request and one
connection.

`QuietRequestsSucceed` (the property `QuietSuccess`) is a second induction on top
of `Safe`. `Progress` says how far a request that nothing disturbed has got: its
first attempt goes wherever the slot table or chance sends it, after a MOVED it
is on its way to the owner of its slot with at most one attempt spent, and after
an ASK to the importing node with at most two. What its connection carries, the
command, the ASKING before it or the answer, agrees with that. It needs that a
slot is imported by another node than its owner (`Stable`): otherwise an ASK
could be answered by another one.

**MultiKey_proof** (any keys and slots, any function from keys to slots, and
argument lists of any length with any repetitions). `MultiInv` says that
`thread_pool` lists every spawned thread once and that a thread's status agrees
with how far its command is (`Threads`); that `thread_wait` has collected a prefix
of the pool whose threads returned OK, and that the others are alive until there
is a reply (`Waits`); that the data of a slot changed exactly if the slot's command
was executed (`Effects`), so that each node answered what it would have answered at
the start (`Answers`); and that `req_data` and `request.num` hold what one node
would say of the slots whose threads returned OK (`Collected`). `AsOneNode` is not
inductive, it speaks of the end only: it follows because an OK comes after as many
threads as there are slots, and as many distinct threads among the slots are all of
them (`OkMeansAll`, by counting). `AnsweredAsOneNode`, `NoThreadOutlivesReply` and
`NothingAfterOk`, an action property, are the safety properties of the run
`multi_key`. They take the contract Command of the threads as given, which
`KeepsContract` proves for `MultiBulk = {}`: where the reply of a part is a
multi-bulk one, as for MGET, for as long as none has stalled midway.

What `Part` and `FillAll` compute for an argument list of any length is induction
over data. The induction theorems of the library cannot be used for it, but the
fact that `<` on the natural numbers is well-founded can: `Least` and `UpTo` derive
from it a least element and an induction over a set, and `Recursion` that a
recursion over `0 .. n` has a solution. With them `PartLemma` shows that a part is
the arguments of its slot in their order, and `FillAllLemma` that the loop of
`multi_mget_keys`, which fills the first argument still equal to the key, gives
every argument of the slot its value, repeated keys included. `CountsAdd` adds up
the counts of the parts.

`TagRule` proves `HashedBytes` equal to the rule on hash tags for every key.
`TaggedIsAtomic` joins the two: a user of a cluster gives keys one tag to have a
command on them atomic, and through the proxy it is, although the proxy splits
commands. Its hypothesis `SlotByTag` says of `SlotOf` only that it is a function of
the bytes `HashedBytes` picks, which `key_hash_slot` is by its definition.

**ConfigReload_proof** (any workers, sessions, edits, moves, crashes, any length
of time and any lag of the workers' times). `IInv` says that versions are times:
nobody has a version later than the latest ever set, and that is not in the
future (`Past`), so a RELOAD that sets a later one sets one nobody has. Any other
RELOAD voids the promise (`StampLemma`). Whoever has the current version
therefore loaded (`StampFresh`) or asked a node (`AnswerFresh`) after the RELOAD,
and a coroutine on its way to the whitelists either finds them new enough or has
a version that makes it load (`NeedMet`). That one coroutine of a worker runs at
a time (`Exclusive`) is needed because loading and stamping are two steps.
`WhitelistsFresh`, `TableFresh` and `ReloadTypes` follow.

**Session_proof** (any number of requests, any resolution of the clock). `IInv`
relates what was read, counted and received at each point of the loop, and keeps
the start of the request under way next to the `usec` taken of it. `UsecLemma`
bounds `ngx.usec` between the time and the time plus `(Second - 1) \div Milli`.
`RepliesInOrder`, `QueriesCounted`, `AtMostOneMore` and `LatencyExact` follow.

**Metrics_proof** (any workers, counters and amounts that are not negative).
`IInv` adds to the properties that a worker that is about to set a counter has
not set it before (`SetOnce`).
`NoOvercount`, `SetsBounded` and `LossWindow`, an action property.

**SharedDict_proof** (any keys, values, times to live, sizes and rounds). `IInv`
says that tree and queue hold the same nodes, each once; expiry and eviction cut
the end off both (`CutLemma`). `DictTypes`, `DictConsistent` and `DictLoss`, an
action property, follow.

`DictKeepsPromise` is the refinement of Store (`PromiseSpec`). The map of Store
is what a `get` would return of each key now (`Map`). Every call is one step of
Store on a map from which the expiry and the evictions of that call have taken
some entries (`Partial`): `KeyStep` constructs that map for a call about one key,
from what the call found there, and `Placed` is what all the stores have in
common. Three facts carry the argument: a lookup finds exactly the entries the
map shows (`FoundLemma`), what was stored just now can be seen (`FreshLemma`),
and time takes entries away but brings none back (`TickStep`). `Ticking` adds to
`IInv` that the clock is past 1 ms, the expiry that `flush_all` gives to every
entry. The proof needs that no text is a number (`Text \cap Nat = {}`): the code
tells them apart by `value_type`.

**LightThreads_proof** (any finite set of coroutines, for Lua code that is
`Plain`: `Uses` is within `{"coroutines", "orphans"}`, or within `{"reuse"}`, which
is how the proxy uses threads. The section on limits says what goes wrong
otherwise). In an open
session `IInv` accounts for every coroutine. One that is running is the current
one, or is posted, or has an operation under way, or waits for a thread
(`Control`), and is posted at most once (`Posted`); a thread that ended unseen is
in the list of its parent (`Ended`), a thread waited for has not ended
(`Waiting`), and who called `coroutine.resume` is resumed by one coroutine
(`Chain`). Where contexts are used again (`UsedAgain`), the entry thread is the
only parent and returns after all its threads are dead: its list may name a
context in use again, but not when it is given up (`GivenUp`). `Counts` says that the running coroutines are as many as the busy
threads; with it a session whose posted threads have run cannot have only waiting
coroutines, since at most one thread waits. A finalized session has no reference
and no pending operation of a thread (`Finalized`). None of the properties is
inductive alone: a wake-up finds its thread because kill and finalize cancel
operations, and those find all threads because the count and the references are
exact. `UthreadsCounted`, `ResumesItsOwn`, `EventsFindLiveThreads`,
`NoSessionForgotten`, `WaitersAreWoken` and `DoneWhenAllEnded` are the properties
of the run `light_threads`.

### Only model-checked

- Liveness under fairness: `Termination`, `Replied`, `Drains`. The proof system
  has no rules for ENABLED.
- RedisProto (`Framed`, `Complete`, `Faithful`). `decode` and `encode` are
  mutually recursive over nested replies and are written with RECURSIVE, for
  which the proof system has no SMT backend.
- The CRC (`CrcIsXmodem`, and the part of `SlotOfNode` that is not `TagRule`): it
  needs exclusive-or on bits, of which the provers know nothing.

## Not modelled

- Data where no property is about it: keys, values and replies are model values
  everywhere but in RedisProto and KeySlot.
- `g_redis_cluster_nodes` and the parsing of CLUSTER NODES: a random connection
  may go to any node and a refresh writes the topology as a whole. The list
  grows with every load and refresh and is never cleared.
- The scalar settings of the configuration and the ini parser: constants within
  a behaviour, except the pool size, which may differ between pools. Where a
  file cannot be read or parsed matters to ConfigReload and is there.
- Pipelines, subscriptions, scripts and transactions of `lhlh_redis.lua`: the
  proxy does not call them.
- The buffers, timers and full-duplex use of cosockets: a receive returns what
  the kernel has, an error or a timeout. What the pool and the codec see of it
  is modelled.
- The C RESP parser, timers, sleep, UDP and TLS sockets and the other
  generic APIs of the C module: the proxy does not call them, and they have no
  state the modelled parts share. `ngx.re.match` serves the ini parser only. Coroutine wrappers beyond create,
  resume and yield, output chains and tracebacks of the scheduler are left out.
- The slab allocator is external to SharedDict and may fail at any time; nodes
  and network are external to ClusterCommand.
- `src/bundle` holds nginx, LuaJIT and the nginx modules and Lua libraries of
  OpenResty, as released elsewhere. They make up nearly all of the lines under
  `src/`; the proxy's own code is `src/plugin` and the parts of the
  stream-lua-nginx-module it runs on, and the map is about those.
