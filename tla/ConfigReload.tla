---------------------------- MODULE ConfigReload ----------------------------
(***************************************************************************)
(* How a worker learns of a new configuration and a new slot table: the    *)
(* front half of lhlh_handler.handle with lhlh_conf_version, lhlh_conf,    *)
(* lhlh_redis_slot and the whitelists, the PROXY RELOAD command, and       *)
(* lhlh_init.  The version lives in a shared dictionary of all workers;    *)
(* everything else is a global of one worker.  Coroutines of one worker    *)
(* run one at a time and only let go while they wait for CLUSTER NODES;    *)
(* workers are processes and interleave between any two accesses to the    *)
(* shared dictionary and the files.                                        *)
(***************************************************************************)
EXTENDS Naturals

CONSTANTS
    Worker, Session,
    WorkerOf,     \* the worker that accepted a session
    MaxTime,      \* bound on the seconds that pass
    MaxLag,       \* bound on how far the time of a worker is behind
    MaxEdits,     \* bound on edits of the configuration files
    MaxMoves,     \* bound on changes of the cluster's topology
    MaxCrashes,   \* bound on worker processes that die
    NoVersion,    \* nil
    Unset,        \* the '0.01' the modules start with
    Nobody

ASSUME ReloadAssumption ==
    /\ WorkerOf \in [Session -> Worker]
    /\ Worker \cap Session = {}
    /\ Nobody \notin Worker \cup Session
    /\ MaxTime \in Nat \ {0}
    /\ {MaxLag, MaxEdits, MaxMoves, MaxCrashes} \subseteq Nat
    /\ NoVersion \notin Nat /\ Unset \notin Nat /\ NoVersion # Unset

\* The coroutine of init_worker_by_lua goes by the name of its worker.
Co == Session \cup Worker
Home(x) == IF x \in Worker THEN x ELSE WorkerOf[x]

VARIABLES
    config_version,  \* ngx.shared.config, key config_version
    clock,           \* the latest ngx.localtime() of a worker, in seconds
    latest,          \* history: the latest version ever set
    file,            \* the configuration files: edit number and what is wrong
    topology,        \* external: the cluster's slot assignment, numbered
    conf_version,    \* lhlh_conf._VERSION
    slot_version,    \* lhlh_redis_slot._VERSION
    ip_whitelist,    \* the edit g_ip_whitelist was loaded from
    cmd_whitelist,   \* the edit g_cmd_whitelist was loaded from
    loaded,          \* whether the last load_config read "all" files or only "some"
    table,           \* the topology last written to g_redis_cluster_slots
    fetched,         \* whether the last cluster_nodes got a "table" or "nothing"
    running,         \* the coroutine that has the worker
    pc, version,     \* of each coroutine: where it is, its config_version
    answer,          \* the topology in the CLUSTER NODES reply on its way
    crashes,
    reloaded,        \* history: the edit and topology at the last RELOAD that counts
    need             \* history: reloaded.edit when the request was read

shared == <<config_version, clock, latest, file, topology, crashes, reloaded>>
globals == <<conf_version, slot_version, ip_whitelist, cmd_whitelist, loaded, table, fetched>>
locals == <<running, pc, version, answer, need>>
vars == <<shared, globals, locals>>

\* "unreadable": no ini file, no node_list in it, or no IP whitelist;
\* "no_section": the ini file lacks the section proxy or ip_whitelist;
\* "no_cmd_section": it lacks only the section cmd_whitelist.
FileStates == {"good", "unreadable", "no_cmd_whitelist", "no_section", "no_cmd_section"}

Runs(x, at) == pc[x] = at /\ running[Home(x)] = x

-----------------------------------------------------------------------------
(* lhlh_conf_version *)

\* get_version: a missing version is set and nil returned.
GetVersion(x) ==
    /\ Runs(x, "get")
    /\ version' = [version EXCEPT ![x] = config_version]
    /\ pc' = [pc EXCEPT ![x] = IF config_version = NoVersion THEN "set" ELSE "load"]
    /\ UNCHANGED <<shared, globals, running, answer, need>>

\* What ngx.localtime() may return: every worker caches its own time.
LocalTimes == {t \in 1 .. clock : t + MaxLag >= clock}

\* Setting t brings back a version that some worker may have loaded long ago.
SetsBack(t) == t <= latest /\ t # config_version

\* set_version.  A RELOAD that sets a new version promises that the files and
\* the topology of now are used; one that sets the version there is promises
\* nothing; one that sets back the version voids the promise of the last one,
\* for whoever has still to read the version too.
Stamp(t, reload) ==
    /\ config_version' = t
    /\ latest' = IF t > latest THEN t ELSE latest
    /\ reloaded' = IF SetsBack(t) THEN [edit |-> 0, topology |-> 0]
                   ELSE IF reload /\ t > latest THEN [edit |-> file.edit, topology |-> topology]
                   ELSE reloaded
    /\ UNCHANGED <<clock, file, topology, crashes>>

NeedAfter(t) ==
    IF SetsBack(t) THEN [y \in Co |-> IF pc[y] = "get" THEN 0 ELSE need[y]] ELSE need

SetVersion(x) ==
    /\ Runs(x, "set")
    /\ \E t \in LocalTimes : Stamp(t, FALSE) /\ need' = NeedAfter(t)
    /\ pc' = [pc EXCEPT ![x] = "load"]
    /\ UNCHANGED <<globals, running, version, answer>>

-----------------------------------------------------------------------------
(* lhlh_handler.handle and lhlh_init *)

\* parse_req returns a request.
Read(x) ==
    /\ x \in Session
    /\ pc[x] = "idle" /\ pc[Home(x)] = "ready" /\ running[Home(x)] = Nobody
    /\ pc' = [pc EXCEPT ![x] = "get"]
    /\ running' = [running EXCEPT ![Home(x)] = x]
    /\ need' = [need EXCEPT ![x] = reloaded.edit]
    /\ UNCHANGED <<shared, globals, version, answer>>

\* load_config: what each early return leaves as it was.
LoadConfig(w) ==
    /\ ip_whitelist' = [ip_whitelist EXCEPT
           ![w] = IF file.state \in {"good", "no_cmd_whitelist"} THEN file.edit ELSE @]
    /\ cmd_whitelist' = [cmd_whitelist EXCEPT
           ![w] = IF file.state = "good" THEN file.edit ELSE @]
    /\ loaded' = [loaded EXCEPT ![w] = IF file.state = "good" THEN "all" ELSE "some"]

\* init is done; handle starts cluster_nodes, and lets go of the worker, when
\* the version of the slot table differs, else goes on to the whitelists.
GoOn(x) ==
    LET at == CASE x \in Worker                           -> "ready"
                [] slot_version[Home(x)] # version[x]     -> "fetch"
                [] OTHER                                  -> "check" IN
    /\ pc' = [pc EXCEPT ![x] = at]
    /\ running' = [running EXCEPT ![Home(x)] = IF at = "check" THEN @ ELSE Nobody]

Loads(x) == x \in Worker \/ conf_version[Home(x)] # version[x]
Raises == file.state \in {"no_section", "no_cmd_section"}

\* load_config indexes a nil section: the Lua error ends the session, or init,
\* before the version is stamped.  The IP whitelist may be replaced by then.
LoadRaises(x) ==
    /\ Runs(x, "load")
    /\ Loads(x) /\ Raises
    /\ ip_whitelist' = [ip_whitelist EXCEPT
           ![Home(x)] = IF file.state = "no_cmd_section" THEN file.edit ELSE @]
    /\ pc' = [pc EXCEPT ![x] = IF x \in Worker THEN "ready" ELSE "idle"]
    /\ running' = [running EXCEPT ![Home(x)] = Nobody]
    /\ version' = [version EXCEPT ![x] = Unset]
    /\ need' = [need EXCEPT ![x] = 0]
    /\ UNCHANGED <<shared, conf_version, slot_version, cmd_whitelist, loaded, table, fetched,
                   answer>>

\* Variant: after init the version is stamped but the files are not read again.
RefreshStamp(x) ==
    LET w == Home(x) IN
    /\ Runs(x, "load")
    /\ Loads(x) => ~Raises
    /\ IF x \in Worker
       THEN LoadConfig(w)
       ELSE UNCHANGED <<ip_whitelist, cmd_whitelist, loaded>>
    /\ conf_version' = [conf_version EXCEPT ![w] = version[x]]
    /\ GoOn(x)
    /\ UNCHANGED <<shared, slot_version, table, fetched, version, answer, need>>

\* The configuration is loaded if its version differs (in init always) and
\* the version stamped, whatever load_config managed to read.
Refresh(x) ==
    LET w == Home(x) IN
    /\ Runs(x, "load")
    /\ Loads(x) => ~Raises
    /\ IF Loads(x)
       THEN LoadConfig(w)
       ELSE UNCHANGED <<ip_whitelist, cmd_whitelist, loaded>>
    /\ conf_version' = [conf_version EXCEPT ![w] = version[x]]
    /\ GoOn(x)
    /\ UNCHANGED <<shared, slot_version, table, fetched, version, answer, need>>

\* External: a node answers CLUSTER NODES with what it knows now.
NodeAnswers(x) ==
    /\ pc[x] = "fetch" /\ answer[x] = Nobody
    /\ answer' = [answer EXCEPT ![x] = topology]
    /\ UNCHANGED <<shared, globals, running, pc, version, need>>

\* Variant: the table is stamped with the version of the moment.
UpdateSlotsNow(x) ==
    LET w == Home(x) IN
    /\ pc[x] = "fetch" /\ running[w] = Nobody
    /\ table' = [table EXCEPT ![w] = IF answer[x] = Nobody THEN @ ELSE answer[x]]
    /\ fetched' = [fetched EXCEPT ![w] = IF answer[x] = Nobody THEN "nothing" ELSE "table"]
    /\ slot_version' = [slot_version EXCEPT ![w] = config_version]
    /\ running' = [running EXCEPT ![w] = x]
    /\ pc' = [pc EXCEPT ![x] = "check"]
    /\ answer' = [answer EXCEPT ![x] = Nobody]
    /\ UNCHANGED <<shared, conf_version, ip_whitelist, cmd_whitelist, loaded, version, need>>

\* cluster_nodes returns: the answer is written to the slot table, or every
\* node failed; the version is stamped in both cases.
UpdateSlots(x) ==
    LET w == Home(x) IN
    /\ pc[x] = "fetch" /\ running[w] = Nobody
    /\ table' = [table EXCEPT ![w] = IF answer[x] = Nobody THEN @ ELSE answer[x]]
    /\ fetched' = [fetched EXCEPT ![w] = IF answer[x] = Nobody THEN "nothing" ELSE "table"]
    /\ slot_version' = [slot_version EXCEPT ![w] = version[x]]
    /\ running' = [running EXCEPT ![w] = x]
    /\ pc' = [pc EXCEPT ![x] = "check"]
    /\ answer' = [answer EXCEPT ![x] = Nobody]
    /\ UNCHANGED <<shared, conf_version, ip_whitelist, cmd_whitelist, loaded, version, need>>

\* The whitelists decide, and the request is processed; PROXY RELOAD sets the
\* version.
Serve(x, reload) ==
    /\ Runs(x, "check")
    /\ IF reload
       THEN \E t \in LocalTimes : Stamp(t, TRUE) /\ need' = [NeedAfter(t) EXCEPT ![x] = 0]
       ELSE UNCHANGED shared /\ need' = [need EXCEPT ![x] = 0]
    /\ pc' = [pc EXCEPT ![x] = "idle"]
    /\ running' = [running EXCEPT ![Home(x)] = Nobody]
    /\ version' = [version EXCEPT ![x] = Unset]
    /\ UNCHANGED <<globals, answer>>

-----------------------------------------------------------------------------
(* Worker processes, and the world around them *)

\* A worker dies and the master starts another, which runs lhlh_init; its
\* sessions are gone and the shared dictionary is not.
Crash(w) ==
    /\ crashes < MaxCrashes
    /\ crashes' = crashes + 1
    /\ conf_version' = [conf_version EXCEPT ![w] = Unset]
    /\ slot_version' = [slot_version EXCEPT ![w] = Unset]
    /\ ip_whitelist' = [ip_whitelist EXCEPT ![w] = 0]
    /\ cmd_whitelist' = [cmd_whitelist EXCEPT ![w] = 0]
    /\ loaded' = [loaded EXCEPT ![w] = "some"]
    /\ table' = [table EXCEPT ![w] = 0]
    /\ fetched' = [fetched EXCEPT ![w] = "nothing"]
    /\ running' = [running EXCEPT ![w] = w]
    /\ pc' = [x \in Co |-> IF Home(x) # w THEN pc[x] ELSE IF x = w THEN "get" ELSE "idle"]
    /\ version' = [x \in Co |-> IF Home(x) = w THEN Unset ELSE version[x]]
    /\ answer' = [x \in Co |-> IF Home(x) = w THEN Nobody ELSE answer[x]]
    /\ need' = [x \in Co |-> IF Home(x) = w THEN 0 ELSE need[x]]
    /\ UNCHANGED <<config_version, clock, latest, file, topology, reloaded>>

Tick ==
    /\ clock < MaxTime
    /\ clock' = clock + 1
    /\ UNCHANGED <<config_version, latest, file, topology, crashes, reloaded, globals, locals>>

Edit ==
    /\ file.edit < MaxEdits
    /\ \E state \in FileStates : file' = [edit |-> file.edit + 1, state |-> state]
    /\ UNCHANGED <<config_version, clock, latest, topology, crashes, reloaded, globals, locals>>

Move ==
    /\ topology < MaxMoves
    /\ topology' = topology + 1
    /\ UNCHANGED <<config_version, clock, latest, file, crashes, reloaded, globals, locals>>

\* A worker outside Worker shares only the version: it serves a RELOAD, or sets
\* a version it has found missing.
Elsewhere(reload) ==
    /\ \E t \in LocalTimes : Stamp(t, reload) /\ need' = NeedAfter(t)
    /\ UNCHANGED <<globals, running, pc, version, answer>>

-----------------------------------------------------------------------------
\* Edit 0 is no file at all and topology 0 no table at all.
Init ==
    /\ config_version = NoVersion
    /\ clock = 1 /\ latest = 0
    /\ file = [edit |-> 1, state |-> "good"]
    /\ topology = 1
    /\ conf_version = [w \in Worker |-> Unset]
    /\ slot_version = [w \in Worker |-> Unset]
    /\ ip_whitelist = [w \in Worker |-> 0]
    /\ cmd_whitelist = [w \in Worker |-> 0]
    /\ loaded = [w \in Worker |-> "some"]
    /\ table = [w \in Worker |-> 0]
    /\ fetched = [w \in Worker |-> "nothing"]
    /\ running = [w \in Worker |-> w]
    /\ pc = [x \in Co |-> IF x \in Worker THEN "get" ELSE "idle"]
    /\ version = [x \in Co |-> Unset]
    /\ answer = [x \in Co |-> Nobody]
    /\ crashes = 0
    /\ reloaded = [edit |-> 0, topology |-> 0]
    /\ need = [x \in Co |-> 0]

Next ==
    \/ \E x \in Co :
         \/ Read(x) \/ GetVersion(x) \/ SetVersion(x) \/ Refresh(x) \/ LoadRaises(x)
         \/ NodeAnswers(x) \/ UpdateSlots(x)
         \/ \E reload \in BOOLEAN : Serve(x, reload)
    \/ \E w \in Worker : Crash(w)
    \/ \E reload \in BOOLEAN : Elsewhere(reload)
    \/ Tick \/ Edit \/ Move

Spec == Init /\ [][Next]_vars

-----------------------------------------------------------------------------
(* Properties *)

\* The type of the state.
TypeOK ==
    /\ config_version \in 1 .. MaxTime \cup {NoVersion}
    /\ conf_version \in [Worker -> 1 .. MaxTime \cup {NoVersion, Unset}]
    /\ slot_version \in [Worker -> 1 .. MaxTime \cup {NoVersion, Unset}]
    /\ version \in [Co -> 1 .. MaxTime \cup {NoVersion, Unset}]
    /\ running \in [Worker -> Co \cup {Nobody}]
    /\ \A x \in Co : running[Home(x)] = x <=> pc[x] \in {"get", "set", "load", "check"}
    /\ pc \in [Co -> {"idle", "get", "set", "load", "ready", "fetch", "check"}]
    /\ table \in [Worker -> 0 .. topology]

\* A request read after a PROXY RELOAD, on any worker, is checked against
\* whitelists at least as new as the files were at that RELOAD, unless some
\* file could not be read.  (A RELOAD in the second of the previous one does
\* not change the version and promises nothing; one on a worker whose time is
\* behind sets back the version, and until a later version is set it and the
\* one before promise nothing.)
ReloadTakesEffect ==
    \A x \in Session : pc[x] = "check" /\ loaded[Home(x)] = "all" =>
        ip_whitelist[Home(x)] >= need[x] /\ cmd_whitelist[Home(x)] >= need[x]

\* A worker whose slot table has the current version has a table that a node
\* gave after the RELOAD that set that version, however the refreshes of its
\* coroutines overlap, unless all nodes failed or the version was set back.
TableNotOlder ==
    \A w \in Worker : slot_version[w] = config_version /\ fetched[w] = "table" =>
        table[w] >= reloaded.topology
=============================================================================
