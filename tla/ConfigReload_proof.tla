------------------------- MODULE ConfigReload_proof -------------------------
(***************************************************************************)
(* For any number of workers, sessions, edits, RELOADs and crashes: a       *)
(* request read after a RELOAD meets whitelists that are new enough, and a  *)
(* slot table with the current version is no older than the RELOAD that     *)
(* set it.                                                                  *)
(*                                                                          *)
(* The argument is about versions.  They are times, so a RELOAD that sets a *)
(* version later than all before sets one that no worker and no coroutine   *)
(* has seen; whoever has the current version got it after the RELOAD, and   *)
(* loads or fetches after that.  How far the time of a worker is behind     *)
(* does not matter: a version that is not later promises nothing.           *)
(***************************************************************************)
EXTENDS ConfigReload, TLAPS

Version == 1 .. MaxTime \cup {NoVersion, Unset}
Active == {"get", "set", "load", "check"}
Pc == {"idle", "get", "set", "load", "ready", "fetch", "check"}

Typed ==
    /\ config_version \in 1 .. MaxTime \cup {NoVersion}
    /\ clock \in 1 .. MaxTime /\ latest \in 0 .. MaxTime /\ topology \in Nat
    /\ file \in [edit : Nat, state : FileStates]
    /\ reloaded \in [edit : Nat, topology : Nat]
    /\ conf_version \in [Worker -> Version] /\ slot_version \in [Worker -> Version]
    /\ ip_whitelist \in [Worker -> Nat] /\ cmd_whitelist \in [Worker -> Nat]
    /\ table \in [Worker -> 0 .. topology]
    /\ loaded \in [Worker -> {"all", "some"}] /\ fetched \in [Worker -> {"table", "nothing"}]
    /\ version \in [Co -> Version]
    /\ answer \in [Co -> 0 .. topology \cup {Nobody}]
    /\ need \in [Co -> Nat]

\* One coroutine of a worker runs at a time.
Exclusive ==
    /\ running \in [Worker -> Co \cup {Nobody}]
    /\ pc \in [Co -> Pc]
    /\ \A x \in Co : running[Home(x)] = x <=> pc[x] \in Active

\* v was the version once.
Seen(v) == v \in Nat => v <= latest

\* Nobody has a version of the future, and the RELOAD was before.
Past ==
    /\ Seen(config_version) /\ latest <= clock
    /\ \A w \in Worker : Seen(conf_version[w]) /\ Seen(slot_version[w])
    /\ \A x \in Co : Seen(version[x])
    /\ reloaded.edit <= file.edit /\ reloaded.topology <= topology
    /\ config_version = NoVersion => reloaded.edit = 0 /\ reloaded.topology = 0

\* The whitelists of w are complete only if they are those of edit e or later.
NewEnough(w, e) == loaded[w] = "all" => ip_whitelist[w] >= e /\ cmd_whitelist[w] >= e

\* A worker with the current version has read the files after the RELOAD.
StampFresh ==
    \A w \in Worker :
        config_version \in Nat /\ conf_version[w] = config_version => NewEnough(w, reloaded.edit)

\* A coroutine on its way to the whitelists finds them new enough, or a
\* version that makes it load them.
NeedMet ==
    \A x \in Co :
        /\ need[x] <= file.edit
        /\ pc[x] = "get" => need[x] <= reloaded.edit
        /\ pc[x] \in {"set", "load"} /\ conf_version[Home(x)] = version[x] =>
             NewEnough(Home(x), need[x])
        /\ pc[x] \in {"fetch", "check"} => NewEnough(Home(x), need[x])

\* An answer for the current version was given after the RELOAD.
AnswerFresh ==
    \A x \in Co : answer[x] # Nobody =>
        /\ pc[x] = "fetch"
        /\ version[x] = config_version => answer[x] >= reloaded.topology

IInv == Typed /\ Exclusive /\ Past /\ StampFresh /\ NeedMet /\ AnswerFresh /\ TableNotOlder

\* Every coroutine has its worker.
LEMMA HomeLemma ==
    /\ \A x \in Co : Home(x) \in Worker
    /\ \A w \in Worker : w \in Co /\ Home(w) = w
    /\ Nobody \notin Co
  BY ReloadAssumption DEF Home, Co

\* What setting the version does: it sets one that nobody has, or the one there
\* is, or voids the promise, and asks no more of the requests on their way.
Stamped(t) ==
    /\ config_version' = t /\ t \in 1 .. MaxTime
    /\ UNCHANGED <<clock, file, topology>>
    /\ latest' \in 0 .. MaxTime /\ latest' <= clock /\ t <= latest' /\ latest <= latest'
    /\ reloaded' \in [edit : Nat, topology : Nat]
    /\ reloaded'.edit <= file.edit /\ reloaded'.topology <= topology
    /\ \/ /\ \A u \in Worker : conf_version[u] # t /\ slot_version[u] # t
          /\ \A y \in Co : version[y] # t
       \/ t = config_version /\ reloaded' = reloaded
       \/ reloaded'.edit = 0 /\ reloaded'.topology = 0
    /\ NeedAfter(t) \in [Co -> Nat]
    /\ \A y \in Co : NeedAfter(t)[y] <= need[y]
    /\ \A y \in Co : pc[y] = "get" => NeedAfter(t)[y] <= reloaded'.edit

\* So it does, whatever the time of the worker is.
LEMMA StampLemma ==
    ASSUME IInv, NEW t \in LocalTimes, NEW reload \in BOOLEAN, Stamp(t, reload)
    PROVE  Stamped(t)
  <1>1. t \in 1 .. MaxTime /\ t <= clock
    BY ReloadAssumption DEF LocalTimes, IInv, Typed
  <1>2. config_version' = t /\ UNCHANGED <<clock, file, topology>>
    BY DEF Stamp
  <1>3. latest' \in 0 .. MaxTime /\ latest' <= clock /\ t <= latest' /\ latest <= latest'
    BY <1>1, ReloadAssumption DEF Stamp, IInv, Typed, Past
  <1>4. /\ reloaded' \in [edit : Nat, topology : Nat]
        /\ reloaded'.edit <= file.edit /\ reloaded'.topology <= topology
    BY DEF Stamp, IInv, Typed, Past
  <1>5. t > latest => /\ \A u \in Worker : conf_version[u] # t /\ slot_version[u] # t
                      /\ \A y \in Co : version[y] # t
    BY <1>1 DEF IInv, Typed, Past, Seen
  <1>6. t <= latest => \/ t = config_version /\ reloaded' = reloaded
                       \/ reloaded'.edit = 0 /\ reloaded'.topology = 0
    BY <1>1 DEF Stamp, SetsBack, IInv, Typed
  <1>7. NeedAfter(t) \in [Co -> Nat] /\ \A y \in Co : NeedAfter(t)[y] <= need[y]
    BY DEF NeedAfter, IInv, Typed
  <1>8. ASSUME NEW y \in Co, pc[y] = "get"
        PROVE  NeedAfter(t)[y] <= reloaded'.edit
    <2>1. CASE SetsBack(t)
      BY <1>4, <1>8, <2>1 DEF NeedAfter, IInv, Typed
    <2>2. CASE ~SetsBack(t)
      BY <1>8, <2>2 DEF NeedAfter, Stamp, IInv, Typed, Past, NeedMet
    <2> QED BY <2>1, <2>2
  <1>9. t > latest \/ t <= latest
    BY <1>1 DEF IInv, Typed
  <1> QED BY <1>1, <1>2, <1>3, <1>4, <1>5, <1>6, <1>7, <1>8, <1>9 DEF Stamped

\* The version a coroutine reads is one that was set.
LEMMA GetVersionStep ==
    ASSUME IInv, NEW x \in Co, GetVersion(x)
    PROVE  IInv'
  <1>1. Typed'
    BY DEF IInv, Typed, Version, GetVersion, shared, globals
  <1>2. Exclusive'
    BY DEF IInv, Exclusive, Active, Pc, GetVersion, Runs
  <1>3. Past'
    BY DEF IInv, Past, Seen, GetVersion, shared, globals
  <1>4. StampFresh'
    BY DEF IInv, StampFresh, NewEnough, GetVersion, shared, globals
  <1>5. NeedMet'
    BY HomeLemma DEF IInv, Typed, Past, StampFresh, NewEnough, NeedMet, GetVersion, Runs, shared, globals
  <1>6. AnswerFresh'
    BY DEF IInv, AnswerFresh, GetVersion, Runs, shared
  <1>7. TableNotOlder'
    BY DEF IInv, TableNotOlder, GetVersion, shared, globals
  <1> QED BY <1>1, <1>2, <1>3, <1>4, <1>5, <1>6, <1>7 DEF IInv

\* The first version is set by whoever found none.
LEMMA SetVersionStep ==
    ASSUME IInv, NEW x \in Co, SetVersion(x)
    PROVE  IInv'
  <1>0. PICK t \in LocalTimes : Stamp(t, FALSE) /\ need' = NeedAfter(t)
    BY DEF SetVersion
  <1>s. Stamped(t)
    BY <1>0, StampLemma
  <1>1. Typed'
    BY <1>0, <1>s DEF IInv, Typed, SetVersion, globals, Stamped
  <1>2. Exclusive'
    BY DEF IInv, Exclusive, Active, Pc, SetVersion, Runs
  <1>3. Past'
    BY <1>0, <1>s, ReloadAssumption DEF IInv, Typed, Past, Seen, SetVersion, globals, Stamped
  <1>4. StampFresh'
    BY <1>0, <1>s DEF IInv, Typed, StampFresh, NewEnough, SetVersion, globals, Stamped
  <1>5. NeedMet'
    BY <1>0, <1>s, HomeLemma DEF IInv, Typed, NewEnough, NeedMet, SetVersion, Runs, globals, Stamped
  <1>6. AnswerFresh'
    BY <1>0, <1>s DEF IInv, Typed, AnswerFresh, SetVersion, Runs, Stamped
  <1>7. TableNotOlder'
    BY <1>0, <1>s DEF IInv, Typed, TableNotOlder, SetVersion, globals, Stamped
  <1> QED BY <1>1, <1>2, <1>3, <1>4, <1>5, <1>6, <1>7 DEF IInv

\* A request needs what the last RELOAD promised.
LEMMA ReadStep ==
    ASSUME IInv, NEW x \in Co, Read(x)
    PROVE  IInv'
  <1>1. Typed'
    BY DEF IInv, Typed, Read, shared, globals
  <1>2. Exclusive'
    BY HomeLemma DEF IInv, Exclusive, Active, Pc, Read
  <1>3. Past'
    BY DEF IInv, Past, Seen, Read, shared, globals
  <1>4. StampFresh'
    BY DEF IInv, StampFresh, NewEnough, Read, shared, globals
  <1>5. NeedMet'
    BY DEF IInv, Typed, Past, NewEnough, NeedMet, Read, shared, globals
  <1>6. AnswerFresh'
    BY DEF IInv, AnswerFresh, Read, shared
  <1>7. TableNotOlder'
    BY DEF IInv, TableNotOlder, Read, shared, globals
  <1> QED BY <1>1, <1>2, <1>3, <1>4, <1>5, <1>6, <1>7 DEF IInv

\* A file that cannot be parsed ends the session before anything is checked, and
\* an IP whitelist it leaves replaced is the newest.
LEMMA LoadRaisesStep ==
    ASSUME IInv, NEW x \in Co, LoadRaises(x)
    PROVE  IInv'
  <1>1. Typed'
    BY HomeLemma DEF IInv, Typed, Version, LoadRaises, shared
  <1>2. Exclusive'
    BY HomeLemma DEF IInv, Exclusive, Active, Pc, LoadRaises, Runs
  <1>3. Past'
    BY ReloadAssumption DEF IInv, Past, Seen, LoadRaises, shared
  <1>4. StampFresh'
    BY DEF IInv, Typed, Past, StampFresh, NewEnough, LoadRaises, shared
  <1>5. NeedMet'
    BY HomeLemma DEF IInv, Typed, NewEnough, NeedMet, LoadRaises, shared
  <1>6. AnswerFresh'
    BY DEF IInv, AnswerFresh, LoadRaises, Runs, shared
  <1>7. TableNotOlder'
    BY DEF IInv, TableNotOlder, LoadRaises, shared
  <1> QED BY <1>1, <1>2, <1>3, <1>4, <1>5, <1>6, <1>7 DEF IInv

\* The files are read at once, so what is loaded is what is there.
LEMMA RefreshStep ==
    ASSUME IInv, NEW x \in Co, Refresh(x)
    PROVE  IInv'
  <1>1. Typed'
    BY HomeLemma DEF IInv, Typed, Refresh, LoadConfig, shared
  <1>2. Exclusive'
    BY HomeLemma DEF IInv, Exclusive, Active, Pc, Refresh, GoOn, Runs
  <1>3. Past'
    BY DEF IInv, Past, Seen, Refresh, shared
  <1>4. StampFresh'
    BY DEF IInv, Typed, Past, StampFresh, NewEnough, Refresh, LoadConfig, Loads, shared
  <1>5. NeedMet'
    BY HomeLemma DEF IInv, Typed, Past, NewEnough, NeedMet, Refresh, LoadConfig, GoOn, Loads, Runs, shared
  <1>6. AnswerFresh'
    BY DEF IInv, AnswerFresh, Refresh, GoOn, Runs, shared
  <1>7. TableNotOlder'
    BY DEF IInv, TableNotOlder, Refresh, shared
  <1> QED BY <1>1, <1>2, <1>3, <1>4, <1>5, <1>6, <1>7 DEF IInv

\* A node answers with the topology of that moment.
LEMMA NodeAnswersStep ==
    ASSUME IInv, NEW x \in Co, NodeAnswers(x)
    PROVE  IInv'
  <1>1. Typed'
    BY DEF IInv, Typed, NodeAnswers, shared, globals
  <1>2. Exclusive'
    BY DEF IInv, Exclusive, NodeAnswers
  <1>3. Past'
    BY DEF IInv, Past, Seen, NodeAnswers, shared, globals
  <1>4. StampFresh'
    BY DEF IInv, StampFresh, NewEnough, NodeAnswers, shared, globals
  <1>5. NeedMet'
    BY DEF IInv, NewEnough, NeedMet, NodeAnswers, shared, globals
  <1>6. AnswerFresh'
    BY DEF IInv, Past, AnswerFresh, NodeAnswers, shared
  <1>7. TableNotOlder'
    BY DEF IInv, TableNotOlder, NodeAnswers, shared, globals
  <1> QED BY <1>1, <1>2, <1>3, <1>4, <1>5, <1>6, <1>7 DEF IInv

\* The table and its version are assigned together, from an answer that is not
\* older than the version.
LEMMA UpdateSlotsStep ==
    ASSUME IInv, NEW x \in Co, UpdateSlots(x)
    PROVE  IInv'
  <1>1. Typed'
    BY DEF IInv, Typed, UpdateSlots, shared
  <1>2. Exclusive'
    BY HomeLemma DEF IInv, Exclusive, Active, Pc, UpdateSlots
  <1>3. Past'
    BY DEF IInv, Past, Seen, UpdateSlots, shared
  <1>4. StampFresh'
    BY DEF IInv, StampFresh, NewEnough, UpdateSlots, shared
  <1>5. NeedMet'
    BY DEF IInv, NewEnough, NeedMet, UpdateSlots, shared
  <1>6. AnswerFresh'
    BY DEF IInv, Typed, AnswerFresh, UpdateSlots, shared
  <1>7. TableNotOlder'
    BY DEF IInv, Typed, AnswerFresh, TableNotOlder, UpdateSlots, shared
  <1> QED BY <1>1, <1>2, <1>3, <1>4, <1>5, <1>6, <1>7 DEF IInv

\* PROXY RELOAD sets a version nobody has, or one that promises nothing.
LEMMA ServeStep ==
    ASSUME IInv, NEW x \in Co, NEW reload \in BOOLEAN, Serve(x, reload)
    PROVE  IInv'
  <1>1. Exclusive'
    BY HomeLemma DEF IInv, Exclusive, Active, Pc, Serve, Runs
  <1>2. CASE reload
    <2>0. PICK t \in LocalTimes : Stamp(t, TRUE) /\ need' = [NeedAfter(t) EXCEPT ![x] = 0]
      BY <1>2 DEF Serve
    <2>s. Stamped(t)
      BY <2>0, StampLemma
    <2>1. Typed'
      BY <2>0, <2>s DEF IInv, Typed, Version, Serve, globals, Stamped
    <2>2. Past'
      BY <2>0, <2>s, ReloadAssumption DEF IInv, Typed, Past, Seen, Serve, globals, Stamped
    <2>3. StampFresh'
      BY <2>0, <2>s DEF IInv, Typed, StampFresh, NewEnough, Serve, globals, Stamped
    <2>4. NeedMet'
      BY <2>0, <2>s, HomeLemma DEF IInv, Typed, NewEnough, NeedMet, Serve, globals, Stamped
    <2>5. AnswerFresh'
      BY <2>0, <2>s DEF IInv, Typed, AnswerFresh, Serve, Runs, Stamped
    <2>6. TableNotOlder'
      BY <2>0, <2>s DEF IInv, Typed, TableNotOlder, Serve, globals, Stamped
    <2> QED BY <1>1, <2>1, <2>2, <2>3, <2>4, <2>5, <2>6 DEF IInv
  <1>3. CASE ~reload
    <2>0. UNCHANGED shared /\ need' = [need EXCEPT ![x] = 0]
      BY <1>3 DEF Serve
    <2>1. Typed'
      BY <2>0 DEF IInv, Typed, Version, Serve, shared, globals
    <2>2. Past'
      BY <2>0, ReloadAssumption DEF IInv, Typed, Past, Seen, Serve, shared, globals
    <2>3. StampFresh'
      BY <2>0 DEF IInv, StampFresh, NewEnough, Serve, shared, globals
    <2>4. NeedMet'
      BY <2>0, HomeLemma DEF IInv, Typed, NewEnough, NeedMet, Serve, shared, globals
    <2>5. AnswerFresh'
      BY <2>0 DEF IInv, AnswerFresh, Serve, Runs, shared
    <2>6. TableNotOlder'
      BY <2>0 DEF IInv, TableNotOlder, Serve, shared, globals
    <2> QED BY <1>1, <2>1, <2>2, <2>3, <2>4, <2>5, <2>6 DEF IInv
  <1> QED BY <1>2, <1>3

\* A new worker has seen no version.
LEMMA CrashStep ==
    ASSUME IInv, NEW w \in Worker, Crash(w)
    PROVE  IInv'
  <1>1. Typed'
    BY DEF IInv, Typed, Version, Crash
  <1>2. Exclusive'
    BY HomeLemma DEF IInv, Exclusive, Active, Pc, Crash
  <1>3. Past'
    BY ReloadAssumption DEF IInv, Past, Seen, Crash
  <1>4. StampFresh'
    BY DEF IInv, Typed, StampFresh, NewEnough, Crash
  <1>5. NeedMet'
    BY DEF IInv, Typed, NewEnough, NeedMet, Crash
  <1>6. AnswerFresh'
    BY DEF IInv, AnswerFresh, Crash
  <1>7. TableNotOlder'
    BY DEF IInv, Typed, TableNotOlder, Crash
  <1> QED BY <1>1, <1>2, <1>3, <1>4, <1>5, <1>6, <1>7 DEF IInv

\* The clock only goes forward.
LEMMA TickStep ==
    ASSUME IInv, Tick
    PROVE  IInv'
  <1>1. Typed'
    BY ReloadAssumption DEF IInv, Typed, Tick, globals, locals
  <1>2. Exclusive'
    BY DEF IInv, Exclusive, Tick, locals
  <1>3. Past'
    BY DEF IInv, Typed, Past, Seen, Tick, globals, locals
  <1>4. StampFresh'
    BY DEF IInv, StampFresh, NewEnough, Tick, globals
  <1>5. NeedMet'
    BY DEF IInv, NewEnough, NeedMet, Tick, globals, locals
  <1>6. AnswerFresh'
    BY DEF IInv, AnswerFresh, Tick, locals
  <1>7. TableNotOlder'
    BY DEF IInv, TableNotOlder, Tick, globals
  <1> QED BY <1>1, <1>2, <1>3, <1>4, <1>5, <1>6, <1>7 DEF IInv

\* The files only get newer.
LEMMA EditStep ==
    ASSUME IInv, Edit
    PROVE  IInv'
  <1>1. Typed'
    BY DEF IInv, Typed, Edit, globals, locals
  <1>2. Exclusive'
    BY DEF IInv, Exclusive, Edit, locals
  <1>3. Past'
    BY DEF IInv, Typed, Past, Seen, Edit, globals, locals
  <1>4. StampFresh'
    BY DEF IInv, StampFresh, NewEnough, Edit, globals
  <1>5. NeedMet'
    BY DEF IInv, Typed, NewEnough, NeedMet, Edit, globals, locals
  <1>6. AnswerFresh'
    BY DEF IInv, AnswerFresh, Edit, locals
  <1>7. TableNotOlder'
    BY DEF IInv, TableNotOlder, Edit, globals
  <1> QED BY <1>1, <1>2, <1>3, <1>4, <1>5, <1>6, <1>7 DEF IInv

\* So does the topology.
LEMMA MoveStep ==
    ASSUME IInv, Move
    PROVE  IInv'
  <1>1. Typed'
    BY DEF IInv, Typed, Move, globals, locals
  <1>2. Exclusive'
    BY DEF IInv, Exclusive, Move, locals
  <1>3. Past'
    BY DEF IInv, Typed, Past, Seen, Move, globals, locals
  <1>4. StampFresh'
    BY DEF IInv, StampFresh, NewEnough, Move, globals
  <1>5. NeedMet'
    BY DEF IInv, NewEnough, NeedMet, Move, globals, locals
  <1>6. AnswerFresh'
    BY DEF IInv, AnswerFresh, Move, locals
  <1>7. TableNotOlder'
    BY DEF IInv, TableNotOlder, Move, globals
  <1> QED BY <1>1, <1>2, <1>3, <1>4, <1>5, <1>6, <1>7 DEF IInv

\* Workers that are not modelled set versions like the others.
LEMMA ElsewhereStep ==
    ASSUME IInv, NEW reload \in BOOLEAN, Elsewhere(reload)
    PROVE  IInv'
  <1>0. PICK t \in LocalTimes : Stamp(t, reload) /\ need' = NeedAfter(t)
    BY DEF Elsewhere
  <1>s. Stamped(t)
    BY <1>0, StampLemma
  <1>1. Typed'
    BY <1>0, <1>s DEF IInv, Typed, Elsewhere, globals, Stamped
  <1>2. Exclusive'
    BY DEF IInv, Exclusive, Elsewhere
  <1>3. Past'
    BY <1>0, <1>s, ReloadAssumption DEF IInv, Typed, Past, Seen, Elsewhere, globals, Stamped
  <1>4. StampFresh'
    BY <1>0, <1>s DEF IInv, Typed, StampFresh, NewEnough, Elsewhere, globals, Stamped
  <1>5. NeedMet'
    BY <1>0, <1>s, HomeLemma DEF IInv, Typed, NewEnough, NeedMet, Elsewhere, globals, Stamped
  <1>6. AnswerFresh'
    BY <1>0, <1>s DEF IInv, Typed, AnswerFresh, Elsewhere, Stamped
  <1>7. TableNotOlder'
    BY <1>0, <1>s DEF IInv, Typed, TableNotOlder, Elsewhere, globals, Stamped
  <1> QED BY <1>1, <1>2, <1>3, <1>4, <1>5, <1>6, <1>7 DEF IInv

\* At the start no version is set and nobody has seen one.
LEMMA InitLemma == Init => IInv
  <1> SUFFICES ASSUME Init PROVE IInv
    OBVIOUS
  <1>1. Typed
    BY ReloadAssumption DEF Init, Typed, Version, FileStates
  <1>2. Exclusive
    BY HomeLemma DEF Init, Exclusive, Active, Pc
  <1>3. Past
    BY ReloadAssumption DEF Init, Past, Seen
  <1>4. StampFresh
    BY ReloadAssumption DEF Init, StampFresh
  <1>5. NeedMet
    BY HomeLemma DEF Init, NeedMet, NewEnough
  <1>6. AnswerFresh /\ TableNotOlder
    BY DEF Init, AnswerFresh, TableNotOlder
  <1> QED BY <1>1, <1>2, <1>3, <1>4, <1>5, <1>6 DEF IInv

\* Every step keeps IInv.
LEMMA StepLemma == IInv /\ [Next]_vars => IInv'
  <1> SUFFICES ASSUME IInv, [Next]_vars PROVE IInv'
    OBVIOUS
  <1>1. CASE Next
    BY <1>1, GetVersionStep, SetVersionStep, ReadStep, LoadRaisesStep, RefreshStep,
       NodeAnswersStep, UpdateSlotsStep, ServeStep, CrashStep, TickStep, EditStep, MoveStep,
       ElsewhereStep
    DEF Next
  <1>2. CASE UNCHANGED vars
    BY <1>2 DEF vars, shared, globals, locals, IInv, Typed, Exclusive, Past, Seen, StampFresh,
                NewEnough, NeedMet, AnswerFresh, TableNotOlder
  <1> QED BY <1>1, <1>2

\* IInv is an invariant of the workers.
LEMMA Invariance == Spec => []IInv
  BY InitLemma, StepLemma, PTL DEF Spec

\* The globals of every worker and the locals of every coroutine keep their
\* types, and one coroutine of a worker runs at a time.
THEOREM ReloadTypes == Spec => []TypeOK
  <1>1. IInv => TypeOK
    BY DEF IInv, Typed, Exclusive, Version, Active, Pc, TypeOK
  <1> QED BY <1>1, Invariance, PTL

\* A request read after a PROXY RELOAD meets whitelists at least as new as the
\* files were at the RELOAD, on any worker, however many load at once.
THEOREM WhitelistsFresh == Spec => []ReloadTakesEffect
  <1>1. IInv => ReloadTakesEffect
    BY DEF IInv, NeedMet, NewEnough, ReloadTakesEffect, Co
  <1> QED BY <1>1, Invariance, PTL

\* A slot table with the current version was given by a node after the RELOAD
\* that set it, however the refreshes of the coroutines overlap.
THEOREM TableFresh == Spec => []TableNotOlder
  BY Invariance, PTL DEF IInv
=============================================================================
