------------------------ MODULE LightThreads_proof ------------------------
(***************************************************************************)
(* Proofs about LightThreads, for any number of coroutines.                *)
(*                                                                         *)
(* IInv is the inductive invariant.  In an open session it relates what is *)
(* kept in four places: the status of each coroutine, the queue of posted  *)
(* threads, the operations that will call back, and the list of children   *)
(* that ended unseen.  Each running coroutine is the current one or is     *)
(* resumed by exactly one of these.  The counts say that each busy thread  *)
(* has exactly one running coroutine, itself or one it waits for through   *)
(* coroutine.resume.  A finalized session has no thread and no reference.  *)
(*                                                                         *)
(* The theorems are about Lua code as Plain describes it.  The proxy waits *)
(* for or kills every thread it spawns and creates no coroutine, so for    *)
(* the proxy they hold also if Lua uses the memory of an ended thread for  *)
(* a new one.  OwnResume, NoLostWake and AllEnded fail for other code: a   *)
(* wait for two threads, a thread that spawns threads, and memory used     *)
(* again while ended threads are left to the entry thread, in that order.  *)
(***************************************************************************)
EXTENDS LightThreads, FiniteSetTheorems, TLAPS

\* The co_status values, and where a coroutine is while it does not run.
Statuses == {"none", "running", "suspended", "normal", "zombie", "dead"}
Places == {"lua", "spawn", "resume", "yield", "event", "wait", "end"}

\* The type invariant.
Typed ==
    /\ status \in [Co -> Statuses] /\ within \in [Co -> Places]
    /\ uthread \in [Co -> BOOLEAN] /\ ref \in [Co -> BOOLEAN]
    /\ waited \in [Co -> BOOLEAN] /\ pending \in [Co -> BOOLEAN]
    /\ parent \in [Co -> Co \cup {NULL}] /\ zombies \in [Co -> Seq(Co)]
    /\ cur \in Co \cup {NULL} /\ uthreads \in Int /\ posted \in Seq(Co)
    /\ session \in {"open", "exit", "error", "done"}

\* What is running or has called coroutine.resume.
Busy(c) == status[c] \in {"running", "normal"}

\* The threads are children of the entry thread, and those that have not
\* ended are anchored.
Threads ==
    /\ ~uthread[entry] /\ uthread[abort]
    /\ status[entry] \in {"running", "normal", "dead"}
    /\ \A c \in Co : uthread[c] => parent[c] = entry /\ status[c] # "none"
    /\ \A c \in Co : uthread[c] /\ status[c] = "suspended" => c = abort
    /\ \A c \in Co : ref[c] <=> IsThread(c) /\ status[c] \notin {"none", "dead"}

\* A context that may be that of a later thread.
UsedAgain(c) == "reuse" \in Uses /\ c # abort

\* The threads that ended unseen are in the list of the entry thread, which
\* keeps those it has waited for since.
Ended ==
    /\ \A c \in Co : status[c] = "zombie" =>
          uthread[c] /\ Alive(entry) /\ c \in Entries(zombies[entry])
    /\ \A c \in Entries(zombies[entry]) :
          uthread[c] /\ (status[c] \in {"zombie", "dead"} \/ UsedAgain(c))
    /\ \A c \in User : zombies[c] = <<>>

\* A thread is waited for exactly while the entry thread waits.
Waiting ==
    /\ \A d \in Co : waited[d] =>
          /\ uthread[d] /\ d # abort /\ Busy(d)
          /\ within[entry] = "wait" /\ status[entry] = "running"
    /\ \A d, e \in Co : waited[d] /\ waited[e] => d = e

\* A running coroutine is the current one or will be resumed by one party.
Control ==
    /\ \A c \in Co : status[c] = "running" =>
          /\ cur = c <=> within[c] = "lua"
          /\ within[c] = "event" => pending[c]
          /\ within[c] \in {"spawn", "yield"} => c \in Entries(posted)
          /\ within[c] \in {"lua", "event", "spawn", "yield", "wait"}
    /\ \A c \in Co : pending[c] => status[c] = "running" /\ within[c] = "event"
    /\ \A c \in Co : within[c] = "wait" =>
          c = entry /\ status[c] = "running" /\ \E d \in Co : waited[d]
    /\ cur # NULL => status[cur] = "running"

\* Nobody is posted twice, and who is posted does nothing else.
Posted ==
    /\ Distinct(posted)
    /\ \A c \in Entries(posted) :
          \/ status[c] = "running" /\ within[c] \in {"spawn", "yield"}
          \/ status[c] = "dead"
    /\ \A c \in Entries(posted) : c = entry \/ "coroutines" \in Uses

\* The coroutine resumed by each coroutine that waits for one.
Chain ==
    /\ \A c \in Co : ~IsThread(c) /\ Busy(c) =>
          parent[c] \in Co /\ status[parent[c]] = "normal"
    /\ \A c, d \in Co : ~IsThread(c) /\ Busy(c) /\ ~IsThread(d) /\ Busy(d) /\ parent[c] = parent[d]
          => c = d

\* The threads ctx->uthreads counts, the coroutines that run, and the threads
\* that run or wait for a coroutine of theirs.
Anchored == {c \in User : ref[c] /\ ~(c = abort /\ status[c] = "suspended")}
Running == {c \in Co : status[c] = "running"}
BusyThreads == {c \in Co : IsThread(c) /\ Busy(c)}

\* Each busy thread has one running coroutine, itself or one it waits for.
Counts ==
    /\ uthreads = Cardinality(Anchored)
    /\ Cardinality(Running) = Cardinality(BusyThreads)
    /\ BusyThreads # {}

\* An open session.
Open == Threads /\ Ended /\ Waiting /\ Control /\ Posted /\ Chain /\ Counts

\* session_cleanup has run: what may still come is the end of an operation of
\* a coroutine that is no thread.
Finalized ==
    /\ cur = NULL /\ uthreads = 0
    /\ \A c \in Co : ~ref[c] /\ (pending[c] => Live(c) /\ ~IsThread(c))

\* The inductive invariant.
IInv == Typed /\ (open => Open) /\ (~open => Finalized)

-----------------------------------------------------------------------------
\* The Lua code of the proofs: threads spawn no threads and wait for one thread
\* at a time; and either no context is used again, or no coroutine is created
\* and the entry thread has waited for or killed its threads when it returns.
Plain == Uses \subseteq {"coroutines", "orphans"} \/ Uses \subseteq {"reuse"}

\* ngx_queue_insert_tail: one entry more.
LEMMA AppendLemma ==
    ASSUME NEW S, NEW s \in Seq(S), NEW c \in S
    PROVE  /\ Append(s, c) \in Seq(S)
           /\ Entries(Append(s, c)) = Entries(s) \cup {c}
           /\ Distinct(s) /\ c \notin Entries(s) => Distinct(Append(s, c))
<1> DEFINE t == Append(s, c)
<1>1. /\ t \in Seq(S) /\ Len(t) = Len(s) + 1 /\ t[Len(s) + 1] = c
      /\ \A i \in 1 .. Len(s) : t[i] = s[i]
  OBVIOUS
<1>2. DOMAIN s = 1 .. Len(s) /\ DOMAIN t = 1 .. Len(t) /\ Len(s) \in Nat
  BY <1>1
<1> HIDE DEF t
<1>3. Entries(t) = Entries(s) \cup {c}
  <2>1. \A i \in DOMAIN t : t[i] \in Entries(s) \cup {c}
    BY <1>1, <1>2 DEF Entries
  <2>2. \A i \in DOMAIN s : s[i] \in Entries(t)
    BY <1>1, <1>2 DEF Entries
  <2>3. c \in Entries(t)
    BY <1>1, <1>2 DEF Entries
  <2> QED
    BY <2>1, <2>2, <2>3 DEF Entries
<1>4. ASSUME Distinct(s), c \notin Entries(s)
      PROVE  Distinct(t)
  <2>1. \A i \in 1 .. Len(s) : s[i] # c
    BY <1>2, <1>4 DEF Entries
  <2> QED
    BY <1>1, <1>2, <1>4, <2>1 DEF Distinct
<1> QED
  BY <1>1, <1>3, <1>4 DEF t

\* Sets of coroutines are finite, and their cardinalities are as expected.
LEMMA Finite ==
    ASSUME NEW S \in SUBSET Co
    PROVE  /\ IsFiniteSet(S) /\ Cardinality(S) \in Nat
           /\ \A x : x \in S => Cardinality(S \ {x}) = Cardinality(S) - 1
           /\ \A x : x \notin S => Cardinality(S \cup {x}) = Cardinality(S) + 1
<1>1. IsFiniteSet(S)
  BY CoAssumption, FS_Subset
<1> QED
  BY <1>1, FS_CardinalityType, FS_AddElement, FS_RemoveElement

\* Moving from one coroutine to another keeps the number.
LEMMA Moved ==
    ASSUME NEW S \in SUBSET Co, NEW x \in S, NEW y, y \notin S
    PROVE  Cardinality((S \ {x}) \cup {y}) = Cardinality(S)
<1>1. Cardinality(S \ {x}) = Cardinality(S) - 1 /\ Cardinality(S) \in Nat
  BY Finite
<1>2. S \ {x} \in SUBSET Co /\ y \notin S \ {x}
  OBVIOUS
<1>3. Cardinality((S \ {x}) \cup {y}) = Cardinality(S \ {x}) + 1
  BY <1>2, Finite
<1> QED
  BY <1>1, <1>3

\* Removing a part subtracts its size.
LEMMA Removed ==
    ASSUME NEW S \in SUBSET Co, NEW T \in SUBSET S
    PROVE  Cardinality(S \ T) = Cardinality(S) - Cardinality(T)
<1>1. T \in SUBSET Co /\ S \ T \in SUBSET Co
  OBVIOUS
<1>2. /\ IsFiniteSet(T) /\ Cardinality(T) \in Nat
      /\ IsFiniteSet(S \ T) /\ Cardinality(S \ T) \in Nat
  BY <1>1, Finite
<1>3. (S \ T) \cup T = S /\ (S \ T) \cap T = {}
  OBVIOUS
<1>4. Cardinality(S) = Cardinality(S \ T) + Cardinality(T) - Cardinality({})
  BY <1>2, <1>3, FS_Union, Zenon
<1>5. Cardinality({}) = 0
  BY FS_EmptySet, Zenon
<1> QED
  BY <1>2, <1>4, <1>5

\* The coroutine that runs: it waits for nothing and is not posted.
LEMMA Current ==
    ASSUME IInv, open, cur # NULL
    PROVE  /\ Typed /\ Open
           /\ cur \in Co /\ status[cur] = "running" /\ within[cur] = "lua"
           /\ ~pending[cur] /\ cur \notin Entries(posted)
           /\ cur = entry => \A d \in Co : ~waited[d]
           /\ IsThread(cur) => ref[cur]
           /\ \A e \in Entries(posted) : e \in Co
           /\ \A e \in Entries(zombies[entry]) : e \in Co
<1>1. Typed /\ Open
  BY DEF IInv
<1>2. cur \in Co /\ status[cur] = "running"
  BY <1>1, Zenon DEF Typed, Open, Control
<1>3. within[cur] = "lua"
  BY <1>1, <1>2, Zenon DEF Open, Control
<1>4. /\ \A e \in Entries(posted) : e \in Co
      /\ \A e \in Entries(zombies[entry]) : e \in Co
  <2>1. posted \in Seq(Co) /\ zombies[entry] \in Seq(Co)
    BY <1>1, CoAssumption DEF Typed
  <2> QED
    BY <2>1 DEF Entries
<1> QED
  BY <1>1, <1>2, <1>3, <1>4 DEF Open, Control, Posted, Waiting, Threads

\* The parts of the invariant that do not depend on who is suspended where.
LEMMA StatusKept ==
    ASSUME Open, UNCHANGED <<status, uthread, parent, ref, zombies, uthreads>>
    PROVE  Threads' /\ Ended' /\ Chain' /\ Counts'
<1>1. Threads'
  BY Zenon DEF Open, Threads, IsThread
<1>2. Ended'
  BY Zenon DEF Open, Ended, Alive
<1>3. Chain'
  BY Zenon DEF Open, Chain, IsThread, Busy
<1>4. Anchored' = Anchored /\ Running' = Running /\ BusyThreads' = BusyThreads
  BY Zenon DEF Anchored, Running, BusyThreads, IsThread, Busy
<1>5. Counts'
  BY <1>4, Zenon DEF Open, Counts
<1> QED
  BY <1>1, <1>2, <1>3, <1>5, Zenon

\* A step that changes nothing.
LEMMA StutterIInv ==
    ASSUME IInv, UNCHANGED vars
    PROVE  IInv'
<1>1. /\ UNCHANGED <<status, uthread, parent, ref, zombies, uthreads>>
      /\ UNCHANGED <<waited, pending, within, cur, posted, session>>
  BY Zenon DEF vars, coVars
<1>2. Typed'
  BY <1>1, Zenon DEF IInv, Typed
<1>3. CASE open
  <2>1. Open /\ open'
    BY <1>1, <1>3, Zenon DEF IInv, open
  <2>2. Waiting' /\ Posted'
    BY <1>1, <2>1, Zenon DEF Open, Waiting, Posted, Busy
  <2>3. Control'
    BY <1>1, <2>1, Zenon DEF Open, Control
  <2> QED
    BY <1>1, <1>2, <2>1, <2>2, <2>3, StatusKept, Zenon DEF IInv, Open
<1>4. CASE ~open
  <2>1. Finalized /\ ~open'
    BY <1>1, <1>4, Zenon DEF IInv, open
  <2>2. Finalized'
    BY <1>1, <2>1, Zenon DEF Finalized, Live, Alive, IsThread
  <2> QED
    BY <1>2, <2>1, <2>2, Zenon DEF IInv
<1> QED
  BY <1>3, <1>4, Zenon

\* The entry thread runs and the abort thread is suspended.
LEMMA InitIInv == Init => IInv
<1> SUFFICES ASSUME Init PROVE IInv
  OBVIOUS
<1>1. Typed
  <2>1. <<>> \in Seq(Co)
    OBVIOUS
  <2> QED
    BY <2>1, CoAssumption DEF Init, Typed, Statuses, Places
<1>2. Threads /\ Waiting /\ Control
  BY CoAssumption, Zenon DEF Init, Threads, Waiting, Control, IsThread, Busy, Alive, Live
<1>3. Ended /\ Posted
  BY CoAssumption DEF Init, Ended, Posted, User, Entries, Distinct, Alive
<1>4. Chain
  BY CoAssumption DEF Init, Chain, IsThread, Busy
<1>5. Counts
  <2>1. Anchored = {}
    BY CoAssumption, Zenon DEF Init, Anchored, User
  <2>2. Running = BusyThreads /\ entry \in BusyThreads
    BY CoAssumption DEF Init, Running, BusyThreads, IsThread, Busy
  <2> QED
    BY <2>1, <2>2, FS_EmptySet, Zenon DEF Counts, Init
<1> QED
  BY <1>1, <1>2, <1>3, <1>4, <1>5, Zenon DEF IInv, Open, open, Init

\* A cosocket operation or a sleep: one more operation will call back.
LEMMA BlockIInv ==
    ASSUME IInv, open, cur # NULL, block(cur)
    PROVE  IInv'
<1>1. /\ Typed /\ Open
      /\ cur \in Co /\ status[cur] = "running" /\ within[cur] = "lua"
      /\ ~pending[cur] /\ cur \notin Entries(posted)
      /\ cur = entry => \A d \in Co : ~waited[d]
      /\ IsThread(cur) => ref[cur]
  BY Current, Zenon
<1>2. Typed'
  BY <1>1, CoAssumption DEF block, Suspend, Typed, Places
<1>3. Threads' /\ Ended' /\ Chain' /\ Counts'
  BY <1>1, StatusKept, Zenon DEF block
<1>4. Waiting'
  BY <1>1, CoAssumption, Zenon DEF Open, block, Suspend, Waiting, Busy, Typed
<1>5. Control' /\ Posted'
  BY <1>1, CoAssumption DEF Open, block, Suspend, Control, Posted, Typed
<1> QED
  BY <1>2, <1>3, <1>4, <1>5, Zenon DEF IInv, Open, open, block

\* coroutine.create: a coroutine nobody has resumed yet.
LEMMA CreateIInv ==
    ASSUME Plain, IInv, open, cur # NULL, NEW d \in User, create(cur, d)
    PROVE  IInv'
<1>1. /\ Typed /\ Open
      /\ cur \in Co /\ status[cur] = "running" /\ within[cur] = "lua"
  BY Current, Zenon
<1>2. /\ d \in Co /\ d # entry /\ d # abort /\ status[d] = "none"
      /\ ~uthread[d] /\ ~ref[d] /\ ~pending[d] /\ ~waited[d] /\ d \notin Entries(posted)
      /\ d \notin Entries(zombies[entry]) /\ zombies[d] = <<>>
      /\ d # cur
  <2>1. d \in Co /\ d # entry /\ status[d] = "none"
    BY DEF Plain, create, Fresh, User
  <2> QED
    BY <1>1, <2>1, CoAssumption DEF Open, Threads, Ended, Control, Posted, Waiting, Busy, User
<1>3. Typed'
  BY <1>1, <1>2, Zenon DEF create, Typed, Statuses
<1>4. uthread' = uthread /\ ref' = ref /\ waited' = waited /\ pending' = pending /\ zombies' = zombies
  BY <1>1, <1>2, Zenon DEF create, Typed
<1>5. Threads' /\ Ended'
  BY <1>1, <1>2, <1>4, CoAssumption DEF Open, create, Threads, Ended, IsThread, Alive, Typed
<1>6. Waiting' /\ Control' /\ Posted'
  BY <1>1, <1>2, <1>4, CoAssumption DEF Open, create, Waiting, Control, Posted, Busy, Typed
<1>7. Chain'
  BY <1>1, <1>2, <1>4, CoAssumption DEF Open, create, Chain, IsThread, Busy, Typed
<1>8. Anchored' = Anchored /\ Running' = Running /\ BusyThreads' = BusyThreads
  BY <1>1, <1>2, <1>4 DEF create, Anchored, Running, BusyThreads, IsThread, Busy, Typed, User
<1>9. Counts'
  BY <1>1, <1>8, Zenon DEF Open, Counts, create
<1> QED
  BY <1>3, <1>5, <1>6, <1>7, <1>9, Zenon DEF IInv, Open, open, create

\* ngx.thread.spawn: one thread more, and its parent is posted.
LEMMA SpawnIInv ==
    ASSUME Plain, IInv, open, cur # NULL, NEW d \in User, spawn(cur, d)
    PROVE  IInv'
<1>1. /\ Typed /\ Open
      /\ cur \in Co /\ status[cur] = "running" /\ within[cur] = "lua"
      /\ ~pending[cur] /\ cur \notin Entries(posted)
      /\ cur = entry => \A e \in Co : ~waited[e]
      /\ \A e \in Entries(posted) : e \in Co
      /\ \A e \in Entries(zombies[entry]) : e \in Co
  BY Current
<1>2. cur = entry
  BY Zenon DEF Plain, spawn
<1>3. /\ d \in Co /\ d # entry /\ d # abort /\ status[d] \in {"none", "dead"}
      /\ ~ref[d] /\ ~pending[d] /\ ~waited[d] /\ d \notin Entries(posted)
      /\ (d \in Entries(zombies[entry]) => UsedAgain(d)) /\ zombies[d] = <<>>
  <2>1. d \in Co /\ d # entry /\ d # abort
    <3>1. d \in Co /\ d # entry
      BY DEF User
    <3>2. status[d] = "none" \/ d # abort
      BY Zenon DEF spawn, Fresh
    <3> QED
      BY <1>1, <3>1, <3>2, CoAssumption, Zenon DEF Open, Threads
  <2>2. status[d] = "none" \/ (status[d] = "dead" /\ "reuse" \in Uses)
    BY Zenon DEF spawn, Fresh
  <2>3. ~ref[d] /\ ~pending[d] /\ ~waited[d] /\ zombies[d] = <<>>
    BY <1>1, <2>1, <2>2 DEF Open, Threads, Ended, Control, Waiting, Busy, User
  <2>4. d \in Entries(zombies[entry]) => UsedAgain(d)
    BY <1>1, <2>1, <2>2, Zenon DEF Open, Threads, Ended, UsedAgain
  <2>5. d \notin Entries(posted)
    <3>1. CASE status[d] = "none"
      BY <1>1, <3>1 DEF Open, Posted
    <3>2. CASE "reuse" \in Uses
      BY <1>1, <2>1, <3>2 DEF Open, Posted, Plain
    <3> QED
      BY <2>2, <3>1, <3>2
  <2> QED
    BY <2>1, <2>2, <2>3, <2>4, <2>5
<1>4. /\ posted' \in Seq(Co) /\ Entries(posted') = Entries(posted) \cup {entry}
      /\ Distinct(posted')
  BY <1>1, <1>2, AppendLemma DEF spawn, Typed, Open, Posted
<1>5. waited' = waited /\ pending' = pending /\ zombies' = zombies
  BY <1>1, <1>3 DEF spawn, Typed
<1>6. Typed'
  <2>1. /\ status' \in [Co -> Statuses] /\ parent' \in [Co -> Co \cup {NULL}]
        /\ within' \in [Co -> Places]
    BY <1>1, <1>3, Zenon DEF spawn, Typed, Statuses, Places
  <2>2. /\ uthread' \in [Co -> BOOLEAN] /\ ref' \in [Co -> BOOLEAN]
    BY <1>1, <1>3 DEF spawn, Typed
  <2>3. uthreads' \in Int
    BY <1>1 DEF spawn, Typed
  <2> QED
    BY <1>1, <1>3, <1>4, <1>5, <2>1, <2>2, <2>3, ZenonT(30) DEF spawn, Typed
<1>7. Threads' /\ Ended'
  BY <1>1, <1>2, <1>3, <1>5, CoAssumption DEF Open, spawn, Threads, Ended, IsThread, Alive, Typed
<1>8. Waiting' /\ Control' /\ Posted'
  <2> DEFINE Q == Entries(posted)
  <2> HIDE DEF Q
  <2>1. \A e \in Q : e \in Co
    BY <1>1, Zenon DEF Typed, Q, Entries
  <2>2. \A e \in Co : ~waited'[e]
    BY <1>1, <1>2, <1>5, Zenon
  <2>3. Control'
    BY <1>1, <1>2, <1>3, <1>4, <1>5, CoAssumption, SMTT(20) DEF Open, spawn, Control, Typed
  <2>4. Posted'
    BY <1>1, <1>2, <1>3, <1>4, <2>1, CoAssumption DEF Open, spawn, Posted, Typed, Q
  <2> QED
    BY <2>2, <2>3, <2>4, Zenon DEF Waiting
<1>9. Chain'
  BY <1>1, <1>2, <1>3, CoAssumption, ZenonT(30) DEF Open, spawn, Chain, IsThread, Busy, Typed
<1>10. /\ Anchored' = Anchored \cup {d} /\ Running' = Running \cup {d}
       /\ BusyThreads' = BusyThreads \cup {d}
       /\ d \notin Anchored /\ d \notin Running /\ d \notin BusyThreads
  BY <1>1, <1>2, <1>3 DEF spawn, Anchored, Running, BusyThreads, IsThread, Busy, Typed, User
<1>11. Counts'
  <2>1. Anchored \in SUBSET Co /\ Running \in SUBSET Co /\ BusyThreads \in SUBSET Co
    BY DEF Anchored, Running, BusyThreads, User
  <2> QED
    BY <1>1, <1>10, <2>1, Finite, Zenon DEF Open, Counts, spawn
<1> QED
  BY <1>6, <1>7, <1>8, <1>9, <1>11, Zenon DEF IInv, Open, open, spawn

\* coroutine.resume: control goes to the coroutine, and comes back to its parent.
LEMMA ResumeIInv ==
    ASSUME IInv, open, cur # NULL, NEW d \in User, resume(cur, d)
    PROVE  IInv'
<1>1. /\ Typed /\ Open
      /\ cur \in Co /\ status[cur] = "running" /\ within[cur] = "lua"
      /\ ~pending[cur] /\ cur \notin Entries(posted)
      /\ cur = entry => \A e \in Co : ~waited[e]
      /\ \A e \in Entries(posted) : e \in Co
      /\ \A e \in Entries(zombies[entry]) : e \in Co
  BY Current, Zenon
<1>2. /\ d \in Co /\ d # entry /\ d # abort /\ status[d] = "suspended" /\ d # cur
      /\ ~uthread[d] /\ ~ref[d] /\ ~pending[d] /\ ~waited[d] /\ d \notin Entries(posted)
  <2>1. d \in Co /\ d # entry /\ d # abort /\ status[d] = "suspended" /\ d # cur
    BY <1>1 DEF resume, User
  <2> QED
    BY <1>1, <2>1, CoAssumption, Zenon
    DEF Open, Threads, Control, Posted, Waiting, Busy, IsThread, Typed
<1>3. Typed'
  BY <1>1, <1>2, Zenon DEF resume, Typed, Statuses, Places
<1>4. Threads' /\ Ended'
  <2>1. Threads'
    BY <1>1, <1>2, CoAssumption, Zenon DEF Open, resume, Threads, IsThread, Typed
  <2>2. Ended'
    BY <1>1, <1>2, CoAssumption, Zenon DEF Open, resume, Ended, Alive, Typed
  <2> QED
    BY <2>1, <2>2, Zenon
<1>5. Waiting' /\ Control' /\ Posted'
  <2>2. Waiting'
    BY <1>1, <1>2, CoAssumption, Zenon DEF Open, resume, Waiting, Busy, Typed
  <2>3. Control'
    BY <1>1, <1>2, CoAssumption, ZenonT(30) DEF Open, resume, Control, Typed
  <2>4. Posted'
    BY <1>1, <1>2, CoAssumption, Zenon DEF Open, resume, Posted, Typed
  <2> QED
    BY <2>2, <2>3, <2>4, Zenon
<1>6. Chain'
  <2>1. \A e \in Co : e # d => parent'[e] = parent[e] /\ (Busy(e)' <=> Busy(e))
    BY <1>1, <1>2 DEF resume, Busy, Typed
  <2>2. parent'[d] = cur /\ status'[cur] = "normal" /\ d # entry
    BY <1>1, <1>2, Zenon DEF resume, Typed
  <2>3. \A e \in Co : IsThread(e)' <=> IsThread(e)
    BY Zenon DEF resume, IsThread
  <2>4. \A e \in Co : status[e] = "normal" => status'[e] = "normal"
    BY <1>1, <1>2, Zenon DEF resume, Typed
  <2>5. \A e \in Co : ~IsThread(e) /\ Busy(e) => parent[e] # cur
    BY <1>1, Zenon DEF Open, Chain
  <2> QED
    BY <1>1, <1>2, <2>1, <2>2, <2>3, <2>4, <2>5 DEF Open, Chain
<1>7. /\ Anchored' = Anchored /\ Running' = (Running \ {cur}) \cup {d}
      /\ BusyThreads' = BusyThreads /\ cur \in Running /\ d \notin Running
  BY <1>1, <1>2 DEF resume, Anchored, Running, BusyThreads, IsThread, Busy, Typed, User
<1>8. Counts'
  <2>1. Running \in SUBSET Co
    BY DEF Running
  <2>2. Cardinality(Running') = Cardinality(Running)
    BY <1>7, <2>1, Moved, Zenon
  <2> QED
    BY <1>1, <1>7, <2>2, Zenon DEF Open, Counts, resume
<1> QED
  BY <1>3, <1>4, <1>5, <1>6, <1>8, Zenon DEF IInv, Open, open, resume

\* coroutine.yield: a thread is posted, any other coroutine hands control back.
LEMMA YieldIInv ==
    ASSUME IInv, open, cur # NULL, yield(cur)
    PROVE  IInv'
<1>1. /\ Typed /\ Open
      /\ cur \in Co /\ status[cur] = "running" /\ within[cur] = "lua"
      /\ ~pending[cur] /\ cur \notin Entries(posted)
      /\ cur = entry => \A e \in Co : ~waited[e]
      /\ \A e \in Entries(posted) : e \in Co
      /\ \A e \in Entries(zombies[entry]) : e \in Co
  BY Current, Zenon
<1>2. "coroutines" \in Uses
  BY DEF yield
<1>3. UNCHANGED <<uthread, parent, ref, waited, pending, zombies, uthreads, session>>
  BY DEF yield
<1>4. CASE /\ IsThread(cur) /\ posted' = Append(posted, cur)
           /\ Suspend(cur, "yield") /\ UNCHANGED status
  <2>1. /\ posted' \in Seq(Co) /\ Entries(posted') = Entries(posted) \cup {cur}
        /\ Distinct(posted')
    BY <1>1, <1>4, AppendLemma DEF Typed, Open, Posted
  <2>2. Typed'
    BY <1>1, <1>3, <1>4, <2>1, Zenon DEF Suspend, Typed, Places
  <2>3. Threads' /\ Ended' /\ Chain' /\ Counts'
    BY <1>1, <1>3, <1>4, ZenonT(30) DEF Open, Threads, Ended, Chain, Counts, IsThread, Busy, Alive, Anchored,
       Running, BusyThreads
  <2>4. Waiting'
    BY <1>1, <1>3, <1>4, CoAssumption, Zenon DEF Open, Suspend, Waiting, Busy, Typed
  <2>5. Control' /\ Posted'
    BY <1>1, <1>2, <1>3, <1>4, <2>1, CoAssumption DEF Open, Suspend, Control, Posted, Typed
  <2> QED
    BY <1>3, <2>2, <2>3, <2>4, <2>5, Zenon DEF IInv, Open, open
<1>5. CASE /\ ~IsThread(cur)
           /\ status' = [status EXCEPT ![cur] = "suspended", ![parent[cur]] = "running"]
           /\ cur' = parent[cur]
           /\ within' = [within EXCEPT ![cur] = "yield", ![parent[cur]] = "lua"]
           /\ UNCHANGED posted
  <2>0. PICK c \in Co : c = cur
    BY <1>1
  <2> DEFINE p == parent[c]
  <2>1. /\ p \in Co /\ status[p] = "normal" /\ p # c /\ ~pending[p] /\ p \notin Entries(posted)
        /\ \A e \in Co : ~IsThread(e) /\ Busy(e) /\ parent[e] = p => e = c
    <3>1. p \in Co /\ status[p] = "normal"
      BY <1>1, <1>5, <2>0, Zenon DEF Open, Chain, Busy
    <3>2. \A e \in Co : ~IsThread(e) /\ Busy(e) /\ parent[e] = p => e = c
      BY <1>1, <1>5, <2>0, Zenon DEF Open, Chain, Busy
    <3> QED
      BY <1>1, <2>0, <3>1, <3>2, Zenon DEF Open, Control, Posted
  <2> HIDE DEF p
  <2>2. /\ status' = [status EXCEPT ![c] = "suspended", ![p] = "running"]
        /\ cur' = p
        /\ within' = [within EXCEPT ![c] = "yield", ![p] = "lua"]
    BY <1>5, <2>0 DEF p
  <2>3. ~uthread[c] /\ c # entry /\ ~ref[c] /\ ~waited[c]
    BY <1>1, <1>5, <2>0, Zenon DEF IsThread, Open, Threads, Waiting
  <2>4. Typed'
    BY <1>1, <2>0, <1>3, <1>5, <2>1, <2>2, Zenon DEF Typed, Statuses, Places
  <2>5. Threads' /\ Ended'
    <3>1. Threads'
      BY <1>1, <2>0, <1>3, <2>1, <2>2, <2>3, CoAssumption, Zenon DEF Open, Threads, IsThread, Typed
    <3>2. Ended'
      BY <1>1, <2>0, <1>3, <2>1, <2>2, <2>3, CoAssumption, Zenon DEF Open, Ended, Alive, Typed
    <3> QED
      BY <3>1, <3>2
  <2>6. Waiting'
    BY <1>1, <2>0, <1>3, <2>1, <2>2, <2>3, CoAssumption, Zenon DEF Open, Waiting, Busy, Typed
  <2>7. Control' /\ Posted'
    <3>1. Control'
      <4>1. \A e \in Co \ {c, p} : status'[e] = status[e] /\ within'[e] = within[e]
        BY <1>1, <2>0, <2>1, <2>2, Zenon DEF Typed
      <4>2. /\ status'[c] = "suspended" /\ within'[c] = "yield"
            /\ status'[p] = "running" /\ within'[p] = "lua"
        BY <1>1, <2>0, <2>1, <2>2, Zenon DEF Typed
      <4>3. posted' = posted /\ pending' = pending /\ waited' = waited /\ cur' = p
        BY <1>3, <1>5, <2>2, Zenon
      <4>4. ASSUME NEW e \in Co, status'[e] = "running"
            PROVE  /\ cur' = e <=> within'[e] = "lua"
                   /\ within'[e] = "event" => pending'[e]
                   /\ within'[e] \in {"spawn", "yield"} => e \in Entries(posted')
                   /\ within'[e] \in {"lua", "event", "spawn", "yield", "wait"}
        BY <1>1, <2>0, <2>1, <4>1, <4>2, <4>3, <4>4, ZenonT(30) DEF Open, Control
      <4>5. \A e \in Co : pending'[e] => status'[e] = "running" /\ within'[e] = "event"
        BY <1>1, <2>0, <2>1, <4>1, <4>3, ZenonT(30) DEF Open, Control
      <4>6. \A e \in Co : within'[e] = "wait" =>
               e = entry /\ status'[e] = "running" /\ \E f \in Co : waited'[f]
        BY <1>1, <2>0, <2>1, <4>1, <4>2, <4>3 DEF Open, Control
      <4> QED
        BY <2>1, <4>2, <4>3, <4>4, <4>5, <4>6, Zenon DEF Control
    <3>2. Posted'
      BY <1>1, <2>0, <1>3, <1>5, <2>1, <2>2, <2>3, CoAssumption, ZenonT(30) DEF Open, Posted, Typed
    <3> QED
      BY <3>1, <3>2
  <2>8. Chain'
    <3>1. \A e \in Co : e # c => (Busy(e)' <=> Busy(e))
      BY <1>1, <2>0, <2>1, <2>2, Zenon DEF Busy, Typed
    <3>2. ~Busy(c)'
      BY <1>1, <2>0, <2>1, <2>2, Zenon DEF Busy, Typed
    <3>3. \A e \in Co : IsThread(e)' <=> IsThread(e)
      BY <1>3, Zenon DEF IsThread
    <3>4. \A e \in Co : status[e] = "normal" /\ e # p => status'[e] = "normal"
      BY <1>1, <2>0, <2>1, <2>2, Zenon DEF Typed
    <3> QED
      BY <1>1, <2>0, <1>3, <2>1, <3>1, <3>2, <3>3, <3>4, Zenon DEF Open, Chain
  <2>9. /\ Anchored' = Anchored /\ Running' = (Running \ {c}) \cup {p}
        /\ BusyThreads' = BusyThreads /\ c \in Running /\ p \notin Running
    BY <1>1, <2>0, <1>3, <1>5, <2>1, <2>2, <2>3, SMTT(20)
    DEF Anchored, Running, BusyThreads, IsThread, Busy, Typed, User
  <2>10. Counts'
    <3>1. Running \in SUBSET Co
      BY DEF Running
    <3>2. Cardinality(Running') = Cardinality(Running)
      BY <2>9, <3>1, Moved, Zenon
    <3> QED
      BY <1>1, <2>0, <1>3, <2>9, <3>2, Zenon DEF Open, Counts
  <2> QED
    BY <1>3, <2>4, <2>5, <2>6, <2>7, <2>8, <2>10, Zenon DEF IInv, Open, open
<1> QED
  BY <1>4, <1>5, Zenon DEF yield

\* A thread d other than the current one ends in the hands of the entry thread.
LEMMA DeleteIInv ==
    ASSUME IInv, open, cur # NULL, cur = entry, NEW d \in User,
           uthread[d], d # abort, status[d] \in {"running", "zombie"}, Delete({d}),
           UNCHANGED <<uthread, parent, waited, zombies, within, cur, posted, session>>
    PROVE  IInv'
<1>1. /\ Typed /\ Open
      /\ cur \in Co /\ status[cur] = "running" /\ within[cur] = "lua"
      /\ \A e \in Co : ~waited[e]
      /\ \A e \in Entries(posted) : e \in Co
      /\ \A e \in Entries(zombies[entry]) : e \in Co
  BY Current, Zenon
<1>2. d \in Co /\ d # entry /\ ref[d]
  BY <1>1, Zenon DEF User, Open, Threads, IsThread
<1>3. Cardinality({d}) = 1
  BY FS_Singleton, Zenon
<1>4. Typed'
  <2>1. status' \in [Co -> Statuses]
    BY <1>1 DEF Delete, Typed, Statuses
  <2>2. pending' \in [Co -> BOOLEAN] /\ ref' \in [Co -> BOOLEAN]
    BY <1>1, Zenon DEF Delete, Typed
  <2>3. uthreads' \in Int
    BY <1>1, <1>3 DEF Delete, Typed
  <2> QED
    BY <1>1, <2>1, <2>2, <2>3, Zenon DEF Typed
<1>5. Threads' /\ Ended'
  BY <1>1, <1>2, CoAssumption, Zenon DEF Open, Delete, Threads, Ended, IsThread, Alive, Typed
<1>6. Waiting' /\ Control' /\ Posted'
  BY <1>1, <1>2, CoAssumption, Zenon DEF Open, Delete, Waiting, Control, Posted, Typed
<1>7. Chain'
  BY <1>1, <1>2, CoAssumption, Zenon DEF Open, Delete, Chain, IsThread, Busy, Typed
<1>8. /\ Anchored' = Anchored \ {d} /\ d \in Anchored
      /\ Running' = Running \ {d} /\ BusyThreads' = BusyThreads \ {d}
      /\ d \in Running <=> d \in BusyThreads
      /\ entry \in BusyThreads'
  BY <1>1, <1>2, CoAssumption, Zenon
  DEF Delete, Anchored, Running, BusyThreads, IsThread, Busy, Typed, User
<1>9. Counts'
  <2>1. Anchored \in SUBSET Co /\ Running \in SUBSET Co /\ BusyThreads \in SUBSET Co
    BY Zenon DEF Anchored, Running, BusyThreads, User
  <2>2. Cardinality(Anchored') = Cardinality(Anchored) - 1
    BY <1>8, <2>1, Finite, Zenon
  <2>3. CASE d \in Running
    <3>1. Cardinality(Running') = Cardinality(BusyThreads')
      BY <1>1, <1>8, <2>1, <2>3, Finite, Zenon DEF Open, Counts
    <3> QED
      BY <1>1, <1>3, <1>8, <2>2, <3>1, Zenon DEF Open, Counts, Delete
  <2>4. CASE d \notin Running
    <3>1. Running' = Running /\ BusyThreads' = BusyThreads
      BY <1>8, <2>4, Zenon
    <3> QED
      BY <1>1, <1>3, <1>8, <2>2, <3>1, Zenon DEF Open, Counts, Delete
  <2> QED
    BY <2>3, <2>4, Zenon
<1> QED
  BY <1>4, <1>5, <1>6, <1>7, <1>9, Zenon DEF IInv, Open, open

\* ngx.thread.kill deletes the thread.
LEMMA KillIInv ==
    ASSUME Plain, IInv, open, cur # NULL, NEW d \in User, kill(cur, d)
    PROVE  IInv'
<1>1. Typed /\ Open /\ d \in Co
  BY Current, Zenon DEF User
<1>2. uthread[d] /\ d # abort /\ cur = entry /\ status[d] \notin {"dead", "normal"}
  BY <1>1, Zenon DEF kill, Plain, Open, Threads
<1>3. status[d] \in {"running", "zombie"}
  BY <1>1, <1>2, Zenon DEF Open, Threads, Typed, Statuses
<1> QED
  BY <1>2, <1>3, DeleteIInv, Zenon DEF kill

\* ngx.thread.wait on one thread: it is waited for, or has ended and is
\* deleted, or was dealt with before.
LEMMA WaitOne ==
    ASSUME NEW c, NEW d \in Co, wait(c, <<d>>), Typed
    PROVE  /\ uthread[d] /\ parent[d] = c /\ d # abort
           /\ UNCHANGED <<uthread, parent, zombies, posted, session>>
           /\ \/ /\ Alive(d)
                 /\ waited' = [waited EXCEPT ![d] = TRUE]
                 /\ Suspend(c, "wait") /\ UNCHANGED <<status, pending, ref, uthreads>>
              \/ /\ status[d] = "zombie"
                 /\ Delete({d}) /\ UNCHANGED <<waited, cur, within>>
              \/ /\ status[d] = "dead"
                 /\ Delete({}) /\ UNCHANGED <<waited, cur, within>>
<1> DEFINE args == <<d>>
           Had(st) == {i \in DOMAIN args : status[args[i]] = st}
           stop == Had("zombie") \cup (Had("dead") \cap {Len(args)})
           first == IF stop = {} THEN Len(args) + 1
                    ELSE CHOOSE i \in stop : \A j \in stop : i <= j
           flagged == {args[i] : i \in {j \in 1 .. first - 1 : Alive(args[j])}}
<1>1. DOMAIN args = {1} /\ Len(args) = 1 /\ args[1] = d
  OBVIOUS
<1>2. /\ \A i \in DOMAIN args : uthread[args[i]] /\ parent[args[i]] = c /\ args[i] # abort
      /\ waited' = [e \in Co |-> waited[e] \/ e \in flagged]
      /\ IF stop = {}
           THEN Suspend(c, "wait") /\ UNCHANGED <<status, pending, ref, uthreads>>
           ELSE /\ Delete({args[first]} \cap {e \in Co : status[e] = "zombie"})
                /\ UNCHANGED <<cur, within>>
      /\ UNCHANGED <<uthread, parent, zombies, posted, session>>
  BY Zenon DEF wait
<1> HIDE DEF args
<1>3. stop = IF Alive(d) THEN {} ELSE {1}
  BY <1>1, Zenon DEF Alive
<1>4. first = IF Alive(d) THEN 2 ELSE 1
  <2>1. CASE Alive(d)
    BY <1>1, <1>3, <2>1
  <2>2. CASE ~Alive(d)
    <3>1. stop = {1}
      BY <1>3, <2>2
    <3> HIDE DEF stop
    <3>2. (CHOOSE i \in stop : \A j \in stop : i <= j) = 1
      BY <3>1
    <3> QED
      BY <2>2, <3>1, <3>2, Zenon
  <2> QED
    BY <2>1, <2>2, Zenon
<1> HIDE DEF stop, first
<1>5. flagged = IF Alive(d) THEN {d} ELSE {}
  <2>1. CASE Alive(d)
    <3>1. {j \in 1 .. first - 1 : Alive(args[j])} = {1}
      BY <1>1, <1>4, <2>1
    <3> QED
      BY <1>1, <2>1, <3>1, Zenon
  <2>2. CASE ~Alive(d)
    <3>1. {j \in 1 .. first - 1 : Alive(args[j])} = {}
      BY <1>1, <1>4, <2>2
    <3> QED
      BY <2>2, <3>1, Zenon
  <2> QED
    BY <2>1, <2>2, Zenon
<1> HIDE DEF flagged
<1>6. uthread[d] /\ parent[d] = c /\ d # abort
  BY <1>1, <1>2, Zenon
<1>7. CASE Alive(d)
  <2>1. waited' = [waited EXCEPT ![d] = TRUE]
    <3>1. waited \in [Co -> BOOLEAN] /\ flagged = {d}
      BY <1>5, <1>7, Zenon DEF Typed
    <3> QED
      BY <1>2, <3>1, Zenon
  <2> QED
    BY <1>2, <1>3, <1>6, <1>7, <2>1, Zenon
<1>8. CASE ~Alive(d)
  <2>1. waited' = waited
    <3>1. waited \in [Co -> BOOLEAN] /\ flagged = {}
      BY <1>5, <1>8, Zenon DEF Typed
    <3> QED
      BY <1>2, <3>1, Zenon
  <2>2. Delete({d} \cap {e \in Co : status[e] = "zombie"}) /\ UNCHANGED <<cur, within>>
    BY <1>1, <1>2, <1>3, <1>4, <1>8, Zenon
  <2>3. CASE status[d] = "zombie"
    <3>1. {d} \cap {e \in Co : status[e] = "zombie"} = {d}
      BY <2>3, Zenon
    <3> QED
      BY <1>2, <1>6, <2>1, <2>2, <2>3, <3>1, Zenon
  <2>4. CASE status[d] = "dead"
    <3>1. {d} \cap {e \in Co : status[e] = "zombie"} = {}
      BY <2>4
    <3> QED
      BY <1>2, <1>6, <2>1, <2>2, <2>4, <3>1, Zenon
  <2> QED
    BY <1>8, <2>3, <2>4 DEF Alive
<1> QED
  BY <1>7, <1>8, Zenon

\* ngx.thread.wait.
LEMMA WaitIInv ==
    ASSUME Plain, IInv, open, cur # NULL, NEW args \in WaitArgs, wait(cur, args)
    PROVE  IInv'
<1>1. /\ Typed /\ Open
      /\ cur \in Co /\ status[cur] = "running" /\ within[cur] = "lua"
      /\ ~pending[cur] /\ cur \notin Entries(posted)
      /\ cur = entry => \A e \in Co : ~waited[e]
      /\ \A e \in Entries(posted) : e \in Co
  BY Current
<1>2. PICK d \in User : args = <<d>>
  BY Zenon DEF WaitArgs, Plain
<1>3. d \in Co /\ d # entry
  BY <1>2 DEF User
<1>4. wait(cur, <<d>>)
  BY <1>2, SMTT(20)
<1>5. /\ uthread[d] /\ parent[d] = cur /\ d # abort
      /\ UNCHANGED <<uthread, parent, zombies, posted, session>>
      /\ \/ /\ Alive(d)
            /\ waited' = [waited EXCEPT ![d] = TRUE]
            /\ Suspend(cur, "wait") /\ UNCHANGED <<status, pending, ref, uthreads>>
         \/ /\ status[d] = "zombie"
            /\ Delete({d}) /\ UNCHANGED <<waited, cur, within>>
         \/ /\ status[d] = "dead"
            /\ Delete({}) /\ UNCHANGED <<waited, cur, within>>
  BY <1>1, <1>3, <1>4, WaitOne, Zenon
<1>6. cur = entry
  BY <1>1, <1>3, <1>5, Zenon DEF Open, Threads
<1>7. CASE /\ Alive(d)
           /\ waited' = [waited EXCEPT ![d] = TRUE]
           /\ Suspend(cur, "wait") /\ UNCHANGED <<status, pending, ref, uthreads>>
  <2>1. Busy(d)
    BY <1>1, <1>3, <1>5, <1>7, Zenon DEF Open, Threads, Typed, Statuses, Alive, Busy
  <2>2. Typed'
    BY <1>1, <1>5, <1>7, ZenonT(30) DEF Suspend, Typed, Places
  <2>3. Threads' /\ Ended' /\ Chain' /\ Counts'
    BY <1>1, <1>5, <1>7, StatusKept, Zenon
  <2>4. \A e \in Co : waited'[e] <=> e = d
    BY <1>1, <1>3, <1>6, <1>7, Zenon DEF Typed
  <2>5. within'[entry] = "wait" /\ status'[entry] = "running" /\ cur' = NULL
    BY <1>1, <1>6, <1>7, Zenon DEF Suspend, Typed
  <2>6. Waiting'
    BY <1>3, <1>5, <1>7, <2>1, <2>4, <2>5, Zenon DEF Waiting, Busy
  <2>7. Control' /\ Posted'
    BY <1>1, <1>3, <1>5, <1>6, <1>7, <2>4, CoAssumption DEF Open, Suspend, Control, Posted, Typed
  <2> QED
    BY <1>5, <2>2, <2>3, <2>6, <2>7, Zenon DEF IInv, Open, open
<1>8. CASE status[d] = "zombie" /\ Delete({d}) /\ UNCHANGED <<waited, cur, within>>
  BY <1>2, <1>5, <1>6, <1>8, DeleteIInv, ZenonT(30)
<1>9. CASE status[d] = "dead" /\ Delete({}) /\ UNCHANGED <<waited, cur, within>>
  <2>1. status' = status /\ pending' = pending /\ ref' = ref /\ uthreads' = uthreads
    BY <1>1, <1>9, FS_EmptySet DEF Delete, Typed
  <2> QED
    BY <1>5, <1>9, <2>1, StutterIInv, Zenon DEF vars, coVars
<1> QED
  BY <1>5, <1>7, <1>8, <1>9, Zenon

\* session_cleanup: nothing is left to count, and only coroutines that are no
\* threads keep their operations.
LEMMA FinalizeIInv ==
    ASSUME IInv, open, cur # NULL, NEW why \in {"exit", "error", "done"}, Finalize(why)
    PROVE  IInv'
<1>1. Typed /\ Open /\ cur \in Co
  BY Current, Zenon
<1>2. uthreads' = 0
  <2>1. uthreads' = uthreads - Cardinality(Anchored)
    BY Zenon DEF Finalize, Anchored
  <2> QED
    BY <1>1, <2>1 DEF Open, Counts, Typed
<1>3. Typed'
  <2>1. status' \in [Co -> Statuses]
    BY <1>1 DEF Finalize, Typed, Statuses
  <2>2. pending' \in [Co -> BOOLEAN] /\ ref' \in [Co -> BOOLEAN]
    BY <1>1, Zenon DEF Finalize, Typed
  <2>3. /\ UNCHANGED <<uthread, parent, waited, zombies, within, posted>>
        /\ session' = why /\ cur' = NULL
    BY Zenon DEF Finalize
  <2> QED
    BY <1>1, <1>2, <2>1, <2>2, <2>3 DEF Typed
<1>4. \A c \in Co : ~ref'[c]
  BY Zenon DEF Finalize
<1>5. ASSUME NEW c \in Co, pending'[c]
      PROVE  Live(c)' /\ ~IsThread(c)'
  <2>1. ~ref[c] /\ pending[c] /\ status'[c] = status[c]
    BY <1>5 DEF Finalize
  <2>2. status[c] = "running" /\ ~IsThread(c)
    BY <1>1, <2>1, Zenon DEF Open, Control, Threads
  <2> QED
    BY <2>1, <2>2, Zenon DEF Finalize, Live, Alive, IsThread
<1> QED
  BY <1>2, <1>3, <1>4, <1>5, Zenon DEF IInv, Finalized, Finalize, open

\* What the end of the thread c does to the status, the operation and the
\* anchor of every coroutine: the children in G are given up, c becomes st,
\* and the threads in S lose their anchors.
EndedAs(c, G, st, S) ==
    /\ status' = [e \in Co |-> IF e = c THEN st ELSE IF e \in G THEN "dead" ELSE status[e]]
    /\ pending' = [e \in Co |-> pending[e] /\ e \notin G \cup {c}]
    /\ ref' = [e \in Co |-> ref[e] /\ e \notin S]
    /\ uthreads' = uthreads - Cardinality(S \ {entry})
    /\ UNCHANGED <<uthread, parent, posted, session>>

\* The end of the coroutine c: it returns to p.
Returns(c, p) ==
    /\ status' = [status EXCEPT ![c] = "dead", ![p] = "running"]
    /\ Run(p)
    /\ UNCHANGED <<uthread, parent, ref, waited, pending, zombies, uthreads, posted, session>>

\* The threads the entry thread gives up when it returns have all ended.
LEMMA GivenUp ==
    ASSUME Plain, IInv, open, cur = entry, finish(entry, TRUE)
    PROVE  \A d \in Entries(zombies[entry]) : ref[d] => status[d] = "zombie"
<1>1. Typed /\ Open /\ \A d \in Entries(zombies[entry]) : d \in Co
  BY Current, CoAssumption, Zenon
<1>2. "reuse" \in Uses => \A d \in Co : parent[d] = entry /\ d # abort => status[d] = "dead"
  BY DEF finish, Plain
<1> QED
  BY <1>1, <1>2, Zenon DEF Open, Ended, Threads, UsedAgain

\* The function of the current thread ends the session, or the thread ends.
LEMMA FinishCases ==
    ASSUME Plain, IInv, open, NEW c \in Co, c = cur, NEW ok \in BOOLEAN, finish(c, ok)
    PROVE  \/ \E why \in {"error", "done"} : Finalize(why)
           \/ /\ c = entry
              /\ \E G \in SUBSET Co :
                    /\ G = {d \in Entries(zombies[entry]) : ref[d]}
                    /\ \A d \in G : status[d] = "zombie"
                    /\ uthreads - Cardinality(G) # 0
                    /\ EndedAs(c, G, "dead", G \cup {c})
              /\ zombies' = [zombies EXCEPT ![c] = <<>>]
              /\ Suspend(c, "end") /\ UNCHANGED waited
           \/ /\ uthread[c] /\ ~Alive(entry) /\ uthreads # 1
              /\ EndedAs(c, {}, "dead", {c}) /\ Suspend(c, "end") /\ UNCHANGED <<zombies, waited>>
           \/ /\ uthread[c] /\ Alive(entry) /\ ~waited[c]
              /\ EndedAs(c, {}, "zombie", {}) /\ Suspend(c, "end")
              /\ zombies' = [zombies EXCEPT ![entry] = Append(@, c)]
              /\ UNCHANGED waited
           \/ /\ uthread[c] /\ waited[c]
              /\ EndedAs(c, {}, "dead", {c}) /\ Run(entry)
              /\ waited' = [waited EXCEPT ![c] = FALSE] /\ UNCHANGED zombies
           \/ ~IsThread(c) /\ Returns(c, parent[c])
<1> DEFINE p == parent[c]
           given == IF ok THEN {d \in Co : (\E i \in DOMAIN zombies[c] : zombies[c][i] = d) /\ ref[d]}
                    ELSE {}
           gone == given \cup {c}
           last == LastThread(c, ok, uthreads - Cardinality(given))
           Become(d, st) ==
               status' = [e \in Co |-> CASE e = d -> st [] e # d /\ e \in gone -> "dead"
                                         [] OTHER -> status[e]]
           Drop(S) ==
               /\ pending' = [d \in Co |-> pending[d] /\ d \notin gone]
               /\ ref' = [d \in Co |-> ref[d] /\ d \notin S]
               /\ uthreads' = uthreads - Cardinality(S \ {entry})
           kept == IF ok THEN <<>> ELSE zombies[c]
<1>1. \/ /\ last
         /\ Finalize(IF ok \/ uthread[c] THEN "done" ELSE "error")
      \/ /\ ~last /\ (c = entry \/ (uthread[c] /\ ~Alive(p)))
         /\ Become(c, "dead") /\ Drop(gone) /\ Suspend(c, "end")
         /\ zombies' = [zombies EXCEPT ![c] = kept]
         /\ UNCHANGED <<uthread, parent, waited, posted, session>>
      \/ /\ uthread[c] /\ Alive(p) /\ ~waited[c]
         /\ Become(c, "zombie") /\ Drop(given) /\ Suspend(c, "end")
         /\ zombies' = [zombies EXCEPT ![c] = kept, ![p] = Append(@, c)]
         /\ UNCHANGED <<uthread, parent, waited, posted, session>>
      \/ /\ IF uthread[c] THEN Alive(p) /\ waited[c] ELSE c # entry
         /\ Become(p, "running") /\ Run(p)
         /\ Drop(IF uthread[c] THEN gone ELSE given)
         /\ waited' = [waited EXCEPT ![c] = FALSE]
         /\ zombies' = [zombies EXCEPT ![c] = kept]
         /\ UNCHANGED <<uthread, parent, posted, session>>
  BY Zenon DEF finish
<1>2. Typed /\ Open /\ status[c] = "running" /\ ~pending[c]
  BY Current, CoAssumption, Zenon
<1>3. uthread[c] => p = entry /\ c # entry
  BY <1>2, Zenon DEF Open, Threads
<1>4. c # entry => zombies[c] = <<>> /\ given = {} /\ kept = <<>> /\ gone = {c}
  <2> SUFFICES ASSUME c # entry PROVE zombies[c] = <<>> /\ given = {} /\ kept = <<>>
    BY Zenon
  <2>1. zombies[c] = <<>>
    BY <1>2, Zenon DEF Open, Ended, User
  <2> QED
    BY <2>1
<1>5. c # entry => [zombies EXCEPT ![c] = kept] = zombies
  BY <1>2, <1>4, Zenon DEF Typed
<1>6. given \in SUBSET Co /\ (ok => given = {d \in Entries(zombies[c]) : ref[d]})
  <2>1. zombies[c] \in Seq(Co)
    BY <1>2, Zenon DEF Typed
  <2>2. \A i \in DOMAIN zombies[c] : zombies[c][i] \in Co
    BY <2>1
  <2> QED
    BY <2>2, ZenonT(30) DEF Entries
<1> HIDE DEF given, kept, gone, last
<1>7. ASSUME NEW st, NEW S, Become(c, st), Drop(S),
             UNCHANGED <<uthread, parent, posted, session>>
      PROVE  EndedAs(c, given, st, S)
  <2>1. status' = [e \in Co |-> IF e = c THEN st ELSE IF e \in given THEN "dead" ELSE status[e]]
    BY <1>7 DEF gone
  <2> QED
    BY <1>7, <2>1, Zenon DEF EndedAs, gone
<1> HIDE DEF Become, Drop
<1>8. CASE last /\ Finalize(IF ok \/ uthread[c] THEN "done" ELSE "error")
  BY <1>8, Zenon
<1>9. CASE /\ ~last /\ (c = entry \/ (uthread[c] /\ ~Alive(p)))
           /\ Become(c, "dead") /\ Drop(gone) /\ Suspend(c, "end")
           /\ zombies' = [zombies EXCEPT ![c] = kept]
           /\ UNCHANGED <<uthread, parent, waited, posted, session>>
  <2>1. EndedAs(c, given, "dead", gone)
    BY <1>7, <1>9, Zenon
  <2>2. CASE c = entry
    <3>1. ok /\ uthreads - Cardinality(given) # 0
      BY <1>9, <2>2, Zenon DEF last, LastThread
    <3>2. given = {d \in Entries(zombies[entry]) : ref[d]} /\ kept = <<>>
      BY <1>6, <2>2, <3>1, Zenon DEF kept
    <3>3. \A d \in given : status[d] = "zombie"
      BY <2>2, <3>1, <3>2, GivenUp, Zenon
    <3> QED
      BY <1>6, <1>9, <2>1, <2>2, <3>1, <3>2, <3>3, Zenon DEF gone
  <2>3. CASE uthread[c] /\ ~Alive(p)
    <3>1. c # entry /\ p = entry /\ ~ref[entry]
      BY <1>2, <1>3, <2>3, CoAssumption, Zenon DEF Open, Threads, Alive
    <3>2. uthreads - Cardinality(given) # 1
      BY <1>9, <2>3, <3>1, Zenon DEF last, LastThread
    <3>3. uthreads # 1
      <4>1. Cardinality(given) = 0
        BY <1>4, <3>1, FS_EmptySet, Zenon
      <4> QED
        BY <1>2, <3>2, <4>1 DEF Typed
    <3> QED
      BY <1>4, <1>5, <1>9, <2>1, <2>3, <3>1, <3>3, Zenon
  <2> QED
    BY <1>9, <2>2, <2>3, Zenon
<1>10. CASE /\ uthread[c] /\ Alive(p) /\ ~waited[c]
            /\ Become(c, "zombie") /\ Drop(given) /\ Suspend(c, "end")
            /\ zombies' = [zombies EXCEPT ![c] = kept, ![p] = Append(@, c)]
            /\ UNCHANGED <<uthread, parent, waited, posted, session>>
  <2>1. EndedAs(c, {}, "zombie", {})
    BY <1>3, <1>4, <1>7, <1>10, Zenon
  <2>2. zombies' = [zombies EXCEPT ![entry] = Append(@, c)]
    <3>1. kept = zombies[c] /\ p = entry /\ c # entry
      BY <1>3, <1>4, <1>10, Zenon
    <3> QED
      BY <1>2, <1>10, <3>1, Zenon DEF Typed
  <2> QED
    BY <1>3, <1>10, <2>1, <2>2, Zenon
<1>11. CASE /\ IF uthread[c] THEN Alive(p) /\ waited[c] ELSE c # entry
            /\ Become(p, "running") /\ Run(p)
            /\ Drop(IF uthread[c] THEN gone ELSE given)
            /\ waited' = [waited EXCEPT ![c] = FALSE]
            /\ zombies' = [zombies EXCEPT ![c] = kept]
            /\ UNCHANGED <<uthread, parent, posted, session>>
  <2>1. c # entry
    BY <1>3, <1>11, Zenon
  <2>2. zombies' = zombies /\ given = {} /\ gone = {c}
    BY <1>4, <1>5, <1>11, <2>1, Zenon
  <2>3. CASE uthread[c]
    <3>1. p = entry /\ status[entry] = "running" /\ waited[c]
      BY <1>2, <1>3, <1>11, <2>3, Zenon DEF Open, Waiting
    <3>2. Become(c, "dead")
      BY <1>2, <1>11, <2>1, <2>2, <3>1, Zenon DEF Become, Typed
    <3>3. EndedAs(c, {}, "dead", {c})
      BY <1>7, <1>11, <2>2, <2>3, <3>2, Zenon
    <3> QED
      BY <1>11, <2>2, <2>3, <3>1, <3>3, Zenon
  <2>4. CASE ~uthread[c]
    <3>1. ~IsThread(c) /\ ~ref[c] /\ ~waited[c] /\ p \in Co /\ status[p] = "normal"
      BY <1>2, <2>1, <2>4, Zenon DEF IsThread, Open, Threads, Waiting, Chain, Busy
    <3>2. status' = [status EXCEPT ![c] = "dead", ![p] = "running"]
      BY <1>2, <1>11, <2>2, <3>1, Zenon DEF Become, Typed
    <3>3. pending' = pending
      <4>1. pending' = [d \in Co |-> pending[d] /\ d \notin {c}]
        BY <1>11, <2>2, Zenon DEF Drop
      <4>2. pending \in [Co -> BOOLEAN]
        BY <1>2, Zenon DEF Typed
      <4> QED
        BY <1>2, <4>1, <4>2, Zenon
    <3>4. ref' = ref
      <4>1. ref' = [d \in Co |-> ref[d] /\ d \notin {}]
        BY <1>11, <2>2, <2>4, Zenon DEF Drop
      <4>2. ref \in [Co -> BOOLEAN]
        BY <1>2 DEF Typed
      <4> QED
        BY <4>1, <4>2, Zenon
    <3>5. waited' = waited
      BY <1>2, <1>11, <3>1, Zenon DEF Typed
    <3>6. uthreads' = uthreads
      <4>1. uthreads' = uthreads - Cardinality({} \ {entry})
        BY <1>11, <2>2, <2>4, Zenon DEF Drop
      <4>2. {} \ {entry} = {} /\ Cardinality({}) = 0
        BY FS_EmptySet
      <4> QED
        BY <1>2, <4>1, <4>2 DEF Typed
    <3> QED
      BY <1>11, <2>2, <3>1, <3>2, <3>3, <3>4, <3>5, <3>6, Zenon DEF Returns
  <2> QED
    BY <2>3, <2>4, Zenon
<1> QED
  BY <1>1, <1>8, <1>9, <1>10, <1>11, Zenon

\* The current coroutine c, as a constant of the proofs below.
AtCurrent(c) ==
    /\ c = cur /\ Typed /\ Open /\ open
    /\ status[c] = "running" /\ within[c] = "lua"
    /\ ~pending[c] /\ c \notin Entries(posted)
    /\ c = entry => \A d \in Co : ~waited[d]
    /\ \A e \in Entries(posted) : e \in Co
    /\ \A e \in Entries(zombies[entry]) : e \in Co

\* A thread of which nobody waits for a coroutine ends, with the children of
\* the entry thread that ended before it: the parts of the invariant that do
\* not depend on what else happens.
LEMMA EndedAsKeeps ==
    ASSUME NEW c \in Co, AtCurrent(c), IsThread(c), NEW G \in SUBSET Co,
           \A d \in G : uthread[d] /\ ref[d] /\ status[d] = "zombie",
           NEW st \in {"zombie", "dead"}, NEW S \in SUBSET Co, EndedAs(c, G, st, S),
           S = IF st = "dead" THEN G \cup {c} ELSE G,
           st = "zombie" => c # entry
    PROVE  /\ Threads' /\ Chain'
           /\ status' \in [Co -> Statuses] /\ pending' \in [Co -> BOOLEAN]
           /\ ref' \in [Co -> BOOLEAN] /\ uthreads' \in Int
           /\ uthreads' = Cardinality(Anchored')
           /\ Cardinality(Running') = Cardinality(BusyThreads')
           /\ Running' = Running \ {c} /\ BusyThreads' = BusyThreads \ {c}
<1>1. /\ c = cur /\ Typed /\ Open /\ status[c] = "running"
      /\ ref[c] /\ ~(c = abort /\ status[c] = "suspended")
  BY Zenon DEF AtCurrent, Open, Threads
<1>2. /\ \A e \in Co : status'[e] = IF e = c THEN st ELSE IF e \in G THEN "dead" ELSE status[e]
      /\ \A e \in Co : ref'[e] <=> ref[e] /\ e \notin S
      /\ UNCHANGED <<uthread, parent, posted, session>>
  BY Zenon DEF EndedAs
<1>3. \A d \in G : d # c /\ d # entry
  BY <1>1, Zenon DEF Open, Threads
<1>4. status' \in [Co -> Statuses]
  BY <1>1, Zenon DEF EndedAs, Typed, Statuses
<1>5. pending' \in [Co -> BOOLEAN] /\ ref' \in [Co -> BOOLEAN]
  BY Zenon DEF EndedAs
<1>6. uthreads' \in Int
  <2>1. S \ {entry} \in SUBSET Co
    OBVIOUS
  <2>2. Cardinality(S \ {entry}) \in Nat
    BY <2>1, Finite, Zenon
  <2> QED
    BY <1>1, <2>2 DEF EndedAs, Typed
<1>7. Threads'
  <2>1. ~uthread'[entry] /\ uthread'[abort]
    BY <1>1, <1>2, Zenon DEF Open, Threads
  <2>2. status'[entry] \in {"running", "normal", "dead"}
    BY <1>1, <1>2, <1>3, CoAssumption, Zenon DEF Open, Threads
  <2>3. \A e \in Co : uthread'[e] => parent'[e] = entry /\ status'[e] # "none"
    BY <1>1, <1>2, Zenon DEF Open, Threads
  <2>4. \A e \in Co : uthread'[e] /\ status'[e] = "suspended" => e = abort
    BY <1>1, <1>2, Zenon DEF Open, Threads
  <2>5. \A e \in Co : ref'[e] <=> (uthread'[e] \/ e = entry) /\ status'[e] \notin {"none", "dead"}
    BY <1>1, <1>2, <1>3, Zenon DEF Open, Threads, IsThread
  <2> QED
    BY <2>1, <2>2, <2>3, <2>4, <2>5, Zenon DEF Threads, IsThread
<1>8. Chain'
  <2>1. \A e \in Co : ~IsThread(e)' <=> ~IsThread(e)
    BY <1>2, Zenon DEF IsThread
  <2>2. \A e \in Co : ~IsThread(e) => e # c /\ e \notin G
    BY Zenon DEF IsThread
  <2>3. \A e \in Co : ~IsThread(e) => (Busy(e)' <=> Busy(e))
    BY <1>2, <2>2, Zenon DEF Busy
  <2>4. \A e \in Co : status[e] = "normal" => status'[e] = "normal"
    BY <1>1, <1>2, Zenon
  <2> QED
    BY <1>1, <1>2, <2>1, <2>3, <2>4, Zenon DEF Open, Chain
<1>9. Running' = Running \ {c} /\ BusyThreads' = BusyThreads \ {c}
  BY <1>1, <1>2, Zenon DEF Running, BusyThreads, Busy, IsThread
<1>10. Cardinality(Running') = Cardinality(BusyThreads')
  <2>1. c \in Running /\ c \in BusyThreads /\ Running \in SUBSET Co /\ BusyThreads \in SUBSET Co
    BY <1>1, Zenon DEF Running, BusyThreads, Busy
  <2> QED
    BY <1>1, <1>9, <2>1, Finite DEF Open, Counts
<1>11. uthreads' = Cardinality(Anchored')
  <2>1. Anchored' = Anchored \ (S \ {entry})
    BY <1>1, <1>2, <1>3, Zenon DEF Anchored, User
  <2>2. Anchored \in SUBSET Co /\ S \ {entry} \in SUBSET Anchored
    BY <1>1, <1>3, Zenon DEF Anchored, User
  <2>3. Cardinality(Anchored') = Cardinality(Anchored) - Cardinality(S \ {entry})
    BY <2>1, <2>2, Removed, Zenon
  <2> QED
    BY <1>1, <2>3, Zenon DEF EndedAs, Open, Counts
<1> QED
  BY <1>4, <1>5, <1>6, <1>7, <1>8, <1>9, <1>10, <1>11, Zenon

\* A thread that is suspended for good: who is waited for, posted or resumed
\* by an event is somebody else.
LEMMA SuspendKeeps ==
    ASSUME NEW c \in Co, AtCurrent(c), Suspend(c, "end"), NEW G \in SUBSET Co,
           \A d \in G : uthread[d] /\ status[d] = "zombie",
           NEW st \in {"zombie", "dead"}, NEW S, EndedAs(c, G, st, S),
           UNCHANGED waited, ~waited[c]
    PROVE  Waiting' /\ Control' /\ Posted'
<1>1. c = cur /\ Typed /\ Open /\ status[c] = "running" /\ within[c] = "lua"
  BY Zenon DEF AtCurrent
<1>2. /\ status'[c] = st /\ within'[c] = "end"
      /\ \A e \in Co \ {c} : status'[e] = (IF e \in G THEN "dead" ELSE status[e])
      /\ \A e \in Co \ {c} : within'[e] = within[e]
      /\ cur' = NULL /\ UNCHANGED <<uthread, posted, waited>>
  BY <1>1, Zenon DEF EndedAs, Suspend, Typed
<1>3. \A e \in Co : pending'[e] <=> pending[e] /\ e \notin G \cup {c}
  BY Zenon DEF EndedAs
<1>4. \A e \in Co : status[e] = "running" => e \notin G
  BY Zenon
<1>5. Waiting'
  <2>1. \A d \in Co : waited[d] => c # entry
    BY <1>1, Zenon DEF AtCurrent
  <2>2. \A d \in Co : waited[d] => d # c /\ d \notin G
    BY <1>1, Zenon DEF Open, Waiting, Busy
  <2> QED
    BY <1>1, <1>2, <1>4, <2>1, <2>2, CoAssumption DEF Open, Waiting, Busy
<1>6. Control'
  <2>1. ASSUME NEW e \in Co, status'[e] = "running"
        PROVE  /\ cur' = e <=> within'[e] = "lua"
               /\ within'[e] = "event" => pending'[e]
               /\ within'[e] \in {"spawn", "yield"} => e \in Entries(posted')
               /\ within'[e] \in {"lua", "event", "spawn", "yield", "wait"}
    <3>1. e # c /\ e \notin G /\ status[e] = "running" /\ within'[e] = within[e] /\ e # NULL
      BY <1>2, <2>1, CoAssumption, ZenonT(30)
    <3> QED
      BY <1>1, <1>2, <1>3, <3>1, Zenon DEF Open, Control
  <2>2. \A e \in Co : pending'[e] => status'[e] = "running" /\ within'[e] = "event"
    BY <1>1, <1>2, <1>3 DEF Open, Control
  <2>3. \A e \in Co : within'[e] = "wait" =>
           e = entry /\ status'[e] = "running" /\ \E f \in Co : waited'[f]
    BY <1>1, <1>2, <1>4, ZenonT(30) DEF Open, Control
  <2> QED
    BY <1>2, <2>1, <2>2, <2>3, Zenon DEF Control
<1>7. Posted'
  <2>1. \A e \in Entries(posted) : e \in Co /\ e # c
    BY Zenon DEF AtCurrent
  <2> QED
    BY <1>1, <1>2, <2>1, Zenon DEF Open, Posted
<1> QED
  BY <1>5, <1>6, <1>7, Zenon

\* The entry thread ends before some of its children.
LEMMA EntryEnds ==
    ASSUME AtCurrent(entry), NEW G \in SUBSET Co,
           G = {d \in Entries(zombies[entry]) : ref[d]},
           \A d \in G : status[d] = "zombie",
           uthreads - Cardinality(G) # 0,
           EndedAs(entry, G, "dead", G \cup {entry}),
           zombies' = [zombies EXCEPT ![entry] = <<>>],
           Suspend(entry, "end"), UNCHANGED waited
    PROVE  IInv'
<1>1. entry = cur /\ Typed /\ Open /\ open /\ entry \in Co /\ IsThread(entry)
  BY CoAssumption, Zenon DEF AtCurrent, IsThread
<1>2. \A d \in G : uthread[d] /\ ref[d] /\ status[d] = "zombie"
  BY <1>1, Zenon DEF Open, Ended, Threads
<1>3. ~waited[entry]
  BY <1>1, Zenon DEF AtCurrent
<1>4. Waiting' /\ Control' /\ Posted'
  BY <1>1, <1>2, <1>3, SuspendKeeps, Zenon
<1>5. G \cup {entry} \in SUBSET Co
  BY <1>1
<1>6. /\ Threads' /\ Chain'
      /\ status' \in [Co -> Statuses] /\ pending' \in [Co -> BOOLEAN]
      /\ ref' \in [Co -> BOOLEAN] /\ uthreads' \in Int
      /\ uthreads' = Cardinality(Anchored')
      /\ Cardinality(Running') = Cardinality(BusyThreads')
  BY <1>1, <1>2, <1>5, EndedAsKeeps, Zenon
<1>7. Typed'
  <2>1. zombies' \in [Co -> Seq(Co)]
    <3>1. <<>> \in Seq(Co)
      OBVIOUS
    <3> QED
      BY <1>1, <3>1, Zenon DEF Typed
  <2>2. within' \in [Co -> Places] /\ cur' = NULL
    BY <1>1 DEF Suspend, Typed, Places
  <2>3. UNCHANGED <<uthread, parent, posted, session, waited>>
    BY Zenon DEF EndedAs
  <2> QED
    BY <1>1, <1>6, <2>1, <2>2, <2>3, Zenon DEF Typed
<1>8. Ended'
  <2>1. zombies'[entry] = <<>> /\ \A e \in User : zombies'[e] = zombies[e]
    BY <1>1, Zenon DEF Typed, User
  <2>2. Entries(zombies'[entry]) = {}
    BY <2>1, SMTT(20) DEF Entries
  <2>3. \A e \in Co : status'[e] # "zombie"
    <3>1. \A e \in Co : status[e] = "zombie" => e \in G
      BY <1>1, Zenon DEF Open, Ended, Threads, IsThread
    <3> QED
      BY <3>1 DEF EndedAs
  <2> QED
    BY <1>1, <2>1, <2>2, <2>3, Zenon DEF Open, Ended
<1>9. BusyThreads' # {}
  <2>1. Anchored' # {}
    <3>1. G = (G \cup {entry}) \ {entry}
      BY <1>1, <1>2, Zenon DEF Open, Threads
    <3>2. uthreads' # 0
      BY <3>1, Zenon DEF EndedAs
    <3> QED
      BY <1>6, <3>2, FS_EmptySet, Zenon
  <2>2. PICK e \in Co : e \in Anchored'
    BY <2>1, Zenon DEF Anchored, User
  <2>3. ref'[e] /\ ~(e = abort /\ status'[e] = "suspended")
    BY <2>2, Zenon DEF Anchored
  <2>4. IsThread(e)' /\ status'[e] \notin {"none", "dead"} /\ (status'[e] = "suspended" => e = abort)
    BY <1>1, <1>6, <2>3, Zenon DEF Threads, IsThread
  <2>5. status'[e] # "zombie"
    <3>1. \A f \in Co : status[f] = "zombie" => f \in G
      BY <1>1, Zenon DEF Open, Ended, Threads, IsThread
    <3> QED
      BY <3>1, Zenon DEF EndedAs
  <2>6. status'[e] \in {"running", "normal"}
    BY <1>6, <2>3, <2>4, <2>5, Zenon DEF Statuses
  <2> QED
    BY <2>4, <2>6, Zenon DEF BusyThreads, Busy
<1> QED
  BY <1>1, <1>4, <1>6, <1>7, <1>8, <1>9, Zenon DEF IInv, Open, Counts, open, EndedAs

\* A thread whose parent has ended ends, and is not the last one.
LEMMA OrphanEnds ==
    ASSUME NEW c \in Co, AtCurrent(c), uthread[c], ~Alive(entry), uthreads # 1,
           EndedAs(c, {}, "dead", {c}), Suspend(c, "end"), UNCHANGED <<zombies, waited>>
    PROVE  IInv'
<1>1. /\ c = cur /\ Typed /\ Open /\ open /\ IsThread(c) /\ c # entry
      /\ status[c] = "running"
  BY Zenon DEF AtCurrent, IsThread, Open, Threads
<1>2. ~waited[c]
  BY <1>1, Zenon DEF Open, Waiting, Alive
<1>3. Waiting' /\ Control' /\ Posted'
  BY <1>2, SuspendKeeps, Zenon
<1>4. /\ Threads' /\ Chain'
      /\ status' \in [Co -> Statuses] /\ pending' \in [Co -> BOOLEAN]
      /\ ref' \in [Co -> BOOLEAN] /\ uthreads' \in Int
      /\ uthreads' = Cardinality(Anchored')
      /\ Cardinality(Running') = Cardinality(BusyThreads')
  <2>1. {c} = {} \cup {c} /\ {c} \in SUBSET Co
    OBVIOUS
  <2> QED
    BY <1>1, <2>1, EndedAsKeeps, Zenon
<1>5. \A e \in Co : status[e] # "zombie"
  BY <1>1, Zenon DEF Open, Ended
<1>6. \A e \in Co : status'[e] = IF e = c THEN "dead" ELSE status[e]
  BY Zenon DEF EndedAs
<1>7. Typed'
  <2>1. within' \in [Co -> Places] /\ cur' = NULL
    BY <1>1 DEF Suspend, Typed, Places
  <2>2. UNCHANGED <<uthread, parent, posted, session>>
    BY Zenon DEF EndedAs
  <2> QED
    BY <1>1, <1>4, <2>1, <2>2, Zenon DEF Typed
<1>8. Ended'
  <2>1. \A e \in Entries(zombies[entry]) : e \in Co
    BY Zenon DEF AtCurrent
  <2>2. uthread' = uthread
    BY ZenonT(30) DEF EndedAs
  <2> QED
    BY <1>1, <1>5, <1>6, <2>1, <2>2, Zenon DEF Open, Ended
<1>9. BusyThreads' # {}
  <2>1. Anchored' # {}
    <3>1. {c} \ {entry} = {c} /\ Cardinality({c}) = 1
      BY <1>1, FS_Singleton, Zenon
    <3>2. uthreads' = uthreads - 1 /\ uthreads \in Int
      BY <1>1, <3>1, Zenon DEF EndedAs, Typed
    <3> QED
      <4>1. uthreads' # 0
        BY <3>2
      <4> QED
        BY <1>4, <4>1, FS_EmptySet, Zenon
  <2>2. PICK e \in Co : e \in Anchored'
    BY <2>1, Zenon DEF Anchored, User
  <2>3. ref'[e] /\ ~(e = abort /\ status'[e] = "suspended")
    BY <2>2, Zenon DEF Anchored
  <2>4. IsThread(e)' /\ status'[e] \notin {"none", "dead"} /\ (status'[e] = "suspended" => e = abort)
    BY <1>4, <2>3, CoAssumption, Zenon DEF Threads, IsThread
  <2>5. status'[e] \in {"running", "normal"}
    BY <1>4, <1>5, <1>6, <2>3, <2>4, Zenon DEF Statuses
  <2> QED
    BY <2>4, <2>5, Zenon DEF BusyThreads, Busy
<1> QED
  BY <1>1, <1>3, <1>4, <1>7, <1>8, <1>9, Zenon DEF IInv, Open, Counts, open, EndedAs

\* The entry thread is busy as long as it has not ended.
LEMMA EntryBusy ==
    ASSUME Open, Alive(entry)
    PROVE  entry \in BusyThreads
BY CoAssumption, Zenon DEF Open, Threads, Alive, BusyThreads, Busy, IsThread

\* A thread nobody waits for yet ends and is kept for its parent.
LEMMA ZombieEnds ==
    ASSUME NEW c \in Co, AtCurrent(c), uthread[c], Alive(entry), ~waited[c],
           EndedAs(c, {}, "zombie", {}), Suspend(c, "end"),
           zombies' = [zombies EXCEPT ![entry] = Append(@, c)], UNCHANGED waited
    PROVE  IInv'
<1>1. c = cur /\ Typed /\ Open /\ open /\ IsThread(c) /\ c # entry /\ status[c] = "running"
  BY Zenon DEF AtCurrent, IsThread, Open, Threads
<1>2. Waiting' /\ Control' /\ Posted'
  BY SuspendKeeps, ZenonT(30)
<1>3. /\ Threads' /\ Chain'
      /\ status' \in [Co -> Statuses] /\ pending' \in [Co -> BOOLEAN]
      /\ ref' \in [Co -> BOOLEAN] /\ uthreads' \in Int
      /\ uthreads' = Cardinality(Anchored')
      /\ Cardinality(Running') = Cardinality(BusyThreads')
      /\ BusyThreads' = BusyThreads \ {c}
  BY <1>1, EndedAsKeeps
<1>4. \A e \in Co : status'[e] = IF e = c THEN "zombie" ELSE status[e]
  BY Zenon DEF EndedAs
<1>5. zombies[entry] \in Seq(Co) /\ entry \in Co
  BY <1>1, CoAssumption DEF Typed
<1>6. /\ zombies'[entry] \in Seq(Co)
      /\ Entries(zombies'[entry]) = Entries(zombies[entry]) \cup {c}
      /\ \A e \in User : zombies'[e] = zombies[e]
  <2>1. /\ Append(zombies[entry], c) \in Seq(Co)
        /\ Entries(Append(zombies[entry], c)) = Entries(zombies[entry]) \cup {c}
    BY <1>5, AppendLemma
  <2> QED
    BY <1>1, <1>5, <2>1, Zenon DEF Typed, User
<1>7. Typed'
  <2>1. within' \in [Co -> Places] /\ cur' = NULL
    BY <1>1, Zenon DEF Suspend, Typed, Places
  <2>2. UNCHANGED <<uthread, parent, posted, session>>
    BY Zenon DEF EndedAs
  <2>3. zombies' \in [Co -> Seq(Co)]
    BY <1>1, <1>5, <1>6, Zenon DEF Typed
  <2> QED
    BY <1>1, <1>3, <2>1, <2>2, <2>3, Zenon DEF Typed
<1>8. Ended'
  <2>1. \A e \in Entries(zombies[entry]) : e \in Co
    BY Zenon DEF AtCurrent
  <2>2. uthread' = uthread
    BY Zenon DEF EndedAs
  <2> QED
    BY <1>1, <1>4, <1>5, <1>6, <2>1, <2>2, Zenon DEF Open, Ended, Alive
<1>9. entry \in BusyThreads'
  BY <1>1, <1>3, EntryBusy, Zenon
<1> QED
  BY <1>1, <1>2, <1>3, <1>7, <1>8, <1>9, Zenon DEF IInv, Open, Counts, open, EndedAs

\* A thread its parent waits for ends, and its parent runs again.
LEMMA WaitedEnds ==
    ASSUME NEW c \in Co, AtCurrent(c), uthread[c], waited[c],
           EndedAs(c, {}, "dead", {c}), Run(entry),
           waited' = [waited EXCEPT ![c] = FALSE], UNCHANGED zombies
    PROVE  IInv'
<1>1. /\ c = cur /\ Typed /\ Open /\ open /\ IsThread(c) /\ c # entry /\ status[c] = "running"
      /\ within[c] = "lua" /\ c \notin Entries(posted)
      /\ entry \in Co /\ status[entry] = "running" /\ within[entry] = "wait"
  BY CoAssumption, Zenon DEF AtCurrent, IsThread, Open, Threads, Waiting
<1>2. /\ Threads' /\ Chain'
      /\ status' \in [Co -> Statuses] /\ pending' \in [Co -> BOOLEAN]
      /\ ref' \in [Co -> BOOLEAN] /\ uthreads' \in Int
      /\ uthreads' = Cardinality(Anchored')
      /\ Cardinality(Running') = Cardinality(BusyThreads')
      /\ BusyThreads' = BusyThreads \ {c}
  <2>1. {c} = {} \cup {c} /\ {c} \in SUBSET Co
    OBVIOUS
  <2> QED
    BY <1>1, <2>1, EndedAsKeeps, Zenon
<1>3. /\ \A e \in Co : status'[e] = IF e = c THEN "dead" ELSE status[e]
      /\ \A e \in Co : pending'[e] <=> pending[e] /\ e # c
      /\ UNCHANGED <<uthread, parent, posted, session>>
  BY Zenon DEF EndedAs
<1>4. \A e \in Co : ~waited'[e]
  BY <1>1, Zenon DEF Open, Waiting, Typed
<1>5. /\ within'[entry] = "lua" /\ cur' = entry
      /\ \A e \in Co \ {entry} : within'[e] = within[e]
  BY <1>1, Zenon DEF Run, Typed
<1>6. Typed'
  <2>1. within' \in [Co -> Places] /\ waited' \in [Co -> BOOLEAN]
    BY <1>1, Zenon DEF Run, Typed, Places
  <2> QED
    BY <1>1, <1>2, <1>3, <1>5, <2>1, Zenon DEF Typed
<1>7. Ended'
  <2>1. \A e \in Entries(zombies[entry]) : e \in Co
    BY Zenon DEF AtCurrent
  <2> QED
    BY <1>1, <1>3, <2>1, Zenon DEF Open, Ended, Alive
<1>8. Waiting'
  BY <1>4, Zenon DEF Waiting
<1>9. Control'
  <2>1. ASSUME NEW e \in Co, status'[e] = "running"
        PROVE  /\ cur' = e <=> within'[e] = "lua"
               /\ within'[e] = "event" => pending'[e]
               /\ within'[e] \in {"spawn", "yield"} => e \in Entries(posted')
               /\ within'[e] \in {"lua", "event", "spawn", "yield", "wait"}
    BY <1>1, <1>3, <1>5, <2>1, ZenonT(30) DEF Open, Control
  <2>2. \A e \in Co : pending'[e] => status'[e] = "running" /\ within'[e] = "event"
    BY <1>1, <1>3, <1>5, ZenonT(30) DEF Open, Control
  <2>3. \A e \in Co : within'[e] # "wait"
    BY <1>1, <1>5, Zenon DEF Open, Control
  <2> QED
    BY <1>1, <1>3, <1>5, <2>1, <2>2, <2>3, Zenon DEF Control
<1>10. Posted'
  <2>1. \A e \in Entries(posted) : e \in Co /\ e # entry
    BY <1>1, Zenon DEF AtCurrent, Open, Posted
  <2> QED
    BY <1>1, <1>3, <1>5, <2>1, Zenon DEF Open, Posted
<1>11. entry \in BusyThreads'
  BY <1>1, <1>2, EntryBusy, Zenon DEF Alive
<1> QED
  BY <1>1, <1>2, <1>3, <1>6, <1>7, <1>8, <1>9, <1>10, <1>11, Zenon DEF IInv, Open, Counts, open

\* A coroutine that is no thread ends: the one that resumed it runs again.
LEMMA CoroutineEnds ==
    ASSUME NEW c \in Co, AtCurrent(c), ~IsThread(c), NEW p, p = parent[c], Returns(c, p)
    PROVE  IInv'
<1>1. /\ c = cur /\ Typed /\ Open /\ open /\ status[c] = "running" /\ within[c] = "lua"
      /\ ~pending[c] /\ c \notin Entries(posted)
      /\ ~uthread[c] /\ c # entry /\ ~ref[c] /\ ~waited[c]
      /\ \A e \in Entries(posted) : e \in Co
      /\ \A e \in Entries(zombies[entry]) : e \in Co
  BY Zenon DEF AtCurrent, IsThread, Open, Threads, Waiting
<1>2. /\ p \in Co /\ status[p] = "normal" /\ p # c /\ ~pending[p] /\ p \notin Entries(posted)
      /\ \A e \in Co : ~IsThread(e) /\ Busy(e) /\ parent[e] = p => e = c
  <2>1. p \in Co /\ status[p] = "normal"
    BY <1>1, Zenon DEF Open, Chain, Busy
  <2>2. \A e \in Co : ~IsThread(e) /\ Busy(e) /\ parent[e] = p => e = c
    BY <1>1, Zenon DEF Open, Chain, Busy
  <2> QED
    BY <1>1, <2>1, <2>2, Zenon DEF Open, Control, Posted
<1>3. /\ status' = [status EXCEPT ![c] = "dead", ![p] = "running"]
      /\ cur' = p /\ within' = [within EXCEPT ![p] = "lua"]
      /\ uthread' = uthread /\ parent' = parent /\ ref' = ref /\ waited' = waited
      /\ pending' = pending /\ zombies' = zombies /\ uthreads' = uthreads
      /\ posted' = posted /\ session' = session
  BY Zenon DEF Returns, Run
<1>4. /\ \A e \in Co \ {c, p} : status'[e] = status[e] /\ within'[e] = within[e]
      /\ status'[c] = "dead" /\ within'[c] = "lua"
      /\ status'[p] = "running" /\ within'[p] = "lua"
      /\ cur' = p
      /\ uthread' = uthread /\ parent' = parent /\ ref' = ref /\ waited' = waited
      /\ pending' = pending /\ zombies' = zombies /\ uthreads' = uthreads
      /\ posted' = posted /\ session' = session
  BY <1>1, <1>2, <1>3, Zenon DEF Typed
<1>5. Typed'
  BY <1>1, <1>2, <1>3, Zenon DEF Typed, Statuses, Places
<1>6. Threads' /\ Ended'
  <2>1. Threads'
    BY <1>1, <1>2, <1>4, CoAssumption, ZenonT(30) DEF Open, Threads, IsThread
  <2>2. Ended'
    BY <1>1, <1>2, <1>4, CoAssumption, Zenon DEF Open, Ended, Alive
  <2> QED
    BY <2>1, <2>2, Zenon
<1>7. Waiting'
  BY <1>1, <1>2, <1>4, CoAssumption, Zenon DEF Open, Waiting, Busy
<1>8. Control'
  <2>1. ASSUME NEW e \in Co, status'[e] = "running"
        PROVE  /\ cur' = e <=> within'[e] = "lua"
               /\ within'[e] = "event" => pending'[e]
               /\ within'[e] \in {"spawn", "yield"} => e \in Entries(posted')
               /\ within'[e] \in {"lua", "event", "spawn", "yield", "wait"}
    BY <1>1, <1>2, <1>3, <1>4, <2>1, SMTT(20) DEF Open, Control
  <2>2. ASSUME NEW e \in Co, pending'[e]
        PROVE  status'[e] = "running" /\ within'[e] = "event"
    <3>1. e \in Co \ {c, p} /\ pending[e]
      BY <1>1, <1>2, <1>4, <2>2, Zenon
    <3>2. status[e] = "running" /\ within[e] = "event"
      BY <1>1, <3>1, Zenon DEF Open, Control
    <3> QED
      BY <1>4, <3>1, <3>2, Zenon
  <2>3. \A e \in Co : within'[e] = "wait" =>
           e = entry /\ status'[e] = "running" /\ \E f \in Co : waited'[f]
    BY <1>1, <1>2, <1>4 DEF Open, Control
  <2> QED
    BY <1>2, <1>3, <1>4, <2>1, <2>2, <2>3, ZenonT(30) DEF Control
<1>9. Posted'
  BY <1>1, <1>2, <1>4, ZenonT(30) DEF Open, Posted
<1>10. Chain'
  <2>1. \A e \in Co : e # c => (Busy(e)' <=> Busy(e))
    BY <1>2, <1>4, Zenon DEF Busy
  <2>2. ~Busy(c)'
    BY <1>4, Zenon DEF Busy
  <2>3. \A e \in Co : IsThread(e)' <=> IsThread(e)
    BY <1>4, Zenon DEF IsThread
  <2>4. \A e \in Co : status[e] = "normal" /\ e # p => status'[e] = "normal"
    BY <1>1, <1>4, Zenon
  <2> QED
    BY <1>1, <1>2, <1>4, <2>1, <2>2, <2>3, <2>4, Zenon DEF Open, Chain
<1>11. /\ Anchored' = Anchored /\ Running' = (Running \ {c}) \cup {p}
       /\ BusyThreads' = BusyThreads /\ c \in Running /\ p \notin Running
  <2>1. Anchored' = Anchored
    BY <1>1, <1>2, <1>4, CoAssumption, ZenonT(30) DEF Anchored, User, Open, Threads
  <2>2. Running' = (Running \ {c}) \cup {p} /\ c \in Running /\ p \notin Running
    BY <1>1, <1>2, <1>4, ZenonT(30) DEF Running
  <2>3. BusyThreads' = BusyThreads
    BY <1>1, <1>2, <1>4 DEF BusyThreads, IsThread, Busy
  <2> QED
    BY <2>1, <2>2, <2>3, Zenon
<1>12. Counts'
  <2>1. Running \in SUBSET Co
    BY Zenon DEF Running
  <2>2. Cardinality(Running') = Cardinality(Running)
    BY <1>11, <2>1, Moved, Zenon
  <2> QED
    BY <1>1, <1>4, <1>11, <2>2, Zenon DEF Open, Counts
<1> QED
  BY <1>1, <1>4, <1>5, <1>6, <1>7, <1>8, <1>9, <1>10, <1>12, Zenon DEF IInv, Open, open

\* The function of the current coroutine returns or fails.
LEMMA FinishIInv ==
    ASSUME Plain, IInv, open, cur # NULL, NEW ok \in BOOLEAN, finish(cur, ok)
    PROVE  IInv'
<1>1. PICK c \in Co : c = cur
  BY Current, Zenon
<1>2. AtCurrent(c)
  BY <1>1, Current, Zenon DEF AtCurrent
<1>3. \/ \E why \in {"error", "done"} : Finalize(why)
      \/ /\ c = entry
         /\ \E G \in SUBSET Co :
               /\ G = {d \in Entries(zombies[entry]) : ref[d]}
               /\ \A d \in G : status[d] = "zombie"
               /\ uthreads - Cardinality(G) # 0
               /\ EndedAs(c, G, "dead", G \cup {c})
         /\ zombies' = [zombies EXCEPT ![c] = <<>>]
         /\ Suspend(c, "end") /\ UNCHANGED waited
      \/ /\ uthread[c] /\ ~Alive(entry) /\ uthreads # 1
         /\ EndedAs(c, {}, "dead", {c}) /\ Suspend(c, "end") /\ UNCHANGED <<zombies, waited>>
      \/ /\ uthread[c] /\ Alive(entry) /\ ~waited[c]
         /\ EndedAs(c, {}, "zombie", {}) /\ Suspend(c, "end")
         /\ zombies' = [zombies EXCEPT ![entry] = Append(@, c)]
         /\ UNCHANGED waited
      \/ /\ uthread[c] /\ waited[c]
         /\ EndedAs(c, {}, "dead", {c}) /\ Run(entry)
         /\ waited' = [waited EXCEPT ![c] = FALSE] /\ UNCHANGED zombies
      \/ ~IsThread(c) /\ Returns(c, parent[c])
  BY <1>1, FinishCases, Zenon
<1>4. CASE \E why \in {"error", "done"} : Finalize(why)
  BY <1>4, FinalizeIInv
<1>5. CASE /\ c = entry
           /\ \E G \in SUBSET Co :
                 /\ G = {d \in Entries(zombies[entry]) : ref[d]}
                 /\ \A d \in G : status[d] = "zombie"
                 /\ uthreads - Cardinality(G) # 0
                 /\ EndedAs(c, G, "dead", G \cup {c})
           /\ zombies' = [zombies EXCEPT ![c] = <<>>]
           /\ Suspend(c, "end") /\ UNCHANGED waited
  BY <1>2, <1>5, EntryEnds, Zenon
<1>6. CASE /\ uthread[c] /\ ~Alive(entry) /\ uthreads # 1
           /\ EndedAs(c, {}, "dead", {c}) /\ Suspend(c, "end") /\ UNCHANGED <<zombies, waited>>
  BY <1>2, <1>6, OrphanEnds, Zenon
<1>7. CASE /\ uthread[c] /\ Alive(entry) /\ ~waited[c]
           /\ EndedAs(c, {}, "zombie", {}) /\ Suspend(c, "end")
           /\ zombies' = [zombies EXCEPT ![entry] = Append(@, c)]
           /\ UNCHANGED waited
  BY <1>2, <1>7, ZombieEnds, Zenon
<1>8. CASE /\ uthread[c] /\ waited[c]
           /\ EndedAs(c, {}, "dead", {c}) /\ Run(entry)
           /\ waited' = [waited EXCEPT ![c] = FALSE] /\ UNCHANGED zombies
  BY <1>2, <1>8, WaitedEnds, Zenon
<1>9. CASE ~IsThread(c) /\ Returns(c, parent[c])
  BY <1>2, <1>9, CoroutineEnds, Zenon
<1> QED
  BY <1>3, <1>4, <1>5, <1>6, <1>7, <1>8, <1>9, Zenon

\* Taking the first posted thread.
LEMMA TailLemma ==
    ASSUME NEW S, NEW s \in Seq(S), s # <<>>, Distinct(s)
    PROVE  /\ Tail(s) \in Seq(S)
           /\ Entries(Tail(s)) = Entries(s) \ {Head(s)}
           /\ Distinct(Tail(s))
           /\ Head(s) \in Entries(s)
<1> DEFINE t == Tail(s)
<1>1. /\ t \in Seq(S) /\ DOMAIN t = 1 .. Len(s) - 1
      /\ DOMAIN s = 1 .. Len(s) /\ Len(s) \in Nat /\ 1 \in DOMAIN s /\ Head(s) = s[1]
      /\ \A i \in DOMAIN t : t[i] = s[i + 1]
  OBVIOUS
<1> HIDE DEF t
<1>2. \A i \in DOMAIN t : i + 1 \in DOMAIN s /\ i + 1 # 1
  BY <1>1
<1>3. \A i \in DOMAIN s : i = 1 \/ (i - 1 \in DOMAIN t /\ t[i - 1] = s[i])
  BY <1>1
<1>4. Entries(t) = Entries(s) \ {s[1]}
  <2>1. \A i \in DOMAIN t : t[i] \in Entries(s) /\ t[i] # s[1]
    BY <1>1, <1>2 DEF Entries, Distinct
  <2>2. \A i \in DOMAIN s : s[i] = s[1] \/ s[i] \in Entries(t)
    BY <1>3, Zenon DEF Entries
  <2> QED
    BY <2>1, <2>2 DEF Entries
<1>5. Distinct(t)
  <2> SUFFICES ASSUME NEW i \in DOMAIN t, NEW j \in DOMAIN t, t[i] = t[j] PROVE i = j
    BY DEF Distinct
  <2>1. i + 1 = j + 1
    BY <1>1, <1>2 DEF Distinct
  <2> QED
    BY <1>1, <2>1
<1> QED
  BY <1>1, <1>4, <1>5, Zenon DEF t, Entries
\* run_posted_threads resumes the first posted thread, or skips a dead one.
LEMMA RunPostedIInv ==
    ASSUME IInv, run_posted
    PROVE  IInv'
<1>1. Typed /\ Open /\ open /\ cur = NULL /\ posted # <<>>
  BY DEF run_posted, IInv
<1>2. PICK h : h = Head(posted)
  OBVIOUS
<1>3. /\ posted' \in Seq(Co) /\ Entries(posted') = Entries(posted) \ {h}
      /\ Distinct(posted') /\ h \in Entries(posted)
  BY <1>1, <1>2, TailLemma, Zenon DEF run_posted, Typed, Open, Posted
<1>4. \A e \in Entries(posted) : e \in Co
  BY <1>1 DEF Typed, Entries
<1>5. UNCHANGED <<status, uthread, parent, ref, waited, pending, zombies, uthreads, session>>
  BY DEF run_posted
<1>6. Threads' /\ Ended' /\ Chain' /\ Counts'
  BY <1>1, <1>5, ZenonT(30) DEF Open, Threads, Ended, Chain, Counts, IsThread, Busy, Alive, Anchored,
     Running, BusyThreads
<1>7. CASE status[h] = "running"
  <2>1. cur' = h /\ within' = [within EXCEPT ![h] = "lua"]
    BY <1>2, <1>7, Zenon DEF run_posted, Run
  <2>2. within[h] \in {"spawn", "yield"} /\ h \in Co
    BY <1>1, <1>3, <1>4, <1>7, Zenon DEF Open, Posted
  <2>3. within'[h] = "lua" /\ \A e \in Co \ {h} : within'[e] = within[e]
    BY <1>1, <2>1, <2>2, Zenon DEF Typed
  <2>4. Typed'
    BY <1>1, <1>3, <1>5, <2>1, <2>2, Zenon DEF Typed, Places
  <2>5. Waiting'
    BY <1>1, <1>5, <2>2, <2>3, CoAssumption, Zenon DEF Open, Waiting, Busy
  <2>6. Control'
    <3>1. ASSUME NEW e \in Co, status'[e] = "running"
          PROVE  /\ cur' = e <=> within'[e] = "lua"
                 /\ within'[e] = "event" => pending'[e]
                 /\ within'[e] \in {"spawn", "yield"} => e \in Entries(posted')
                 /\ within'[e] \in {"lua", "event", "spawn", "yield", "wait"}
      BY <1>1, <1>3, <1>5, <2>1, <2>3, <3>1, CoAssumption, Zenon DEF Open, Control
    <3>2. \A e \in Co : pending'[e] => status'[e] = "running" /\ within'[e] = "event"
      BY <1>1, <1>5, <2>2, <2>3, Zenon DEF Open, Control
    <3>3. \A e \in Co : within'[e] = "wait" =>
             e = entry /\ status'[e] = "running" /\ \E f \in Co : waited'[f]
      BY <1>1, <1>5, <2>3, Zenon DEF Open, Control
    <3> QED
      BY <1>5, <1>7, <2>1, <3>1, <3>2, <3>3, Zenon DEF Control
  <2>7. Posted'
    BY <1>1, <1>3, <1>4, <1>5, <2>3, Zenon DEF Open, Posted
  <2> QED
    BY <1>1, <1>5, <1>6, <2>4, <2>5, <2>6, <2>7 DEF IInv, Open, open
<1>8. CASE status[h] # "running"
  <2>1. cur' = cur /\ within' = within
    BY <1>2, <1>8, Zenon DEF run_posted
  <2>2. Typed'
    BY <1>1, <1>3, <1>5, <2>1, Zenon DEF Typed
  <2>3. Waiting' /\ Control' /\ Posted'
    BY <1>1, <1>3, <1>5, <1>8, <2>1, Zenon DEF Open, Waiting, Control, Posted, Busy
  <2> QED
    BY <1>1, <1>5, <1>6, <2>2, <2>3, Zenon DEF IInv, Open, open
<1> QED
  BY <1>7, <1>8, Zenon

\* The operation of a coroutine ends and resumes it.
LEMMA EventIInv ==
    ASSUME IInv, NEW c \in Co, event(c)
    PROVE  IInv'
<1>1. Typed /\ Open /\ open /\ cur = NULL /\ pending[c]
  BY DEF event, Idle, IInv
<1>2. status[c] = "running" /\ within[c] = "event"
  BY <1>1, Zenon DEF Open, Control
<1>3. /\ pending' = [pending EXCEPT ![c] = FALSE]
      /\ cur' = c /\ within' = [within EXCEPT ![c] = "lua"]
      /\ UNCHANGED <<status, uthread, parent, ref, waited, zombies, uthreads, posted, session>>
  BY DEF event, Run
<1>4. /\ ~pending'[c] /\ within'[c] = "lua"
      /\ \A e \in Co \ {c} : within'[e] = within[e] /\ (pending'[e] <=> pending[e])
  BY <1>1, <1>3, Zenon DEF Typed
<1>5. Typed'
  BY <1>1, <1>3, ZenonT(30) DEF Typed, Places
<1>6. Threads' /\ Ended' /\ Chain' /\ Counts'
  BY <1>1, <1>3, StatusKept, Zenon
<1>7. Waiting'
  BY <1>1, <1>2, <1>3, <1>4, CoAssumption, Zenon DEF Open, Waiting, Busy
<1>8. Control'
  <2>1. ASSUME NEW e \in Co, status'[e] = "running"
        PROVE  /\ cur' = e <=> within'[e] = "lua"
               /\ within'[e] = "event" => pending'[e]
               /\ within'[e] \in {"spawn", "yield"} => e \in Entries(posted')
               /\ within'[e] \in {"lua", "event", "spawn", "yield", "wait"}
    <3>1. CASE e = c
      BY <1>3, <1>4, <3>1, Zenon
    <3>2. CASE e # c
      <4>1. within'[e] = within[e] /\ (pending'[e] <=> pending[e]) /\ status[e] = "running"
        BY <1>3, <1>4, <2>1, <3>2, Zenon
      <4> QED
        BY <1>1, <1>3, <3>2, <4>1, CoAssumption, Zenon DEF Open, Control
    <3> QED
      BY <3>1, <3>2, Zenon
  <2>2. \A e \in Co : pending'[e] => status'[e] = "running" /\ within'[e] = "event"
    BY <1>1, <1>3, <1>4, Zenon DEF Open, Control
  <2>3. \A e \in Co : within'[e] = "wait" =>
           e = entry /\ status'[e] = "running" /\ \E f \in Co : waited'[f]
    BY <1>1, <1>3, <1>4, Zenon DEF Open, Control
  <2> QED
    BY <1>2, <1>3, <2>1, <2>2, <2>3, Zenon DEF Control
<1>9. Posted'
  <2>1. \A e \in Entries(posted) : e \in Co
    BY <1>1 DEF Typed, Entries
  <2> QED
    BY <1>1, <1>2, <1>3, <1>4, <2>1, Zenon DEF Open, Posted
<1> QED
  BY <1>1, <1>3, <1>5, <1>6, <1>7, <1>8, <1>9, Zenon DEF IInv, Open, open

\* The client closes the connection and the abort thread runs.
LEMMA ClientAbortIInv ==
    ASSUME IInv, client_abort
    PROVE  IInv'
<1>1. Typed /\ Open /\ open /\ cur = NULL /\ status[abort] = "suspended" /\ abort \in Co
  BY CoAssumption, Zenon DEF client_abort, Idle, IInv
<1>2. /\ status' = [status EXCEPT ![abort] = "running"] /\ uthreads' = uthreads + 1
      /\ cur' = abort /\ within' = [within EXCEPT ![abort] = "lua"]
      /\ UNCHANGED <<uthread, parent, ref, waited, pending, zombies, posted, session>>
  BY DEF client_abort, Run
<1>3. /\ status'[abort] = "running" /\ within'[abort] = "lua"
      /\ \A e \in Co \ {abort} : status'[e] = status[e] /\ within'[e] = within[e]
  BY <1>1, <1>2, Zenon DEF Typed
<1>4. /\ ~pending[abort] /\ abort \notin Entries(posted) /\ ref[abort] /\ uthread[abort]
      /\ abort # entry
      /\ \A e \in Entries(posted) : e \in Co
      /\ \A e \in Entries(zombies[entry]) : e \in Co
  <2>1. posted \in Seq(Co) /\ zombies[entry] \in Seq(Co)
    BY <1>1, CoAssumption, Zenon DEF Typed
  <2>2. /\ \A e \in Entries(posted) : e \in Co
        /\ \A e \in Entries(zombies[entry]) : e \in Co
    BY <2>1 DEF Entries
  <2> QED
    BY <1>1, <2>2, CoAssumption, Zenon DEF Open, Control, Posted, Threads, IsThread
<1>5. Typed'
  BY <1>1, <1>2, SMTT(20) DEF Typed, Statuses, Places
<1>6. Threads' /\ Ended'
  <2>1. Threads'
    BY <1>1, <1>2, <1>3, <1>4, CoAssumption, ZenonT(30) DEF Open, Threads, IsThread
  <2>2. Ended'
    BY <1>1, <1>2, <1>3, <1>4, CoAssumption, Zenon DEF Open, Ended, Alive
  <2> QED
    BY <2>1, <2>2, Zenon
<1>7. Waiting'
  BY <1>1, <1>2, <1>3, <1>4, CoAssumption, Zenon DEF Open, Waiting, Busy
<1>8. Control'
  BY <1>1, <1>2, <1>3, <1>4, CoAssumption DEF Open, Control
<1>9. Posted'
  BY <1>1, <1>2, <1>3, <1>4, ZenonT(30) DEF Open, Posted
<1>10. Chain'
  BY <1>1, <1>2, <1>3, <1>4, SMTT(20) DEF Open, Chain, IsThread, Busy
<1>11. /\ Anchored' = Anchored \cup {abort} /\ Running' = Running \cup {abort}
       /\ BusyThreads' = BusyThreads \cup {abort}
       /\ abort \notin Anchored /\ abort \notin Running /\ abort \notin BusyThreads
  BY <1>1, <1>2, <1>3, <1>4, Zenon DEF Anchored, Running, BusyThreads, IsThread, Busy, User
<1>12. Counts'
  <2>1. Anchored \in SUBSET Co /\ Running \in SUBSET Co /\ BusyThreads \in SUBSET Co
    BY DEF Anchored, Running, BusyThreads, User
  <2> QED
    BY <1>1, <1>2, <1>11, <2>1, Finite, Zenon DEF Open, Counts
<1> QED
  BY <1>1, <1>2, <1>5, <1>6, <1>7, <1>8, <1>9, <1>10, <1>12, Zenon DEF IInv, Open, open

\* Each action preserves the invariant.
LEMMA NextIInv ==
    ASSUME Plain, IInv, [Next]_vars
    PROVE  IInv'
<1>1. CASE open /\ cur # NULL /\ Calls(cur)
  <2>1. CASE \E d \in User : spawn(cur, d) \/ create(cur, d) \/ resume(cur, d) \/ kill(cur, d)
    BY <1>1, <2>1, SpawnIInv, CreateIInv, ResumeIInv, KillIInv, Zenon
  <2>2. CASE \E args \in WaitArgs : wait(cur, args)
    BY <1>1, <2>2, WaitIInv, Zenon
  <2>3. CASE yield(cur)
    BY <1>1, <2>3, YieldIInv, Zenon
  <2>4. CASE block(cur)
    BY <1>1, <2>4, BlockIInv, Zenon
  <2>5. CASE exit(cur)
    BY <1>1, <2>5, FinalizeIInv, Zenon DEF exit
  <2>6. CASE \E ok \in BOOLEAN : finish(cur, ok)
    BY <1>1, <2>6, FinishIInv, Zenon
  <2> QED
    BY <1>1, <2>1, <2>2, <2>3, <2>4, <2>5, <2>6, Zenon DEF Calls
<1>2. CASE run_posted
  BY <1>2, RunPostedIInv, Zenon
<1>3. CASE \E c \in Co : event(c)
  BY <1>3, EventIInv, Zenon
<1>4. CASE client_abort
  BY <1>4, ClientAbortIInv
<1>5. CASE UNCHANGED vars
  BY <1>5, StutterIInv, Zenon
<1> QED
  BY <1>1, <1>2, <1>3, <1>4, <1>5, Zenon DEF Next

-----------------------------------------------------------------------------
(* The results.                                                             *)

\* So it holds in every state of Plain code.
LEMMA Invariance ==
    ASSUME Plain
    PROVE  Spec => []IInv
<1>1. Init => IInv
  BY InitIInv
<1>2. IInv /\ [Next]_vars => IInv'
  BY NextIInv
<1> QED
  BY <1>1, <1>2, PTL DEF Spec

\* The assertion at the end of finalize_threads cannot fail: ctx->uthreads
\* counts the anchored threads, whatever is spawned, waited for and killed.
THEOREM UthreadsCounted ==
    ASSUME Plain
    PROVE  Spec => []CountExact
<1>1. IInv => CountExact
  <2> SUFFICES ASSUME IInv PROVE CountExact
    BY Zenon
  <2>1. CASE open
    BY <2>1, Zenon DEF IInv, Open, Counts, Anchored, CountExact
  <2>2. CASE ~open
    <3>1. {c \in User : ref[c] /\ ~(c = abort /\ status[c] = "suspended")} = {} /\ uthreads = 0
      BY <2>2, Zenon DEF IInv, Finalized, User
    <3> QED
      BY <3>1, FS_EmptySet, Zenon DEF CountExact
  <2> QED
    BY <2>1, <2>2
<1> QED
  BY <1>1, Invariance, PTL

\* run_thread resumes only a coroutine that is running and whose operation, if
\* it had one, has ended.
THEOREM ResumesItsOwn ==
    ASSUME Plain
    PROVE  Spec => []OwnResume
<1>1. IInv => OwnResume
  <2> SUFFICES ASSUME IInv, cur # NULL
               PROVE  status[cur] = "running" /\ ~pending[cur] /\ (IsThread(cur) => ref[cur])
    BY Zenon DEF OwnResume
  <2>1. open
    BY Zenon DEF IInv, Finalized
  <2> QED
    BY <2>1, Current, Zenon
<1> QED
  BY <1>1, Invariance, PTL

\* No event of an operation finds its thread killed or its session finalized.
THEOREM EventsFindLiveThreads ==
    ASSUME Plain
    PROVE  Spec => []WakesLive
<1>1. IInv => WakesLive
  BY Zenon DEF IInv, Open, Control, Finalized, WakesLive, Live, Alive
<1> QED
  BY <1>1, Invariance, PTL

\* When the posted threads have run, some coroutine of an open session waits
\* for an event: each busy thread has a running coroutine of its own, and at
\* most one of those waits for another thread.
THEOREM NoSessionForgotten ==
    ASSUME Plain
    PROVE  Spec => []NoLostWake
<1>1. IInv => NoLostWake
  <2> SUFFICES ASSUME IInv, Idle, \A c \in Co : ~pending[c]
               PROVE  FALSE
    BY DEF NoLostWake
  <2>1. Typed /\ Open /\ cur = NULL /\ Entries(posted) = {}
    BY DEF Idle, IInv, Entries
  <2>2. \A c \in Co : status[c] = "running" => c = entry /\ within[c] = "wait"
    BY <2>1, CoAssumption, Zenon DEF Open, Control
  <2>3. /\ Running \in SUBSET Co /\ BusyThreads \in SUBSET Co
        /\ IsFiniteSet(Running) /\ IsFiniteSet(BusyThreads)
    BY Finite, Zenon DEF Running, BusyThreads
  <2>4. Running # {}
    BY <2>1, <2>3, FS_EmptySet, Zenon DEF Open, Counts
  <2>5. Running = {entry} /\ entry \in Co /\ status[entry] = "running"
    BY <2>2, <2>4, Zenon DEF Running
  <2>6. PICK d \in Co : waited[d]
    BY <2>1, <2>2, <2>5, Zenon DEF Open, Control
  <2>7. d \in BusyThreads /\ entry \in BusyThreads /\ d # entry
    BY <2>1, <2>5, <2>6, Zenon DEF Open, Waiting, Threads, BusyThreads, IsThread, Busy
  <2>8. Cardinality(BusyThreads) = 1
    BY <2>1, <2>5, FS_Singleton, Zenon DEF Open, Counts
  <2>9. \E x : BusyThreads = {x}
    BY <2>3, <2>8, FS_Singleton, Zenon
  <2> QED
    BY <2>7, <2>9
<1> QED
  BY <1>1, Invariance, PTL

\* A thread suspended in ngx.thread.wait has a live child that will resume it.
THEOREM WaitersAreWoken ==
    ASSUME Plain
    PROVE  Spec => []WaitsForChild
<1>1. IInv => WaitsForChild
  <2> SUFFICES ASSUME IInv, Idle, NEW p \in Co, within[p] = "wait", Live(p)
               PROVE  \E d \in Co : parent[d] = p /\ waited[d] /\ Live(d)
    BY DEF WaitsForChild
  <2>1. Open
    BY DEF IInv, Idle
  <2>2. p = entry /\ \E d \in Co : waited[d]
    BY <2>1 DEF Open, Control
  <2>3. \A d \in Co : waited[d] => parent[d] = entry /\ Live(d)
    BY <2>1 DEF Open, Waiting, Threads, Busy, Live, Alive
  <2> QED
    BY <2>2, <2>3
<1> QED
  BY <1>1, Invariance, PTL

\* Only the end of the last thread that is left finalizes a session as done:
\* when the threads counted are the ones given up, or the one that ends, no
\* other thread can be live.
LEMMA LastOfAll ==
    ASSUME Plain, IInv, open, NEW c \in Co, c = cur, NEW ok \in BOOLEAN, finish(c, ok),
           ok \/ uthread[c],
           NEW given \in SUBSET Co,
           given = IF ok THEN {d \in Co : (\E i \in DOMAIN zombies[c] : zombies[c][i] = d) /\ ref[d]}
                   ELSE {},
           LastThread(c, ok, uthreads - Cardinality(given))
    PROVE  \A e \in User : Live(e) /\ ref[e] => e \in {c, abort}
<1>1. /\ Typed /\ Open /\ cur \in Co /\ status[cur] = "running"
  BY Current, CoAssumption, SMTT(20)
<1>2. /\ Anchored \in SUBSET Co /\ IsFiniteSet(Anchored) /\ Cardinality(Anchored) \in Nat
      /\ IsFiniteSet(given) /\ Cardinality(given) \in Nat /\ uthreads = Cardinality(Anchored)
  BY <1>1, Finite DEF Anchored, User, Open, Counts
<1>3. \A e \in User : Live(e) /\ ref[e] /\ e # abort => e \in Anchored
  BY SMTT(20) DEF Anchored
<1>4. CASE c = entry /\ (ok => uthreads - Cardinality(given) = 0)
  <2>1. ok
    BY <1>1, <1>4, SMTT(20) DEF Open, Threads
  <2>2. \A d \in given : d \in Entries(zombies[entry]) /\ ref[d]
    BY <1>4, <2>1, SMTT(20) DEF Entries
  <2>3. \A d \in given : d # entry /\ status[d] = "zombie"
    BY <1>1, <1>4, <2>1, <2>2, GivenUp, Zenon DEF Open, Threads
  <2>4. given \in SUBSET Anchored
    BY <2>2, <2>3, SMTT(20) DEF Anchored, User
  <2>5. Anchored = given
    BY <1>2, <1>4, <2>1, <2>4, FS_Subset, SMTT(20)
  <2> QED
    BY <1>3, <2>3, <2>5, SMTT(20) DEF Live, Alive
<1>5. CASE uthread[c] /\ uthreads - Cardinality(given) = 1
  <2>1. c # entry /\ ref[c] /\ c \in Anchored
    BY <1>1, <1>5, SMTT(20) DEF Open, Threads, IsThread, Anchored, User
  <2>2. zombies[c] = <<>>
    BY <1>1, <2>1 DEF Open, Ended, User
  <2>3. given = {}
    BY <2>2
  <2>4. Cardinality(given) = 0
    BY <2>3, FS_EmptySet, SMTT(20)
  <2>5. Cardinality(Anchored) = 1
    BY <1>2, <1>5, <2>4, SMTT(20)
  <2>6. PICK x : Anchored = {x}
    BY <1>2, <2>5, FS_Singleton, Zenon
  <2> QED
    BY <1>3, <2>1, <2>6, SMTT(20)
<1> QED
  BY <1>4, <1>5, SMTT(20) DEF LastThread

\* A session is finalized as done only when every other thread has ended.
THEOREM DoneWhenAllEnded ==
    ASSUME Plain
    PROVE  Spec => AllEnded
<1>1. ASSUME IInv, Next, session' = "done", session # "done"
      PROVE  \A e \in User : Live(e) /\ ref[e] => e \in {cur, abort}
  <2>1. ~UNCHANGED session
    BY <1>1, SMTT(20)
  <2>2. open /\ cur # NULL /\ Calls(cur)
    BY <1>1, <2>1 DEF Next, run_posted, event, client_abort
  <2>3. PICK ok \in BOOLEAN : finish(cur, ok)
    <3>1. \A d \in User : ~(spawn(cur, d) \/ create(cur, d) \/ resume(cur, d) \/ kill(cur, d))
      BY <2>1, SMTT(20) DEF spawn, create, resume, kill
    <3>2. \A args \in WaitArgs : ~wait(cur, args)
      BY <2>1 DEF wait
    <3>3. ~yield(cur) /\ ~block(cur)
      BY <2>1 DEF yield, block
    <3>4. ~exit(cur)
      BY <1>1 DEF exit, Finalize
    <3> QED
      BY <2>2, <3>1, <3>2, <3>3, <3>4, SMTT(20) DEF Calls
  <2>4. PICK c \in Co : c = cur
    BY <1>1, <2>2, Current
  <2>5. PICK given \in SUBSET Co :
          given = IF ok THEN {d \in Co : (\E i \in DOMAIN zombies[c] : zombies[c][i] = d) /\ ref[d]}
                  ELSE {}
    BY Zenon
  <2>6. /\ LastThread(c, ok, uthreads - Cardinality(given))
        /\ session' = IF ok \/ uthread[c] THEN "done" ELSE "error"
    BY <2>1, <2>3, <2>4, <2>5, Zenon DEF finish, Finalize
  <2>7. ok \/ uthread[c]
    BY <1>1, <2>6
  <2> QED
    BY <1>1, <2>2, <2>3, <2>4, <2>5, <2>6, <2>7, LastOfAll
<1>2. IInv /\ [Next]_vars =>
        [session' = "done" =>
           session = "done" \/ \A c \in User : Live(c) /\ ref[c] => c \in {cur, abort}]_vars
  BY <1>1
<1> QED
  BY <1>2, Invariance, PTL DEF AllEnded, Spec
=============================================================================
