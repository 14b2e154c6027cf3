------------------------ MODULE ClusterCommand_proof ------------------------
(***************************************************************************)
(* For any number of requests, connections, nodes, retries and migrations,  *)
(* and replies that are no multi-bulk ones: every coroutine reads its own   *)
(* replies, the pool is clean, no command is executed twice,                *)
(* send_cluster_command keeps the contract of module Command, and a request *)
(* that nothing disturbs succeeds.                                          *)
(*                                                                          *)
(* The argument is about the exchange on a held connection.  Its holder     *)
(* waits for one answer to one command, which is on its way, answered or    *)
(* lost; so what it reads is its own, and what it gives back is empty.  A   *)
(* command is on its way in one place at a time: where its coroutine waits, *)
(* or on a connection it has closed after which it never sends again.       *)
(*                                                                          *)
(* The last result needs an invariant of its own, Quiet: which attempt a    *)
(* request is at bounds where its command can be.  The second attempt after *)
(* a MOVED is at the owner of the slot, one after an ASK at the node that   *)
(* imports it, and from there nothing leads on.                             *)
(***************************************************************************)
EXTENDS ClusterCommand, TLAPS

\* The types of a request's locals and of a connection, piece by piece.
Pcs == {"start", "link", "pong", "asked", "wait", "nested", "done"}
Modes == RandomModes \cup {"slot", "moved", "ask"}
Results == {"none", "ok", "refused", "failed", "aborted"}
Tries == 0 .. MaxCount
Tried == 0 .. TryCount + 1
SomeNode == Node \cup {NoNode}
SomeConn == Conn \cup {NoConn}
Query == [cmd : Commands, req : Req]
Message == [kind : Replies, req : Req, node : SomeNode]

States == {"closed", "gone", "held", "idle"}
Outs == Seq(Query)
Ins == Seq(Message)

ReqRec ==
    [pc : Pcs, mode : Modes, tries : Tries, attempts : Tried, target : SomeNode, conn : SomeConn,
     result : Results, disturbed : BOOLEAN, foreign : BOOLEAN]

ConnRec ==
    [st : States, peer : SomeNode, out : Outs, in : Ins, asking : BOOLEAN, alive : BOOLEAN]

\* Where a coroutine waits for a reply, to which command, and which replies
\* that command has.
Waits == {"pong", "asked", "wait"}
Question(pc) == CASE pc = "pong" -> "PING" [] pc = "asked" -> "ASKING" [] OTHER -> "CMD"
Answers(pc) ==
    CASE pc = "pong"  -> {"PONG"}
      [] pc = "asked" -> {"OK"}
      [] OTHER        -> {"VALUE", "ERR", "MOVED", "ASK", "TRYAGAIN"}

\* The three states of the exchange of r, a coroutine at pc whose command was
\* executed e times, on its connection y.
Unanswered(r, pc, y) == y.alive /\ y.in = <<>> /\ y.out = <<[cmd |-> Question(pc), req |-> r]>>

Answer(r, pc, y, e) ==
    /\ y.out = <<>> /\ Len(y.in) = 1
    /\ y.in[1].req = r /\ y.in[1].kind \in Answers(pc)
    /\ pc = "wait" => ~y.asking /\ (y.in[1].kind = "VALUE" <=> e = 1)

Lost(y) == ~y.alive /\ y.in = <<>>

Exchange(r, pc, y, e) == y.st = "held" /\ (Unanswered(r, pc, y) \/ Answer(r, pc, y, e) \/ Lost(y))

\* A connection, whoever has it.
ConnOK(y) ==
    /\ y.st = "closed" => y = Closed
    /\ y.st = "gone" => y.alive /\ y.in = <<>> /\ Len(y.out) = 1
    /\ y.st = "idle" => y.out = <<>> /\ y.in = <<>> /\ ~y.asking
    /\ ~y.alive => y.out = <<>> /\ ~y.asking

\* A request and the executions of its command.
ReqOK(x, e) ==
    /\ x.pc # "nested" /\ ~x.foreign
    /\ e \in {0, 1}
    /\ x.result = "none" <=> x.pc # "done"
    /\ x.pc \in {"start", "link", "pong", "asked"} => e = 0
    /\ x.result = "ok" => e = 1
    /\ x.result = "refused" => e = 0

\* The command of r is on its way on connection y.
Underway(r, y) == Len(y.out) = 1 /\ y.out[1].cmd = "CMD" /\ y.out[1].req = r

\* It is so only while r waits for it there, or has given up.
UnderwayOK(r, x, c, y, e) ==
    Underway(r, y) =>
        /\ e = 0
        /\ (x.conn = c /\ x.pc = "wait") \/ (y.st = "gone" /\ x.result \in {"failed", "aborted"})

\* The types of what the coroutines and connections change.
Typed == q \in [Req -> ReqRec] /\ k \in [Conn -> ConnRec] /\ execs \in [Req -> Nat]

\* A coroutine has a connection exactly while it waits, and has it alone.
Holding ==
    /\ \A r \in Req : q[r].conn # NoConn <=> q[r].pc \in Waits
    /\ \A r, p \in Req : q[r].conn = q[p].conn /\ q[r].conn # NoConn => r = p
    /\ \A c \in Conn : k[c].st = "held" => \E r \in Req : q[r].conn = c

\* Requests, connections and exchanges, each by itself.
Local ==
    /\ \A r \in Req : ReqOK(q[r], execs[r])
    /\ \A c \in Conn : ConnOK(k[c])
    /\ \A r \in Req : q[r].pc \in Waits => Exchange(r, q[r].pc, k[q[r].conn], execs[r])

\* A command is on its way on one connection at most.
Sending ==
    /\ \A r \in Req, c \in Conn : UnderwayOK(r, q[r], c, k[c], execs[r])
    /\ \A r \in Req, c, d \in Conn : Underway(r, k[c]) /\ Underway(r, k[d]) => c = d

IInv == Typed /\ Holding /\ Local /\ Sending

\* What the coroutine of r does with its connection, or with one it takes:
\* only that request and that connection have to be looked at.
LEMMA RequestStep ==
    ASSUME IInv, NEW r \in Req, NEW c \in Conn, NEW x \in ReqRec, NEW y \in ConnRec,
           q' = [q EXCEPT ![r] = x], k' = [k EXCEPT ![c] = y], execs' = execs,
           q[r].pc # "done",
           q[r].conn = c \/ (q[r].conn = NoConn /\ k[c].st \in {"closed", "idle"}),
           ConnOK(y), ReqOK(x, execs[r]),
           \/ x.conn = c /\ x.pc \in Waits /\ Exchange(r, x.pc, y, execs[r])
           \/ x.conn = NoConn /\ x.pc \notin Waits /\ y.st # "held",
           \A p \in Req : Underway(p, y) => p = r /\ UnderwayOK(r, x, c, y, execs[r])
    PROVE  IInv'
  <1> USE ClusterAssumption
  <1>1. Typed'
    BY DEF IInv, Typed
  <1>0. /\ \A p \in Req : p # r => q'[p] = q[p]
        /\ q'[r] = x
        /\ \A d \in Conn : d # c => k'[d] = k[d]
        /\ k'[c] = y
    BY DEF IInv, Typed
  <1>2. \A p \in Req : p # r => q[p].conn # c
    BY DEF IInv, Typed, Holding, Local, Exchange
  <1>3. Holding'
    BY <1>0, <1>2 DEF IInv, Holding, Exchange
  <1>4. Local'
    <2>1. \A p \in Req : ReqOK(q'[p], execs'[p])
      BY <1>0 DEF IInv, Local
    <2>2. \A d \in Conn : ConnOK(k'[d])
      BY <1>0 DEF IInv, Local
    <2>3. ASSUME NEW p \in Req, q'[p].pc \in Waits
          PROVE  Exchange(p, q'[p].pc, k'[q'[p].conn], execs'[p])
      <3>1. CASE p = r
        BY <1>0, <2>3, <3>1
      <3>2. CASE p # r
        <4>1. q'[p] = q[p] /\ q[p].conn # c /\ q[p].conn \in Conn
          BY <1>0, <1>2, <2>3, <3>2 DEF IInv, Typed, Holding, ReqRec, SomeConn
        <4>2. k'[q[p].conn] = k[q[p].conn]
          BY <1>0, <4>1
        <4> QED BY <2>3, <4>1, <4>2 DEF IInv, Local
      <3> QED BY <3>1, <3>2
    <2> QED BY <2>1, <2>2, <2>3 DEF Local
  <1>5. \A d \in Conn : d # c => ~Underway(r, k[d])
    <2> SUFFICES ASSUME NEW d \in Conn, d # c, Underway(r, k[d]) PROVE FALSE
      OBVIOUS
    <2>1. (q[r].conn = d /\ q[r].pc = "wait") \/ q[r].result \in {"failed", "aborted"}
      BY DEF IInv, Sending, UnderwayOK
    <2>2. q[r].result = "none"
      BY DEF IInv, Local, ReqOK
    <2> QED BY <2>1, <2>2
  <1>6. Sending'
    <2>1. ASSUME NEW p \in Req, NEW d \in Conn
          PROVE  UnderwayOK(p, q'[p], d, k'[d], execs'[p])
      <3>1. CASE p = r /\ d = c
        BY <1>0, <3>1 DEF UnderwayOK
      <3>2. CASE p = r /\ d # c
        BY <1>0, <1>5, <3>2 DEF UnderwayOK
      <3>3. CASE p # r /\ d = c
        BY <1>0, <3>3 DEF UnderwayOK
      <3>4. CASE p # r /\ d # c
        BY <1>0, <3>4 DEF IInv, Sending
      <3> QED BY <3>1, <3>2, <3>3, <3>4
    <2>2. ASSUME NEW p \in Req, NEW d \in Conn, NEW f \in Conn,
                 Underway(p, k'[d]), Underway(p, k'[f])
          PROVE  d = f
      BY <1>0, <1>5, <2>2 DEF IInv, Sending
    <2> QED BY <2>1, <2>2 DEF Sending
  <1> QED BY <1>1, <1>3, <1>4, <1>6 DEF IInv

-----------------------------------------------------------------------------
(* What the operations on a request's locals leave behind. *)

\* The values the code assigns to the locals have their types.
LEMMA Values ==
    /\ \A pc \in {"start", "link", "pong", "asked", "wait", "nested", "done"} : pc \in Pcs
    /\ \A res \in {"none", "ok", "refused", "failed", "aborted"} : res \in Results
    /\ \A mode \in RandomModes \cup {"slot", "moved", "ask"} : mode \in Modes
    /\ "last" \in RandomModes /\ "again" \in RandomModes /\ "unknown" \in RandomModes
    /\ 0 \in Tries /\ 0 \in Tried
    /\ NoNode \in SomeNode /\ NoConn \in SomeConn
    /\ Node \subseteq SomeNode /\ Conn \subseteq SomeConn
    /\ \A st \in {"closed", "gone", "held", "idle"} : st \in States
    /\ <<>> \in Outs /\ <<>> \in Ins
  BY ClusterAssumption
  DEF Pcs, Results, Modes, RandomModes, Tries, Tried, SomeNode, SomeConn, States, Outs, Ins

\* Attempts are counted.
LEMMA AttemptsNat ==
    ASSUME NEW x \in ReqRec
    PROVE  x.attempts \in Nat /\ TryCount \in Nat
  <1>1. x.attempts \in Tried
    BY Zenon DEF ReqRec
  <1> QED BY <1>1, ClusterAssumption DEF Tried

\* A coroutine that returns has given up its connection.
LEMMA FinishedLemma ==
    ASSUME NEW x \in ReqRec, NEW res \in {"ok", "refused", "failed", "aborted"}
    PROVE  /\ Finished(x, res) \in ReqRec
           /\ Finished(x, res).pc = "done" /\ Finished(x, res).conn = NoConn
           /\ Finished(x, res).result = res /\ Finished(x, res).foreign = x.foreign
  <1>1. Finished(x, res) \in ReqRec
    BY Values, Zenon DEF Finished, ReqRec
  <1> QED BY <1>1 DEF Finished, ReqRec

\* A coroutine that looks for another connection holds none.
LEMMA GoRandomLemma ==
    ASSUME NEW x \in ReqRec, NEW mode \in Modes
    PROVE  /\ GoRandom(x, mode) \in ReqRec
           /\ GoRandom(x, mode).pc = "link" /\ GoRandom(x, mode).conn = NoConn
           /\ GoRandom(x, mode).result = x.result /\ GoRandom(x, mode).foreign = x.foreign
  <1>1. GoRandom(x, mode) \in ReqRec
    BY Values, Zenon DEF GoRandom, ReqRec
  <1> QED BY <1>1 DEF GoRandom, ReqRec

\* get_random_connection goes on or gives up, and holds nothing either way.
LEMMA NextTryLemma ==
    ASSUME NEW x \in ReqRec
    PROVE  /\ NextTry(x) \in ReqRec
           /\ NextTry(x).conn = NoConn /\ NextTry(x).foreign = x.foreign
           /\ \/ NextTry(x).pc = "link" /\ NextTry(x).result = x.result
              \/ NextTry(x).pc = "done" /\ NextTry(x).result \in {"refused", "failed"}
  <1> DEFINE y == [x EXCEPT !.conn = NoConn]
  <1>1. y \in ReqRec /\ y.foreign = x.foreign /\ y.result = x.result /\ y.conn = NoConn
        /\ y.tries = x.tries
    BY Values DEF ReqRec
  <1>2. CASE x.tries + 1 < MaxCount
    <2>1. x.tries + 1 \in Tries
      BY <1>2, ClusterAssumption DEF ReqRec, Tries
    <2>0. PICK t \in Tries : t = x.tries + 1
      BY <2>1
    <2>2. NextTry(x) = [y EXCEPT !.pc = "link", !.tries = t]
      BY <1>1, <1>2, <2>0 DEF NextTry
    <2> HIDE DEF y
    <2>3. NextTry(x) \in ReqRec
      BY <1>1, <2>2, Values, Zenon DEF ReqRec
    <2> QED BY <1>1, <2>2, <2>3 DEF ReqRec
  <1>3. CASE ~(x.tries + 1 < MaxCount) /\ x.mode = "unknown"
    <2>1. NextTry(x) = GoRandom(y, "last") /\ "last" \in Modes
      BY <1>3, Values DEF NextTry
    <2> HIDE DEF y
    <2> QED BY <1>1, <2>1, GoRandomLemma
  <1>4. CASE ~(x.tries + 1 < MaxCount) /\ x.mode # "unknown"
    <2> DEFINE res == IF x.mode = "again" THEN "refused" ELSE "failed"
    <2>1. NextTry(x) = Finished(y, res)
      BY <1>4 DEF NextTry
    <2>2. res \in {"refused", "failed"}
      OBVIOUS
    <2> HIDE DEF y, res
    <2> QED BY <1>1, <2>1, <2>2, FinishedLemma
  <1> QED BY <1>2, <1>3, <1>4

\* The retry loop waits for one more reply or returns the last refusal.
LEMMA AttemptLemma ==
    ASSUME NEW x \in ReqRec, NEW c \in Conn
    PROVE  /\ Attempt(x, c) \in ReqRec
           /\ Attempt(x, c).foreign = x.foreign
           /\ MayTry(x) => Attempt(x, c).pc = "wait" /\ Attempt(x, c).conn = c
                           /\ Attempt(x, c).result = x.result
           /\ ~MayTry(x) => Attempt(x, c).pc = "done" /\ Attempt(x, c).conn = NoConn
                            /\ Attempt(x, c).result = "refused"
  <1>1. CASE MayTry(x)
    <2>1. x.attempts + 1 \in Tried
      BY <1>1, ClusterAssumption DEF MayTry, ReqRec, Tried
    <2>2. Attempt(x, c) = [x EXCEPT !.pc = "wait", !.conn = c, !.attempts = @ + 1,
                                    !.mode = "last", !.tries = 0, !.target = NoNode]
      BY <1>1 DEF Attempt
    <2>3. Attempt(x, c) \in ReqRec
      BY <2>1, <2>2, Values, Zenon DEF ReqRec
    <2> QED BY <1>1, <2>2, <2>3 DEF ReqRec
  <1>2. CASE ~MayTry(x)
    BY <1>2, FinishedLemma DEF Attempt
  <1> QED BY <1>1, <1>2

\* The history flag is all that Disturbed changes.
LEMMA DisturbedLemma ==
    ASSUME NEW x \in ReqRec
    PROVE  /\ Disturbed(x) \in ReqRec
           /\ Disturbed(x).pc = x.pc /\ Disturbed(x).conn = x.conn /\ Disturbed(x).mode = x.mode
           /\ Disturbed(x).result = x.result /\ Disturbed(x).foreign = x.foreign
           /\ Disturbed(x).tries = x.tries /\ Disturbed(x).attempts = x.attempts
           /\ Disturbed(x).target = x.target
  BY Zenon DEF Disturbed, ReqRec

(* And those on a connection. *)

\* A closed connection has nothing on its way.
LEMMA ClosedLemma ==
    /\ Closed \in ConnRec /\ ConnOK(Closed) /\ Closed.st = "closed" /\ ~Closed.alive
    /\ \A p \in Req : ~Underway(p, Closed)
  <1>1. Closed \in ConnRec
    BY Values DEF Closed, ConnRec
  <1>2. ConnOK(Closed) /\ Closed.st = "closed" /\ ~Closed.alive
    BY DEF Closed, ConnOK
  <1>3. Len(Closed.out) = 0
    BY DEF Closed
  <1> QED BY <1>1, <1>2, <1>3 DEF Underway

\* close() leaves at most the command that was sent on its way.
LEMMA CloseLemma ==
    ASSUME NEW y \in ConnRec, ConnOK(y), y.st # "gone", Len(y.out) \in {0, 1}
    PROVE  /\ Close(y) \in ConnRec /\ ConnOK(Close(y)) /\ Close(y).st \notin {"held", "idle"}
           /\ \A p \in Req : Underway(p, Close(y)) => Underway(p, y) /\ Close(y).st = "gone"
  <1>1. CASE y.alive /\ y.out # <<>>
    <2> DEFINE z == [y EXCEPT !.st = "gone", !.in = <<>>]
    <2>1. Close(y) = z
      BY <1>1 DEF Close
    <2>0. z \in ConnRec
      BY Values, Zenon DEF ConnRec
    <2>2. z \in ConnRec /\ z.st = "gone" /\ z.in = <<>> /\ z.out = y.out /\ z.alive = y.alive
      BY <2>0 DEF ConnRec
    <2>3. Len(y.out) = 1
      BY <1>1 DEF ConnRec, Outs
    <2>4. ConnOK(z)
      BY <1>1, <2>2, <2>3 DEF ConnOK
    <2>5. \A p \in Req : Underway(p, z) => Underway(p, y)
      BY <2>2 DEF Underway
    <2> HIDE DEF z
    <2> QED BY <2>1, <2>2, <2>4, <2>5
  <1>2. CASE ~(y.alive /\ y.out # <<>>)
    <2>1. Close(y) = Closed
      BY <1>2 DEF Close
    <2> QED BY <2>1, ClosedLemma
  <1> QED BY <1>1, <1>2

\* A stream with one message on it.
LEMMA Single ==
    ASSUME NEW S, NEW s \in Seq(S), Len(s) = 1
    PROVE  Head(s) = s[1] /\ s[1] \in S /\ Tail(s) = <<>> /\ s # <<>>
  <1>1. s # <<>> /\ Head(s) = s[1] /\ s[1] \in S
    OBVIOUS
  <1>2. s = <<s[1]>>
    OBVIOUS
  <1>3. Tail(<<s[1]>>) = <<>>
    BY <1>1
  <1> QED BY <1>1, <1>2, <1>3, Zenon

\* Sending on a connection with nothing on it starts an exchange.
LEMMA SendLemma ==
    ASSUME NEW y \in ConnRec, ConnOK(y), y.st = "held", y.in = <<>>, y.out = <<>>,
           NEW r \in Req, NEW e, NEW pc \in Waits, NEW cmd, cmd = Question(pc)
    PROVE  /\ SendOn(y, cmd, r) \in ConnRec /\ ConnOK(SendOn(y, cmd, r))
           /\ Exchange(r, pc, SendOn(y, cmd, r), e)
           /\ \A p \in Req : Underway(p, SendOn(y, cmd, r)) => p = r /\ pc = "wait"
  <1> DEFINE m == [cmd |-> cmd, req |-> r]
             z == [y EXCEPT !.out = <<m>>]
  <1>0. cmd \in Commands /\ (cmd = "CMD" => pc = "wait")
    BY DEF Question, Waits, Commands
  <1>1. m \in Query
    BY <1>0 DEF Query
  <1>2. <<m>> \in Outs /\ Len(<<m>>) = 1
    BY <1>1 DEF Outs
  <1>3. CASE y.alive
    <2>1. SendOn(y, cmd, r) = z
      <3>1. y.out \in Seq(Query) /\ Append(y.out, m) = <<m>>
        BY <1>1 DEF ConnRec, Outs
      <3> QED BY <1>3, <3>1 DEF SendOn
    <2>2. z \in ConnRec
      BY <1>2 DEF ConnRec
    <2>3. z.st = "held" /\ z.in = <<>> /\ z.out = <<m>> /\ z.alive = y.alive
      BY <2>2 DEF ConnRec
    <2>4. ConnOK(z) /\ Exchange(r, pc, z, e)
      BY <1>3, <2>3 DEF ConnOK, Exchange, Unanswered
    <2>5. \A p \in Req : Underway(p, z) => p = r /\ cmd = "CMD"
      BY <2>3 DEF Underway
    <2> QED BY <1>0, <2>1, <2>2, <2>4, <2>5
  <1>4. CASE ~y.alive
    <2>1. SendOn(y, cmd, r) = y
      BY <1>4 DEF SendOn
    <2>2. Exchange(r, pc, y, e)
      BY <1>4 DEF Exchange, Lost
    <2>3. \A p \in Req : ~Underway(p, y)
      BY DEF Underway
    <2> QED BY <2>1, <2>2, <2>3
  <1> QED BY <1>3, <1>4

\* set_keepalive of a connection whose exchange is over pools a clean one.
LEMMA KeepLemma ==
    ASSUME NEW y \in ConnRec, ConnOK(y), y.st = "held", y.in = <<>>, y.out = <<>>, ~y.asking,
           NEW z \in SetKeepalive(y)
    PROVE  z \in ConnRec /\ ConnOK(z) /\ z.st # "held" /\ \A p \in Req : ~Underway(p, z)
  <1> DEFINE i == [y EXCEPT !.st = "idle"]
  <1>1. i \in ConnRec
    BY Values DEF ConnRec
  <1>2. i.st = "idle" /\ i.in = <<>> /\ i.out = <<>> /\ i.asking = y.asking /\ i.alive = y.alive
    BY <1>1 DEF ConnRec
  <1>3. ConnOK(i) /\ \A p \in Req : ~Underway(p, i)
    BY <1>2 DEF ConnOK, Underway
  <1>4. z = i \/ z = Close(y)
    BY DEF SetKeepalive
  <1>5. CASE z = i
    BY <1>1, <1>2, <1>3, <1>5
  <1>6. CASE z = Close(y)
    <2>1. \A p \in Req : ~Underway(p, y)
      BY DEF Underway
    <2> QED BY <1>6, <2>1, CloseLemma
  <1> QED BY <1>4, <1>5, <1>6

-----------------------------------------------------------------------------
(* The steps of a request. *)

\* A step of r between two connections.
LEMMA LocalStep ==
    ASSUME IInv, NEW r \in Req, NEW x \in ReqRec, q' = [q EXCEPT ![r] = x], k' = k,
           execs' = execs, q[r].conn = NoConn, q[r].pc # "done",
           x.conn = NoConn, x.pc \notin Waits, ReqOK(x, execs[r])
    PROVE  IInv'
  <1>0. q'[r] = x /\ \A p \in Req : p # r => q'[p] = q[p]
    BY DEF IInv, Typed
  <1>1. Typed'
    BY DEF IInv, Typed
  <1>2. Holding'
    BY <1>0, ClusterAssumption DEF IInv, Holding
  <1>3. Local'
    BY <1>0, Zenon DEF IInv, Local
  <1>4. \A c \in Conn : ~Underway(r, k[c])
    BY ClusterAssumption DEF IInv, Sending, UnderwayOK, Local, ReqOK
  <1>5. Sending'
    <2>1. \A p \in Req, c \in Conn : UnderwayOK(p, q'[p], c, k'[c], execs'[p])
      BY <1>0, <1>4 DEF IInv, Sending, UnderwayOK
    <2> QED BY <2>1 DEF IInv, Sending
  <1> QED BY <1>1, <1>2, <1>3, <1>5 DEF IInv

\* What is known of a coroutine that waits.
LEMMA Waiting ==
    ASSUME IInv, NEW r \in Req, q[r].pc \in Waits
    PROVE  /\ q[r] \in ReqRec /\ q[r].conn \in Conn /\ k[q[r].conn] \in ConnRec
           /\ ReqOK(q[r], execs[r]) /\ q[r].pc # "done" /\ q[r].result = "none"
           /\ ConnOK(k[q[r].conn]) /\ k[q[r].conn].st = "held"
           /\ Exchange(r, q[r].pc, k[q[r].conn], execs[r])
           /\ Len(k[q[r].conn].out) \in {0, 1}
           /\ \A p \in Req : Underway(p, k[q[r].conn]) => p = r /\ q[r].pc = "wait" /\ execs[r] = 0
  <1> DEFINE c == q[r].conn
  <1>1. q[r] \in ReqRec /\ c \in Conn
    BY DEF IInv, Typed, Holding, ReqRec, SomeConn
  <1>2. k[c] \in ConnRec /\ ConnOK(k[c])
    BY <1>1 DEF IInv, Typed, Local
  <1>3. ReqOK(q[r], execs[r]) /\ q[r].pc # "done" /\ q[r].result = "none"
    BY DEF IInv, Local, ReqOK, Waits
  <1>4. Exchange(r, q[r].pc, k[c], execs[r])
    BY DEF IInv, Local
  <1>5. k[c].st = "held" /\ Len(k[c].out) \in {0, 1}
    BY <1>2, <1>4, Zenon DEF Exchange, Unanswered, Answer, Lost, ConnOK
  <1>6. ASSUME NEW p \in Req, Underway(p, k[c])
        PROVE  p = r /\ q[r].pc = "wait" /\ execs[r] = 0
    <2>1. q[p].conn = c /\ q[p].pc = "wait" /\ execs[p] = 0
      BY <1>1, <1>5, <1>6 DEF IInv, Sending, UnderwayOK
    <2>2. p = r
      BY <1>1, <2>1, ClusterAssumption DEF IInv, Holding
    <2> QED BY <2>1, <2>2
  <1> QED BY <1>1, <1>2, <1>3, <1>4, <1>5, <1>6

\* What is known of one that has a reply to read.
LEMMA Reading ==
    ASSUME IInv, NEW r \in Req, q[r].pc \in Waits, Readable(r)
    PROVE  /\ Reader(r) = q[r]
           /\ Reply(r).req = r /\ Reply(r).kind \in Answers(q[r].pc) /\ Reply(r) \in Message
           /\ q[r].pc = "wait" => (Reply(r).kind = "VALUE" <=> execs[r] = 1)
           /\ Rest(r) \in ConnRec /\ ConnOK(Rest(r)) /\ Rest(r).st = "held"
           /\ Rest(r).in = <<>> /\ Rest(r).out = <<>>
           /\ q[r].pc = "wait" => ~Rest(r).asking
  <1> DEFINE c == q[r].conn
             y == k[c]
             e == execs[r]
  <1>1. /\ q[r] \in ReqRec /\ c \in Conn /\ y \in ConnRec
        /\ ReqOK(q[r], e) /\ ConnOK(y) /\ y.st = "held" /\ Exchange(r, q[r].pc, y, e)
    BY Waiting
  <1>2. y.in # <<>>
    BY Zenon DEF Readable
  <1>3. Answer(r, q[r].pc, y, e)
    BY <1>1, <1>2 DEF Exchange, Unanswered, Lost
  <1>4. Reply(r) = y.in[1] /\ Reply(r) \in Message /\ Tail(y.in) = <<>>
    <2>1. y.in \in Seq(Message) /\ Len(y.in) = 1
      BY <1>1, <1>3 DEF ConnRec, Ins, Answer
    <2>2. Reply(r) = Head(y.in)
      BY DEF Reply
    <2> HIDE DEF y
    <2>3. Reply(r) = y.in[1] /\ y.in[1] \in Message
      BY <2>1, <2>2, Single
    <2>4. Tail(y.in) = <<>>
      BY <2>1, Single
    <2> QED BY <2>3, <2>4, Zenon
  <1>5. Reader(r) = q[r]
    <2>1. Reply(r).req = r /\ ~q[r].foreign
      BY <1>1, <1>3, <1>4 DEF Answer, ReqOK
    <2>3. (q[r].foreign \/ Reply(r).req # r) = q[r].foreign
      <3>1. q[r].foreign \in BOOLEAN
        BY <1>1 DEF ReqRec
      <3> QED BY <2>1, <3>1, Zenon
    <2>2. Reader(r) = [q[r] EXCEPT !.foreign = q[r].foreign]
      BY <2>3, Zenon DEF Reader
    <2> QED BY <1>1, <2>2, Zenon DEF ReqRec
  <1>6. Rest(r) = [y EXCEPT !.in = <<>>]
    BY <1>4, Zenon DEF Rest
  <1> HIDE DEF y, e
  <1>7. Rest(r) \in ConnRec
    BY <1>1, <1>6, Values DEF ConnRec
  <1>8. /\ Rest(r).st = "held" /\ Rest(r).in = <<>> /\ Rest(r).out = <<>>
        /\ Rest(r).asking = y.asking /\ Rest(r).alive = y.alive
    BY <1>1, <1>3, <1>6, <1>7, Zenon DEF ConnRec, Answer
  <1>9. ConnOK(Rest(r))
    BY <1>1, <1>8, Zenon DEF ConnOK
  <1> QED BY <1>3, <1>4, <1>5, <1>7, <1>8, <1>9, Zenon DEF Answer, y, e

\* A connection is at hand: one more attempt, or the end.
LEMMA AttemptStep ==
    ASSUME IInv, NEW r \in Req, NEW c \in Conn, NEW x \in ReqRec, NEW y \in ConnRec,
           q' = [q EXCEPT ![r] = Attempt(x, c)], k' = [k EXCEPT ![c] = AttemptOn(x, r, y)],
           execs' = execs, q[r].pc # "done",
           q[r].conn = c \/ (q[r].conn = NoConn /\ k[c].st \in {"closed", "idle"}),
           ReqOK(x, execs[r]), execs[r] = 0, x.result = "none",
           ConnOK(y), y.st = "held", y.in = <<>>, y.out = <<>>
    PROVE  IInv'
  <1> DEFINE a == Attempt(x, c)
             b == AttemptOn(x, r, y)
  <1>1. a \in ReqRec /\ a.foreign = x.foreign
    BY AttemptLemma
  <1>2. CASE MayTry(x)
    <2>1. a.pc = "wait" /\ a.conn = c /\ a.result = "none"
      BY <1>2, AttemptLemma
    <2>2. b = SendOn(y, "CMD", r) /\ "wait" \in Waits /\ "CMD" = Question("wait")
      BY <1>2, Zenon DEF AttemptOn, Question, Waits
    <2>3. /\ b \in ConnRec /\ ConnOK(b) /\ Exchange(r, "wait", b, execs[r])
          /\ \A p \in Req : Underway(p, b) => p = r
      BY <2>2, SendLemma
    <2>4. ReqOK(a, execs[r])
      BY <1>1, <2>1, Zenon DEF ReqOK
    <2>5. UnderwayOK(r, a, c, b, execs[r])
      BY <2>1 DEF UnderwayOK
    <2> HIDE DEF a, b
    <2> QED BY <1>1, <2>1, <2>2, <2>3, <2>4, <2>5, RequestStep, Zenon DEF a, b
  <1>3. CASE ~MayTry(x)
    <2>1. a.pc = "done" /\ a.conn = NoConn /\ a.result = "refused" /\ a.pc \notin Waits
      BY <1>3, AttemptLemma, Zenon DEF Waits
    <2>2. b = Close(y)
      BY <1>3, Zenon DEF AttemptOn
    <2>3. \A p \in Req : ~Underway(p, y)
      BY DEF Underway
    <2>4. b \in ConnRec /\ ConnOK(b) /\ b.st # "held" /\ \A p \in Req : ~Underway(p, b)
      BY <2>2, <2>3, CloseLemma, Zenon
    <2>5. ReqOK(a, execs[r])
      BY <1>1, <2>1 DEF ReqOK
    <2> HIDE DEF a, b
    <2> QED BY <1>1, <2>1, <2>4, <2>5, RequestStep, Zenon DEF a, b
  <1> QED BY <1>2, <1>3, Zenon

\* The slot table gives the first node, or none.
LEMMA StartStep ==
    ASSUME IInv, NEW r \in Req, Start(r), slots \in [Slot -> Node \cup {NoNode}]
    PROVE  IInv'
  <1> DEFINE node == IF SlotOf[r] = NoSlot THEN NoNode ELSE slots[SlotOf[r]]
             x == IF node = NoNode THEN GoRandom(q[r], "unknown")
                  ELSE [q[r] EXCEPT !.pc = "link", !.mode = "slot", !.target = node]
  <1>1. q' = [q EXCEPT ![r] = x] /\ k' = k /\ execs' = execs /\ q[r].pc = "start"
    BY DEF Start
  <1>2. q[r] \in ReqRec /\ ReqOK(q[r], execs[r]) /\ q[r].conn = NoConn
    BY <1>1 DEF IInv, Typed, Local, Holding, Waits
  <1>3. node \in SomeNode
    BY ClusterAssumption DEF SomeNode
  <1>4. /\ x \in ReqRec /\ x.pc = "link" /\ x.conn = NoConn /\ x.result = q[r].result
        /\ x.foreign = q[r].foreign
    <2>1. CASE node = NoNode
      <3>1. x = GoRandom(q[r], "unknown") /\ "unknown" \in Modes
        BY <2>1, Values
      <3> QED BY <1>2, <3>1, GoRandomLemma
    <2>2. CASE node # NoNode
      <3> HIDE DEF node
      <3>1. x = [q[r] EXCEPT !.pc = "link", !.mode = "slot", !.target = node]
        BY <2>2
      <3>2. x \in ReqRec
        BY <1>2, <1>3, <3>1, Values, Zenon DEF ReqRec
      <3> QED BY <1>2, <3>1, <3>2, Zenon DEF ReqRec
    <2> QED BY <2>1, <2>2, Zenon
  <1>5. ReqOK(x, execs[r]) /\ x.pc \notin Waits
    BY <1>1, <1>2, <1>4 DEF ReqOK, Waits
  <1> HIDE DEF x
  <1> QED BY <1>1, <1>2, <1>4, <1>5, LocalStep, Zenon

\* What a connection is when connect() returns it.
LEMMA LinkedLemma ==
    ASSUME IInv, NEW n \in Node, NEW c \in LinksTo(n)
    PROVE  /\ c \in Conn /\ k[c].st \in {"closed", "idle"}
           /\ Linked(c, n) \in ConnRec /\ ConnOK(Linked(c, n)) /\ Linked(c, n).st = "held"
           /\ Linked(c, n).in = <<>> /\ Linked(c, n).out = <<>>
  <1>1. c \in Conn /\ k[c].st \in {"closed", "idle"}
    BY DEF LinksTo, IdleTo
  <1>2. k[c] \in ConnRec /\ ConnOK(k[c])
    BY <1>1, Zenon DEF IInv, Typed, Local
  <1>3. CASE k[c].st = "idle"
    <2>1. Linked(c, n) = [k[c] EXCEPT !.st = "held"]
      BY <1>3 DEF Linked
    <2>2. Linked(c, n) \in ConnRec
      BY <1>2, <2>1, Values DEF ConnRec
    <2>3. /\ Linked(c, n).st = "held" /\ Linked(c, n).in = k[c].in /\ Linked(c, n).out = k[c].out
          /\ Linked(c, n).asking = k[c].asking /\ Linked(c, n).alive = k[c].alive
      BY <1>2, <2>1, <2>2, Zenon DEF ConnRec
    <2> QED BY <1>1, <1>2, <1>3, <2>2, <2>3 DEF ConnOK
  <1>4. CASE k[c].st # "idle"
    <2>1. Linked(c, n) = Fresh(n)
      BY <1>4 DEF Linked
    <2>2. Fresh(n) \in ConnRec
      BY Values DEF ConnRec, Fresh
    <2> QED BY <1>1, <2>1, <2>2 DEF ConnOK, Fresh
  <1> QED BY <1>3, <1>4

\* connect() succeeds, and the coroutine sends on what it got.
LEMMA LinkStep ==
    ASSUME IInv, NEW r \in Req, NEW n \in Node, NEW c \in Conn, Link(r, n, c)
    PROVE  IInv'
  <1> DEFINE y == Linked(c, n)
             x == IF y.alive THEN q[r] ELSE Disturbed(q[r])
  <1>1. /\ k[c].st \in {"closed", "idle"} /\ y \in ConnRec /\ ConnOK(y) /\ y.st = "held"
        /\ y.in = <<>> /\ y.out = <<>>
    BY LinkedLemma DEF Link
  <1>2. /\ q[r].pc = "link" /\ q[r] \in ReqRec /\ ReqOK(q[r], execs[r]) /\ execs[r] = 0
        /\ q[r].conn = NoConn /\ q[r].result = "none"
    BY Zenon DEF Link, IInv, Typed, Holding, Local, ReqOK, Waits
  <1>3. /\ x \in ReqRec /\ x.pc = "link" /\ x.conn = NoConn /\ x.result = "none"
        /\ x.foreign = q[r].foreign /\ x.mode = q[r].mode
    BY <1>2, DisturbedLemma, Zenon
  <1>4. ReqOK(x, execs[r])
    BY <1>2, <1>3 DEF ReqOK
  <1>5. execs' = execs
    BY DEF Link
  <1>6. ASSUME NEW pc \in {"pong", "asked"},
               q' = [q EXCEPT ![r] = [x EXCEPT !.pc = pc, !.conn = c]],
               k' = [k EXCEPT ![c] = SendOn(y, Question(pc), r)]
        PROVE  IInv'
    <2> HIDE DEF x, y
    <2> DEFINE w == [x EXCEPT !.pc = pc, !.conn = c]
               z == SendOn(y, Question(pc), r)
    <2>0. pc \in Waits /\ pc # "wait"
      BY DEF Waits
    <2>1. w \in ReqRec
      BY <1>3, Values, Zenon DEF ReqRec
    <2>2. w.pc = pc /\ w.conn = c /\ w.result = "none" /\ w.foreign = x.foreign
      BY <1>3, <2>1 DEF ReqRec
    <2>3. ReqOK(w, execs[r])
      BY <1>2, <1>4, <2>2, Zenon DEF ReqOK
    <2>4. /\ z \in ConnRec /\ ConnOK(z) /\ Exchange(r, pc, z, execs[r])
          /\ \A p \in Req : ~Underway(p, z)
      BY <1>1, <2>0, SendLemma, Zenon
    <2>5. q' = [q EXCEPT ![r] = w] /\ k' = [k EXCEPT ![c] = z]
      BY <1>6
    <2> HIDE DEF w, z
    <2> QED BY <1>1, <1>2, <1>5, <2>0, <2>1, <2>2, <2>3, <2>4, <2>5, RequestStep, Zenon
  <1>7. CASE q' = [q EXCEPT ![r] = Attempt(x, c)] /\ k' = [k EXCEPT ![c] = AttemptOn(x, r, y)]
    <2> HIDE DEF x, y
    <2> QED BY <1>1, <1>2, <1>3, <1>4, <1>5, <1>7, AttemptStep, Zenon
  <1>8. Question("pong") = "PING" /\ Question("asked") = "ASKING"
    BY DEF Question
  <1>9. \/ /\ q' = [q EXCEPT ![r] = [x EXCEPT !.pc = "pong", !.conn = c]]
           /\ k' = [k EXCEPT ![c] = SendOn(y, "PING", r)]
        \/ /\ q' = [q EXCEPT ![r] = [x EXCEPT !.pc = "asked", !.conn = c]]
           /\ k' = [k EXCEPT ![c] = SendOn(y, "ASKING", r)]
        \/ /\ q' = [q EXCEPT ![r] = Attempt(x, c)]
           /\ k' = [k EXCEPT ![c] = AttemptOn(x, r, y)]
    BY DEF Link
  <1> HIDE DEF x, y
  <1> QED BY <1>6, <1>7, <1>8, <1>9

\* connect() fails before anything was sent.
LEMMA LinkFailStep ==
    ASSUME IInv, NEW r \in Req, NEW n \in Node, LinkFail(r, n)
    PROVE  IInv'
  <1> DEFINE x == Disturbed(q[r])
             y == CASE x.mode \in RandomModes -> NextTry(x)
                    [] x.mode = "slot"        -> GoRandom(x, "last")
                    [] OTHER                  -> GoRandom(x, "again")
  <1>1. q' = [q EXCEPT ![r] = y] /\ k' = k /\ execs' = execs /\ q[r].pc = "link"
    BY DEF LinkFail
  <1>2. /\ q[r] \in ReqRec /\ ReqOK(q[r], execs[r]) /\ execs[r] = 0 /\ q[r].conn = NoConn
        /\ q[r].result = "none"
    BY <1>1, Zenon DEF IInv, Typed, Holding, Local, ReqOK, Waits
  <1>3. x \in ReqRec /\ x.result = "none" /\ x.foreign = q[r].foreign
    BY <1>2, DisturbedLemma
  <1>4. y = NextTry(x) \/ y = GoRandom(x, "last") \/ y = GoRandom(x, "again")
    OBVIOUS
  <1>5. "last" \in Modes /\ "again" \in Modes
    BY Values
  <1> HIDE DEF x, y
  <1>6. /\ y \in ReqRec /\ y.conn = NoConn /\ y.foreign = q[r].foreign
        /\ \/ y.pc = "link" /\ y.result = "none"
           \/ y.pc = "done" /\ y.result \in {"refused", "failed"}
    BY <1>3, <1>4, <1>5, NextTryLemma, GoRandomLemma
  <1>7. ReqOK(y, execs[r]) /\ y.pc \notin Waits
    BY <1>2, <1>6 DEF ReqOK, Waits
  <1> QED BY <1>1, <1>2, <1>6, <1>7, LocalStep, Zenon

\* The PONG is the answer to the PING of this coroutine, so the command is sent
\* on a connection with nothing on it.
LEMMA ReadPongStep ==
    ASSUME IInv, NEW r \in Req, ReadPong(r)
    PROVE  IInv'
  <1>1. q[r].pc = "pong" /\ q[r].pc \in Waits /\ Readable(r)
    BY DEF ReadPong, Waits
  <1>2. Reply(r).kind = "PONG"
    BY <1>1, Reading DEF Answers
  <1>3. /\ q' = [q EXCEPT ![r] = Attempt(Reader(r), q[r].conn)]
        /\ k' = [k EXCEPT ![q[r].conn] = AttemptOn(q[r], r, Rest(r))]
        /\ execs' = execs
    BY <1>2, Zenon DEF ReadPong
  <1>4. execs[r] = 0
    BY <1>1, Waiting DEF ReqOK
  <1> QED BY <1>1, <1>3, <1>4, Reading, Waiting, AttemptStep, Zenon

\* So it is with the answer to ASKING.
LEMMA ReadAskingStep ==
    ASSUME IInv, NEW r \in Req, ReadAsking(r)
    PROVE  IInv'
  <1>1. q[r].pc = "asked" /\ q[r].pc \in Waits /\ Readable(r)
    BY DEF ReadAsking, Waits
  <1>2. /\ q' = [q EXCEPT ![r] = Attempt(Reader(r), q[r].conn)]
        /\ k' = [k EXCEPT ![q[r].conn] = AttemptOn(q[r], r, Rest(r))]
        /\ execs' = execs
    BY Zenon DEF ReadAsking
  <1>3. execs[r] = 0
    BY <1>1, Waiting DEF ReqOK
  <1> QED BY <1>1, <1>2, <1>3, Reading, Waiting, AttemptStep, Zenon

\* The reply of the command has been read and the connection given back.
LEMMA GiveBack ==
    ASSUME IInv, NEW r \in Req, q[r].pc = "wait", Readable(r), execs' = execs,
           NEW x \in ReqRec, q' = [q EXCEPT ![r] = x],
           \E y \in SetKeepalive(Rest(r)) : k' = [k EXCEPT ![q[r].conn] = y],
           x.conn = NoConn, x.pc \notin Waits, ReqOK(x, execs[r])
    PROVE  IInv'
  <1>1. q[r].pc \in Waits
    BY DEF Waits
  <1>2. PICK y \in SetKeepalive(Rest(r)) : k' = [k EXCEPT ![q[r].conn] = y]
    BY Zenon
  <1>3. y \in ConnRec /\ ConnOK(y) /\ y.st # "held" /\ \A p \in Req : ~Underway(p, y)
    BY <1>1, Reading, KeepLemma, Zenon
  <1>4. q[r].conn \in Conn /\ q[r].pc # "done"
    BY <1>1, Waiting
  <1> QED BY <1>2, <1>3, <1>4, RequestStep, Zenon

\* No header comes where no reply is a multi-bulk one.
LEMMA ReadHeaderStep ==
    ASSUME IInv, NEW r \in Req, ReadHeader(r)
    PROVE  IInv'
  <1>1. q[r].pc = "wait" /\ q[r].pc \in Waits /\ Readable(r) /\ Reply(r).kind = "HEADER"
    BY DEF ReadHeader, Waits
  <1> QED BY <1>1, Reading DEF Answers

\* A value was read after an execution, an error without one.
LEMMA ReadReplyStep ==
    ASSUME IInv, NEW r \in Req, ReadReply(r)
    PROVE  IInv'
  <1>1. q[r].pc = "wait" /\ q[r].pc \in Waits /\ Readable(r)
    BY Zenon DEF ReadReply, Waits, IInv, Local, ReqOK
  <1>2. Reply(r).kind \in {"VALUE", "ERR"}
    BY <1>1, Reading DEF Answers, ReadReply
  <1> DEFINE res == IF Reply(r).kind = "ERR" THEN "refused" ELSE "ok"
             x == Finished(q[r], res)
  <1>3. /\ q' = [q EXCEPT ![r] = x] /\ execs' = execs
        /\ \E y \in SetKeepalive(Rest(r)) : k' = [k EXCEPT ![q[r].conn] = y]
    BY <1>1, Reading, Zenon DEF ReadReply
  <1>4. (res = "ok" => execs[r] = 1) /\ (res = "refused" => execs[r] = 0) /\ res \in {"ok", "refused"}
    BY <1>1, <1>2, Reading, Waiting, Zenon DEF ReqOK
  <1> HIDE DEF res
  <1>5. /\ x \in ReqRec /\ x.pc = "done" /\ x.conn = NoConn /\ x.result = res
        /\ x.foreign = q[r].foreign
    <2>1. q[r] \in ReqRec
      BY <1>1, Waiting, Zenon
    <2> QED BY <1>4, <2>1, FinishedLemma
  <1> HIDE DEF x
  <1>6. ReqOK(x, execs[r]) /\ x.pc \notin Waits
    BY <1>1, <1>4, <1>5, Waiting DEF ReqOK, Waits
  <1> QED BY <1>1, <1>3, <1>5, <1>6, GiveBack, Zenon

\* A redirected command was not executed, so that it may be sent again.
LEMMA ReadRedirectStep ==
    ASSUME IInv, NEW r \in Req, ReadRedirect(r)
    PROVE  IInv'
  <1>1. q[r].pc = "wait" /\ q[r].pc \in Waits /\ Readable(r)
    BY DEF ReadRedirect, Waits
  <1>2. Reply(r).kind \in {"MOVED", "ASK", "TRYAGAIN"} /\ Reply(r).node \in SomeNode
    BY <1>1, Reading, Zenon DEF ReadRedirect, Message
  <1>3. execs[r] = 0
    BY <1>1, <1>2, Reading, Waiting DEF ReqOK
  <1>4. /\ execs' = execs
        /\ \E y \in SetKeepalive(Rest(r)) : k' = [k EXCEPT ![q[r].conn] = y]
    BY Zenon DEF ReadRedirect
  <1>5. PICK mode \in {"again", "moved", "ask"}, node \in SomeNode :
            q' = [q EXCEPT ![r] = IF mode = "again" THEN GoRandom(q[r], "again")
                                  ELSE [GoRandom(q[r], mode) EXCEPT !.target = node]]
    <2>1. Reader(r) = q[r]
      BY <1>1, Reading
    <2>2. \/ q' = [q EXCEPT ![r] = GoRandom(q[r], "again")]
          \/ q' = [q EXCEPT ![r] = [GoRandom(q[r], "moved") EXCEPT !.target = Reply(r).node]]
          \/ q' = [q EXCEPT ![r] = [GoRandom(q[r], "ask") EXCEPT !.target = Reply(r).node]]
      BY <2>1 DEF ReadRedirect
    <2> QED BY <1>2, <2>2, Zenon
  <1> DEFINE g == GoRandom(q[r], mode)
             x == IF mode = "again" THEN g ELSE [g EXCEPT !.target = node]
  <1>6. mode \in Modes
    BY Values, Zenon
  <1>7. /\ g \in ReqRec /\ g.pc = "link" /\ g.conn = NoConn /\ g.result = "none"
        /\ g.foreign = q[r].foreign
    BY <1>1, <1>6, Waiting, GoRandomLemma
  <1> HIDE DEF g
  <1>8. x \in ReqRec
    BY <1>7 DEF ReqRec
  <1>9. x.pc = "link" /\ x.conn = NoConn /\ x.result = "none" /\ x.foreign = q[r].foreign
    BY <1>7, <1>8 DEF ReqRec
  <1>10. q' = [q EXCEPT ![r] = x]
    BY <1>5, Zenon DEF g
  <1> HIDE DEF x
  <1>11. ReqOK(x, execs[r]) /\ x.pc \notin Waits
    BY <1>1, <1>3, <1>9, Waiting DEF ReqOK, Waits
  <1> QED BY <1>1, <1>4, <1>8, <1>9, <1>10, <1>11, GiveBack, Zenon

\* The coroutine gives up its connection.
LEMMA GiveUp ==
    ASSUME IInv, NEW r \in Req, q[r].pc \in Waits, execs' = execs,
           NEW x \in ReqRec, q' = [q EXCEPT ![r] = x],
           k' = [k EXCEPT ![q[r].conn] = Close(k[q[r].conn])],
           x.conn = NoConn, x.pc \notin Waits, ReqOK(x, execs[r]),
           q[r].pc = "wait" => x.result \in {"failed", "aborted"}
    PROVE  IInv'
  <1> DEFINE y == Close(k[q[r].conn])
  <1>1. /\ y \in ConnRec /\ ConnOK(y) /\ y.st \notin {"held", "idle"}
        /\ \A p \in Req : Underway(p, y) => Underway(p, k[q[r].conn]) /\ y.st = "gone"
    BY Waiting, CloseLemma
  <1>2. \A p \in Req : Underway(p, y) => p = r /\ UnderwayOK(r, x, q[r].conn, y, execs[r])
    BY <1>1, Waiting, Zenon DEF UnderwayOK
  <1>3. q[r].conn \in Conn /\ q[r].pc # "done"
    BY Waiting
  <1> HIDE DEF y
  <1> QED BY <1>1, <1>2, <1>3, RequestStep, Zenon DEF y

\* What a coroutine does that got no reply.
LEMMA NoReplyLemma ==
    ASSUME NEW x \in ReqRec, x.pc \in Waits, NEW e, ReqOK(x, e)
    PROVE  /\ NoReply(x) \in ReqRec /\ NoReply(x).conn = NoConn /\ NoReply(x).pc \notin Waits
           /\ ReqOK(NoReply(x), e)
           /\ x.pc = "wait" => NoReply(x).result = "failed"
  <1> DEFINE y == NoReply(x)
  <1>1. CASE x.pc = "pong"
    <2>1. y = NextTry(x)
      BY <1>1 DEF NoReply
    <2>2. /\ y \in ReqRec /\ y.conn = NoConn /\ y.foreign = x.foreign
          /\ \/ y.pc = "link" /\ y.result = x.result
             \/ y.pc = "done" /\ y.result \in {"refused", "failed"}
      BY <2>1, NextTryLemma
    <2> HIDE DEF y
    <2> QED BY <1>1, <2>2 DEF ReqOK, Waits, y
  <1>2. CASE x.pc # "pong"
    <2>1. PICK res \in {"failed", "refused"} :
               y = Finished(x, res) /\ (x.pc = "wait" => res = "failed")
      BY <1>2 DEF NoReply
    <2>2. y \in ReqRec /\ y.conn = NoConn /\ y.foreign = x.foreign /\ y.pc = "done" /\ y.result = res
      BY <2>1, FinishedLemma
    <2> HIDE DEF y
    <2> QED BY <1>2, <2>1, <2>2 DEF ReqOK, Waits, y
  <1> QED BY <1>1, <1>2

\* Without a reply the connection is closed and never pooled.
LEMMA TimeoutStep ==
    ASSUME IInv, NEW r \in Req, Timeout(r) \/ ReadClosed(r)
    PROVE  IInv'
  <1> DEFINE x == Disturbed(q[r])
  <1>1. q[r].pc \in Waits
    BY Zenon DEF Timeout, ReadClosed, Waits, IInv, Local, ReqOK
  <1>2. /\ q' = [q EXCEPT ![r] = NoReply(x)] /\ execs' = execs
        /\ k' = [k EXCEPT ![q[r].conn] = Close(k[q[r].conn])]
    BY <1>1, Zenon DEF Timeout, ReadClosed, Waits
  <1>3. x \in ReqRec /\ x.pc = q[r].pc /\ x.foreign = q[r].foreign /\ x.result = q[r].result
    BY <1>1, Waiting, DisturbedLemma, Zenon
  <1> HIDE DEF x
  <1>4. ReqOK(x, execs[r])
    BY <1>1, <1>3, Waiting DEF ReqOK
  <1> QED BY <1>1, <1>2, <1>3, <1>4, NoReplyLemma, GiveUp, Zenon

\* So it is when the coroutine is killed.
LEMMA AbortStep ==
    ASSUME IInv, NEW r \in Req, Abort(r)
    PROVE  IInv'
  <1> DEFINE x == Finished(q[r], "aborted")
  <1>1. q' = [q EXCEPT ![r] = x] /\ execs' = execs /\ q[r].pc \notin {"start", "done"}
    BY DEF Abort, Running
  <1>2. q[r] \in ReqRec /\ ReqOK(q[r], execs[r])
    BY DEF IInv, Typed, Local
  <1>3. /\ x \in ReqRec /\ x.pc = "done" /\ x.conn = NoConn /\ x.result = "aborted"
        /\ x.foreign = q[r].foreign
    BY <1>2, FinishedLemma
  <1> HIDE DEF x
  <1>4. ReqOK(x, execs[r]) /\ x.pc \notin Waits
    BY <1>2, <1>3 DEF ReqOK, Waits
  <1>5. CASE q[r].conn = NoConn
    <2>1. k' = k
      BY <1>5 DEF Abort
    <2> QED BY <1>1, <1>3, <1>4, <1>5, <2>1, LocalStep, Zenon
  <1>6. CASE q[r].conn # NoConn
    <2>1. q[r].pc \in Waits
      BY <1>6 DEF IInv, Holding
    <2>2. k' = [k EXCEPT ![q[r].conn] = Close(k[q[r].conn])]
      BY <1>6, Zenon DEF Abort
    <2> QED BY <1>1, <1>3, <1>4, <2>1, <2>2, GiveUp, Zenon
  <1> QED BY <1>5, <1>6

-----------------------------------------------------------------------------
(* The steps of the nodes and of the network. *)

\* What is not a step of a coroutine leaves the coroutines where they are.
SameRequests ==
    /\ q' \in [Req -> ReqRec]
    /\ \A r \in Req : /\ q'[r].pc = q[r].pc /\ q'[r].conn = q[r].conn
                      /\ q'[r].result = q[r].result /\ q'[r].foreign = q[r].foreign

\* A step on connection c: only c and the request whose command is on its way
\* there have to be looked at.
LEMMA ConnStep ==
    ASSUME IInv, NEW c \in Conn, NEW y \in ConnRec, k' = [k EXCEPT ![c] = y], SameRequests,
           execs' \in [Req -> Nat],
           ConnOK(y), y.st = "held" <=> k[c].st = "held",
           \A r \in Req : execs'[r] # execs[r] =>
                              Underway(r, k[c]) /\ ~Underway(r, y) /\ execs'[r] = 1,
           \A r \in Req : Underway(r, y) => Underway(r, k[c]) /\ y.st = k[c].st,
           \A r \in Req : q[r].conn = c /\ q[r].pc \in Waits =>
                              Exchange(r, q[r].pc, y, execs'[r])
    PROVE  IInv'
  <1> USE ClusterAssumption
  <1>0. k'[c] = y /\ \A d \in Conn : d # c => k'[d] = k[d]
    BY DEF IInv, Typed
  <1>1. Typed'
    BY Zenon DEF IInv, Typed, SameRequests
  <1>2. Holding'
    <2>1. \A d \in Conn : k'[d].st = "held" <=> k[d].st = "held"
      BY <1>0, Zenon
    <2>2. \A r \in Req : q'[r].pc = q[r].pc /\ q'[r].conn = q[r].conn
      BY Zenon DEF SameRequests
    <2> QED BY <2>1, <2>2, SMTT(20) DEF IInv, Holding
  <1>3. \A r \in Req : execs'[r] # execs[r] =>
            (q[r].conn = c /\ q[r].pc = "wait") \/ q[r].result \in {"failed", "aborted"}
    BY Zenon DEF IInv, Sending, UnderwayOK
  <1>4. ASSUME NEW r \in Req PROVE ReqOK(q'[r], execs'[r])
    <2>1. CASE execs'[r] = execs[r]
      BY <2>1, Zenon DEF IInv, Local, ReqOK, SameRequests
    <2>2. CASE execs'[r] # execs[r]
      <3>1. q[r].pc = "wait" \/ q[r].result \in {"failed", "aborted"}
        BY <1>3, <2>2, Zenon
      <3>2. ReqOK(q[r], execs[r]) /\ execs'[r] = 1
        BY <2>2, Zenon DEF IInv, Local
      <3>3. q'[r].pc = q[r].pc /\ q'[r].result = q[r].result /\ q'[r].foreign = q[r].foreign
        BY Zenon DEF SameRequests
      <3> QED BY <3>1, <3>2, <3>3, Zenon DEF ReqOK
    <2> QED BY <2>1, <2>2
  <1>5. ASSUME NEW r \in Req, q'[r].pc \in Waits
        PROVE  Exchange(r, q'[r].pc, k'[q'[r].conn], execs'[r])
    <2>1. q'[r].pc = q[r].pc /\ q'[r].conn = q[r].conn /\ q[r].conn \in Conn
      BY <1>5 DEF IInv, Typed, Holding, ReqRec, SomeConn, SameRequests
    <2>2. CASE q[r].conn = c
      BY <1>0, <1>5, <2>1, <2>2, Zenon
    <2>3. CASE q[r].conn # c
      <3>1. execs'[r] = execs[r]
        BY <1>3, <1>5, <2>1, <2>3, Zenon DEF IInv, Local, ReqOK, Waits
      <3> QED BY <1>0, <1>5, <2>1, <2>3, <3>1, Zenon DEF IInv, Local
    <2> QED BY <2>2, <2>3, Zenon
  <1>6. \A d \in Conn : ConnOK(k'[d])
    BY <1>0, Zenon DEF IInv, Local
  <1>7. \A r \in Req, d \in Conn : Underway(r, k'[d]) => Underway(r, k[d]) /\ execs'[r] = execs[r]
    <2>1. ASSUME NEW r \in Req, NEW d \in Conn, Underway(r, k'[d])
          PROVE  Underway(r, k[d]) /\ execs'[r] = execs[r]
      <3>1. Underway(r, k[d])
        BY <1>0, <2>1, Zenon
      <3>2. CASE d = c
        BY <1>0, <2>1, <3>2
      <3>3. CASE d # c
        <4>1. ~Underway(r, k[c])
          BY <3>1, <3>3, Zenon DEF IInv, Sending
        <4> QED BY <3>1, <4>1, Zenon
      <3> QED BY <3>1, <3>2, <3>3, Zenon
    <2> QED BY <2>1
  <1>8. Sending'
    <2>1. ASSUME NEW r \in Req, NEW d \in Conn
          PROVE  UnderwayOK(r, q'[r], d, k'[d], execs'[r])
      <3>1. k'[d].st = k[d].st \/ ~Underway(r, k'[d])
        BY <1>0, Zenon
      <3>2. UnderwayOK(r, q[r], d, k[d], execs[r])
        BY Zenon DEF IInv, Sending
      <3>3. q'[r].pc = q[r].pc /\ q'[r].conn = q[r].conn /\ q'[r].result = q[r].result
        BY Zenon DEF SameRequests
      <3>4. Underway(r, k'[d]) => Underway(r, k[d]) /\ execs'[r] = execs[r]
        BY <1>7
      <3> QED BY <3>1, <3>2, <3>3, <3>4, Zenon DEF UnderwayOK
    <2> QED BY <1>7, <2>1 DEF IInv, Sending
  <1> QED BY <1>1, <1>2, <1>4, <1>5, <1>6, <1>8, Zenon DEF IInv, Local

\* m, the command that arrived on c, is the only one there, and the one its
\* holder waits for unless that has given up.
Met(c, m) ==
    /\ k[c] \in ConnRec /\ ConnOK(k[c]) /\ k[c].alive /\ k[c].st \in {"gone", "held"}
    /\ k[c].in = <<>> /\ Len(k[c].out) = 1 /\ Tail(k[c].out) = <<>>
    /\ m \in Query
    /\ m.cmd = "CMD" => Underway(m.req, k[c]) /\ execs[m.req] = 0
    /\ \A r \in Req : q[r].conn = c => r = m.req /\ m.cmd = Question(q[r].pc)
    /\ k[c].st = "gone" => \A r \in Req : q[r].conn # c

\* Whatever arrives is such a command.
LEMMA Arriving ==
    ASSUME IInv, NEW c \in Conn, Arrived(c)
    PROVE  Met(c, Head(k[c].out))
  <1>0. PICK m : m = Head(k[c].out)
    BY Zenon
  <1>1. k[c] \in ConnRec /\ ConnOK(k[c]) /\ k[c].alive /\ k[c].out # <<>>
    BY Zenon DEF IInv, Typed, Local, Arrived
  <1>2. k[c].st \in {"gone", "held"}
    <2>1. k[c].st \in States /\ k[c].st # "idle"
      BY <1>1, Zenon DEF ConnOK, ConnRec
    <2>2. k[c].st # "closed"
      BY <1>1, ClosedLemma, Zenon DEF ConnOK
    <2> QED BY <2>1, <2>2, Zenon DEF States
  <1>3. ASSUME NEW r \in Req, q[r].conn = c
        PROVE  k[c].st = "held" /\ Unanswered(r, q[r].pc, k[c])
    <2>1. q[r].pc \in Waits
      BY <1>3, ClusterAssumption, Zenon DEF IInv, Holding
    <2>2. Exchange(r, q[r].pc, k[c], execs[r])
      BY <1>3, <2>1 DEF IInv, Local
    <2> QED BY <1>1, <2>2, Zenon DEF Exchange, Answer, Lost
  <1>4. Len(k[c].out) = 1 /\ k[c].in = <<>>
    <2>1. CASE k[c].st = "gone"
      BY <1>1, <2>1, Zenon DEF ConnOK
    <2>2. CASE k[c].st = "held"
      <3>1. PICK r \in Req : q[r].conn = c
        BY <2>2, Zenon DEF IInv, Holding
      <3>2. k[c].in = <<>> /\ k[c].out = <<[cmd |-> Question(q[r].pc), req |-> r]>>
        BY <1>3, <3>1, Zenon DEF Unanswered
      <3> QED BY <3>2, Zenon
    <2> QED BY <1>2, <2>1, <2>2, Zenon
  <1>5. m \in Query /\ k[c].out[1] = m /\ Tail(k[c].out) = <<>>
    <2>1. k[c].out \in Seq(Query)
      BY <1>1 DEF ConnRec, Outs
    <2> QED BY <1>0, <1>4, <2>1, Single, Zenon
  <1>6. m.req \in Req
    BY <1>5, Zenon DEF Query
  <1>7. ASSUME m.cmd = "CMD" PROVE Underway(m.req, k[c]) /\ execs[m.req] = 0
    <2>1. Underway(m.req, k[c])
      BY <1>4, <1>5, <1>6, <1>7, Zenon DEF Underway
    <2> QED BY <1>6, <2>1, Zenon DEF UnderwayOK, IInv, Sending
  <1>8. ASSUME NEW r \in Req, q[r].conn = c
        PROVE  r = m.req /\ m.cmd = Question(q[r].pc)
    <2>1. k[c].out = <<[cmd |-> Question(q[r].pc), req |-> r]>>
      BY <1>3, <1>8, Zenon DEF Unanswered
    <2>2. m = [cmd |-> Question(q[r].pc), req |-> r]
      BY <1>5, <2>1
    <2> QED BY <2>2, Zenon
  <1>9. k[c].st = "gone" => \A r \in Req : q[r].conn # c
    BY <1>3, Zenon
  <1>10. Met(c, m)
    BY <1>1, <1>2, <1>4, <1>5, <1>7, <1>8, <1>9, Zenon DEF Met
  <1> QED BY <1>0, <1>10

\* The requests of the commands that arrive.
LEMMA ArrivingRequest ==
    ASSUME IInv, NEW c \in Conn, Arrived(c)
    PROVE  /\ Head(k[c].out).req \in Req
           /\ Head(k[c].out).cmd = "CMD" =>
                 Underway(Head(k[c].out).req, k[c]) /\ execs[Head(k[c].out).req] = 0
  <1>1. PICK m : m = Head(k[c].out)
    OBVIOUS
  <1>2. Met(c, m)
    BY <1>1, Arriving, Zenon
  <1>3. m.req \in Req /\ (m.cmd = "CMD" => Underway(m.req, k[c]) /\ execs[m.req] = 0)
    BY <1>2, Zenon DEF Met, Query
  <1> QED BY <1>1, <1>3

\* reply is an answer to m.
Fits(m, reply, asking) ==
    /\ reply \in Message /\ reply.req = m.req /\ asking \in BOOLEAN
    /\ \A pc \in Waits : m.cmd = Question(pc) => reply.kind \in Answers(pc)
    /\ m.cmd = "CMD" => ~asking

\* The execution that belongs to it is counted.
Counted(m, reply) ==
    \/ reply.kind # "VALUE" /\ execs' = execs
    \/ reply.kind = "VALUE" /\ m.cmd = "CMD" /\ execs' = [execs EXCEPT ![m.req] = @ + 1]

\* A node answers the command that arrived on c.
LEMMA AnswerStep ==
    ASSUME IInv, NEW c \in Conn, Arrived(c), NEW reply, NEW asking,
           Fits(Head(k[c].out), reply, asking), Counted(Head(k[c].out), reply), SameRequests,
           k' = [k EXCEPT ![c] = Answered(k[c], <<reply>>, asking)]
    PROVE  IInv'
  <1>0. PICK m : m = Head(k[c].out)
    OBVIOUS
  <1>1. Met(c, m) /\ Fits(m, reply, asking) /\ Counted(m, reply)
    BY <1>0, Arriving, Zenon
  <1>2. execs \in [Req -> Nat] /\ m.req \in Req /\ (m.cmd = "CMD" => execs[m.req] = 0)
    BY <1>1 DEF IInv, Typed, Met, Query
  <1>3. /\ execs' \in [Req -> Nat]
        /\ \A r \in Req : execs'[r] # execs[r] => Underway(r, k[c]) /\ execs'[r] = 1
        /\ m.cmd = "CMD" => (reply.kind = "VALUE" <=> execs'[m.req] = 1)
    <2>1. CASE reply.kind # "VALUE" /\ execs' = execs
      BY <1>2, <2>1
    <2>2. CASE m.cmd = "CMD" /\ reply.kind = "VALUE" /\ execs' = [execs EXCEPT ![m.req] = @ + 1]
      <3>1. Underway(m.req, k[c])
        BY <1>1, <2>2, Zenon DEF Met
      <3> QED BY <1>2, <2>2, <3>1
    <2> QED BY <1>1, <2>1, <2>2, Zenon DEF Counted
  <1> DEFINE y == Answered(k[c], <<reply>>, asking)
             w == [k[c] EXCEPT !.out = Tail(@), !.asking = asking]
             z == [w EXCEPT !.in = @ \o <<reply>>]
  <1>8. k' = [k EXCEPT ![c] = y]
    OBVIOUS
  <1>6. /\ k[c] \in ConnRec /\ k[c].alive /\ k[c].st \in {"gone", "held"}
        /\ k[c].in = <<>> /\ Tail(k[c].out) = <<>>
    BY <1>1, Zenon DEF Met
  <1>7. reply \in Message /\ asking \in BOOLEAN
    BY <1>1, Zenon DEF Fits
  <1>4. CASE k[c].st = "gone"
    <2>1. y = Closed
      <3>1. w \in ConnRec /\ w.out = <<>>
        BY <1>6, <1>7, Values, Zenon DEF ConnRec
      <3> QED BY <1>4, <3>1 DEF Answered
    <2> HIDE DEF y
    <2>2. y \in ConnRec /\ ConnOK(y) /\ y.st = "closed"
      BY <2>1, ClosedLemma
    <2>3. \A r \in Req : ~Underway(r, y)
      BY <2>1, ClosedLemma
    <2>4. \A r \in Req : execs'[r] # execs[r] => Underway(r, k[c]) /\ ~Underway(r, y) /\ execs'[r] = 1
      BY <1>3, <2>3, Zenon
    <2>5. (y.st = "held" <=> k[c].st = "held") /\ \A r \in Req : q[r].conn # c
      BY <1>1, <1>4, <2>2, Zenon DEF Met
    <2>7. \A r \in Req : Underway(r, y) => Underway(r, k[c]) /\ y.st = k[c].st
      BY <2>3
    <2>8. \A r \in Req : q[r].conn = c /\ q[r].pc \in Waits => Exchange(r, q[r].pc, y, execs'[r])
      BY <2>5, Zenon
    <2> QED BY <1>3, <1>8, <2>2, <2>4, <2>5, <2>7, <2>8, ConnStep, Zenon
  <1>5. CASE k[c].st = "held"
    <2>1. y = z
      BY <1>5 DEF Answered
    <2>2. w \in ConnRec /\ <<>> \o <<reply>> = <<reply>> /\ <<reply>> \in Ins
      <3>1. w = [k[c] EXCEPT !.out = <<>>, !.asking = asking]
        BY <1>6, Zenon
      <3> HIDE DEF w
      <3>2. w \in ConnRec
        BY <1>6, <1>7, <3>1, Values, Zenon DEF ConnRec
      <3>3. <<>> \o <<reply>> = <<reply>> /\ <<reply>> \in Ins
        BY <1>7 DEF Ins
      <3> QED BY <3>2, <3>3
    <2>3. w.st = "held" /\ w.out = <<>> /\ w.in = <<>> /\ w.asking = asking /\ w.alive
      BY <1>5, <1>6, <2>2 DEF ConnRec
    <2>4. /\ z \in ConnRec /\ z.st = "held" /\ z.out = <<>> /\ z.in = <<reply>>
          /\ z.asking = asking /\ z.alive
      <3> HIDE DEF w
      <3>1. z \in ConnRec
        BY <2>2, <2>3 DEF ConnRec
      <3> QED BY <2>2, <2>3, <3>1 DEF ConnRec
    <2>5. k' = [k EXCEPT ![c] = z]
      BY <2>1, Zenon
    <2> HIDE DEF y, z, w
    <2>9. Len(z.out) = 0 /\ Len(z.in) = 1 /\ z.in[1] = reply
      BY <2>4
    <2>6. ConnOK(z) /\ \A r \in Req : ~Underway(r, z)
      BY <2>4, <2>9 DEF ConnOK, Underway
    <2>7. ASSUME NEW r \in Req, q[r].conn = c, q[r].pc \in Waits
          PROVE  Exchange(r, q[r].pc, z, execs'[r])
      <3>1. r = m.req /\ m.cmd = Question(q[r].pc)
        BY <1>1, <2>7, Zenon DEF Met
      <3>2. reply.req = r /\ reply.kind \in Answers(q[r].pc) /\ (m.cmd = "CMD" => ~asking)
        BY <1>1, <2>7, <3>1, Zenon DEF Fits
      <3>3. q[r].pc = "wait" => m.cmd = "CMD"
        BY <3>1, Zenon DEF Question
      <3>4. q[r].pc = "wait" => ~asking /\ (reply.kind = "VALUE" <=> execs'[r] = 1)
        BY <1>3, <3>1, <3>2, <3>3, Zenon
      <3>5. Answer(r, q[r].pc, z, execs'[r])
        BY <2>4, <2>9, <3>2, <3>4, Zenon DEF Answer
      <3> QED BY <2>4, <3>5, Zenon DEF Exchange
    <2>10. \A r \in Req : execs'[r] # execs[r] => Underway(r, k[c]) /\ ~Underway(r, z) /\ execs'[r] = 1
      BY <1>3, <2>6, Zenon
    <2>11. (z.st = "held" <=> k[c].st = "held")
           /\ \A r \in Req : Underway(r, z) => Underway(r, k[c]) /\ z.st = k[c].st
      BY <1>5, <2>4, <2>6
    <2> QED BY <1>3, <2>4, <2>5, <2>6, <2>7, <2>10, <2>11, ConnStep, Zenon
  <1> QED BY <1>4, <1>5, <1>6

\* Requests of which nothing, or only disturbed, changes are the same.
LEMMA SameLemma ==
    ASSUME IInv
    PROVE  /\ q' = q => SameRequests
           /\ \A r \in Req : q' = [q EXCEPT ![r] = Disturbed(q[r])] => SameRequests
           /\ DisturbRunning => SameRequests
  <1>1. q \in [Req -> ReqRec]
    BY DEF IInv, Typed
  <1>2. q' = q => SameRequests
    BY <1>1, Zenon DEF SameRequests
  <1>3. \A r \in Req : q' = [q EXCEPT ![r] = Disturbed(q[r])] => SameRequests
    BY <1>1, DisturbedLemma DEF SameRequests
  <1>4. DisturbRunning => SameRequests
    BY <1>1, DisturbedLemma DEF SameRequests, DisturbRunning
  <1> QED BY <1>2, <1>3, <1>4

\* PONG and the +OK of ASKING.
LEMMA NodePingStep ==
    ASSUME IInv, NEW c \in Conn, NodePing(c)
    PROVE  IInv'
  <1> DEFINE m == Head(k[c].out)
             reply(kind) == [kind |-> kind, req |-> m.req, node |-> NoNode]
  <1>1. Arrived(c) /\ q' = q /\ execs' = execs
    BY Zenon DEF NodePing
  <1>2. m.req \in Req
    BY <1>1, ArrivingRequest
  <1>3. SameRequests
    BY <1>1, SameLemma
  <1>4. CASE m.cmd = "PING" /\ k' = [k EXCEPT ![c] = Answered(k[c], <<reply("PONG")>>, FALSE)]
    <2>1. reply("PONG") \in Message /\ reply("PONG").req = m.req /\ reply("PONG").kind = "PONG"
      BY <1>2, Values DEF Message, Replies
    <2>2. \A pc \in Waits : m.cmd = Question(pc) => "PONG" \in Answers(pc)
      BY <1>4 DEF Waits, Question, Answers
    <2> HIDE DEF reply
    <2>3. Fits(m, reply("PONG"), FALSE) /\ Counted(m, reply("PONG"))
      BY <1>1, <1>4, <2>1, <2>2, Zenon DEF Fits, Counted
    <2> QED BY <1>1, <1>3, <1>4, <2>3, AnswerStep, Zenon
  <1>5. CASE m.cmd = "ASKING" /\ k' = [k EXCEPT ![c] = Answered(k[c], <<reply("OK")>>, TRUE)]
    <2>1. reply("OK") \in Message /\ reply("OK").req = m.req /\ reply("OK").kind = "OK"
      BY <1>2, Values DEF Message, Replies
    <2>2. \A pc \in Waits : m.cmd = Question(pc) => "OK" \in Answers(pc)
      BY <1>5 DEF Waits, Question, Answers
    <2> HIDE DEF reply
    <2>3. Fits(m, reply("OK"), TRUE) /\ Counted(m, reply("OK"))
      BY <1>1, <1>5, <2>1, <2>2, Zenon DEF Fits, Counted
    <2> QED BY <1>1, <1>3, <1>5, <2>3, AnswerStep, Zenon
  <1> QED BY <1>4, <1>5, Zenon DEF NodePing

\* The command is executed: the value comes back with it.
LEMMA NodeExecuteStep ==
    ASSUME MultiBulk = {}, IInv, NEW c \in Conn, NodeExecute(c)
    PROVE  IInv'
  <1> DEFINE m == Head(k[c].out)
             reply == [kind |-> "VALUE", req |-> m.req, node |-> NoNode]
  <1>1. Arrived(c) /\ q' = q /\ m.cmd = "CMD" /\ execs' = [execs EXCEPT ![m.req] = @ + 1]
    BY Zenon DEF NodeExecute
  <1>2. m.req \in Req
    BY <1>1, ArrivingRequest, Zenon
  <1>3. SameRequests
    BY <1>1, SameLemma
  <1>4. k' = [k EXCEPT ![c] = Answered(k[c], <<reply>>, FALSE)]
    BY Zenon DEF NodeExecute, Value
  <1>5. reply \in Message /\ reply.req = m.req /\ reply.kind = "VALUE"
    BY <1>2, Values DEF Message, Replies
  <1>6. \A pc \in Waits : m.cmd = Question(pc) => "VALUE" \in Answers(pc)
    BY <1>1, Zenon DEF Waits, Question, Answers
  <1> HIDE DEF reply
  <1>7. Fits(m, reply, FALSE) /\ Counted(m, reply)
    BY <1>1, <1>5, <1>6, Zenon DEF Fits, Counted
  <1> QED BY <1>1, <1>3, <1>4, <1>7, AnswerStep, Zenon

\* The types of the slot table and of the nodes' own view of the cluster.
World ==
    /\ slots \in [Slot -> SomeNode]
    /\ owner \in [Slot -> Node] /\ importing \in [Slot -> SomeNode]
    /\ moved \in [Slot -> {"none", "some", "all"}]
    /\ migrations \in 0 .. MaxMigrations

\* A redirection is a message about a node, or about none.
LEMMA RefusalLemma ==
    ASSUME World, NEW n, NEW r \in Req, NEW asking, ~Serves(n, r, asking)
    PROVE  /\ Refusal(n, r, asking) \in Message
           /\ Refusal(n, r, asking).req = r
           /\ Refusal(n, r, asking).kind \in {"MOVED", "ASK", "TRYAGAIN"}
  <1> DEFINE s == SlotOf[r]
             m == Refusal(n, r, asking)
  <1>1. s \in Slot
    BY ClusterAssumption DEF Serves
  <1>2. owner[s] \in SomeNode /\ importing[s] \in SomeNode /\ NoNode \in SomeNode
    BY <1>1 DEF World, SomeNode
  <1>3. \/ m = [kind |-> "ASK", req |-> r, node |-> importing[s]]
        \/ m = [kind |-> "TRYAGAIN", req |-> r, node |-> NoNode]
        \/ m = [kind |-> "MOVED", req |-> r, node |-> owner[s]]
    BY DEF Refusal
  <1>4. "ASK" \in Replies /\ "TRYAGAIN" \in Replies /\ "MOVED" \in Replies
    BY Zenon DEF Replies
  <1> HIDE DEF m, s
  <1>5. m \in Message /\ m.req = r /\ m.kind \in {"MOVED", "ASK", "TRYAGAIN"}
    BY <1>2, <1>3, <1>4 DEF Message
  <1> QED BY <1>5, Zenon DEF m

\* The command is refused with a redirection.
LEMMA NodeRedirectStep ==
    ASSUME IInv, World, NEW c \in Conn, NodeRedirect(c)
    PROVE  IInv'
  <1> DEFINE r == Head(k[c].out).req
             m == Refusal(k[c].peer, r, k[c].asking)
  <1>1. PICK node \in {m.node, NoNode} :
            /\ k' = [k EXCEPT ![c] = Answered(@, <<[m EXCEPT !.node = node]>>, FALSE)]
            /\ q' = IF node = NoNode THEN [q EXCEPT ![r] = Disturbed(@)] ELSE q
    BY Zenon DEF NodeRedirect
  <1>2. /\ Arrived(c) /\ execs' = execs /\ Head(k[c].out).cmd = "CMD"
        /\ ~Serves(k[c].peer, r, k[c].asking)
    BY DEF NodeRedirect
  <1>3. r \in Req
    BY <1>2, ArrivingRequest, Zenon
  <1> HIDE DEF r
  <1>4. SameRequests
    BY <1>1, <1>3, SameLemma
  <1> DEFINE reply == [m EXCEPT !.node = node]
  <1>5. reply \in Message /\ reply.req = r /\ reply.kind \in {"MOVED", "ASK", "TRYAGAIN"}
    <2>1. m \in Message /\ m.req = r /\ m.kind \in {"MOVED", "ASK", "TRYAGAIN"}
      BY <1>2, <1>3, RefusalLemma
    <2>2. node \in SomeNode
      BY <2>1, Values DEF Message
    <2> HIDE DEF m
    <2>3. reply \in Message
      BY <2>1, <2>2 DEF Message
    <2> QED BY <2>1, <2>3, Zenon DEF Message
  <1>6. k' = [k EXCEPT ![c] = Answered(k[c], <<reply>>, FALSE)]
    BY <1>1
  <1> HIDE DEF reply
  <1>7. \A pc \in Waits : Head(k[c].out).cmd = Question(pc) => reply.kind \in Answers(pc)
    BY <1>2, <1>5, Zenon DEF Waits, Question, Answers
  <1>8. Fits(Head(k[c].out), reply, FALSE) /\ Counted(Head(k[c].out), reply)
    BY <1>2, <1>5, <1>7 DEF Fits, Counted, r
  <1> QED BY <1>2, <1>4, <1>6, <1>8, AnswerStep, Zenon

\* The command is refused with another error.
LEMMA NodeErrorStep ==
    ASSUME IInv, NEW c \in Conn, NodeError(c)
    PROVE  IInv'
  <1> DEFINE r == Head(k[c].out).req
             reply == [kind |-> "ERR", req |-> r, node |-> NoNode]
  <1>0. Head(k[c].out).cmd = "CMD"
    BY Zenon DEF NodeError
  <1>1. /\ Arrived(c) /\ execs' = execs
        /\ q' = [q EXCEPT ![r] = Disturbed(q[r])]
        /\ k' = [k EXCEPT ![c] = Answered(k[c], <<reply>>, FALSE)]
    BY DEF NodeError
  <1>2. r \in Req
    BY <1>1, ArrivingRequest, Zenon
  <1>3. SameRequests
    BY <1>1, <1>2, SameLemma, Zenon
  <1>4. reply \in Message /\ reply.req = r /\ reply.kind = "ERR"
    BY <1>2, Values DEF Message, Replies
  <1>5. \A pc \in Waits : Head(k[c].out).cmd = Question(pc) => "ERR" \in Answers(pc)
    BY <1>0 DEF Waits, Question, Answers
  <1> HIDE DEF reply
  <1>6. Fits(Head(k[c].out), reply, FALSE) /\ Counted(Head(k[c].out), reply)
    BY <1>0, <1>1, <1>4, <1>5, Zenon DEF Fits, Counted
  <1> QED BY <1>1, <1>3, <1>6, AnswerStep, Zenon

\* The connection breaks.
LEMMA BreakStep ==
    ASSUME IInv, NEW c \in Conn, Break(c)
    PROVE  IInv'
  <1> DEFINE z == [k[c] EXCEPT !.alive = FALSE, !.out = <<>>, !.asking = FALSE]
             y == IF k[c].st = "gone" THEN Closed ELSE z
  <1>1. k[c].alive /\ q' = q /\ execs' = execs /\ k' = [k EXCEPT ![c] = y]
    BY DEF Break
  <1>2. k[c] \in ConnRec /\ ConnOK(k[c]) /\ execs \in [Req -> Nat]
    BY DEF IInv, Typed, Local
  <1>3. z \in ConnRec
    BY <1>2, Values, Zenon DEF ConnRec
  <1>4. /\ z.st = k[c].st /\ ~z.alive /\ z.out = <<>> /\ ~z.asking /\ z.in = k[c].in
    BY <1>2, <1>3, Zenon DEF ConnRec
  <1> HIDE DEF z
  <1>5. k[c].st # "closed"
    BY <1>1, <1>2 DEF ConnOK, Closed
  <1>6. y \in ConnRec /\ ConnOK(y) /\ (y.st = "held" <=> k[c].st = "held")
    BY <1>2, <1>3, <1>4, <1>5, ClosedLemma, Zenon DEF ConnOK
  <1>7. \A r \in Req : ~Underway(r, y)
    BY <1>4, ClosedLemma DEF Underway
  <1>8. ASSUME NEW r \in Req, q[r].conn = c, q[r].pc \in Waits
        PROVE  Exchange(r, q[r].pc, y, execs[r])
    <2>1. Exchange(r, q[r].pc, k[c], execs[r])
      BY <1>8, Zenon DEF IInv, Local
    <2>2. y = z
      BY <2>1, Zenon DEF Exchange
    <2>3. CASE Unanswered(r, q[r].pc, k[c])
      BY <1>4, <2>1, <2>2, <2>3, Zenon DEF Exchange, Unanswered, Lost
    <2>4. CASE Answer(r, q[r].pc, k[c], execs[r])
      BY <1>4, <2>1, <2>2, <2>4, Zenon DEF Exchange, Answer
    <2> QED BY <1>1, <2>1, <2>3, <2>4, Zenon DEF Exchange, Lost
  <1>9. SameRequests
    BY <1>1, SameLemma
  <1> HIDE DEF y
  <1> QED BY <1>1, <1>2, <1>6, <1>7, <1>8, <1>9, ConnStep, Zenon

\* A pooled connection is closed.
LEMMA PoolCloseStep ==
    ASSUME IInv, NEW c \in Conn, PoolClose(c)
    PROVE  IInv'
  <1>1. k[c].st = "idle" /\ q' = q /\ execs' = execs /\ k' = [k EXCEPT ![c] = Close(k[c])]
    BY DEF PoolClose
  <1>2. k[c] \in ConnRec /\ ConnOK(k[c]) /\ execs \in [Req -> Nat]
    BY DEF IInv, Typed, Local
  <1>3. Close(k[c]) = Closed
    BY <1>1, <1>2, Zenon DEF ConnOK, Close
  <1>4. SameRequests
    BY <1>1, SameLemma
  <1>5. \A r \in Req : ~(q[r].conn = c /\ q[r].pc \in Waits)
    BY <1>1, Zenon DEF IInv, Local, Exchange
  <1>6. k' = [k EXCEPT ![c] = Closed]
    BY <1>1, <1>3
  <1> QED BY <1>1, <1>2, <1>4, <1>5, <1>6, ClosedLemma, ConnStep, Zenon

\* A step that concerns neither connections nor executions.
LEMMA QuietStep ==
    ASSUME IInv, k' = k, execs' = execs, SameRequests
    PROVE  IInv'
  <1>1. Typed'
    BY Zenon DEF IInv, Typed, SameRequests
  <1>2. Holding'
    BY SMTT(20) DEF IInv, Holding, SameRequests
  <1>3. Local'
    BY DEF IInv, Local, ReqOK, SameRequests
  <1>4. Sending'
    BY DEF IInv, Sending, UnderwayOK, SameRequests
  <1> QED BY <1>1, <1>2, <1>3, <1>4, Zenon DEF IInv

-----------------------------------------------------------------------------
(* The invariant of the whole. *)

Safe == World /\ IInv

\* Nothing has happened yet.
LEMMA InitLemma ==
    ASSUME Init
    PROVE  Safe
  <1> DEFINE x == [pc |-> "start", mode |-> "last", tries |-> 0, attempts |-> 0,
                   target |-> NoNode, conn |-> NoConn, result |-> "none",
                   disturbed |-> FALSE, foreign |-> FALSE]
  <1>1. World
    BY ClusterAssumption DEF Init, World, SomeNode
  <1>2. q = [r \in Req |-> x] /\ k = [c \in Conn |-> Closed] /\ execs = [r \in Req |-> 0]
    BY Zenon DEF Init
  <1>3. x \in ReqRec
    BY Values, Zenon DEF ReqRec, Modes
  <1>4. x.pc = "start" /\ x.conn = NoConn /\ x.result = "none" /\ ~x.foreign
    OBVIOUS
  <1> HIDE DEF x
  <1>5. Typed
    BY <1>2, <1>3, ClosedLemma, Zenon DEF Typed
  <1>6. Holding
    BY <1>2, <1>4, ClosedLemma, Zenon DEF Holding, Waits
  <1>7. Local
    BY <1>2, <1>4, ClosedLemma, Zenon DEF Local, ReqOK, Waits
  <1>8. Sending
    BY <1>2, ClosedLemma, Zenon DEF Sending, UnderwayOK
  <1> QED BY <1>1, <1>5, <1>6, <1>7, <1>8, Zenon DEF Safe, IInv

\* What the coroutine of a request changes of the state the contract is about.
LEMMA RequestShape ==
    ASSUME NEW r \in Req, ReqNext(r) \/ Abort(r)
    PROVE  /\ \E x : q' = [q EXCEPT ![r] = x]
           /\ execs' = execs /\ q[r].pc # "done" /\ UNCHANGED clusterVars
  <1>1. CASE Start(r)
    BY <1>1, Zenon DEF Start
  <1>2. ASSUME NEW n \in Node, NEW c \in Conn, Link(r, n, c)
        PROVE  /\ \E x : q' = [q EXCEPT ![r] = x]
               /\ execs' = execs /\ q[r].pc # "done" /\ UNCHANGED clusterVars
    BY <1>2 DEF Link
  <1>3. ASSUME NEW n \in Node, LinkFail(r, n)
        PROVE  /\ \E x : q' = [q EXCEPT ![r] = x]
               /\ execs' = execs /\ q[r].pc # "done" /\ UNCHANGED clusterVars
    BY <1>3, Zenon DEF LinkFail
  <1>4. CASE ReadPong(r)
    BY <1>4 DEF ReadPong
  <1>5. CASE ReadAsking(r)
    BY <1>5, Zenon DEF ReadAsking
  <1>6. CASE ReadHeader(r)
    BY <1>6, Zenon DEF ReadHeader
  <1>7. CASE ReadReply(r)
    BY <1>7, Zenon DEF ReadReply
  <1>8. CASE ReadRedirect(r)
    BY <1>8 DEF ReadRedirect
  <1>9. CASE Timeout(r)
    BY <1>9, Zenon DEF Timeout
  <1>10. CASE ReadClosed(r)
    BY <1>10, Zenon DEF ReadClosed
  <1>11. CASE Abort(r)
    BY <1>11, Zenon DEF Abort, Running
  <1> QED
    BY <1>1, <1>2, <1>3, <1>4, <1>5, <1>6, <1>7, <1>8, <1>9, <1>10, <1>11, Zenon DEF ReqNext

\* The slot table and the nodes' view keep their types.
LEMMA WorldStep ==
    ASSUME Safe, Next
    PROVE  World'
  <1>1. ASSUME NEW r \in Req, ReqNext(r) \/ Abort(r)
        PROVE  World'
    <2>1. UNCHANGED clusterVars
      BY <1>1, RequestShape
    <2>2. slots' \in [Slot -> SomeNode]
      <3>1. CASE ReadRedirect(r)
        <4>1. Reply(r).node \in SomeNode
          BY <3>1, Reading DEF Safe, ReadRedirect, Waits, Message
        <4>2. slots' = slots \/ slots' = [slots EXCEPT ![SlotOf[Reply(r).req]] = Reply(r).node]
          BY <3>1 DEF ReadRedirect
        <4> QED BY <4>1, <4>2, Zenon DEF Safe, World
      <3>2. CASE ~ReadRedirect(r)
        <4>1. slots' = slots
          BY <1>1, <3>2, Zenon DEF ReqNext, Start, Link, LinkFail, ReadPong, ReadAsking, ReadHeader,
                            ReadReply, Timeout, ReadClosed, Abort
        <4> QED BY <4>1 DEF Safe, World
      <3> QED BY <3>1, <3>2, Zenon
    <2> QED BY <2>1, <2>2 DEF Safe, World, clusterVars
  <1>2. ASSUME NEW c \in Conn, PoolClose(c) \/ NodeNext(c)
        PROVE  World'
    <2>1. UNCHANGED <<slots, owner, importing, moved, migrations>>
      BY <1>2, Zenon DEF NodeNext, PoolClose, NodePing, NodeExecute, NodeRedirect, NodeError, Break,
                  clusterVars
    <2> QED BY <2>1 DEF Safe, World
  <1>3. ASSUME NEW s \in Slot, NEW n \in Node, Migrate(s, n)
        PROVE  World'
    BY <1>3, ClusterAssumption, Values DEF Safe, World, Migrate
  <1>4. ASSUME NEW s \in Slot, MoveKeys(s)
        PROVE  World'
    BY <1>4, Zenon DEF Safe, World, MoveKeys
  <1>5. ASSUME NEW s \in Slot, Assign(s)
        PROVE  World'
    BY <1>5, ClusterAssumption, Zenon DEF Safe, World, Assign, SomeNode
  <1> QED BY <1>1, <1>2, <1>3, <1>4, <1>5, Zenon DEF Next, SlotNext

\* A migration moves slots and keys, and no coroutine.
LEMMA SlotStep ==
    ASSUME IInv, NEW s \in Slot, SlotNext(s)
    PROVE  SameRequests /\ k' = k /\ execs' = execs
  <1>1. DisturbRunning /\ k' = k /\ execs' = execs
    BY DEF SlotNext, Migrate, MoveKeys, Assign
  <1> QED BY <1>1, SameLemma, Zenon

\* Every step keeps the invariant.
LEMMA StepLemma ==
    ASSUME MultiBulk = {}, Safe, [Next]_vars
    PROVE  Safe'
  <1> USE DEF Safe
  <1>1. ASSUME NEW r \in Req, ReqNext(r) \/ Abort(r)
        PROVE  IInv'
    <2>1. slots \in [Slot -> Node \cup {NoNode}]
      BY DEF World, SomeNode
    <2> QED
      BY <1>1, <2>1, StartStep, LinkStep, LinkFailStep, ReadPongStep, ReadAskingStep,
         ReadHeaderStep, ReadReplyStep, ReadRedirectStep, TimeoutStep, AbortStep, Zenon
      DEF ReqNext
  <1>2. ASSUME NEW c \in Conn, PoolClose(c) \/ NodeNext(c)
        PROVE  IInv'
    BY <1>2, PoolCloseStep, NodePingStep, NodeExecuteStep, NodeRedirectStep, NodeErrorStep,
       BreakStep, Zenon
    DEF NodeNext
  <1>3. ASSUME NEW s \in Slot, SlotNext(s)
        PROVE  IInv'
    BY <1>3, SlotStep, QuietStep, Zenon
  <1>4. CASE Next
    BY <1>1, <1>2, <1>3, <1>4, WorldStep, Zenon DEF Next
  <1>5. CASE UNCHANGED vars
    <2>1. q' = q /\ k' = k /\ execs' = execs
      BY <1>5 DEF vars
    <2>2. IInv'
      BY <2>1, SameLemma, QuietStep
    <2> QED BY <1>5, <2>2 DEF vars, World
  <1> QED BY <1>4, <1>5, Zenon

\* The invariant holds of every behaviour.
LEMMA Invariance ==
    ASSUME MultiBulk = {}
    PROVE  Spec => []Safe
  <1>1. Init => Safe
    BY InitLemma
  <1>2. Safe /\ [Next]_vars => Safe'
    BY StepLemma
  <1> QED BY <1>1, <1>2, PTL DEF Spec

\* Every local of send_cluster_command, every connection and the slot table keep
\* their types.
THEOREM StateTypes ==
    ASSUME MultiBulk = {}
    PROVE  Spec => []TypeOK
  <1>1. Safe => TypeOK
    BY Zenon DEF Safe, World, IInv, Typed, TypeOK, ReqRec, ConnRec, Pcs, Modes, Results, Tries, Tried,
           SomeNode, SomeConn, Query, Message, States, Outs, Ins
  <1> QED BY <1>1, Invariance, PTL

\* Every reply a coroutine of send_cluster_command reads answers the command it
\* sent itself, for any number of requests, connections, nodes, retries and
\* migrations, as long as no reply is a multi-bulk one.  (With one it is false:
\* OwnReply is violated in the run stalled_reply.)
THEOREM RepliesAreOwn ==
    ASSUME MultiBulk = {}
    PROVE  Spec => []OwnReply
  <1>1. Safe => OwnReply
    BY Zenon DEF Safe, IInv, Local, ReqOK, OwnReply
  <1> QED BY <1>1, Invariance, PTL

\* set_keepalive never pools a connection with a command unanswered, a reply
\* unread or ASKING in force.
THEOREM PoolIsClean ==
    ASSUME MultiBulk = {}
    PROVE  Spec => []PooledClean
  <1>1. Safe => PooledClean
    BY Zenon DEF Safe, IInv, Local, ConnOK, PooledClean
  <1> QED BY <1>1, Invariance, PTL

\* The retry loop never has a command executed twice, and one it reports as
\* successful was executed.
THEOREM ExecutedOnce ==
    ASSUME MultiBulk = {}
    PROVE  Spec => []AtMostOnce
  <1>1. ASSUME Safe, NEW r \in Req
        PROVE  execs[r] <= 1 /\ (q[r].result = "ok" => execs[r] = 1)
    <2>1. execs[r] \in Nat /\ ReqOK(q[r], execs[r])
      BY <1>1, Zenon DEF Safe, IInv, Typed, Local
    <2> QED BY <2>1 DEF ReqOK
  <1>2. Safe => AtMostOnce
    BY <1>1 DEF AtMostOnce
  <1> QED BY <1>2, Invariance, PTL

-----------------------------------------------------------------------------
(* The contract. *)

\* A step of a coroutine gives the result the contract allows, or none.
LEMMA RequestImplements ==
    ASSUME Safe, Safe', NEW r \in Req, ReqNext(r) \/ Abort(r)
    PROVE  [Contract!Next]_(Contract!vars)
  <1> DEFINE res == [p \in Req |-> q[p].result]
  <1>1. PICK x : q' = [q EXCEPT ![r] = x]
    BY RequestShape
  <1>2. execs' = execs /\ q[r].pc # "done"
    BY RequestShape
  <1>3. q \in [Req -> ReqRec] /\ q' \in [Req -> ReqRec]
    BY Zenon DEF Safe, IInv, Typed
  <1>4. ReqOK(q[r], execs[r]) /\ ReqOK(q'[r], execs'[r])
    BY DEF Safe, IInv, Local
  <1>0. PICK out : out = q'[r].result
    OBVIOUS
  <1>5. res' = [res EXCEPT ![r] = out]
    BY <1>0, <1>1, <1>3, Zenon
  <1>6. CASE out = q[r].result
    BY <1>2, <1>5, <1>6, Zenon DEF Contract!vars
  <1>7. CASE out # q[r].result
    <2>1. q[r].result = "none" /\ res[r] = "none"
      BY <1>2, <1>4, Zenon DEF ReqOK
    <2>2. out \in {"ok", "refused", "failed", "aborted"}
      BY <1>0, <1>3, <1>7, <2>1 DEF ReqRec, Results
    <2>3. (out = "ok" => execs[r] = 1) /\ (out = "refused" => execs[r] = 0)
      BY <1>0, <1>2, <1>4, Zenon DEF ReqOK
    <2>4. Contract!Finish(r, out)
      BY <1>2, <1>5, <2>1, <2>3, Zenon DEF Contract!Finish
    <2> QED BY <2>2, <2>4, Zenon DEF Contract!Next
  <1> QED BY <1>6, <1>7, Zenon

\* An execution is one the contract allows.
LEMMA ExecuteImplements ==
    ASSUME Safe, NEW c \in Conn, NodeExecute(c)
    PROVE  Contract!Next
  <1> DEFINE r == Head(k[c].out).req
             res == [p \in Req |-> q[p].result]
  <1>1. Arrived(c) /\ Head(k[c].out).cmd = "CMD" /\ q' = q /\ execs' = [execs EXCEPT ![r] = @ + 1]
    BY Zenon DEF NodeExecute
  <1>2. r \in Req /\ Underway(r, k[c]) /\ execs[r] = 0
    BY <1>1, ArrivingRequest, Zenon DEF Safe
  <1> HIDE DEF r
  <1>3. q[r].result \in {"none", "failed", "aborted"}
    <2>1. UnderwayOK(r, q[r], c, k[c], execs[r]) /\ ReqOK(q[r], execs[r])
      BY <1>2, Zenon DEF Safe, IInv, Sending, Local
    <2> QED BY <1>2, <2>1 DEF UnderwayOK, ReqOK
  <1>4. execs' = [execs EXCEPT ![r] = 1] /\ res' = res /\ res[r] = q[r].result
    BY <1>1, <1>2
  <1>5. Contract!Execute(r)
    BY <1>2, <1>3, <1>4, Zenon DEF Contract!Execute
  <1> QED BY <1>2, <1>5 DEF Contract!Next

\* Every other step is invisible to the caller.
LEMMA OthersInvisible ==
    ASSUME Safe,
           \/ \E c \in Conn : \/ PoolClose(c) \/ NodePing(c) \/ NodeRedirect(c)
                             \/ NodeError(c) \/ Break(c)
           \/ \E s \in Slot : SlotNext(s)
    PROVE  UNCHANGED Contract!vars
  <1>1. ASSUME NEW c \in Conn, \/ PoolClose(c) \/ NodePing(c) \/ NodeRedirect(c)
                               \/ NodeError(c) \/ Break(c)
        PROVE  SameRequests /\ execs' = execs
    <2>1. CASE PoolClose(c) \/ NodePing(c) \/ Break(c)
      <3>1. q' = q /\ execs' = execs
        BY <2>1, Zenon DEF PoolClose, NodePing, Break
      <3> QED BY <3>1, SameLemma DEF Safe
    <2>2. CASE NodeRedirect(c) \/ NodeError(c)
      <3>1. Arrived(c) /\ execs' = execs
        BY <2>2, Zenon DEF NodeRedirect, NodeError
      <3>2. Head(k[c].out).req \in Req
        BY <3>1, ArrivingRequest DEF Safe
      <3>3. q' = q \/ q' = [q EXCEPT ![Head(k[c].out).req] = Disturbed(q[Head(k[c].out).req])]
        BY <2>2, Zenon DEF NodeRedirect, NodeError
      <3> QED BY <3>1, <3>2, <3>3, SameLemma DEF Safe
    <2> QED BY <1>1, <2>1, <2>2
  <1>2. ASSUME NEW s \in Slot, SlotNext(s)
        PROVE  SameRequests /\ execs' = execs
    BY <1>2, SlotStep DEF Safe
  <1>3. SameRequests /\ execs' = execs
    BY <1>1, <1>2
  <1> QED BY <1>3 DEF SameRequests, Contract!vars

\* send_cluster_command implements the contract of module Command: a command
\* refused to its caller was not executed and never will be.
THEOREM KeepsContract ==
    ASSUME MultiBulk = {}
    PROVE  Spec => ContractSpec
  <1>1. Init => Contract!Init
    BY DEF Init, Contract!Init
  <1>2. Safe /\ Safe' /\ [Next]_vars => [Contract!Next]_(Contract!vars)
    <2> SUFFICES ASSUME Safe, Safe', [Next]_vars
                 PROVE  [Contract!Next]_(Contract!vars)
      OBVIOUS
    <2>1. ASSUME NEW p \in Req, ReqNext(p) \/ Abort(p)
          PROVE  [Contract!Next]_(Contract!vars)
      BY <2>1, RequestImplements, Zenon
    <2>2. ASSUME NEW c \in Conn, PoolClose(c) \/ NodeNext(c)
          PROVE  [Contract!Next]_(Contract!vars)
      BY <2>2, ExecuteImplements, OthersInvisible, Zenon DEF NodeNext
    <2>3. ASSUME NEW s \in Slot, SlotNext(s)
          PROVE  [Contract!Next]_(Contract!vars)
      BY <2>3, OthersInvisible, Zenon
    <2>4. CASE UNCHANGED vars
      BY <2>4, Zenon DEF vars, Contract!vars
    <2> QED BY <2>1, <2>2, <2>3, <2>4 DEF Next
  <1> QED BY <1>1, <1>2, Invariance, PTL DEF Spec, ContractSpec, Contract!Spec

-----------------------------------------------------------------------------
(* Requests that nothing disturbs. *)

\* Where the command of attempt a goes: anywhere at first, then to the owner
\* own of its slot, then after ASKING to the node imp that imports the slot.
Sent(own, imp, a, y) ==
    a = 1 \/ (a <= 2 /\ y.peer = own) \/ (a <= 3 /\ y.peer = imp /\ y.asking)

\* What comes back from there: a value, or a redirection one step further.
Told(own, imp, a, m) ==
    \/ m.kind = "VALUE"
    \/ m.kind = "MOVED" /\ a = 1 /\ m.node = own /\ m.node # NoNode
    \/ m.kind = "ASK" /\ a <= 2 /\ m.node = imp /\ m.node # NoNode

\* How far a request with locals x on connection y has got.
Progress(own, imp, x, y) ==
    /\ x.pc = "done" => x.result \in {"ok", "aborted"}
    /\ x.pc \in {"start", "pong"} => x.attempts = 0
    /\ x.pc = "link" =>
          \/ x.mode \in RandomModes \cup {"slot"} /\ x.attempts = 0
          \/ x.mode = "moved" /\ x.attempts <= 1 /\ x.target = own
          \/ x.mode = "ask" /\ x.attempts <= 2 /\ x.target = imp
    /\ x.pc = "asked" =>
          /\ x.attempts <= 2
          /\ y.alive => y.peer = imp /\ (y.out = <<>> => y.asking)
    /\ x.pc = "wait" =>
          /\ y.alive /\ y.out # <<>> => Sent(own, imp, x.attempts, y)
          /\ y.in # <<>> => Told(own, imp, x.attempts, y.in[1])

\* The nodes of the slot of r, as the cluster sees them.
Own(r) == owner[SlotOf[r]]
Imp(r) == importing[SlotOf[r]]

\* A request nothing disturbed has got that far, whatever the slot table said.
Quiet == \A r \in Req : q[r].disturbed \/ Progress(Own(r), Imp(r), q[r], k[q[r].conn])

\* A slot migrates to another node than its owner.
Stable == \A s \in Slot : importing[s] # owner[s]

\* A step that touches no more than these leaves a request where it was.
LEMMA StillQuiet ==
    ASSUME IInv, Quiet, UNCHANGED clusterVars, NEW p \in Req, q'[p] = q[p],
           q[p].pc \in Waits => k'[q[p].conn] = k[q[p].conn]
    PROVE  (q[p].disturbed \/ Progress(Own(p), Imp(p), q[p], k[q[p].conn]))'
  <1>1. Own(p)' = Own(p) /\ Imp(p)' = Imp(p)
    BY Zenon DEF clusterVars, Own, Imp
  <1>2. q[p].disturbed \/ Progress(Own(p), Imp(p), q[p], k[q[p].conn])
    BY Zenon DEF Quiet
  <1>3. CASE q[p].pc \in Waits
    BY <1>1, <1>2, <1>3
  <1>4. CASE q[p].pc \notin Waits
    BY <1>1, <1>2, <1>4, Zenon DEF Progress, Waits
  <1> QED BY <1>3, <1>4

\* Nobody else waits on the connection c that r has or takes.
LEMMA HeldElsewhere ==
    ASSUME IInv, NEW r \in Req, NEW p \in Req, NEW c \in Conn, p # r, q[p].pc \in Waits,
           q[r].conn = c \/ (q[r].conn = NoConn /\ k[c].st \in {"closed", "idle"})
    PROVE  q[p].conn \in Conn /\ q[p].conn # c
  <1>1. q[p].conn \in Conn /\ k[q[p].conn].st = "held"
    BY Waiting, Zenon
  <1>2. c # NoConn
    BY ClusterAssumption, Zenon
  <1>3. q[r].conn = c => q[p].conn # c
    BY <1>2, Zenon DEF IInv, Holding
  <1> QED BY <1>1, <1>3

\* A step of r with the connection c concerns no other request.
LEMMA QuietRequest ==
    ASSUME IInv, Quiet, UNCHANGED clusterVars, NEW r \in Req, NEW c \in Conn, NEW x, NEW y,
           q' = [q EXCEPT ![r] = x], k' = [k EXCEPT ![c] = y],
           q[r].conn = c \/ (q[r].conn = NoConn /\ k[c].st \in {"closed", "idle"}),
           x.conn = c \/ x.pc \notin Waits,
           x.disturbed \/ Progress(Own(r), Imp(r), x, y)
    PROVE  Quiet'
  <1>1. /\ q'[r] = x /\ \A p \in Req : p # r => q'[p] = q[p]
        /\ k'[c] = y /\ \A d \in Conn : d # c => k'[d] = k[d]
    BY Zenon DEF IInv, Typed
  <1>2. Own(r)' = Own(r) /\ Imp(r)' = Imp(r)
    BY Zenon DEF clusterVars, Own, Imp
  <1>3. (q[r].disturbed \/ Progress(Own(r), Imp(r), q[r], k[q[r].conn]))'
    <2>1. CASE x.conn = c
      BY <1>1, <1>2, <2>1, Zenon
    <2>2. CASE x.pc \notin Waits
      <3>1. x.disturbed \/ Progress(Own(r), Imp(r), x, k'[x.conn])
        BY <2>2, Zenon DEF Progress, Waits
      <3> QED BY <1>1, <1>2, <3>1
    <2> QED BY <2>1, <2>2, Zenon
  <1>4. ASSUME NEW p \in Req, p # r
        PROVE  (q[p].disturbed \/ Progress(Own(p), Imp(p), q[p], k[q[p].conn]))'
    <2>1. q[p].pc \in Waits => q[p].conn \in Conn /\ q[p].conn # c
      BY <1>4, HeldElsewhere, Zenon
    <2> QED BY <1>1, <1>4, <2>1, StillQuiet, Zenon
  <1> QED BY <1>3, <1>4, Zenon DEF Quiet

\* Nor does a step of r without a connection.
LEMMA QuietLocal ==
    ASSUME IInv, Quiet, UNCHANGED clusterVars, NEW r \in Req, NEW x,
           q' = [q EXCEPT ![r] = x], k' = k, x.pc \notin Waits,
           x.disturbed \/ \A y : Progress(Own(r), Imp(r), x, y)
    PROVE  Quiet'
  <1>1. q'[r] = x /\ \A p \in Req : p # r => q'[p] = q[p]
    BY Zenon DEF IInv, Typed
  <1>2. Own(r)' = Own(r) /\ Imp(r)' = Imp(r)
    BY DEF clusterVars, Own, Imp
  <1>3. (q[r].disturbed \/ Progress(Own(r), Imp(r), q[r], k[q[r].conn]))'
    BY <1>1, <1>2, Zenon
  <1>4. ASSUME NEW p \in Req, p # r
        PROVE  (q[p].disturbed \/ Progress(Own(p), Imp(p), q[p], k[q[p].conn]))'
    BY <1>1, <1>4, StillQuiet, Zenon
  <1> QED BY <1>3, <1>4, Zenon DEF Quiet

\* A step on connection c concerns its holder only.
LEMMA QuietConn ==
    ASSUME IInv, Quiet, UNCHANGED clusterVars, NEW c \in Conn, NEW y,
           k' = [k EXCEPT ![c] = y], \A r \in Req : q'[r] = q[r] \/ q'[r].disturbed,
           \A r \in Req : q[r].conn = c /\ q[r].pc \in Waits /\ ~q[r].disturbed =>
                              q'[r].disturbed \/ Progress(Own(r), Imp(r), q[r], y)
    PROVE  Quiet'
  <1>1. k'[c] = y /\ \A d \in Conn : d # c => k'[d] = k[d]
    BY DEF IInv, Typed
  <1>2. ASSUME NEW p \in Req, ~q'[p].disturbed
        PROVE  Progress(Own(p), Imp(p), q[p], k[q[p].conn])'
    <2>1. q'[p] = q[p]
      BY <1>2, Zenon
    <2>2. CASE q[p].pc \in Waits /\ q[p].conn = c
      <3>1. Own(p)' = Own(p) /\ Imp(p)' = Imp(p)
        BY Zenon DEF clusterVars, Own, Imp
      <3> QED BY <1>1, <1>2, <2>1, <2>2, <3>1, Zenon
    <2>3. CASE ~(q[p].pc \in Waits /\ q[p].conn = c)
      <3>1. q[p].pc \in Waits => k'[q[p].conn] = k[q[p].conn]
        BY <1>1, <2>3, Waiting, Zenon
      <3> QED BY <1>2, <2>1, <3>1, StillQuiet, Zenon
    <2> QED BY <2>2, <2>3, Zenon
  <1> QED BY <1>2, Zenon DEF Quiet

\* What the operations on the locals leave of the counters and of the flag.
LEMMA FlagKept ==
    ASSUME NEW x \in ReqRec
    PROVE  /\ \A res : Finished(x, res).disturbed = x.disturbed
           /\ \A mode : /\ GoRandom(x, mode).disturbed = x.disturbed
                       /\ GoRandom(x, mode).mode = mode
                       /\ GoRandom(x, mode).attempts = x.attempts
           /\ Disturbed(x).disturbed
  <1>1. \A res : Finished(x, res).disturbed = x.disturbed
    BY DEF Finished, ReqRec
  <1>2. \A mode : /\ GoRandom(x, mode).disturbed = x.disturbed
                 /\ GoRandom(x, mode).mode = mode /\ GoRandom(x, mode).attempts = x.attempts
    BY DEF GoRandom, ReqRec
  <1>3. Disturbed(x).disturbed
    BY Zenon DEF Disturbed, ReqRec
  <1> QED BY <1>1, <1>2, <1>3, Zenon

\* So it is in get_random_connection.
LEMMA TryFlagKept ==
    ASSUME NEW x \in ReqRec
    PROVE  NextTry(x).disturbed = x.disturbed
  <1>1. PICK y : y = [x EXCEPT !.conn = NoConn]
    BY Zenon
  <1>2. y \in ReqRec /\ y.disturbed = x.disturbed
    BY <1>1, Values DEF ReqRec
  <1>3. PICK z : z = [y EXCEPT !.pc = "link", !.tries = @ + 1]
    OBVIOUS
  <1>4. z.disturbed = y.disturbed
    BY <1>2, <1>3 DEF ReqRec
  <1>5. \/ NextTry(x) = z \/ NextTry(x) = GoRandom(y, "last")
        \/ NextTry(x) = Finished(y, "refused") \/ NextTry(x) = Finished(y, "failed")
    BY <1>1, <1>3, Zenon DEF NextTry
  <1>6. /\ GoRandom(y, "last").disturbed = y.disturbed
        /\ Finished(y, "refused").disturbed = y.disturbed
        /\ Finished(y, "failed").disturbed = y.disturbed
    BY <1>2, FlagKept, Zenon
  <1> QED BY <1>2, <1>4, <1>5, <1>6, Zenon

\* The connection connect() returns leads to the node.
LEMMA LinkedPeer ==
    ASSUME IInv, NEW n \in Node, NEW c \in LinksTo(n)
    PROVE  Linked(c, n).peer = n
  <1>1. c \in Conn /\ k[c] \in ConnRec
    BY LinkedLemma DEF IInv, Typed
  <1>2. CASE k[c].st = "idle"
    <2>1. k[c].peer = n
      BY <1>2 DEF LinksTo, IdleTo
    <2>2. Linked(c, n) = [k[c] EXCEPT !.st = "held"]
      BY <1>2 DEF Linked
    <2> QED BY <1>1, <2>1, <2>2, Zenon DEF ConnRec
  <1>3. CASE k[c].st # "idle"
    BY <1>3 DEF Linked, Fresh
  <1> QED BY <1>2, <1>3

\* What a command sent on a connection leaves as it was.
LEMMA SentFields ==
    ASSUME NEW y \in ConnRec, NEW r \in Req, NEW cmd \in Commands
    PROVE  /\ SendOn(y, cmd, r).peer = y.peer /\ SendOn(y, cmd, r).asking = y.asking
           /\ SendOn(y, cmd, r).in = y.in /\ SendOn(y, cmd, r).alive = y.alive
           /\ y.alive => SendOn(y, cmd, r).out # <<>>
  <1>1. CASE y.alive
    <2>1. PICK o : o = Append(y.out, [cmd |-> cmd, req |-> r])
      BY Zenon
    <2>2. o # <<>>
      <3>1. y.out \in Seq(Query) /\ [cmd |-> cmd, req |-> r] \in Query
        BY DEF ConnRec, Outs, Query
      <3> QED BY <2>1, <3>1
    <2>3. SendOn(y, cmd, r) = [y EXCEPT !.out = o]
      BY <1>1, <2>1 DEF SendOn
    <2> QED BY <1>1, <2>2, <2>3, Zenon DEF ConnRec
  <1>2. CASE ~y.alive
    BY <1>2 DEF SendOn
  <1> QED BY <1>1, <1>2, Zenon

\* What is left on the connection after its reply has been read.
LEMMA RestFields ==
    ASSUME IInv, NEW r \in Req, q[r].pc \in Waits
    PROVE  /\ Rest(r).peer = k[q[r].conn].peer /\ Rest(r).asking = k[q[r].conn].asking
           /\ Rest(r).alive = k[q[r].conn].alive /\ Rest(r).out = k[q[r].conn].out
  <1>1. k[q[r].conn] \in ConnRec
    BY Waiting, Zenon
  <1> QED BY <1>1 DEF Rest, ConnRec

\* One more attempt is always left.
LEMMA QuietTry ==
    ASSUME TryCount >= 2, NEW r \in Req, NEW c \in Conn, NEW x \in ReqRec, NEW y \in ConnRec,
           y.in = <<>>, NEW own, NEW imp,
           x.disturbed \/ (x.attempts <= 2 /\ (y.alive => Sent(own, imp, x.attempts + 1, y)))
    PROVE  /\ Attempt(x, c).conn = c \/ Attempt(x, c).pc \notin Waits
           /\ Attempt(x, c).disturbed \/ Progress(own, imp, Attempt(x, c), AttemptOn(x, r, y))
  <1>1. x.attempts \in Nat /\ TryCount \in Nat
    BY AttemptsNat, Zenon
  <1>2. Attempt(x, c).conn = c \/ Attempt(x, c).pc \notin Waits
    BY AttemptLemma DEF Waits
  <1>3. CASE MayTry(x)
    <2>1. PICK a : a = Attempt(x, c)
      OBVIOUS
    <2>2. a = [x EXCEPT !.pc = "wait", !.conn = c, !.attempts = @ + 1,
                        !.mode = "last", !.tries = 0, !.target = NoNode]
      BY <1>3, <2>1, Zenon DEF Attempt
    <2>3. a.pc = "wait" /\ a.attempts = x.attempts + 1 /\ a.disturbed = x.disturbed
      BY <2>2, Zenon DEF ReqRec
    <2>4. PICK b : b = AttemptOn(x, r, y)
      BY Zenon
    <2>5. b = SendOn(y, "CMD", r) /\ "CMD" \in Commands
      BY <1>3, <2>4 DEF AttemptOn, Commands
    <2>6. b.peer = y.peer /\ b.asking = y.asking /\ b.in = <<>> /\ b.alive = y.alive
      BY <2>5, SentFields, Zenon
    <2>7. x.disturbed \/ (y.alive => Sent(own, imp, x.attempts + 1, b))
      BY <2>6, Zenon DEF Sent
    <2>8. a.disturbed \/ Progress(own, imp, a, b)
      BY <2>3, <2>6, <2>7, Zenon DEF Progress
    <2> QED BY <1>2, <2>1, <2>4, <2>8, Zenon
  <1>4. CASE ~MayTry(x)
    <2>1. x.disturbed
      BY <1>1, <1>4 DEF MayTry
    <2>2. Attempt(x, c).disturbed = x.disturbed
      BY <1>4, FlagKept, Zenon DEF Attempt
    <2> QED BY <1>2, <2>1, <2>2, Zenon
  <1> QED BY <1>3, <1>4, Zenon

\* So that an attempt is a step of such a request.
LEMMA QuietAttempt ==
    ASSUME TryCount >= 2, IInv, Quiet, UNCHANGED clusterVars,
           NEW r \in Req, NEW c \in Conn, NEW x \in ReqRec, NEW y \in ConnRec,
           q' = [q EXCEPT ![r] = Attempt(x, c)], k' = [k EXCEPT ![c] = AttemptOn(x, r, y)],
           q[r].conn = c \/ (q[r].conn = NoConn /\ k[c].st \in {"closed", "idle"}),
           y.in = <<>>,
           x.disturbed \/ (x.attempts <= 2 /\ (y.alive => Sent(Own(r), Imp(r), x.attempts + 1, y)))
    PROVE  Quiet'
  BY QuietTry, QuietRequest, Zenon

\* The first attempt may go anywhere, the second where a MOVED says.
LEMMA FirstOrMoved ==
    ASSUME NEW a \in Nat, NEW own, NEW imp, NEW y, a = 0 \/ (a <= 1 /\ y.peer = own)
    PROVE  a <= 2 /\ Sent(own, imp, a + 1, y)
  BY DEF Sent

\* The first node asked is the one of the slot table, or any.
LEMMA QuietStart ==
    ASSUME IInv, Quiet, NEW r \in Req, Start(r)
    PROVE  Quiet'
  <1>1. PICK node : q' = [q EXCEPT ![r] = IF node = NoNode THEN GoRandom(@, "unknown")
                             ELSE [@ EXCEPT !.pc = "link", !.mode = "slot", !.target = node]]
    BY Zenon DEF Start
  <1>2. k' = k /\ UNCHANGED clusterVars /\ q[r].pc = "start" /\ q[r] \in ReqRec
    BY DEF Start, IInv, Typed, clusterVars
  <1>3. PICK x : x = IF node = NoNode THEN GoRandom(q[r], "unknown")
                     ELSE [q[r] EXCEPT !.pc = "link", !.mode = "slot", !.target = node]
    OBVIOUS
  <1>4. /\ x.pc = "link" /\ x.mode \in {"unknown", "slot"} /\ x.attempts = q[r].attempts
        /\ x.disturbed = q[r].disturbed
    BY <1>2, <1>3 DEF ReqRec, GoRandom
  <1>5. q[r].disturbed \/ q[r].attempts = 0
    BY <1>2, Zenon DEF Quiet, Progress
  <1>6. x.disturbed \/ \A y : Progress(Own(r), Imp(r), x, y)
    BY <1>4, <1>5, Zenon DEF Progress, RandomModes
  <1>7. q' = [q EXCEPT ![r] = x] /\ x.pc \notin Waits
    BY <1>1, <1>3, <1>4, Zenon DEF Waits
  <1> QED BY <1>2, <1>6, <1>7, QuietLocal, Zenon

\* The connection leads where the mode says.
LEMMA QuietLink ==
    ASSUME TryCount >= 2, IInv, Quiet, NEW r \in Req, NEW n \in Node, NEW c \in Conn, Link(r, n, c)
    PROVE  Quiet'
  <1>0. PICK y, x : y = Linked(c, n) /\ x = IF y.alive THEN q[r] ELSE Disturbed(q[r])
    OBVIOUS
  <1>1. /\ k[c].st \in {"closed", "idle"} /\ y \in ConnRec /\ y.in = <<>> /\ y.peer = n
    BY <1>0, LinkedLemma, LinkedPeer, Zenon DEF Link
  <1>2. q[r].pc = "link" /\ q[r] \in ReqRec /\ q[r].conn = NoConn
    BY DEF Link, IInv, Typed, Holding, Waits
  <1>3. /\ x \in ReqRec /\ x.mode = q[r].mode /\ x.target = q[r].target
        /\ x.attempts = q[r].attempts /\ x.pc = "link"
        /\ x.disturbed \/ (y.alive /\ ~q[r].disturbed)
    BY <1>0, <1>2, DisturbedLemma, FlagKept, Zenon
  <1>4. UNCHANGED clusterVars /\ n \in Candidates(x)
    BY <1>3 DEF Link, clusterVars, Candidates
  <1>5. x.disturbed \/
            \/ x.mode \in RandomModes \cup {"slot"} /\ x.attempts = 0
            \/ x.mode = "moved" /\ x.attempts <= 1 /\ x.target = Own(r)
            \/ x.mode = "ask" /\ x.attempts <= 2 /\ x.target = Imp(r)
    BY <1>2, <1>3, Zenon DEF Quiet, Progress
  <1>6. x.attempts \in Nat
    BY <1>3, AttemptsNat, Zenon
  <1>7. \/ /\ x.mode \in RandomModes
           /\ q' = [q EXCEPT ![r] = [x EXCEPT !.pc = "pong", !.conn = c]]
           /\ k' = [k EXCEPT ![c] = SendOn(y, "PING", r)]
        \/ /\ x.mode = "ask"
           /\ q' = [q EXCEPT ![r] = [x EXCEPT !.pc = "asked", !.conn = c]]
           /\ k' = [k EXCEPT ![c] = SendOn(y, "ASKING", r)]
        \/ /\ x.mode \in {"slot", "moved"}
           /\ q' = [q EXCEPT ![r] = Attempt(x, c)]
           /\ k' = [k EXCEPT ![c] = AttemptOn(x, r, y)]
    BY <1>0 DEF Link
  <1>8. \A pc : /\ [x EXCEPT !.pc = pc, !.conn = c].pc = pc
                /\ [x EXCEPT !.pc = pc, !.conn = c].conn = c
                /\ [x EXCEPT !.pc = pc, !.conn = c].attempts = x.attempts
                /\ [x EXCEPT !.pc = pc, !.conn = c].disturbed = x.disturbed
    BY <1>3 DEF ReqRec
  <1>9. CASE x.mode \in RandomModes /\ q' = [q EXCEPT ![r] = [x EXCEPT !.pc = "pong", !.conn = c]]
             /\ k' = [k EXCEPT ![c] = SendOn(y, "PING", r)]
    <2>1. PICK w : w = [x EXCEPT !.pc = "pong", !.conn = c]
      OBVIOUS
    <2>2. w.pc = "pong" /\ w.conn = c /\ w.attempts = x.attempts /\ w.disturbed = x.disturbed
      BY <1>8, <2>1, Zenon
    <2>3. x.disturbed \/ x.attempts = 0
      BY <1>5, <1>9 DEF RandomModes
    <2>4. w.disturbed \/ Progress(Own(r), Imp(r), w, SendOn(y, "PING", r))
      BY <2>2, <2>3, Zenon DEF Progress
    <2>5. q' = [q EXCEPT ![r] = w]
      BY <1>9, <2>1
    <2> QED BY <1>1, <1>2, <1>4, <1>9, <2>2, <2>4, <2>5, QuietRequest, Zenon
  <1>10. CASE x.mode = "ask" /\ q' = [q EXCEPT ![r] = [x EXCEPT !.pc = "asked", !.conn = c]]
             /\ k' = [k EXCEPT ![c] = SendOn(y, "ASKING", r)]
    <2>1. PICK w, z : w = [x EXCEPT !.pc = "asked", !.conn = c] /\ z = SendOn(y, "ASKING", r)
      OBVIOUS
    <2>2. w.pc = "asked" /\ w.conn = c /\ w.attempts = x.attempts /\ w.disturbed = x.disturbed
      BY <1>8, <2>1, Zenon
    <2>3. x.disturbed \/ (x.attempts <= 2 /\ n = Imp(r))
      BY <1>4, <1>5, <1>10, Zenon DEF RandomModes, Candidates
    <2>4. z.peer = n /\ (z.alive => z.out # <<>>)
      <3>1. "ASKING" \in Commands
        BY DEF Commands
      <3> QED BY <1>1, <2>1, <3>1, SentFields, Zenon
    <2>5. w.disturbed \/ Progress(Own(r), Imp(r), w, z)
      BY <2>2, <2>3, <2>4, Zenon DEF Progress
    <2>6. q' = [q EXCEPT ![r] = w] /\ k' = [k EXCEPT ![c] = z]
      BY <1>10, <2>1
    <2> QED BY <1>1, <1>2, <1>4, <2>2, <2>5, <2>6, QuietRequest, Zenon
  <1>11. CASE x.mode \in {"slot", "moved"} /\ q' = [q EXCEPT ![r] = Attempt(x, c)]
             /\ k' = [k EXCEPT ![c] = AttemptOn(x, r, y)]
    <2>1. \/ x.disturbed
          \/ x.mode = "slot" /\ x.attempts = 0
          \/ x.mode = "moved" /\ x.attempts <= 1 /\ n = Own(r)
      BY <1>4, <1>5, <1>11, Zenon DEF RandomModes, Candidates
    <2>2. x.disturbed \/ (x.attempts <= 2 /\ Sent(Own(r), Imp(r), x.attempts + 1, y))
      BY <1>1, <1>6, <2>1, FirstOrMoved, Zenon
    <2> QED BY <1>1, <1>2, <1>3, <1>4, <1>11, <2>2, QuietAttempt, Zenon
  <1> QED BY <1>7, <1>9, <1>10, <1>11, Zenon

\* A connection that cannot be made is a disturbance.
LEMMA QuietLinkFail ==
    ASSUME IInv, Quiet, NEW r \in Req, NEW n \in Node, LinkFail(r, n)
    PROVE  Quiet'
  <1>0. PICK x : x = Disturbed(q[r])
    OBVIOUS
  <1>1. PICK y : /\ y = NextTry(x) \/ y = GoRandom(x, "last") \/ y = GoRandom(x, "again")
                 /\ q' = [q EXCEPT ![r] = y]
    <2>1. PICK y : /\ y = CASE x.mode \in RandomModes -> NextTry(x)
                             [] x.mode = "slot"        -> GoRandom(x, "last")
                             [] OTHER                  -> GoRandom(x, "again")
                   /\ q' = [q EXCEPT ![r] = y]
      BY <1>0, Zenon DEF LinkFail
    <2>2. y = NextTry(x) \/ y = GoRandom(x, "last") \/ y = GoRandom(x, "again")
      BY <2>1
    <2> QED BY <2>1, <2>2, Zenon
  <1>2. k' = k /\ UNCHANGED clusterVars /\ q[r] \in ReqRec
    BY DEF LinkFail, IInv, Typed, clusterVars
  <1>3. x \in ReqRec /\ x.disturbed
    BY <1>0, <1>2, DisturbedLemma, FlagKept, Zenon
  <1>4. "last" \in Modes /\ "again" \in Modes
    BY Values
  <1>5. y.disturbed
    <2>1. CASE y = NextTry(x)
      BY <1>3, <2>1, TryFlagKept, Zenon
    <2>2. CASE y = GoRandom(x, "last") \/ y = GoRandom(x, "again")
      BY <1>3, <2>2, FlagKept, ZenonT(30)
    <2> QED BY <1>1, <2>1, <2>2, Zenon
  <1>6. y.pc \in {"link", "done"}
    BY <1>1, <1>3, <1>4, NextTryLemma, GoRandomLemma
  <1> QED BY <1>1, <1>2, <1>5, <1>6, QuietLocal, Zenon DEF Waits

\* The PONG and the +OK of ASKING are followed by the command.
LEMMA QuietReadPong ==
    ASSUME TryCount >= 2, IInv, Quiet, NEW r \in Req, ReadPong(r) \/ ReadAsking(r)
    PROVE  Quiet'
  <1>1. q[r].pc \in {"pong", "asked"} /\ q[r].pc \in Waits /\ Readable(r)
    BY DEF ReadPong, ReadAsking, Waits
  <1>2. Reader(r) = q[r] /\ (q[r].pc = "pong" => Reply(r).kind = "PONG")
    BY <1>1, Reading, Zenon DEF Answers
  <1>3. /\ q' = [q EXCEPT ![r] = Attempt(q[r], q[r].conn)]
        /\ k' = [k EXCEPT ![q[r].conn] = AttemptOn(q[r], r, Rest(r))]
        /\ UNCHANGED clusterVars
    BY <1>2 DEF ReadPong, ReadAsking, clusterVars
  <1>4. q[r] \in ReqRec /\ q[r].conn \in Conn
    BY <1>1, Waiting, Zenon
  <1>5. Rest(r) \in ConnRec /\ Rest(r).in = <<>> /\ Rest(r).out = <<>>
    BY <1>1, Reading, Zenon
  <1>6. q[r].attempts \in Nat
    BY <1>4, AttemptsNat
  <1>7. ASSUME ~q[r].disturbed
        PROVE  /\ q[r].attempts <= 2
               /\ Rest(r).alive => Sent(Own(r), Imp(r), q[r].attempts + 1, Rest(r))
    <2>1. Progress(Own(r), Imp(r), q[r], k[q[r].conn])
      BY <1>7, Zenon DEF Quiet
    <2>2. CASE q[r].pc = "pong"
      <3>1. q[r].attempts = 0
        BY <2>1, <2>2, Zenon DEF Progress
      <3> QED BY <3>1 DEF Sent
    <2>3. CASE q[r].pc = "asked"
      <3>1. q[r].attempts <= 2 /\ (Rest(r).alive => Rest(r).peer = Imp(r) /\ Rest(r).asking)
        BY <1>1, <1>5, <2>1, <2>3, RestFields, Zenon DEF Progress
      <3> QED BY <1>6, <3>1 DEF Sent
    <2> QED BY <1>1, <2>2, <2>3, Zenon
  <1> QED BY <1>3, <1>4, <1>5, <1>7, QuietAttempt, Zenon

\* What a coroutine reads is the first reply on its connection.
LEMMA ReplyFirst ==
    ASSUME IInv, NEW r \in Req, q[r].pc \in Waits, Readable(r)
    PROVE  Reply(r) = k[q[r].conn].in[1] /\ k[q[r].conn].in # <<>>
  <1>1. PICK s : s = k[q[r].conn].in
    BY Zenon
  <1>2. s \in Seq(Message) /\ s # <<>>
    BY <1>1, Waiting, Zenon DEF Readable, ConnRec, Ins
  <1>3. Head(s) = s[1]
    BY <1>2
  <1> QED BY <1>1, <1>2, <1>3, Zenon DEF Reply

\* The reply of the command is a value, or leads one step further.
LEMMA QuietReply ==
    ASSUME IInv, Quiet, NEW r \in Req, ReadReply(r)
    PROVE  Quiet'
  <1>1. q[r].pc = "wait" /\ q[r].pc \in Waits /\ Readable(r)
    BY Zenon DEF ReadReply, Waits, IInv, Local, ReqOK
  <1>2. PICK res : res = IF Reply(r).kind = "ERR" THEN "refused" ELSE "ok"
    OBVIOUS
  <1>3. q' = [q EXCEPT ![r] = Finished(q[r], res)] /\ UNCHANGED clusterVars
    BY <1>1, <1>2, Reading, Zenon DEF ReadReply, clusterVars
  <1>4. PICK y : k' = [k EXCEPT ![q[r].conn] = y]
    BY Zenon DEF ReadReply
  <1>5. q[r] \in ReqRec /\ q[r].conn \in Conn
    BY <1>1, Waiting, Zenon
  <1>6. q[r].disturbed \/ Reply(r).kind = "VALUE"
    <2>1. Reply(r) = k[q[r].conn].in[1] /\ k[q[r].conn].in # <<>>
      BY <1>1, ReplyFirst, Zenon
    <2>2. q[r].disturbed \/ Told(Own(r), Imp(r), q[r].attempts, Reply(r))
      BY <1>1, <2>1, Zenon DEF Quiet, Progress
    <2> QED BY <1>1, <2>2 DEF Told, ReadReply
  <1>7. PICK x : x = Finished(q[r], res)
    BY Zenon
  <1>8. /\ x.pc = "done" /\ x.disturbed = q[r].disturbed /\ x.result = res
        /\ x.disturbed \/ res = "ok"
    BY <1>2, <1>5, <1>6, <1>7, FlagKept, FinishedLemma
  <1>9. x.disturbed \/ Progress(Own(r), Imp(r), x, y)
    BY <1>8, Zenon DEF Progress
  <1> QED BY <1>3, <1>4, <1>5, <1>7, <1>8, <1>9, QuietRequest, Zenon DEF Waits

\* A MOVED names the owner and an ASK the importing node.
LEMMA QuietRedirect ==
    ASSUME IInv, Quiet, NEW r \in Req, ReadRedirect(r)
    PROVE  Quiet'
  <1>1. q[r].pc = "wait" /\ q[r].pc \in Waits /\ Readable(r)
    BY DEF ReadRedirect, Waits
  <1>2. PICK y : k' = [k EXCEPT ![q[r].conn] = y]
    BY Zenon DEF ReadRedirect
  <1>3. q[r] \in ReqRec /\ q[r].conn \in Conn /\ Reader(r) = q[r] /\ UNCHANGED clusterVars
    BY <1>1, Waiting, Reading, Zenon DEF ReadRedirect, clusterVars
  <1>4. q[r].disturbed \/ Told(Own(r), Imp(r), q[r].attempts, Reply(r))
    <2>1. Reply(r) = k[q[r].conn].in[1] /\ k[q[r].conn].in # <<>>
      BY <1>1, ReplyFirst, Zenon
    <2> QED BY <1>1, <2>1, Zenon DEF Quiet, Progress
  <1>5. "again" \in Modes /\ "moved" \in Modes /\ "ask" \in Modes
    BY Values
  <1>6. CASE /\ q' = [q EXCEPT ![r] = GoRandom(q[r], "again")]
             /\ Reply(r).kind = "TRYAGAIN" \/ Reply(r).node = NoNode
             /\ Reply(r).kind \in {"TRYAGAIN", "MOVED", "ASK"}
    <2>1. q[r].disturbed
      BY <1>4, <1>6 DEF Told
    <2>2. GoRandom(q[r], "again").disturbed /\ GoRandom(q[r], "again").pc \notin Waits
      BY <1>3, <1>5, <2>1, FlagKept, GoRandomLemma, Zenon DEF Waits
    <2> QED BY <1>2, <1>3, <1>6, <2>2, QuietRequest, Zenon
  <1>7. ASSUME NEW mode \in {"moved", "ask"},
               q' = [q EXCEPT ![r] = [GoRandom(q[r], mode) EXCEPT !.target = Reply(r).node]],
               \/ mode = "moved" /\ Reply(r).kind = "MOVED"
               \/ mode = "ask" /\ Reply(r).kind = "ASK"
        PROVE  Quiet'
    <2>1. PICK g : g = GoRandom(q[r], mode)
      OBVIOUS
    <2>2. /\ g \in ReqRec /\ g.pc = "link" /\ g.mode = mode /\ g.attempts = q[r].attempts
          /\ g.disturbed = q[r].disturbed
      <3>1. mode \in Modes
        BY <1>5, Zenon
      <3>2. g \in ReqRec /\ g.pc = "link"
        BY <1>3, <2>1, <3>1, GoRandomLemma, Zenon
      <3>3. g.mode = mode /\ g.attempts = q[r].attempts /\ g.disturbed = q[r].disturbed
        BY <1>3, <2>1, FlagKept, Zenon
      <3> QED BY <3>2, <3>3, Zenon
    <2>3. PICK x : x = [g EXCEPT !.target = Reply(r).node]
      BY Zenon
    <2>4. /\ x.pc = "link" /\ x.mode = mode /\ x.attempts = q[r].attempts
          /\ x.disturbed = q[r].disturbed /\ x.target = Reply(r).node
      BY <2>2, <2>3, Zenon DEF ReqRec
    <2>6. x.disturbed \/ Progress(Own(r), Imp(r), x, y)
      <3>1. CASE mode = "moved"
        BY <1>4, <1>7, <2>4, <3>1 DEF Told, Progress
      <3>2. CASE mode = "ask"
        BY <1>4, <1>7, <2>4, <3>2, Zenon DEF Told, Progress
      <3> QED BY <3>1, <3>2, Zenon
    <2>7. q' = [q EXCEPT ![r] = x] /\ x.pc \notin Waits
      BY <1>7, <2>1, <2>3, <2>4, Zenon DEF Waits
    <2> QED BY <1>2, <1>3, <2>6, <2>7, QuietRequest, Zenon
  <1>8. \/ /\ q' = [q EXCEPT ![r] = GoRandom(q[r], "again")]
           /\ Reply(r).kind = "TRYAGAIN" \/ Reply(r).node = NoNode
           /\ Reply(r).kind \in {"TRYAGAIN", "MOVED", "ASK"}
        \/ /\ q' = [q EXCEPT ![r] = [GoRandom(q[r], "moved") EXCEPT !.target = Reply(r).node]]
           /\ Reply(r).kind = "MOVED"
        \/ /\ q' = [q EXCEPT ![r] = [GoRandom(q[r], "ask") EXCEPT !.target = Reply(r).node]]
           /\ Reply(r).kind = "ASK"
    BY <1>3 DEF ReadRedirect
  <1> QED BY <1>6, <1>7, <1>8, Zenon

\* A reply that does not come is a disturbance.
LEMMA QuietTimeout ==
    ASSUME IInv, Quiet, NEW r \in Req, Timeout(r) \/ ReadClosed(r)
    PROVE  Quiet'
  <1>0. PICK x : x = Disturbed(q[r])
    OBVIOUS
  <1>1. q[r].pc \in Waits
    BY Zenon DEF Timeout, ReadClosed, Waits, IInv, Local, ReqOK
  <1>2. q' = [q EXCEPT ![r] = NoReply(x)] /\ UNCHANGED clusterVars
    BY <1>0, Zenon DEF Timeout, ReadClosed, clusterVars
  <1>3. PICK y : k' = [k EXCEPT ![q[r].conn] = y]
    BY DEF Timeout, ReadClosed
  <1>4. /\ x \in ReqRec /\ x.disturbed /\ x.pc = q[r].pc /\ x.foreign = q[r].foreign
        /\ x.result = q[r].result /\ q[r].conn \in Conn
    BY <1>0, <1>1, Waiting, DisturbedLemma, FlagKept, Zenon
  <1>5. ReqOK(x, execs[r])
    BY <1>1, <1>4, Waiting, ZenonT(30) DEF ReqOK
  <1>6. NoReply(x).pc \notin Waits
    BY <1>1, <1>4, <1>5, NoReplyLemma, Zenon
  <1>7. NoReply(x).disturbed
    <2>1. \/ NoReply(x) = NextTry(x) \/ NoReply(x) = Finished(x, "failed")
          \/ NoReply(x) = Finished(x, "refused")
      BY DEF NoReply
    <2> QED BY <1>4, <2>1, TryFlagKept, FlagKept, ZenonT(30)
  <1> QED BY <1>2, <1>3, <1>4, <1>6, <1>7, QuietRequest, Zenon

\* A coroutine that was killed says so.
LEMMA QuietAbort ==
    ASSUME IInv, Quiet, NEW r \in Req, Abort(r)
    PROVE  Quiet'
  <1>1. PICK x : x = Finished(q[r], "aborted")
    OBVIOUS
  <1>2. q' = [q EXCEPT ![r] = x] /\ UNCHANGED clusterVars /\ q[r] \in ReqRec
    BY <1>1 DEF Abort, IInv, Typed, clusterVars
  <1>3. x.pc = "done" /\ x.result = "aborted" /\ x.pc \notin Waits
    BY <1>1, <1>2, FinishedLemma, Zenon DEF Waits
  <1>4. \A y : Progress(Own(r), Imp(r), x, y)
    BY <1>3, Zenon DEF Progress
  <1>5. CASE q[r].conn = NoConn
    <2>1. k' = k
      BY <1>5 DEF Abort
    <2> QED BY <1>2, <1>3, <1>4, <2>1, QuietLocal, Zenon
  <1>6. CASE q[r].conn # NoConn
    <2>1. q[r].conn \in Conn
      BY <1>2, <1>6 DEF ReqRec, SomeConn
    <2>2. PICK y : k' = [k EXCEPT ![q[r].conn] = y]
      BY <1>6, Zenon DEF Abort
    <2> QED BY <1>2, <1>3, <1>4, <2>1, <2>2, QuietRequest, Zenon
  <1> QED BY <1>5, <1>6

\* What a node's answer leaves on a connection that somebody holds.
LEMMA AnsweredFields ==
    ASSUME NEW c \in Conn, NEW m, Met(c, m), k[c].st = "held",
           NEW reply \in Message, NEW asking \in BOOLEAN
    PROVE  /\ Answered(k[c], <<reply>>, asking).out = <<>>
           /\ Answered(k[c], <<reply>>, asking).in[1] = reply
           /\ Answered(k[c], <<reply>>, asking).asking = asking
           /\ Answered(k[c], <<reply>>, asking).peer = k[c].peer
  <1>1. k[c] \in ConnRec /\ k[c].in = <<>> /\ Tail(k[c].out) = <<>>
    BY DEF Met
  <1>2. PICK w : w = [k[c] EXCEPT !.out = <<>>, !.asking = asking]
    OBVIOUS
  <1>3. w \in ConnRec
    BY <1>1, <1>2, Values, Zenon DEF ConnRec
  <1>4. w.out = <<>> /\ w.in = <<>> /\ w.asking = asking /\ w.peer = k[c].peer
    BY <1>1, <1>2, <1>3, Zenon DEF ConnRec
  <1>5. <<>> \o <<reply>> = <<reply>> /\ <<reply>> \in Ins
    BY DEF Ins
  <1>6. Answered(k[c], <<reply>>, asking) = [w EXCEPT !.in = <<reply>>]
    BY <1>1, <1>2, <1>4, <1>5, Zenon DEF Answered
  <1> QED BY <1>3, <1>4, <1>6, SMTT(20) DEF ConnRec

\* A node's answer to a command that arrived.
LEMMA QuietAnswer ==
    ASSUME IInv, Quiet, UNCHANGED clusterVars, NEW c \in Conn, Arrived(c), NEW reply, NEW asking,
           Fits(Head(k[c].out), reply, asking),
           k' = [k EXCEPT ![c] = Answered(k[c], <<reply>>, asking)],
           \A r \in Req : q'[r] = q[r] \/ q'[r].disturbed,
           \A r \in Req : q[r].pc = "asked" /\ Head(k[c].out).cmd = "ASKING" => asking,
           \A r \in Req : r = Head(k[c].out).req /\ Head(k[c].out).cmd = "CMD"
                              /\ Sent(Own(r), Imp(r), q[r].attempts, k[c])
                => q'[r].disturbed \/ Told(Own(r), Imp(r), q[r].attempts, reply)
    PROVE  Quiet'
  <1>0. PICK m : m = Head(k[c].out)
    BY Zenon
  <1>1. Met(c, m) /\ reply \in Message /\ asking \in BOOLEAN
    BY <1>0, Arriving, Zenon DEF Fits
  <1>2. PICK y : y = Answered(k[c], <<reply>>, asking)
    BY Zenon
  <1>3. ASSUME NEW r \in Req, q[r].conn = c, q[r].pc \in Waits, ~q[r].disturbed, ~q'[r].disturbed
        PROVE  Progress(Own(r), Imp(r), q[r], y)
    <2>1. Progress(Own(r), Imp(r), q[r], k[c])
      BY <1>3, Zenon DEF Quiet
    <2>2. r = m.req /\ m.cmd = Question(q[r].pc) /\ k[c].st = "held" /\ k[c].alive /\ k[c].out # <<>>
      BY <1>1, <1>3, Waiting, Zenon DEF Met, Arrived
    <2>3. y.out = <<>> /\ y.in[1] = reply /\ y.asking = asking /\ y.peer = k[c].peer
      <3>1. /\ Answered(k[c], <<reply>>, asking).out = <<>>
            /\ Answered(k[c], <<reply>>, asking).in[1] = reply
            /\ Answered(k[c], <<reply>>, asking).asking = asking
            /\ Answered(k[c], <<reply>>, asking).peer = k[c].peer
        <4>1. c \in Conn /\ Met(c, m) /\ k[c].st = "held" /\ reply \in Message /\ asking \in BOOLEAN
          BY <1>1, <2>2, Zenon
        <4> QED BY ONLY <4>1, AnsweredFields
      <3> QED BY <1>2, <3>1, Zenon
    <2>4. CASE q[r].pc = "pong"
      BY <2>1, <2>4, Zenon DEF Progress
    <2>5. CASE q[r].pc = "asked"
      <3>1. asking
        BY <1>0, <2>2, <2>5, Zenon DEF Question
      <3> QED BY <2>1, <2>2, <2>3, <2>5, <3>1, Zenon DEF Progress
    <2>6. CASE q[r].pc = "wait"
      <3>1. Sent(Own(r), Imp(r), q[r].attempts, k[c])
        BY <2>1, <2>2, <2>6, Zenon DEF Progress
      <3>2. Told(Own(r), Imp(r), q[r].attempts, reply)
        BY <1>0, <1>3, <2>2, <2>6, <3>1, Zenon DEF Question
      <3> QED BY <2>3, <2>6, <3>2, Zenon DEF Progress
    <2> QED BY <1>3, <2>4, <2>5, <2>6, Zenon DEF Waits
  <1> QED BY <1>2, <1>3, QuietConn, Zenon

\* A command that is refused leads to the owner or to the importing node, or
\* the node could not name one.
LEMMA QuietRefusal ==
    ASSUME Stable, NEW r \in Req, NEW n, NEW asking \in BOOLEAN, ~Serves(n, r, asking),
           NEW y, y.peer = n, y.asking = asking, NEW a \in Nat, Sent(Own(r), Imp(r), a, y),
           NEW node, node \in {Refusal(n, r, asking).node, NoNode}, node # NoNode
    PROVE  Told(Own(r), Imp(r), a, [Refusal(n, r, asking) EXCEPT !.node = node])
  <1>1. SlotOf[r] \in Slot /\ Own(r) # Imp(r)
    BY ClusterAssumption, Zenon DEF Serves, Stable, Own, Imp
  <1>2. CASE n = Own(r)
    <2>1. Refusal(n, r, asking) = [kind |-> "ASK", req |-> r, node |-> Imp(r)]
      BY <1>2 DEF Refusal, Own, Imp
    <2>2. a <= 2
      BY <1>1, <1>2 DEF Sent
    <2> QED BY <2>1, <2>2 DEF Told
  <1>3. CASE n # Own(r) /\ n = Imp(r) /\ asking
    <2>1. Refusal(n, r, asking) = [kind |-> "TRYAGAIN", req |-> r, node |-> NoNode]
      BY <1>3 DEF Refusal, Own, Imp
    <2> QED BY <2>1
  <1>4. CASE n # Own(r) /\ ~(n = Imp(r) /\ asking)
    <2>1. Refusal(n, r, asking) = [kind |-> "MOVED", req |-> r, node |-> Own(r)]
      BY <1>4, Zenon DEF Refusal, Own, Imp
    <2>2. a = 1
      BY <1>4 DEF Sent
    <2> QED BY <2>1, <2>2 DEF Told
  <1> QED BY <1>2, <1>3, <1>4, Zenon

\* PONG and the +OK of ASKING.
LEMMA QuietPing ==
    ASSUME IInv, Quiet, NEW c \in Conn, NodePing(c)
    PROVE  Quiet'
  <1> DEFINE m == Head(k[c].out)
  <1>1. Arrived(c) /\ q' = q /\ UNCHANGED clusterVars
    BY Zenon DEF NodePing, clusterVars
  <1>2. m.req \in Req
    BY <1>1, ArrivingRequest
  <1>3. PICK kind \in {"PONG", "OK"}, asking \in BOOLEAN :
            /\ \/ m.cmd = "PING" /\ kind = "PONG" /\ ~asking
               \/ m.cmd = "ASKING" /\ kind = "OK" /\ asking
            /\ k' = [k EXCEPT ![c] = Answered(k[c], <<[kind |-> kind, req |-> m.req,
                                                      node |-> NoNode]>>, asking)]
    BY Zenon DEF NodePing
  <1>4. PICK reply : reply = [kind |-> kind, req |-> m.req, node |-> NoNode]
    BY Zenon
  <1>5. reply \in Message /\ reply.req = m.req /\ reply.kind = kind
    BY <1>2, <1>4, Values, Zenon DEF Message, Replies
  <1>6. \A pc \in Waits : m.cmd = Question(pc) => kind \in Answers(pc)
    BY <1>3, Zenon DEF Waits, Question, Answers
  <1>7. Fits(m, reply, asking)
    BY <1>3, <1>5, <1>6, Zenon DEF Fits
  <1>8. k' = [k EXCEPT ![c] = Answered(k[c], <<reply>>, asking)]
    BY <1>3, <1>4, Zenon
  <1>9. m.cmd # "CMD" /\ (m.cmd = "ASKING" => asking)
    BY <1>3
  <1> QED BY <1>1, <1>7, <1>8, <1>9, QuietAnswer, ZenonT(30)

\* A value.
LEMMA QuietExecute ==
    ASSUME MultiBulk = {}, IInv, Quiet, NEW c \in Conn, NodeExecute(c)
    PROVE  Quiet'
  <1> DEFINE m == Head(k[c].out)
  <1>1. PICK reply : reply = [kind |-> "VALUE", req |-> m.req, node |-> NoNode]
    BY Zenon
  <1>2. /\ Arrived(c) /\ q' = q /\ m.cmd = "CMD" /\ UNCHANGED clusterVars
        /\ k' = [k EXCEPT ![c] = Answered(k[c], <<reply>>, FALSE)]
    BY <1>1, Zenon DEF NodeExecute, Value, clusterVars
  <1>3. reply \in Message /\ reply.req = m.req /\ reply.kind = "VALUE"
    BY <1>1, <1>2, ArrivingRequest, Values, Zenon DEF Message, Replies
  <1>4. \A pc \in Waits : m.cmd = Question(pc) => "VALUE" \in Answers(pc)
    BY <1>2 DEF Waits, Question, Answers
  <1>5. Fits(m, reply, FALSE)
    BY <1>2, <1>3, <1>4, Zenon DEF Fits
  <1>6. \A r \in Req : Told(Own(r), Imp(r), q[r].attempts, reply)
    BY <1>3 DEF Told
  <1> QED BY <1>2, <1>5, <1>6, QuietAnswer, Zenon

\* A redirection.
LEMMA QuietRefused ==
    ASSUME IInv, World, Stable, Quiet, NEW c \in Conn, NodeRedirect(c)
    PROVE  Quiet'
  <1> DEFINE m == Head(k[c].out)
             f == Refusal(k[c].peer, m.req, k[c].asking)
  <1>1. PICK node \in {f.node, NoNode} :
            /\ k' = [k EXCEPT ![c] = Answered(@, <<[f EXCEPT !.node = node]>>, FALSE)]
            /\ q' = IF node = NoNode THEN [q EXCEPT ![m.req] = Disturbed(@)] ELSE q
    BY Zenon DEF NodeRedirect
  <1>2. /\ Arrived(c) /\ m.cmd = "CMD" /\ UNCHANGED clusterVars
        /\ ~Serves(k[c].peer, m.req, k[c].asking)
    BY Zenon DEF NodeRedirect, clusterVars
  <1>3. m.req \in Req /\ q \in [Req -> ReqRec] /\ k[c] \in ConnRec
    BY <1>2, ArrivingRequest, Zenon DEF IInv, Typed
  <1>4. PICK reply : reply = [f EXCEPT !.node = node]
    BY Zenon
  <1>5. reply \in Message /\ reply.req = m.req /\ reply.kind \in {"MOVED", "ASK", "TRYAGAIN"}
    <2>1. PICK n, p, asking, g : /\ n = k[c].peer /\ p = m.req /\ asking = k[c].asking
                                 /\ g = Refusal(n, p, asking)
      BY Zenon
    <2>2. /\ p \in Req /\ ~Serves(n, p, asking) /\ (node = g.node \/ node = NoNode)
          /\ reply = [g EXCEPT !.node = node]
      BY <1>1, <1>2, <1>3, <1>4, <2>1, Zenon
    <2>3. /\ Refusal(n, p, asking) \in Message /\ Refusal(n, p, asking).req = p
          /\ Refusal(n, p, asking).kind \in {"MOVED", "ASK", "TRYAGAIN"}
      BY <2>2, RefusalLemma, Zenon
    <2>4. g \in Message /\ g.req = p /\ g.kind \in {"MOVED", "ASK", "TRYAGAIN"}
      BY <2>1, <2>3, Zenon
    <2>5. node \in SomeNode
      BY <2>2, <2>4, Values, Zenon DEF Message
    <2>6. reply \in Message
      BY <2>2, <2>4, <2>5, Zenon DEF Message
    <2>7. reply.req = p /\ reply.kind = g.kind
      BY <2>2, <2>4, Zenon DEF Message
    <2> QED BY <2>1, <2>4, <2>6, <2>7, Zenon
  <1>6. \A pc \in Waits : m.cmd = Question(pc) => reply.kind \in Answers(pc)
    BY <1>2, <1>5, Zenon DEF Waits, Question, Answers
  <1>7. Fits(m, reply, FALSE)
    BY <1>2, <1>5, <1>6, Zenon DEF Fits
  <1>8. /\ \A r \in Req : q'[r] = q[r] \/ q'[r].disturbed
        /\ node = NoNode => q'[m.req].disturbed
    BY <1>1, <1>3, FlagKept, Zenon
  <1>9. ASSUME Sent(Own(m.req), Imp(m.req), q[m.req].attempts, k[c]), node # NoNode
        PROVE  Told(Own(m.req), Imp(m.req), q[m.req].attempts, reply)
    <2>1. q[m.req].attempts \in Nat
      BY <1>3, AttemptsNat, Zenon
    <2>2. k[c].asking \in BOOLEAN
      BY <1>3, Zenon DEF ConnRec
    <2> QED BY <1>2, <1>3, <1>4, <1>9, <2>1, <2>2, QuietRefusal, Zenon
  <1>10. k' = [k EXCEPT ![c] = Answered(k[c], <<reply>>, FALSE)]
    BY <1>1, <1>4, Zenon
  <1> QED BY <1>2, <1>7, <1>8, <1>9, <1>10, QuietAnswer, ZenonT(30)

\* Another error is a disturbance.
LEMMA QuietError ==
    ASSUME IInv, Quiet, NEW c \in Conn, NodeError(c)
    PROVE  Quiet'
  <1> DEFINE m == Head(k[c].out)
  <1>1. PICK reply : reply = [kind |-> "ERR", req |-> m.req, node |-> NoNode]
    BY Zenon
  <1>2. /\ Arrived(c) /\ m.cmd = "CMD" /\ UNCHANGED clusterVars
        /\ q' = [q EXCEPT ![m.req] = Disturbed(q[m.req])]
        /\ k' = [k EXCEPT ![c] = Answered(k[c], <<reply>>, FALSE)]
    BY <1>1, Zenon DEF NodeError, clusterVars
  <1>3. m.req \in Req /\ q \in [Req -> ReqRec]
    BY <1>2, ArrivingRequest, Zenon DEF IInv, Typed
  <1>4. reply \in Message /\ reply.req = m.req /\ reply.kind = "ERR"
    BY <1>1, <1>3, Values, Zenon DEF Message, Replies
  <1>5. \A pc \in Waits : m.cmd = Question(pc) => "ERR" \in Answers(pc)
    BY <1>2 DEF Waits, Question, Answers
  <1>6. Fits(m, reply, FALSE)
    BY <1>2, <1>4, <1>5, Zenon DEF Fits
  <1>7. q'[m.req].disturbed /\ \A r \in Req : q'[r] = q[r] \/ q'[r].disturbed
    BY <1>2, <1>3, FlagKept, Zenon
  <1> QED BY <1>2, <1>6, <1>7, QuietAnswer, Zenon

\* A connection that breaks keeps the reply that has come.
LEMMA QuietBreak ==
    ASSUME IInv, Quiet, NEW c \in Conn, Break(c)
    PROVE  Quiet'
  <1>1. PICK z : z = [k[c] EXCEPT !.alive = FALSE, !.out = <<>>, !.asking = FALSE]
    OBVIOUS
  <1>2. PICK y : y = IF k[c].st = "gone" THEN Closed ELSE z
    OBVIOUS
  <1>3. q' = q /\ UNCHANGED clusterVars /\ k' = [k EXCEPT ![c] = y] /\ k[c] \in ConnRec
    BY <1>1, <1>2, Zenon DEF Break, clusterVars, IInv, Typed
  <1>4. ~z.alive /\ z.in = k[c].in
    BY <1>1, <1>3 DEF ConnRec
  <1>5. ASSUME NEW r \in Req, q[r].conn = c, q[r].pc \in Waits, ~q[r].disturbed
        PROVE  Progress(Own(r), Imp(r), q[r], y)
    <2>1. Progress(Own(r), Imp(r), q[r], k[c])
      BY <1>5 DEF Quiet
    <2>2. y = z
      BY <1>2, <1>5, Waiting, Zenon
    <2> QED BY <1>4, <1>5, <2>1, <2>2, Zenon DEF Progress, Waits
  <1> QED BY <1>3, <1>5, QuietConn, Zenon

\* Nobody holds a pooled connection.
LEMMA QuietPoolClose ==
    ASSUME IInv, Quiet, NEW c \in Conn, PoolClose(c)
    PROVE  Quiet'
  <1>1. /\ k[c].st = "idle" /\ q' = q /\ UNCHANGED clusterVars
        /\ k' = [k EXCEPT ![c] = Close(k[c])]
    BY DEF PoolClose, clusterVars
  <1>2. \A r \in Req : ~(q[r].conn = c /\ q[r].pc \in Waits)
    BY <1>1, Waiting, Zenon
  <1> QED BY <1>1, <1>2, QuietConn, Zenon

\* A migration disturbs every request that is under way.
LEMMA QuietSlot ==
    ASSUME IInv, Quiet, NEW s \in Slot, SlotNext(s)
    PROVE  Quiet'
  <1>1. DisturbRunning
    BY DEF SlotNext, Migrate, MoveKeys, Assign
  <1>2. ASSUME NEW r \in Req, ~q'[r].disturbed
        PROVE  Progress(Own(r), Imp(r), q[r], k[q[r].conn])'
    <2>1. q[r] \in ReqRec
      BY DEF IInv, Typed
    <2>2. ~Running(r) /\ q'[r] = q[r]
      BY <1>1, <1>2, <2>1, FlagKept, Zenon DEF DisturbRunning
    <2>3. Progress(Own(r), Imp(r), q[r], k[q[r].conn])
      BY <1>2, <2>2, Zenon DEF Quiet
    <2>4. q[r].pc \in {"start", "done"}
      BY <2>2, Zenon DEF Running
    <2> QED BY <2>2, <2>3, <2>4, Zenon DEF Progress
  <1> QED BY <1>2, Zenon DEF Quiet

\* A slot that migrates never does to its owner.
LEMMA StableStep ==
    ASSUME World, Stable, [Next]_vars
    PROVE  Stable'
  <1>1. CASE UNCHANGED <<owner, importing>>
    BY <1>1, Zenon DEF Stable
  <1>2. ASSUME NEW s \in Slot, NEW n \in Node, Migrate(s, n)
        PROVE  Stable'
    BY <1>2, Zenon DEF Stable, World, Migrate
  <1>3. ASSUME NEW s \in Slot, MoveKeys(s)
        PROVE  Stable'
    BY <1>1, <1>3, Zenon DEF MoveKeys
  <1>4. ASSUME NEW s \in Slot, Assign(s)
        PROVE  Stable'
    BY <1>4, ClusterAssumption, Zenon DEF Stable, World, Assign, SomeNode
  <1>5. ASSUME NEW r \in Req, ReqNext(r) \/ Abort(r)
        PROVE  UNCHANGED <<owner, importing>>
    BY <1>5, RequestShape, Zenon DEF clusterVars
  <1>6. ASSUME NEW c \in Conn, PoolClose(c) \/ NodeNext(c)
        PROVE  UNCHANGED <<owner, importing>>
    BY <1>6, Zenon DEF NodeNext, PoolClose, NodePing, NodeExecute, NodeRedirect, NodeError, Break,
                clusterVars
  <1>7. CASE UNCHANGED vars
    BY <1>1, <1>7, Zenon DEF vars
  <1> QED BY <1>1, <1>2, <1>3, <1>4, <1>5, <1>6, <1>7, Zenon DEF Next, SlotNext

\* Every step keeps an undisturbed request on its way.
LEMMA QuietNext ==
    ASSUME MultiBulk = {}, TryCount >= 2, Safe, Stable, Quiet, [Next]_vars
    PROVE  Quiet'
  <1> USE DEF Safe
  <1>1. ASSUME NEW r \in Req, ReqNext(r) \/ Abort(r)
        PROVE  Quiet'
    <2>1. ~ReadHeader(r)
      BY Reading, Zenon DEF ReadHeader, Waits, Answers
    <2> QED
      BY <1>1, <2>1, QuietStart, QuietLink, QuietLinkFail, QuietReadPong, QuietReply,
         QuietRedirect, QuietTimeout, QuietAbort, Zenon
      DEF ReqNext
  <1>2. ASSUME NEW c \in Conn, PoolClose(c) \/ NodeNext(c)
        PROVE  Quiet'
    BY <1>2, QuietPoolClose, QuietPing, QuietExecute, QuietRefused, QuietError, QuietBreak, Zenon
    DEF NodeNext
  <1>3. ASSUME NEW s \in Slot, SlotNext(s)
        PROVE  Quiet'
    BY <1>3, QuietSlot
  <1>4. CASE UNCHANGED vars
    BY <1>4, Zenon DEF vars, Quiet, Own, Imp
  <1> QED BY <1>1, <1>2, <1>3, <1>4, Zenon DEF Next

\* A request that meets no failure, no migration step and no error while it runs
\* is answered from the first to the third attempt, however stale the slot
\* table: by the node it was sent to, by the owner of its slot, or by the node
\* that imports it.  The retry loop of send_cluster_command has them all.
THEOREM QuietRequestsSucceed ==
    ASSUME MultiBulk = {}
    PROVE  Spec => []QuietSuccess
  <1>1. CASE TryCount >= 2
    <2>1. Init => Stable
      BY ClusterAssumption DEF Init, Stable
    <2>2. Init => Quiet
      <3>1. ASSUME Init, NEW r \in Req
            PROVE  q[r].pc = "start" /\ q[r].attempts = 0
        BY <3>1 DEF Init
      <3> QED BY <3>1, Zenon DEF Quiet, Progress
    <2>3. Safe /\ Stable /\ [Next]_vars => Stable'
      BY StableStep DEF Safe
    <2>4. Safe /\ Stable /\ Quiet /\ [Next]_vars => Quiet'
      BY <1>1, QuietNext, Zenon
    <2>5. Quiet => QuietSuccess
      BY Zenon DEF Quiet, Progress, QuietSuccess
    <2> QED BY <2>1, <2>2, <2>3, <2>4, <2>5, Invariance, PTL DEF Spec
  <1>2. CASE ~(TryCount >= 2)
    <2>1. QuietSuccess
      BY <1>2 DEF QuietSuccess
    <2> QED BY <2>1, PTL
  <1> QED BY <1>1, <1>2, Zenon
=============================================================================
