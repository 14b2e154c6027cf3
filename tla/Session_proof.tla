--------------------------- MODULE Session_proof ---------------------------
(***************************************************************************)
(* For every bound and every resolution of the clock: replies come in the  *)
(* order of the requests, every request is counted, a worker that exits     *)
(* reads at most one more request, and the recorded latency is off by less  *)
(* than the fraction ngx.usec adds.                                         *)
(***************************************************************************)
EXTENDS Session, TLAPS

\* How far the latency of a processed request may be off.
Error == (Second - 1) \div Milli

\* The counters of one session: what was read, counted and received, and the
\* start of the request that is being processed.
IInv ==
    /\ clock \in Nat /\ taken \in Nat /\ query_count \in Nat /\ before \in Nat
    /\ exiting \in BOOLEAN /\ write_closed \in BOOLEAN
    /\ pc \in {"loop", "read", "check", "process", "send", "ended"}
    /\ got \in Seq(Nat) /\ InOrder
    /\ Len(got) <= query_count
    /\ ~write_closed => Len(got) = query_count
    /\ pc \in {"loop", "read"} => query_count = taken
    /\ pc \in {"check", "process", "send"} => taken = query_count + 1
    /\ exiting => taken <= before + 1
    /\ exiting /\ pc = "read" => taken = before
    /\ pc = "process" => request = "known"
    /\ pc \in {"process", "send"} /\ request = "known" =>
         began \in Nat /\ began <= clock /\ now = usec(began)
    /\ LatencyTrue

\* Division, as it is needed for ngx.usec.
LEMMA DivMod ==
    ASSUME NEW t \in Nat, NEW s \in Nat \ {0}
    PROVE  /\ (t \div s) \in Nat
           /\ (t % s) \in 0 .. s - 1
           /\ t = (t \div s) * s + (t % s)
  OBVIOUS

\* Division is monotonic.
LEMMA DivMono ==
    ASSUME NEW a \in Nat, NEW b \in Nat, a <= b, NEW m \in Nat \ {0}
    PROVE  (a \div m) <= (b \div m)
  OBVIOUS

\* ngx.usec is ahead of the clock by at most Error.
LEMMA UsecLemma ==
    ASSUME NEW t \in Nat
    PROVE  usec(t) \in Nat /\ t <= usec(t) /\ usec(t) <= t + Error
  <1> DEFINE r == t % Second
             q == (t \div Second) * Second
             e == r \div Milli
  <1>0. Second \in Nat \ {0} /\ Milli \in Nat \ {0}
    BY SessionAssumption
  <1>1. q \in Nat /\ r \in 0 .. Second - 1 /\ t = q + r
    <2>1. (t \div Second) \in Nat /\ r \in 0 .. Second - 1 /\ t = q + r
      BY <1>0, DivMod
    <2> QED BY <1>0, <2>1
  <1>2. e \in Nat /\ e <= Error
    <2> HIDE DEF r
    <2>1. r \in Nat /\ Second - 1 \in Nat /\ r <= Second - 1
      BY <1>0, <1>1
    <2>2. e \in Nat
      BY <1>0, <2>1, DivMod
    <2>3. e <= ((Second - 1) \div Milli)
      BY <1>0, <2>1, DivMono
    <2> QED BY <2>2, <2>3 DEF Error
  <1>3. usec(t) = q + e + r
    BY DEF usec
  <1>4. Error \in Nat
    BY DivMod, SessionAssumption DEF Error
  <1> HIDE DEF q, r, e
  <1> QED BY <1>1, <1>2, <1>3, <1>4

\* The difference of two readings is off by at most Error, in both directions.
LEMMA Elapsed ==
    ASSUME NEW a \in Nat, NEW b \in Nat
    PROVE  usec(b) - usec(a) \in (b - a) - Error .. (b - a) + Error
  <1>1. usec(a) \in Nat /\ a <= usec(a) /\ usec(a) <= a + Error
    BY UsecLemma
  <1>2. usec(b) \in Nat /\ b <= usec(b) /\ usec(b) <= b + Error
    BY UsecLemma
  <1>3. Error \in Nat
    BY DivMod, SessionAssumption DEF Error
  <1> QED BY <1>1, <1>2, <1>3

\* A session starts with nothing read, counted or sent.
LEMMA InitLemma == Init => IInv
  <1> SUFFICES ASSUME Init PROVE IInv
    OBVIOUS
  <1>1. got \in Seq(Nat) /\ Len(got) = 0 /\ InOrder
    BY DEF Init, InOrder
  <1>2. LatencyTrue
    BY DEF Init, LatencyTrue
  <1>3. /\ clock \in Nat /\ taken \in Nat /\ query_count \in Nat /\ before \in Nat
        /\ Len(got) <= query_count /\ Len(got) = query_count /\ query_count = taken
        /\ taken <= before + 1
    BY <1>1 DEF Init
  <1>4. pc = "loop" /\ exiting = FALSE /\ write_closed = FALSE
    BY DEF Init
  <1>5. pc # "read" /\ pc \notin {"check", "process", "send"} /\ pc \notin {"process", "send"}
        /\ pc # "process" /\ pc \in {"loop", "read", "check", "process", "send", "ended"}
    BY <1>4
  <1>6. exiting \in BOOLEAN /\ write_closed \in BOOLEAN
    BY <1>4, Zenon
  <1> QED BY <1>1, <1>2, <1>3, <1>5, <1>6, Zenon DEF IInv

\* Every step keeps IInv; only Send has to do with what was received and
\* measured.
LEMMA StepLemma ==
    ASSUME IInv, [Next]_vars
    PROVE  IInv'
  <1> USE DEF IInv, InOrder, LatencyTrue, world, own
  <1>1. CASE Loop
    BY <1>1 DEF Loop
  <1>2. CASE ParseReq
    BY <1>2 DEF ParseReq
  <1>3. CASE ReadFails
    BY <1>3 DEF ReadFails
  <1>4. ASSUME NEW allowed \in BOOLEAN, Check(allowed)
        PROVE  IInv'
    BY <1>4 DEF Check
  <1>5. CASE Process
    BY <1>5 DEF Process
  <1>6. ASSUME NEW ok \in BOOLEAN, Send(ok)
        PROVE  IInv'
    <2>1. LatencyTrue'
      <3>1. CASE request = "known"
        <4>1. now = usec(began) /\ began \in Nat /\ now # NONE
          BY <1>6, <3>1, UsecLemma DEF Send, NONE
        <4>2. measured'.time = usec(clock) - usec(began) /\ measured'.real = clock - began
          BY <1>6, <4>1 DEF Send, Metrics
        <4>3. usec(clock) - usec(began) \in (clock - began) - Error .. (clock - began) + Error
          BY <4>1, Elapsed
        <4> QED BY <4>2, <4>3 DEF Error
      <3>2. CASE request # "known"
        BY <1>6, <3>2 DEF Send, Metrics
      <3> QED BY <3>1, <3>2
    <2>2. query_count' = query_count + 1 /\ taken = query_count + 1 /\ pc' = "loop"
      BY <1>6 DEF Send, Metrics
    <2>3. got' \in Seq(Nat) /\ InOrder' /\ Len(got') <= query_count'
          /\ (~write_closed' => Len(got') = query_count')
      <3>1. CASE ok
        BY <1>6, <2>2, <3>1 DEF Send
      <3>2. CASE ~ok
        <4>1. got' = got /\ write_closed' = TRUE
          BY <1>6, <3>2, Zenon DEF Send
        <4> QED BY <2>2, <4>1
      <3> QED BY <3>1, <3>2
    <2> QED BY <1>6, <2>1, <2>2, <2>3 DEF Send
  <1>7. CASE OnAbort
    BY <1>7 DEF OnAbort
  <1>8. ASSUME NEW kind \in Kinds, ClientSends(kind)
        PROVE  IInv'
    BY <1>8 DEF ClientSends
  <1>9. CASE ClientLeaves
    BY <1>9 DEF ClientLeaves
  <1>10. CASE Quit
    BY <1>10 DEF Quit
  <1>11. CASE Tick
    BY <1>11 DEF Tick
  <1>12. CASE UNCHANGED vars
    BY <1>12 DEF vars
  <1> QED
    BY <1>1, <1>2, <1>3, <1>4, <1>5, <1>6, <1>7, <1>8, <1>9, <1>10, <1>11, <1>12
    DEF Next, Step

\* IInv is an invariant of the session.
LEMMA Invariance == Spec => []IInv
  BY InitLemma, StepLemma, PTL DEF Spec

\* Replies come in the order of the requests, for any number of requests
\* sent ahead: parse_rsp goes on after a failed send, and the request socket
\* refuses every later one.
THEOREM RepliesInOrder == Spec => []InOrder
  BY Invariance, PTL DEF IInv

\* Every request read is counted once in query_count before the next is read.
THEOREM QueriesCounted == Spec => []AllCounted
  <1>1. IInv => AllCounted
    BY DEF IInv, AllCounted
  <1> QED BY <1>1, Invariance, PTL

\* A session of a worker that exits reads at most one more request.
THEOREM AtMostOneMore == Spec => []LastRequest
  <1>1. IInv => LastRequest
    BY DEF IInv, LastRequest
  <1> QED BY <1>1, Invariance, PTL

\* What PROXY LATENCY adds up for a processed request is its duration up to
\* (Second - 1) \div Milli, with the constants of the code 999 microseconds,
\* whatever seconds it crosses.
THEOREM LatencyExact == Spec => []LatencyTrue
  BY Invariance, PTL DEF IInv
=============================================================================
