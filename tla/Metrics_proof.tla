--------------------------- MODULE Metrics_proof ---------------------------
(***************************************************************************)
(* Proofs about Metrics, for any sets of workers, counters and amounts.     *)
(***************************************************************************)
EXTENDS Metrics, TLAPS

LEMMA InitIInv == Init => IInv
  BY MetricsAssumption
  DEF Init, IInv, TypeOK, NeverOvercounts, OneSetEach, SetOnce, metric_get

\* A missing key stays missing and gains no setter; the caller notes the set.
LEMMA NotFoundIInv ==
    ASSUME IInv, NEW w \in Worker, NEW n \in Name, NEW v \in Amount, incr_not_found(w, n, v)
    PROVE  IInv'
<1>1. TypeOK'
  BY DEF IInv, TypeOK, incr_not_found, Call
<1>2. NeverOvercounts' /\ OneSetEach'
  BY DEF IInv, TypeOK, NeverOvercounts, OneSetEach, metric_get, incr_not_found
<1>3. SetOnce'
  <2>1. /\ \A x \in Worker \ {w} : pending'[x] = pending[x]
        /\ pending'[w].name = n
        /\ sets[n][w] = 0 /\ sets' = sets /\ dict' = dict
    BY DEF IInv, TypeOK, SetOnce, incr_not_found
  <2> QED
    BY <2>1 DEF IInv, SetOnce
<1> QED
  BY <1>1, <1>2, <1>3 DEF IInv

LEMMA IncrIInv ==
    ASSUME IInv, NEW w \in Worker, NEW n \in Name, NEW v \in Amount, incr(w, n, v)
    PROVE  IInv'
<1>1. /\ v \in Nat /\ dict[n] \in Nat /\ dict'[n] = dict[n] + v /\ dict'[n] # Nothing
      /\ applied'[n] = applied[n] + v /\ applied[n] \in Nat /\ dict[n] <= applied[n]
      /\ \A m \in Name \ {n} : dict'[m] = dict[m] /\ applied'[m] = applied[m]
  BY MetricsAssumption DEF IInv, TypeOK, NeverOvercounts, metric_get, incr
<1>2. TypeOK'
  BY <1>1 DEF IInv, TypeOK, incr
<1>3. NeverOvercounts'
  <2> SUFFICES ASSUME NEW m \in Name PROVE metric_get(m)' <= applied'[m]
    BY DEF NeverOvercounts
  <2>1. CASE m = n
    BY <1>1, <2>1 DEF metric_get
  <2>2. CASE m # n
    BY <1>1, <2>2 DEF IInv, NeverOvercounts, metric_get
  <2> QED
    BY <2>1, <2>2
<1>4. OneSetEach' /\ SetOnce'
  BY <1>1 DEF IInv, OneSetEach, SetOnce, incr
<1> QED
  BY <1>2, <1>3, <1>4 DEF IInv

LEMMA SetIInv ==
    ASSUME IInv, NEW w \in Worker, set(w)
    PROVE  IInv'
<1> DEFINE n == pending[w].name
           v == pending[w].value
<1>1. /\ n \in Name /\ v \in Amount /\ v \in Nat /\ v # Nothing
      /\ sets[n][w] = 0
  BY MetricsAssumption DEF IInv, TypeOK, SetOnce, Call, set
<1>2. /\ dict' = [dict EXCEPT ![n] = v]
      /\ applied' = [applied EXCEPT ![n] = @ + v]
      /\ sets' = [sets EXCEPT ![n][w] = @ + 1]
      /\ pending' = [pending EXCEPT ![w] = Nothing]
  BY DEF set
<1> HIDE DEF n, v
<1>3. TypeOK'
  BY <1>1, <1>2 DEF IInv, TypeOK
<1>4. NeverOvercounts'
  <2> SUFFICES ASSUME NEW m \in Name PROVE metric_get(m)' <= applied'[m]
    BY DEF NeverOvercounts
  <2>1. CASE m = n
    <3>1. dict'[n] = v /\ applied'[n] = applied[n] + v /\ applied[n] \in Nat
      BY <1>1, <1>2 DEF IInv, TypeOK
    <3> QED
      BY <1>1, <2>1, <3>1 DEF metric_get
  <2>2. CASE m # n
    BY <1>1, <1>2, <2>2 DEF IInv, TypeOK, NeverOvercounts, metric_get
  <2> QED
    BY <2>1, <2>2
<1>5. /\ sets'[n][w] = 1
      /\ \A m \in Name, x \in Worker : (m # n \/ x # w) => sets'[m][x] = sets[m][x]
  BY <1>1, <1>2 DEF IInv, TypeOK
<1>6. OneSetEach'
  BY <1>1, <1>5 DEF IInv, OneSetEach
<1>7. SetOnce'
  <2>1. ASSUME NEW m \in Name, NEW x \in Worker, dict'[m] = Nothing PROVE sets'[m][x] = 0
    <3>1. m # n /\ dict[m] = Nothing
      BY <1>1, <1>2, <2>1 DEF IInv, TypeOK
    <3> QED
      BY <1>5, <3>1 DEF IInv, SetOnce
  <2>2. ASSUME NEW x \in Worker, pending'[x] # Nothing PROVE sets'[pending'[x].name][x] = 0
    <3>1. x # w /\ pending'[x] = pending[x] /\ pending[x].name \in Name
      BY <1>2, <2>2 DEF IInv, TypeOK, Call
    <3> QED
      BY <1>5, <2>2, <3>1 DEF IInv, SetOnce
  <2> QED
    BY <2>1, <2>2 DEF SetOnce
<1> QED
  BY <1>3, <1>4, <1>6, <1>7 DEF IInv

LEMMA RespawnIInv ==
    ASSUME IInv, NEW w \in Worker, Respawn(w)
    PROVE  IInv'
<1>1. TypeOK' /\ NeverOvercounts' /\ OneSetEach'
  BY DEF IInv, TypeOK, NeverOvercounts, OneSetEach, metric_get, Respawn
<1>2. SetOnce'
  BY DEF IInv, TypeOK, SetOnce, Respawn
<1> QED
  BY <1>1, <1>2 DEF IInv

LEMMA NextIInv == IInv /\ [Next]_vars => IInv'
<1> SUFFICES ASSUME IInv, [Next]_vars PROVE IInv'
  OBVIOUS
<1>1. CASE UNCHANGED vars
  BY <1>1 DEF IInv, TypeOK, NeverOvercounts, OneSetEach, SetOnce, metric_get, vars
<1>2. CASE Next
  BY <1>2, IncrIInv, NotFoundIInv, SetIInv, RespawnIInv DEF Next
<1> QED
  BY <1>1, <1>2

\* The inductive invariant holds of every behaviour of metric_incr's callers.
THEOREM Invariance == Spec => []IInv
<1> QED
  BY InitIInv, NextIInv, PTL DEF Spec

\* metric_get never reports more than was added, for any number of workers.
THEOREM NoOvercount == Spec => []NeverOvercounts
<1>1. IInv => NeverOvercounts
  BY DEF IInv
<1> QED
  BY <1>1, Invariance, PTL

\* The set of metric_incr happens at most once for each worker and counter.
THEOREM SetsBounded == Spec => []OneSetEach
<1>1. IInv => OneSetEach
  BY DEF IInv
<1> QED
  BY <1>1, Invariance, PTL

\* A counter that exists and that nobody is about to set stays exact for ever.
THEOREM LossWindow == Spec => ExactOnceSettled
<1> DEFINE Exact == \A n \in Name : Settled(n) =>
              /\ Settled(n)'
              /\ dict'[n] + applied[n] = dict[n] + applied'[n]
<1>1. IInv /\ [Next]_vars => [Exact]_vars
  <2> SUFFICES ASSUME IInv, Next, NEW n \in Name, Settled(n)
               PROVE  Settled(n)' /\ dict'[n] + applied[n] = dict[n] + applied'[n]
    OBVIOUS
  <2>0. dict[n] \in Nat /\ applied[n] \in Nat /\ TypeOK
    BY DEF IInv, TypeOK, Settled
  <2>1. ASSUME NEW w \in Worker, NEW m \in Name, NEW v \in Amount, incr(w, m, v)
        PROVE  Settled(n)' /\ dict'[n] + applied[n] = dict[n] + applied'[n]
    <3>1. CASE m = n
      <4>1. v \in Nat /\ dict'[n] = dict[n] + v /\ applied'[n] = applied[n] + v /\ pending' = pending
        BY <2>0, <2>1, <3>1, MetricsAssumption DEF TypeOK, incr
      <4>2. dict'[n] # Nothing
        BY <2>0, <4>1, MetricsAssumption
      <4>3. dict'[n] + applied[n] = dict[n] + applied'[n]
        BY <2>0, <4>1
      <4> QED
        BY <4>1, <4>2, <4>3 DEF Settled
    <3>2. CASE m # n
      <4>1. dict'[n] = dict[n] /\ applied'[n] = applied[n] /\ pending' = pending
        BY <2>0, <2>1, <3>2 DEF TypeOK, incr
      <4> QED
        BY <2>0, <4>1 DEF Settled
    <3> QED
      BY <3>1, <3>2
  <2>2. ASSUME NEW w \in Worker, NEW m \in Name, NEW v \in Amount, incr_not_found(w, m, v)
        PROVE  Settled(n)' /\ dict'[n] + applied[n] = dict[n] + applied'[n]
    <3>1. m # n /\ dict' = dict /\ applied' = applied
      BY <2>2 DEF incr_not_found, Settled
    <3>2. \A x \in Worker : pending'[x] # Nothing => pending'[x].name # n
      BY <2>0, <2>2, <3>1 DEF incr_not_found, Settled, TypeOK
    <3> QED
      BY <2>0, <3>1, <3>2 DEF Settled
  <2>3. ASSUME NEW w \in Worker, set(w)
        PROVE  Settled(n)' /\ dict'[n] + applied[n] = dict[n] + applied'[n]
    <3>1. pending[w].name # n
      BY <2>3 DEF set, Settled
    <3>2. dict'[n] = dict[n] /\ applied'[n] = applied[n]
      BY <2>0, <2>3, <3>1 DEF set, TypeOK
    <3>3. \A x \in Worker : pending'[x] # Nothing => pending'[x] = pending[x]
      BY <2>0, <2>3 DEF set, TypeOK
    <3> QED
      BY <2>0, <3>2, <3>3 DEF Settled
  <2>4. ASSUME NEW w \in Worker, Respawn(w)
        PROVE  Settled(n)' /\ dict'[n] + applied[n] = dict[n] + applied'[n]
    <3>1. \A x \in Worker : pending'[x] # Nothing => pending'[x] = pending[x]
      BY <2>0, <2>4 DEF Respawn, TypeOK
    <3> QED
      BY <2>0, <2>4, <3>1 DEF Respawn, Settled
  <2> QED
    BY <2>1, <2>2, <2>3, <2>4 DEF Next
<1> QED
  BY <1>1, Invariance, PTL DEF Spec, ExactOnceSettled
=============================================================================
