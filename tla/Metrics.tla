------------------------------ MODULE Metrics ------------------------------
(***************************************************************************)
(* The counters of lhlh_metric.lua: keys of shared dictionaries that every  *)
(* worker increments.  metric_incr makes two calls on the dictionary, incr  *)
(* and, if the key is missing, set.  Each call holds the dictionary's       *)
(* mutex (SharedDict); between the two the other workers run.               *)
(***************************************************************************)
EXTENDS Naturals

CONSTANTS
    Worker,     \* worker processes
    Name,       \* "query_count", "latency", "error_count", ...
    Amount,     \* what one call may add: 1, or a latency in microseconds (one
                \* that ngx.usec makes negative is not modelled, see Session)
    Nothing,    \* the value of a missing key
    MaxApplied  \* bound on what the calls on one key add up to

ASSUME MetricsAssumption ==
    /\ Amount \subseteq Nat
    /\ Nothing \notin Nat
    /\ MaxApplied \in Nat

VARIABLES
    dict,       \* the shared dictionaries, all in one
    pending,    \* the set() a worker is about to call, or Nothing
    applied,    \* history: what the calls on each key added up to so far
    sets        \* history: how often each worker called set for each key

vars == <<dict, pending, applied, sets>>

Call == [name : Name, value : Amount]

Init ==
    /\ dict = [n \in Name |-> Nothing]
    /\ pending = [w \in Worker |-> Nothing]
    /\ applied = [n \in Name |-> 0]
    /\ sets = [n \in Name |-> [w \in Worker |-> 0]]

Within(n, v) == applied[n] + v <= MaxApplied

\* metric_incr: incr finds the key.
incr(w, n, v) ==
    /\ pending[w] = Nothing
    /\ Within(n, v)
    /\ dict[n] # Nothing
    /\ dict' = [dict EXCEPT ![n] = @ + v]
    /\ applied' = [applied EXCEPT ![n] = @ + v]
    /\ UNCHANGED <<pending, sets>>

\* Variant: every result of incr is taken for "not found".
incr_not_foundAlways(w, n, v) ==
    /\ pending[w] = Nothing
    /\ Within(n, v)
    /\ pending' = [pending EXCEPT ![w] = [name |-> n, value |-> v]]
    /\ UNCHANGED <<dict, applied, sets>>

\* metric_incr: incr returns nil, "not found".
incr_not_found(w, n, v) ==
    /\ pending[w] = Nothing
    /\ Within(n, v)
    /\ dict[n] = Nothing
    /\ pending' = [pending EXCEPT ![w] = [name |-> n, value |-> v]]
    /\ UNCHANGED <<dict, applied, sets>>

\* Variant: after set the increment is tried once more.
setThenIncr(w) ==
    /\ pending[w] # Nothing
    /\ LET n == pending[w].name
           v == pending[w].value
       IN  /\ dict' = [dict EXCEPT ![n] = v + v]
           /\ applied' = [applied EXCEPT ![n] = @ + v]
           /\ sets' = [sets EXCEPT ![n][w] = @ + 1]
    /\ pending' = [pending EXCEPT ![w] = Nothing]

\* metric_incr: set stores the amount, whatever the key holds by now.
set(w) ==
    /\ pending[w] # Nothing
    /\ LET n == pending[w].name
           v == pending[w].value
       IN  /\ dict' = [dict EXCEPT ![n] = v]
           /\ applied' = [applied EXCEPT ![n] = @ + v]
           /\ sets' = [sets EXCEPT ![n][w] = @ + 1]
    /\ pending' = [pending EXCEPT ![w] = Nothing]

\* The master respawns a worker that died between its two calls.
Respawn(w) ==
    /\ pending[w] # Nothing
    /\ pending' = [pending EXCEPT ![w] = Nothing]
    /\ UNCHANGED <<dict, applied, sets>>

Next ==
    \E w \in Worker :
        \/ \E n \in Name, v \in Amount : incr(w, n, v) \/ incr_not_found(w, n, v)
        \/ set(w)
        \/ Respawn(w)

Spec == Init /\ [][Next]_vars

-----------------------------------------------------------------------------

metric_get(n) == IF dict[n] = Nothing THEN 0 ELSE dict[n]

\* Nobody is between incr and set for the key, and the key exists.
Settled(n) ==
    /\ dict[n] # Nothing
    /\ \A w \in Worker : pending[w] # Nothing => pending[w].name # n

\* The type of the state.
TypeOK ==
    /\ dict \in [Name -> Nat \cup {Nothing}]
    /\ pending \in [Worker -> Call \cup {Nothing}]
    /\ applied \in [Name -> Nat]
    /\ sets \in [Name -> [Worker -> Nat]]

\* metric_get never reports more than metric_incr was called for, although
\* set does not look at what the key holds.
NeverOvercounts == \A n \in Name : metric_get(n) <= applied[n]

\* A worker overwrites a counter at most once in its life: the set of
\* metric_incr, the only call that loses counts, cannot recur.
OneSetEach == \A n \in Name, w \in Worker : sets[n][w] <= 1

\* Counts are lost only while the key is being created: once it exists and no
\* worker is about to set it, metric_incr adds exactly its amount, for ever.
ExactOnceSettled ==
    [][\A n \in Name : Settled(n) =>
          /\ Settled(n)'
          /\ dict'[n] + applied[n] = dict[n] + applied'[n]]_vars

\* What makes OneSetEach inductive: nobody has set a key that is missing, and
\* who is about to set a key has not set it before.
SetOnce ==
    /\ \A n \in Name, w \in Worker : dict[n] = Nothing => sets[n][w] = 0
    /\ \A w \in Worker : pending[w] # Nothing => sets[pending[w].name][w] = 0

IInv == TypeOK /\ NeverOvercounts /\ OneSetEach /\ SetOnce
=============================================================================
