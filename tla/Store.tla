------------------------------- MODULE Store -------------------------------
(***************************************************************************)
(* What a shared dictionary (ngx.shared.DICT) promises the Lua code: an     *)
(* atomic map that may lose entries at any time, to their expiry or to a    *)
(* shortage of memory, but that never answers with anything else than what  *)
(* was stored last.                                                         *)
(***************************************************************************)
EXTENDS Naturals

CONSTANTS
    Key,
    Value,      \* what may be stored
    Amount,     \* what incr may add
    None        \* no value

VARIABLES
    map,        \* the value of each key, or None
    out         \* the last call and its results

vars == <<map, out>>

Result(op, k, ok, v) == out'.op = op /\ out'.key = k /\ out'.ok = ok /\ out'.val = v

Init == map = [k \in Key |-> None] /\ out.op = "none"

Get(m, k) == Result("get", k, TRUE, m[k]) /\ map' = m

\* A lost entry may still be seen through get_stale, which then says so.
GetStale(m, k) ==
    /\ out'.op = "get_stale" /\ out'.key = k
    /\ map' = m
    /\ IF m[k] # None THEN out'.val = m[k] /\ ~out'.stale
                      ELSE out'.stale \/ out'.val = None

\* A store that fails for lack of memory leaves the key without a value.
Put(m, op, k, v) ==
    \/ Result(op, k, TRUE, v) /\ map' = [m EXCEPT ![k] = v]
    \/ Result(op, k, FALSE, v) /\ out'.err = "no memory" /\ map' = [m EXCEPT ![k] = None]

Refuse(m, op, k, v, err) == Result(op, k, FALSE, v) /\ out'.err = err /\ map' = m

Set(m, k, v) == \E op \in {"set", "safe_set"} : Put(m, op, k, v)

Add(m, k, v) ==
    \E op \in {"add", "safe_add"} :
        \/ m[k] = None /\ Put(m, op, k, v)
        \/ m[k] # None /\ Refuse(m, op, k, v, "exists")

Replace(m, k, v) ==
    \/ m[k] # None /\ Put(m, "replace", k, v)
    \/ m[k] = None /\ Refuse(m, "replace", k, v, "not found")

Delete(m, k) == Result("delete", k, TRUE, None) /\ map' = [m EXCEPT ![k] = None]

Incr(m, k, v) ==
    \/ m[k] = None /\ Refuse(m, "incr", k, v, "not found")
    \/ m[k] \notin Nat \cup {None} /\ Refuse(m, "incr", k, v, "not a number")
    \/ m[k] \in Nat /\ Result("incr", k, TRUE, m[k] + v) /\ map' = [m EXCEPT ![k] = @ + v]

Flush == out'.op = "flush_all" /\ map' = [k \in Key |-> None]

\* get_keys may leave out keys, but lists none without a value.
GetKeys(m) == out'.op = "get_keys" /\ map' = m /\ \A k \in out'.val : m[k] # None

Lose(m) == (out' = out \/ out'.op = "flush_expired") /\ map' = m

\* What may be left of the map when a call looks at it.
Left == {[k \in Key |-> IF k \in lost THEN None ELSE map[k]] : lost \in SUBSET Key}

Next ==
    \E m \in Left :
        \/ \E k \in Key :
              \/ Get(m, k) \/ GetStale(m, k) \/ Delete(m, k)
              \/ \E v \in Value : Set(m, k, v) \/ Add(m, k, v) \/ Replace(m, k, v)
              \/ \E v \in Amount : Incr(m, k, v)
        \/ Flush \/ GetKeys(m) \/ Lose(m)

Spec == Init /\ [][Next]_vars
=============================================================================
