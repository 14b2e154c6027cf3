------------------------------ MODULE Command ------------------------------
(***************************************************************************)
(* What send_cluster_command promises its callers: the command takes       *)
(* effect at most once; it has taken effect when the answer is the reply   *)
(* of a node, and never does when the answer is the error of a node.  After *)
(* a timeout, a broken connection or an abort it may still take effect.    *)
(***************************************************************************)
EXTENDS Naturals

CONSTANT Req

VARIABLES
    execs,   \* how often a node has executed the command
    result   \* what the caller got

vars == <<execs, result>>

Init ==
    /\ execs = [r \in Req |-> 0]
    /\ result = [r \in Req |-> "none"]

Execute(r) ==
    /\ execs[r] = 0
    /\ result[r] \in {"none", "failed", "aborted"}
    /\ execs' = [execs EXCEPT ![r] = 1]
    /\ UNCHANGED result

Finish(r, res) ==
    /\ result[r] = "none"
    /\ res = "ok" => execs[r] = 1
    /\ res = "refused" => execs[r] = 0
    /\ result' = [result EXCEPT ![r] = res]
    /\ UNCHANGED execs

Next ==
    \E r \in Req :
        Execute(r) \/ \E res \in {"ok", "refused", "failed", "aborted"} : Finish(r, res)

Spec == Init /\ [][Next]_vars
=============================================================================
