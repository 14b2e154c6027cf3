------------------------------- MODULE Queues -------------------------------
(***************************************************************************)
(* The doubly linked queues of nginx (ngx_queue_t) as sequences, the head   *)
(* first.                                                                   *)
(***************************************************************************)
EXTENDS Naturals, Integers, Sequences

Entries(s) == {s[i] : i \in DOMAIN s}
Distinct(s) == \A i, j \in DOMAIN s : s[i] = s[j] => i = j

\* ngx_queue_insert_head
Prepend(c, s) == <<c>> \o s

\* ngx_queue_remove of the item at position i
Without(s, i) == SubSeq(s, 1, i - 1) \o SubSeq(s, i + 1, Len(s))

\* ngx_queue_last, and its removal
Last(s) == s[Len(s)]
ButLast(s) == SubSeq(s, 1, Len(s) - 1)
=============================================================================
