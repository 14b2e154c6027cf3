-------------------------- MODULE SharedDict_proof --------------------------
(***************************************************************************)
(* Proofs about SharedDict, for any keys, values, sizes and times to live.  *)
(*                                                                          *)
(* IInv says that tree and queue hold the same nodes.  For the refinement   *)
(* of Store the map is what a get would return now; each call is a step of  *)
(* Store on a partial map, one from which the expiry and the evictions of   *)
(* the call have taken entries.                                             *)
(***************************************************************************)
EXTENDS SharedDict, TLAPS

Entry == [value : Value, expires : Nat]

\* A zone whose tree and queue agree.
ZoneOK(z) ==
    /\ z.node \in [Key -> Entry \cup {None}]
    /\ z.queue \in Seq(Key)
    /\ Distinct(z.queue)
    /\ Entries(z.queue) = {k \in Key : z.node[k] # None}

IInv == ZoneOK(Zone) /\ now \in Nat

-----------------------------------------------------------------------------
(* The LRU queue: what inserting and removing do to its entries.            *)

\* Two queues with nothing in common, one after the other.
LEMMA ConcatLemma ==
    ASSUME NEW S, NEW a \in Seq(S), NEW b \in Seq(S), Distinct(a), Distinct(b),
           Entries(a) \cap Entries(b) = {}
    PROVE  /\ a \o b \in Seq(S)
           /\ Entries(a \o b) = Entries(a) \cup Entries(b)
           /\ Distinct(a \o b)
<1> DEFINE t == a \o b
<1>1. /\ t \in Seq(S)
      /\ DOMAIN t = 1 .. Len(a) + Len(b)
      /\ DOMAIN a = 1 .. Len(a) /\ DOMAIN b = 1 .. Len(b) /\ Len(a) \in Nat /\ Len(b) \in Nat
      /\ \A i \in DOMAIN a : t[i] = a[i]
      /\ \A i \in DOMAIN b : t[Len(a) + i] = b[i]
  OBVIOUS
<1> HIDE DEF t
<1>2. /\ \A i \in DOMAIN a : i \in DOMAIN t
      /\ \A i \in DOMAIN b : Len(a) + i \in DOMAIN t
  BY <1>1
<1>3. ASSUME NEW i \in DOMAIN t
      PROVE  i \in DOMAIN a \/ \E j \in DOMAIN b : i = Len(a) + j
  <2>1. CASE i <= Len(a)
    BY <1>1, <2>1
  <2>2. CASE i > Len(a)
    <3>1. i - Len(a) \in DOMAIN b /\ i = Len(a) + (i - Len(a))
      BY <1>1, <2>2
    <3> QED
      BY <3>1
  <2> QED
    BY <1>1, <2>1, <2>2
<1>4. Entries(t) = Entries(a) \cup Entries(b)
  <2>1. \A i \in DOMAIN t : t[i] \in Entries(a) \cup Entries(b)
    BY <1>1, <1>3, Zenon DEF Entries
  <2>2. \A i \in DOMAIN a : a[i] \in Entries(t)
    BY <1>1, <1>2, Zenon DEF Entries
  <2>3. \A i \in DOMAIN b : b[i] \in Entries(t)
    BY <1>1, <1>2, Zenon DEF Entries
  <2> QED
    BY <2>1, <2>2, <2>3 DEF Entries
<1>5. Distinct(t)
  <2> SUFFICES ASSUME NEW i \in DOMAIN t, NEW j \in DOMAIN t, t[i] = t[j] PROVE i = j
    BY DEF Distinct
  <2>1. CASE i \in DOMAIN a /\ j \in DOMAIN a
    BY <1>1, <2>1, Zenon DEF Distinct
  <2>2. ASSUME NEW p \in DOMAIN a, NEW r \in DOMAIN b, t[p] = t[Len(a) + r] PROVE FALSE
    BY <1>1, <2>2, Zenon DEF Entries
  <2>3. ASSUME NEW p \in DOMAIN b, NEW r \in DOMAIN b, t[Len(a) + p] = t[Len(a) + r] PROVE p = r
    BY <1>1, <2>3, Zenon DEF Distinct
  <2> QED
    BY <1>3, <2>1, <2>2, <2>3, Zenon
<1> QED
  BY <1>1, <1>4, <1>5 DEF t

\* Inserting at the head adds one entry.
LEMMA PrependLemma ==
    ASSUME NEW S, NEW s \in Seq(S), NEW c \in S, Distinct(s), c \notin Entries(s)
    PROVE  /\ Prepend(c, s) \in Seq(S)
           /\ Entries(Prepend(c, s)) = Entries(s) \cup {c}
           /\ Distinct(Prepend(c, s))
<1>1. <<c>> \in Seq(S) /\ Entries(<<c>>) = {c} /\ Distinct(<<c>>)
  BY DEF Entries, Distinct
<1> DEFINE a == <<c>>
<1> HIDE DEF a
<1>2. a \in Seq(S) /\ Distinct(a) /\ Entries(a) \cap Entries(s) = {} /\ Entries(a) = {c}
  BY <1>1 DEF a
<1>3. /\ a \o s \in Seq(S)
      /\ Entries(a \o s) = Entries(a) \cup Entries(s)
      /\ Distinct(a \o s)
  BY <1>2, ConcatLemma
<1> QED
  BY <1>2, <1>3 DEF Prepend, a

\* Taking out the item at any position removes exactly that entry.
LEMMA WithoutLemma ==
    ASSUME NEW S, NEW s \in Seq(S), NEW k \in DOMAIN s, Distinct(s)
    PROVE  /\ Without(s, k) \in Seq(S)
           /\ Entries(Without(s, k)) = Entries(s) \ {s[k]}
           /\ Distinct(Without(s, k))
<1> DEFINE a == SubSeq(s, 1, k - 1)
           b == SubSeq(s, k + 1, Len(s))
<1>1. k \in 1 .. Len(s) /\ DOMAIN s = 1 .. Len(s) /\ Len(s) \in Nat
  OBVIOUS
<1>2. /\ a \in Seq(S) /\ DOMAIN a = 1 .. k - 1
      /\ \A i \in DOMAIN a : a[i] = s[i]
  BY <1>1
<1>3. /\ b \in Seq(S) /\ DOMAIN b = 1 .. Len(s) - k
      /\ \A i \in DOMAIN b : b[i] = s[k + i]
  BY <1>1
<1>4. Without(s, k) = a \o b
  BY DEF Without
<1> HIDE DEF a, b
<1>5. Distinct(a)
  BY <1>1, <1>2 DEF Distinct
<1>6. Distinct(b)
  <2> SUFFICES ASSUME NEW i \in DOMAIN b, NEW j \in DOMAIN b, b[i] = b[j] PROVE i = j
    BY DEF Distinct
  <2>1. k + i \in DOMAIN s /\ k + j \in DOMAIN s /\ s[k + i] = s[k + j]
    BY <1>1, <1>3
  <2>2. k + i = k + j
    BY <2>1, Zenon DEF Distinct
  <2> QED
    BY <1>1, <1>3, <2>2
<1>7. Entries(a) = {s[i] : i \in 1 .. k - 1}
  BY <1>2, Zenon DEF Entries
<1>8. Entries(b) = {s[i] : i \in k + 1 .. Len(s)}
  <2>1. \A i \in DOMAIN b : k + i \in k + 1 .. Len(s)
    BY <1>1, <1>3
  <2>2. \A i \in k + 1 .. Len(s) : i - k \in DOMAIN b /\ b[i - k] = s[i]
    BY <1>1, <1>3
  <2>3. \A i \in DOMAIN b : b[i] \in {s[j] : j \in k + 1 .. Len(s)}
    BY <1>3, <2>1, Zenon
  <2>4. \A i \in k + 1 .. Len(s) : s[i] \in Entries(b)
    BY <2>2, Zenon DEF Entries
  <2> QED
    BY <2>3, <2>4 DEF Entries
<1>9. Entries(a) \cap Entries(b) = {} /\ Entries(a) \cup Entries(b) = Entries(s) \ {s[k]}
  <2>1. /\ \A i \in 1 .. k - 1 : i \in DOMAIN s /\ i # k
        /\ \A i \in k + 1 .. Len(s) : i \in DOMAIN s /\ i # k
        /\ \A i \in 1 .. k - 1, j \in k + 1 .. Len(s) : i # j
        /\ \A i \in DOMAIN s : i \in 1 .. k - 1 \/ i = k \/ i \in k + 1 .. Len(s)
    BY <1>1
  <2>2. Entries(a) \cap Entries(b) = {}
    BY <1>7, <1>8, <2>1 DEF Distinct
  <2>3. Entries(a) \cup Entries(b) \subseteq Entries(s) \ {s[k]}
    BY <1>7, <1>8, <2>1, Zenon DEF Distinct, Entries
  <2>4. Entries(s) \ {s[k]} \subseteq Entries(a) \cup Entries(b)
    BY <1>7, <1>8, <2>1, Zenon DEF Entries
  <2> QED
    BY <2>2, <2>3, <2>4
<1> QED
  BY <1>2, <1>3, <1>4, <1>5, <1>6, <1>9, ConcatLemma

-----------------------------------------------------------------------------
(* The steps a call is made of.                                             *)

\* No entry is None.
LEMMA EntryNotNone == ASSUME NEW e \in Entry PROVE e # None
<1>1. Entry \subseteq [value : Text \cup Nat, expires : Nat]
  BY DictAssumption DEF Entry, Value, Number
<1> QED
  BY <1>1, DictAssumption

\* Each look at the end of the queue leaves as many nodes or one less.
LEMMA LeftLemma ==
    ASSUME NEW z, NEW n \in Nat
    PROVE  /\ DropDead(z, n) \in 0 .. n
           /\ ExpireLeft(z, n) \in 0 .. n
           /\ ForcedLeft(z, n) \in 0 .. n
<1>1. \A m \in Nat : DropDead(z, m) \in 0 .. m
  BY DEF DropDead
<1>2. \A m \in Nat : ExpireLeft(z, m) \in 0 .. m
  BY <1>1 DEF ExpireLeft
<1>3. ForcedLeft(z, n) \in 0 .. n
  BY <1>2 DEF ForcedLeft
<1> QED
  BY <1>1, <1>2, <1>3

\* Dropping nodes from the end of the queue and from the tree.
LEMMA CutLemma ==
    ASSUME NEW z, ZoneOK(z), NEW n \in 0 .. Len(z.queue)
    PROVE  /\ ZoneOK(Cut(z, n))
           /\ \A k \in Key : Cut(z, n).node[k] \in {z.node[k], None}
           /\ \A i \in 1 .. n : Cut(z, n).node[z.queue[i]] = z.node[z.queue[i]]
<1> DEFINE q == z.queue
           p == SubSeq(q, 1, n)
<1>1. q \in Seq(Key) /\ Len(q) \in Nat /\ DOMAIN q = 1 .. Len(q) /\ n \in Nat
  BY DEF ZoneOK
<1>2. p \in Seq(Key) /\ Len(p) = n /\ \A i \in 1 .. n : p[i] = q[i]
  BY <1>1
<1>3. DOMAIN p = 1 .. n
  BY <1>1, <1>2
<1> HIDE DEF p
<1>4. Distinct(p)
  BY <1>1, <1>2, <1>3 DEF Distinct, ZoneOK
<1>5. Entries(p) \subseteq Entries(q)
  BY <1>1, <1>2, <1>3 DEF Entries
<1> DEFINE y == Cut(z, n)
<1>6. y.node = [k \in Key |-> IF k \in Entries(p) THEN z.node[k] ELSE None] /\ y.queue = p
  BY DEF Cut, p
<1> HIDE DEF y
<1>7. /\ y.node \in [Key -> Entry \cup {None}]
      /\ \A k \in Key : y.node[k] = IF k \in Entries(p) THEN z.node[k] ELSE None
  BY <1>6 DEF ZoneOK
<1>8. Entries(q) = {k \in Key : z.node[k] # None}
  BY DEF ZoneOK
<1>9. Entries(p) = {k \in Key : y.node[k] # None}
  BY <1>5, <1>7, <1>8
<1>10. ASSUME NEW i \in 1 .. n PROVE y.node[q[i]] = z.node[q[i]]
  <2>1. q[i] \in Entries(p) /\ q[i] \in Key
    BY <1>1, <1>2, <1>3 DEF Entries
  <2> QED
    BY <1>7, <2>1
<1>11. ZoneOK(y)
  BY <1>2, <1>4, <1>6, <1>7, <1>9, Zenon DEF ZoneOK
<1> QED
  BY <1>7, <1>10, <1>11 DEF y

\* The position of a key that has a node.
LEMMA PositionLemma ==
    ASSUME NEW z, ZoneOK(z), NEW k \in Key, z.node[k] # None
    PROVE  Position(z.queue, k) \in DOMAIN z.queue /\ z.queue[Position(z.queue, k)] = k
<1>1. k \in Entries(z.queue)
  BY DEF ZoneOK
<1>2. \E i \in DOMAIN z.queue : z.queue[i] = k
  BY <1>1 DEF Entries
<1> QED
  BY <1>2 DEF Position

LEMMA RemoveLemma ==
    ASSUME NEW z, ZoneOK(z), NEW k \in Key, z.node[k] # None
    PROVE  /\ ZoneOK(Remove(z, k))
           /\ Remove(z, k).node[k] = None
           /\ \A j \in Key \ {k} : Remove(z, k).node[j] = z.node[j]
<1> DEFINE p == Position(z.queue, k)
           w == Without(z.queue, p)
<1>1. p \in DOMAIN z.queue /\ z.queue[p] = k
  BY PositionLemma
<1>2. w \in Seq(Key) /\ Distinct(w) /\ Entries(w) = Entries(z.queue) \ {k}
  BY <1>1, WithoutLemma DEF ZoneOK
<1>3. Remove(z, k) = [node |-> [z.node EXCEPT ![k] = None], queue |-> w]
  BY DEF Remove
<1> HIDE DEF w, p
<1>4. /\ Remove(z, k).node \in [Key -> Entry \cup {None}] /\ Remove(z, k).queue = w
      /\ Remove(z, k).node[k] = None
      /\ \A j \in Key \ {k} : Remove(z, k).node[j] = z.node[j]
  BY <1>2, <1>3 DEF ZoneOK
<1>5. Entries(w) = {j \in Key : Remove(z, k).node[j] # None}
  BY <1>2, <1>4 DEF ZoneOK
<1> QED
  BY <1>2, <1>3, <1>4, <1>5 DEF ZoneOK

LEMMA TouchLemma ==
    ASSUME NEW z, ZoneOK(z), NEW k \in Key
    PROVE  ZoneOK(Touch(z, k)) /\ Touch(z, k).node = z.node
<1>1. CASE z.node[k] = None
  BY <1>1 DEF Touch
<1>2. CASE z.node[k] # None
  <2> DEFINE w == Without(z.queue, Position(z.queue, k))
             t == Prepend(k, w)
  <2>1. w \in Seq(Key) /\ Distinct(w) /\ Entries(w) = Entries(z.queue) \ {k}
    BY <1>2, PositionLemma, WithoutLemma DEF ZoneOK
  <2>2. k \in Entries(z.queue)
    BY <1>2 DEF ZoneOK
  <2> HIDE DEF w
  <2>3. t \in Seq(Key) /\ Distinct(t) /\ Entries(t) = Entries(z.queue)
    <3>1. k \notin Entries(w)
      BY <2>1
    <3>2. t \in Seq(Key) /\ Distinct(t) /\ Entries(t) = Entries(w) \cup {k}
      BY <2>1, <3>1, PrependLemma
    <3> QED
      BY <2>1, <2>2, <3>2
  <2>4. Touch(z, k).node = z.node /\ Touch(z, k).queue = t
    BY <1>2 DEF Touch, w
  <2> HIDE DEF t
  <2> QED
    BY <2>3, <2>4 DEF ZoneOK
<1> QED
  BY <1>1, <1>2

LEMMA InsertLemma ==
    ASSUME NEW z, ZoneOK(z), NEW k \in Key, z.node[k] = None, now \in Nat,
           NEW v \in Value, NEW t \in Exptime
    PROVE  /\ ZoneOK(Insert(z, k, v, t))
           /\ Insert(z, k, v, t).node[k] = [value |-> v, expires |-> Deadline(t)]
           /\ \A j \in Key \ {k} : Insert(z, k, v, t).node[j] = z.node[j]
<1> DEFINE e == [value |-> v, expires |-> Deadline(t)]
           q == Prepend(k, z.queue)
<1>1. e \in Entry /\ e # None
  <2>1. e \in Entry
    BY DictAssumption DEF Entry, Deadline
  <2> QED
    BY <2>1, EntryNotNone
<1>2. k \notin Entries(z.queue)
  BY DEF ZoneOK
<1>3. q \in Seq(Key) /\ Distinct(q) /\ Entries(q) = Entries(z.queue) \cup {k}
  BY <1>2, PrependLemma DEF ZoneOK
<1>4. Insert(z, k, v, t) = [node |-> [z.node EXCEPT ![k] = e], queue |-> q]
  BY DEF Insert
<1> HIDE DEF e, q
<1>5. /\ Insert(z, k, v, t).node \in [Key -> Entry \cup {None}] /\ Insert(z, k, v, t).queue = q
      /\ Insert(z, k, v, t).node[k] = e
      /\ \A j \in Key \ {k} : Insert(z, k, v, t).node[j] = z.node[j]
  BY <1>1, <1>3, <1>4 DEF ZoneOK
<1>6. Entries(q) = {j \in Key : Insert(z, k, v, t).node[j] # None}
  BY <1>1, <1>3, <1>5 DEF ZoneOK
<1> QED
  BY <1>3, <1>4, <1>5, <1>6 DEF ZoneOK, e

\* Changing the entry of a node in place.
LEMMA OverwriteLemma ==
    ASSUME NEW z, ZoneOK(z), NEW k \in Key, z.node[k] # None, NEW v \in Value, NEW x \in Nat
    PROVE  /\ ZoneOK(Overwrite(z, k, v, x))
           /\ Overwrite(z, k, v, x).node[k] = [value |-> v, expires |-> x]
           /\ \A j \in Key \ {k} : Overwrite(z, k, v, x).node[j] = z.node[j]
<1> DEFINE e == [value |-> v, expires |-> x]
           y == Overwrite(z, k, v, x)
<1>1. e \in Entry /\ e # None
  <2>1. e \in Entry
    BY DEF Entry
  <2> QED
    BY <2>1, EntryNotNone
<1>2. y.node = [z.node EXCEPT ![k] = e] /\ y.queue = z.queue
  BY DEF Overwrite
<1> HIDE DEF e, y
<1>3. /\ y.node \in [Key -> Entry \cup {None}]
      /\ y.node[k] = e
      /\ \A j \in Key \ {k} : y.node[j] = z.node[j]
  BY <1>1, <1>2 DEF ZoneOK
<1>4. {j \in Key : y.node[j] # None} = {j \in Key : z.node[j] # None}
  BY <1>1, <1>3
<1> QED
  BY <1>2, <1>3, <1>4 DEF ZoneOK, y, e

\* The expiry that opens a call spares every live entry.
LEMMA ExpireLemma ==
    ASSUME NEW z, ZoneOK(z)
    PROVE  /\ ZoneOK(Expire(z))
           /\ \A k \in Key : Expire(z).node[k] \in {z.node[k], None}
           /\ \A k \in Key : z.node[k] # None /\ ~Dead(z.node[k]) => Expire(z).node[k] = z.node[k]
<1> DEFINE n == Len(z.queue)
           m == ExpireLeft(z, n)
<1>1. n \in Nat /\ DOMAIN z.queue = 1 .. n
  BY DEF ZoneOK
<1>2. m \in 0 .. n
  BY <1>1, LeftLemma
<1>3. ASSUME NEW i \in m + 1 .. n PROVE Dead(z.node[z.queue[i]])
  <2> DEFINE D(p) == Dead(z.node[z.queue[p]])
             d == DropDead(z, n)
  <2>1. d = n \/ (d = n - 1 /\ D(n))
    BY Zenon DEF DropDead
  <2>2. m = d \/ (m = d - 1 /\ D(d))
    BY Zenon DEF ExpireLeft, DropDead
  <2> HIDE DEF D, d, m, n
  <2>3. i = n \/ i = d
    BY <1>1, <1>2, <1>3, <2>1, <2>2
  <2>4. D(i)
    BY <1>1, <1>2, <1>3, <2>1, <2>2, <2>3
  <2> QED
    BY <2>4 DEF D
<1> HIDE DEF m
<1>4. /\ ZoneOK(Cut(z, m))
      /\ \A k \in Key : Cut(z, m).node[k] \in {z.node[k], None}
      /\ \A i \in 1 .. m : Cut(z, m).node[z.queue[i]] = z.node[z.queue[i]]
  BY <1>2, CutLemma
<1>5. Expire(z) = Cut(z, m)
  BY DEF Expire, m
<1>6. ASSUME NEW k \in Key, z.node[k] # None, ~Dead(z.node[k])
      PROVE  Cut(z, m).node[k] = z.node[k]
  <2>1. PICK i \in 1 .. n : z.queue[i] = k
    <3>1. k \in Entries(z.queue)
      BY <1>6 DEF ZoneOK
    <3> QED
      BY <1>1, <3>1 DEF Entries
  <2>2. i \notin m + 1 .. n
    BY <1>3, <1>6, <2>1
  <2>3. i \in 1 .. m
    BY <1>1, <1>2, <2>1, <2>2
  <2> QED
    BY <1>4, <2>1, <2>3
<1> QED
  BY <1>4, <1>5, <1>6

LEMMA OpenedLemma ==
    ASSUME ZoneOK(Zone), NEW k \in Key
    PROVE  /\ ZoneOK(Opened(k))
           /\ \A j \in Key : Opened(k).node[j] \in {node[j], None}
           /\ \A j \in Key : node[j] # None /\ ~Dead(node[j]) => Opened(k).node[j] = node[j]
<1>1. Zone.node = node
  BY DEF Zone
<1>2. ZoneOK(Expire(Zone))
  BY ExpireLemma
<1>3. ZoneOK(Opened(k)) /\ Opened(k).node = Expire(Zone).node
  BY <1>2, TouchLemma DEF Opened
<1> QED
  BY <1>1, <1>3, ExpireLemma

-----------------------------------------------------------------------------
(* The calls.  Each keeps tree and queue in step and spares the live        *)
(* entries of other keys, unless it says forcible or is a flush_all.        *)

Spares ==
    \A j \in Key : (node[j] # None /\ ~Dead(node[j]) /\ j # out'.key) => node'[j] = node[j]

LEMMA BecomesLemma ==
    ASSUME NEW z, ZoneOK(z), Becomes(z), now' = now, now \in Nat
    PROVE  IInv'
<1>1. Zone' = [node |-> z.node, queue |-> z.queue]
  BY DEF Becomes, Zone
<1> QED
  BY <1>1 DEF IInv, ZoneOK

\* Without a forced round the zone is cut nowhere.
LEMMA NoRound ==
    ASSUME NEW z, ZoneOK(z), NEW n \in 0 .. Len(z.queue), AfterRounds(z, 0, n)
    PROVE  \A j \in Key : Cut(z, n).node[j] = z.node[j]
<1>1. n = Len(z.queue)
  BY DEF AfterRounds
<1>2. ASSUME NEW j \in Key, z.node[j] # None PROVE Cut(z, n).node[j] = z.node[j]
  <2>1. PICK i \in DOMAIN z.queue : z.queue[i] = j
    BY <1>2, PositionLemma
  <2>2. i \in 1 .. n
    BY <1>1, <2>1 DEF ZoneOK
  <2> QED
    BY <2>1, <2>2, CutLemma
<1>3. ASSUME NEW j \in Key, z.node[j] = None PROVE Cut(z, n).node[j] = z.node[j]
  BY <1>3, CutLemma
<1> QED
  BY <1>2, <1>3

\* What LossIsReported allows a step.
Reported ==
    \/ Spares
    \/ out'.op = "flush_all"
    \/ out'.op \in {"set", "add", "replace"} /\ out'.forcible

StoreOp == {"set", "safe_set", "add", "safe_add", "replace"}

\* Insertion, with as many forced rounds as it takes.
LEMMA PlaceLemma ==
    ASSUME IInv, now' = now, NEW z, ZoneOK(z), NEW k \in Key, z.node[k] = None,
           NEW op \in StoreOp, NEW v \in Value, NEW t \in Exptime,
           \A j \in Key \ {k} : node[j] # None /\ ~Dead(node[j]) => z.node[j] = node[j],
           Allocate(z, op, k, v, t) \/ NoMemory(z, op, k, v)
    PROVE  IInv' /\ Reported
<1>0. now \in Nat
  BY DEF IInv
<1>1. ASSUME NEW i \in 0 .. Rounds, NEW n \in 0 .. Len(z.queue), AfterRounds(z, i, n),
             Safe(op) => i = 0, out'.op = op, out'.key = k, out'.forcible = (i > 0),
             \/ Becomes(Insert(Cut(z, n), k, v, t))
             \/ Becomes(Cut(z, n))
      PROVE  IInv' /\ Reported
  <2> DEFINE c == Cut(z, n)
             s == Insert(c, k, v, t)
  <2>1. ZoneOK(c) /\ c.node[k] = None
    BY CutLemma
  <2> HIDE DEF c
  <2>2. ZoneOK(s) /\ \A j \in Key \ {k} : s.node[j] = c.node[j]
    BY <1>0, <2>1, InsertLemma, Zenon
  <2> HIDE DEF s
  <2>3. Becomes(s) \/ Becomes(c)
    BY <1>1 DEF s, c
  <2>4. IInv'
    BY <1>0, <2>1, <2>2, <2>3, BecomesLemma
  <2>5. \A j \in Key \ {k} : node'[j] = c.node[j]
    BY <2>2, <2>3 DEF Becomes
  <2>6. CASE i = 0
    <3>1. \A j \in Key : c.node[j] = z.node[j]
      BY <1>1, <2>6, NoRound DEF c
    <3>2. Spares
      BY <1>1, <2>5, <3>1 DEF Spares
    <3> QED
      BY <2>4, <3>2 DEF Reported
  <2>7. CASE i # 0
    <3>1. op \in {"set", "add", "replace"}
      BY <1>1, <2>7 DEF Safe, StoreOp
    <3>2. i > 0
      BY <2>7, DictAssumption
    <3>3. out'.forcible
      BY <1>1, <3>2, Zenon
    <3> QED
      BY <1>1, <2>4, <3>1, <3>3 DEF Reported
  <2> QED
    BY <2>6, <2>7
<1>2. CASE Allocate(z, op, k, v, t)
  <2>1. PICK i \in 0 .. Rounds, n \in 0 .. Len(z.queue) :
           /\ Safe(op) => i = 0
           /\ AfterRounds(z, i, n)
           /\ Becomes(Insert(Cut(z, n), k, v, t))
           /\ out' = Answer(op, k, TRUE, v, None, i > 0, FALSE)
    BY <1>2, Zenon DEF Allocate
  <2>2. out'.op = op /\ out'.key = k /\ out'.forcible = (i > 0)
    BY <2>1 DEF Answer
  <2> QED
    BY <1>1, <2>1, <2>2, Zenon
<1>3. CASE NoMemory(z, op, k, v)
  <2>1. PICK i \in 0 .. Rounds, n \in 0 .. Len(z.queue) :
           /\ Safe(op) => i = 0
           /\ AfterRounds(z, i, n)
           /\ Becomes(Cut(z, n))
           /\ out' = Answer(op, k, FALSE, v, "no memory", i > 0, FALSE)
    BY <1>3, Zenon DEF NoMemory
  <2>2. out'.op = op /\ out'.key = k /\ out'.forcible = (i > 0)
    BY <2>1, Zenon DEF Answer
  <2> QED
    BY <1>1, <2>1, <2>2, Zenon
<1> QED
  BY <1>2, <1>3

\* A step to a zone that keeps the live entries of other keys.
LEMMA KeepLemma ==
    ASSUME IInv, now' = now, NEW z, ZoneOK(z), NEW k \in Key, Becomes(z), out'.key = k,
           \A j \in Key \ {k} : node[j] # None /\ ~Dead(node[j]) => z.node[j] = node[j]
    PROVE  IInv' /\ Reported
<1>1. IInv'
  BY BecomesLemma DEF IInv
<1>2. Spares
  BY DEF Spares, Becomes
<1> QED
  BY <1>1, <1>2 DEF Reported

LEMMA RefuseLemma ==
    ASSUME IInv, now' = now, NEW k \in Key, NEW op, NEW v, NEW err, Refuse(op, k, v, err)
    PROVE  IInv' /\ Reported
<1>1. Becomes(Opened(k)) /\ out'.key = k
  BY DEF Refuse, Return, Answer
<1>2. ZoneOK(Zone)
  BY DEF IInv
<1> DEFINE z == Opened(k)
<1>3. ZoneOK(z) /\ \A j \in Key : node[j] # None /\ ~Dead(node[j]) => z.node[j] = node[j]
  BY <1>2, OpenedLemma
<1> HIDE DEF z
<1> QED
  BY <1>1, <1>3, KeepLemma DEF z

LEMMA StoreLemma ==
    ASSUME IInv, now' = now, NEW k \in Key, NEW op \in StoreOp, NEW v \in Value,
           NEW t \in Exptime, StoreValue(op, k, v, t)
    PROVE  IInv' /\ Reported
<1> DEFINE z == Opened(k)
<1>1. ZoneOK(z) /\ \A j \in Key : node[j] # None /\ ~Dead(node[j]) => z.node[j] = node[j]
  BY OpenedLemma DEF IInv
<1>2. \/ /\ z.node[k] # None
         /\ Becomes(Overwrite(z, k, v, Deadline(t)))
         /\ out' = Return(op, k, TRUE, v, None)
      \/ /\ z.node[k] # None
         /\ Allocate(Remove(z, k), op, k, v, t) \/ NoMemory(Remove(z, k), op, k, v)
      \/ /\ z.node[k] = None
         /\ Allocate(z, op, k, v, t) \/ NoMemory(z, op, k, v)
  BY Zenon DEF StoreValue
<1> HIDE DEF z
<1>3. ASSUME z.node[k] # None, Becomes(Overwrite(z, k, v, Deadline(t))),
             out' = Return(op, k, TRUE, v, None)
      PROVE  IInv' /\ Reported
  <2> DEFINE y == Overwrite(z, k, v, Deadline(t))
  <2>1. Deadline(t) \in Nat
    BY DictAssumption DEF IInv, Deadline
  <2>2. ZoneOK(y) /\ \A j \in Key \ {k} : y.node[j] = z.node[j]
    BY <1>1, <1>3, <2>1, OverwriteLemma, ZenonT(30)
  <2>3. out'.key = k
    BY <1>3 DEF Return, Answer
  <2>4. Becomes(y)
    BY <1>3
  <2> HIDE DEF y
  <2> QED
    BY <1>1, <2>2, <2>3, <2>4, KeepLemma
<1>4. ASSUME z.node[k] # None,
             Allocate(Remove(z, k), op, k, v, t) \/ NoMemory(Remove(z, k), op, k, v)
      PROVE  IInv' /\ Reported
  <2> DEFINE y == Remove(z, k)
  <2>1. ZoneOK(y) /\ y.node[k] = None /\ \A j \in Key \ {k} : y.node[j] = z.node[j]
    BY <1>1, <1>4, RemoveLemma
  <2>2. Allocate(y, op, k, v, t) \/ NoMemory(y, op, k, v)
    BY <1>4
  <2> HIDE DEF y
  <2> QED
    BY <1>1, <2>1, <2>2, PlaceLemma
<1>5. ASSUME z.node[k] = None, Allocate(z, op, k, v, t) \/ NoMemory(z, op, k, v)
      PROVE  IInv' /\ Reported
  BY <1>1, <1>5, PlaceLemma
<1> QED
  BY <1>2, <1>3, <1>4, <1>5, Zenon

LEMMA DeleteLemma ==
    ASSUME IInv, now' = now, NEW k \in Key, delete(k)
    PROVE  IInv' /\ Reported
<1> DEFINE z == Opened(k)
<1>1. ZoneOK(z) /\ \A j \in Key : node[j] # None /\ ~Dead(node[j]) => z.node[j] = node[j]
  BY OpenedLemma DEF IInv
<1>2. /\ Becomes(IF z.node[k] = None THEN z ELSE Remove(z, k))
      /\ out' = Return("delete", k, TRUE, None, None)
  BY DEF delete
<1>3. out'.key = k
  BY <1>2 DEF Return, Answer
<1> HIDE DEF z
<1>4. CASE z.node[k] = None
  BY <1>1, <1>2, <1>3, <1>4, KeepLemma, Zenon
<1>5. CASE z.node[k] # None
  <2> DEFINE y == Remove(z, k)
  <2>1. ZoneOK(y) /\ \A j \in Key \ {k} : y.node[j] = z.node[j]
    BY <1>1, <1>5, RemoveLemma
  <2>2. Becomes(y)
    BY <1>2, <1>5
  <2> HIDE DEF y
  <2> QED
    BY <1>1, <1>3, <2>1, <2>2, KeepLemma
<1> QED
  BY <1>4, <1>5

LEMMA IncrLemma ==
    ASSUME IInv, now' = now, NEW k \in Key, NEW v \in Amount, incr(k, v)
    PROVE  IInv' /\ Reported
<1> DEFINE z == Opened(k)
           sum == z.node[k].value + v
<1>1. ZoneOK(z) /\ \A j \in Key : node[j] # None /\ ~Dead(node[j]) => z.node[j] = node[j]
  BY OpenedLemma DEF IInv
<1>2. \/ \E err \in {"not found", "not a number"} : Refuse("incr", k, v, err)
      \/ /\ Lookup(Expire(Zone), k) = "OK"
         /\ z.node[k].value \notin Text
         /\ sum <= MaxNumber
         /\ Becomes(Overwrite(z, k, sum, z.node[k].expires))
         /\ out' = Return("incr", k, TRUE, sum, None)
  BY Zenon DEF incr
<1>3. CASE \E err \in {"not found", "not a number"} : Refuse("incr", k, v, err)
  BY <1>3, RefuseLemma, Zenon
<1>4. CASE /\ Lookup(Expire(Zone), k) = "OK"
           /\ z.node[k].value \notin Text
           /\ sum <= MaxNumber
           /\ Becomes(Overwrite(z, k, sum, z.node[k].expires))
           /\ out' = Return("incr", k, TRUE, sum, None)
  <2>1. Expire(Zone).node[k] # None
    BY <1>4 DEF Lookup
  <2>2. z.node = Expire(Zone).node
    BY ExpireLemma, TouchLemma DEF IInv, Opened
  <2>3. z.node[k] \in Entry
    BY <1>1, <2>1, <2>2 DEF ZoneOK
  <2> DEFINE x == z.node[k].expires
             y == Overwrite(z, k, sum, x)
  <2>4. x \in Nat /\ z.node[k].value \in Number
    BY <1>4, <2>3 DEF Entry, Value
  <2>5. sum \in Value
    BY <1>4, <2>4, DictAssumption DEF Number, Value
  <2>6. out'.key = k
    BY <1>4 DEF Return, Answer
  <2>7. Becomes(y)
    BY <1>4
  <2>8. z.node[k] # None
    BY <2>1, <2>2
  <2> HIDE DEF z, sum, x
  <2>9. ZoneOK(y) /\ \A j \in Key \ {k} : y.node[j] = z.node[j]
    BY <1>1, <2>4, <2>5, <2>8, OverwriteLemma, ZenonT(30)
  <2> HIDE DEF y
  <2> QED
    BY <1>1, <2>6, <2>7, <2>9, KeepLemma
<1> QED
  BY <1>2, <1>3, <1>4, Zenon

LEMMA GetLemma ==
    ASSUME IInv, now' = now, NEW k \in Key, get(k) \/ get_stale(k)
    PROVE  IInv' /\ Reported
<1>1. CASE get(k)
  <2> DEFINE z == Opened(k)
  <2>1. ZoneOK(z) /\ \A j \in Key : node[j] # None /\ ~Dead(node[j]) => z.node[j] = node[j]
    BY OpenedLemma DEF IInv
  <2>2. Becomes(z) /\ out'.key = k
    BY <1>1 DEF get, Return, Answer
  <2> HIDE DEF z
  <2> QED
    BY <2>1, <2>2, KeepLemma
<1>2. CASE get_stale(k)
  <2> DEFINE z == Touch(Zone, k)
  <2>1. ZoneOK(z) /\ z.node = node
    BY TouchLemma DEF IInv, Zone
  <2>2. Becomes(z) /\ out'.key = k
    BY <1>2 DEF get_stale, Answer
  <2> HIDE DEF z
  <2> QED
    BY <2>1, <2>2, KeepLemma
<1> QED
  BY <1>1, <1>2

LEMMA FlushAllLemma ==
    ASSUME IInv, now' = now, flush_all
    PROVE  IInv' /\ Reported
<1> DEFINE f == [k \in Key |-> IF node[k] = None THEN None
                               ELSE [value |-> node[k].value, expires |-> 1]]
           z == [node |-> f, queue |-> queue]
<1>1. ZoneOK([node |-> node, queue |-> queue]) /\ now \in Nat
  BY DEF IInv, Zone
<1>2. \A k \in Key : node[k] # None => f[k] \in Entry /\ f[k] # None
  <2>1. \A k \in Key : node[k] # None => f[k] \in Entry
    BY <1>1 DEF ZoneOK, Entry
  <2> QED
    BY <2>1, EntryNotNone
<1>3. f \in [Key -> Entry \cup {None}] /\ \A k \in Key : node[k] = None <=> f[k] = None
  BY <1>2
<1> HIDE DEF f
<1>4. {k \in Key : f[k] # None} = {k \in Key : node[k] # None}
  BY <1>3
<1>5. ZoneOK(z)
  BY <1>1, <1>3, <1>4 DEF ZoneOK
<1>6. Becomes(ExpireForced(z)) /\ out'.op = "flush_all"
  BY DEF flush_all, f, Return, Answer
<1> HIDE DEF z
<1>7. Len(z.queue) \in Nat
  BY <1>5 DEF ZoneOK
<1>8. ZoneOK(ExpireForced(z))
  BY <1>5, <1>7, LeftLemma, CutLemma DEF ExpireForced
<1>9. IInv'
  BY <1>1, <1>6, <1>8, BecomesLemma
<1> QED
  BY <1>6, <1>9 DEF Reported

LEMMA FlushExpiredLemma ==
    ASSUME IInv, now' = now, NEW n \in Attempts, flush_expired(n)
    PROVE  IInv' /\ Reported
<1> DEFINE freed == Oldest(Stale, n)
<1>1. freed \subseteq {k \in Entries(queue) : Dead(node[k])}
  BY DEF Oldest, Stale
<1>2. PICK m \in 0 .. Len(queue) : \E q \in [1 .. m -> Key] :
         /\ Entries(q) = Entries(queue) \ freed
         /\ \A i, j \in 1 .. m : i < j => Position(queue, q[i]) < Position(queue, q[j])
         /\ queue' = q
  BY DEF flush_expired
<1>3. PICK q \in [1 .. m -> Key] :
         /\ Entries(q) = Entries(queue) \ freed
         /\ \A i, j \in 1 .. m : i < j => Position(queue, q[i]) < Position(queue, q[j])
         /\ queue' = q
  BY <1>2
<1>4. node' = [k \in Key |-> IF k \in freed THEN None ELSE node[k]]
  BY DEF flush_expired
<1>5. ZoneOK([node |-> node, queue |-> queue]) /\ now \in Nat
  BY DEF IInv, Zone
<1> HIDE DEF freed
<1>6. queue \in Seq(Key) /\ Len(queue) \in Nat /\ m \in Nat
  BY <1>5 DEF ZoneOK
<1>7. q \in Seq(Key) /\ DOMAIN q = 1 .. m
  BY <1>6
<1>8. Distinct(q)
  <2> SUFFICES ASSUME NEW i \in 1 .. m, NEW j \in 1 .. m, i < j, q[i] = q[j] PROVE FALSE
    BY <1>6, <1>7 DEF Distinct
  <2>1. Position(queue, q[i]) \in Nat
    <3>1. q[i] \in Entries(queue)
      BY <1>3, <1>7, Zenon DEF Entries
    <3>2. \E p \in DOMAIN queue : queue[p] = q[i]
      BY <3>1 DEF Entries
    <3>3. Position(queue, q[i]) \in DOMAIN queue
      BY <3>2 DEF Position
    <3> QED
      BY <1>6, <3>3
  <2> QED
    BY <1>3, <2>1
<1>9. node' \in [Key -> Entry \cup {None}]
  BY <1>4, <1>5 DEF ZoneOK
<1>10. Entries(queue') = {k \in Key : node'[k] # None}
  BY <1>3, <1>4, <1>5 DEF ZoneOK
<1>11. IInv'
  BY <1>3, <1>5, <1>7, <1>8, <1>9, <1>10 DEF IInv, ZoneOK, Zone
<1>12. Spares
  BY <1>1, <1>4 DEF Spares
<1> QED
  BY <1>11, <1>12 DEF Reported

-----------------------------------------------------------------------------

LEMMA CallLemma ==
    ASSUME IInv, now' = now, Call
    PROVE  IInv' /\ Reported
<1>1. ASSUME NEW k \in Key, NEW v \in Value, NEW t \in Exptime, set(k, v, t) \/ safe_set(k, v, t)
      PROVE  IInv' /\ Reported
  BY <1>1, StoreLemma DEF set, safe_set, StoreOp
<1>2. ASSUME NEW k \in Key, NEW v \in Value, NEW t \in Exptime, add(k, v, t) \/ safe_add(k, v, t)
      PROVE  IInv' /\ Reported
  BY <1>2, StoreLemma, RefuseLemma DEF add, safe_add, AddTo, StoreOp
<1>3. ASSUME NEW k \in Key, NEW v \in Value, NEW t \in Exptime, replace(k, v, t)
      PROVE  IInv' /\ Reported
  BY <1>3, StoreLemma, RefuseLemma, Zenon DEF replace, StoreOp
<1>4. ASSUME NEW n \in Attempts, get_keys(n)
      PROVE  IInv' /\ Reported
  <2>1. node' = node /\ queue' = queue
    BY <1>4 DEF get_keys
  <2>2. IInv'
    BY <2>1 DEF IInv, ZoneOK, Zone
  <2> QED
    BY <2>1, <2>2 DEF Reported, Spares
<1> QED
  BY <1>1, <1>2, <1>3, <1>4, DeleteLemma, IncrLemma, GetLemma, FlushAllLemma, FlushExpiredLemma
     DEF Call

LEMMA StepLemma ==
    ASSUME IInv, [Next]_vars
    PROVE  /\ IInv'
           /\ vars' = vars \/ Tick \/ Reported
<1>1. CASE Call /\ UNCHANGED now
  BY <1>1, CallLemma
<1>2. CASE Tick
  <2>1. node' = node /\ queue' = queue /\ now' \in Nat
    BY <1>2 DEF Tick, IInv
  <2> QED
    BY <1>2, <2>1 DEF IInv, ZoneOK, Zone
<1>3. CASE vars' = vars
  <2>1. node' = node /\ queue' = queue /\ now' = now
    BY <1>3 DEF vars
  <2> QED
    BY <1>3, <2>1 DEF IInv, ZoneOK, Zone
<1> QED
  BY <1>1, <1>2, <1>3 DEF Next

LEMMA InitLemma == Init => IInv
<1> SUFFICES ASSUME Init PROVE IInv
  OBVIOUS
<1>1. node = [k \in Key |-> None] /\ queue = <<>> /\ now = 2
  BY DEF Init
<1>2. queue \in Seq(Key) /\ Distinct(queue) /\ Entries(queue) = {}
  BY <1>1 DEF Distinct, Entries
<1> QED
  BY <1>1, <1>2 DEF IInv, ZoneOK, Zone

-----------------------------------------------------------------------------
(* The refinement of Store.                                                 *)

\* The value of an entry as a get returns it at time t.
Shown(e, t) ==
    IF e = None THEN None ELSE IF e.expires # 0 /\ e.expires < t THEN None ELSE e.value
Map == [k \in Key |-> Shown(node[k], now)]

\* The map after some losses.
Partial(m) ==
    /\ m \in [Key -> Value \cup {None}]
    /\ \A j \in Key : m[j] \in {Map[j], None}

\* The step of Store from there.
Moves(m) ==
    \/ \E k \in Key : \/ Promise!Get(m, k) \/ Promise!GetStale(m, k) \/ Promise!Delete(m, k)
                      \/ \E v \in Value : \/ Promise!Set(m, k, v) \/ Promise!Add(m, k, v)
                                          \/ Promise!Replace(m, k, v)
                      \/ \E v \in Amount : Promise!Incr(m, k, v)
    \/ Promise!Flush \/ Promise!GetKeys(m) \/ Promise!Lose(m)

\* A step of Store loses what a partial map leaves out.
LEMMA StoreStep ==
    ASSUME NEW m, Partial(m), Moves(m)
    PROVE  Promise!Next
<1> DEFINE lost == {j \in Key : m[j] = None}
<1>1. m = [j \in Key |-> IF j \in lost THEN None ELSE Map[j]]
  BY DEF Partial
<1>2. m \in {[j \in Key |-> IF j \in l THEN None ELSE Map[j]] : l \in SUBSET Key}
  BY <1>1, Zenon
<1>3. m \in Promise!Left
  BY <1>2, Zenon DEF Promise!Left, Map, Shown, Late
<1> QED
  BY <1>3, Zenon DEF Moves, Promise!Next

\* What can be seen of an entry.
LEMMA ShownLemma ==
    ASSUME NEW e \in Entry \cup {None}, NEW t
    PROVE  /\ Shown(e, t) \in Value \cup {None}
           /\ Shown(e, t) = None <=> e = None \/ (e.expires # 0 /\ e.expires < t)
           /\ Shown(e, t) # None => Shown(e, t) = e.value
<1>1. None \notin Value
  BY DictAssumption DEF Value, Number
<1>2. e # None => e.value \in Value
  BY DEF Entry
<1> QED
  BY <1>1, <1>2, Zenon DEF Shown

\* A lookup finds what can be seen.
LEMMA FoundLemma ==
    ASSUME NEW z, NEW k \in Key, z.node[k] \in Entry \cup {None}
    PROVE  Lookup(z, k) = "OK" <=> Shown(z.node[k], now) # None
<1>1. Shown(z.node[k], now) = None <=> z.node[k] = None \/ Late(z.node[k])
  BY ShownLemma, Zenon DEF Late
<1> QED
  BY <1>1 DEF Lookup

\* A value that was stored just now can be seen.
LEMMA FreshLemma ==
    ASSUME now \in Nat, NEW t \in Exptime
    PROVE  Deadline(t) \in Nat /\ (Deadline(t) # 0 => ~(Deadline(t) < now))
  BY DictAssumption DEF Deadline

\* The map when only the entry of one key is not lost or kept: a is what the
\* call found at that key.
LEMMA KeyStep ==
    ASSUME IInv, IInv', now' = now, NEW k \in Key, NEW a \in {Map[k], None},
           \A j \in Key \ {k} : node'[j] \in {node[j], None}
    PROVE  \E m : /\ Partial(m) /\ m[k] = a
                  /\ Map' = [m EXCEPT ![k] = Shown(node'[k], now)]
<1> DEFINE m == [j \in Key |-> IF j = k THEN a ELSE Shown(node'[j], now)]
<1>1. \A j \in Key : node[j] \in Entry \cup {None} /\ node'[j] \in Entry \cup {None}
  BY DEF IInv, ZoneOK, Zone
<1>2. Map = [j \in Key |-> Shown(node[j], now)] /\ Map' = [j \in Key |-> Shown(node'[j], now)]
  BY Zenon DEF Map
<1>3. \A j \in Key : Map[j] \in Value \cup {None} /\ Shown(node'[j], now) \in Value \cup {None}
  BY <1>1, <1>2, ShownLemma, Zenon
<1>4. \A j \in Key \ {k} : Shown(node'[j], now) \in {Map[j], None}
  BY <1>2, Zenon DEF Shown
<1>5. Partial(m)
  BY <1>3, <1>4, Zenon DEF Partial
<1>6. Map' = [m EXCEPT ![k] = Shown(node'[k], now)] /\ m[k] = a
  BY <1>2, Zenon
<1> QED
  BY <1>5, <1>6, Zenon

\* The actions of Store on a map m.
LEMMA StoreForms ==
    ASSUME NEW m, NEW k, NEW v, NEW op, NEW err
    PROVE  /\ Promise!Result(op, k, TRUE, v) /\ Map' = [m EXCEPT ![k] = v] => Promise!Put(m, op, k, v)
           /\ Promise!Result(op, k, FALSE, v) /\ out'.err = "no memory" /\ Map' = [m EXCEPT ![k] = None]
                => Promise!Put(m, op, k, v)
           /\ Promise!Result(op, k, FALSE, v) /\ out'.err = err /\ Map' = m
                => Promise!Refuse(m, op, k, v, err)
           /\ Promise!Result("get", k, TRUE, m[k]) /\ Map' = m => Promise!Get(m, k)
           /\ (/\ out'.op = "get_stale" /\ out'.key = k /\ Map' = m
               /\ m[k] # None => out'.val = m[k] /\ ~out'.stale
               /\ m[k] = None => out'.stale \/ out'.val = None)
                => Promise!GetStale(m, k)
           /\ Promise!Result("delete", k, TRUE, None) /\ Map' = [m EXCEPT ![k] = None]
                => Promise!Delete(m, k)
           /\ (/\ m[k] \in Nat /\ Promise!Result("incr", k, TRUE, m[k] + v)
               /\ Map' = [m EXCEPT ![k] = m[k] + v])
                => Promise!Incr(m, k, v)
           /\ out'.op = "flush_all" /\ Map' = [j \in Key |-> None] => Promise!Flush
           /\ out'.op = "get_keys" /\ Map' = m /\ (\A j \in out'.val : m[j] # None)
                => Promise!GetKeys(m)
           /\ (out' = out \/ out'.op = "flush_expired") /\ Map' = m => Promise!Lose(m)
<1> USE DEF Map, Shown, Late
<1>1. /\ Promise!Result(op, k, TRUE, v) /\ Map' = [m EXCEPT ![k] = v] => Promise!Put(m, op, k, v)
      /\ Promise!Result(op, k, FALSE, v) /\ out'.err = "no memory" /\ Map' = [m EXCEPT ![k] = None]
           => Promise!Put(m, op, k, v)
      /\ Promise!Result(op, k, FALSE, v) /\ out'.err = err /\ Map' = m
           => Promise!Refuse(m, op, k, v, err)
  BY Zenon DEF Promise!Put, Promise!Refuse
<1>2. /\ Promise!Result("get", k, TRUE, m[k]) /\ Map' = m => Promise!Get(m, k)
      /\ Promise!Result("delete", k, TRUE, None) /\ Map' = [m EXCEPT ![k] = None]
           => Promise!Delete(m, k)
  BY Zenon DEF Promise!Get, Promise!Delete
<1>3. (/\ out'.op = "get_stale" /\ out'.key = k /\ Map' = m
       /\ m[k] # None => out'.val = m[k] /\ ~out'.stale
       /\ m[k] = None => out'.stale \/ out'.val = None)
        => Promise!GetStale(m, k)
  BY Zenon DEF Promise!GetStale
<1>4. (/\ m[k] \in Nat /\ Promise!Result("incr", k, TRUE, m[k] + v)
       /\ Map' = [m EXCEPT ![k] = m[k] + v])
        => Promise!Incr(m, k, v)
  BY Zenon DEF Promise!Incr
<1>5. /\ out'.op = "flush_all" /\ Map' = [j \in Key |-> None] => Promise!Flush
      /\ out'.op = "get_keys" /\ Map' = m /\ (\A j \in out'.val : m[j] # None)
           => Promise!GetKeys(m)
      /\ (out' = out \/ out'.op = "flush_expired") /\ Map' = m => Promise!Lose(m)
  BY Zenon DEF Promise!Flush, Promise!GetKeys, Promise!Lose
<1> QED
  BY <1>1, <1>2, <1>3, <1>4, <1>5, Zenon

\* The zone a call opens: what it finds there can be seen, or was lost.
LEMMA OpenedShown ==
    ASSUME IInv, NEW k \in Key
    PROVE  /\ ZoneOK(Opened(k)) /\ \A j \in Key : Opened(k).node[j] \in {node[j], None}
           /\ Opened(k).node[k] \in Entry \cup {None}
           /\ Shown(Opened(k).node[k], now) \in {Map[k], None}
           /\ Lookup(Expire(Zone), k) = "OK" <=> Shown(Opened(k).node[k], now) # None
<1>1. ZoneOK(Zone) /\ ZoneOK(Expire(Zone))
  BY ExpireLemma, Zenon DEF IInv
<1>2. ZoneOK(Opened(k)) /\ \A j \in Key : Opened(k).node[j] \in {node[j], None}
  BY <1>1, OpenedLemma, Zenon
<1>3. Opened(k).node = Expire(Zone).node
  BY <1>1, TouchLemma, Zenon DEF Opened
<1>4. Opened(k).node[k] \in Entry \cup {None}
  BY <1>2, Zenon DEF ZoneOK
<1>5. Shown(None, now) = None /\ Map[k] = Shown(node[k], now)
  BY Zenon DEF Shown, Map
<1>6. Lookup(Expire(Zone), k) = "OK" <=> Shown(Expire(Zone).node[k], now) # None
  BY <1>3, <1>4, FoundLemma, Zenon
<1> QED
  BY <1>2, <1>3, <1>4, <1>5, <1>6, Zenon

\* A store that put v at k, or failed and left k without a value.
Placed(op, k, v) ==
    /\ \A j \in Key \ {k} : node'[j] \in {node[j], None}
    /\ out'.op = op /\ out'.key = k /\ out'.val = v
    /\ \/ out'.ok = TRUE /\ Shown(node'[k], now) = v
       \/ out'.ok = FALSE /\ out'.err = "no memory" /\ Shown(node'[k], now) = None

\* Insertion, with as many forced rounds as it takes, is such a store.
LEMMA InsertPlaced ==
    ASSUME IInv, now' = now, NEW z, ZoneOK(z), NEW k \in Key, z.node[k] = None,
           NEW op, NEW v \in Value, NEW t \in Exptime,
           \A j \in Key \ {k} : z.node[j] \in {node[j], None},
           Allocate(z, op, k, v, t) \/ NoMemory(z, op, k, v)
    PROVE  Placed(op, k, v)
<1>0. now \in Nat
  BY DEF IInv
<1>1. ASSUME NEW n \in 0 .. Len(z.queue)
      PROVE  /\ ZoneOK(Cut(z, n)) /\ Cut(z, n).node[k] = None
             /\ \A j \in Key \ {k} : Cut(z, n).node[j] \in {node[j], None}
  BY CutLemma
<1>2. CASE Allocate(z, op, k, v, t)
  <2>1. PICK i \in 0 .. Rounds, n \in 0 .. Len(z.queue) :
           /\ Becomes(Insert(Cut(z, n), k, v, t))
           /\ out' = Answer(op, k, TRUE, v, None, i > 0, FALSE)
    BY <1>2, Zenon DEF Allocate
  <2> DEFINE c == Cut(z, n)
             s == Insert(c, k, v, t)
  <2>2. ZoneOK(c) /\ c.node[k] = None /\ \A j \in Key \ {k} : c.node[j] \in {node[j], None}
    BY <1>1, Zenon
  <2> HIDE DEF c
  <2>3. /\ s.node[k] = [value |-> v, expires |-> Deadline(t)]
        /\ \A j \in Key \ {k} : s.node[j] = c.node[j]
    BY <1>0, <2>2, InsertLemma
  <2>4. node' = s.node
    BY <2>1, Zenon DEF Becomes, c
  <2> HIDE DEF s
  <2>5. \A j \in Key \ {k} : node'[j] \in {node[j], None}
    BY <2>2, <2>3, <2>4, Zenon
  <2>6. Shown(node'[k], now) = v
    <3> DEFINE e == [value |-> v, expires |-> Deadline(t)]
    <3>1. e \in Entry /\ e # None
      BY <1>0, FreshLemma, EntryNotNone DEF Entry
    <3>2. e.value = v /\ ~(e.expires # 0 /\ e.expires < now)
      BY <1>0, FreshLemma
    <3>3. node'[k] = e
      BY <2>3, <2>4, Zenon
    <3> HIDE DEF e
    <3> QED
      BY <3>1, <3>2, <3>3, Zenon DEF Shown
  <2>7. out'.op = op /\ out'.key = k /\ out'.val = v /\ out'.ok = TRUE
    BY <2>1 DEF Answer
  <2> QED
    BY <2>5, <2>6, <2>7, Zenon DEF Placed
<1>3. CASE NoMemory(z, op, k, v)
  <2>1. PICK i \in 0 .. Rounds, n \in 0 .. Len(z.queue) :
           /\ Becomes(Cut(z, n))
           /\ out' = Answer(op, k, FALSE, v, "no memory", i > 0, FALSE)
    BY <1>3, Zenon DEF NoMemory
  <2>2. node' = Cut(z, n).node
    BY <2>1, Zenon DEF Becomes
  <2>3. node'[k] = None /\ \A j \in Key \ {k} : node'[j] \in {node[j], None}
    BY <1>1, <2>2, Zenon
  <2>4. Shown(node'[k], now) = None
    BY <2>3, Zenon DEF Shown
  <2>5. /\ out'.op = op /\ out'.key = k /\ out'.val = v
        /\ out'.ok = FALSE /\ out'.err = "no memory"
    BY <2>1, Zenon DEF Answer
  <2> QED
    BY <2>3, <2>4, <2>5, Zenon DEF Placed
<1> QED
  BY <1>2, <1>3

LEMMA StorePlaced ==
    ASSUME IInv, now' = now, NEW k \in Key, NEW op, NEW v \in Value,
           NEW t \in Exptime, StoreValue(op, k, v, t)
    PROVE  Placed(op, k, v)
<1> DEFINE z == Opened(k)
<1>0. now \in Nat
  BY DEF IInv
<1>1. ZoneOK(z) /\ \A j \in Key : z.node[j] \in {node[j], None}
  BY OpenedShown, Zenon
<1>2. \/ /\ z.node[k] # None
         /\ Becomes(Overwrite(z, k, v, Deadline(t)))
         /\ out' = Return(op, k, TRUE, v, None)
      \/ /\ z.node[k] # None
         /\ Allocate(Remove(z, k), op, k, v, t) \/ NoMemory(Remove(z, k), op, k, v)
      \/ /\ z.node[k] = None
         /\ Allocate(z, op, k, v, t) \/ NoMemory(z, op, k, v)
  BY Zenon DEF StoreValue
<1> HIDE DEF z
<1>3. ASSUME z.node[k] # None, Becomes(Overwrite(z, k, v, Deadline(t))),
             out' = Return(op, k, TRUE, v, None)
      PROVE  Placed(op, k, v)
  <2> DEFINE y == Overwrite(z, k, v, Deadline(t))
  <2>1. Deadline(t) \in Nat
    BY <1>0, FreshLemma, ZenonT(30)
  <2>2. /\ y.node[k] = [value |-> v, expires |-> Deadline(t)]
        /\ \A j \in Key \ {k} : y.node[j] = z.node[j]
    BY <1>1, <1>3, <2>1, OverwriteLemma
  <2>3. node' = y.node
    BY <1>3, Zenon DEF Becomes
  <2> HIDE DEF y
  <2>4. \A j \in Key \ {k} : node'[j] \in {node[j], None}
    BY <1>1, <2>2, <2>3, Zenon
  <2>5. Shown(node'[k], now) = v
    <3> DEFINE e == [value |-> v, expires |-> Deadline(t)]
    <3>1. e \in Entry /\ e # None
      BY <1>0, FreshLemma, EntryNotNone DEF Entry
    <3>2. e.value = v /\ ~(e.expires # 0 /\ e.expires < now)
      BY <1>0, FreshLemma
    <3>3. node'[k] = e
      BY <2>2, <2>3, Zenon
    <3> HIDE DEF e
    <3> QED
      BY <3>1, <3>2, <3>3, Zenon DEF Shown
  <2>6. out'.op = op /\ out'.key = k /\ out'.val = v /\ out'.ok = TRUE
    BY <1>3, Zenon DEF Return, Answer
  <2> QED
    BY <2>4, <2>5, <2>6, Zenon DEF Placed
<1>4. ASSUME z.node[k] # None,
             Allocate(Remove(z, k), op, k, v, t) \/ NoMemory(Remove(z, k), op, k, v)
      PROVE  Placed(op, k, v)
  <2> DEFINE y == Remove(z, k)
  <2>1. ZoneOK(y) /\ y.node[k] = None /\ \A j \in Key \ {k} : y.node[j] = z.node[j]
    BY <1>1, <1>4, RemoveLemma
  <2>2. Allocate(y, op, k, v, t) \/ NoMemory(y, op, k, v)
    BY <1>4
  <2> HIDE DEF y
  <2>3. \A j \in Key \ {k} : y.node[j] \in {node[j], None}
    BY <1>1, <2>1, Zenon
  <2> QED
    BY <2>1, <2>2, <2>3, InsertPlaced, Zenon
<1>5. ASSUME z.node[k] = None, Allocate(z, op, k, v, t) \/ NoMemory(z, op, k, v)
      PROVE  Placed(op, k, v)
  BY <1>1, <1>5, InsertPlaced
<1> QED
  BY <1>2, <1>3, <1>4, <1>5, Zenon

\* What the call finds at k.
Found(k) == Shown(Opened(k).node[k], now)

\* Such a store is a Put of Store, on what the expiry has left of the map.
LEMMA PutStep ==
    ASSUME IInv, IInv', now' = now, NEW k \in Key, NEW op, NEW v, Placed(op, k, v)
    PROVE  \E m : Partial(m) /\ m[k] = Found(k) /\ Promise!Put(m, op, k, v)
<1>1. Found(k) \in {Map[k], None}
  BY OpenedShown, Zenon DEF Found
<1>2. PICK m : Partial(m) /\ m[k] = Found(k) /\ Map' = [m EXCEPT ![k] = Shown(node'[k], now)]
  BY <1>1, KeyStep, Zenon DEF Placed
<1>3. \/ Promise!Result(op, k, TRUE, v) /\ Map' = [m EXCEPT ![k] = v]
      \/ Promise!Result(op, k, FALSE, v) /\ out'.err = "no memory" /\ Map' = [m EXCEPT ![k] = None]
  BY <1>2, Zenon DEF Placed, Promise!Result
<1>4. Promise!Put(m, op, k, v)
  BY <1>3, StoreForms, Zenon
<1> QED
  BY <1>2, <1>4, Zenon

\* A call that only opens the zone leaves what it found.
LEMMA OpenStep ==
    ASSUME IInv, IInv', now' = now, NEW k \in Key, Becomes(Opened(k))
    PROVE  \E m : Partial(m) /\ m[k] = Found(k) /\ Map' = m
<1>1. Found(k) \in {Map[k], None} /\ \A j \in Key : Opened(k).node[j] \in {node[j], None}
  BY OpenedShown, Zenon DEF Found
<1>2. node' = Opened(k).node
  BY Zenon DEF Becomes
<1>3. \A j \in Key \ {k} : node'[j] \in {node[j], None}
  BY <1>1, <1>2, Zenon
<1>4. PICK m : Partial(m) /\ m[k] = Found(k) /\ Map' = [m EXCEPT ![k] = Shown(node'[k], now)]
  BY <1>1, <1>3, KeyStep, Zenon
<1>5. Shown(node'[k], now) = m[k]
  BY <1>2, <1>4, Zenon DEF Found
<1>6. [m EXCEPT ![k] = m[k]] = m
  BY <1>4 DEF Partial
<1> QED
  BY <1>4, <1>5, <1>6, Zenon

LEMMA RefuseStep ==
    ASSUME IInv, IInv', now' = now, NEW k \in Key, NEW op, NEW v, NEW err,
           Refuse(op, k, v, err)
    PROVE  \E m : Partial(m) /\ m[k] = Found(k) /\ Promise!Refuse(m, op, k, v, err)
<1>1. Becomes(Opened(k)) /\ out' = Return(op, k, FALSE, v, err)
  BY Zenon DEF Refuse
<1>2. PICK m : Partial(m) /\ m[k] = Found(k) /\ Map' = m
  BY <1>1, OpenStep, Zenon
<1>3. out'.op = op /\ out'.key = k /\ out'.ok = FALSE /\ out'.val = v /\ out'.err = err
  BY <1>1 DEF Return, Answer
<1>4. Promise!Refuse(m, op, k, v, err)
  BY <1>2, <1>3, StoreForms, Zenon DEF Promise!Result
<1> QED
  BY <1>2, <1>4, Zenon

\* Each call is a step of Store.
LEMMA SetStep ==
    ASSUME IInv, IInv', now' = now, NEW k \in Key, NEW v \in Value, NEW t \in Exptime,
           set(k, v, t) \/ safe_set(k, v, t)
    PROVE  Promise!Next
<1>1. PICK op \in {"set", "safe_set"} : StoreValue(op, k, v, t)
  BY Zenon DEF set, safe_set
<1>2. Placed(op, k, v)
  BY <1>1, StorePlaced, Zenon
<1>3. PICK m : Partial(m) /\ Promise!Put(m, op, k, v)
  BY <1>2, PutStep, Zenon
<1>4. Promise!Set(m, k, v)
  BY <1>3, Zenon DEF Promise!Set
<1>5. Moves(m)
  BY <1>4, Zenon DEF Moves
<1> QED
  BY <1>3, <1>5, StoreStep, Zenon

LEMMA AddStep ==
    ASSUME IInv, IInv', now' = now, NEW k \in Key, NEW v \in Value, NEW t \in Exptime,
           add(k, v, t) \/ safe_add(k, v, t)
    PROVE  Promise!Next
<1>1. PICK op \in {"add", "safe_add"} : AddTo(op, k, v, t)
  BY Zenon DEF add, safe_add
<1>2. Lookup(Expire(Zone), k) = "OK" <=> Found(k) # None
  BY OpenedShown, Zenon DEF Found
<1>3. CASE Lookup(Expire(Zone), k) = "OK" /\ Refuse(op, k, v, "exists")
  <2>1. PICK m : Partial(m) /\ m[k] = Found(k) /\ Promise!Refuse(m, op, k, v, "exists")
    BY <1>3, RefuseStep, Zenon
  <2>2. Promise!Add(m, k, v)
    BY <1>2, <1>3, <2>1, Zenon DEF Promise!Add
  <2>3. Moves(m)
    BY <2>2, Zenon DEF Moves
  <2> QED
    BY <2>1, <2>3, StoreStep, Zenon
<1>4. CASE Lookup(Expire(Zone), k) # "OK" /\ StoreValue(op, k, v, t)
  <2>1. Placed(op, k, v)
    BY <1>4, StorePlaced, Zenon
  <2>2. PICK m : Partial(m) /\ m[k] = Found(k) /\ Promise!Put(m, op, k, v)
    BY <2>1, PutStep, Zenon
  <2>3. Promise!Add(m, k, v)
    BY <1>2, <1>4, <2>2, Zenon DEF Promise!Add
  <2>4. Moves(m)
    BY <2>3, Zenon DEF Moves
  <2> QED
    BY <2>2, <2>4, StoreStep, Zenon
<1> QED
  BY <1>1, <1>3, <1>4, Zenon DEF AddTo

LEMMA ReplaceStep ==
    ASSUME IInv, IInv', now' = now, NEW k \in Key, NEW v \in Value, NEW t \in Exptime,
           replace(k, v, t)
    PROVE  Promise!Next
<1>2. Lookup(Expire(Zone), k) = "OK" <=> Found(k) # None
  BY OpenedShown, Zenon DEF Found
<1>3. CASE Lookup(Expire(Zone), k) # "OK" /\ Refuse("replace", k, v, "not found")
  <2>1. PICK m : Partial(m) /\ m[k] = Found(k) /\ Promise!Refuse(m, "replace", k, v, "not found")
    BY <1>3, RefuseStep, Zenon
  <2>2. Promise!Replace(m, k, v)
    BY <1>2, <1>3, <2>1, Zenon DEF Promise!Replace
  <2>3. Moves(m)
    BY <2>2, Zenon DEF Moves
  <2> QED
    BY <2>1, <2>3, StoreStep, Zenon
<1>4. CASE Lookup(Expire(Zone), k) = "OK" /\ StoreValue("replace", k, v, t)
  <2>1. Placed("replace", k, v)
    BY <1>4, StorePlaced, Zenon
  <2>2. PICK m : Partial(m) /\ m[k] = Found(k) /\ Promise!Put(m, "replace", k, v)
    BY <2>1, PutStep, Zenon
  <2>3. Promise!Replace(m, k, v)
    BY <1>2, <1>4, <2>2, Zenon DEF Promise!Replace
  <2>4. Moves(m)
    BY <2>3, Zenon DEF Moves
  <2> QED
    BY <2>2, <2>4, StoreStep, Zenon
<1> QED
  BY <1>3, <1>4, Zenon DEF replace

LEMMA DeleteStep ==
    ASSUME IInv, IInv', now' = now, NEW k \in Key, delete(k)
    PROVE  Promise!Next
<1> DEFINE z == Opened(k)
<1>1. ZoneOK(z) /\ (\A j \in Key : z.node[j] \in {node[j], None}) /\ Found(k) \in {Map[k], None}
  BY OpenedShown, Zenon DEF Found
<1>2. /\ node' = (IF z.node[k] = None THEN z ELSE Remove(z, k)).node
      /\ out' = Return("delete", k, TRUE, None, None)
  BY Zenon DEF delete, Becomes
<1> HIDE DEF z
<1>3. node'[k] = None /\ \A j \in Key \ {k} : node'[j] \in {node[j], None}
  <2>1. CASE z.node[k] = None
    BY <1>1, <1>2, <2>1, Zenon
  <2>2. CASE z.node[k] # None
    <3>1. Remove(z, k).node[k] = None /\ \A j \in Key \ {k} : Remove(z, k).node[j] = z.node[j]
      BY <1>1, <2>2, RemoveLemma, Zenon
    <3>2. node' = Remove(z, k).node
      BY <1>2, <2>2, Zenon
    <3> QED
      BY <1>1, <3>1, <3>2, Zenon
  <2> QED
    BY <2>1, <2>2, Zenon
<1>4. Shown(node'[k], now) = None
  BY <1>3, Zenon DEF Shown
<1>5. PICK m : Partial(m) /\ Map' = [m EXCEPT ![k] = None]
  BY <1>1, <1>3, <1>4, KeyStep, Zenon
<1>6. out'.op = "delete" /\ out'.key = k /\ out'.ok = TRUE /\ out'.val = None
  BY <1>2 DEF Return, Answer
<1>7. Promise!Delete(m, k)
  BY <1>5, <1>6, StoreForms, Zenon DEF Promise!Result
<1>8. Moves(m)
  BY <1>7, Zenon DEF Moves
<1> QED
  BY <1>5, <1>8, StoreStep, Zenon

LEMMA GetStep ==
    ASSUME IInv, IInv', now' = now, NEW k \in Key, get(k)
    PROVE  Promise!Next
<1>1. /\ Becomes(Opened(k))
      /\ out' = Return("get", k, TRUE,
                       IF Lookup(Expire(Zone), k) = "OK" THEN Opened(k).node[k].value ELSE None, None)
  BY Zenon DEF get
<1>2. PICK m : Partial(m) /\ m[k] = Found(k) /\ Map' = m
  BY <1>1, OpenStep, Zenon
<1>3. (IF Lookup(Expire(Zone), k) = "OK" THEN Opened(k).node[k].value ELSE None) = Found(k)
  <2>1. /\ Opened(k).node[k] \in Entry \cup {None}
        /\ Lookup(Expire(Zone), k) = "OK" <=> Found(k) # None
    BY OpenedShown, Zenon DEF Found
  <2>2. Found(k) # None => Found(k) = Opened(k).node[k].value
    BY <2>1, ShownLemma, Zenon DEF Found
  <2> QED
    BY <2>1, <2>2, Zenon
<1>4. out' = Return("get", k, TRUE, m[k], None)
  BY <1>1, <1>2, <1>3, Zenon
<1>5. out'.op = "get" /\ out'.key = k /\ out'.ok = TRUE /\ out'.val = m[k]
  BY <1>4 DEF Return, Answer
<1>6. Promise!Get(m, k)
  BY <1>2, <1>5, StoreForms, Zenon DEF Promise!Result
<1>7. Moves(m)
  BY <1>6, Zenon DEF Moves
<1> QED
  BY <1>2, <1>7, StoreStep, Zenon

\* A later map, or one with entries dropped, is a partial one.
LEMMA LossStep ==
    ASSUME IInv, IInv', \A j \in Key : Map'[j] \in {Map[j], None}
    PROVE  \E m : Partial(m) /\ m = Map'
<1>1. \A j \in Key : node'[j] \in Entry \cup {None}
  BY DEF IInv, ZoneOK, Zone
<1>2. Map' = [j \in Key |-> Shown(node'[j], now')]
  BY Zenon DEF Map
<1>3. \A j \in Key : Shown(node'[j], now') \in Value \cup {None}
  BY <1>1, ShownLemma, Zenon
<1>4. Map' \in [Key -> Value \cup {None}]
  BY <1>2, <1>3, Zenon
<1>5. PICK m : m = Map'
  BY Zenon
<1>6. Partial(m)
  BY <1>4, <1>5, Zenon DEF Partial
<1> QED
  BY <1>5, <1>6, Zenon

LEMMA GetStaleStep ==
    ASSUME IInv, IInv', now' = now, NEW k \in Key, get_stale(k)
    PROVE  Promise!Next
<1> DEFINE rc == Lookup(Zone, k)
           w == IF rc = "DECLINED" THEN None ELSE node[k].value
<1>1. /\ Becomes(Touch(Zone, k))
      /\ out' = Answer("get_stale", k, TRUE, w, None, FALSE, rc = "DONE")
  BY Zenon DEF get_stale
<1>2. node' = node
  BY <1>1, TouchLemma, Zenon DEF IInv, Becomes, Zone
<1>3. Map' = Map
  BY <1>2, Zenon DEF Map
<1>4. PICK m : Partial(m) /\ m = Map'
  BY <1>3, LossStep, Zenon
<1>5. Zone.node = node /\ node[k] \in Entry \cup {None}
  BY DEF IInv, ZoneOK, Zone
<1>6. m[k] = Shown(node[k], now)
  BY <1>3, <1>4, Zenon DEF Map
<1>7. /\ rc = "OK" <=> m[k] # None
      /\ rc = "DECLINED" <=> node[k] = None
      /\ rc \in {"OK", "DONE", "DECLINED"}
  <2>1. rc = "OK" <=> m[k] # None
    BY <1>5, <1>6, FoundLemma, Zenon
  <2>2. (rc = "DECLINED" <=> node[k] = None) /\ rc \in {"OK", "DONE", "DECLINED"}
    BY <1>5 DEF Lookup
  <2> QED
    BY <2>1, <2>2, Zenon
<1>8. /\ out'.op = "get_stale" /\ out'.key = k /\ out'.val = w
      /\ out'.stale = (rc = "DONE")
  <2>1. \A b \in BOOLEAN : LET a == Answer("get_stale", k, TRUE, w, None, FALSE, b)
                           IN  a.op = "get_stale" /\ a.key = k /\ a.val = w /\ a.stale = b
    BY DEF Answer
  <2> QED
    BY <1>1, <2>1, Zenon
<1>9. m[k] # None => w = m[k] /\ rc # "DONE"
  <2>1. m[k] # None => m[k] = node[k].value
    BY <1>5, <1>6, ShownLemma, Zenon
  <2> QED
    BY <1>7, <2>1
<1>10. m[k] = None => rc = "DONE" \/ w = None
  BY <1>7
<1> HIDE DEF w, rc
<1>11. Promise!GetStale(m, k)
  BY <1>4, <1>8, <1>9, <1>10, StoreForms, Zenon
<1>12. Moves(m)
  BY <1>11, Zenon DEF Moves
<1> QED
  BY <1>4, <1>12, StoreStep, Zenon

LEMMA IncrStep ==
    ASSUME IInv, IInv', now' = now, NEW k \in Key, NEW v \in Amount, incr(k, v)
    PROVE  Promise!Next
<1> DEFINE z == Opened(k)
           rc == Lookup(Expire(Zone), k)
           sum == z.node[k].value + v
<1>1. /\ ZoneOK(z) /\ \A j \in Key : z.node[j] \in {node[j], None}
      /\ z.node[k] \in Entry \cup {None} /\ Found(k) \in {Map[k], None}
      /\ rc = "OK" <=> Found(k) # None
  BY OpenedShown, Zenon DEF Found
<1>2. \/ rc # "OK" /\ Refuse("incr", k, v, "not found")
      \/ rc = "OK" /\ z.node[k].value \in Text /\ Refuse("incr", k, v, "not a number")
      \/ /\ rc = "OK" /\ z.node[k].value \notin Text
         /\ sum <= MaxNumber
         /\ Becomes(Overwrite(z, k, sum, z.node[k].expires))
         /\ out' = Return("incr", k, TRUE, sum, None)
  BY Zenon DEF incr
<1>3. Found(k) # None => Found(k) = z.node[k].value /\ z.node[k] # None
  BY <1>1, ShownLemma, Zenon DEF Found
<1>4. Found(k) = Shown(z.node[k], now)
  BY Zenon DEF Found
<1> HIDE DEF z, rc
<1>5. CASE rc # "OK" /\ Refuse("incr", k, v, "not found")
  <2>1. PICK m : Partial(m) /\ m[k] = Found(k) /\ Promise!Refuse(m, "incr", k, v, "not found")
    BY <1>5, RefuseStep, Zenon
  <2>2. Promise!Incr(m, k, v)
    BY <1>1, <1>5, <2>1, Zenon DEF Promise!Incr
  <2>3. Moves(m)
    BY <2>2, Zenon DEF Moves
  <2> QED
    BY <2>1, <2>3, StoreStep, Zenon
<1>6. CASE rc = "OK" /\ z.node[k].value \in Text /\ Refuse("incr", k, v, "not a number")
  <2>1. PICK m : Partial(m) /\ m[k] = Found(k) /\ Promise!Refuse(m, "incr", k, v, "not a number")
    BY <1>6, RefuseStep, Zenon
  <2>2. m[k] \in Text
    BY <1>1, <1>3, <1>6, <2>1, Zenon
  <2>3. m[k] \notin Nat \cup {None}
    BY <2>2, DictAssumption, Zenon
  <2>4. Promise!Incr(m, k, v)
    BY <2>1, <2>3, Zenon DEF Promise!Incr
  <2>5. Moves(m)
    BY <2>4, Zenon DEF Moves
  <2> QED
    BY <2>1, <2>5, StoreStep, Zenon
<1>7. CASE /\ rc = "OK" /\ z.node[k].value \notin Text
           /\ sum <= MaxNumber
           /\ Becomes(Overwrite(z, k, sum, z.node[k].expires))
           /\ out' = Return("incr", k, TRUE, sum, None)
  <2> DEFINE x == z.node[k].expires
             y == Overwrite(z, k, sum, x)
  <2>1. z.node[k] # None /\ z.node[k] \in Entry
    BY <1>1, <1>3, <1>7, Zenon
  <2>2. x \in Nat /\ z.node[k].value \in Number
    BY <1>7, <2>1 DEF Entry, Value
  <2>3. sum \in Value /\ z.node[k].value \in Nat
    BY <1>7, <2>2, DictAssumption DEF Number, Value
  <2>4. ~(x # 0 /\ x < now)
    <3>1. Shown(z.node[k], now) # None
      BY <1>1, <1>4, <1>7, Zenon
    <3> QED
      BY <1>1, <3>1, ShownLemma, Zenon
  <2>5. node' = y.node
    BY <1>7, Zenon DEF Becomes
  <2> HIDE DEF sum, x
  <2>6. /\ y.node[k] = [value |-> sum, expires |-> x]
        /\ \A j \in Key \ {k} : y.node[j] = z.node[j]
    BY <1>1, <2>1, <2>2, <2>3, OverwriteLemma
  <2> HIDE DEF y
  <2>7. \A j \in Key \ {k} : node'[j] \in {node[j], None}
    BY <1>1, <2>5, <2>6, Zenon
  <2>8. Shown(node'[k], now) = sum
    <3> DEFINE e == [value |-> sum, expires |-> x]
    <3>1. e \in Entry /\ e # None
      BY <2>2, <2>3, EntryNotNone DEF Entry
    <3>2. e.value = sum /\ e.expires = x
      OBVIOUS
    <3>3. node'[k] = e
      BY <2>5, <2>6, Zenon
    <3> HIDE DEF e
    <3> QED
      BY <2>4, <3>1, <3>2, <3>3, Zenon DEF Shown
  <2>9. PICK m : Partial(m) /\ m[k] = Found(k) /\ Map' = [m EXCEPT ![k] = sum]
    BY <1>1, <2>7, <2>8, KeyStep, Zenon
  <2>10. m[k] \in Nat /\ sum = m[k] + v
    BY <1>1, <1>3, <1>7, <2>3, <2>9, Zenon DEF sum
  <2>11. out' = Return("incr", k, TRUE, sum, None)
    BY <1>7, Zenon DEF sum
  <2>12. out'.op = "incr" /\ out'.key = k /\ out'.ok = TRUE /\ out'.val = sum
    BY <2>11 DEF Return, Answer
  <2>13. Promise!Incr(m, k, v)
    BY <2>9, <2>10, <2>12, StoreForms, Zenon DEF Promise!Result
  <2>14. Moves(m)
    BY <2>13, Zenon DEF Moves
  <2> QED
    BY <2>9, <2>14, StoreStep, Zenon
<1> QED
  BY <1>2, <1>5, <1>6, <1>7, Zenon

\* The clock has passed the expiry flush_all sets.
Ticking == IInv /\ now >= 2

\* flush_all sets every expiry to 1 ms, a time that is always past.
LEMMA FlushAllStep ==
    ASSUME IInv, IInv', now' = now, now >= 2, flush_all
    PROVE  Promise!Next
<1> DEFINE f == [k \in Key |-> IF node[k] = None THEN None
                               ELSE [value |-> node[k].value, expires |-> 1]]
           z == [node |-> f, queue |-> queue]
           n == ForcedLeft(z, Len(z.queue))
<1>1. Becomes(ExpireForced(z)) /\ out' = Return("flush_all", None, TRUE, None, None)
  BY Zenon DEF flush_all
<1>2. node' = [k \in Key |-> IF k \in Entries(SubSeq(z.queue, 1, n)) THEN z.node[k] ELSE None]
  BY <1>1 DEF Becomes, ExpireForced, Cut
<1>3. \A k \in Key : node'[k] \in {f[k], None}
  BY <1>2
<1>4. now \in Nat
  BY DEF IInv
<1>5. \A k \in Key : Shown(f[k], now) = None
  <2> TAKE k \in Key
  <2> DEFINE e == [value |-> node[k].value, expires |-> 1]
  <2>1. e.expires = 1
    OBVIOUS
  <2>2. e.expires # 0 /\ e.expires < now
    BY <1>4, <2>1
  <2>3. f[k] \in {None, e}
    BY Zenon
  <2> HIDE DEF e, f
  <2> QED
    BY <2>2, <2>3, Zenon DEF Shown
<1>6. \A k \in Key : Shown(node'[k], now) = None
  <2>1. Shown(None, now) = None
    BY Zenon DEF Shown
  <2> QED
    BY <1>3, <1>5, <2>1, Zenon
<1>7. Map' = [k \in Key |-> None]
  BY <1>6, Zenon DEF Map
<1>8. PICK m : Partial(m) /\ m = Map'
  BY <1>7, LossStep, Zenon
<1>9. out'.op = "flush_all"
  BY <1>1 DEF Return, Answer
<1>10. Promise!Flush
  BY <1>7, <1>9, StoreForms, Zenon
<1>11. Moves(m)
  BY <1>10, Zenon DEF Moves
<1> QED
  BY <1>8, <1>11, StoreStep, Zenon

LEMMA FlushExpiredStep ==
    ASSUME IInv, IInv', now' = now, NEW n \in Attempts, flush_expired(n)
    PROVE  Promise!Next
<1>1. /\ node' = [k \in Key |-> IF k \in Oldest(Stale, n) THEN None ELSE node[k]]
      /\ out' = Return("flush_expired", None, TRUE, Cardinality(Oldest(Stale, n)), None)
  BY Zenon DEF flush_expired
<1>2. \A k \in Key : node'[k] \in {node[k], None}
  BY <1>1, Zenon
<1>3. \A k \in Key : Map'[k] \in {Map[k], None}
  BY <1>2, Zenon DEF Map, Shown
<1>4. PICK m : Partial(m) /\ m = Map'
  BY <1>3, LossStep, Zenon
<1>5. out'.op = "flush_expired"
  BY <1>1 DEF Return, Answer
<1>6. Promise!Lose(m)
  BY <1>4, <1>5, StoreForms, Zenon
<1>7. Moves(m)
  BY <1>6, Zenon DEF Moves
<1> QED
  BY <1>4, <1>7, StoreStep, Zenon

\* get_keys lists no key whose entry is due, so none that a get would not find.
LEMMA GetKeysStep ==
    ASSUME IInv, IInv', now' = now, NEW n \in Attempts, get_keys(n)
    PROVE  Promise!Next
<1> DEFINE listed == Oldest(Entries(queue) \ Stale, n)
<1>1. node' = node /\ out' = Return("get_keys", None, TRUE, listed, None)
  BY Zenon DEF get_keys
<1>2. Map' = Map
  BY <1>1, Zenon DEF Map
<1>3. PICK m : Partial(m) /\ m = Map'
  BY <1>2, LossStep, Zenon
<1>4. \A k \in listed : m[k] # None
  <2> SUFFICES ASSUME NEW k \in listed PROVE m[k] # None
    BY Zenon
  <2>1. k \in Entries(queue) /\ ~Dead(node[k])
    BY Zenon DEF Oldest, Stale
  <2>2. k \in Key /\ node[k] # None /\ node[k] \in Entry
    BY <2>1 DEF IInv, ZoneOK, Zone
  <2>3. node[k].expires \in Nat /\ now \in Nat
    BY <2>2 DEF Entry, IInv
  <2>4. ~(node[k].expires # 0 /\ node[k].expires < now)
    BY <2>1, <2>3 DEF Dead
  <2>5. Shown(node[k], now) # None
    BY <2>2, <2>4, ShownLemma, Zenon
  <2> QED
    BY <1>2, <1>3, <2>2, <2>5, Zenon DEF Map
<1>5. out'.op = "get_keys" /\ out'.val = listed
  BY <1>1 DEF Return, Answer
<1> HIDE DEF listed
<1>6. Promise!GetKeys(m)
  BY <1>3, <1>4, <1>5, StoreForms, Zenon
<1>7. Moves(m)
  BY <1>6, Zenon DEF Moves
<1> QED
  BY <1>3, <1>7, StoreStep, Zenon

\* As time passes, entries can only be lost.
LEMMA TickStep ==
    ASSUME IInv, IInv', Tick
    PROVE  Promise!Next
<1>1. node' = node /\ out' = out /\ now' = now + 1 /\ now \in Nat
  BY DEF Tick, IInv
<1>2. \A k \in Key : Shown(node[k], now') \in {Shown(node[k], now), None}
  <2> TAKE k \in Key
  <2>1. node[k] \in Entry \cup {None}
    BY DEF IInv, ZoneOK, Zone
  <2>2. CASE node[k] = None
    BY <2>2, Zenon DEF Shown
  <2>3. CASE node[k] # None
    <3>1. node[k].expires \in Nat
      BY <2>1, <2>3 DEF Entry
    <3>2. node[k].expires < now => node[k].expires < now'
      BY <1>1, <3>1
    <3> QED
      BY <2>3, <3>2, Zenon DEF Shown
  <2> QED
    BY <2>2, <2>3, Zenon
<1>3. \A k \in Key : Map'[k] \in {Map[k], None}
  BY <1>1, <1>2, Zenon DEF Map
<1>4. PICK m : Partial(m) /\ m = Map'
  BY <1>3, LossStep, Zenon
<1>5. Promise!Lose(m)
  BY <1>1, <1>4, StoreForms, Zenon
<1>6. Moves(m)
  BY <1>5, Zenon DEF Moves
<1> QED
  BY <1>4, <1>6, StoreStep, Zenon

LEMMA CallStep ==
    ASSUME IInv, IInv', now >= 2, now' = now, Call
    PROVE  Promise!Next
<1>1. CASE \E k \in Key, v \in Value, t \in Exptime :
              \/ set(k, v, t) \/ safe_set(k, v, t)
              \/ add(k, v, t) \/ safe_add(k, v, t)
              \/ replace(k, v, t)
  BY <1>1, SetStep, AddStep, ReplaceStep, Zenon
<1>2. CASE \E k \in Key : delete(k) \/ get(k) \/ get_stale(k)
  BY <1>2, DeleteStep, GetStep, GetStaleStep, Zenon
<1>3. CASE \E k \in Key, v \in Amount : incr(k, v)
  BY <1>3, IncrStep, Zenon
<1>4. CASE \E n \in Attempts : flush_expired(n) \/ get_keys(n)
  BY <1>4, FlushExpiredStep, GetKeysStep, Zenon
<1>5. CASE flush_all
  BY <1>5, FlushAllStep, Zenon
<1> QED
  BY <1>1, <1>2, <1>3, <1>4, <1>5, Zenon DEF Call

\* Whatever calls the workers make, with any keys, sizes and times to live,
\* the tree and the queue of the zone keep their types ...
THEOREM DictTypes == Spec => []TypeOK
<1>1. IInv => TypeOK
  BY DEF IInv, ZoneOK, Zone, TypeOK, Entry
<1>2. IInv /\ [Next]_vars => IInv'
  BY StepLemma
<1> QED
  BY <1>1, <1>2, InitLemma, PTL DEF Spec

\* ... and hold the same nodes, each once.
THEOREM DictConsistent == Spec => []TreeMatchesQueue
<1>1. IInv => TreeMatchesQueue
  BY DEF IInv, ZoneOK, Zone, TreeMatchesQueue
<1>2. IInv /\ [Next]_vars => IInv'
  BY StepLemma
<1> QED
  BY <1>1, <1>2, InitLemma, PTL DEF Spec

\* No live entry is lost without a word, for any number of rounds and any
\* capacity: not by the expiry that opens a call, not by safe_set, safe_add,
\* incr, delete or flush_expired, and by set, add and replace only when they
\* say forcible.
THEOREM DictLoss == Spec => LossIsReported
<1> DEFINE A == \A k \in Key :
          (node[k] # None /\ node'[k] = None /\ ~Dead(node[k]) /\ k # out'.key)
          => out'.op = "flush_all" \/ (out'.op \in {"set", "add", "replace"} /\ out'.forcible)
<1>1. IInv /\ [Next]_vars => [A]_vars
  <2> SUFFICES ASSUME IInv, [Next]_vars, vars' # vars PROVE A
    OBVIOUS
  <2>1. CASE Tick
    BY <2>1 DEF Tick
  <2>2. CASE Reported
    BY <2>2 DEF Reported, Spares
  <2> QED
    BY <2>1, <2>2, StepLemma
<1>2. IInv /\ [Next]_vars => IInv'
  BY StepLemma
<1> QED
  BY <1>1, <1>2, InitLemma, PTL DEF Spec, LossIsReported

\* Whatever happens, the dictionary keeps what Store promises: every call
\* answers as one atomic step on a map that holds what was stored last, from
\* which the code has at most lost entries (ngx_stream_lua_shdict.c).
THEOREM DictKeepsPromise == Spec => PromiseSpec
<1>1. Init => Ticking
  BY InitLemma DEF Init, Ticking
<1>2. Ticking /\ [Next]_vars => Ticking'
  <2> SUFFICES ASSUME IInv, now >= 2, [Next]_vars PROVE IInv' /\ now' >= 2
    BY DEF Ticking
  <2>1. IInv'
    BY StepLemma, Zenon
  <2>2. now' = now \/ now' = now + 1
    BY Zenon DEF Next, Tick, vars
  <2> QED
    BY <2>1, <2>2 DEF IInv
<1>3. Init => Promise!Init
  <2> SUFFICES ASSUME Init PROVE Promise!Init
    OBVIOUS
  <2>1. node = [k \in Key |-> None] /\ out = Return("none", None, TRUE, None, None)
    BY Zenon DEF Init
  <2>2. out.op = "none"
    BY <2>1 DEF Return, Answer
  <2> QED
    BY <2>1, <2>2, Zenon DEF Promise!Init
<1>4. Ticking /\ Ticking' /\ [Next]_vars => [Promise!Next]_(Promise!vars)
  <2> SUFFICES ASSUME IInv, now >= 2, IInv', [Next]_vars PROVE [Promise!Next]_(Promise!vars)
    BY Zenon DEF Ticking
  <2>1. CASE Call /\ UNCHANGED now
    BY <2>1, CallStep, Zenon
  <2>2. CASE Tick
    BY <2>2, TickStep, Zenon
  <2>3. CASE vars' = vars
    <3>1. node' = node /\ now' = now /\ out' = out
      BY <2>3, Zenon DEF vars
    <3> QED
      BY <3>1, Zenon DEF Promise!vars, Late
  <2> QED
    BY <2>1, <2>2, <2>3, Zenon DEF Next
<1> QED
  BY <1>1, <1>2, <1>3, <1>4, PTL DEF Spec, PromiseSpec, Promise!Spec
=============================================================================
