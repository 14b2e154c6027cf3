------------------------- MODULE KeepalivePool_proof -------------------------
(***************************************************************************)
(* Proofs about KeepalivePool, for any sets of socket objects, connections  *)
(* and pools, and any pool sizes.                                           *)
(***************************************************************************)
EXTENDS KeepalivePool, FiniteSetTheorems, TLAPS

-----------------------------------------------------------------------------
(* What the queue operations do to the entries, the length and the           *)
(* distinctness of a queue.                                                  *)

\* Inserting at the head adds one entry.
LEMMA PrependLemma ==
    ASSUME NEW S, NEW s \in Seq(S), NEW c \in S, Distinct(s), c \notin Entries(s)
    PROVE  /\ Prepend(c, s) \in Seq(S)
           /\ Len(Prepend(c, s)) = Len(s) + 1
           /\ Entries(Prepend(c, s)) = Entries(s) \cup {c}
           /\ Distinct(Prepend(c, s))
<1> DEFINE t == Prepend(c, s)
<1>1. /\ t \in Seq(S)
      /\ Len(t) = Len(s) + 1
      /\ t[1] = c
      /\ \A i \in 2 .. Len(t) : t[i] = s[i - 1]
  BY DEF Prepend
<1>2. DOMAIN s = 1 .. Len(s) /\ DOMAIN t = 1 .. Len(t) /\ Len(s) \in Nat
  BY <1>1
<1> HIDE DEF t
<1>3. Entries(t) = Entries(s) \cup {c}
  <2>1. Entries(t) \subseteq Entries(s) \cup {c}
    BY <1>1, <1>2 DEF Entries
  <2>2. ASSUME NEW x \in Entries(s) PROVE x \in Entries(t)
    <3>1. PICK i \in 1 .. Len(s) : x = s[i]
      BY <1>2 DEF Entries
    <3>2. i + 1 \in 2 .. Len(t) /\ t[i + 1] = s[i]
      BY <1>1, <1>2, <3>1
    <3> QED
      BY <1>2, <3>1, <3>2 DEF Entries
  <2>3. c \in Entries(t)
    BY <1>1, <1>2 DEF Entries
  <2> QED
    BY <2>1, <2>2, <2>3
<1>4. Distinct(t)
  <2> SUFFICES ASSUME NEW i \in 1 .. Len(t), NEW j \in 1 .. Len(t), t[i] = t[j], i < j
               PROVE  FALSE
    BY <1>1, <1>2 DEF Distinct
  <2>1. t[j] = s[j - 1] /\ j - 1 \in 1 .. Len(s)
    BY <1>1, <1>2
  <2>2. CASE i = 1
    BY <1>1, <1>2, <2>1, <2>2 DEF Entries
  <2>3. CASE i # 1
    <3>1. t[i] = s[i - 1] /\ i - 1 \in 1 .. Len(s)
      BY <1>1, <1>2, <2>3
    <3> QED
      BY <1>2, <2>1, <3>1 DEF Distinct
  <2> QED
    BY <2>2, <2>3
<1> QED
  BY <1>1, <1>3, <1>4 DEF t

\* Taking out the item at any position removes exactly that entry.
LEMMA WithoutLemma ==
    ASSUME NEW S, NEW s \in Seq(S), NEW k \in DOMAIN s, Distinct(s)
    PROVE  /\ Without(s, k) \in Seq(S)
           /\ Len(Without(s, k)) = Len(s) - 1
           /\ Entries(Without(s, k)) = Entries(s) \ {s[k]}
           /\ Distinct(Without(s, k))
<1> DEFINE t == Without(s, k)
<1>1. k \in 1 .. Len(s) /\ DOMAIN s = 1 .. Len(s) /\ Len(s) \in Nat
  OBVIOUS
<1>2. /\ t \in Seq(S)
      /\ Len(t) = Len(s) - 1
      /\ \A i \in 1 .. k - 1 : t[i] = s[i]
      /\ \A i \in k .. Len(t) : t[i] = s[i + 1]
  <2>1. /\ SubSeq(s, 1, k - 1) \in Seq(S)
        /\ Len(SubSeq(s, 1, k - 1)) = k - 1
        /\ \A i \in 1 .. k - 1 : SubSeq(s, 1, k - 1)[i] = s[i]
    BY <1>1
  <2>2. /\ SubSeq(s, k + 1, Len(s)) \in Seq(S)
        /\ Len(SubSeq(s, k + 1, Len(s))) = Len(s) - k
        /\ \A i \in 1 .. Len(s) - k : SubSeq(s, k + 1, Len(s))[i] = s[k + i]
    BY <1>1
  <2> DEFINE a == SubSeq(s, 1, k - 1)
             b == SubSeq(s, k + 1, Len(s))
  <2>3. t = a \o b
    BY DEF Without
  <2> HIDE DEF a, b, t
  <2>4. /\ t \in Seq(S)
        /\ Len(t) = Len(a) + Len(b)
        /\ \A i \in 1 .. Len(t) : t[i] = IF i <= Len(a) THEN a[i] ELSE b[i - Len(a)]
    <3>1. a \in Seq(S) /\ b \in Seq(S)
      BY <2>1, <2>2 DEF a, b
    <3> QED
      BY <2>3, <3>1
  <2>5. Len(a) = k - 1 /\ Len(b) = Len(s) - k
    BY <2>1, <2>2 DEF a, b
  <2>6. \A i \in 1 .. k - 1 : t[i] = s[i]
    BY <1>1, <2>1, <2>4, <2>5 DEF a
  <2>7. ASSUME NEW i \in k .. Len(t) PROVE t[i] = s[i + 1]
    <3>1. t[i] = b[i - (k - 1)] /\ i - (k - 1) \in 1 .. Len(s) - k
      BY <1>1, <2>4, <2>5
    <3>2. b[i - (k - 1)] = s[k + (i - (k - 1))]
      BY <2>2, <3>1 DEF b
    <3> QED
      BY <1>1, <3>1, <3>2
  <2> QED
    BY <1>1, <2>4, <2>5, <2>6, <2>7
<1>3. DOMAIN t = 1 .. Len(t)
  BY <1>2
<1> HIDE DEF t
<1>4. Entries(t) = Entries(s) \ {s[k]}
  <2>1. ASSUME NEW i \in 1 .. Len(t) PROVE t[i] \in Entries(s) \ {s[k]}
    <3>1. CASE i < k
      BY <1>1, <1>2, <2>1, <3>1 DEF Entries, Distinct
    <3>2. CASE i >= k
      <4>1. i \in k .. Len(t) /\ i + 1 \in 1 .. Len(s) /\ i + 1 # k
        BY <1>1, <1>2, <2>1, <3>2
      <4>2. t[i] = s[i + 1]
        BY <1>2, <4>1
      <4>3. s[i + 1] \in Entries(s) /\ s[i + 1] # s[k]
        BY <1>1, <4>1 DEF Entries, Distinct
      <4> QED
        BY <4>2, <4>3
    <3> QED
      BY <1>1, <1>2, <3>1, <3>2
  <2>2. ASSUME NEW j \in 1 .. Len(s), j # k PROVE s[j] \in Entries(t)
    <3>1. CASE j < k
      BY <1>1, <1>2, <1>3, <2>2, <3>1 DEF Entries
    <3>2. CASE j > k
      <4>1. j - 1 \in k .. Len(t) /\ t[j - 1] = s[j]
        BY <1>1, <1>2, <2>2, <3>2
      <4> QED
        BY <1>1, <1>2, <1>3, <4>1 DEF Entries
    <3> QED
      BY <1>1, <2>2, <3>1, <3>2
  <2> QED
    BY <1>1, <1>3, <2>1, <2>2 DEF Entries
<1>5. Distinct(t)
  <2> SUFFICES ASSUME NEW i \in 1 .. Len(t), NEW j \in 1 .. Len(t), t[i] = t[j], i < j
               PROVE  FALSE
    BY <1>2, <1>3 DEF Distinct
  <2> DEFINE o(m) == IF m < k THEN m ELSE m + 1
  <2>1. ASSUME NEW m \in 1 .. Len(t) PROVE t[m] = s[o(m)] /\ o(m) \in 1 .. Len(s)
    <3>1. CASE m < k
      BY <1>1, <1>2, <3>1
    <3>2. CASE ~(m < k)
      <4>1. m \in k .. Len(t)
        BY <1>1, <1>2, <3>2
      <4> QED
        BY <1>1, <1>2, <3>2, <4>1
    <3> QED
      BY <3>1, <3>2
  <2>2. o(i) # o(j)
    BY <1>1, <1>2
  <2> HIDE DEF o
  <2> QED
    BY <1>1, <2>1, <2>2 DEF Distinct
<1> QED
  BY <1>2, <1>4, <1>5 DEF t

\* Taking the head, the way get_keepalive_peer does.
LEMMA TailLemma ==
    ASSUME NEW S, NEW s \in Seq(S), s # <<>>, Distinct(s)
    PROVE  /\ Tail(s) \in Seq(S)
           /\ Len(Tail(s)) = Len(s) - 1
           /\ Entries(Tail(s)) = Entries(s) \ {Head(s)}
           /\ Distinct(Tail(s))
           /\ Head(s) \in Entries(s)
<1>1. 1 \in DOMAIN s /\ Head(s) = s[1]
  OBVIOUS
<1>2. Tail(s) = Without(s, 1)
  <2> DEFINE w == Without(s, 1)
  <2>1. w \in Seq(S) /\ Len(w) = Len(s) - 1
    BY <1>1, WithoutLemma
  <2>2. \A i \in 1 .. Len(s) - 1 : w[i] = s[i + 1]
    BY <1>1 DEF Without
  <2> HIDE DEF w
  <2>3. /\ Tail(s) \in Seq(S)
        /\ Len(Tail(s)) = Len(s) - 1
        /\ \A i \in 1 .. Len(s) - 1 : Tail(s)[i] = s[i + 1]
    OBVIOUS
  <2> QED
    BY <2>1, <2>2, <2>3 DEF w
<1>3. /\ Without(s, 1) \in Seq(S)
      /\ Len(Without(s, 1)) = Len(s) - 1
      /\ Entries(Without(s, 1)) = Entries(s) \ {s[1]}
      /\ Distinct(Without(s, 1))
  BY <1>1, WithoutLemma
<1>4. s[1] \in Entries(s)
  BY <1>1 DEF Entries
<1> QED
  BY <1>1, <1>2, <1>3, <1>4

\* Dropping the last item, the eviction of setkeepalive.
LEMMA ButLastLemma ==
    ASSUME NEW S, NEW s \in Seq(S), s # <<>>, Distinct(s)
    PROVE  /\ ButLast(s) \in Seq(S)
           /\ Len(ButLast(s)) = Len(s) - 1
           /\ Entries(ButLast(s)) = Entries(s) \ {Last(s)}
           /\ Distinct(ButLast(s))
           /\ Last(s) \in Entries(s)
<1>1. Len(s) \in DOMAIN s /\ Last(s) = s[Len(s)]
  BY DEF Last
<1>2. ButLast(s) = Without(s, Len(s))
  <2>1. SubSeq(s, Len(s) + 1, Len(s)) = <<>>
    OBVIOUS
  <2>2. SubSeq(s, 1, Len(s) - 1) \in Seq(S)
    OBVIOUS
  <2> QED
    BY <2>1, <2>2 DEF ButLast, Without
<1>3. /\ Without(s, Len(s)) \in Seq(S)
      /\ Len(Without(s, Len(s))) = Len(s) - 1
      /\ Entries(Without(s, Len(s))) = Entries(s) \ {s[Len(s)]}
      /\ Distinct(Without(s, Len(s)))
  BY <1>1, WithoutLemma
<1>4. s[Len(s)] \in Entries(s)
  BY <1>1 DEF Entries
<1> QED
  BY <1>1, <1>2, <1>3, <1>4

-----------------------------------------------------------------------------
(* The sets of the invariant, and how steps change them.                    *)

\* Borrowed connections are countable.
LEMMA BorrowedFinite ==
    ASSUME NEW u \in Upstream
    PROVE  /\ IsFiniteSet(Borrowed)
           /\ Cardinality(Borrowed) \in Nat
           /\ Cardinality(Borrowed \ {u}) =
                IF u \in Borrowed THEN Cardinality(Borrowed) - 1 ELSE Cardinality(Borrowed)
           /\ Cardinality(Borrowed \cup {u}) =
                IF u \in Borrowed THEN Cardinality(Borrowed) ELSE Cardinality(Borrowed) + 1
<1>1. IsFiniteSet(Borrowed)
  BY PoolAssumption, FS_Subset DEF Borrowed, InUse
<1> QED
  BY <1>1, FS_CardinalityType, FS_RemoveElement, FS_AddElement

\* Without a registered pool nothing is borrowed.
LEMMA NothingBorrowed ==
    ASSUME TypeOK, NoDanglingPool, registry = NoPool
    PROVE  Borrowed = {} /\ Cardinality(Borrowed) = 0
<1>1. Borrowed = {}
  BY PoolAssumption DEF NoDanglingPool, TypeOK
<1> QED
  BY <1>1, FS_EmptySet

\* What setkeepalive leaves in the queues before it decides about the connection.
LEMMA MakeRoom ==
    ASSUME IInv, NEW u \in Upstream, NEW p \in Pool, NEW n \in PoolSizes,
           connection[u] # NoConn, IsTarget(p)
    PROVE  /\ Kept(p, n) \in Seq(Conn)
           /\ Distinct(Kept(p, n))
           /\ Evicted(p, n) \subseteq Idle
           /\ Entries(Kept(p, n)) = Idle \ Evicted(p, n)
           /\ FreeLeft(p, n) \in Nat
           /\ Len(Kept(p, n)) + 1 + FreeLeft(p, n) = IF p = registry THEN size[p] ELSE n
           /\ ActiveAfter(p, n, u) = Len(Kept(p, n)) + 1 + Cardinality(Borrowed \ {u})
<1> USE DEF IInv
<1>0. n \in Nat /\ n # 0 /\ n \in Int
  BY PoolAssumption
<1>1. CASE registry = NoPool
  <2>1. p # registry
    BY <1>1, PoolAssumption
  <2>2. /\ Queue0(p) = <<>> /\ Free0(p, n) = n /\ Active0(p) = 0 /\ ~Full(p, n)
    BY <2>1, <1>0 DEF Queue0, Free0, Active0, Full
  <2>3. Borrowed = {} /\ ~reused[u]
    BY <1>1, NothingBorrowed DEF Borrowed, InUse
  <2>4. Cardinality(Borrowed \ {u}) = 0
    BY <2>3, FS_EmptySet
  <2>5. Kept(p, n) = <<>> /\ Evicted(p, n) = {} /\ FreeLeft(p, n) = n - 1
    BY <2>2 DEF Kept, Evicted, FreeLeft
  <2>6. ActiveAfter(p, n, u) = 1
    BY <2>2, <2>3 DEF ActiveAfter
  <2>7. Idle = {} /\ Entries(<<>>) = {} /\ Distinct(<<>>) /\ <<>> \in Seq(Conn) /\ Len(<<>>) = 0
    BY <1>1 DEF Idle, Entries, Distinct
  <2> QED
    BY <1>0, <2>1, <2>4, <2>5, <2>6, <2>7
<1>2. CASE registry # NoPool
  <2> DEFINE s == cache[p]
  <2>1. p = registry
    BY <1>2 DEF IsTarget
  <2>2. /\ s \in Seq(Conn) /\ Distinct(s) /\ Idle = Entries(s) /\ Len(s) \in Nat
        /\ free[p] \in Nat /\ size[p] \in Nat /\ active[p] \in Int
        /\ Len(s) + free[p] = size[p]
        /\ active[p] = Len(s) + Cardinality(Borrowed)
    BY <1>2, <2>1 DEF TypeOK, SoleOwner, ActiveExact, Idle
  <2>3. /\ Queue0(p) = s /\ Free0(p, n) = free[p] /\ Active0(p) = active[p]
    BY <2>1 DEF Queue0, Free0, Active0
  <2>4. Full(p, n) <=> free[p] = 0
    BY <2>3 DEF Full
  <2>5. u \in Borrowed <=> reused[u]
    BY DEF Borrowed, InUse
  <2>6. /\ Cardinality(Borrowed) \in Nat
        /\ Cardinality(Borrowed \ {u}) = Cardinality(Borrowed) - (IF reused[u] THEN 1 ELSE 0)
    <3>1. /\ Cardinality(Borrowed) \in Nat
          /\ u \in Borrowed => Cardinality(Borrowed \ {u}) = Cardinality(Borrowed) - 1
          /\ u \notin Borrowed => Cardinality(Borrowed \ {u}) = Cardinality(Borrowed)
      BY BorrowedFinite
    <3> HIDE DEF IInv
    <3>2. CASE reused[u]
      BY <2>5, <3>1, <3>2
    <3>3. CASE ~reused[u]
      BY <2>5, <3>1, <3>3
    <3> QED
      BY <3>2, <3>3
  <2>7. CASE free[p] # 0
    <3>1. Kept(p, n) = s /\ Evicted(p, n) = {} /\ FreeLeft(p, n) = free[p] - 1
      BY <2>3, <2>4, <2>7 DEF Kept, Evicted, FreeLeft
    <3>2. ActiveAfter(p, n, u) = active[p] + (IF reused[u] THEN 0 ELSE 1)
      BY <2>2, <2>3, <2>4, <2>7 DEF ActiveAfter
    <3> HIDE DEF s
    <3> QED
      BY <2>1, <2>2, <2>6, <2>7, <3>1, <3>2
  <2>8. CASE free[p] = 0
    <3>1. s # <<>>
      <4>1. size[p] > 0
        BY <1>2, <2>1
      <4> QED
        BY <4>1, <2>2, <2>8
    <3>2. Kept(p, n) = ButLast(s) /\ Evicted(p, n) = {Last(s)} /\ FreeLeft(p, n) = 0
      BY <2>3, <2>4, <2>8 DEF Kept, Evicted, FreeLeft
    <3>3. ActiveAfter(p, n, u) = active[p] - 1 + (IF reused[u] THEN 0 ELSE 1)
      BY <2>2, <2>3, <2>4, <2>8 DEF ActiveAfter
    <3>4. /\ ButLast(s) \in Seq(Conn)
          /\ Len(ButLast(s)) = Len(s) - 1
          /\ Entries(ButLast(s)) = Entries(s) \ {Last(s)}
          /\ Distinct(ButLast(s))
          /\ Last(s) \in Entries(s)
      BY <2>2, <3>1, ButLastLemma
    <3> HIDE DEF s
    <3> QED
      BY <2>1, <2>2, <2>6, <2>8, <3>2, <3>3, <3>4
  <2> QED
    BY <2>2, <2>7, <2>8
<1> QED
  BY <1>1, <1>2

-----------------------------------------------------------------------------
(* Each action preserves the inductive invariant.                           *)

\* connect() opening a new connection.
LEMMA ConnectFreshStep ==
    ASSUME IInv, NEW u \in Upstream, NEW c \in Conn, ConnectFresh(u, c)
    PROVE  IInv' /\ Idle' = Idle
<1> USE DEF IInv
<1>1. TypeOK'
  BY DEF TypeOK, ConnectFresh, poolVars, Receive
<1>2. /\ u \notin InUse /\ InUse' = InUse \cup {u}
      /\ connection'[u] = c /\ \A v \in InUse : connection'[v] = connection[v]
      /\ Held' = Held \cup {c} /\ Idle' = Idle /\ Borrowed' = Borrowed
  <2>1. c # NoConn
    BY PoolAssumption
  <2>2. u \notin InUse /\ InUse' = InUse \cup {u}
    BY <2>1 DEF InUse, ConnectFresh, TypeOK
  <2>3. connection'[u] = c /\ \A v \in InUse : connection'[v] = connection[v]
    BY <2>2 DEF InUse, ConnectFresh, TypeOK
  <2>4. ~reused'[u] /\ \A v \in InUse : reused'[v] = reused[v]
    BY <2>2 DEF InUse, ConnectFresh, TypeOK
  <2>5. Held' = Held \cup {c}
    BY <2>2, <2>3 DEF Held
  <2>6. Borrowed' = Borrowed
    BY <2>2, <2>4 DEF Borrowed
  <2>7. Idle' = Idle
    BY DEF Idle, ConnectFresh, poolVars
  <2> QED
    BY <2>2, <2>3, <2>5, <2>6, <2>7
<1>3. SoleOwner'
  <2>1. c \notin Held /\ c \notin Idle
    BY DEF ConnectFresh, SoleOwner
  <2>2. \A v, w \in InUse' : connection'[v] = connection'[w] => v = w
    BY <1>2, <2>1 DEF SoleOwner, Held
  <2>3. Held' \cap Idle' = {} /\ open' = Held' \cup Idle'
    BY <1>2, <2>1 DEF SoleOwner, ConnectFresh
  <2> QED
    BY <2>2, <2>3 DEF SoleOwner, ConnectFresh, poolVars
<1>4. ActiveExact'
  BY <1>2 DEF ActiveExact, ConnectFresh, poolVars
<1>5. NoDanglingPool'
  BY <1>2 DEF NoDanglingPool, ConnectFresh, poolVars, TypeOK, Borrowed
<1>6. UnregisteredEmpty' /\ (registry' # NoPool => registry' \in live' /\ size'[registry'] > 0)
  BY DEF UnregisteredEmpty, ConnectFresh, poolVars
<1> QED
  BY <1>1, <1>2, <1>3, <1>4, <1>5, <1>6

\* connect() served from the cache.
LEMMA GetKeepalivePeerStep ==
    ASSUME IInv, NEW u \in Upstream, GetKeepalivePeer(u)
    PROVE  /\ IInv'
           /\ Head(cache[registry]) \in Idle
           /\ Idle' = Idle \ {Head(cache[registry])}
<1> USE DEF IInv
<1> DEFINE s == cache[registry]
           c == Head(s)
<1>1. /\ registry \in Pool /\ s \in Seq(Conn) /\ s # <<>> /\ Distinct(s) /\ Idle = Entries(s)
      /\ registry' = registry /\ registry # NoPool
  BY DEF GetKeepalivePeer, TypeOK, SoleOwner, Idle
<1>2. /\ Tail(s) \in Seq(Conn)
      /\ Len(Tail(s)) = Len(s) - 1
      /\ Entries(Tail(s)) = Entries(s) \ {c}
      /\ Distinct(Tail(s))
      /\ c \in Entries(s)
  BY <1>1, TailLemma
<1>3. c \in Conn /\ c # NoConn
  BY <1>1, PoolAssumption
<1> HIDE DEF c
<1>4. /\ cache' = [cache EXCEPT ![registry] = Tail(s)]
      /\ connection' = [connection EXCEPT ![u] = c]
  BY DEF GetKeepalivePeer, c
<1>5. TypeOK'
  BY <1>1, <1>2, <1>3, <1>4 DEF TypeOK, GetKeepalivePeer
<1>6. cache'[registry] = Tail(s) /\ \A p \in Pool \ {registry} : cache'[p] = cache[p]
  BY <1>1, <1>4 DEF TypeOK
<1>7. /\ u \notin InUse /\ InUse' = InUse \cup {u}
      /\ connection'[u] = c /\ \A v \in InUse : connection'[v] = connection[v]
  BY <1>3, <1>4 DEF InUse, GetKeepalivePeer, TypeOK
<1>8. reused'[u] /\ \A v \in InUse : reused'[v] = reused[v]
  BY <1>7 DEF InUse, GetKeepalivePeer, TypeOK
<1>9. Held' = Held \cup {c} /\ Borrowed' = Borrowed \cup {u} /\ u \notin Borrowed
  BY <1>7, <1>8 DEF Held, Borrowed
<1>10. Idle' = Idle \ {c} /\ c \in Idle /\ registry' = registry /\ registry # NoPool
  BY <1>1, <1>2, <1>6 DEF Idle, GetKeepalivePeer
<1>11. SoleOwner'
  <2>1. c \notin Held
    BY <1>10 DEF SoleOwner
  <2>2. \A v, w \in InUse' : connection'[v] = connection'[w] => v = w
    BY <1>7, <2>1 DEF SoleOwner, Held
  <2>3. Held' \cap Idle' = {} /\ open' = Held' \cup Idle'
    BY <1>9, <1>10, <2>1 DEF SoleOwner, GetKeepalivePeer
  <2> QED
    BY <1>2, <1>6, <1>10, <2>2, <2>3 DEF SoleOwner
<1>12. ActiveExact'
  <2>1. Cardinality(Borrowed') = Cardinality(Borrowed) + 1 /\ Cardinality(Borrowed) \in Nat
    BY <1>9, BorrowedFinite
  <2>2. /\ active'[registry] = active[registry] /\ size'[registry] = size[registry]
        /\ free'[registry] = free[registry] + 1
    BY <1>1 DEF GetKeepalivePeer, TypeOK
  <2>4. /\ active[registry] = Len(s) + Cardinality(Borrowed) /\ active[registry] > 0
        /\ Len(s) + free[registry] = size[registry]
    BY <1>1 DEF ActiveExact
  <2>5. cache'[registry'] = Tail(s) /\ Len(Tail(s)) = Len(s) - 1
    BY <1>1, <1>2, <1>6
  <2>3. Len(s) \in Nat /\ active[registry] \in Int /\ free[registry] \in Nat /\ size[registry] \in Nat
    BY <1>1 DEF TypeOK
  <2> QED
    <3> HIDE DEF s, IInv
    <3>1. active'[registry] = Len(Tail(s)) + Cardinality(Borrowed')
      <4> DEFINE b == Cardinality(Borrowed)
                 b1 == Cardinality(Borrowed')
                 len1 == Len(Tail(s))
      <4>1. b1 = b + 1 /\ b \in Nat /\ len1 = Len(s) - 1 /\ active'[registry] = Len(s) + b
        BY <2>1, <2>2, <2>4, <2>5
      <4> HIDE DEF b, b1, len1
      <4>2. active'[registry] = len1 + b1
        BY <2>3, <4>1
      <4> QED
        BY <4>2 DEF b1, len1
    <3>2. Len(Tail(s)) + free'[registry] = size'[registry]
      BY <2>2, <2>3, <2>4, <2>5
    <3> QED
      BY <1>1, <2>2, <2>4, <2>5, <3>1, <3>2 DEF ActiveExact
<1>13. NoDanglingPool'
  BY <1>9, <1>10 DEF NoDanglingPool, GetKeepalivePeer, TypeOK, Borrowed, InUse
<1>14. UnregisteredEmpty' /\ (registry' # NoPool => registry' \in live' /\ size'[registry'] > 0)
  BY <1>6 DEF UnregisteredEmpty, GetKeepalivePeer
<1> QED
  BY <1>5, <1>10, <1>11, <1>12, <1>13, <1>14 DEF c

\* What a socket object giving up its connection does to the sets.
LEMMA Release ==
    ASSUME IInv, NEW u \in Upstream, connection[u] # NoConn,
           connection' = [connection EXCEPT ![u] = NoConn], reused' = reused
    PROVE  /\ u \in InUse /\ InUse' = InUse \ {u}
           /\ \A v \in InUse' : connection'[v] = connection[v]
           /\ connection[u] \in Held /\ Held' = Held \ {connection[u]}
           /\ connection[u] \notin Idle /\ connection[u] \in Conn
           /\ Borrowed' = Borrowed \ {u}
           /\ \A v, w \in InUse' : connection'[v] = connection'[w] => v = w
<1> USE DEF IInv
<1>1. u \in InUse /\ InUse' = InUse \ {u} /\ \A v \in InUse' : connection'[v] = connection[v]
  BY DEF InUse, TypeOK
<1>2. connection[u] \in Held /\ connection[u] \notin Idle /\ connection[u] \in Conn
  BY <1>1 DEF Held, SoleOwner, TypeOK
<1>3. Held' = Held \ {connection[u]}
  BY <1>1 DEF Held, SoleOwner
<1>4. Borrowed' = Borrowed \ {u}
  BY <1>1 DEF Borrowed
<1>5. \A v, w \in InUse' : connection'[v] = connection'[w] => v = w
  BY <1>1 DEF SoleOwner
<1> QED
  BY <1>1, <1>2, <1>3, <1>4, <1>5

\* setkeepalive() parking the connection.
LEMMA SetKeepaliveStep ==
    ASSUME IInv, NEW u \in Upstream, NEW p \in Pool, NEW n \in PoolSizes, SetKeepalive(u, p, n)
    PROVE  /\ IInv'
           /\ Evicted(p, n) \subseteq Idle
           /\ Idle' = (Idle \ Evicted(p, n)) \cup {connection[u]}
<1> USE DEF IInv
<1> DEFINE c == connection[u]
           k == Kept(p, n)
           e == Evicted(p, n)
           f == FreeLeft(p, n)
           a == ActiveAfter(p, n, u)
           z == IF p = registry THEN size[p] ELSE n
<1>1. /\ connection[u] # NoConn /\ IsTarget(p) /\ p # NoPool
      /\ connection' = [connection EXCEPT ![u] = NoConn] /\ reused' = reused
      /\ registry' = p /\ live' = live \cup {p}
  BY PoolAssumption DEF SetKeepalive, SetKeepaliveCommon
<1>2. /\ k \in Seq(Conn) /\ Distinct(k) /\ e \subseteq Idle /\ Entries(k) = Idle \ e
      /\ f \in Nat /\ Len(k) + 1 + f = z /\ a = Len(k) + 1 + Cardinality(Borrowed \ {u})
  BY <1>1, MakeRoom
<1>3. /\ u \in InUse /\ InUse' = InUse \ {u} /\ c \in Held /\ Held' = Held \ {c}
      /\ c \notin Idle /\ c \in Conn /\ Borrowed' = Borrowed \ {u}
      /\ \A v, w \in InUse' : connection'[v] = connection'[w] => v = w
  BY <1>1, Release
<1>4. /\ Prepend(c, k) \in Seq(Conn) /\ Len(Prepend(c, k)) = Len(k) + 1
      /\ Entries(Prepend(c, k)) = Entries(k) \cup {c} /\ Distinct(Prepend(c, k))
  BY <1>2, <1>3, PrependLemma
<1>5. Cardinality(Borrowed \ {u}) \in Nat /\ Len(k) \in Nat /\ z \in Nat /\ z > 0
  <2>1. Cardinality(Borrowed \ {u}) \in Nat
    <3>1. IsFiniteSet(Borrowed \ {u})
      BY BorrowedFinite, FS_RemoveElement
    <3> QED
      BY <3>1, FS_CardinalityType
  <2> QED
    BY <1>1, <1>2, <2>1, PoolAssumption DEF TypeOK
<1>6. /\ cache' = [cache EXCEPT ![p] = Prepend(c, k)] /\ free' = [free EXCEPT ![p] = f]
      /\ active' = [active EXCEPT ![p] = a] /\ size' = [size EXCEPT ![p] = z]
      /\ open' = open \ e
  BY DEF SetKeepalive, SetKeepaliveCommon
<1>7. UNCHANGED <<reused, socket_pool, rcv>> /\ valid' = [valid EXCEPT ![u] = FALSE]
  BY DEF SetKeepalive, SetKeepaliveCommon
<1> HIDE DEF c, k, e, f, a, z
<1>8. a \in Int /\ a > 0
  BY <1>2, <1>5
<1>9. TypeOK'
  BY <1>1, <1>2, <1>4, <1>5, <1>6, <1>7, <1>8 DEF TypeOK
<1>10. /\ cache'[p] = Prepend(c, k) /\ \A q \in Pool \ {p} : cache'[q] = cache[q]
       /\ free'[p] = f /\ active'[p] = a /\ size'[p] = z
  BY <1>6 DEF TypeOK
<1>11. Idle' = (Idle \ e) \cup {c}
  BY <1>1, <1>2, <1>4, <1>10 DEF Idle
<1>12. SoleOwner'
  <2>1. Held' \cap Idle' = {} /\ open' = Held' \cup Idle'
    <3>1. Held \cap Idle = {} /\ open = Held \cup Idle
      BY DEF SoleOwner
    <3> HIDE DEF IInv
    <3> QED
      BY <1>2, <1>3, <1>6, <1>11, <3>1
  <2> QED
    BY <1>1, <1>3, <1>4, <1>10, <2>1 DEF SoleOwner
<1>13. ActiveExact'
  BY <1>1, <1>2, <1>3, <1>4, <1>5, <1>8, <1>10 DEF ActiveExact
<1>14. NoDanglingPool'
  <2>1. CASE registry = NoPool
    BY <1>3, <2>1, NothingBorrowed DEF NoDanglingPool
  <2>2. CASE registry # NoPool
    BY <1>1, <1>3, <1>7, <2>2 DEF NoDanglingPool, IsTarget
  <2> QED
    BY <2>1, <2>2
<1>15. UnregisteredEmpty'
  BY <1>1, <1>10, PoolAssumption DEF UnregisteredEmpty, IsTarget
<1> QED
  BY <1>1, <1>2, <1>5, <1>9, <1>10, <1>11, <1>12, <1>13, <1>14, <1>15 DEF c, e

\* setkeepalive() finding the connection readable and closing it.
LEMMA SetKeepaliveDubiousStep ==
    ASSUME IInv, NEW u \in Upstream, NEW p \in Pool, NEW n \in PoolSizes,
           SetKeepaliveDubious(u, p, n)
    PROVE  /\ IInv'
           /\ Evicted(p, n) \subseteq Idle
           /\ Idle' = Idle \ Evicted(p, n)
<1> USE DEF IInv
<1> DEFINE c == connection[u]
           k == Kept(p, n)
           e == Evicted(p, n)
           f == FreeLeft(p, n)
           a == ActiveAfter(p, n, u)
           z == IF p = registry THEN size[p] ELSE n
           b == Cardinality(Borrowed \ {u})
<1>1. /\ connection[u] # NoConn /\ IsTarget(p) /\ p # NoPool
      /\ connection' = [connection EXCEPT ![u] = NoConn] /\ reused' = reused
      /\ registry' = IF a - 1 = 0 THEN NoPool ELSE p
      /\ live' = live \cup {p}
  BY PoolAssumption DEF SetKeepaliveDubious, SetKeepaliveCommon, FreePoolAtZero
<1>2. /\ k \in Seq(Conn) /\ Distinct(k) /\ e \subseteq Idle /\ Entries(k) = Idle \ e
      /\ f \in Nat /\ Len(k) + 1 + f = z /\ a = Len(k) + 1 + b
  BY <1>1, MakeRoom
<1>3. /\ u \in InUse /\ InUse' = InUse \ {u} /\ c \in Held /\ Held' = Held \ {c}
      /\ c \notin Idle /\ c \in Conn /\ Borrowed' = Borrowed \ {u}
      /\ \A v, w \in InUse' : connection'[v] = connection'[w] => v = w
  BY <1>1, Release
<1>4. b \in Nat /\ (b = 0 => Borrowed \ {u} = {})
  <2>1. IsFiniteSet(Borrowed \ {u})
    BY BorrowedFinite, FS_RemoveElement
  <2> QED
    BY <2>1, FS_CardinalityType, FS_EmptySet
<1>5. Len(k) \in Nat /\ z \in Nat /\ z > 0
  BY <1>1, <1>2, PoolAssumption DEF TypeOK
<1>6. /\ cache' = [cache EXCEPT ![p] = k] /\ free' = [free EXCEPT ![p] = f + 1]
      /\ active' = [active EXCEPT ![p] = a - 1] /\ size' = [size EXCEPT ![p] = z]
      /\ open' = open \ (e \cup {c})
  BY DEF SetKeepaliveDubious, SetKeepaliveCommon
<1>7. UNCHANGED <<reused, socket_pool, rcv, valid>>
  BY DEF SetKeepaliveDubious, SetKeepaliveCommon
<1>8. b = Cardinality(Borrowed')
  BY <1>3
<1> HIDE DEF c, k, e, f, a, z, b
<1>9. a \in Int /\ a - 1 \in Int /\ a - 1 = Len(k) + b /\ a - 1 >= 0
  BY <1>2, <1>4, <1>5
<1>10. TypeOK'
  <2>1. f + 1 \in Nat
    BY <1>2
  <2>2. /\ cache' \in [Pool -> Seq(Conn)] /\ free' \in [Pool -> Nat]
        /\ active' \in [Pool -> Int] /\ size' \in [Pool -> Nat]
    BY <1>2, <1>5, <1>6, <1>9, <2>1 DEF TypeOK
  <2>3. registry' \in Pool \cup {NoPool} /\ live' \subseteq Pool /\ open' \subseteq Conn
    BY <1>1, <1>6 DEF TypeOK
  <2>4. connection' \in [Upstream -> Conn \cup {NoConn}]
    BY <1>1 DEF TypeOK
  <2> QED
    BY <1>7, <2>2, <2>3, <2>4 DEF TypeOK
<1>11. /\ cache'[p] = k /\ \A q \in Pool \ {p} : cache'[q] = cache[q]
       /\ free'[p] = f + 1 /\ active'[p] = a - 1 /\ size'[p] = z
  BY <1>6 DEF TypeOK
<1>12. registry' = NoPool => k = <<>> /\ Borrowed' = {} /\ Entries(k) = {}
  <2>1. registry' = NoPool => Len(k) = 0 /\ b = 0
    BY <1>1, <1>4, <1>5, <1>9
  <2> QED
    BY <1>2, <1>3, <1>4, <2>1 DEF Entries
<1>13. Idle' = Idle \ e
  BY <1>1, <1>2, <1>11, <1>12 DEF Idle
<1>14. SoleOwner'
  <2>1. Held' \cap Idle' = {} /\ open' = Held' \cup Idle'
    <3>1. Held \cap Idle = {} /\ open = Held \cup Idle
      BY DEF SoleOwner
    <3> HIDE DEF IInv
    <3> QED
      BY <1>2, <1>3, <1>6, <1>13, <3>1
  <2> QED
    BY <1>1, <1>2, <1>3, <1>11, <2>1 DEF SoleOwner
<1>15. ActiveExact'
  <2>1. registry' # NoPool => registry' = p /\ a - 1 > 0
    BY <1>1, <1>9
  <2>2. Len(k) + (f + 1) = z
    BY <1>2, <1>5
  <2> QED
    BY <1>8, <1>9, <1>11, <2>1, <2>2 DEF ActiveExact
<1>16. NoDanglingPool'
  <2>1. CASE registry = NoPool
    BY <1>3, <2>1, NothingBorrowed DEF NoDanglingPool
  <2>2. CASE registry # NoPool
    BY <1>1, <1>3, <1>7, <1>12, <2>2 DEF NoDanglingPool, IsTarget
  <2> QED
    BY <2>1, <2>2
<1>17. UnregisteredEmpty'
  BY <1>1, <1>11, <1>12, PoolAssumption DEF UnregisteredEmpty, IsTarget
<1> QED
  BY <1>1, <1>2, <1>5, <1>10, <1>11, <1>13, <1>14, <1>15, <1>16, <1>17 DEF e

\* The read handler closing an idle connection.
LEMMA KeepaliveCloseStep ==
    ASSUME IInv, NEW p \in Pool, NEW i \in DOMAIN cache[p], KeepaliveClose(p, i)
    PROVE  IInv' /\ cache[p][i] \in Idle /\ Idle' = Idle \ {cache[p][i]}
<1> USE DEF IInv
<1> DEFINE s == cache[p]
           c == s[i]
           k == Without(s, i)
           b == Cardinality(Borrowed)
<1>1. p = registry /\ p # NoPool
  <2>1. cache[p] # <<>>
    OBVIOUS
  <2> QED
    BY <2>1, PoolAssumption DEF UnregisteredEmpty
<1>2. /\ s \in Seq(Conn) /\ Distinct(s) /\ Idle = Entries(s) /\ Len(s) \in Nat /\ c \in Idle
      /\ free[p] \in Nat /\ size[p] \in Nat /\ active[p] \in Int
      /\ Len(s) + free[p] = size[p] /\ active[p] = Len(s) + b
  <2>1. s \in Seq(Conn) /\ free[p] \in Nat /\ size[p] \in Nat /\ active[p] \in Int
    BY DEF TypeOK
  <2>2. Distinct(s)
    BY <1>1 DEF SoleOwner
  <2>3. Len(s) + free[p] = size[p] /\ active[p] = Len(s) + b
    BY <1>1 DEF ActiveExact
  <2>4. Idle = Entries(s)
    BY <1>1 DEF Idle
  <2>5. c \in Entries(s)
    BY DEF Entries
  <2>6. Len(s) \in Nat
    BY <2>1
  <2> QED
    BY <2>1, <2>2, <2>3, <2>4, <2>5, <2>6
<1>3. /\ k \in Seq(Conn) /\ Len(k) = Len(s) - 1 /\ Entries(k) = Entries(s) \ {c} /\ Distinct(k)
  BY <1>2, WithoutLemma
<1>4. b \in Nat /\ (b = 0 => Borrowed = {})
  <2>1. IsFiniteSet(Borrowed)
    BY PoolAssumption, FS_Subset DEF Borrowed, InUse
  <2> QED
    BY <2>1, FS_CardinalityType, FS_EmptySet
<1>5. /\ cache' = [cache EXCEPT ![p] = k] /\ free' = [free EXCEPT ![p] = free[p] + 1]
      /\ active' = [active EXCEPT ![p] = active[p] - 1]
      /\ registry' = IF active[p] - 1 = 0 THEN NoPool ELSE registry
      /\ open' = open \ {c}
      /\ UNCHANGED <<live, size, connection, reused, socket_pool, valid, rcv>>
  BY DEF KeepaliveClose, FreePoolAtZero, upVars
<1>6. InUse' = InUse /\ Held' = Held /\ Borrowed' = Borrowed
  BY <1>5 DEF InUse, Held, Borrowed
<1>7. b = Cardinality(Borrowed')
  BY <1>6
<1> HIDE DEF s, c, k, b
<1>8. TypeOK'
  <2>1. free[p] + 1 \in Nat /\ active[p] - 1 \in Int
    <3>1. free[p] \in Nat /\ active[p] \in Int
      BY <1>2
    <3> HIDE DEF IInv
    <3> QED
      BY <3>1
  <2>2. /\ cache' \in [Pool -> Seq(Conn)] /\ free' \in [Pool -> Nat]
        /\ active' \in [Pool -> Int]
    BY <1>3, <1>5, <2>1 DEF TypeOK
  <2>3. registry' \in Pool \cup {NoPool} /\ open' \subseteq Conn
    BY <1>5 DEF TypeOK
  <2> QED
    BY <1>5, <2>2, <2>3 DEF TypeOK
<1>9. /\ cache'[p] = k /\ \A q \in Pool \ {p} : cache'[q] = cache[q]
      /\ free'[p] = free[p] + 1 /\ active'[p] = active[p] - 1 /\ size'[p] = size[p]
  BY <1>5 DEF TypeOK
<1>10. /\ Len(k) \in Nat /\ active[p] - 1 = Len(k) + b
       /\ registry' = NoPool => k = <<>> /\ Borrowed = {} /\ Entries(k) = {}
  <2>1. Len(k) \in Nat /\ active[p] - 1 = Len(k) + b
    BY <1>2, <1>3, <1>4
  <2>2. registry' = NoPool => Len(k) = 0 /\ b = 0
    BY <1>1, <1>4, <1>5, <2>1
  <2>3. Len(k) = 0 => k = <<>>
    BY <1>3
  <2>4. Entries(<<>>) = {}
    BY DEF Entries
  <2> HIDE DEF IInv
  <2> QED
    BY <1>4, <2>1, <2>2, <2>3, <2>4
<1>11. Idle' = Idle \ {c}
  BY <1>1, <1>2, <1>3, <1>5, <1>9, <1>10 DEF Idle
<1>12. SoleOwner'
  <2>1. Held' \cap Idle' = {} /\ open' = Held' \cup Idle'
    BY <1>2, <1>5, <1>6, <1>11 DEF SoleOwner
  <2>2. \A v, w \in InUse' : connection'[v] = connection'[w] => v = w
    BY <1>5, <1>6 DEF SoleOwner
  <2>3. registry' # NoPool => Distinct(cache'[registry'])
    <3>1. registry' # NoPool => registry' = p
      BY <1>1, <1>5
    <3> HIDE DEF IInv
    <3> QED
      BY <1>3, <1>9, <3>1
  <2> HIDE DEF IInv
  <2> QED
    BY <2>1, <2>2, <2>3 DEF SoleOwner
<1>13. ActiveExact'
  <2>1. registry' # NoPool => registry' = p /\ active[p] - 1 > 0
    <3>1. registry' # NoPool => registry' = p /\ active[p] - 1 # 0
      BY <1>1, <1>5
    <3>2. active[p] \in Int /\ active[p] - 1 >= 0
      BY <1>2, <1>4, <1>10
    <3> HIDE DEF IInv
    <3> QED
      BY <3>1, <3>2
  <2>2. Len(k) + (free[p] + 1) = size[p]
    BY <1>2, <1>3
  <2> QED
    BY <1>7, <1>9, <1>10, <2>1, <2>2 DEF ActiveExact
<1>14. NoDanglingPool'
  BY <1>1, <1>5, <1>6, <1>10 DEF NoDanglingPool
<1>15. UnregisteredEmpty'
  BY <1>1, <1>5, <1>9, <1>10, PoolAssumption DEF UnregisteredEmpty
<1> QED
  BY <1>1, <1>2, <1>5, <1>8, <1>9, <1>11, <1>12, <1>13, <1>14, <1>15 DEF c, s

\* Closing the connection of a socket object.
LEMMA FinalizeStep ==
    ASSUME IInv, NEW u \in Upstream, Finalize(u)
    PROVE  IInv' /\ Idle' = Idle
<1> USE DEF IInv
<1> DEFINE c == connection[u]
           b == Cardinality(Borrowed)
           b1 == Cardinality(Borrowed')
<1>1. /\ connection[u] # NoConn
      /\ connection' = [connection EXCEPT ![u] = NoConn]
      /\ open' = open \ {c}
      /\ valid' = [valid EXCEPT ![u] = FALSE]
      /\ UNCHANGED <<live, cache, free, size, reused, socket_pool, rcv>>
  BY DEF Finalize
<1>2. /\ u \in InUse /\ InUse' = InUse \ {u} /\ c \in Held /\ Held' = Held \ {c}
      /\ c \notin Idle /\ c \in Conn /\ Borrowed' = Borrowed \ {u}
      /\ \A v, w \in InUse' : connection'[v] = connection'[w] => v = w
  BY <1>1, Release
<1>3. CASE ~reused[u]
  <2>1. UNCHANGED <<active, registry>>
    BY <1>3 DEF Finalize
  <2>2. Borrowed' = Borrowed
    BY <1>2, <1>3 DEF Borrowed
  <2>3. Idle' = Idle
    BY <1>1, <2>1 DEF Idle
  <2>4. TypeOK'
    BY <1>1, <2>1 DEF TypeOK
  <2>5. SoleOwner'
    BY <1>1, <1>2, <2>1, <2>3 DEF SoleOwner
  <2>6. ActiveExact' /\ NoDanglingPool' /\ UnregisteredEmpty'
    BY <1>1, <2>1, <2>2 DEF ActiveExact, NoDanglingPool, UnregisteredEmpty
  <2> QED
    BY <1>1, <2>1, <2>3, <2>4, <2>5, <2>6
<1>4. CASE reused[u]
  <2>1. u \in Borrowed /\ socket_pool[u] = registry /\ registry \in live /\ registry # NoPool /\ registry \in Pool
    <3>1. u \in Borrowed
      BY <1>2, <1>4 DEF Borrowed
    <3>2. socket_pool[u] = registry /\ registry \in live
      BY <3>1 DEF NoDanglingPool
    <3>3. live \subseteq Pool
      BY DEF TypeOK
    <3> HIDE DEF IInv
    <3> QED
      BY <3>1, <3>2, <3>3, PoolAssumption
  <2>2. /\ active' = [active EXCEPT ![registry] = active[registry] - 1]
        /\ registry' = IF active[registry] - 1 = 0 THEN NoPool ELSE registry
    BY <1>4, <2>1 DEF Finalize, FreePoolAtZero
  <2>3. b \in Nat /\ b1 = b - 1 /\ b1 \in Nat /\ (b1 = 0 => Borrowed' = {})
    <3>1. b \in Nat /\ b1 = b - 1
      BY <1>2, <2>1, BorrowedFinite
    <3>2. IsFiniteSet(Borrowed')
      BY <1>2, BorrowedFinite, FS_RemoveElement
    <3> QED
      BY <3>1, <3>2, FS_CardinalityType, FS_EmptySet
  <2> DEFINE s == cache[registry]
  <2>4. s \in Seq(Conn) /\ Idle = Entries(s)
    BY <2>1 DEF TypeOK, Idle
  <2>4a. /\ Len(s) \in Nat /\ active[registry] \in Int
         /\ active[registry] = Len(s) + b
    BY <2>1, <2>4 DEF TypeOK, ActiveExact
  <2>4b. Len(s) + free[registry] = size[registry]
    BY <2>1 DEF ActiveExact
  <2>5. active'[registry] = active[registry] - 1
    BY <2>1, <2>2 DEF TypeOK
  <2>6. TypeOK'
    <3>1. active' \in [Pool -> Int] /\ registry' \in Pool \cup {NoPool}
      BY <2>1, <2>2, <2>4a DEF TypeOK
    <3> QED
      BY <1>1, <3>1 DEF TypeOK
  <2> HIDE DEF b, b1, s, IInv
  <2>7. active[registry] - 1 = Len(s) + b1
    BY <2>3, <2>4a
  <2>8. registry' = NoPool => s = <<>> /\ Borrowed' = {} /\ Entries(s) = {}
    <3>1. registry' = NoPool => Len(s) + b1 = 0
      BY <2>1, <2>2, <2>7
    <3>2. registry' = NoPool => Len(s) = 0 /\ b1 = 0
      BY <2>3, <2>4a, <3>1
    <3> QED
      BY <2>3, <2>4, <3>2 DEF Entries
  <2>9. Idle' = Idle
    BY <1>1, <2>1, <2>2, <2>4, <2>8 DEF Idle, s
  <2>10. SoleOwner'
    <3>1. Held' \cap Idle' = {} /\ open' = Held' \cup Idle'
      BY <1>1, <1>2, <2>9 DEF SoleOwner, IInv
    <3> QED
      BY <1>1, <1>2, <2>2, <3>1 DEF SoleOwner, IInv
  <2>11. ActiveExact'
    <3>1. registry' # NoPool => registry' = registry /\ active[registry] - 1 > 0
      BY <2>2, <2>3, <2>4a, <2>7
    <3> QED
      BY <1>1, <2>4b, <2>5, <2>7, <3>1 DEF ActiveExact, s, b1
  <2>12. NoDanglingPool'
    BY <1>1, <1>2, <2>1, <2>2, <2>8 DEF NoDanglingPool, IInv
  <2>13. UnregisteredEmpty'
    BY <1>1, <2>1, <2>2, <2>8 DEF UnregisteredEmpty, s, IInv
  <2> QED
    BY <1>1, <2>2, <2>6, <2>9, <2>10, <2>11, <2>12, <2>13 DEF IInv
<1> QED
  BY <1>3, <1>4

\* The Lua GC finalizing an unregistered pool.
LEMMA CollectPoolStep ==
    ASSUME IInv, NEW p \in Pool, CollectPool(p)
    PROVE  IInv' /\ Idle' = Idle
<1> USE DEF IInv
<1>1. /\ p # registry /\ cache[p] = <<>> /\ cache' = cache /\ open' = open
      /\ registry' = registry /\ live' = live \ {p}
      /\ active' = [active EXCEPT ![p] = 0]
      /\ UNCHANGED <<free, size, connection, reused, socket_pool, valid, rcv>>
  <2>1. p # registry /\ cache[p] = <<>>
    BY DEF CollectPool, UnregisteredEmpty
  <2>2. Entries(cache[p]) = {} /\ [cache EXCEPT ![p] = <<>>] = cache
    BY <2>1 DEF Entries, TypeOK
  <2> QED
    BY <2>1, <2>2 DEF CollectPool, upVars
<1>2. TypeOK'
  BY <1>1 DEF TypeOK
<1>3. InUse' = InUse /\ Held' = Held /\ Borrowed' = Borrowed /\ Idle' = Idle
  BY <1>1 DEF InUse, Held, Borrowed, Idle
<1>4. SoleOwner'
  BY <1>1, <1>3 DEF SoleOwner
<1>5. ActiveExact'
  BY <1>1, <1>3 DEF ActiveExact, TypeOK
<1>6. NoDanglingPool' /\ UnregisteredEmpty'
  BY <1>1, <1>3 DEF NoDanglingPool, UnregisteredEmpty
<1> QED
  BY <1>1, <1>2, <1>3, <1>4, <1>5, <1>6

\* Worker shutdown.
LEMMA CleanupVmStep ==
    ASSUME IInv, CleanupVm
    PROVE  IInv' /\ Idle' = {}
<1> USE DEF IInv
<1>1. /\ InUse = {} /\ registry' = NoPool /\ live' = {} /\ cache' = [p \in Pool |-> <<>>]
      /\ active' = [p \in Pool |-> 0] /\ open' = open \ UNION {Entries(cache[p]) : p \in live}
      /\ UNCHANGED <<free, size, connection, reused, socket_pool, valid, rcv>>
      /\ registry # NoPool /\ registry \in live
  BY DEF CleanupVm, upVars
<1>2. TypeOK'
  BY <1>1 DEF TypeOK
<1>3. InUse' = {} /\ Held' = {} /\ Borrowed' = {} /\ Idle' = {} /\ Held = {}
  BY <1>1 DEF InUse, Held, Borrowed, Idle
<1>4. open' = {}
  BY <1>1, <1>3 DEF SoleOwner, Idle
<1>5. SoleOwner'
  BY <1>1, <1>3, <1>4 DEF SoleOwner
<1>6. ActiveExact' /\ NoDanglingPool' /\ UnregisteredEmpty'
  BY <1>1, <1>3 DEF ActiveExact, NoDanglingPool, UnregisteredEmpty
<1> QED
  BY <1>1, <1>2, <1>3, <1>5, <1>6

\* Steps of the socket underneath leave pools and owners alone.
LEMMA SocketStep ==
    ASSUME IInv, UNCHANGED <<poolVars, connection, reused, socket_pool, open>>,
           valid' \in [Upstream -> BOOLEAN], rcv' \in [Conn -> Receive]
    PROVE  IInv' /\ Idle' = Idle
<1> USE DEF IInv
<1>1. TypeOK'
  BY DEF TypeOK, poolVars
<1>2. InUse' = InUse /\ Held' = Held /\ Borrowed' = Borrowed /\ Idle' = Idle
  BY DEF InUse, Held, Borrowed, Idle, poolVars
<1> QED
  BY <1>1, <1>2 DEF SoleOwner, ActiveExact, NoDanglingPool, UnregisteredEmpty, poolVars

-----------------------------------------------------------------------------
(* The theorems.                                                            *)

\* The invariant holds initially.
LEMMA InitIInv == Init => IInv
<1> SUFFICES ASSUME Init PROVE IInv
  OBVIOUS
<1>1. TypeOK
  BY DEF Init, TypeOK, Receive
<1>2. InUse = {} /\ Idle = {} /\ Held = {} /\ Borrowed = {}
  BY DEF Init, InUse, Idle, Held, Borrowed
<1> QED
  BY <1>1, <1>2 DEF Init, IInv, SoleOwner, ActiveExact, NoDanglingPool, UnregisteredEmpty

\* Every step preserves the invariant.
LEMMA NextIInv == IInv /\ [Next]_vars => IInv'
<1> SUFFICES ASSUME IInv, [Next]_vars PROVE IInv'
  OBVIOUS
<1>1. ASSUME NEW u \in Upstream, UpstreamNext(u) PROVE IInv'
  <2>1. ASSUME NEW c \in Conn, ConnectFresh(u, c) PROVE IInv'
    BY <2>1, ConnectFreshStep
  <2>2. CASE GetKeepalivePeer(u)
    BY <2>2, GetKeepalivePeerStep
  <2>3. ASSUME NEW p \in Pool, NEW n \in PoolSizes, SetKeepalive(u, p, n) PROVE IInv'
    BY <2>3, SetKeepaliveStep
  <2>4. ASSUME NEW p \in Pool, NEW n \in PoolSizes, SetKeepaliveDubious(u, p, n) PROVE IInv'
    BY <2>4, SetKeepaliveDubiousStep
  <2>5. CASE Finalize(u)
    BY <2>5, FinalizeStep
  <2>6. CASE Dispatch(u) \/ Read(u) \/ Spoil(u)
    <3>1. /\ UNCHANGED <<poolVars, connection, reused, socket_pool, open>>
          /\ valid' \in [Upstream -> BOOLEAN] /\ rcv' \in [Conn -> Receive]
      BY <2>6 DEF Dispatch, Read, Spoil, upVars, IInv, TypeOK, Receive
    <3> QED
      BY <3>1, SocketStep
  <2> QED
    BY <1>1, <2>1, <2>2, <2>3, <2>4, <2>5, <2>6 DEF UpstreamNext
<1>2. ASSUME NEW p \in Pool, PoolNext(p) PROVE IInv'
  BY <1>2, KeepaliveCloseStep, CollectPoolStep DEF PoolNext
<1>3. ASSUME NEW c \in Conn, Arrive(c) PROVE IInv'
  <2>1. /\ UNCHANGED <<poolVars, connection, reused, socket_pool, open>>
        /\ valid' \in [Upstream -> BOOLEAN] /\ rcv' \in [Conn -> Receive]
    BY <1>3 DEF Arrive, upVars, IInv, TypeOK, Receive
  <2> QED
    BY <2>1, SocketStep
<1>4. CASE CleanupVm
  BY <1>4, CleanupVmStep
<1>5. CASE UNCHANGED vars
  <2>1. /\ UNCHANGED <<poolVars, connection, reused, socket_pool, open>>
        /\ valid' \in [Upstream -> BOOLEAN] /\ rcv' \in [Conn -> Receive]
    BY <1>5 DEF vars, upVars, IInv, TypeOK
  <2> QED
    BY <2>1, SocketStep
<1> QED
  BY <1>1, <1>2, <1>3, <1>4, <1>5 DEF Next

\* The inductive invariant of the pool.
THEOREM Invariance == Spec => []IInv
  BY InitIInv, NextIInv, PTL DEF Spec

\* Every open descriptor has exactly one owner.
THEOREM Ownership == Spec => []SoleOwner
<1>1. IInv => SoleOwner
  BY DEF IInv
<1> QED
  BY <1>1, Invariance, PTL

\* active_connections is exact, whatever is evicted, timed out or killed.
THEOREM Accounting == Spec => []ActiveExact
<1>1. IInv => ActiveExact
  BY DEF IInv
<1> QED
  BY <1>1, Invariance, PTL

\* tcp_finalize never follows a pointer to a pool that is gone.
THEOREM PoolPointers == Spec => []NoDanglingPool
<1>1. IInv => NoDanglingPool
  BY DEF IInv
<1> QED
  BY <1>1, Invariance, PTL

\* A pool's finalizer has nothing to close.
THEOREM UnregisteredPools == Spec => []UnregisteredEmpty
<1>1. IInv => UnregisteredEmpty
  BY DEF IInv
<1> QED
  BY <1>1, Invariance, PTL

\* No step leaves idle a connection whose read event was already seen.
LEMMA NextNoDubiousIdle == IInv /\ NoDubiousIdle /\ [Next]_vars => NoDubiousIdle'
<1> SUFFICES ASSUME IInv, NoDubiousIdle, [Next]_vars PROVE NoDubiousIdle'
  OBVIOUS
<1> USE DEF NoDubiousIdle
<1>0. \A u \in InUse : connection[u] \notin Idle
  BY DEF IInv, SoleOwner, Held
<1>1. ASSUME NEW u \in Upstream, UpstreamNext(u) PROVE NoDubiousIdle'
  <2>1. ASSUME NEW c \in Conn, ConnectFresh(u, c) PROVE NoDubiousIdle'
    BY <2>1, ConnectFreshStep DEF ConnectFresh
  <2>2. CASE GetKeepalivePeer(u)
    BY <2>2, GetKeepalivePeerStep DEF GetKeepalivePeer
  <2>3. ASSUME NEW p \in Pool, NEW n \in PoolSizes, SetKeepalive(u, p, n) PROVE NoDubiousIdle'
    <3>1. Idle' = (Idle \ Evicted(p, n)) \cup {connection[u]}
      BY <2>3, SetKeepaliveStep
    <3>2. rcv' = rcv /\ rcv[connection[u]] # "seen"
      BY <2>3 DEF SetKeepalive, SetKeepaliveCommon
    <3> QED
      BY <3>1, <3>2
  <2>4. ASSUME NEW p \in Pool, NEW n \in PoolSizes, SetKeepaliveDubious(u, p, n)
        PROVE  NoDubiousIdle'
    BY <2>4, SetKeepaliveDubiousStep DEF SetKeepaliveDubious, SetKeepaliveCommon
  <2>5. CASE Finalize(u)
    BY <2>5, FinalizeStep DEF Finalize
  <2>6. CASE Dispatch(u) \/ Read(u) \/ Spoil(u)
    <3>1. u \in InUse /\ UNCHANGED <<poolVars, connection>>
      BY <2>6 DEF Dispatch, Read, Spoil, InUse, upVars
    <3>2. Idle' = Idle
      BY <3>1 DEF Idle, poolVars
    <3>3. \A c \in Conn \ {connection[u]} : rcv'[c] = rcv[c]
      BY <2>6 DEF Dispatch, Read, Spoil, IInv, TypeOK
    <3>4. Idle \subseteq Conn
      BY DEF IInv, SoleOwner, TypeOK
    <3> QED
      BY <1>0, <3>1, <3>2, <3>3, <3>4
  <2> QED
    BY <1>1, <2>1, <2>2, <2>3, <2>4, <2>5, <2>6 DEF UpstreamNext
<1>2. ASSUME NEW p \in Pool, PoolNext(p) PROVE NoDubiousIdle'
  <2>1. ASSUME NEW i \in DOMAIN cache[p], KeepaliveClose(p, i) PROVE NoDubiousIdle'
    BY <2>1, KeepaliveCloseStep DEF KeepaliveClose
  <2>2. CASE CollectPool(p)
    BY <2>2, CollectPoolStep DEF CollectPool
  <2> QED
    BY <1>2, <2>1, <2>2 DEF PoolNext
<1>3. ASSUME NEW c \in Conn, Arrive(c) PROVE NoDubiousIdle'
  <2>1. Idle' = Idle
    BY <1>3 DEF Arrive, Idle, poolVars
  <2> QED
    BY <1>3, <2>1 DEF Arrive, IInv, TypeOK
<1>4. CASE CleanupVm
  BY <1>4, CleanupVmStep
<1>5. CASE UNCHANGED vars
  BY <1>5 DEF vars, poolVars, Idle
<1> QED
  BY <1>1, <1>2, <1>3, <1>4, <1>5 DEF Next

\* setkeepalive never leaves a connection it could see to be readable in the
\* cache, where the next session would take it.
THEOREM IdleNotDubious == Spec => []NoDubiousIdle
<1>1. Init => NoDubiousIdle
  BY DEF Init, NoDubiousIdle, Idle
<1> QED
  BY <1>1, Invariance, NextNoDubiousIdle, PTL DEF Spec

\* Every step of the C pool is a step of the abstract pool or leaves it alone.
LEMMA NextAbstract == IInv /\ [Next]_vars => [Abstract!Next]_(Abstract!vars)
<1> SUFFICES ASSUME IInv, [Next]_vars PROVE [Abstract!Next]_(Abstract!vars)
  OBVIOUS
<1> USE DEF Abstract!Next, Abstract!vars
<1>0. Held = Abstract!Held
  BY DEF Held, Abstract!Held, InUse
<1>1. ASSUME NEW u \in Upstream, UpstreamNext(u) PROVE [Abstract!Next]_(Abstract!vars)
  <2>1. ASSUME NEW c \in Conn, ConnectFresh(u, c) PROVE Abstract!Open(u, c)
    BY <1>0, <2>1, ConnectFreshStep DEF ConnectFresh, Abstract!Open, IInv, SoleOwner
  <2>2. ASSUME GetKeepalivePeer(u)
        PROVE  \E c \in Conn : Abstract!Take(u, c)
    <3>1. Idle \subseteq Conn
      BY DEF IInv, SoleOwner, TypeOK
    <3>2. Head(cache[registry]) \in Conn /\ Abstract!Take(u, Head(cache[registry]))
      BY <2>2, <3>1, GetKeepalivePeerStep DEF GetKeepalivePeer, Abstract!Take
    <3> QED
      BY <3>2
  <2>3. ASSUME NEW p \in Pool, NEW n \in PoolSizes, SetKeepalive(u, p, n) PROVE Abstract!Park(u)
    BY <2>3, SetKeepaliveStep DEF SetKeepalive, SetKeepaliveCommon, Abstract!Park
  <2>4. ASSUME NEW p \in Pool, NEW n \in PoolSizes, SetKeepaliveDubious(u, p, n)
        PROVE  Abstract!Drop(u)
    BY <2>4, SetKeepaliveDubiousStep DEF SetKeepaliveDubious, SetKeepaliveCommon, Abstract!Drop
  <2>5. CASE Finalize(u)
    <3>1. Abstract!Drop(u)
      <4>1. Idle' = Idle \ {} /\ {} \in SUBSET Idle
        BY <2>5, FinalizeStep
      <4> QED
        BY <2>5, <4>1 DEF Finalize, Abstract!Drop
    <3> QED
      BY <3>1
  <2>6. CASE Dispatch(u) \/ Read(u) \/ Spoil(u)
    BY <2>6 DEF Dispatch, Read, Spoil, upVars, poolVars, Idle
  <2> QED
    BY <1>1, <2>1, <2>2, <2>3, <2>4, <2>5, <2>6 DEF UpstreamNext
<1>2. ASSUME NEW p \in Pool, PoolNext(p) PROVE [Abstract!Next]_(Abstract!vars)
  <2>1. ASSUME NEW i \in DOMAIN cache[p], KeepaliveClose(p, i) PROVE Abstract!Expire
    <3>1. cache[p][i] \in Idle /\ Idle' = Idle \ {cache[p][i]}
      BY <2>1, KeepaliveCloseStep
    <3>2. {cache[p][i]} \in SUBSET Idle /\ Idle # {}
      BY <3>1
    <3>3. UNCHANGED connection
      BY <2>1 DEF KeepaliveClose, upVars
    <3> QED
      BY <3>1, <3>2, <3>3 DEF Abstract!Expire
  <2>2. CASE CollectPool(p)
    BY <2>2, CollectPoolStep DEF CollectPool, upVars
  <2> QED
    BY <1>2, <2>1, <2>2 DEF PoolNext
<1>3. ASSUME NEW c \in Conn, Arrive(c) PROVE UNCHANGED Abstract!vars
  BY <1>3 DEF Arrive, Idle, poolVars, upVars
<1>4. CASE CleanupVm
  <2>1. Idle' = {} /\ connection' = connection
    BY <1>4, CleanupVmStep DEF CleanupVm, upVars
  <2>2. CASE Idle = {}
    BY <2>1, <2>2
  <2>3. CASE Idle # {}
    <3>1. Abstract!Expire
      <4>1. Idle' = Idle \ Idle /\ Idle \in SUBSET Idle
        BY <2>1
      <4> QED
        BY <2>1, <2>3, <4>1 DEF Abstract!Expire
    <3> QED
      BY <3>1
  <2> QED
    BY <2>2, <2>3
<1>5. CASE UNCHANGED vars
  BY <1>5 DEF vars, poolVars, upVars, Idle
<1> QED
  BY <1>1, <1>2, <1>3, <1>4, <1>5 DEF Next

\* The C pool implements the abstract pool: connections go back and forth
\* between one socket object and the idle set, and an idle one is preferred.
THEOREM Refinement == Spec => AbstractSpec
<1>1. Init => Abstract!Init
  BY DEF Init, Abstract!Init, Idle
<1> QED
  BY <1>1, Invariance, NextAbstract, PTL DEF Spec, AbstractSpec, Abstract!Spec
=============================================================================
