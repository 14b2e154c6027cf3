--------------------------- MODULE MultiKey_proof ---------------------------
(***************************************************************************)
(* Proofs about MultiKey, for any keys, slots and argument lists: a multi-  *)
(* key command answered OK is answered as one node would answer it, nothing *)
(* of it takes effect afterwards, and no thread outlives the reply.  The    *)
(* bytes of a key that are hashed are those the rule on hash tags gives,    *)
(* and a command on keys with one tag is atomic.                            *)
(***************************************************************************)
EXTENDS MultiKey, HashTag, FiniteSetTheorems, WellFoundedInduction, TLAPS

-----------------------------------------------------------------------------
(* The inductive invariant *)

Typed ==
    /\ kind \in Kinds
    /\ keys \in Seq(Key) /\ keys # <<>>
    /\ dangling \in BOOLEAN
    /\ first \in [Key -> {Nil, 0}]
    /\ thread_pool \in Seq(Slot)
    /\ co_status \in [Slot -> {"none", "running", "zombie", "dead"}]
    /\ execs \in [Slot -> {0, 1}]
    /\ result \in [Slot -> {"none", "ok", "refused", "failed", "aborted"}]
    /\ DOMAIN values = Slot
    /\ num \in Nat
    /\ waited \in Nat
    /\ reply \in {"none", "ok", "error", "gone"}
    /\ DOMAIN store = Key

\* thread_pool lists the spawned threads, once each, and a thread's status
\* says how far its command is.
Threads ==
    /\ \A i, j \in DOMAIN thread_pool : thread_pool[i] = thread_pool[j] => i = j
    /\ \A i \in DOMAIN thread_pool : thread_pool[i] \in Slots /\ co_status[thread_pool[i]] # "none"
    /\ \A s \in Slot : co_status[s] # "none" => \E i \in DOMAIN thread_pool : thread_pool[i] = s
    /\ \A s \in Slot : co_status[s] = "none" => execs[s] = 0
    /\ \A s \in Slot : co_status[s] \in {"none", "running"} <=> result[s] = "none"
    /\ \A s \in Slot : result[s] = "ok" => execs[s] = 1

\* The threads waited for have returned OK, the others are alive until there
\* is a reply, and an OK comes after the last one.
Waits ==
    /\ waited <= Len(thread_pool)
    /\ \A i \in 1 .. waited : co_status[thread_pool[i]] = "dead" /\ result[thread_pool[i]] = "ok"
    /\ reply = "none" =>
          /\ waited < Cardinality(Slots)
          /\ \A i \in waited + 1 .. Len(thread_pool) :
                co_status[thread_pool[i]] \in {"running", "zombie"}
    /\ reply = "ok" => Finished /\ waited = Len(thread_pool)
    /\ NoOrphan

\* What one node holds for x after the whole command.
After(x) ==
    IF x \in Range(keys) /\ kind = "DEL" THEN Nil
    ELSE IF x \in Range(keys) /\ kind = "MSET" THEN LastGiven(x)
    ELSE first[x]

\* The keys, and the positions, of the arguments in a set of slots that were
\* there at the start.
KeysIn(ss) == {x \in Range(keys) : SlotOf[x] \in ss /\ first[x] # Nil}
PositionsIn(ss) == {j \in DOMAIN keys : SlotOf[keys[j]] \in ss /\ first[keys[j]] # Nil}

\* The data of a slot changes with its command only.
Effects ==
    /\ \A x \in Key : store[x] = IF execs[SlotOf[x]] = 1 THEN After(x) ELSE first[x]
    /\ dangling => execs[SlotOf[keys[Len(keys)]]] = 0

\* What a node answers is what it would answer at the start.
Answers ==
    \A s \in Slot : execs[s] = 1 =>
        /\ kind = "MGET" => values[s] = [i \in DOMAIN Part(s) |-> first[Part(s)[i]]]
        /\ kind = "DEL" => values[s] = Cardinality(KeysIn({s}))
        /\ kind = "EXISTS" => values[s] = Cardinality(PositionsIn({s}))

Ok == {s \in Slot : result[s] = "ok"}

FilledIn(ss) ==
    [j \in DOMAIN keys |->
        IF SlotOf[keys[j]] \in ss THEN <<keys[j], first[keys[j]]>> ELSE Unfilled]

\* What the threads that returned OK have left behind.
Collected ==
    /\ kind = "MGET" => req_data = FilledIn(Ok)
    /\ kind = "DEL" => num = Cardinality(KeysIn(Ok))
    /\ kind = "EXISTS" => num = Cardinality(PositionsIn(Ok))

MultiInv == Typed /\ Threads /\ Waits /\ Effects /\ Answers /\ Collected

-----------------------------------------------------------------------------
(* Induction up to n, as a statement about sets, and functions defined by   *)
(* recursion on their argument.                                             *)

\* A set of natural numbers has a least element.
LEMMA Least ==
    ASSUME NEW T \in SUBSET Nat, T # {}
    PROVE  \E m \in T : \A k \in T : m <= k
<1> DEFINE R == {p \in Nat \X Nat : p[1] < p[2]}
<1>1. IsWellFoundedOn(R, Nat)
  BY NatLessThanWellFounded, Zenon DEF OpToRel
<1>2. PICK m \in T : \A k \in T : ~(<<k, m>> \in R)
  <2> HIDE DEF R
  <2> QED
    BY <1>1, WFMin, Zenon
<1>3. ASSUME NEW k \in T PROVE m <= k
  <2>1. <<k, m>> \in Nat \X Nat /\ ~(<<k, m>>[1] < <<k, m>>[2])
    BY <1>2
  <2> QED
    BY <2>1
<1> QED
  BY <1>3

LEMMA UpTo ==
    ASSUME NEW n \in Nat, NEW T, 0 \in T, \A i \in 1 .. n : i - 1 \in T => i \in T
    PROVE  \A i \in 0 .. n : i \in T
<1> DEFINE B == {i \in 0 .. n : i \notin T}
<1>1. SUFFICES ASSUME B # {} PROVE FALSE
  OBVIOUS
<1>2. PICK m \in B : \A k \in B : m <= k
  <2>1. B \in SUBSET Nat
    OBVIOUS
  <2> HIDE DEF B
  <2> QED
    BY <1>1, <2>1, Least
<1>3. m \in 1 .. n /\ m - 1 \in 0 .. n
  OBVIOUS
<1>4. m - 1 \notin B
  BY <1>2, <1>3
<1> QED
  BY <1>3, <1>4

Solutions(n, S, c, g) ==
    {f \in [0 .. n -> S] : f[0] = c /\ \A i \in 1 .. n : f[i] = g[i][f[i - 1]]}

\* A recursion over 0 .. n whose steps are the functions g[1], ..., g[n] has a
\* solution.
LEMMA Recursion ==
    ASSUME NEW n \in Nat, NEW S, NEW c \in S, NEW g \in [1 .. n -> [S -> S]]
    PROVE  Solutions(n, S, c, g) # {}
<1> DEFINE Upto(m) == {f \in [0 .. m -> S] : f[0] = c /\ \A i \in 1 .. m : f[i] = g[i][f[i - 1]]}
           T == {m \in 0 .. n : Upto(m) # {}}
<1>1. 0 \in T
  <2>1. [i \in 0 .. 0 |-> c] \in Upto(0)
    OBVIOUS
  <2> QED
    BY <2>1
<1>2. ASSUME NEW m \in 1 .. n, m - 1 \in T PROVE m \in T
  <2>1. PICK f : f \in Upto(m - 1)
    BY <1>2
  <2>2. /\ f \in [0 .. m - 1 -> S]
        /\ f[0] = c
        /\ \A i \in 1 .. m - 1 : f[i] = g[i][f[i - 1]]
    BY <2>1
  <2> DEFINE h == [i \in 0 .. m |-> IF i = m THEN g[m][f[m - 1]] ELSE f[i]]
  <2>3. g[m][f[m - 1]] \in S
    BY <2>2
  <2>4. h \in [0 .. m -> S]
    BY <2>2, <2>3
  <2>5. h[0] = c /\ \A i \in 1 .. m : h[i] = g[i][h[i - 1]]
    BY <2>2
  <2>6. h \in Upto(m)
    BY <2>4, <2>5, Zenon
  <2> QED
    BY <2>6, SMTT(20)
<1> HIDE DEF T
<1>3. \A m \in 0 .. n : m \in T
  BY <1>1, <1>2, UpTo, Zenon
<1>4. n \in T
  BY <1>3
<1> QED
  BY <1>4 DEF T, Solutions

-----------------------------------------------------------------------------
(* The parts *)

\* pos maps the positions of q to those among the first n arguments whose key
\* is in slot s, in order.
Picks(q, pos, n, s) ==
    /\ q \in Seq(Key)
    /\ pos \in [1 .. Len(q) -> 1 .. n]
    /\ \A p \in 1 .. Len(q) : q[p] = keys[pos[p]] /\ SlotOf[keys[pos[p]]] = s
    /\ \A p, r \in 1 .. Len(q) : p < r => pos[p] < pos[r]
    /\ \A j \in 1 .. n : SlotOf[keys[j]] = s => \E p \in 1 .. Len(q) : pos[p] = j

\* slots[slot] after the keys of i arguments have been inserted, from what it
\* is after i - 1.
PartStep(q, i, s) == IF SlotOf[keys[i]] = s THEN Append(q, keys[i]) ELSE q

\* The recursive function of Part exists, and Part is its last value.
LEMMA PartUnfolds ==
    ASSUME keys \in Seq(Key), NEW s \in Slot
    PROVE  \E f : /\ f[0] = <<>>
                  /\ \A i \in 1 .. Len(keys) : f[i] = PartStep(f[i - 1], i, s)
                  /\ Part(s) = f[Len(keys)]
<1> DEFINE n == Len(keys)
           g == [i \in 1 .. n |-> [q \in Seq(Key) |-> PartStep(q, i, s)]]
           Eq(f) == f = [i \in 0 .. n |->
                            IF i = 0 THEN <<>>
                            ELSE IF SlotOf[keys[i]] = s THEN Append(f[i - 1], keys[i]) ELSE f[i - 1]]
           f0 == CHOOSE f : Eq(f)
<1>1. n \in Nat
  OBVIOUS
<1>2. g \in [1 .. n -> [Seq(Key) -> Seq(Key)]]
  <2>1. ASSUME NEW i \in 1 .. n, NEW q \in Seq(Key) PROVE PartStep(q, i, s) \in Seq(Key)
    <3>1. keys[i] \in Key
      OBVIOUS
    <3> QED
      BY <3>1 DEF PartStep
  <2> QED
    BY <2>1
<1>3. PICK h \in [0 .. n -> Seq(Key)] : h[0] = <<>> /\ \A i \in 1 .. n : h[i] = g[i][h[i - 1]]
  <2>1. <<>> \in Seq(Key)
    OBVIOUS
  <2>2. Solutions(n, Seq(Key), <<>>, g) # {}
    <3> HIDE DEF g, n
    <3> QED
      BY <1>1, <1>2, <2>1, Recursion, Zenon
  <2> HIDE DEF g, n
  <2> QED
    BY <2>2, Zenon DEF Solutions
<1>4. \A i \in 1 .. n : h[i] = PartStep(h[i - 1], i, s)
  <2> TAKE i \in 1 .. n
  <2>1. h[i - 1] \in Seq(Key)
    BY <1>1, <1>3, SMTT(20)
  <2> QED
    BY <1>3, <2>1, Zenon
<1>5. Eq(h)
  <2>1. ASSUME NEW i \in 0 .. n
        PROVE  h[i] = IF i = 0 THEN <<>>
                      ELSE IF SlotOf[keys[i]] = s THEN Append(h[i - 1], keys[i]) ELSE h[i - 1]
    <3>1. CASE i = 0
      BY <1>3, <3>1
    <3>2. CASE i # 0
      <4>1. i \in 1 .. n
        BY <1>1, <3>2
      <4>2. h[i] = PartStep(h[i - 1], i, s)
        BY <1>4, <4>1
      <4> QED
        BY <3>2, <4>2, Zenon DEF PartStep
    <3> QED
      BY <3>1, <3>2
  <2> HIDE DEF n
  <2> QED
    BY <1>3, <2>1, Zenon
<1>6. Eq(f0)
  <2> HIDE DEF Eq
  <2> QED
    BY <1>5, Zenon
<1>7. Part(s) = f0[n]
  BY Zenon DEF Part
<1> HIDE DEF f0
<1>8. f0[0] = <<>>
  <2>1. 0 \in 0 .. n
    BY <1>1
  <2> HIDE DEF n
  <2> QED
    BY <1>6, <2>1
<1>9. ASSUME NEW i \in 1 .. n PROVE f0[i] = PartStep(f0[i - 1], i, s)
  <2>1. i \in 0 .. n /\ i # 0
    BY <1>1
  <2> HIDE DEF n
  <2>2. f0[i] = IF SlotOf[keys[i]] = s THEN Append(f0[i - 1], keys[i]) ELSE f0[i - 1]
    BY <1>6, <2>1, Zenon
  <2> QED
    BY <2>2, Zenon DEF PartStep
<1> QED
  BY <1>7, <1>8, <1>9

\* One more key at the end of a part.
LEMMA PicksStep ==
    ASSUME keys \in Seq(Key), NEW s \in Slot, NEW i \in 1 .. Len(keys),
           NEW q, NEW pos, Picks(q, pos, i - 1, s)
    PROVE  \E e : Picks(PartStep(q, i, s), e, i, s)
<1>1. keys[i] \in Key /\ i \in Nat /\ i - 1 \in Nat
  OBVIOUS
<1>2. CASE SlotOf[keys[i]] # s
  <2>1. pos \in [1 .. Len(q) -> 1 .. i]
    BY <1>1 DEF Picks
  <2>2. \A j \in 1 .. i : SlotOf[keys[j]] = s => j \in 1 .. i - 1
    BY <1>1, <1>2
  <2>3. Picks(q, pos, i, s)
    BY <2>1, <2>2 DEF Picks
  <2> QED
    BY <1>2, <2>3 DEF PartStep
<1>3. CASE SlotOf[keys[i]] = s
  <2> DEFINE t == Append(q, keys[i])
             m == Len(q) + 1
             e == [p \in 1 .. m |-> IF p = m THEN i ELSE pos[p]]
  <2>1. /\ q \in Seq(Key)
        /\ Len(q) \in Nat
        /\ pos \in [1 .. Len(q) -> 1 .. i - 1]
        /\ \A p \in 1 .. Len(q) : q[p] = keys[pos[p]] /\ SlotOf[keys[pos[p]]] = s
        /\ \A p, r \in 1 .. Len(q) : p < r => pos[p] < pos[r]
        /\ \A j \in 1 .. i - 1 : SlotOf[keys[j]] = s => \E p \in 1 .. Len(q) : pos[p] = j
    BY DEF Picks
  <2>2. /\ t \in Seq(Key)
        /\ Len(t) = m
        /\ t[m] = keys[i]
        /\ \A p \in 1 .. Len(q) : t[p] = q[p]
    BY <1>1, <2>1
  <2> HIDE DEF t
  <2>3. \A p \in 1 .. m : p \in 1 .. Len(q) \/ p = m
    BY <2>1
  <2>4. e \in [1 .. m -> 1 .. i]
    BY <1>1, <2>1, <2>3
  <2>5. e[m] = i /\ \A p \in 1 .. Len(q) : e[p] = pos[p]
    BY <2>1
  <2>6. m \in 1 .. m /\ \A p \in 1 .. Len(q) : p \in 1 .. m /\ p < m
    BY <2>1
  <2> HIDE DEF e, m
  <2>7. \A p \in 1 .. m : t[p] = keys[e[p]] /\ SlotOf[keys[e[p]]] = s
    <3> SUFFICES ASSUME NEW p \in 1 .. m PROVE t[p] = keys[e[p]] /\ SlotOf[keys[e[p]]] = s
      OBVIOUS
    <3>1. CASE p = m
      BY <1>3, <2>2, <2>5, <3>1, Zenon
    <3>2. CASE p \in 1 .. Len(q)
      BY <2>1, <2>2, <2>5, <3>2, Zenon
    <3> QED
      BY <2>3, <3>1, <3>2
  <2>8. \A p, r \in 1 .. m : p < r => e[p] < e[r]
    <3> SUFFICES ASSUME NEW p \in 1 .. m, NEW r \in 1 .. m, p < r PROVE e[p] < e[r]
      OBVIOUS
    <3>1. p \in 1 .. Len(q) /\ e[p] = pos[p] /\ pos[p] \in 1 .. i - 1
      BY <2>1, <2>3, <2>5, SMTT(20) DEF m
    <3>2. CASE r = m
      BY <1>1, <2>5, <3>1, <3>2
    <3>3. CASE r # m
      BY <2>1, <2>3, <2>5, <3>1, <3>3
    <3> QED
      BY <3>2, <3>3
  <2>9. \A j \in 1 .. i : SlotOf[keys[j]] = s => \E p \in 1 .. m : e[p] = j
    <3> SUFFICES ASSUME NEW j \in 1 .. i, SlotOf[keys[j]] = s PROVE \E p \in 1 .. m : e[p] = j
      OBVIOUS
    <3>1. j = i \/ j \in 1 .. i - 1
      BY <1>1
    <3> QED
      BY <2>1, <2>5, <2>6, <3>1, Zenon
  <2>10. Picks(t, e, i, s)
    BY <2>2, <2>4, <2>7, <2>8, <2>9, Zenon DEF Picks
  <2> QED
    BY <1>3, <2>10 DEF PartStep, t
<1> QED
  BY <1>2, <1>3

\* Part(s) is the list of the arguments in slot s, in the order the client
\* gave them.
LEMMA PartLemma ==
    ASSUME keys \in Seq(Key), NEW s \in Slot
    PROVE  \E pos : Picks(Part(s), pos, Len(keys), s)
<1> DEFINE n == Len(keys)
<1>1. PICK f : /\ f[0] = <<>>
               /\ \A i \in 1 .. n : f[i] = PartStep(f[i - 1], i, s)
               /\ Part(s) = f[n]
  BY PartUnfolds
<1> DEFINE T == {i \in 0 .. n : \E pos : Picks(f[i], pos, i, s)}
<1>2. n \in Nat
  OBVIOUS
<1>3. 0 \in T
  <2> DEFINE e == [p \in 1 .. 0 |-> 0]
  <2>1. Picks(<<>>, e, 0, s)
    BY DEF Picks
  <2> QED
    BY <1>1, <1>2, <2>1
<1>4. ASSUME NEW i \in 1 .. n, i - 1 \in T PROVE i \in T
  <2>1. PICK pos : Picks(f[i - 1], pos, i - 1, s)
    BY <1>4
  <2>2. \E e : Picks(PartStep(f[i - 1], i, s), e, i, s)
    BY <2>1, PicksStep
  <2>3. f[i] = PartStep(f[i - 1], i, s)
    BY <1>1
  <2> QED
    BY <1>2, <2>2, <2>3
<1>5. \A i \in 0 .. n : i \in T
  <2> HIDE DEF T, n
  <2> QED
    BY <1>2, <1>3, <1>4, UpTo, Zenon
<1>6. n \in T
  BY <1>2, <1>5
<1> QED
  BY <1>1, <1>6

-----------------------------------------------------------------------------
(* MGET: filling in the answers of a part *)

\* What req_data is when the parts in ss and the first i keys of the part at
\* pos have been filled in.
FilledTo(ss, pos, i) ==
    [j \in DOMAIN keys |->
        IF SlotOf[keys[j]] \in ss \/ \E p \in 1 .. i : pos[p] = j
        THEN <<keys[j], first[keys[j]]>> ELSE Unfilled]

\* The first argument that is still the string of the i-th key of a part is
\* the one that key came from, repeated keys included.
LEMMA FillStep ==
    ASSUME keys \in Seq(Key), NEW s \in Slot, NEW ss \in SUBSET Slot, s \notin ss,
           NEW q, NEW pos, Picks(q, pos, Len(keys), s), NEW i \in 1 .. Len(q)
    PROVE  Fill(FilledTo(ss, pos, i - 1), q[i], first[q[i]]) = FilledTo(ss, pos, i)
<1> DEFINE data == FilledTo(ss, pos, i - 1)
           x == q[i]
           js == {j \in DOMAIN keys : keys[j] = x /\ data[j] = Unfilled}
           k == pos[i]
<1>1. /\ q \in Seq(Key)
      /\ Len(q) \in Nat /\ Len(keys) \in Nat /\ DOMAIN keys = 1 .. Len(keys)
      /\ pos \in [1 .. Len(q) -> DOMAIN keys]
      /\ \A p \in 1 .. Len(q) : q[p] = keys[pos[p]] /\ SlotOf[keys[pos[p]]] = s
      /\ \A p, r \in 1 .. Len(q) : p < r => pos[p] < pos[r]
      /\ \A j \in DOMAIN keys : SlotOf[keys[j]] = s => \E p \in 1 .. Len(q) : pos[p] = j
  <2>1. Len(keys) \in Nat /\ DOMAIN keys = 1 .. Len(keys)
    OBVIOUS
  <2>2. q \in Seq(Key) /\ Len(q) \in Nat
    BY DEF Picks
  <2> QED
    BY <2>1, <2>2, Zenon DEF Picks
<1>2. k \in DOMAIN keys /\ keys[k] = x /\ SlotOf[x] = s
  BY <1>1, Zenon
<1>3. \A p \in 1 .. i - 1 : p \in 1 .. Len(q) /\ pos[p] < k /\ pos[p] # k
  <2> TAKE p \in 1 .. i - 1
  <2>1. p \in 1 .. Len(q) /\ p < i
    BY <1>1
  <2>2. pos[p] < pos[i] /\ pos[p] \in Nat /\ pos[i] \in Nat
    BY <1>1, <2>1, SMTT(20)
  <2> QED
    BY <2>1, <2>2
<1>4. \A j \in DOMAIN keys :
          data[j] = IF SlotOf[keys[j]] \in ss \/ \E p \in 1 .. i - 1 : pos[p] = j
                    THEN <<keys[j], first[keys[j]]>> ELSE Unfilled
  BY DEF FilledTo
<1>5. data[k] = Unfilled
  BY <1>2, <1>3, <1>4, Zenon
<1>6. \A j \in js : k <= j
  <2> SUFFICES ASSUME NEW j \in DOMAIN keys, keys[j] = x, data[j] = Unfilled PROVE k <= j
    OBVIOUS
  <2>1. \A a, b : <<a, b>> # Unfilled
    BY DEF Unfilled
  <2>2. \A p \in 1 .. i - 1 : pos[p] # j
    <3> SUFFICES ASSUME NEW p \in 1 .. i - 1, pos[p] = j PROVE FALSE
      OBVIOUS
    <3> HIDE DEF data
    <3>1. data[j] = <<keys[j], first[keys[j]]>>
      BY <1>4, Zenon
    <3> QED
      BY <2>1, <3>1, Zenon
  <2>3. PICK p \in 1 .. Len(q) : pos[p] = j
    BY <1>1, <1>2
  <2>4. ~(p < i)
    BY <1>1, <2>2, <2>3
  <2>5. p = i \/ i < p
    BY <1>1, <2>4
  <2>6. pos[i] \in Nat /\ pos[p] \in Nat /\ (i < p => pos[i] < pos[p])
    BY <1>1, <2>3, SMTT(20)
  <2> QED
    BY <2>3, <2>5, <2>6
<1>7. k \in js
  BY <1>2, <1>5
<1>8. (CHOOSE j \in js : \A l \in js : j <= l) = k
  <2>1. js \subseteq Nat
    BY <1>1
  <2> HIDE DEF js, k
  <2>2. \A j \in js : (\A l \in js : j <= l) => j = k
    BY <1>6, <1>7, <2>1
  <2> QED
    BY <1>6, <1>7, <2>2
<1>9. Fill(data, x, first[x]) = [data EXCEPT ![k] = <<x, first[x]>>]
  <2>1. Fill(data, x, first[x]) =
            [data EXCEPT ![CHOOSE j \in js : \A l \in js : j <= l] = <<x, first[x]>>]
    BY <1>7, Zenon DEF Fill
  <2> QED
    BY <1>8, <2>1, Zenon
<1>10. ASSUME NEW j \in DOMAIN keys
       PROVE  (\E p \in 1 .. i : pos[p] = j) <=> j = k \/ \E p \in 1 .. i - 1 : pos[p] = j
  <2>1. i \in 1 .. i /\ \A p \in 1 .. i : p = i \/ p \in 1 .. i - 1
    BY <1>1
  <2>2. \A p \in 1 .. i - 1 : p \in 1 .. i
    BY <1>1
  <2> QED
    BY <2>1, <2>2
<1>11. data = [j \in DOMAIN keys |-> data[j]]
  BY DEF FilledTo
<1> HIDE DEF data, x, k
<1>12. [data EXCEPT ![k] = <<x, first[x]>>] =
           [j \in DOMAIN keys |-> IF j = k THEN <<x, first[x]>> ELSE data[j]]
  BY <1>2, <1>11, Zenon
<1>13. ASSUME NEW j \in DOMAIN keys
       PROVE  (IF j = k THEN <<x, first[x]>> ELSE data[j]) =
              IF SlotOf[keys[j]] \in ss \/ \E p \in 1 .. i : pos[p] = j
              THEN <<keys[j], first[keys[j]]>> ELSE Unfilled
  <2>1. CASE j = k
    BY <1>2, <1>10, <2>1, Zenon
  <2>2. CASE j # k
    BY <1>4, <1>10, <2>2, Zenon
  <2> QED
    BY <2>1, <2>2
<1>14. [j \in DOMAIN keys |-> IF j = k THEN <<x, first[x]>> ELSE data[j]] = FilledTo(ss, pos, i)
  BY <1>13, Zenon DEF FilledTo
<1> QED
  BY <1>9, <1>12, <1>14 DEF data, x

\* A part that is filled in takes exactly its own places.
LEMMA FillAllLemma ==
    ASSUME keys \in Seq(Key), NEW s \in Slot, NEW ss \in SUBSET Slot, s \notin ss,
           values[s] = [i \in DOMAIN Part(s) |-> first[Part(s)[i]]]
    PROVE  FillAll(FilledIn(ss), s) = FilledIn(ss \cup {s})
<1>1. PICK pos : Picks(Part(s), pos, Len(keys), s)
  BY PartLemma
<1> DEFINE q == Part(s)
           m == Len(q)
           data == FilledIn(ss)
           h == [i \in 0 .. m |-> FilledTo(ss, pos, i)]
           Eq(f) == f = [i \in 0 .. m |-> IF i = 0 THEN data ELSE Fill(f[i - 1], q[i], values[s][i])]
           f0 == CHOOSE f : Eq(f)
           T == {i \in 0 .. m : f0[i] = h[i]}
<1>2. m \in Nat /\ DOMAIN q = 1 .. m
  BY <1>1 DEF Picks
<1>3. h[0] = data
  <2>1. FilledTo(ss, pos, 0) = data
    BY DEF FilledTo, FilledIn
  <2>2. 0 \in 0 .. m
    BY <1>2
  <2> HIDE DEF m, data
  <2> QED
    BY <2>1, <2>2
<1>4. ASSUME NEW i \in 1 .. m PROVE h[i] = Fill(h[i - 1], q[i], values[s][i])
  <2>1. i \in 0 .. m /\ i - 1 \in 0 .. m
    BY <1>2
  <2>2. values[s][i] = first[q[i]]
    BY <1>2
  <2>3. Fill(FilledTo(ss, pos, i - 1), q[i], first[q[i]]) = FilledTo(ss, pos, i)
    BY <1>1, FillStep
  <2> HIDE DEF m, q
  <2>4. h[i] = FilledTo(ss, pos, i) /\ h[i - 1] = FilledTo(ss, pos, i - 1)
    BY <2>1
  <2> QED
    BY <2>2, <2>3, <2>4
<1>5. Eq(h)
  <2> HIDE DEF data, q
  <2>1. ASSUME NEW i \in 0 .. m
        PROVE  h[i] = IF i = 0 THEN data ELSE Fill(h[i - 1], q[i], values[s][i])
    <3>1. i = 0 \/ i \in 1 .. m
      BY <1>2
    <3> HIDE DEF h, m
    <3> QED
      BY <1>3, <1>4, <3>1
  <2>2. h = [i \in 0 .. m |-> h[i]]
    OBVIOUS
  <2> HIDE DEF h, m
  <2> QED
    BY <2>1, <2>2, Zenon
<1>6. Eq(f0)
  <2> HIDE DEF Eq
  <2> QED
    BY <1>5, Zenon
<1>7. FillAll(data, s) = f0[m]
  BY Zenon DEF FillAll
<1> HIDE DEF f0, h, data, q
<1>8. 0 \in T
  BY <1>2, <1>3, <1>6
<1>9. ASSUME NEW i \in 1 .. m, i - 1 \in T PROVE i \in T
  <2>1. i \in 0 .. m /\ i # 0
    BY <1>2
  <2>2. f0[i] = Fill(f0[i - 1], q[i], values[s][i])
    <3> HIDE DEF m
    <3> QED
      BY <1>6, <2>1, Zenon
  <2> QED
    BY <1>4, <1>9, <2>1, <2>2, Zenon
<1>10. \A i \in 0 .. m : i \in T
  <2> HIDE DEF T, m
  <2> QED
    BY <1>2, <1>8, <1>9, UpTo, Zenon
<1>11. f0[m] = h[m]
  BY <1>2, <1>10
<1>12. h[m] = FilledTo(ss, pos, m)
  BY <1>2 DEF h
<1>13. FilledTo(ss, pos, m) = FilledIn(ss \cup {s})
  <2>1. ASSUME NEW j \in DOMAIN keys
        PROVE  (SlotOf[keys[j]] \in ss \/ \E p \in 1 .. m : pos[p] = j) <=> SlotOf[keys[j]] \in ss \cup {s}
    BY <1>1, SMTT(20) DEF Picks, q
  <2> HIDE DEF m
  <2> QED
    BY <2>1, Zenon DEF FilledTo, FilledIn
<1> QED
  BY <1>7, <1>11, <1>12, <1>13 DEF data

-----------------------------------------------------------------------------
(* DEL, EXISTS: counting *)

\* The keys a part names are the arguments in its slot.
LEMMA PartRange ==
    ASSUME keys \in Seq(Key), NEW s \in Slot
    PROVE  Range(Part(s)) = {x \in Range(keys) : SlotOf[x] = s}
<1> DEFINE q == Part(s)
<1>1. PICK pos : Picks(q, pos, Len(keys), s)
  BY PartLemma
<1>2. DOMAIN keys = 1 .. Len(keys) /\ DOMAIN q = 1 .. Len(q)
  BY <1>1 DEF Picks
<1> HIDE DEF q
<1>3. ASSUME NEW p \in DOMAIN q PROVE q[p] \in Range(keys) /\ SlotOf[q[p]] = s
  BY <1>1, <1>2 DEF Picks, Range
<1>4. ASSUME NEW j \in DOMAIN keys, SlotOf[keys[j]] = s PROVE keys[j] \in Range(q)
  <2>1. PICK p \in 1 .. Len(q) : pos[p] = j
    BY <1>1, <1>2, <1>4 DEF Picks
  <2>2. q[p] = keys[j] /\ p \in DOMAIN q
    BY <1>1, <1>2, <2>1 DEF Picks
  <2> QED
    BY <2>2, Zenon DEF Range
<1> QED
  BY <1>3, <1>4 DEF Range, q

\* The set of the arguments' slots, and of the arguments themselves, is finite.
LEMMA Finiteness ==
    ASSUME keys \in Seq(Key), SlotOf \in [Key -> Slot]
    PROVE  /\ IsFiniteSet(Slots)
           /\ \A ss : IsFiniteSet(KeysIn(ss)) /\ IsFiniteSet(PositionsIn(ss))
<1>1. DOMAIN keys = 1 .. Len(keys) /\ Len(keys) \in Nat
  OBVIOUS
<1>2. IsFiniteSet(DOMAIN keys)
  BY <1>1, FS_Interval
<1>3. IsFiniteSet(Slots)
  <2> DEFINE f == [j \in DOMAIN keys |-> SlotOf[keys[j]]]
  <2>1. f \in Surjection(DOMAIN keys, Slots)
    BY Zenon DEF Surjection, Slots
  <2> QED
    BY <1>2, <2>1, FS_Surjection
<1>4. IsFiniteSet(Range(keys))
  <2>1. keys \in Surjection(DOMAIN keys, Range(keys))
    BY DEF Surjection, Range
  <2> QED
    BY <1>2, <2>1, FS_Surjection
<1>5. ASSUME NEW ss PROVE IsFiniteSet(KeysIn(ss)) /\ IsFiniteSet(PositionsIn(ss))
  <2>1. KeysIn(ss) \in SUBSET Range(keys)
    BY DEF KeysIn
  <2>2. PositionsIn(ss) \in SUBSET DOMAIN keys
    BY DEF PositionsIn
  <2> QED
    BY <1>2, <1>4, <2>1, <2>2, FS_Subset
<1> QED
  BY <1>3, <1>5

\* Another slot adds its own count.
LEMMA CountsAdd ==
    ASSUME keys \in Seq(Key), SlotOf \in [Key -> Slot], NEW ss, NEW s, s \notin ss
    PROVE  /\ Cardinality(KeysIn(ss \cup {s})) = Cardinality(KeysIn(ss)) + Cardinality(KeysIn({s}))
           /\ Cardinality(PositionsIn(ss \cup {s})) =
                  Cardinality(PositionsIn(ss)) + Cardinality(PositionsIn({s}))
           /\ Cardinality(KeysIn({s})) \in Nat /\ Cardinality(PositionsIn({s})) \in Nat
<1>1. /\ IsFiniteSet(KeysIn(ss)) /\ IsFiniteSet(KeysIn({s}))
      /\ IsFiniteSet(PositionsIn(ss)) /\ IsFiniteSet(PositionsIn({s}))
  BY Finiteness
<1>2. /\ Cardinality(KeysIn(ss)) \in Nat /\ Cardinality(KeysIn({s})) \in Nat
      /\ Cardinality(PositionsIn(ss)) \in Nat /\ Cardinality(PositionsIn({s})) \in Nat
  BY <1>1, FS_CardinalityType
<1>3. KeysIn(ss \cup {s}) = KeysIn(ss) \cup KeysIn({s}) /\ KeysIn(ss) \cap KeysIn({s}) = {}
  BY DEF KeysIn
<1>4. /\ PositionsIn(ss \cup {s}) = PositionsIn(ss) \cup PositionsIn({s})
      /\ PositionsIn(ss) \cap PositionsIn({s}) = {}
  BY DEF PositionsIn
<1>5. Cardinality({}) = 0
  BY FS_EmptySet
<1>6. /\ Cardinality(KeysIn(ss) \cup KeysIn({s})) =
             Cardinality(KeysIn(ss)) + Cardinality(KeysIn({s})) - Cardinality(KeysIn(ss) \cap KeysIn({s}))
      /\ Cardinality(PositionsIn(ss) \cup PositionsIn({s})) =
             Cardinality(PositionsIn(ss)) + Cardinality(PositionsIn({s}))
                 - Cardinality(PositionsIn(ss) \cap PositionsIn({s}))
  BY <1>1, FS_Union, Zenon
<1>7. /\ Cardinality(KeysIn(ss) \cap KeysIn({s})) = 0
      /\ Cardinality(PositionsIn(ss) \cap PositionsIn({s})) = 0
  BY <1>3, <1>4, <1>5, Zenon
<1>8. /\ Cardinality(KeysIn(ss) \cup KeysIn({s})) = Cardinality(KeysIn(ss)) + Cardinality(KeysIn({s}))
      /\ Cardinality(PositionsIn(ss) \cup PositionsIn({s})) =
             Cardinality(PositionsIn(ss)) + Cardinality(PositionsIn({s}))
  BY <1>2, <1>6, <1>7, SMTT(20)
<1> QED
  BY <1>2, <1>3, <1>4, <1>8, Zenon

\* While the data of a slot is untouched, the node's answer is the one it
\* would give at the start.
LEMMA AnswerLemma ==
    ASSUME keys \in Seq(Key), SlotOf \in [Key -> Slot], NEW s \in Slot,
           \A x \in Key : SlotOf[x] = s => store[x] = first[x]
    PROVE  /\ kind = "MGET" => Answer(s) = [i \in DOMAIN Part(s) |-> first[Part(s)[i]]]
           /\ kind = "DEL" => Answer(s) = Cardinality(KeysIn({s}))
           /\ kind = "EXISTS" => Answer(s) = Cardinality(PositionsIn({s}))
<1> DEFINE q == Part(s)
<1>1. PICK pos : Picks(q, pos, Len(keys), s)
  BY PartLemma
<1>2. /\ q \in Seq(Key)
      /\ DOMAIN keys = 1 .. Len(keys) /\ DOMAIN q = 1 .. Len(q)
      /\ Len(q) \in Nat /\ Len(keys) \in Nat
  BY <1>1 DEF Picks
<1>3. \A i \in DOMAIN q : q[i] \in Key /\ SlotOf[q[i]] = s
  <2> HIDE DEF q
  <2> QED
    BY <1>1, <1>2 DEF Picks
<1>4. \A i \in DOMAIN q : store[q[i]] = first[q[i]]
  BY <1>3
<1>5. CASE kind = "MGET"
  <2>1. Answer(s) = [i \in DOMAIN q |-> store[q[i]]]
    BY <1>5 DEF Answer
  <2> HIDE DEF q
  <2>2. [i \in DOMAIN q |-> store[q[i]]] = [i \in DOMAIN q |-> first[q[i]]]
    BY <1>4, Zenon
  <2> QED
    BY <1>5, <2>1, <2>2 DEF q
<1>6. CASE kind = "DEL"
  <2>1. Answer(s) = Cardinality({x \in Range(q) : Present(x)})
    BY <1>6 DEF Answer
  <2>2. \A x \in Range(q) : Present(x) <=> first[x] # Nil
    <3> HIDE DEF q
    <3> QED
      BY <1>4 DEF Range, Present
  <2>3. {x \in Range(q) : Present(x)} = {x \in Range(q) : first[x] # Nil}
    <3> HIDE DEF q
    <3> QED
      BY <2>2, Zenon
  <2>4. Range(q) = {x \in Range(keys) : SlotOf[x] = s}
    BY PartRange
  <2> HIDE DEF q
  <2>5. {x \in Range(q) : first[x] # Nil} = KeysIn({s})
    BY <2>4 DEF KeysIn
  <2> QED
    BY <1>6, <2>1, <2>3, <2>5, Zenon
<1>7. CASE kind = "EXISTS"
  <2> DEFINE A == {j \in DOMAIN q : Present(q[j])}
             B == PositionsIn({s})
             f == [j \in A |-> pos[j]]
  <2>1. Answer(s) = Cardinality(A)
    BY <1>7 DEF Answer
  <2> HIDE DEF q
  <2>2. \A j \in DOMAIN q : j \in A <=> first[q[j]] # Nil
    BY <1>4 DEF Present
  <2>3. IsFiniteSet(A)
    <3>1. IsFiniteSet(1 .. Len(q))
      BY <1>2, FS_Interval
    <3>2. A \in SUBSET (1 .. Len(q))
      BY <1>2
    <3> QED
      BY <3>1, <3>2, FS_Subset
  <2>4. \A j \in A : j \in DOMAIN q
    OBVIOUS
  <2> HIDE DEF A
  <2>5. ASSUME NEW j \in A PROVE pos[j] \in B
    <3>1. j \in 1 .. Len(q) /\ first[q[j]] # Nil
      BY <1>2, <2>2, <2>4
    <3>2. pos[j] \in DOMAIN keys /\ q[j] = keys[pos[j]] /\ SlotOf[keys[pos[j]]] = s
      BY <1>1, <1>2, <3>1 DEF Picks
    <3> QED
      BY <3>1, <3>2 DEF PositionsIn
  <2>6. ASSUME NEW j \in B PROVE \E p \in A : pos[p] = j
    <3>1. j \in DOMAIN keys /\ SlotOf[keys[j]] = s /\ first[keys[j]] # Nil
      BY DEF PositionsIn
    <3>2. PICK p \in 1 .. Len(q) : pos[p] = j
      BY <1>1, <1>2, <3>1 DEF Picks
    <3>3. q[p] = keys[j]
      BY <1>1, <3>2 DEF Picks
    <3> QED
      BY <1>2, <2>2, <3>1, <3>2, <3>3
  <2>7. ASSUME NEW j \in A, NEW p \in A, pos[j] = pos[p] PROVE j = p
    <3>1. j \in 1 .. Len(q) /\ p \in 1 .. Len(q)
      BY <1>2, <2>4
    <3>2. (j < p => pos[j] < pos[p]) /\ (p < j => pos[p] < pos[j])
      BY <1>1, <3>1 DEF Picks
    <3>3. pos[j] \in 1 .. Len(keys)
      BY <1>1, <3>1 DEF Picks
    <3> QED
      BY <1>2, <2>7, <3>1, <3>2, <3>3
  <2>8. f \in Surjection(A, B)
    <3> HIDE DEF B
    <3> QED
      BY <2>5, <2>6, Zenon DEF Surjection
  <2>9. f \in Injection(A, B)
    <3>1. f \in [A -> B]
      BY <2>5, Zenon
    <3> HIDE DEF B
    <3> QED
      BY <2>7, <3>1 DEF Injection, IsInjective
  <2> HIDE DEF f, B
  <2>10. Cardinality(B) = Cardinality(A)
    BY <2>3, <2>8, <2>9, FS_Surjection
  <2> QED
    BY <1>7, <2>1, <2>10 DEF B
<1> QED
  BY <1>5, <1>6, <1>7, SMTT(20)

-----------------------------------------------------------------------------
(* What depends on the request alone does not change *)

LEMMA Frame ==
    ASSUME UNCHANGED request
    PROVE  /\ kind' = kind /\ keys' = keys /\ dangling' = dangling /\ first' = first
           /\ Slots' = Slots
           /\ \A s : Part(s)' = Part(s)
           /\ \A x : After(x)' = After(x)
           /\ \A ss : /\ KeysIn(ss)' = KeysIn(ss)
                      /\ PositionsIn(ss)' = PositionsIn(ss)
                      /\ FilledIn(ss)' = FilledIn(ss)
<1>1. kind' = kind /\ keys' = keys /\ dangling' = dangling /\ first' = first
  BY DEF request
<1>2. Slots' = Slots
  BY <1>1, Zenon DEF Slots
<1>3. ASSUME NEW s PROVE Part(s)' = Part(s)
  BY <1>1, ZenonT(30) DEF Part
<1>4. ASSUME NEW x PROVE After(x)' = After(x)
  <2>1. LastGiven(x)' = LastGiven(x)
    BY <1>1, Zenon DEF LastGiven
  <2> QED
    BY <1>1, <2>1 DEF After
<1>5. ASSUME NEW ss
      PROVE  /\ KeysIn(ss)' = KeysIn(ss)
             /\ PositionsIn(ss)' = PositionsIn(ss)
             /\ FilledIn(ss)' = FilledIn(ss)
  BY <1>1, Zenon DEF KeysIn, PositionsIn, FilledIn, Unfilled
<1> QED
  BY <1>1, <1>2, <1>3, <1>4, <1>5

LEMMA EffectsStay ==
    ASSUME UNCHANGED <<request, execs, store>>, Effects
    PROVE  Effects'
<1>1. execs' = execs /\ store' = store /\ UNCHANGED request
  OBVIOUS
<1>2. keys' = keys /\ dangling' = dangling /\ first' = first /\ \A x : After(x)' = After(x)
  BY <1>1, Frame
<1>3. ASSUME NEW x \in Key
      PROVE  store'[x] = IF execs'[SlotOf[x]] = 1 THEN After(x)' ELSE first'[x]
  BY <1>1, <1>2, Zenon DEF Effects
<1>4. dangling' => execs'[SlotOf[keys'[Len(keys')]]] = 0
  BY <1>1, <1>2 DEF Effects
<1> QED
  BY <1>3, <1>4, Zenon DEF Effects

LEMMA AnswersStay ==
    ASSUME UNCHANGED <<request, execs, values>>, Answers
    PROVE  Answers'
<1>1. execs' = execs /\ values' = values /\ UNCHANGED request
  OBVIOUS
<1>2. kind' = kind /\ first' = first
  BY <1>1, Frame
<1> SUFFICES ASSUME NEW s \in Slot, execs'[s] = 1
             PROVE  /\ kind' = "MGET" => values'[s] = [i \in DOMAIN Part(s)' |-> first'[Part(s)'[i]]]
                    /\ kind' = "DEL" => values'[s] = Cardinality(KeysIn({s})')
                    /\ kind' = "EXISTS" => values'[s] = Cardinality(PositionsIn({s})')
  BY Zenon DEF Answers
<1>3. Part(s)' = Part(s) /\ KeysIn({s})' = KeysIn({s}) /\ PositionsIn({s})' = PositionsIn({s})
  BY <1>1, Frame
<1> QED
  BY <1>1, <1>2, <1>3, Zenon DEF Answers

LEMMA CollectedStays ==
    ASSUME UNCHANGED <<request, req_data, num>>, Ok' = Ok, Collected
    PROVE  Collected'
<1>1. PICK o : o = Ok
  OBVIOUS
<1>2. /\ KeysIn(o)' = KeysIn(o)
      /\ PositionsIn(o)' = PositionsIn(o)
      /\ FilledIn(o)' = FilledIn(o)
  BY Frame
<1>3. /\ KeysIn(Ok)' = KeysIn(o)' /\ KeysIn(Ok) = KeysIn(o)
      /\ PositionsIn(Ok)' = PositionsIn(o)' /\ PositionsIn(Ok) = PositionsIn(o)
      /\ FilledIn(Ok)' = FilledIn(o)' /\ FilledIn(Ok) = FilledIn(o)
  BY <1>1, Zenon DEF KeysIn, PositionsIn, FilledIn
<1>4. kind' = kind /\ req_data' = req_data /\ num' = num
  BY DEF request
<1> QED
  BY <1>2, <1>3, <1>4, Zenon DEF Collected

-----------------------------------------------------------------------------
(* The steps *)

LEMMA InitLemma == Init => MultiInv
<1> SUFFICES ASSUME Init PROVE MultiInv
  OBVIOUS
<1>0. SlotOf \in [Key -> Slot] /\ Arguments \subseteq Seq(Key) \ {<<>>}
  BY MultiKeyAssumption
<1>1. Typed
  <2>1. keys \in Seq(Key) /\ keys # <<>>
    BY <1>0 DEF Init
  <2>2. kind \in Kinds /\ dangling \in BOOLEAN /\ first \in [Key -> {Nil, 0}] /\ DOMAIN store = Key
    BY Zenon DEF Init
  <2>3. execs \in [Slot -> {0, 1}] /\ result \in [Slot -> {"none", "ok", "refused", "failed", "aborted"}]
    BY DEF Init, C!Init
  <2>4. /\ thread_pool \in Seq(Slot)
        /\ co_status \in [Slot -> {"none", "running", "zombie", "dead"}]
        /\ DOMAIN values = Slot
        /\ num \in Nat /\ waited \in Nat /\ reply \in {"none", "ok", "error", "gone"}
    BY DEF Init
  <2> QED
    BY <2>1, <2>2, <2>3, <2>4, SMTT(20) DEF Typed
<1>2. Threads
  BY <1>1 DEF Init, Threads, C!Init
<1>3. Waits
  <2>1. keys \in Seq(Key) /\ keys # <<>>
    BY <1>1 DEF Typed
  <2>2. SlotOf[keys[1]] \in Slots
    <3>1. 1 \in DOMAIN keys
      BY <2>1
    <3> QED
      BY <3>1 DEF Slots
  <2>3. IsFiniteSet(Slots)
    BY <1>0, <2>1, Finiteness
  <2>4. Cardinality(Slots) \in Nat /\ Cardinality(Slots) # 0
    BY <2>2, <2>3, FS_CardinalityType, FS_EmptySet
  <2> QED
    BY <2>4 DEF Init, Waits, NoOrphan
<1>4. Effects
  BY <1>0, <1>1, SMTT(20) DEF Init, Effects, C!Init, Typed
<1>5. Answers
  BY DEF Init, Answers, C!Init
<1>6. Collected
  <2>1. Ok = {}
    BY DEF Init, C!Init, Ok
  <2>2. KeysIn(Ok) = {} /\ PositionsIn(Ok) = {}
    BY <2>1 DEF KeysIn, PositionsIn
  <2>3. FilledIn(Ok) = [j \in DOMAIN keys |-> Unfilled]
    BY <2>1 DEF FilledIn
  <2>4. Cardinality({}) = 0
    BY FS_EmptySet
  <2> QED
    BY <2>2, <2>3, <2>4, Zenon DEF Init, Collected
<1> QED
  BY <1>1, <1>2, <1>3, <1>4, <1>5, <1>6, SMTT(20) DEF MultiInv

LEMMA SpawnStep ==
    ASSUME MultiInv, NEW s \in Slot, Spawn(s)
    PROVE  MultiInv'
<1>0. Typed /\ Threads /\ Waits /\ Effects /\ Answers /\ Collected
  BY DEF MultiInv
<1> DEFINE n == Len(thread_pool)
<1>1. /\ thread_pool' = Append(thread_pool, s)
      /\ thread_pool \in Seq(Slot) /\ n \in Nat /\ DOMAIN thread_pool = 1 .. n
      /\ s \in Slots /\ co_status[s] = "none" /\ reply = "none"
      /\ co_status' = [co_status EXCEPT ![s] = "running"]
      /\ UNCHANGED request
      /\ execs' = execs /\ result' = result /\ values' = values /\ req_data' = req_data
      /\ num' = num /\ waited' = waited /\ reply' = reply /\ store' = store
  BY <1>0 DEF Spawn, Typed
<1>2. /\ thread_pool' \in Seq(Slot)
      /\ Len(thread_pool') = n + 1
      /\ thread_pool'[n + 1] = s
      /\ \A i \in 1 .. n : thread_pool'[i] = thread_pool[i]
      /\ DOMAIN thread_pool' = 1 .. n + 1
  BY <1>1
<1>3. Slots' = Slots /\ kind' = kind /\ keys' = keys /\ dangling' = dangling /\ first' = first
  BY <1>1, Frame
<1>4. /\ co_status' \in [Slot -> {"none", "running", "zombie", "dead"}]
      /\ co_status'[s] = "running"
      /\ \A u \in Slot : u # s => co_status'[u] = co_status[u]
  BY <1>0, <1>1, Zenon DEF Typed
<1>5. \A i \in 1 .. n : thread_pool[i] # s /\ thread_pool[i] \in Slot
  BY <1>0, <1>1 DEF Threads
<1>6. \A i \in 1 .. n + 1 : i \in 1 .. n \/ i = n + 1
  BY <1>1
<1>7. n + 1 \in 1 .. n + 1 /\ \A i \in 1 .. n : i \in 1 .. n + 1
  BY <1>1, SMTT(20)
<1> HIDE DEF n
<1>8. Typed'
  BY <1>0, <1>1, <1>2, <1>3, <1>4, SMTT(20) DEF Typed
<1>9. Threads'
  <2>1. \A i, j \in DOMAIN thread_pool' : thread_pool'[i] = thread_pool'[j] => i = j
    BY <1>0, <1>1, <1>2, <1>5, <1>6, SMTT(20) DEF Threads
  <2>2. \A i \in DOMAIN thread_pool' : thread_pool'[i] \in Slots' /\ co_status'[thread_pool'[i]] # "none"
    BY <1>0, <1>1, <1>2, <1>3, <1>4, <1>5, <1>6, SMTT(20) DEF Threads
  <2>3. \A u \in Slot : co_status'[u] # "none" => \E i \in DOMAIN thread_pool' : thread_pool'[i] = u
    BY <1>0, <1>1, <1>2, <1>4, <1>7, SMTT(20) DEF Threads
  <2>4. \A u \in Slot : co_status'[u] = "none" => execs'[u] = 0
    BY <1>0, <1>1, <1>4, SMTT(20) DEF Threads
  <2>5. \A u \in Slot : co_status'[u] \in {"none", "running"} <=> result'[u] = "none"
    BY <1>0, <1>1, <1>4, SMTT(20) DEF Threads
  <2>6. \A u \in Slot : result'[u] = "ok" => execs'[u] = 1
    BY <1>0, <1>1 DEF Threads
  <2> QED
    BY <2>1, <2>2, <2>3, <2>4, <2>5, <2>6, ZenonT(30) DEF Threads
<1>10. Waits'
  <2>1. waited \in Nat /\ waited <= n
    BY <1>0 DEF Waits, Typed, n
  <2>2. waited' <= Len(thread_pool')
    BY <1>1, <1>2, <2>1, SMTT(20)
  <2>3. \A i \in 1 .. waited' :
            co_status'[thread_pool'[i]] = "dead" /\ result'[thread_pool'[i]] = "ok"
    <3> SUFFICES ASSUME NEW i \in 1 .. waited
                 PROVE  co_status'[thread_pool'[i]] = "dead" /\ result'[thread_pool'[i]] = "ok"
      BY <1>1, Zenon
    <3>1. i \in 1 .. n
      BY <1>1, <2>1, SMTT(20)
    <3> QED
      BY <1>0, <1>1, <1>2, <1>4, <1>5, <3>1, SMTT(20) DEF Waits
  <2>4. waited' < Cardinality(Slots')
    BY <1>0, <1>1, <1>3 DEF Waits
  <2>5. ASSUME NEW i \in waited' + 1 .. Len(thread_pool')
        PROVE  co_status'[thread_pool'[i]] \in {"running", "zombie"}
    <3>1. i = n + 1 \/ (i \in waited + 1 .. n /\ i \in 1 .. n)
      BY <1>1, <1>2, <2>1
    <3>2. CASE i = n + 1
      BY <1>2, <1>4, <3>2, SMTT(20)
    <3>3. CASE i \in waited + 1 .. n /\ i \in 1 .. n
      BY <1>0, <1>1, <1>2, <1>4, <1>5, <3>3, SMTT(20) DEF Waits, n
    <3> QED
      BY <3>1, <3>2, <3>3
  <2> QED
    BY <1>1, <2>2, <2>3, <2>4, <2>5, Zenon DEF Waits, NoOrphan
<1>11. Effects' /\ Answers'
  BY <1>0, <1>1, EffectsStay, AnswersStay, SMTT(20)
<1>12. Collected'
  <2>1. Ok' = Ok
    BY <1>1 DEF Ok
  <2> QED
    BY <1>0, <1>1, <2>1, CollectedStays
<1> QED
  BY <1>8, <1>9, <1>10, <1>11, <1>12 DEF MultiInv

\* Where thread_wait is in thread_pool, when it looks at a thread.
LEMMA WaitPlace ==
    ASSUME Typed, Threads, Waits, reply = "none", Finished
    PROVE  /\ waited + 1 \in 1 .. Len(thread_pool)
           /\ DOMAIN thread_pool = 1 .. Len(thread_pool) /\ Len(thread_pool) \in Nat
           /\ Waited \in Slot /\ Waited = thread_pool[waited + 1]
           /\ \A i \in 1 .. Len(thread_pool) : i # waited + 1 => thread_pool[i] # Waited
           /\ \A i \in 1 .. Len(thread_pool) : thread_pool[i] \in Slot
           /\ \A s \in Slot : co_status[s] # "none" =>
                  \E i \in 1 .. Len(thread_pool) : thread_pool[i] = s
<1>1. DOMAIN thread_pool = 1 .. Len(thread_pool) /\ Len(thread_pool) \in Nat /\ waited \in Nat
  BY DEF Typed
<1>2. waited + 1 \in 1 .. Len(thread_pool)
  BY <1>1 DEF Waits, Finished
<1>3. \A i \in 1 .. Len(thread_pool) : thread_pool[i] \in Slot
  BY <1>1 DEF Typed
<1>4. \A i \in 1 .. Len(thread_pool) : i # waited + 1 => thread_pool[i] # thread_pool[waited + 1]
  BY <1>1, <1>2 DEF Threads
<1>5. \A s \in Slot : co_status[s] # "none" => \E i \in 1 .. Len(thread_pool) : thread_pool[i] = s
  BY <1>1 DEF Threads
<1> QED
  BY <1>1, <1>2, <1>3, <1>4, <1>5, Zenon DEF Waited

LEMMA WaitOkStep ==
    ASSUME MultiInv, WaitOk
    PROVE  MultiInv'
<1>0. Typed /\ Threads /\ Waits /\ Effects /\ Answers /\ Collected
  BY DEF MultiInv
<1> DEFINE n == Len(thread_pool)
<1>1. PICK w : w = Waited
  OBVIOUS
<1>2. /\ reply = "none" /\ Finished
      /\ co_status[w] = "zombie" /\ result[w] = "ok"
      /\ co_status' = [co_status EXCEPT ![w] = "dead"]
      /\ waited' = waited + 1
      /\ reply' = IF waited' = n THEN "ok" ELSE "none"
      /\ UNCHANGED request
      /\ thread_pool' = thread_pool /\ execs' = execs /\ result' = result /\ values' = values
      /\ req_data' = req_data /\ num' = num /\ store' = store
  BY <1>1 DEF WaitOk
<1>3. /\ waited + 1 \in 1 .. n
      /\ DOMAIN thread_pool = 1 .. n /\ n \in Nat
      /\ w \in Slot /\ w = thread_pool[waited + 1]
      /\ \A i \in 1 .. n : i # waited + 1 => thread_pool[i] # w
      /\ \A i \in 1 .. n : thread_pool[i] \in Slot
      /\ \A s \in Slot : co_status[s] # "none" => \E i \in 1 .. n : thread_pool[i] = s
  BY <1>0, <1>1, <1>2, WaitPlace, Zenon
<1>4. Slots' = Slots /\ kind' = kind /\ keys' = keys /\ dangling' = dangling /\ first' = first
  BY <1>2, Frame
<1>5. /\ co_status' \in [Slot -> {"none", "running", "zombie", "dead"}]
      /\ co_status'[w] = "dead"
      /\ \A u \in Slot : u # w => co_status'[u] = co_status[u]
  BY <1>0, <1>2, <1>3, Zenon DEF Typed
<1>6. n = Cardinality(Slots) /\ waited \in Nat
  BY <1>0, <1>2 DEF Finished, Typed
<1>7. Typed'
  <2>1. reply' \in {"none", "ok", "error", "gone"} /\ waited' \in Nat
    BY <1>2, <1>6
  <2> QED
    BY <1>0, <1>2, <1>4, <1>5, <2>1 DEF Typed
<1>8. Threads'
  <2>1. \A i, j \in DOMAIN thread_pool' : thread_pool'[i] = thread_pool'[j] => i = j
    BY <1>0, <1>2, Zenon DEF Threads
  <2>2. \A i \in DOMAIN thread_pool' : thread_pool'[i] \in Slots' /\ co_status'[thread_pool'[i]] # "none"
    BY <1>0, <1>2, <1>3, <1>4, <1>5, Zenon DEF Threads
  <2>3. \A u \in Slot : co_status'[u] # "none" => \E i \in DOMAIN thread_pool' : thread_pool'[i] = u
    BY <1>2, <1>3, <1>5, ZenonT(30)
  <2>4. \A u \in Slot : co_status'[u] = "none" => execs'[u] = 0
    BY <1>0, <1>2, <1>5, Zenon DEF Threads
  <2>5. \A u \in Slot : co_status'[u] \in {"none", "running"} <=> result'[u] = "none"
    BY <1>0, <1>2, <1>5, SMTT(20) DEF Threads
  <2>6. \A u \in Slot : result'[u] = "ok" => execs'[u] = 1
    BY <1>0, <1>2 DEF Threads
  <2> QED
    BY <2>1, <2>2, <2>3, <2>4, <2>5, <2>6, Zenon DEF Threads
<1>9. Waits'
  <2>1. waited' <= Len(thread_pool')
    BY <1>2, <1>3, <1>6
  <2>2. ASSUME NEW i \in 1 .. waited'
        PROVE  co_status'[thread_pool'[i]] = "dead" /\ result'[thread_pool'[i]] = "ok"
    <3>1. i = waited + 1 \/ (i \in 1 .. waited /\ i \in 1 .. n /\ i # waited + 1)
      BY <1>2, <1>3, <1>6
    <3>2. CASE i = waited + 1
      BY <1>2, <1>3, <1>5, <3>2, Zenon
    <3>3. CASE i \in 1 .. waited /\ i \in 1 .. n /\ i # waited + 1
      BY <1>0, <1>2, <1>3, <1>5, <3>3 DEF Waits
    <3> QED
      BY <3>1, <3>2, <3>3
  <2>3. CASE reply' = "none"
    <3>1. waited' < Cardinality(Slots')
      BY <1>2, <1>3, <1>4, <1>6, <2>3
    <3>2. ASSUME NEW i \in waited' + 1 .. Len(thread_pool')
          PROVE  co_status'[thread_pool'[i]] \in {"running", "zombie"}
      <4>1. i \in waited + 1 .. n /\ i \in 1 .. n /\ i # waited + 1
        BY <1>2, <1>3, <1>6
      <4> QED
        BY <1>0, <1>2, <1>3, <1>5, <4>1, Zenon DEF Waits
    <3> QED
      BY <2>1, <2>2, <2>3, <3>1, <3>2, Zenon DEF Waits, NoOrphan
  <2>4. CASE reply' = "ok"
    <3>1. waited' = n
      BY <1>2, <2>4
    <3>2. Finished' /\ waited' = Len(thread_pool')
      BY <1>2, <1>4, <1>6, <3>1 DEF Finished
    <3>3. ASSUME NEW u \in Slot PROVE co_status'[u] \in {"none", "dead"}
      <4>1. CASE co_status'[u] = "none"
        BY <4>1
      <4>2. CASE co_status'[u] # "none"
        <5>1. PICK i \in 1 .. n : thread_pool[i] = u
          BY <1>3, <1>5, <4>2, Zenon
        <5> QED
          BY <1>2, <2>2, <3>1, <5>1, Zenon
      <4> QED
        BY <4>1, <4>2
    <3> QED
      BY <2>1, <2>2, <2>4, <3>2, <3>3, Zenon DEF Waits, NoOrphan
  <2> QED
    BY <1>2, <2>3, <2>4, SMTT(20)
<1>10. Effects' /\ Answers'
  BY <1>0, <1>2, EffectsStay, AnswersStay, SMTT(20)
<1>11. Collected'
  <2>1. Ok' = Ok
    BY <1>2 DEF Ok
  <2> QED
    BY <1>0, <1>2, <2>1, CollectedStays, SMTT(20)
<1> QED
  BY <1>7, <1>8, <1>9, <1>10, <1>11 DEF MultiInv

\* The threads in ss are killed: what both ends of a request that is given up
\* have in common.
LEMMA KillStep ==
    ASSUME MultiInv, UNCHANGED request,
           UNCHANGED <<thread_pool, execs, values, req_data, num, waited, store>>,
           NEW ss, ss \subseteq Slot,
           \A s \in ss : co_status[s] # "none",
           \A s \in Slot : co_status[s] = "running" => s \in ss,
           result' = Killed(ss),
           co_status' \in [Slot -> {"none", "running", "zombie", "dead"}],
           \A s \in Slot : co_status[s] = "none" => co_status'[s] = "none",
           \A s \in Slot : co_status[s] # "none" => co_status'[s] = "dead",
           reply' \in {"error", "gone"}
    PROVE  MultiInv'
<1>0. Typed /\ Threads /\ Waits /\ Effects /\ Answers /\ Collected
  BY SMTT(20) DEF MultiInv
<1>1. /\ \A s \in Slot : result[s] # "none" => result'[s] = result[s]
      /\ \A s \in Slot : result[s] = "none" => result'[s] = IF s \in ss THEN "aborted" ELSE "none"
      /\ result' \in [Slot -> {"none", "ok", "refused", "failed", "aborted"}]
  BY <1>0 DEF Killed, Typed
<1>2. Slots' = Slots /\ kind' = kind /\ keys' = keys /\ dangling' = dangling /\ first' = first
  BY Frame
<1>3. /\ thread_pool' = thread_pool /\ execs' = execs /\ values' = values /\ req_data' = req_data
      /\ num' = num /\ waited' = waited /\ store' = store
  OBVIOUS
<1>4. /\ DOMAIN thread_pool = 1 .. Len(thread_pool) /\ Len(thread_pool) \in Nat /\ waited \in Nat
      /\ \A i \in DOMAIN thread_pool : thread_pool[i] \in Slot
  BY <1>0, SMTT(20) DEF Typed
<1>5. Typed'
  BY <1>0, <1>1, <1>2, <1>3 DEF Typed
<1>6. Threads'
  <2>1. \A i, j \in DOMAIN thread_pool' : thread_pool'[i] = thread_pool'[j] => i = j
    BY <1>0, <1>3, ZenonT(30) DEF Threads
  <2>2. \A i \in DOMAIN thread_pool' : thread_pool'[i] \in Slots' /\ co_status'[thread_pool'[i]] # "none"
    BY <1>0, <1>2, <1>3, <1>4, SMTT(20) DEF Threads
  <2>3. \A u \in Slot : co_status'[u] # "none" => \E i \in DOMAIN thread_pool' : thread_pool'[i] = u
    BY <1>0, <1>3, SMTT(20) DEF Threads
  <2>4. \A u \in Slot : co_status'[u] = "none" => execs'[u] = 0
    BY <1>0, <1>3 DEF Threads
  <2>5. ASSUME NEW u \in Slot
        PROVE  co_status'[u] \in {"none", "running"} <=> result'[u] = "none"
    <3>1. CASE co_status[u] = "none"
      BY <1>0, <1>1, <3>1, Zenon DEF Threads
    <3>2. CASE co_status[u] = "running"
      BY <1>0, <1>1, <3>2, Zenon DEF Threads
    <3>3. CASE co_status[u] \notin {"none", "running"}
      BY <1>0, <1>1, <3>3, Zenon DEF Threads
    <3> QED
      BY <3>1, <3>2, <3>3, Zenon
  <2>6. \A u \in Slot : result'[u] = "ok" => execs'[u] = 1
    BY <1>0, <1>1, <1>3, SMTT(20) DEF Threads
  <2> QED
    BY <2>1, <2>2, <2>3, <2>4, <2>5, <2>6, Zenon DEF Threads
<1>7. Waits'
  <2>1. ASSUME NEW i \in 1 .. waited
        PROVE  co_status'[thread_pool[i]] = "dead" /\ result'[thread_pool[i]] = "ok"
    <3>1. waited <= Len(thread_pool)
      BY <1>0 DEF Waits
    <3>2. co_status[thread_pool[i]] = "dead" /\ result[thread_pool[i]] = "ok"
      BY <1>0 DEF Waits
    <3>3. i \in DOMAIN thread_pool
      BY <1>4, <3>1
    <3>4. thread_pool[i] \in Slot
      BY <1>4, <3>3
    <3> QED
      BY <1>1, <3>2, <3>4, SMTT(20)
  <2>2. \A u \in Slot : co_status'[u] \in {"none", "dead"}
    OBVIOUS
  <2>3. waited' <= Len(thread_pool')
    BY <1>0, <1>3 DEF Waits
  <2> QED
    BY <1>3, <2>1, <2>2, <2>3, SMTT(20) DEF Waits, NoOrphan
<1>8. Effects' /\ Answers'
  BY <1>0, EffectsStay, AnswersStay, SMTT(20)
<1>9. Collected'
  <2>1. Ok' = Ok
    BY <1>1, SMTT(20) DEF Ok
  <2> QED
    BY <1>0, <2>1, CollectedStays, SMTT(20)
<1> QED
  BY <1>5, <1>6, <1>7, <1>8, <1>9, SMTT(20) DEF MultiInv

LEMMA WaitErrorStep ==
    ASSUME MultiInv, WaitError
    PROVE  MultiInv'
<1>0. Typed /\ Threads /\ Waits
  BY DEF MultiInv
<1> DEFINE n == Len(thread_pool)
<1>1. PICK w : w = Waited
  OBVIOUS
<1>2. PICK ss : ss = {thread_pool[j] : j \in waited + 2 .. n}
  BY Zenon
<1>3. /\ reply = "none" /\ Finished
      /\ co_status[w] = "zombie" /\ result[w] # "ok"
      /\ co_status' = [s \in Slot |-> IF s \in ss \cup {w} THEN "dead" ELSE co_status[s]]
      /\ result' = Killed(ss)
      /\ reply' = "error"
      /\ UNCHANGED request
      /\ UNCHANGED <<thread_pool, execs, values, req_data, num, waited, store>>
  BY <1>1, <1>2, Zenon DEF WaitError, Killed
<1>4. /\ waited + 1 \in 1 .. n
      /\ DOMAIN thread_pool = 1 .. n /\ n \in Nat
      /\ w \in Slot /\ w = thread_pool[waited + 1]
      /\ \A i \in 1 .. n : thread_pool[i] \in Slot
      /\ \A s \in Slot : co_status[s] # "none" => \E i \in 1 .. n : thread_pool[i] = s
  BY <1>0, <1>1, <1>3, WaitPlace
<1>5. waited \in Nat /\ \A j \in waited + 2 .. n : j \in 1 .. n
  BY <1>0, SMTT(20) DEF Typed
<1>6. ASSUME NEW s \in ss PROVE s \in Slot /\ co_status[s] # "none"
  <2>1. PICK j \in waited + 2 .. n : s = thread_pool[j]
    BY <1>2
  <2> QED
    BY <1>0, <1>4, <1>5, <2>1, SMTT(20) DEF Threads
<1>7. ASSUME NEW s \in Slot, co_status[s] # "none"
      PROVE  (co_status[s] = "dead" /\ co_status[s] # "running") \/ s = w \/ s \in ss
  <2>1. PICK i \in 1 .. n : thread_pool[i] = s
    BY <1>4, <1>7
  <2>2. i \in 1 .. waited \/ i = waited + 1 \/ i \in waited + 2 .. n
    BY <1>4, <1>5
  <2>3. CASE i \in 1 .. waited
    BY <1>0, <2>1, <2>3 DEF Waits
  <2>4. CASE i = waited + 1
    BY <1>4, <2>1, <2>4
  <2>5. CASE i \in waited + 2 .. n
    BY <1>2, <2>1, <2>5, SMTT(20)
  <2> QED
    BY <2>2, <2>3, <2>4, <2>5, SMTT(20)
<1> HIDE DEF n
<1>8. /\ co_status' \in [Slot -> {"none", "running", "zombie", "dead"}]
      /\ \A s \in Slot : co_status'[s] = IF s \in ss \cup {w} THEN "dead" ELSE co_status[s]
  BY <1>0, <1>3 DEF Typed
<1>9. /\ \A s \in Slot : co_status[s] = "none" => co_status'[s] = "none"
      /\ \A s \in Slot : co_status[s] # "none" => co_status'[s] = "dead"
  BY <1>3, <1>6, <1>7, <1>8, Zenon
<1>10. \A s \in Slot : co_status[s] = "running" => s \in ss
  BY <1>3, <1>7
<1>11. ss \subseteq Slot /\ \A s \in ss : co_status[s] # "none"
  BY <1>6
<1>12. reply' \in {"error", "gone"}
  BY <1>3, Zenon
<1> QED
  BY <1>3, <1>8, <1>9, <1>10, <1>11, <1>12, KillStep, SMTT(20)

LEMMA ClientAbortStep ==
    ASSUME MultiInv, ClientAbort
    PROVE  MultiInv'
<1>0. Typed
  BY DEF MultiInv
<1>1. PICK ss : ss = {s \in Slot : co_status[s] # "none"}
  BY Zenon
<1>2. /\ co_status' = [s \in Slot |-> IF co_status[s] = "none" THEN "none" ELSE "dead"]
      /\ result' = Killed(ss)
      /\ reply' \in {"error", "gone"}
      /\ UNCHANGED request
      /\ UNCHANGED <<thread_pool, execs, values, req_data, num, waited, store>>
  BY <1>1, Zenon DEF ClientAbort, Killed
<1>3. /\ co_status' \in [Slot -> {"none", "running", "zombie", "dead"}]
      /\ \A s \in Slot : co_status[s] = "none" => co_status'[s] = "none"
      /\ \A s \in Slot : co_status[s] # "none" => co_status'[s] = "dead"
  BY <1>2
<1>4. /\ ss \subseteq Slot
      /\ \A s \in ss : co_status[s] # "none"
      /\ \A s \in Slot : co_status[s] = "running" => s \in ss
  BY <1>1
<1> QED
  BY <1>2, <1>3, <1>4, KillStep

LEMMA ReturnStep ==
    ASSUME MultiInv, NEW s \in Slot, NEW res \in Outcomes, Return(s, res)
    PROVE  MultiInv'
<1>0. Typed /\ Threads /\ Waits /\ Effects /\ Answers /\ Collected
  BY DEF MultiInv
<1>1. SlotOf \in [Key -> Slot] /\ keys \in Seq(Key)
  BY <1>0, MultiKeyAssumption DEF Typed
<1>2. /\ co_status[s] = "running" /\ result[s] = "none"
      /\ res = "ok" => execs[s] = 1
      /\ result' = [result EXCEPT ![s] = res]
      /\ co_status' = [co_status EXCEPT ![s] = "zombie"]
      /\ execs' = execs /\ UNCHANGED request
      /\ thread_pool' = thread_pool /\ values' = values /\ waited' = waited
      /\ reply' = reply /\ store' = store
  BY DEF Return, C!Finish
<1>3. /\ req_data' = IF res = "ok" /\ kind = "MGET" THEN FillAll(req_data, s) ELSE req_data
      /\ num' = IF res = "ok" /\ kind \in {"DEL", "EXISTS"} THEN num + values[s] ELSE num
  BY DEF Return, Num
<1>4. Slots' = Slots /\ kind' = kind /\ keys' = keys /\ dangling' = dangling /\ first' = first
  BY <1>2, Frame, SMTT(20)
<1>5. /\ co_status' \in [Slot -> {"none", "running", "zombie", "dead"}]
      /\ co_status'[s] = "zombie"
      /\ \A u \in Slot : u # s => co_status'[u] = co_status[u]
  BY <1>0, <1>2, SMTT(20) DEF Typed
<1>6. /\ result' \in [Slot -> {"none", "ok", "refused", "failed", "aborted"}]
      /\ result'[s] = res /\ res # "none"
      /\ \A u \in Slot : u # s => result'[u] = result[u]
  BY <1>0, <1>2 DEF Typed, Outcomes
<1>7. PICK o : o = Ok
  OBVIOUS
<1>8. s \notin o /\ o \in SUBSET Slot
  BY <1>2, <1>7 DEF Ok
<1>9. Ok' = IF res = "ok" THEN o \cup {s} ELSE o
  BY <1>6, <1>7, <1>8 DEF Ok
<1>10. /\ Cardinality(KeysIn(o \cup {s})) = Cardinality(KeysIn(o)) + Cardinality(KeysIn({s}))
       /\ Cardinality(PositionsIn(o \cup {s})) =
              Cardinality(PositionsIn(o)) + Cardinality(PositionsIn({s}))
       /\ Cardinality(KeysIn({s})) \in Nat /\ Cardinality(PositionsIn({s})) \in Nat
  BY <1>1, <1>8, CountsAdd, Zenon
<1>11. res = "ok" =>
          /\ kind = "MGET" => values[s] = [i \in DOMAIN Part(s) |-> first[Part(s)[i]]]
          /\ kind = "DEL" => values[s] = Cardinality(KeysIn({s}))
          /\ kind = "EXISTS" => values[s] = Cardinality(PositionsIn({s}))
  BY <1>0, <1>2, Zenon DEF Answers
<1>12. Typed'
  <2>1. num' \in Nat
    <3>1. num \in Nat
      BY <1>0 DEF Typed
    <3> QED
      BY <1>3, <1>10, <1>11, <3>1, SMTT(20)
  <2> QED
    BY <1>0, <1>2, <1>4, <1>5, <1>6, <2>1, ZenonT(30) DEF Typed
<1>13. Threads'
  <2>1. \A i, j \in DOMAIN thread_pool' : thread_pool'[i] = thread_pool'[j] => i = j
    BY <1>0, <1>2 DEF Threads
  <2>2. \A i \in DOMAIN thread_pool' : thread_pool'[i] \in Slots' /\ co_status'[thread_pool'[i]] # "none"
    <3>1. \A i \in DOMAIN thread_pool : thread_pool[i] \in Slot
      BY <1>0 DEF Typed
    <3> QED
      BY <1>0, <1>2, <1>4, <1>5, <3>1, Zenon DEF Threads
  <2>3. \A u \in Slot : co_status'[u] # "none" => \E i \in DOMAIN thread_pool' : thread_pool'[i] = u
    <3>1. \A u \in Slot : co_status[u] # "none" => \E i \in DOMAIN thread_pool : thread_pool[i] = u
      BY <1>0, SMTT(20) DEF Threads
    <3>2. \A u \in Slot : co_status'[u] # "none" => co_status[u] # "none"
      BY <1>2, <1>5
    <3>3. thread_pool' = thread_pool
      BY <1>2, SMTT(20)
    <3> QED
      BY ONLY <3>1, <3>2, <3>3, SMTT(20)
  <2>4. \A u \in Slot : co_status'[u] = "none" => execs'[u] = 0
    BY <1>0, <1>2, <1>5, SMTT(20) DEF Threads
  <2>5. \A u \in Slot : co_status'[u] \in {"none", "running"} <=> result'[u] = "none"
    BY <1>0, <1>5, <1>6, SMTT(20) DEF Threads
  <2>6. \A u \in Slot : result'[u] = "ok" => execs'[u] = 1
    BY <1>0, <1>2, <1>6 DEF Threads
  <2> QED
    BY <2>1, <2>2, <2>3, <2>4, <2>5, <2>6, Zenon DEF Threads
<1>14. Waits'
  <2>1. /\ reply = "none"
        /\ waited' <= Len(thread_pool')
        /\ waited' < Cardinality(Slots')
    BY <1>0, <1>2, <1>4, Zenon DEF Waits, NoOrphan
  <2>2. /\ DOMAIN thread_pool = 1 .. Len(thread_pool) /\ Len(thread_pool) \in Nat /\ waited \in Nat
        /\ \A i \in DOMAIN thread_pool : thread_pool[i] \in Slot
    BY <1>0 DEF Typed
  <2>3. ASSUME NEW i \in 1 .. waited
        PROVE  co_status'[thread_pool[i]] = "dead" /\ result'[thread_pool[i]] = "ok"
    <3>1. i \in DOMAIN thread_pool
      BY <1>2, <2>1, <2>2
    <3>2. co_status[thread_pool[i]] = "dead" /\ result[thread_pool[i]] = "ok"
      BY <1>0, Zenon DEF Waits
    <3>3. thread_pool[i] \in Slot /\ thread_pool[i] # s
      BY <1>2, <2>2, <3>1, <3>2
    <3> QED
      BY <1>5, <1>6, <3>2, <3>3, ZenonT(30)
  <2>4. ASSUME NEW i \in waited + 1 .. Len(thread_pool)
        PROVE  co_status'[thread_pool[i]] \in {"running", "zombie"}
    <3>1. i \in DOMAIN thread_pool
      BY <2>2
    <3>2. co_status[thread_pool[i]] \in {"running", "zombie"}
      BY <1>0, <2>1, Zenon DEF Waits
    <3> QED
      BY <1>5, <2>2, <3>1, <3>2, Zenon
  <2> QED
    BY <1>2, <2>1, <2>3, <2>4, Zenon DEF Waits, NoOrphan
<1>15. Effects' /\ Answers'
  BY <1>0, <1>2, EffectsStay, AnswersStay
<1>16. Collected'
  <2>1. CASE res # "ok"
    <3>1. Ok' = Ok /\ UNCHANGED <<request, req_data, num>>
      BY <1>2, <1>3, <1>7, <1>9, <2>1, Zenon
    <3> QED
      BY <1>0, <3>1, CollectedStays
  <2>2. CASE res = "ok"
    <3>1. PICK e : e = o \cup {s}
      BY Zenon
    <3>2. /\ KeysIn(e)' = KeysIn(e)
          /\ PositionsIn(e)' = PositionsIn(e)
          /\ FilledIn(e)' = FilledIn(e)
      BY <1>2, Frame
    <3>3. e = Ok'
      BY <1>9, <2>2, <3>1
    <3>4. /\ KeysIn(Ok)' = KeysIn(e)'
          /\ PositionsIn(Ok)' = PositionsIn(e)'
          /\ FilledIn(Ok)' = FilledIn(e)'
      BY <3>3, Zenon DEF KeysIn, PositionsIn, FilledIn
    <3>5. kind = "MGET" => req_data' = FilledIn(e)
      <4> SUFFICES ASSUME kind = "MGET" PROVE req_data' = FilledIn(e)
        OBVIOUS
      <4>1. req_data = FilledIn(o)
        BY <1>0, <1>7, Zenon DEF Collected
      <4>2. FillAll(FilledIn(o), s) = FilledIn(o \cup {s})
        BY <1>1, <1>8, <1>11, <2>2, FillAllLemma, Zenon
      <4> QED
        BY <1>3, <2>2, <3>1, <4>1, <4>2, SMTT(20)
    <3>6. kind = "DEL" => num' = Cardinality(KeysIn(e))
      <4>1. kind = "DEL" => num = Cardinality(KeysIn(o))
        BY <1>0, <1>7, Zenon DEF Collected
      <4> QED
        BY <1>3, <1>10, <1>11, <2>2, <3>1, <4>1, Zenon
    <3>7. kind = "EXISTS" => num' = Cardinality(PositionsIn(e))
      <4>1. kind = "EXISTS" => num = Cardinality(PositionsIn(o))
        BY <1>0, <1>7 DEF Collected
      <4> QED
        BY <1>3, <1>10, <1>11, <2>2, <3>1, <4>1, Zenon
    <3> QED
      BY <1>4, <3>2, <3>4, <3>5, <3>6, <3>7, Zenon DEF Collected
  <2> QED
    BY <2>1, <2>2
<1> QED
  BY <1>12, <1>13, <1>14, <1>15, <1>16 DEF MultiInv

LEMMA ExecuteStep ==
    ASSUME MultiInv, NEW s \in Slot, Execute(s)
    PROVE  MultiInv'
<1>0. Typed /\ Threads /\ Waits /\ Effects /\ Answers /\ Collected
  BY DEF MultiInv
<1>1. SlotOf \in [Key -> Slot] /\ keys \in Seq(Key)
  BY <1>0, MultiKeyAssumption DEF Typed
<1>2. /\ co_status[s] # "none"
      /\ ~(dangling /\ SlotOf[keys[Len(keys)]] = s)
      /\ execs[s] = 0 /\ result[s] \in {"none", "failed", "aborted"}
      /\ execs' = [execs EXCEPT ![s] = 1]
      /\ values' = [values EXCEPT ![s] = Answer(s)]
      /\ store' = Stored(s)
      /\ result' = result /\ UNCHANGED request
      /\ thread_pool' = thread_pool /\ co_status' = co_status /\ req_data' = req_data
      /\ num' = num /\ waited' = waited /\ reply' = reply
  BY Zenon DEF Execute, C!Execute
<1>3. Slots' = Slots /\ kind' = kind /\ keys' = keys /\ dangling' = dangling /\ first' = first
  BY <1>2, Frame, Zenon
<1>4. /\ execs' \in [Slot -> {0, 1}]
      /\ execs'[s] = 1
      /\ \A u \in Slot : u # s => execs'[u] = execs[u]
  BY <1>0, <1>2 DEF Typed
<1>5. /\ DOMAIN values' = Slot
      /\ values'[s] = Answer(s)
      /\ \A u \in Slot : u # s => values'[u] = values[u]
  BY <1>0, <1>2, ZenonT(30) DEF Typed
<1>6. \A x \in Key : SlotOf[x] = s => store[x] = first[x]
  BY <1>0, <1>2, SMTT(20) DEF Effects
<1>7. Typed'
  <2>1. DOMAIN store' = Key
    BY <1>2, Zenon DEF Stored
  <2> QED
    BY <1>0, <1>2, <1>3, <1>4, <1>5, <2>1, SMTT(20) DEF Typed
<1>8. Threads'
  <2>1. /\ thread_pool' = thread_pool /\ co_status' = co_status /\ result' = result
        /\ Slots' = Slots
    BY <1>2, <1>3, SMTT(20)
  <2>2. \A u \in Slot : co_status[u] = "none" => execs'[u] = 0
    BY <1>0, <1>2, <1>4, SMTT(20) DEF Threads
  <2>3. \A u \in Slot : result[u] = "ok" => execs'[u] = 1
    BY <1>0, <1>4 DEF Threads
  <2>4. Threads
    BY <1>0
  <2> QED
    BY ONLY <2>1, <2>2, <2>3, <2>4, ZenonT(30) DEF Threads
<1>9. Waits'
  BY <1>0, <1>2, <1>3, Zenon DEF Waits, NoOrphan, Finished
<1>10. Effects'
  <2>1. ASSUME NEW x \in Key
        PROVE  store'[x] = IF execs'[SlotOf[x]] = 1 THEN After(x)' ELSE first'[x]
    <3>1. After(x)' = After(x)
      BY <1>2, Frame, Zenon
    <3>2. Range(Part(s)) = {y \in Range(keys) : SlotOf[y] = s}
      BY <1>1, PartRange
    <3>3. SlotOf[x] \in Slot
      BY <1>1
    <3>4. store'[x] = CASE kind = "DEL"  /\ x \in Range(Part(s)) -> Nil
                        [] kind = "MSET" /\ x \in Range(Part(s)) -> LastGiven(x)
                        [] OTHER                                 -> store[x]
      BY <1>2, SMTT(20) DEF Stored
    <3>5. CASE SlotOf[x] = s
      <4>1. x \in Range(Part(s)) <=> x \in Range(keys)
        BY <3>2, <3>5
      <4>2. store'[x] = After(x)
        BY <1>6, <3>4, <3>5, <4>1 DEF After
      <4> QED
        BY <1>4, <3>1, <3>5, <4>2, SMTT(20)
    <3>6. CASE SlotOf[x] # s
      <4>1. x \notin Range(Part(s))
        BY <3>2, <3>6
      <4>2. store'[x] = store[x]
        BY <3>4, <4>1, Zenon
      <4>3. store[x] = IF execs[SlotOf[x]] = 1 THEN After(x) ELSE first[x]
        BY <1>0 DEF Effects
      <4>4. execs'[SlotOf[x]] = execs[SlotOf[x]]
        BY <1>4, <3>3, <3>6, ZenonT(30)
      <4> QED
        BY <1>3, <3>1, <4>2, <4>3, <4>4, Zenon
    <3> QED
      BY <3>5, <3>6
  <2>2. dangling' => execs'[SlotOf[keys'[Len(keys')]]] = 0
    <3> SUFFICES ASSUME dangling PROVE execs'[SlotOf[keys[Len(keys)]]] = 0
      BY <1>3, Zenon
    <3>1. keys[Len(keys)] \in Key
      BY <1>0, SMTT(20) DEF Typed
    <3>2. SlotOf[keys[Len(keys)]] \in Slot /\ SlotOf[keys[Len(keys)]] # s
      BY <1>1, <1>2, <3>1
    <3> QED
      BY <1>0, <1>4, <3>2 DEF Effects
  <2> QED
    BY <2>1, <2>2, Zenon DEF Effects
<1>11. Answers'
  <2> SUFFICES ASSUME NEW u \in Slot, execs'[u] = 1
               PROVE  /\ kind' = "MGET" => values'[u] = [i \in DOMAIN Part(u)' |-> first'[Part(u)'[i]]]
                      /\ kind' = "DEL" => values'[u] = Cardinality(KeysIn({u})')
                      /\ kind' = "EXISTS" => values'[u] = Cardinality(PositionsIn({u})')
    BY Zenon DEF Answers
  <2>1. Part(u)' = Part(u) /\ KeysIn({u})' = KeysIn({u}) /\ PositionsIn({u})' = PositionsIn({u})
    BY <1>2, Frame, ZenonT(30)
  <2>2. /\ kind = "MGET" => values'[u] = [i \in DOMAIN Part(u) |-> first[Part(u)[i]]]
        /\ kind = "DEL" => values'[u] = Cardinality(KeysIn({u}))
        /\ kind = "EXISTS" => values'[u] = Cardinality(PositionsIn({u}))
    <3>1. CASE u = s
      <4>1. /\ kind = "MGET" => Answer(s) = [i \in DOMAIN Part(s) |-> first[Part(s)[i]]]
            /\ kind = "DEL" => Answer(s) = Cardinality(KeysIn({s}))
            /\ kind = "EXISTS" => Answer(s) = Cardinality(PositionsIn({s}))
        BY <1>1, <1>6, AnswerLemma, Zenon
      <4> QED
        BY <1>5, <3>1, <4>1, Zenon
    <3>2. CASE u # s
      <4>1. execs[u] = 1 /\ values'[u] = values[u]
        BY <1>4, <1>5, <3>2, Zenon
      <4> QED
        BY <1>0, <4>1, Zenon DEF Answers
    <3> QED
      BY <3>1, <3>2
  <2> QED
    BY <1>3, <2>1, <2>2, Zenon
<1>12. Collected'
  <2>1. Ok' = Ok
    BY <1>2, SMTT(20) DEF Ok
  <2> QED
    BY <1>0, <1>2, <2>1, CollectedStays, ZenonT(30)
<1> QED
  BY <1>7, <1>8, <1>9, <1>10, <1>11, <1>12, Zenon DEF MultiInv

\* An OK is sent only when the command of every slot was answered OK: there is
\* one thread for every slot, and each has been waited for.
LEMMA OkMeansAll ==
    ASSUME MultiInv, reply = "ok"
    PROVE  \A s \in Slots : s \in Slot /\ result[s] = "ok" /\ execs[s] = 1
<1>0. Typed /\ Threads /\ Waits
  BY DEF MultiInv
<1> DEFINE n == Len(thread_pool)
<1>1. /\ thread_pool \in [1 .. n -> Slot] /\ n \in Nat
      /\ n = Cardinality(Slots) /\ waited = n
      /\ \A i \in 1 .. n : thread_pool[i] \in Slots
      /\ \A i, j \in 1 .. n : thread_pool[i] = thread_pool[j] => i = j
  <2>1. n \in Nat /\ DOMAIN thread_pool = 1 .. n /\ thread_pool \in [1 .. n -> Slot]
    BY <1>0 DEF Typed
  <2>2. n = Cardinality(Slots) /\ waited = n
    BY <1>0 DEF Waits, Finished
  <2> QED
    BY <1>0, <2>1, <2>2, Zenon DEF Threads
<1>2. IsFiniteSet(Slots)
  BY <1>0, MultiKeyAssumption, Finiteness DEF Typed
<1>3. Cardinality(1 .. n) = n
  BY <1>1, FS_Interval
<1> HIDE DEF n
<1>4. thread_pool \in Injection(1 .. n, Slots)
  BY <1>1 DEF Injection, IsInjective
<1>5. thread_pool \in Surjection(1 .. n, Slots)
  BY <1>1, <1>2, <1>3, <1>4, FS_Injection, SMTT(20)
<1> SUFFICES ASSUME NEW s \in Slots PROVE s \in Slot /\ result[s] = "ok" /\ execs[s] = 1
  OBVIOUS
<1>6. PICK i \in 1 .. n : thread_pool[i] = s
  BY <1>5 DEF Surjection
<1>7. s \in Slot
  BY <1>1, <1>6, SMTT(20)
<1>8. result[s] = "ok"
  BY <1>0, <1>1, <1>6 DEF Waits
<1> QED
  BY <1>0, <1>7, <1>8 DEF Threads

LEMMA InvAsOneNode == MultiInv => AsOneNode
<1> SUFFICES ASSUME MultiInv, reply = "ok" PROVE AsOneNode
  BY DEF AsOneNode, MgetPositions, CountExact, MsetLast
<1>0. Typed /\ Effects /\ Collected
  BY DEF MultiInv
<1>1. keys \in Seq(Key) /\ keys # <<>> /\ \A j \in DOMAIN keys : keys[j] \in Key
  BY <1>0 DEF Typed
<1>2. ASSUME NEW j \in DOMAIN keys
      PROVE  SlotOf[keys[j]] \in Ok /\ execs[SlotOf[keys[j]]] = 1
  <2>1. SlotOf[keys[j]] \in Slots
    BY DEF Slots
  <2> QED
    BY <2>1, OkMeansAll, SMTT(20) DEF Ok
<1>3. ASSUME NEW x \in Range(keys)
      PROVE  SlotOf[x] \in Ok /\ store[x] = After(x)
  <2>1. PICK j \in DOMAIN keys : x = keys[j]
    BY DEF Range
  <2>2. x \in Key /\ SlotOf[x] \in Ok /\ execs[SlotOf[x]] = 1
    BY <1>1, <1>2, <2>1, SMTT(20)
  <2> QED
    BY <1>0, <2>2 DEF Effects
<1>4. MgetPositions
  <2> SUFFICES ASSUME kind = "MGET", NEW j \in DOMAIN keys
               PROVE  req_data[j] = <<keys[j], first[keys[j]]>>
    BY DEF MgetPositions
  <2>1. req_data = FilledIn(Ok)
    BY <1>0 DEF Collected
  <2> QED
    BY <1>2, <2>1 DEF FilledIn
<1>5. CountExact
  <2>1. KeysIn(Ok) = {x \in Range(keys) : first[x] # Nil}
    BY <1>3 DEF KeysIn
  <2>2. PositionsIn(Ok) = {j \in DOMAIN keys : first[keys[j]] # Nil}
    BY <1>2, SMTT(20) DEF PositionsIn
  <2>3. kind = "DEL" => \A x \in Range(keys) : store[x] = Nil
    BY <1>3 DEF After
  <2>4. /\ kind = "DEL" => num = Cardinality({x \in Range(keys) : first[x] # Nil})
        /\ kind = "EXISTS" => num = Cardinality({j \in DOMAIN keys : first[keys[j]] # Nil})
    BY <1>0, <2>1, <2>2, Zenon DEF Collected
  <2> QED
    BY <2>3, <2>4, Zenon DEF CountExact
<1>6. MsetLast
  <2>1. ~dangling
    <3>1. Len(keys) \in DOMAIN keys
      BY <1>1
    <3>2. execs[SlotOf[keys[Len(keys)]]] = 1
      BY <1>2, <3>1
    <3> QED
      BY <1>0, <3>2 DEF Effects
  <2>2. kind = "MSET" => \A x \in Range(keys) : store[x] = LastGiven(x)
    BY <1>3 DEF After
  <2> QED
    BY <2>1, <2>2 DEF MsetLast
<1> QED
  BY <1>4, <1>5, <1>6, ZenonT(30) DEF AsOneNode

LEMMA NextLemma == MultiInv /\ [Next]_vars => MultiInv'
<1> SUFFICES ASSUME MultiInv, [Next]_vars PROVE MultiInv'
  OBVIOUS
<1>1. ASSUME NEW s \in Slot, Spawn(s) PROVE MultiInv'
  BY <1>1, SpawnStep
<1>2. CASE WaitOk
  BY <1>2, WaitOkStep
<1>3. CASE WaitError
  BY <1>3, WaitErrorStep, SMTT(20)
<1>4. CASE ClientAbort
  BY <1>4, ClientAbortStep
<1>5. ASSUME NEW s \in Slot, Execute(s) PROVE MultiInv'
  BY <1>5, ExecuteStep
<1>6. ASSUME NEW s \in Slot, NEW res \in Outcomes, Return(s, res) PROVE MultiInv'
  BY <1>6, ReturnStep, SMTT(20)
<1>7. CASE UNCHANGED vars
  <2>1. /\ UNCHANGED request
        /\ UNCHANGED <<request, execs, store>> /\ UNCHANGED <<request, execs, values>>
        /\ UNCHANGED <<request, req_data, num>>
        /\ thread_pool' = thread_pool /\ co_status' = co_status /\ result' = result
        /\ execs' = execs /\ values' = values /\ num' = num /\ waited' = waited /\ reply' = reply
        /\ store' = store
    BY <1>7 DEF vars
  <2>2. Slots' = Slots /\ kind' = kind /\ keys' = keys /\ dangling' = dangling /\ first' = first
    BY <2>1, Frame
  <2>3. Ok' = Ok
    BY <2>1 DEF Ok
  <2>4. Typed /\ Threads /\ Waits /\ Effects /\ Answers /\ Collected
    BY ZenonT(30) DEF MultiInv
  <2>5. Typed' /\ Threads'
    BY <2>1, <2>2, <2>4 DEF Typed, Threads
  <2>6. Waits'
    BY <2>1, <2>2, <2>4, Zenon DEF Waits, NoOrphan, Finished
  <2>7. Effects' /\ Answers' /\ Collected'
    BY <2>1, <2>3, <2>4, EffectsStay, AnswersStay, CollectedStays
  <2> QED
    BY <2>5, <2>6, <2>7, SMTT(20) DEF MultiInv
<1> QED
  BY <1>1, <1>2, <1>3, <1>4, <1>5, <1>6, <1>7, SMTT(20) DEF Next, Session

-----------------------------------------------------------------------------
(* The theorems *)

\* What thread_wait and the threads know of each other, and what the nodes have
\* done so far, in every state of a multi-key command.
THEOREM MultiInvariant == Spec => []MultiInv
BY InitLemma, NextLemma, PTL DEF Spec

\* For any keys, slots and argument lists, and in whatever order the threads
\* are spawned, answered and resumed: when the session replies OK to MGET, DEL,
\* EXISTS or MSET, the reply and the data are those of one node with all keys.
THEOREM AnsweredAsOneNode == Spec => []AsOneNode
BY MultiInvariant, InvAsOneNode, PTL

\* When thread_wait has returned, or the client has gone away, no thread of the
\* request is left that could run.
THEOREM NoThreadOutlivesReply == Spec => []NoOrphan
<1>1. MultiInv => NoOrphan
  BY DEF MultiInv, Waits
<1> QED
  BY <1>1, MultiInvariant, PTL

\* Once the client has its OK no node executes a part of the command any more.
THEOREM NothingAfterOk == Spec => NoLateEffect
<1>1. ASSUME MultiInv, [Next]_vars, reply = "ok" PROVE UNCHANGED store
  <2>0. Threads
    BY <1>1 DEF MultiInv
  <2>1. ASSUME NEW s \in Slot, Execute(s) PROVE FALSE
    <3>1. co_status[s] # "none" /\ result[s] # "ok"
      BY <2>1 DEF Execute, C!Execute
    <3>2. s \in Slots
      BY <2>0, <3>1 DEF Threads
    <3> QED
      BY <1>1, <3>1, <3>2, OkMeansAll, SMTT(20)
  <2>2. ASSUME NEW s \in Slot, Spawn(s) PROVE UNCHANGED store
    BY <2>2 DEF Spawn
  <2>3. ASSUME NEW s \in Slot, NEW res \in Outcomes, Return(s, res) PROVE UNCHANGED store
    BY <2>3, ZenonT(30) DEF Return
  <2>4. CASE WaitOk \/ WaitError \/ ClientAbort
    BY <2>4 DEF WaitOk, WaitError, ClientAbort
  <2>5. CASE UNCHANGED vars
    BY <2>5 DEF vars
  <2> QED
    BY <1>1, <2>1, <2>2, <2>3, <2>4, <2>5, SMTT(20) DEF Next, Session
<1>2. MultiInv /\ [Next]_vars => [reply = "ok" => UNCHANGED store]_vars
  BY <1>1
<1> QED
  BY <1>2, MultiInvariant, PTL DEF Spec, NoLateEffect

-----------------------------------------------------------------------------
(* Hash tags *)

\* The loops of key_hash_slot stop at the first byte they look for, or at the
\* end of the key.
LEMMA FindLemma ==
    ASSUME NEW k \in Seq(Nat), NEW b, NEW i \in 1 .. Len(k) + 1
    PROVE  /\ Find(k, b, i) \in i .. Len(k) + 1
           /\ Find(k, b, i) = Len(k) + 1 \/ (Find(k, b, i) <= Len(k) /\ k[Find(k, b, i)] = b)
           /\ \A j \in i .. Find(k, b, i) - 1 : k[j] # b
<1> DEFINE n == Len(k)
           T == {e \in i .. n + 1 : e = n + 1 \/ (e <= n /\ k[e] = b)}
           Stops(e) == /\ e = n + 1 \/ (e <= n /\ k[e] = b)
                       /\ \A j \in i .. e - 1 : k[j] # b
<1>1. n \in Nat /\ n + 1 \in T /\ T \in SUBSET Nat
  OBVIOUS
<1>2. PICK m \in T : \A e \in T : m <= e
  <2> HIDE DEF T
  <2> QED
    BY <1>1, Least, Zenon
<1>3. ASSUME NEW j \in i .. m - 1 PROVE k[j] # b
  <2>1. j \in i .. n + 1 /\ j <= n /\ ~(m <= j)
    BY <1>1, <1>2
  <2> QED
    BY <1>2, <2>1
<1>4. \E e \in i .. n + 1 : Stops(e)
  BY <1>2, <1>3
<1>5. Find(k, b, i) = CHOOSE e \in i .. n + 1 : Stops(e)
  BY DEF Find
<1> HIDE DEF n, T
<1>6. Find(k, b, i) \in i .. n + 1 /\ Stops(Find(k, b, i))
  <2> HIDE DEF Stops
  <2> QED
    BY <1>4, <1>5, Zenon
<1> QED
  BY <1>6 DEF n

\* The bytes key_hash_slot hashes are those the nodes of a cluster hash, for
\* every key: no brace, an empty tag, an unclosed one, one closed before it
\* opens, or a second one.
THEOREM TagRule ==
    ASSUME NEW k \in Seq(Nat)
    PROVE  HashedBytes(k) = Hashed(k)
<1> DEFINE n == Len(k)
           s == Find(k, OPEN, 1)
           e == Find(k, CLOSE, s + 1)
           P == {q \in (1 .. n) \X (1 .. n) : TagAt(k, q[1], q[2])}
<1>1. n \in Nat /\ 1 \in 1 .. n + 1
  OBVIOUS
<1>2. /\ s \in 1 .. n + 1
      /\ s = n + 1 \/ (s <= n /\ k[s] = OPEN)
      /\ \A j \in 1 .. s - 1 : k[j] # OPEN
  BY <1>1, FindLemma, SMTT(20)
<1>3. HashedBytes(k) = IF s = n + 1 \/ e = n + 1 \/ e = s + 1 THEN k ELSE SubSeq(k, s + 1, e - 1)
  BY DEF HashedBytes
<1>4. Tags(k) = {SubSeq(k, p[1] + 1, p[2] - 1) : p \in P}
  BY Zenon DEF Tags
<1> HIDE DEF n, s, P
<1>5. ASSUME NEW a \in 1 .. n, NEW c \in 1 .. n, TagAt(k, a, c)
      PROVE  a = s /\ s <= n
  BY <1>1, <1>2, <1>5 DEF TagAt
<1>6. CASE s = n + 1
  <2>1. P = {}
    BY <1>1, <1>5, <1>6 DEF P
  <2>2. Tags(k) = {}
    BY <1>4, <2>1
  <2> QED
    BY <1>3, <1>6, <2>2, SMTT(20) DEF Hashed
<1>7. CASE s # n + 1
  <2>1. s \in 1 .. n /\ k[s] = OPEN /\ s + 1 \in 1 .. n + 1
    BY <1>1, <1>2, <1>7, SMTT(20)
  <2>2. /\ e \in s + 1 .. n + 1
        /\ e = n + 1 \/ (e <= n /\ k[e] = CLOSE)
        /\ \A j \in s + 1 .. e - 1 : k[j] # CLOSE
    BY <2>1, FindLemma, SMTT(20) DEF n
  <2> HIDE DEF e
  <2>3. ASSUME NEW a \in 1 .. n, NEW c \in 1 .. n, TagAt(k, a, c)
        PROVE  a = s /\ c = e /\ e # n + 1 /\ e # s + 1
    <3>1. a = s
      BY <1>5, <2>3, SMTT(20)
    <3>2. k[c] = CLOSE /\ s + 1 < c /\ \A i \in s + 1 .. c - 1 : k[i] # CLOSE
      BY <2>3, <3>1, SMTT(20) DEF TagAt
    <3>3. ~(c < e)
      BY <1>1, <2>1, <2>2, <3>2, SMTT(20)
    <3>4. ~(e < c)
      BY <1>1, <2>1, <2>2, <3>2, SMTT(20)
    <3> QED
      BY <1>1, <2>1, <2>2, <3>1, <3>2, <3>3, <3>4, SMTT(20)
  <2>4. CASE e = n + 1 \/ e = s + 1
    <3>1. P = {}
      BY <2>3, <2>4 DEF P
    <3>2. Tags(k) = {}
      BY <1>4, <3>1
    <3> QED
      BY <1>3, <2>4, <3>2, SMTT(20) DEF Hashed
  <2>5. CASE e # n + 1 /\ e # s + 1
    <3>1. e \in 1 .. n /\ TagAt(k, s, e)
      BY <1>1, <1>2, <2>1, <2>2, <2>5, SMTT(20) DEF TagAt
    <3>2. <<s, e>> \in P
      BY <2>1, <3>1 DEF P
    <3>3. \A p \in P : p[1] = s /\ p[2] = e
      BY <2>3 DEF P
    <3>4. Tags(k) = {SubSeq(k, s + 1, e - 1)}
      <4>1. \A p \in P : SubSeq(k, p[1] + 1, p[2] - 1) = SubSeq(k, s + 1, e - 1)
        BY <3>3, Zenon
      <4>2. Tags(k) \subseteq {SubSeq(k, s + 1, e - 1)}
        BY <1>4, <4>1, Zenon
      <4>3. SubSeq(k, s + 1, e - 1) \in Tags(k)
        BY <1>4, <3>2, <4>1, Zenon
      <4> QED
        BY <4>2, <4>3, Zenon
    <3>5. Hashed(k) = SubSeq(k, s + 1, e - 1)
      <4> DEFINE t == SubSeq(k, s + 1, e - 1)
      <4> HIDE DEF t
      <4>1. Tags(k) = {t}
        BY <3>4 DEF t
      <4> QED
        BY <4>1, Zenon DEF Hashed, t
    <3> QED
      BY <1>3, <1>7, <2>5, <3>5, ZenonT(30)
  <2> QED
    BY <2>4, <2>5, SMTT(20)
<1> QED
  BY <1>6, <1>7

-----------------------------------------------------------------------------
(* All or nothing *)

\* The slot of a key depends on the bytes key_hash_slot hashes alone.
SlotByTag ==
    /\ Key \subseteq Seq(Nat)
    /\ \A a, b \in Key : HashedBytes(a) = HashedBytes(b) => SlotOf[a] = SlotOf[b]

\* The arguments have one hash tag in common.
SameTag == \A a, b \in Range(keys) : Hashed(a) = Hashed(b)

\* The data is that of one node after the command, or before it.
TakenWhole ==
    \/ \A x \in Key : store[x] = After(x)
    \/ \A x \in Key : store[x] = first[x]

\* A command on keys with one hash tag has one part: for any hash of the bytes
\* key_hash_slot picks, it has at most one thread and takes effect as a whole
\* or not at all, whatever the client is told.
THEOREM TaggedIsAtomic ==
    ASSUME SlotByTag
    PROVE  Spec => [](SameTag => Len(thread_pool) <= 1 /\ TakenWhole)
<1>1. ASSUME MultiInv, SameTag PROVE Len(thread_pool) <= 1 /\ TakenWhole
  <2>0. Typed /\ Threads /\ Effects
    BY <1>1 DEF MultiInv
  <2>1. keys \in Seq(Key) /\ 1 \in DOMAIN keys /\ thread_pool \in Seq(Slot)
    BY <2>0, SMTT(20) DEF Typed
  <2> DEFINE s == SlotOf[keys[1]]
  <2>2. ASSUME NEW x \in Range(keys) PROVE x \in Key /\ SlotOf[x] = s
    <3>1. x \in Key /\ keys[1] \in Key /\ keys[1] \in Range(keys)
      BY <2>1 DEF Range
    <3>2. Hashed(x) = Hashed(keys[1])
      BY <1>1, <3>1, SMTT(20) DEF SameTag
    <3>3. HashedBytes(x) = HashedBytes(keys[1])
      BY SlotByTag, <3>1, <3>2, TagRule, SMTT(20) DEF SlotByTag
    <3> QED
      BY SlotByTag, <3>1, <3>3, SMTT(20) DEF SlotByTag
  <2> HIDE DEF s
  <2>3. Len(thread_pool) <= 1
    <3>1. ASSUME NEW i \in DOMAIN thread_pool PROVE thread_pool[i] = s
      <4>1. thread_pool[i] \in Slots
        BY <2>0 DEF Threads
      <4>2. PICK j \in DOMAIN keys : thread_pool[i] = SlotOf[keys[j]]
        BY <4>1 DEF Slots
      <4> QED
        BY <2>2, <4>2, SMTT(20) DEF Range
    <3>2. SUFFICES ASSUME Len(thread_pool) > 1 PROVE FALSE
      BY <2>1
    <3>3. 1 \in DOMAIN thread_pool /\ 2 \in DOMAIN thread_pool
      BY <2>1, <3>2, SMTT(20)
    <3> QED
      BY <2>0, <3>1, <3>3, SMTT(20) DEF Threads
  <2>4. ASSUME NEW x \in Key, x \notin Range(keys) PROVE store[x] = first[x] /\ After(x) = first[x]
    BY <2>0, <2>4, SMTT(20) DEF Effects, After
  <2>5. CASE execs[s] = 1
    <3>1. ASSUME NEW x \in Key PROVE store[x] = After(x)
      BY <2>0, <2>2, <2>4, <2>5, SMTT(20) DEF Effects
    <3> QED
      BY <2>3, <3>1, SMTT(20) DEF TakenWhole
  <2>6. CASE execs[s] # 1
    <3>1. ASSUME NEW x \in Key PROVE store[x] = first[x]
      BY <2>0, <2>2, <2>4, <2>6 DEF Effects
    <3> QED
      BY <2>3, <3>1, SMTT(20) DEF TakenWhole
  <2> QED
    BY <2>5, <2>6
<1> QED
  BY <1>1, MultiInvariant, PTL
=============================================================================
