------------------------- MODULE StorageEngineProofs -------------------------
(***************************************************************************)
(* Proofs about StorageEngine and the tree under it, for any MAX_KEYS,     *)
(* keys, heap and values, as long as the root leaf is never split: what a  *)
(* split does to the other entries is what the run index_split refutes.    *)
(*                                                                         *)
(* The argument.  The entries of a leaf are cells of one memory; writing   *)
(* one entry leaves the cells of the others alone (KeySet, ValueSet), so   *)
(* the two shift loops move each entry by one and lose none                *)
(* (ShiftedRaises, ShiftedLowers).  The keys stay strictly ascending, and  *)
(* std::lower_bound finds the place (LowerFound): the leaf is a map from   *)
(* keys to values (BindsOnce), find reads it (FoundIsBound), insert binds  *)
(* one key in it (InsertBinds) and remove unbinds one (RemoveUnbinds).     *)
(* The inductive invariant IInv adds what the storage engine makes of it:  *)
(* every entry leads to a row with its key (Home).                         *)
(***************************************************************************)
EXTENDS StorageEngine, TLAPS, WellFoundedInduction, FiniteSetTheorems, FunctionTheorems

-----------------------------------------------------------------------------
(* The memory of a node.                                                    *)

Entry == 0 .. MAX_KEYS - 1

IsRid(v) == v = [pageId |-> v.pageId, slotNum |-> v.slotNum] /\ v.pageId \in Int /\ v.slotNum \in Int

LEMMA Bound == MAX_KEYS \in Nat /\ MAX_KEYS >= 2
  BY TreeAssumption

LEMMA KeySet ==
  ASSUME NEW n \in Node, NEW i \in Entry, NEW k \in Int
  PROVE  LET q == SetKey(n, i, k) IN
         /\ q \in Node /\ q.isLeaf = n.isLeaf /\ q.numKeys = n.numKeys
         /\ KeyAt(q, i) = k
         /\ \A x \in Entry \ {i} : KeyAt(q, x) = KeyAt(n, x)
         /\ \A x \in Entry : ValueAt(q, x) = ValueAt(n, x)
<1> DEFINE q == SetKey(n, i, k)
<1>1. /\ n.mem \in [Cell -> Int] /\ i \in Cell /\ \A x \in Entry : x \in Cell
  BY Bound DEF Node, Cell, NextAt, Entry
<1>2. q = [n EXCEPT !.mem = [n.mem EXCEPT ![i] = k]]
  BY Bound DEF SetKey, KeysAt, Entry
<1>3. q \in Node /\ q.isLeaf = n.isLeaf /\ q.numKeys = n.numKeys
  BY <1>1, <1>2 DEF Node
<1>4. q.mem = [n.mem EXCEPT ![i] = k]
  BY <1>2 DEF Node
<1>5. \A c \in Cell : q.mem[c] = IF c = i THEN k ELSE n.mem[c]
  BY <1>1, <1>4
<1>6. \A x \in Entry : UnionAt + 2 * x \in Cell /\ UnionAt + 2 * x + 1 \in Cell
                       /\ UnionAt + 2 * x # i /\ UnionAt + 2 * x + 1 # i /\ KeysAt + x = x
  BY Bound DEF UnionAt, Cell, NextAt, Entry, KeysAt
<1> HIDE DEF q
<1>7. KeyAt(q, i) = k /\ \A x \in Entry \ {i} : KeyAt(q, x) = KeyAt(n, x)
  BY <1>1, <1>5, <1>6 DEF KeyAt
<1>8. \A x \in Entry : ValueAt(q, x) = ValueAt(n, x)
  BY <1>5, <1>6 DEF ValueAt
<1> QED
  BY <1>3, <1>7, <1>8 DEF q

LEMMA ValueSet ==
  ASSUME NEW n \in Node, NEW i \in Entry, NEW v, IsRid(v)
  PROVE  LET q == SetValue(n, i, v) IN
         /\ q \in Node /\ q.isLeaf = n.isLeaf /\ q.numKeys = n.numKeys
         /\ ValueAt(q, i) = v
         /\ \A x \in Entry \ {i} : ValueAt(q, x) = ValueAt(n, x)
         /\ \A x \in Entry : KeyAt(q, x) = KeyAt(n, x)
<1> DEFINE q == SetValue(n, i, v)
           a == UnionAt + 2 * i
<1>1. /\ n.mem \in [Cell -> Int] /\ a \in Cell /\ a + 1 \in Cell /\ a # a + 1
      /\ v.pageId \in Int /\ v.slotNum \in Int
  BY Bound DEF Node, Cell, NextAt, Entry, UnionAt, IsRid
<1>2. q = [n EXCEPT !.mem = [[n.mem EXCEPT ![a] = v.pageId] EXCEPT ![a + 1] = v.slotNum]]
  BY DEF SetValue, Node
<1>3. \A x \in Entry : /\ UnionAt + 2 * x \in Cell /\ UnionAt + 2 * x + 1 \in Cell
                       /\ KeysAt + x \in Cell /\ KeysAt + x # a /\ KeysAt + x # a + 1
                       /\ x # i => UnionAt + 2 * x # a /\ UnionAt + 2 * x # a + 1
                       /\ x # i => UnionAt + 2 * x + 1 # a /\ UnionAt + 2 * x + 1 # a + 1
  BY Bound DEF UnionAt, Cell, NextAt, Entry, KeysAt
<1> HIDE DEF a
<1>4. q \in Node /\ q.isLeaf = n.isLeaf /\ q.numKeys = n.numKeys
  BY <1>1, <1>2 DEF Node
<1>5. q.mem = [[n.mem EXCEPT ![a] = v.pageId] EXCEPT ![a + 1] = v.slotNum]
  BY <1>2 DEF Node
<1>6. \A c \in Cell : q.mem[c] = IF c = a + 1 THEN v.slotNum ELSE IF c = a THEN v.pageId ELSE n.mem[c]
  BY <1>1, <1>5
<1> HIDE DEF q
<1>7. q.mem[a] = v.pageId /\ q.mem[a + 1] = v.slotNum
  BY <1>1, <1>6
<1>8. ValueAt(q, i) = v
  BY <1>7 DEF ValueAt, IsRid, a
<1>9. \A x \in Entry \ {i} : ValueAt(q, x) = ValueAt(n, x)
  BY <1>3, <1>6 DEF ValueAt
<1>10. \A x \in Entry : KeyAt(q, x) = KeyAt(n, x)
  BY <1>3, <1>6 DEF KeyAt
<1> QED
  BY <1>4, <1>8, <1>9, <1>10 DEF q

LEMMA EntryType ==
  ASSUME NEW n \in Node, NEW i \in Entry
  PROVE  KeyAt(n, i) \in Int /\ IsRid(ValueAt(n, i))
<1>1. /\ KeysAt + i \in Cell /\ UnionAt + 2 * i \in Cell /\ UnionAt + 2 * i + 1 \in Cell
      /\ n.mem \in [Cell -> Int]
  BY Bound DEF Node, Cell, NextAt, Entry, UnionAt, KeysAt
<1> QED
  BY <1>1 DEF KeyAt, ValueAt, IsRid

\* Entry j is copied to place i.
LEMMA EntryMoved ==
  ASSUME NEW n \in Node, NEW i \in Entry, NEW j \in Entry
  PROVE  LET q == MoveEntry(n, i, j) IN
         /\ q \in Node /\ q.isLeaf = n.isLeaf /\ q.numKeys = n.numKeys
         /\ KeyAt(q, i) = KeyAt(n, j) /\ ValueAt(q, i) = ValueAt(n, j)
         /\ \A x \in Entry \ {i} : KeyAt(q, x) = KeyAt(n, x) /\ ValueAt(q, x) = ValueAt(n, x)
<1> DEFINE m == SetKey(n, i, KeyAt(n, j))
           q == SetValue(m, i, ValueAt(m, j))
<1>1. KeyAt(n, j) \in Int
  BY EntryType
<1>2. /\ m \in Node /\ m.isLeaf = n.isLeaf /\ m.numKeys = n.numKeys
      /\ KeyAt(m, i) = KeyAt(n, j)
      /\ \A x \in Entry \ {i} : KeyAt(m, x) = KeyAt(n, x)
      /\ \A x \in Entry : ValueAt(m, x) = ValueAt(n, x)
  BY <1>1, KeySet
<1>3. IsRid(ValueAt(m, j))
  BY <1>2, EntryType
<1>4. MoveEntry(n, i, j) = q
  BY DEF MoveEntry
<1> HIDE DEF m
<1>5. /\ q \in Node /\ q.isLeaf = m.isLeaf /\ q.numKeys = m.numKeys
      /\ ValueAt(q, i) = ValueAt(m, j)
      /\ \A x \in Entry \ {i} : ValueAt(q, x) = ValueAt(m, x)
      /\ \A x \in Entry : KeyAt(q, x) = KeyAt(m, x)
  BY <1>2, <1>3, ValueSet
<1> HIDE DEF q
<1> QED
  BY <1>2, <1>4, <1>5

-----------------------------------------------------------------------------
(* The loops that shift the entries of a leaf.                              *)

\* What holds at k and goes from every number to the next holds at l.
LEMMA Climb ==
  ASSUME NEW k \in Nat, NEW l \in Nat, k <= l, NEW S,
         k \in S, \A i \in k + 1 .. l : i - 1 \in S => i \in S
  PROVE  l \in S
<1> SUFFICES ASSUME l \notin S PROVE FALSE
  OBVIOUS
<1> DEFINE T == {i \in k .. l : i \notin S}
<1>1. T \subseteq Nat /\ T # {}
  OBVIOUS
<1>2. PICK x \in T : \A y \in T : ~ (<<y, x>> \in OpToRel(<, Nat))
  BY <1>1, NatLessThanWellFounded, WFMin
<1>3. \A y \in T : ~ (y < x)
  BY <1>1, <1>2 DEF OpToRel
<1>4. x \in k .. l /\ x \notin S /\ x # k
  OBVIOUS
<1>5. x - 1 \in k .. l /\ x - 1 < x /\ x \in k + 1 .. l
  BY <1>4
<1>6. x - 1 \in S
  BY <1>3, <1>5
<1> QED
  BY <1>4, <1>5, <1>6

\* The nodes after each turn of the loops.
UpLoop(n, pos, m) ==
  m = [i \in pos .. n.numKeys |-> IF i = n.numKeys THEN n ELSE MoveEntry(m[i + 1], i + 1, i)]

DownLoop(n, pos, m) ==
  m = [i \in pos .. n.numKeys - 1 |-> IF i = pos THEN n ELSE MoveEntry(m[i - 1], i - 1, i)]

LEMMA UpLoopEnds ==
  ASSUME NEW n \in Node, NEW pos \in 0 .. n.numKeys
  PROVE  \E m : UpLoop(n, pos, m) /\ Shifted(n, pos) = m[pos]
<1> DEFINE N == n.numKeys
           D == N - pos
           Turn(m, i) == MoveEntry(m, i + 1, i)
           Upto(g, d) == \A i \in N - d .. N : g[i] = IF i = N THEN n ELSE Turn(g[i + 1], i)
           S == {d \in 0 .. D : \E g : Upto(g, d)}
<1>1. N \in Nat /\ pos \in Nat /\ D \in Nat /\ N - D = pos
  BY DEF Node
<1> HIDE DEF N, Turn
<1>2. 0 \in S
  <2> DEFINE g == [i \in N .. N |-> n]
  <2>1. \A i \in N - 0 .. N : i = N /\ g[i] = n
    BY <1>1
  <2> HIDE DEF g
  <2>2. Upto(g, 0)
    BY <2>1
  <2> QED
    BY <1>1, <2>2
<1>3. ASSUME NEW d \in 0 + 1 .. D, d - 1 \in S
      PROVE  d \in S
  <2>1. PICK g : Upto(g, d - 1)
    BY <1>3
  <2> DEFINE k == N - d
             h == [i \in k .. N |-> IF i = k THEN Turn(g[i + 1], i) ELSE g[i]]
  <2>2. k \in Int /\ k < N /\ N - (d - 1) = k + 1
    BY <1>1
  <2>3. ASSUME NEW i \in k .. N
        PROVE  h[i] = IF i = N THEN n ELSE Turn(h[i + 1], i)
    <3> HIDE DEF k
    <3>1. CASE i = k
      <4>1. h[i + 1] = g[i + 1]
        BY <1>1, <2>2, <3>1
      <4> QED
        BY <1>1, <2>2, <3>1, <4>1
    <3>2. CASE i # k
      <4>1. i \in k + 1 .. N /\ h[i] = g[i] /\ (i # N => h[i + 1] = g[i + 1])
        BY <1>1, <2>2, <3>2
      <4>2. g[i] = IF i = N THEN n ELSE Turn(g[i + 1], i)
        BY <2>1, <2>2, <4>1
      <4> QED
        BY <4>1, <4>2
    <3> QED
      BY <3>1, <3>2
  <2> HIDE DEF h
  <2>4. Upto(h, d)
    BY <2>3
  <2> QED
    BY <1>1, <2>4
<1>4. D \in S
  <2> HIDE DEF S, D
  <2> QED
    BY <1>1, <1>2, <1>3, Climb
<1>5. PICK g : Upto(g, D)
  BY <1>4
<1> DEFINE f == [i \in pos .. N |-> g[i]]
<1>6. ASSUME NEW i \in pos .. N
      PROVE  f[i] = IF i = N THEN n ELSE Turn(f[i + 1], i)
  <2>1. f[i] = g[i] /\ (i # N => f[i + 1] = g[i + 1])
    BY <1>1
  <2>2. g[i] = IF i = N THEN n ELSE Turn(g[i + 1], i)
    BY <1>1, <1>5
  <2> QED
    BY <2>1, <2>2
<1>7. f = [i \in pos .. N |-> f[i]]
  OBVIOUS
<1> HIDE DEF f
<1>8. f = [i \in pos .. N |-> IF i = N THEN n ELSE Turn(f[i + 1], i)]
  BY <1>6, <1>7
<1>9. UpLoop(n, pos, f)
  BY <1>8 DEF UpLoop, Turn, N
<1> DEFINE m == CHOOSE m : UpLoop(n, pos, m)
<1>10. UpLoop(n, pos, m)
  BY <1>9
<1>11. Shifted(n, pos) = m[pos]
  BY DEF Shifted, UpLoop
<1> QED
  BY <1>10, <1>11

LEMMA DownLoopEnds ==
  ASSUME NEW n \in Node, NEW pos \in 0 .. n.numKeys - 1
  PROVE  \E m : DownLoop(n, pos, m) /\ ShiftedDown(n, pos) = m[n.numKeys - 1]
<1> DEFINE L == n.numKeys - 1
           Turn(m, i) == MoveEntry(m, i - 1, i)
           Upto(g, l) == \A i \in pos .. l : g[i] = IF i = pos THEN n ELSE Turn(g[i - 1], i)
           S == {l \in pos .. L : \E g : Upto(g, l)}
<1>1. L \in Nat /\ pos \in Nat /\ pos <= L
  BY DEF Node
<1> HIDE DEF L, Turn
<1>2. pos \in S
  <2> DEFINE g == [i \in pos .. pos |-> n]
  <2>1. \A i \in pos .. pos : i = pos /\ g[i] = n
    BY <1>1
  <2> HIDE DEF g
  <2>2. Upto(g, pos)
    BY <2>1
  <2> QED
    BY <1>1, <2>2
<1>3. ASSUME NEW k \in pos + 1 .. L, k - 1 \in S
      PROVE  k \in S
  <2>1. PICK g : Upto(g, k - 1)
    BY <1>3
  <2> DEFINE h == [i \in pos .. k |-> IF i = k THEN Turn(g[i - 1], i) ELSE g[i]]
  <2>2. ASSUME NEW i \in pos .. k
        PROVE  h[i] = IF i = pos THEN n ELSE Turn(h[i - 1], i)
    <3>1. CASE i = k
      <4>1. h[i - 1] = g[i - 1]
        BY <1>1, <3>1
      <4> QED
        BY <1>1, <3>1, <4>1
    <3>2. CASE i # k
      <4>1. i \in pos .. k - 1 /\ h[i] = g[i] /\ (i # pos => h[i - 1] = g[i - 1])
        BY <1>1, <3>2
      <4>2. g[i] = IF i = pos THEN n ELSE Turn(g[i - 1], i)
        BY <2>1, <4>1
      <4> QED
        BY <4>1, <4>2
    <3> QED
      BY <3>1, <3>2
  <2> HIDE DEF h
  <2>3. Upto(h, k)
    BY <2>2
  <2> QED
    BY <1>1, <2>3
<1>4. L \in S
  <2> HIDE DEF S
  <2> QED
    BY <1>1, <1>2, <1>3, Climb
<1>5. PICK g : Upto(g, L)
  BY <1>4
<1> DEFINE f == [i \in pos .. L |-> g[i]]
<1>6. ASSUME NEW i \in pos .. L
      PROVE  f[i] = IF i = pos THEN n ELSE Turn(f[i - 1], i)
  <2>1. f[i] = g[i] /\ (i # pos => f[i - 1] = g[i - 1])
    BY <1>1
  <2>2. g[i] = IF i = pos THEN n ELSE Turn(g[i - 1], i)
    BY <1>1, <1>5
  <2> QED
    BY <2>1, <2>2
<1>7. f = [i \in pos .. L |-> f[i]]
  OBVIOUS
<1> HIDE DEF f
<1>8. f = [i \in pos .. L |-> IF i = pos THEN n ELSE Turn(f[i - 1], i)]
  BY <1>6, <1>7
<1>9. DownLoop(n, pos, f)
  BY <1>8 DEF DownLoop, Turn, L
<1> DEFINE m == CHOOSE m : DownLoop(n, pos, m)
<1>10. DownLoop(n, pos, m)
  BY <1>9
<1>11. ShiftedDown(n, pos) = m[n.numKeys - 1]
  BY DEF ShiftedDown, DownLoop
<1> QED
  BY <1>10, <1>11

\* The entries of n, those from p on one place further up, or p's taken out.
Same(q, n) == q \in Node /\ q.isLeaf = n.isLeaf /\ q.numKeys = n.numKeys

Raised(q, n, p) ==
  /\ Same(q, n)
  /\ \A x \in Entry : x <= p \/ x > n.numKeys =>
       KeyAt(q, x) = KeyAt(n, x) /\ ValueAt(q, x) = ValueAt(n, x)
  /\ \A x \in Entry : p < x /\ x <= n.numKeys =>
       KeyAt(q, x) = KeyAt(n, x - 1) /\ ValueAt(q, x) = ValueAt(n, x - 1)

Lowered(q, n, p, l) ==
  /\ Same(q, n)
  /\ \A x \in Entry : x < p \/ x >= l =>
       KeyAt(q, x) = KeyAt(n, x) /\ ValueAt(q, x) = ValueAt(n, x)
  /\ \A x \in Entry : p <= x /\ x < l =>
       KeyAt(q, x) = KeyAt(n, x + 1) /\ ValueAt(q, x) = ValueAt(n, x + 1)

LEMMA ShiftedRaises ==
  ASSUME NEW n \in Node, NEW pos \in 0 .. n.numKeys, n.numKeys < MAX_KEYS
  PROVE  Raised(Shifted(n, pos), n, pos)
<1>1. PICK m : UpLoop(n, pos, m) /\ Shifted(n, pos) = m[pos]
  BY UpLoopEnds
<1> DEFINE N == n.numKeys
           D == N - pos
           S == {d \in 0 .. D : Raised(m[N - d], n, N - d)}
<1>2. N \in Nat /\ pos \in Nat /\ D \in Nat /\ N - D = pos /\ N < MAX_KEYS
  BY DEF Node
<1> HIDE DEF N
<1>3. \A i \in pos .. N : m[i] = IF i = N THEN n ELSE MoveEntry(m[i + 1], i + 1, i)
  BY <1>1 DEF UpLoop, N
<1>4. 0 \in S
  <2>1. m[N] = n /\ N - 0 = N
    BY <1>2, <1>3
  <2>2. Raised(n, n, N)
    BY <1>2, Bound DEF Raised, Same, N, Entry
  <2> QED
    BY <1>2, <2>1, <2>2
<1>5. ASSUME NEW d \in 0 + 1 .. D, d - 1 \in S
      PROVE  d \in S
  <2> DEFINE p == N - d
             q == m[p + 1]
  <2>1. p \in Nat /\ p \in pos .. N /\ p # N /\ N - (d - 1) = p + 1 /\ p \in Entry /\ p + 1 \in Entry
    BY <1>2, Bound DEF Entry
  <2> HIDE DEF p
  <2>2. Raised(q, n, p + 1) /\ m[p] = MoveEntry(q, p + 1, p)
    BY <1>3, <1>5, <2>1
  <2> HIDE DEF q
  <2>3. q \in Node
    BY <2>2 DEF Raised, Same
  <2>4. /\ m[p] \in Node /\ m[p].isLeaf = q.isLeaf /\ m[p].numKeys = q.numKeys
        /\ KeyAt(m[p], p + 1) = KeyAt(q, p) /\ ValueAt(m[p], p + 1) = ValueAt(q, p)
        /\ \A x \in Entry \ {p + 1} :
             KeyAt(m[p], x) = KeyAt(q, x) /\ ValueAt(m[p], x) = ValueAt(q, x)
    BY <2>1, <2>2, <2>3, EntryMoved
  <2>5. KeyAt(q, p) = KeyAt(n, p) /\ ValueAt(q, p) = ValueAt(n, p)
    BY <2>1, <2>2 DEF Raised
  <2>6. Same(m[p], n)
    BY <2>2, <2>4 DEF Raised, Same
  <2>7. ASSUME NEW x \in Entry, x <= p \/ x > N
        PROVE  KeyAt(m[p], x) = KeyAt(n, x) /\ ValueAt(m[p], x) = ValueAt(n, x)
    <3>1. x # p + 1 /\ (x <= p + 1 \/ x > N)
      BY <1>2, <2>1, <2>7 DEF Entry
    <3> QED
      BY <2>2, <2>4, <3>1 DEF Raised, N
  <2>8. ASSUME NEW x \in Entry, p < x, x <= N
        PROVE  KeyAt(m[p], x) = KeyAt(n, x - 1) /\ ValueAt(m[p], x) = ValueAt(n, x - 1)
    <3>1. CASE x = p + 1
      <4>1. x - 1 = p
        BY <2>1, <3>1
      <4> QED
        BY <2>4, <2>5, <3>1, <4>1
    <3>2. CASE x # p + 1
      <4>1. p + 1 < x
        BY <2>1, <2>8, <3>2 DEF Entry
      <4> QED
        BY <2>2, <2>4, <2>8, <3>2, <4>1 DEF Raised, N
    <3> QED
      BY <3>1, <3>2
  <2>9. Raised(m[p], n, p)
    BY <2>6, <2>7, <2>8 DEF Raised, N
  <2> QED
    BY <2>9 DEF p
<1>6. D \in S
  <2> HIDE DEF S, D
  <2> QED
    BY <1>2, <1>4, <1>5, Climb
<1>7. Raised(m[pos], n, pos)
  BY <1>2, <1>6
<1> QED
  BY <1>1, <1>7

LEMMA ShiftedLowers ==
  ASSUME NEW n \in Node, NEW pos \in 0 .. n.numKeys - 1, n.numKeys <= MAX_KEYS
  PROVE  Lowered(ShiftedDown(n, pos), n, pos, n.numKeys - 1)
<1>1. PICK m : DownLoop(n, pos, m) /\ ShiftedDown(n, pos) = m[n.numKeys - 1]
  BY DownLoopEnds
<1> DEFINE L == n.numKeys - 1
           S == {l \in pos .. L : Lowered(m[l], n, pos, l)}
<1>2. L \in Nat /\ pos \in Nat /\ pos <= L /\ L < MAX_KEYS
  BY Bound DEF Node
<1> HIDE DEF L
<1>3. \A i \in pos .. L : m[i] = IF i = pos THEN n ELSE MoveEntry(m[i - 1], i - 1, i)
  BY <1>1 DEF DownLoop, L
<1>4. pos \in S
  <2>1. m[pos] = n
    BY <1>2, <1>3
  <2>2. Lowered(n, n, pos, pos)
    BY <1>2, Bound DEF Lowered, Same, Entry
  <2> QED
    BY <1>2, <2>1, <2>2
<1>5. ASSUME NEW l \in pos + 1 .. L, l - 1 \in S
      PROVE  l \in S
  <2> DEFINE p == l - 1
             q == m[p]
  <2>1. p \in Nat /\ p \in pos .. L /\ l # pos /\ l = p + 1 /\ p \in Entry /\ p + 1 \in Entry
        /\ l \in pos .. L
    BY <1>2, Bound DEF Entry
  <2>2. Lowered(q, n, pos, p) /\ m[l] = MoveEntry(q, p, l)
    BY <1>3, <1>5, <2>1
  <2> HIDE DEF p, q
  <2>3. q \in Node
    BY <2>2 DEF Lowered, Same
  <2>4. /\ m[l] \in Node /\ m[l].isLeaf = q.isLeaf /\ m[l].numKeys = q.numKeys
        /\ KeyAt(m[l], p) = KeyAt(q, l) /\ ValueAt(m[l], p) = ValueAt(q, l)
        /\ \A x \in Entry \ {p} :
             KeyAt(m[l], x) = KeyAt(q, x) /\ ValueAt(m[l], x) = ValueAt(q, x)
    BY <2>1, <2>2, <2>3, EntryMoved
  <2>5. KeyAt(q, l) = KeyAt(n, l) /\ ValueAt(q, l) = ValueAt(n, l)
    BY <2>1, <2>2 DEF Lowered
  <2>6. Same(m[l], n)
    BY <2>2, <2>4 DEF Lowered, Same
  <2>7. ASSUME NEW x \in Entry, x < pos \/ x >= l
        PROVE  KeyAt(m[l], x) = KeyAt(n, x) /\ ValueAt(m[l], x) = ValueAt(n, x)
    <3>1. x # p /\ (x < pos \/ x >= p)
      BY <1>2, <2>1, <2>7 DEF Entry
    <3> QED
      BY <2>2, <2>4, <3>1 DEF Lowered
  <2>8. ASSUME NEW x \in Entry, pos <= x, x < l
        PROVE  KeyAt(m[l], x) = KeyAt(n, x + 1) /\ ValueAt(m[l], x) = ValueAt(n, x + 1)
    <3>1. CASE x = p
      <4>1. x + 1 = l
        BY <2>1, <3>1
      <4> QED
        BY <2>4, <2>5, <3>1, <4>1
    <3>2. CASE x # p
      <4>1. x < p
        BY <2>1, <2>8, <3>2 DEF Entry
      <4> QED
        BY <2>2, <2>4, <2>8, <3>2, <4>1 DEF Lowered
    <3> QED
      BY <3>1, <3>2
  <2>9. Lowered(m[l], n, pos, l)
    BY <2>6, <2>7, <2>8 DEF Lowered
  <2> QED
    BY <2>1, <2>9
<1>6. L \in S
  <2> HIDE DEF S
  <2> QED
    BY <1>2, <1>4, <1>5, Climb
<1> QED
  BY <1>1, <1>6 DEF L

-----------------------------------------------------------------------------
(* A leaf as a map from keys to values.                                     *)

LeafOK(n) ==
  /\ n \in Node /\ n.isLeaf /\ n.numKeys \in 0 .. MAX_KEYS
  /\ \A i, j \in Entry : i < j /\ j < n.numKeys => KeyAt(n, i) < KeyAt(n, j)

Binds(n, k, v) == \E i \in Entry : i < n.numKeys /\ KeyAt(n, i) = k /\ ValueAt(n, i) = v

LEMMA OneEntry ==
  ASSUME NEW n, LeafOK(n), NEW i \in Entry, NEW j \in Entry, i < n.numKeys, j < n.numKeys,
         KeyAt(n, i) = KeyAt(n, j)
  PROVE  i = j
<1>1. n \in Node /\ KeyAt(n, i) \in Int /\ KeyAt(n, j) \in Int
  BY EntryType DEF LeafOK
<1>2. ~(i < j) /\ ~(j < i)
  BY <1>1 DEF LeafOK
<1> QED
  BY <1>2 DEF Entry

LEMMA BindsOnce ==
  ASSUME NEW n, LeafOK(n), NEW k, NEW v, NEW w, Binds(n, k, v), Binds(n, k, w)
  PROVE  v = w
  BY OneEntry DEF Binds

LEMMA LowerFound ==
  ASSUME NEW n, LeafOK(n), NEW k \in Int, NEW pos, pos = LowerBound(n, k)
  PROVE  /\ pos \in 0 .. n.numKeys
         /\ pos < n.numKeys => KeyAt(n, pos) >= k
         /\ \A j \in Entry : j < pos => KeyAt(n, j) < k
<1> DEFINE N == n.numKeys
           T == {i \in 0 .. N : i < N => KeyAt(n, i) >= k}
<1>1. N \in Nat /\ n \in Node /\ N <= MAX_KEYS
  BY Bound DEF LeafOK
<1>2. N \in T /\ T \subseteq Nat
  BY <1>1
<1>3. PICK x \in T : \A y \in T : ~ (<<y, x>> \in OpToRel(<, Nat))
  BY <1>2, NatLessThanWellFounded, WFMin
<1>4. \A y \in T : ~ (y < x)
  BY <1>2, <1>3 DEF OpToRel
<1>5. ASSUME NEW j \in 0 .. x - 1
      PROVE  ~(KeyAt(n, j) >= k)
  <2>1. j \in 0 .. N /\ j < x /\ j < N
    BY <1>1
  <2> QED
    BY <1>4, <2>1
<1>6. \E i \in 0 .. N : /\ i < N => KeyAt(n, i) >= k
                        /\ \A j \in 0 .. i - 1 : ~(KeyAt(n, j) >= k)
  BY <1>5
<1>7. pos = CHOOSE i \in 0 .. N : /\ i < N => KeyAt(n, i) >= k
                                  /\ \A j \in 0 .. i - 1 : ~(KeyAt(n, j) >= k)
  BY DEF LowerBound, FirstOf
<1>8. /\ pos \in 0 .. N
      /\ pos < N => KeyAt(n, pos) >= k
      /\ \A j \in 0 .. pos - 1 : ~(KeyAt(n, j) >= k)
  BY <1>6, <1>7
<1>9. ASSUME NEW j \in Entry, j < pos
      PROVE  KeyAt(n, j) < k
  <2>1. j \in 0 .. pos - 1 /\ KeyAt(n, j) \in Int
    BY <1>1, <1>8, <1>9, EntryType DEF Entry
  <2> QED
    BY <1>8, <2>1
<1> QED
  BY <1>8, <1>9

\* q is n with the entry of k and v at pos.
Entered(q, n, pos, k, v) ==
  /\ q \in Node /\ q.isLeaf /\ q.numKeys = n.numKeys + 1
  /\ KeyAt(q, pos) = k /\ ValueAt(q, pos) = v
  /\ \A x \in Entry : x < pos => KeyAt(q, x) = KeyAt(n, x) /\ ValueAt(q, x) = ValueAt(n, x)
  /\ \A x \in Entry : pos < x /\ x <= n.numKeys =>
       KeyAt(q, x) = KeyAt(n, x - 1) /\ ValueAt(q, x) = ValueAt(n, x - 1)

LEMMA EntryEntered ==
  ASSUME NEW n, LeafOK(n), NEW pos \in 0 .. n.numKeys, n.numKeys < MAX_KEYS,
         NEW k \in Int, NEW v, IsRid(v)
  PROVE  Entered(Written(WithEntry(n, pos, k, v)), n, pos, k, v)
<1> DEFINE a == Shifted(n, pos)
           b == SetKey(a, pos, k)
           c == SetValue(b, pos, v)
           d == [c EXCEPT !.numKeys = @ + 1]
           q == Written(d)
<1>1. n \in Node /\ n.numKeys \in Nat /\ pos \in Entry /\ n.isLeaf
  BY Bound DEF LeafOK, Entry
<1>2. Raised(a, n, pos)
  BY <1>1, ShiftedRaises
<1> HIDE DEF a
<1>3. a \in Node /\ a.isLeaf = n.isLeaf /\ a.numKeys = n.numKeys
  BY <1>2 DEF Raised, Same
<1>4. /\ b \in Node /\ b.isLeaf = a.isLeaf /\ b.numKeys = a.numKeys /\ KeyAt(b, pos) = k
      /\ \A x \in Entry \ {pos} : KeyAt(b, x) = KeyAt(a, x)
      /\ \A x \in Entry : ValueAt(b, x) = ValueAt(a, x)
  BY <1>1, <1>3, KeySet
<1> HIDE DEF b
<1>5. /\ c \in Node /\ c.isLeaf = b.isLeaf /\ c.numKeys = b.numKeys /\ ValueAt(c, pos) = v
      /\ \A x \in Entry \ {pos} : ValueAt(c, x) = ValueAt(b, x)
      /\ \A x \in Entry : KeyAt(c, x) = KeyAt(b, x)
  BY <1>1, <1>4, ValueSet
<1> HIDE DEF c
<1>6. /\ d \in Node /\ d.isLeaf = c.isLeaf /\ d.numKeys = n.numKeys + 1 /\ d.mem = c.mem
  <2>1. c.numKeys = n.numKeys /\ n.numKeys + 1 \in Nat
    BY <1>1, <1>3, <1>4, <1>5
  <2>2. d = [c EXCEPT !.numKeys = n.numKeys + 1]
    BY <2>1
  <2> QED
    BY <1>5, <2>1, <2>2 DEF Node
<1> HIDE DEF d
<1>7. NextAt + 1 \in Cell /\ \A x \in Entry : /\ KeysAt + x # NextAt + 1 /\ KeysAt + x \in Cell
                       /\ UnionAt + 2 * x # NextAt + 1 /\ UnionAt + 2 * x \in Cell
                       /\ UnionAt + 2 * x + 1 # NextAt + 1 /\ UnionAt + 2 * x + 1 \in Cell
  BY Bound DEF KeysAt, UnionAt, NextAt, Entry, Cell
<1>8. /\ q \in Node /\ q.isLeaf = d.isLeaf /\ q.numKeys = d.numKeys
      /\ \A x \in Cell : x # NextAt + 1 => q.mem[x] = d.mem[x]
  BY <1>6, <1>7 DEF Written, Node
<1> HIDE DEF q
<1>9. \A x \in Entry : KeyAt(q, x) = KeyAt(c, x) /\ ValueAt(q, x) = ValueAt(c, x)
  BY <1>6, <1>7, <1>8 DEF KeyAt, ValueAt
<1>10. \A x \in Entry \ {pos} : KeyAt(q, x) = KeyAt(a, x) /\ ValueAt(q, x) = ValueAt(a, x)
  BY <1>4, <1>5, <1>9
<1>11. KeyAt(q, pos) = k /\ ValueAt(q, pos) = v
  BY <1>1, <1>4, <1>5, <1>9
<1>12. \A x \in Entry : x < pos => KeyAt(q, x) = KeyAt(n, x) /\ ValueAt(q, x) = ValueAt(n, x)
  BY <1>1, <1>2, <1>10 DEF Raised, Entry
<1>13. \A x \in Entry : pos < x /\ x <= n.numKeys =>
         KeyAt(q, x) = KeyAt(n, x - 1) /\ ValueAt(q, x) = ValueAt(n, x - 1)
  BY <1>1, <1>2, <1>10 DEF Raised, Entry
<1>14. q.isLeaf /\ q.numKeys = n.numKeys + 1
  BY <1>1, <1>3, <1>4, <1>5, <1>6, <1>8
<1>15. Entered(q, n, pos, k, v)
  BY <1>8, <1>11, <1>12, <1>13, <1>14 DEF Entered
<1> QED
  BY <1>15 DEF q, d, c, b, a, WithEntry

\* The map after an insert.
LEMMA EnteredBinds ==
  ASSUME NEW n, LeafOK(n), n.numKeys < MAX_KEYS, NEW k \in Int, NEW v, NEW pos,
         pos = LowerBound(n, k), ~(pos < n.numKeys /\ KeyAt(n, pos) = k),
         NEW q, Entered(q, n, pos, k, v)
  PROVE  /\ LeafOK(q)
         /\ \A x, w : Binds(q, x, w) <=> IF x = k THEN w = v ELSE Binds(n, x, w)
<1> DEFINE N == n.numKeys
<1>1. /\ n \in Node /\ N \in Nat /\ N < MAX_KEYS /\ pos \in 0 .. N /\ pos \in Entry
      /\ pos < N => KeyAt(n, pos) >= k
      /\ \A j \in Entry : j < pos => KeyAt(n, j) < k
  BY LowerFound, Bound DEF LeafOK, Entry
<1>2. \A i \in Entry : KeyAt(n, i) \in Int
  BY <1>1, EntryType
<1>3. /\ q \in Node /\ q.isLeaf /\ q.numKeys = N + 1
      /\ KeyAt(q, pos) = k /\ ValueAt(q, pos) = v
      /\ \A x \in Entry : x < pos => KeyAt(q, x) = KeyAt(n, x) /\ ValueAt(q, x) = ValueAt(n, x)
      /\ \A x \in Entry : pos < x /\ x <= N =>
           KeyAt(q, x) = KeyAt(n, x - 1) /\ ValueAt(q, x) = ValueAt(n, x - 1)
  BY DEF Entered
<1>4. \A i, j \in Entry : i < j /\ j < N => KeyAt(n, i) < KeyAt(n, j)
  BY DEF LeafOK
<1> HIDE DEF N
<1>5. ASSUME NEW i \in Entry, pos <= i, i < N
      PROVE  KeyAt(n, i) > k
  <2>1. pos < N /\ KeyAt(n, pos) > k
    <3>1. pos < N
      BY <1>1, <1>5 DEF Entry
    <3>2. KeyAt(n, pos) >= k /\ KeyAt(n, pos) # k /\ KeyAt(n, pos) \in Int
      BY <1>1, <1>2, <3>1 DEF N
    <3> QED
      BY <3>1, <3>2
  <2>2. CASE i = pos
    BY <2>1, <2>2
  <2>3. CASE i # pos
    <3>1. pos < i
      BY <1>1, <1>5, <2>3 DEF Entry
    <3>2. KeyAt(n, pos) < KeyAt(n, i)
      BY <1>1, <1>4, <1>5, <3>1
    <3> QED
      BY <1>1, <1>2, <2>1, <3>2
  <2> QED
    BY <2>2, <2>3
<1>6. \A x \in Entry : pos < x /\ x <= N => x - 1 \in Entry /\ x - 1 < N /\ pos <= x - 1
  BY <1>1, Bound DEF Entry
<1>7. \A x \in Entry : x < N => x + 1 \in Entry /\ x + 1 <= N /\ (pos <= x => pos < x + 1)
  BY <1>1, Bound DEF Entry
<1>8. ASSUME NEW i \in Entry, NEW j \in Entry, i < j, j < N + 1
      PROVE  KeyAt(q, i) < KeyAt(q, j)
  <2>1. CASE j < pos
    <3>1. i < pos /\ j < N
      BY <1>1, <1>8, <2>1 DEF Entry
    <3> QED
      BY <1>3, <1>4, <1>8, <2>1, <3>1
  <2>2. CASE j = pos
    BY <1>1, <1>3, <1>8, <2>2
  <2>3. CASE pos < j /\ i < pos
    <3>1. j <= N
      BY <1>1, <1>8 DEF Entry
    <3>2. KeyAt(q, j) = KeyAt(n, j - 1) /\ KeyAt(n, j - 1) > k /\ KeyAt(n, j - 1) \in Int
      BY <1>2, <1>3, <1>5, <1>6, <2>3, <3>1
    <3>3. KeyAt(q, i) = KeyAt(n, i) /\ KeyAt(n, i) < k /\ KeyAt(n, i) \in Int
      BY <1>1, <1>2, <1>3, <2>3
    <3> QED
      BY <3>2, <3>3
  <2>4. CASE pos < j /\ i = pos
    <3>1. j <= N
      BY <1>1, <1>8 DEF Entry
    <3>2. KeyAt(q, j) = KeyAt(n, j - 1) /\ KeyAt(n, j - 1) > k /\ KeyAt(n, j - 1) \in Int
      BY <1>2, <1>3, <1>5, <1>6, <2>4, <3>1
    <3> QED
      BY <1>3, <2>4, <3>2
  <2>5. CASE pos < j /\ pos < i
    <3>1. j <= N /\ i <= N
      BY <1>1, <1>8 DEF Entry
    <3>2. j - 1 \in Entry /\ i - 1 \in Entry /\ i - 1 < j - 1 /\ j - 1 < N
      BY <1>6, <1>8, <2>5, <3>1 DEF Entry
    <3> QED
      BY <1>3, <1>4, <2>5, <3>1, <3>2
  <2> QED
    BY <1>1, <2>1, <2>2, <2>3, <2>4, <2>5 DEF Entry
<1>9. LeafOK(q)
  <2>1. N + 1 \in 0 .. MAX_KEYS
    BY <1>1, Bound
  <2> QED
    BY <1>3, <1>8, <2>1 DEF LeafOK
<1>10. ASSUME NEW x, NEW w, Binds(q, x, w)
       PROVE  IF x = k THEN w = v ELSE Binds(n, x, w)
  <2>1. PICK i \in Entry : i < N + 1 /\ KeyAt(q, i) = x /\ ValueAt(q, i) = w
    BY <1>3, <1>10 DEF Binds
  <2>2. CASE i < pos
    <3>1. i < N /\ KeyAt(n, i) = x /\ ValueAt(n, i) = w /\ x # k
      BY <1>1, <1>2, <1>3, <2>1, <2>2 DEF Entry
    <3> QED
      BY <3>1 DEF Binds, N
  <2>3. CASE i = pos
    BY <1>3, <2>1, <2>3
  <2>4. CASE pos < i
    <3>1. i <= N
      BY <1>1, <2>1 DEF Entry
    <3>2. i - 1 \in Entry /\ i - 1 < N /\ KeyAt(n, i - 1) = x /\ ValueAt(n, i - 1) = w
      BY <1>3, <1>6, <2>1, <2>4, <3>1
    <3>3. x # k
      BY <1>2, <1>5, <1>6, <2>4, <3>1, <3>2
    <3> QED
      BY <3>2, <3>3 DEF Binds, N
  <2> QED
    BY <1>1, <2>2, <2>3, <2>4 DEF Entry
<1>11. Binds(q, k, v)
  <2>1. pos < N + 1
    BY <1>1
  <2> QED
    BY <1>1, <1>3, <2>1 DEF Binds
<1>12. ASSUME NEW x, NEW w, Binds(n, x, w)
       PROVE  Binds(q, x, w)
  <2>1. PICK i \in Entry : i < N /\ KeyAt(n, i) = x /\ ValueAt(n, i) = w
    BY <1>12 DEF Binds, N
  <2>2. CASE i < pos
    <3>1. i < N + 1
      BY <1>1, <2>1 DEF Entry
    <3> QED
      BY <1>3, <2>1, <2>2, <3>1 DEF Binds
  <2>3. CASE pos <= i
    <3> DEFINE j == i + 1
    <3>1. j \in Entry /\ j <= N /\ pos < j /\ j - 1 = i /\ j < N + 1
      BY <1>1, <1>7, <2>1, <2>3, Bound DEF Entry
    <3> HIDE DEF j
    <3>2. KeyAt(q, j) = x /\ ValueAt(q, j) = w
      BY <1>3, <2>1, <3>1
    <3> QED
      BY <1>3, <3>1, <3>2 DEF Binds
  <2> QED
    BY <1>1, <2>2, <2>3 DEF Entry
<1> QED
  BY <1>9, <1>10, <1>11, <1>12

\* A value of an entry is replaced.
LEMMA Rebound ==
  ASSUME NEW n, LeafOK(n), NEW pos \in Entry, pos < n.numKeys, NEW k, KeyAt(n, pos) = k,
         NEW v, IsRid(v), NEW q, q = SetValue(n, pos, v)
  PROVE  /\ LeafOK(q)
         /\ \A x, w : Binds(q, x, w) => IF x = k THEN w = v ELSE Binds(n, x, w)
         /\ Binds(q, k, v)
         /\ \A x, w : Binds(n, x, w) /\ x # k => Binds(q, x, w)
<1>1. n \in Node
  BY DEF LeafOK
<1>2. /\ q \in Node /\ q.isLeaf = n.isLeaf /\ q.numKeys = n.numKeys
      /\ ValueAt(q, pos) = v
      /\ \A x \in Entry \ {pos} : ValueAt(q, x) = ValueAt(n, x)
      /\ \A x \in Entry : KeyAt(q, x) = KeyAt(n, x)
  BY <1>1, ValueSet
<1>3. LeafOK(q)
  BY <1>2 DEF LeafOK
<1>4. ASSUME NEW x, NEW w, Binds(q, x, w)
      PROVE  IF x = k THEN w = v ELSE Binds(n, x, w)
  <2>1. PICK i \in Entry : i < n.numKeys /\ KeyAt(n, i) = x /\ ValueAt(q, i) = w
    BY <1>2, <1>4 DEF Binds
  <2>2. CASE i = pos
    BY <1>2, <2>1, <2>2
  <2>3. CASE i # pos
    <3>1. x # k
      BY <2>1, <2>3, OneEntry
    <3> QED
      BY <1>2, <2>1, <2>3, <3>1 DEF Binds
  <2> QED
    BY <2>2, <2>3
<1>5. Binds(q, k, v)
  BY <1>2 DEF Binds
<1>6. ASSUME NEW x, NEW w, Binds(n, x, w), x # k
      PROVE  Binds(q, x, w)
  BY <1>2, <1>6 DEF Binds
<1> QED
  BY <1>3, <1>4, <1>5, <1>6

\* An entry is taken out.
LEMMA EntryRemoved ==
  ASSUME NEW n, LeafOK(n), NEW pos \in Entry, pos < n.numKeys, NEW k, KeyAt(n, pos) = k,
         NEW q, q = [ShiftedDown(n, pos) EXCEPT !.numKeys = @ - 1]
  PROVE  /\ LeafOK(q)
         /\ \A x, w : Binds(q, x, w) => x # k /\ Binds(n, x, w)
         /\ \A x, w : Binds(n, x, w) /\ x # k => Binds(q, x, w)
<1> DEFINE a == ShiftedDown(n, pos)
           L == n.numKeys - 1
<1>1. /\ n \in Node /\ n.isLeaf /\ n.numKeys \in Nat /\ n.numKeys <= MAX_KEYS
      /\ pos \in 0 .. L /\ L \in Nat /\ L < n.numKeys /\ pos \in Nat
      /\ L \in 0 .. MAX_KEYS
  BY Bound DEF LeafOK, Entry
<1>2. Lowered(a, n, pos, L)
  BY <1>1, ShiftedLowers
<1> HIDE DEF a
<1>3. a \in Node /\ a.isLeaf = n.isLeaf /\ a.numKeys = n.numKeys
  BY <1>2 DEF Lowered, Same
<1>4. q \in Node /\ q.isLeaf /\ q.numKeys = L /\ q.mem = a.mem
  BY <1>1, <1>3 DEF Node, a
<1>5. \A x \in Entry : KeyAt(q, x) = KeyAt(a, x) /\ ValueAt(q, x) = ValueAt(a, x)
  BY <1>4 DEF KeyAt, ValueAt
<1>6. \A x \in Entry : x < pos => KeyAt(q, x) = KeyAt(n, x) /\ ValueAt(q, x) = ValueAt(n, x)
  BY <1>2, <1>5 DEF Lowered
<1>7. \A x \in Entry : pos <= x /\ x < L =>
        KeyAt(q, x) = KeyAt(n, x + 1) /\ ValueAt(q, x) = ValueAt(n, x + 1)
  BY <1>2, <1>5 DEF Lowered
<1>8. \A i, j \in Entry : i < j /\ j < n.numKeys => KeyAt(n, i) < KeyAt(n, j)
  BY DEF LeafOK
<1>9. \A x \in Entry : x < L => x + 1 \in Entry /\ x + 1 < n.numKeys /\ x < n.numKeys
  BY <1>1, Bound DEF Entry
<1> HIDE DEF L
<1>10. ASSUME NEW i \in Entry, NEW j \in Entry, i < j, j < L
       PROVE  KeyAt(q, i) < KeyAt(q, j)
  <2>1. i < L /\ i + 1 < j + 1 /\ i < j + 1
    BY <1>1, <1>10 DEF Entry
  <2>2. CASE j < pos
    <3>1. i < pos
      BY <1>1, <1>10, <2>2 DEF Entry
    <3> QED
      BY <1>6, <1>8, <1>9, <1>10, <2>2, <3>1
  <2>3. CASE pos <= j /\ i < pos
    BY <1>6, <1>7, <1>8, <1>9, <1>10, <2>1, <2>3
  <2>4. CASE pos <= j /\ pos <= i
    BY <1>7, <1>8, <1>9, <1>10, <2>1, <2>4
  <2> QED
    BY <1>1, <2>2, <2>3, <2>4 DEF Entry
<1>11. LeafOK(q)
  BY <1>1, <1>4, <1>10 DEF LeafOK
<1>12. ASSUME NEW x, NEW w, Binds(q, x, w)
       PROVE  x # k /\ Binds(n, x, w)
  <2>1. PICK i \in Entry : i < L /\ KeyAt(q, i) = x /\ ValueAt(q, i) = w
    BY <1>4, <1>12 DEF Binds
  <2>2. CASE i < pos
    <3>1. i # pos /\ i < n.numKeys
      BY <1>1, <1>9, <2>1, <2>2 DEF Entry
    <3>2. KeyAt(n, i) = x /\ ValueAt(n, i) = w
      BY <1>6, <2>1, <2>2
    <3>3. Binds(n, x, w)
      BY <3>1, <3>2 DEF Binds
    <3>4. x # k
      BY <3>1, <3>2, OneEntry
    <3> QED
      BY <3>3, <3>4
  <2>3. CASE pos <= i
    <3> DEFINE j == i + 1
    <3>1. j \in Entry /\ j < n.numKeys /\ j # pos
      BY <1>1, <1>9, <2>1, <2>3 DEF Entry
    <3>2. KeyAt(n, j) = x /\ ValueAt(n, j) = w
      BY <1>7, <2>1, <2>3
    <3> HIDE DEF j
    <3>3. Binds(n, x, w)
      BY <3>1, <3>2 DEF Binds
    <3>4. x # k
      BY <3>1, <3>2, OneEntry
    <3> QED
      BY <3>3, <3>4
  <2> QED
    BY <1>1, <2>2, <2>3 DEF Entry
<1>13. ASSUME NEW x, NEW w, Binds(n, x, w), x # k
       PROVE  Binds(q, x, w)
  <2>1. PICK i \in Entry : i < n.numKeys /\ KeyAt(n, i) = x /\ ValueAt(n, i) = w
    BY <1>13 DEF Binds
  <2>2. i # pos
    BY <1>13, <2>1
  <2>3. CASE i < pos
    <3>1. i < L
      BY <1>1, <2>3 DEF Entry
    <3> QED
      BY <1>4, <1>6, <2>1, <2>3, <3>1 DEF Binds
  <2>4. CASE pos < i
    <3> DEFINE j == i - 1
    <3>1. j \in Entry /\ j < L /\ pos <= j /\ j + 1 = i
      BY <1>1, <2>1, <2>4, Bound DEF Entry, L
    <3> HIDE DEF j
    <3>2. KeyAt(q, j) = x /\ ValueAt(q, j) = w
      BY <1>7, <2>1, <3>1
    <3> QED
      BY <1>4, <3>1, <3>2 DEF Binds
  <2> QED
    BY <1>1, <2>2, <2>3, <2>4 DEF Entry
<1> QED
  BY <1>11, <1>12, <1>13

-----------------------------------------------------------------------------
(* A tree whose root is its only node.                                      *)

Unsplit == rootPage_ = 1 /\ header = 1 /\ nodeCount = 1 /\ LeafOK(node[1])

Descent(k, m) ==
  m = [i \in 0 .. nodeCount |->
         IF i = 0 THEN <<rootPage_>>
         ELSE LET n == node[Last(m[i - 1])] IN
              IF n.isLeaf THEN m[i - 1]
                          ELSE Append(m[i - 1], ChildAt(n, UpperBound(n, k)))]

LEMMA RootPath ==
  ASSUME Unsplit, NEW k
  PROVE  PathTo(k) = <<1>> /\ FindLeafPage(k) = 1
<1> DEFINE m == CHOOSE m : Descent(k, m)
           f == [i \in 0 .. 1 |-> <<1>>]
<1>1. rootPage_ = 1 /\ nodeCount = 1 /\ node[1].isLeaf /\ Last(<<1>>) = 1
  BY DEF Unsplit, LeafOK, Last
<1>2. Descent(k, f)
  <2>1. ASSUME NEW i \in 0 .. 1
        PROVE  <<1>> = IF i = 0 THEN <<rootPage_>>
                       ELSE LET n == node[Last(f[i - 1])] IN
                            IF n.isLeaf THEN f[i - 1]
                            ELSE Append(f[i - 1], ChildAt(n, UpperBound(n, k)))
    <3>1. i = 0 \/ (i = 1 /\ f[i - 1] = <<1>>)
      OBVIOUS
    <3> QED
      BY <1>1, <3>1
  <2> QED
    BY <1>1, <2>1 DEF Descent
<1>3. Descent(k, m)
  BY <1>2
<1>4. PathTo(k) = m[1]
  BY <1>1 DEF PathTo, Descent
<1> HIDE DEF m
<1>5. m[0] = <<1>>
  BY <1>1, <1>3 DEF Descent
<1>6. m[1] = LET n == node[Last(m[0])] IN
             IF n.isLeaf THEN m[0] ELSE Append(m[0], ChildAt(n, UpperBound(n, k)))
  <2>1. 1 \in 0 .. nodeCount /\ 1 # 0 /\ 1 - 1 = 0
    BY <1>1
  <2> QED
    BY <1>3, <2>1 DEF Descent
<1>7. m[1] = <<1>>
  BY <1>1, <1>5, <1>6
<1> QED
  BY <1>1, <1>4, <1>7 DEF FindLeafPage

LEMMA FoundIsBound ==
  ASSUME Unsplit, NEW k
  PROVE  /\ Found(k) => Binds(node[1], k, Find(k))
         /\ \A v : Binds(node[1], k, v) => Found(k) /\ Find(k) = v
<1> DEFINE n == node[1]
           H == FoundAt(k)
<1>1. LeafOK(n) /\ n.numKeys \in Nat /\ n.numKeys <= MAX_KEYS /\ FindLeafPage(k) = 1
  BY RootPath, Bound DEF Unsplit, LeafOK
<1>2. H = {i \in Entry : i < n.numKeys /\ KeyAt(n, i) = k}
  BY <1>1, Bound DEF FoundAt, Entry
<1>3. \A i, j \in H : i = j
  BY <1>1, <1>2, OneEntry
<1>4. \A i \in H : i <= i
  BY <1>2 DEF Entry
<1>5. ASSUME NEW i \in H
      PROVE  Find(k) = ValueAt(n, i)
  <2>1. \A j \in H : i <= j
    BY <1>3, <1>4
  <2>2. i = CHOOSE x \in H : \A j \in H : x <= j
    BY <1>3, <2>1
  <2> QED
    BY <1>1, <2>2 DEF Find
<1>6. ASSUME Found(k)
      PROVE  Binds(n, k, Find(k))
  <2>1. PICK i \in H : TRUE
    BY <1>6 DEF Found
  <2> QED
    BY <1>2, <1>5, <2>1 DEF Binds
<1>7. ASSUME NEW v, Binds(n, k, v)
      PROVE  Found(k) /\ Find(k) = v
  <2>1. PICK i \in Entry : i < n.numKeys /\ KeyAt(n, i) = k /\ ValueAt(n, i) = v
    BY <1>7 DEF Binds
  <2>2. i \in H
    BY <1>2, <2>1
  <2> QED
    BY <1>5, <2>1, <2>2 DEF Found
<1> QED
  BY <1>6, <1>7

Ascent(k, v, m) ==
  m = [d \in 1 .. Len(PathTo(k)) |->
         IF d = Len(PathTo(k)) THEN InsertIntoLeaf(PathTo(k)[d], k, v)
                               ELSE Promote(m[d + 1], PathTo(k)[d])]

LEMMA InsertIntoRoot ==
  ASSUME Unsplit, NEW k, NEW v
  PROVE  InsertRecursive(k, v) = InsertIntoLeaf(1, k, v)
<1> DEFINE P == PathTo(k)
           m == CHOOSE m : Ascent(k, v, m)
           leaf == InsertIntoLeaf(1, k, v)
           f == [d \in 1 .. 1 |-> leaf]
<1>1. P = <<1>> /\ Len(P) = 1 /\ P[1] = 1
  BY RootPath
<1> HIDE DEF leaf
<1>2. Ascent(k, v, f)
  <2>1. \A d \in 1 .. 1 : leaf = IF d = Len(P) THEN InsertIntoLeaf(P[d], k, v)
                                              ELSE Promote(f[d + 1], P[d])
    BY <1>1 DEF leaf
  <2> QED
    BY <1>1, <2>1 DEF Ascent
<1>3. Ascent(k, v, m)
  BY <1>2
<1>4. InsertRecursive(k, v) = m[1]
  BY <1>1 DEF InsertRecursive, Ascent
<1> HIDE DEF m
<1>5. m[1] = leaf
  BY <1>1, <1>3 DEF Ascent, leaf
<1> QED
  BY <1>4, <1>5 DEF leaf

-----------------------------------------------------------------------------
(* The operations on such a tree.                                           *)

Rebinds(q, n, k, v) ==
  /\ \A x, w : Binds(q, x, w) => IF x = k THEN w = v ELSE Binds(n, x, w)
  /\ Binds(q, k, v)
  /\ \A x, w : Binds(n, x, w) /\ x # k => Binds(q, x, w)

Unbinds(q, n, k) ==
  /\ \A x, w : Binds(q, x, w) => x # k /\ Binds(n, x, w)
  /\ \A x, w : Binds(n, x, w) /\ x # k => Binds(q, x, w)

\* A key that is not where lower_bound points is in no entry.
LEMMA NotBound ==
  ASSUME NEW n, LeafOK(n), NEW k \in Int, NEW pos, pos = LowerBound(n, k),
         ~(pos < n.numKeys /\ KeyAt(n, pos) = k), NEW w
  PROVE  ~Binds(n, k, w)
<1> SUFFICES ASSUME Binds(n, k, w) PROVE FALSE
  OBVIOUS
<1>1. PICK i \in Entry : i < n.numKeys /\ KeyAt(n, i) = k
  BY DEF Binds
<1>2. /\ pos \in 0 .. n.numKeys
      /\ pos < n.numKeys => KeyAt(n, pos) >= k
      /\ \A j \in Entry : j < pos => KeyAt(n, j) < k
  BY LowerFound
<1>3. n \in Node /\ n.numKeys \in Nat /\ n.numKeys <= MAX_KEYS
  BY Bound DEF LeafOK
<1>4. ~(i < pos)
  BY <1>1, <1>2
<1>5. pos < n.numKeys /\ pos < i /\ pos \in Entry
  <2>1. pos <= i /\ pos < n.numKeys
    BY <1>1, <1>2, <1>3, <1>4, Bound DEF Entry
  <2>2. pos # i
    BY <1>1, <2>1
  <2> QED
    BY <1>1, <1>2, <1>3, <2>1, <2>2, Bound DEF Entry
<1>6. KeyAt(n, pos) < k /\ KeyAt(n, pos) \in Int
  BY <1>1, <1>3, <1>5, EntryType DEF LeafOK
<1> QED
  BY <1>2, <1>5, <1>6

LEMMA EntryBinds ==
  ASSUME NEW n, LeafOK(n), n.numKeys < MAX_KEYS, NEW k \in Int, NEW v, IsRid(v), NEW pos,
         pos = LowerBound(n, k), ~(pos < n.numKeys /\ KeyAt(n, pos) = k),
         NEW q, q = Written(WithEntry(n, pos, k, v))
  PROVE  LeafOK(q) /\ Rebinds(q, n, k, v)
<1>1. pos \in 0 .. n.numKeys
  BY LowerFound
<1>2. Entered(q, n, pos, k, v)
  BY <1>1, EntryEntered
<1>3. LeafOK(q) /\ \A x, w : Binds(q, x, w) <=> IF x = k THEN w = v ELSE Binds(n, x, w)
  BY <1>2, EnteredBinds
<1>4. ASSUME NEW x, NEW w
      PROVE  /\ Binds(q, x, w) => IF x = k THEN w = v ELSE Binds(n, x, w)
             /\ Binds(n, x, w) /\ x # k => Binds(q, x, w)
  BY <1>3
<1>5. Binds(q, k, v)
  BY <1>3
<1> QED
  BY <1>3, <1>4, <1>5 DEF Rebinds

LEMMA MoveKeeps ==
  ASSUME NEW n \in Node, NEW i \in 0 .. MAX_KEYS, NEW j \in 0 .. MAX_KEYS - 1
  PROVE  MoveEntry(n, i, j) \in Node /\ MoveEntry(n, i, j).numKeys = n.numKeys
<1> DEFINE m == SetKey(n, i, KeyAt(n, j))
           v == ValueAt(m, j)
           a == UnionAt + 2 * i
           q == SetValue(m, i, v)
<1>1. /\ KeysAt + i \in Cell /\ KeysAt + j \in Cell /\ a \in Cell /\ a + 1 \in Cell
      /\ UnionAt + 2 * j \in Cell /\ UnionAt + 2 * j + 1 \in Cell
  BY Bound DEF KeysAt, UnionAt, NextAt, Cell
<1>2. n.mem \in [Cell -> Int] /\ KeyAt(n, j) \in Int
  BY <1>1 DEF Node, KeyAt
<1>3. m = [n EXCEPT !.mem = [n.mem EXCEPT ![KeysAt + i] = KeyAt(n, j)]]
  BY DEF SetKey
<1>4. m \in Node /\ m.numKeys = n.numKeys
  BY <1>1, <1>2, <1>3 DEF Node
<1>5. MoveEntry(n, i, j) = q
  BY DEF MoveEntry
<1> HIDE DEF m
<1>6. v.pageId \in Int /\ v.slotNum \in Int /\ m.mem \in [Cell -> Int]
  BY <1>1, <1>4 DEF Node, ValueAt
<1> HIDE DEF v
<1>7. q = [m EXCEPT !.mem = [[m.mem EXCEPT ![a] = v.pageId] EXCEPT ![a + 1] = v.slotNum]]
  BY <1>4 DEF SetValue, Node
<1> HIDE DEF a
<1>8. q \in Node /\ q.numKeys = m.numKeys
  BY <1>1, <1>4, <1>6, <1>7 DEF Node
<1> QED
  BY <1>4, <1>5, <1>8

\* Of a full leaf as well: what is written past the keys is still in the node's memory.
LEMMA ShiftedKeeps ==
  ASSUME NEW n \in Node, NEW pos \in 0 .. n.numKeys, n.numKeys <= MAX_KEYS
  PROVE  Shifted(n, pos) \in Node /\ Shifted(n, pos).numKeys = n.numKeys
<1>1. PICK m : UpLoop(n, pos, m) /\ Shifted(n, pos) = m[pos]
  BY UpLoopEnds
<1> DEFINE N == n.numKeys
           D == N - pos
           Kept(q) == q \in Node /\ q.numKeys = N
           S == {d \in 0 .. D : Kept(m[N - d])}
<1>2. N \in Nat /\ pos \in Nat /\ D \in Nat /\ N - D = pos /\ N <= MAX_KEYS /\ Kept(n)
  BY DEF Node
<1> HIDE DEF N
<1>3. \A i \in pos .. N : m[i] = IF i = N THEN n ELSE MoveEntry(m[i + 1], i + 1, i)
  BY <1>1 DEF UpLoop, N
<1>4. 0 \in S
  <2>1. m[N] = n /\ N - 0 = N
    BY <1>2, <1>3
  <2> QED
    BY <1>2, <2>1
<1>5. ASSUME NEW d \in 0 + 1 .. D, d - 1 \in S
      PROVE  d \in S
  <2> DEFINE p == N - d
  <2>1. /\ p \in pos .. N /\ p # N /\ p + 1 \in 0 .. MAX_KEYS /\ p \in 0 .. MAX_KEYS - 1
        /\ N - (d - 1) = p + 1 /\ d \in 0 .. D
    BY <1>2, Bound
  <2>2. m[p] = MoveEntry(m[p + 1], p + 1, p) /\ Kept(m[p + 1])
    BY <1>3, <1>5, <2>1
  <2> HIDE DEF p
  <2>3. Kept(m[p])
    BY <2>1, <2>2, MoveKeeps
  <2> QED
    BY <2>1, <2>3 DEF p
<1>6. D \in S
  <2> HIDE DEF S
  <2> QED
    BY <1>2, <1>4, <1>5, Climb
<1>7. Kept(m[pos])
  BY <1>2, <1>6
<1> QED
  BY <1>1, <1>7 DEF N

LEMMA EntrySize ==
  ASSUME NEW n, LeafOK(n), NEW pos \in 0 .. n.numKeys, NEW k, NEW v
  PROVE  WithEntry(n, pos, k, v).numKeys = n.numKeys + 1
<1> DEFINE a == Shifted(n, pos)
           b == SetKey(a, pos, k)
           c == SetValue(b, pos, v)
<1>1. a.numKeys = n.numKeys /\ DOMAIN a = {"isLeaf", "numKeys", "mem"}
  <2>1. a \in Node /\ a.numKeys = n.numKeys
    BY ShiftedKeeps, Bound DEF LeafOK
  <2> QED
    BY <2>1 DEF Node
<1> HIDE DEF a
<1>2. b.numKeys = a.numKeys /\ DOMAIN b = DOMAIN a
  BY <1>1 DEF SetKey
<1> HIDE DEF b
<1>3. c.numKeys = b.numKeys /\ DOMAIN c = DOMAIN b
  BY <1>1, <1>2 DEF SetValue
<1> HIDE DEF c
<1>4. [c EXCEPT !.numKeys = @ + 1].numKeys = c.numKeys + 1
  BY <1>1, <1>2, <1>3
<1> QED
  BY <1>1, <1>2, <1>3, <1>4 DEF WithEntry, a, b, c

LEMMA InsertBinds ==
  ASSUME Unsplit, node \in [NodePage -> Node], NEW k \in Int, NEW v, IsRid(v), TreeInsert(k, v),
         nodeCount' = 1
  PROVE  /\ Unsplit' /\ node' \in [NodePage -> Node]
         /\ Rebinds(node'[1], node[1], k, v)
<1> DEFINE n == node[1]
           pos == LowerBound(n, k)
           inserted == WithEntry(n, pos, k, v)
           res == InsertRecursive(k, v)
           InPlace(q) == NoSplit([node EXCEPT ![1] = q], nodeCount)
<1>1. LeafOK(n) /\ 1 \in NodePage /\ n.numKeys \in Nat
  BY TreeAssumption DEF Unsplit, NodePage, LeafOK
<1>2. res = IF pos < n.numKeys /\ KeyAt(n, pos) = k THEN InPlace(SetValue(n, pos, v))
            ELSE IF inserted.numKeys <= MAX_KEYS THEN InPlace(Written(inserted))
            ELSE SplitLeaf(node, nodeCount, 1, inserted)
  BY InsertIntoRoot DEF InsertIntoLeaf
<1>3. pos \in 0 .. n.numKeys
  BY <1>1, LowerFound
<1>4. inserted.numKeys = n.numKeys + 1
  BY <1>1, <1>3, EntrySize
<1> HIDE DEF pos, inserted
<1>5. ASSUME NEW q, LeafOK(q), Rebinds(q, n, k, v), res = InPlace(q)
      PROVE  /\ Unsplit' /\ node' \in [NodePage -> Node]
             /\ Rebinds(node'[1], node[1], k, v)
  <2>1. /\ res.split = FALSE /\ res.pages = [node EXCEPT ![1] = q] /\ res.count = nodeCount
    BY <1>5 DEF NoSplit
  <2>2. node' = res.pages /\ rootPage_' = rootPage_ /\ header' = header
    BY <2>1 DEF TreeInsert
  <2>3. node'[1] = q /\ node' \in [NodePage -> Node]
    BY <1>1, <1>5, <2>1, <2>2 DEF LeafOK
  <2> QED
    BY <1>5, <2>2, <2>3 DEF Unsplit
<1>6. CASE pos < n.numKeys /\ KeyAt(n, pos) = k
  <2> DEFINE q == SetValue(n, pos, v)
  <2>1. pos \in Entry
    BY <1>1, <1>3, <1>6, Bound DEF LeafOK, Entry
  <2>2. LeafOK(q) /\ Rebinds(q, n, k, v)
    BY <1>1, <1>6, <2>1, Rebound DEF Rebinds
  <2>3. res = InPlace(q)
    BY <1>2, <1>6
  <2> QED
    BY <1>5, <2>2, <2>3
<1>7. CASE ~(pos < n.numKeys /\ KeyAt(n, pos) = k) /\ n.numKeys < MAX_KEYS
  <2> DEFINE q == Written(inserted)
  <2>1. LeafOK(q) /\ Rebinds(q, n, k, v)
    BY <1>1, <1>7, EntryBinds DEF pos, inserted
  <2>2. inserted.numKeys <= MAX_KEYS
    BY <1>1, <1>4, <1>7, Bound
  <2>3. res = InPlace(q)
    BY <1>2, <1>7, <2>2
  <2> QED
    BY <1>5, <2>1, <2>3
<1>8. CASE ~(pos < n.numKeys /\ KeyAt(n, pos) = k) /\ ~(n.numKeys < MAX_KEYS)
  <2>1. ~(inserted.numKeys <= MAX_KEYS)
    BY <1>1, <1>4, <1>8, Bound
  <2>2. res = SplitLeaf(node, nodeCount, 1, inserted)
    BY <1>2, <1>8, <2>1
  <2> HIDE DEF res
  <2>3. res.split /\ res.count = nodeCount + 1
    BY <2>2, Zenon DEF SplitLeaf
  <2>4. nodeCount' = nodeCount + 1 + 1
    BY <2>3 DEF TreeInsert, res
  <2>5. nodeCount = 1
    BY DEF Unsplit
  <2> QED
    BY <2>4, <2>5
<1> QED
  BY <1>6, <1>7, <1>8

\* A leaf is split only for a key that is not in it, and only when it is full.
LEMMA InsertFits ==
  ASSUME Unsplit, NEW k \in Int, NEW v, TreeInsert(k, v), nodeCount' # 1
  PROVE  node[1].numKeys = MAX_KEYS /\ \A w : ~Binds(node[1], k, w)
<1> DEFINE n == node[1]
           pos == LowerBound(n, k)
           inserted == WithEntry(n, pos, k, v)
           res == InsertRecursive(k, v)
           InPlace(q) == NoSplit([node EXCEPT ![1] = q], nodeCount)
<1>1. LeafOK(n) /\ n.numKeys \in Nat /\ n.numKeys <= MAX_KEYS /\ nodeCount = 1
  BY Bound DEF Unsplit, LeafOK
<1>2. res = IF pos < n.numKeys /\ KeyAt(n, pos) = k THEN InPlace(SetValue(n, pos, v))
            ELSE IF inserted.numKeys <= MAX_KEYS THEN InPlace(Written(inserted))
            ELSE SplitLeaf(node, nodeCount, 1, inserted)
  BY InsertIntoRoot DEF InsertIntoLeaf
<1>3. inserted.numKeys = n.numKeys + 1
  BY <1>1, LowerFound, EntrySize
<1>4. ASSUME NEW q, res = InPlace(q)
      PROVE  FALSE
  <2>1. ~res.split /\ res.count = nodeCount
    BY <1>4 DEF NoSplit
  <2>2. nodeCount' = nodeCount
    BY <2>1 DEF TreeInsert
  <2> QED
    BY <1>1, <2>2
<1> HIDE DEF pos, inserted
<1>5. ~(pos < n.numKeys /\ KeyAt(n, pos) = k)
  BY <1>2, <1>4
<1>6. ~(inserted.numKeys <= MAX_KEYS)
  BY <1>2, <1>4, <1>5
<1>7. n.numKeys = MAX_KEYS
  BY <1>1, <1>3, <1>6, Bound
<1>8. ASSUME NEW w PROVE ~Binds(n, k, w)
  BY <1>1, <1>5, NotBound DEF pos
<1> QED
  BY <1>7, <1>8

LEMMA RemoveUnbinds ==
  ASSUME Unsplit, node \in [NodePage -> Node], NEW k \in Int, TreeRemove(k)
  PROVE  /\ Unsplit' /\ node' \in [NodePage -> Node]
         /\ Unbinds(node'[1], node[1], k)
<1> DEFINE n == node[1]
           pos == LowerBound(n, k)
           q == [ShiftedDown(n, pos) EXCEPT !.numKeys = @ - 1]
<1>1. LeafOK(n) /\ 1 \in NodePage /\ n.numKeys \in Nat
  BY TreeAssumption DEF Unsplit, NodePage, LeafOK
<1>2. /\ node' = IF pos < n.numKeys /\ KeyAt(n, pos) = k THEN [node EXCEPT ![1] = q] ELSE node
      /\ header' = header /\ nodeCount' = nodeCount /\ rootPage_' = rootPage_
  <2>1. FindLeafPage(k) = 1
    BY RootPath
  <2> DEFINE body(p) == LET m == node[p]
                            i == LowerBound(m, k)
                        IN  IF i < m.numKeys /\ KeyAt(m, i) = k
                            THEN [node EXCEPT ![p] = [ShiftedDown(m, i) EXCEPT !.numKeys = @ - 1]]
                            ELSE node
  <2>2. node' = body(FindLeafPage(k))
    BY DEF TreeRemove
  <2>3. node' = body(1)
    <3> HIDE DEF body
    <3> QED
      BY <2>1, <2>2
  <2> QED
    BY <2>3 DEF TreeRemove
<1>3. pos \in 0 .. n.numKeys
  BY <1>1, LowerFound
<1> HIDE DEF pos
<1>4. CASE pos < n.numKeys /\ KeyAt(n, pos) = k
  <2>1. pos \in Entry
    BY <1>1, <1>3, <1>4, Bound DEF LeafOK, Entry
  <2>2. LeafOK(q) /\ Unbinds(q, n, k)
    BY <1>1, <1>4, <2>1, EntryRemoved DEF Unbinds
  <2> HIDE DEF q
  <2>3. node'[1] = q /\ node' \in [NodePage -> Node]
    BY <1>1, <1>2, <1>4, <2>2 DEF LeafOK
  <2> QED
    BY <1>2, <2>2, <2>3 DEF Unsplit
<1>5. CASE ~(pos < n.numKeys /\ KeyAt(n, pos) = k)
  <2>1. node' = node
    BY <1>2, <1>5
  <2>2. \A w : ~Binds(n, k, w)
    BY <1>1, <1>5, NotBound DEF pos
  <2>3. Unbinds(n, n, k)
    BY <2>2 DEF Unbinds
  <2> QED
    BY <1>2, <2>1, <2>3 DEF Unsplit
<1> QED
  BY <1>4, <1>5

-----------------------------------------------------------------------------
(* The inductive invariant.                                                 *)

OneLeaf == nodeCount = 1

RowsTyped == DOMAIN rows \subseteq Rid /\ rows \in [DOMAIN rows -> Record]

\* Every entry of the leaf leads to a row with its key.
Home == \A k, v : Binds(node[1], k, v) => k \in Key /\ v \in DOMAIN rows /\ rows[v].key = k

IInv == Unsplit /\ node \in [NodePage -> Node] /\ RowsTyped /\ Home

LEMMA RidIsRid ==
  ASSUME NEW r \in Rid
  PROVE  IsRid(r)
  BY EngineAssumption DEF Rid, IsRid

LEMMA InitInv == Init => IInv
<1> SUFFICES ASSUME Init PROVE IInv
  OBVIOUS
<1> DEFINE z == [ZeroNode EXCEPT !.isLeaf = TRUE]
           q == SetNext(z, -1)
<1>1. ZeroNode \in Node /\ ZeroNode.numKeys = 0
  BY DEF ZeroNode, Node
<1>2. z \in Node /\ z.isLeaf /\ z.numKeys = 0
  BY <1>1 DEF Node
<1> HIDE DEF z
<1>3. z.mem \in [Cell -> Int] /\ NextAt \in Cell /\ q = [z EXCEPT !.mem = [z.mem EXCEPT ![NextAt] = -1]]
  BY <1>2, Bound DEF Node, NextAt, Cell, SetNext
<1>4. q \in Node /\ q.isLeaf /\ q.numKeys = 0
  BY <1>2, <1>3 DEF Node
<1>5. node = [p \in NodePage |-> IF p = 1 THEN q ELSE ZeroNode]
  BY DEF Init, TreeInit, z
<1> HIDE DEF q
<1>6. node[1] = q /\ node \in [NodePage -> Node]
  BY <1>1, <1>4, <1>5, TreeAssumption DEF NodePage
<1>7. LeafOK(q)
  BY <1>4, Bound DEF LeafOK, Entry
<1>8. Unsplit
  BY <1>6, <1>7 DEF Unsplit, Init, TreeInit
<1>9. Home
  BY <1>4, <1>6 DEF Home, Binds, Entry
<1>10. RowsTyped
  BY DEF RowsTyped, Init
<1> QED
  BY <1>6, <1>8, <1>9, <1>10 DEF IInv

LEMMA InsertKeeps ==
  ASSUME IInv, NEW k \in Key, NEW v \in Value, InsertRecord(k, v), nodeCount' = 1
  PROVE  IInv'
<1>1. PICK r \in Rid :
        /\ r \notin DOMAIN rows
        /\ rows' = [q \in DOMAIN rows \cup {r} |->
                      IF q = r THEN [key |-> k, value |-> v] ELSE rows[q]]
        /\ TreeInsert(k, r)
  BY DEF InsertRecord, FirstFree
<1>2. k \in Int /\ IsRid(r)
  BY RidIsRid, TreeAssumption
<1>3. Unsplit' /\ node' \in [NodePage -> Node] /\ Rebinds(node'[1], node[1], k, r)
  BY <1>1, <1>2, InsertBinds DEF IInv
<1>4. RowsTyped'
  BY <1>1 DEF IInv, RowsTyped, Record
<1>5. ASSUME NEW x, NEW w, Binds(node'[1], x, w)
      PROVE  x \in Key /\ w \in DOMAIN rows' /\ rows'[w].key = x
  <2>1. CASE x = k
    <3>1. w = r
      BY <1>3, <1>5, <2>1 DEF Rebinds
    <3> QED
      BY <1>1, <2>1, <3>1
  <2>2. CASE x # k
    <3>1. Binds(node[1], x, w)
      BY <1>3, <1>5, <2>2 DEF Rebinds
    <3>2. x \in Key /\ w \in DOMAIN rows /\ rows[w].key = x
      BY <3>1 DEF IInv, Home
    <3> QED
      BY <1>1, <3>2
  <2> QED
    BY <2>1, <2>2
<1> QED
  BY <1>3, <1>4, <1>5 DEF IInv, Home

LEMMA DeleteKeeps ==
  ASSUME IInv, NEW k \in Key, DeleteByKey(k)
  PROVE  IInv'
<1>1. /\ Found(k) /\ TreeRemove(k)
      /\ rows' = [q \in DOMAIN rows \ {Find(k)} |-> rows[q]]
  BY DEF DeleteByKey
<1>2. k \in Int
  BY TreeAssumption
<1>3. Unsplit' /\ node' \in [NodePage -> Node] /\ Unbinds(node'[1], node[1], k)
  BY <1>1, <1>2, RemoveUnbinds DEF IInv
<1>4. RowsTyped'
  BY <1>1 DEF IInv, RowsTyped
<1>5. Binds(node[1], k, Find(k))
  BY <1>1, FoundIsBound DEF IInv
<1>6. ASSUME NEW x, NEW w, Binds(node'[1], x, w)
      PROVE  x \in Key /\ w \in DOMAIN rows' /\ rows'[w].key = x
  <2>1. x # k /\ Binds(node[1], x, w)
    BY <1>3, <1>6 DEF Unbinds
  <2>2. x \in Key /\ w \in DOMAIN rows /\ rows[w].key = x /\ rows[Find(k)].key = k
    BY <1>5, <2>1 DEF IInv, Home
  <2>3. w # Find(k)
    BY <2>1, <2>2
  <2> QED
    BY <1>1, <2>2, <2>3
<1> QED
  BY <1>3, <1>4, <1>6 DEF IInv, Home

LEMMA UpdateKeeps ==
  ASSUME IInv, NEW k \in Key, NEW v \in Value, UpdateByKey(k, v)
  PROVE  IInv'
<1> DEFINE f == Find(k)
<1>1. /\ Found(k) /\ f \in DOMAIN rows
      /\ rows' = [rows EXCEPT ![f] = [key |-> k, value |-> v]]
      /\ node' = node /\ Unsplit'
  BY DEF UpdateByKey, treeVars, IInv, Unsplit
<1>2. [key |-> k, value |-> v] \in Record
  BY DEF Record
<1> HIDE DEF f
<1>3. /\ rows' \in [DOMAIN rows -> Record] /\ DOMAIN rows' = DOMAIN rows
      /\ \A w \in DOMAIN rows : w # f => rows'[w] = rows[w]
      /\ rows'[f].key = k
  BY <1>1, <1>2 DEF IInv, RowsTyped
<1>4. Binds(node[1], k, f)
  BY <1>1, FoundIsBound DEF IInv, f
<1>5. ASSUME NEW x, NEW w, Binds(node'[1], x, w)
      PROVE  x \in Key /\ w \in DOMAIN rows' /\ rows'[w].key = x
  <2>1. x \in Key /\ w \in DOMAIN rows /\ rows[w].key = x /\ rows[f].key = k
    BY <1>1, <1>4, <1>5 DEF IInv, Home
  <2> QED
    BY <1>3, <2>1
<1> QED
  BY <1>1, <1>3, <1>5 DEF IInv, Home, RowsTyped

LEMMA ReopenKeeps ==
  ASSUME IInv, Reopen \/ UNCHANGED vars
  PROVE  IInv'
<1>1. node' = node /\ nodeCount' = nodeCount /\ header' = header /\ rootPage_' = 1 /\ rows' = rows
  BY DEF Reopen, LoadHeader, vars, treeVars, IInv, Unsplit
<1>2. Unsplit' /\ RowsTyped' /\ Home'
  BY <1>1 DEF IInv, Unsplit, RowsTyped, Home
<1> QED
  BY <1>1, <1>2 DEF IInv

LEMMA StepInv == IInv /\ [Next]_vars /\ OneLeaf' => IInv'
  BY InsertKeeps, DeleteKeeps, UpdateKeeps, ReopenKeeps DEF Next, OneLeaf

LEMMA Invariance == Spec /\ []OneLeaf => []IInv
  BY InitInv, StepInv, PTL DEF Spec

-----------------------------------------------------------------------------
(* What the leaf binds is what the tree finds.                              *)

Reads == \A k : /\ Found(k) => Binds(node[1], k, Find(k))
                /\ \A v : Binds(node[1], k, v) => Found(k) /\ Find(k) = v

LEMMA ReadsBound == IInv => Reads
  BY FoundIsBound DEF Reads, IInv

LEMMA ReadsBoundNext == IInv' => Reads'
  BY ReadsBound, PTL

\* The map of the tree.
Mapped(m, n) ==
  /\ m = [k \in DOMAIN m |-> m[k]]
  /\ \A k \in DOMAIN m : Binds(n, k, m[k])
  /\ \A k, v : Binds(n, k, v) => k \in DOMAIN m /\ m[k] = v

TreeMapped == Mapped(TreeMap, node[1])

LEMMA TreeIsMapped == IInv => TreeMapped
<1> SUFFICES ASSUME IInv PROVE TreeMapped
  OBVIOUS
<1> DEFINE D == {x \in Key : Found(x)}
           m == TreeMap
<1>1. m = [k \in D |-> Find(k)]
  BY DEF TreeMap
<1> HIDE DEF m
<1>2. DOMAIN m = D /\ m = [k \in DOMAIN m |-> m[k]] /\ \A k \in D : m[k] = Find(k)
  BY <1>1
<1>3. \A k \in D : Binds(node[1], k, m[k])
  BY <1>2, ReadsBound DEF Reads
<1>4. ASSUME NEW k, NEW v, Binds(node[1], k, v)
      PROVE  k \in D /\ m[k] = v
  <2>1. Found(k) /\ Find(k) = v /\ k \in Key
    BY <1>4, ReadsBound DEF Reads, IInv, Home
  <2> QED
    BY <1>2, <2>1
<1>5. Mapped(m, node[1])
  BY <1>2, <1>3, <1>4 DEF Mapped
<1> QED
  BY <1>5 DEF m, TreeMapped

LEMMA TreeIsMappedNext == IInv' => TreeMapped'
  BY TreeIsMapped, PTL

LEMMA MapInserted ==
  ASSUME NEW q, NEW n, NEW k, NEW v, Rebinds(q, n, k, v), NEW m, Mapped(m, n), NEW mm, Mapped(mm, q)
  PROVE  mm = [x \in DOMAIN m \cup {k} |-> IF x = k THEN v ELSE m[x]]
<1>1. k \in DOMAIN mm /\ mm[k] = v
  BY DEF Mapped, Rebinds
<1>2. ASSUME NEW x \in DOMAIN mm, x # k
      PROVE  x \in DOMAIN m /\ m[x] = mm[x]
  <2>1. Binds(n, x, mm[x])
    BY <1>2 DEF Mapped, Rebinds
  <2> QED
    BY <2>1 DEF Mapped
<1>3. ASSUME NEW x \in DOMAIN m, x # k
      PROVE  x \in DOMAIN mm
  <2>1. Binds(n, x, m[x])
    BY <1>3 DEF Mapped
  <2>2. Binds(q, x, m[x])
    BY <1>3, <2>1 DEF Rebinds
  <2> QED
    BY <2>2 DEF Mapped
<1>4. DOMAIN mm = DOMAIN m \cup {k}
  BY <1>1, <1>2, <1>3
<1>5. \A x \in DOMAIN mm : mm[x] = IF x = k THEN v ELSE m[x]
  BY <1>1, <1>2
<1>6. mm = [x \in DOMAIN mm |-> mm[x]]
  BY DEF Mapped
<1> QED
  BY <1>4, <1>5, <1>6

LEMMA MapRemoved ==
  ASSUME NEW q, NEW n, NEW k, Unbinds(q, n, k), NEW m, Mapped(m, n), NEW mm, Mapped(mm, q)
  PROVE  mm = [x \in DOMAIN m \ {k} |-> m[x]]
<1>1. ASSUME NEW x \in DOMAIN mm
      PROVE  x # k /\ x \in DOMAIN m /\ m[x] = mm[x]
  <2>1. x # k /\ Binds(n, x, mm[x])
    BY <1>1 DEF Mapped, Unbinds
  <2> QED
    BY <2>1 DEF Mapped
<1>2. ASSUME NEW x \in DOMAIN m, x # k
      PROVE  x \in DOMAIN mm
  <2>1. Binds(n, x, m[x])
    BY <1>2 DEF Mapped
  <2>2. Binds(q, x, m[x])
    BY <1>2, <2>1 DEF Unbinds
  <2> QED
    BY <2>2 DEF Mapped
<1>3. DOMAIN mm = DOMAIN m \ {k}
  BY <1>1, <1>2
<1>4. mm = [x \in DOMAIN mm |-> mm[x]] /\ \A x \in DOMAIN mm : mm[x] = m[x]
  BY <1>1 DEF Mapped
<1> QED
  BY <1>3, <1>4

LEMMA MapSame ==
  ASSUME NEW n, NEW m, Mapped(m, n), NEW mm, Mapped(mm, n)
  PROVE  mm = m
<1>1. ASSUME NEW x \in DOMAIN mm
      PROVE  x \in DOMAIN m /\ m[x] = mm[x]
  BY <1>1 DEF Mapped
<1>2. ASSUME NEW x \in DOMAIN m
      PROVE  x \in DOMAIN mm
  BY <1>2 DEF Mapped
<1>3. DOMAIN mm = DOMAIN m
  BY <1>1, <1>2
<1>4. mm = [x \in DOMAIN mm |-> mm[x]] /\ m = [x \in DOMAIN m |-> m[x]]
  BY DEF Mapped
<1> QED
  BY <1>1, <1>3, <1>4

\* The key of every row.
Keys == [r \in DOMAIN rows |-> rows[r].key]

LEMMA StepMaps == IInv /\ IInv' /\ [Next]_vars => [Index!Next]_<<TreeMap, Keys>>
<1> SUFFICES ASSUME IInv, IInv', [Next]_vars PROVE [Index!Next]_<<TreeMap, Keys>>
  OBVIOUS
<1>1. Mapped(TreeMap, node[1]) /\ Mapped(TreeMap', node'[1])
  BY TreeIsMapped, TreeIsMappedNext DEF TreeMapped
<1>2. IInv => Unsplit /\ node \in [NodePage -> Node] /\ nodeCount' = 1
  BY DEF IInv, Unsplit
<1>3. ASSUME NEW k \in Key, NEW v \in Value, InsertRecord(k, v)
      PROVE  Index!Next
  <2>1. PICK r \in Rid :
          /\ r \notin DOMAIN rows
          /\ rows' = [q \in DOMAIN rows \cup {r} |->
                        IF q = r THEN [key |-> k, value |-> v] ELSE rows[q]]
          /\ TreeInsert(k, r)
    BY <1>3 DEF InsertRecord, FirstFree
  <2>2. k \in Int /\ IsRid(r)
    BY RidIsRid, TreeAssumption
  <2>3. Rebinds(node'[1], node[1], k, r)
    BY <1>2, <2>1, <2>2, InsertBinds
  <2>4. TreeMap' = [x \in DOMAIN TreeMap \cup {k} |-> IF x = k THEN r ELSE TreeMap[x]]
    BY <1>1, <2>3, MapInserted
  <2>5. Keys' = [x \in DOMAIN Keys \cup {r} |-> IF x = r THEN k ELSE Keys[x]]
    BY <2>1 DEF Keys
  <2>6. r \notin DOMAIN Keys
    BY <2>1 DEF Keys
  <2>7. Index!Insert(k, r)
    BY <2>4, <2>5, <2>6 DEF Index!Insert, Keys
  <2> QED
    BY <2>7 DEF Index!Next
<1>4. ASSUME NEW k \in Key, DeleteByKey(k)
      PROVE  Index!Next
  <2>1. /\ TreeRemove(k) /\ k \in Int /\ Found(k)
        /\ rows' = [q \in DOMAIN rows \ {Find(k)} |-> rows[q]]
    BY <1>4, TreeAssumption DEF DeleteByKey
  <2>2. Unbinds(node'[1], node[1], k)
    BY <1>2, <2>1, RemoveUnbinds
  <2>3. TreeMap' = [x \in DOMAIN TreeMap \ {k} |-> TreeMap[x]]
    BY <1>1, <2>2, MapRemoved
  <2>4. k \in DOMAIN TreeMap /\ TreeMap[k] = Find(k)
    BY <2>1 DEF TreeMap
  <2>5. Keys' = [x \in DOMAIN Keys \ {TreeMap[k]} |-> Keys[x]]
    BY <2>1, <2>4 DEF Keys
  <2>6. Index!Remove(k)
    BY <2>3, <2>4, <2>5 DEF Index!Remove, Keys
  <2> QED
    BY <2>6 DEF Index!Next
<1>5. ASSUME node' = node
      PROVE  TreeMap' = TreeMap
  BY <1>1, <1>5, MapSame
<1>6. ASSUME NEW k \in Key, NEW v \in Value, UpdateByKey(k, v)
      PROVE  UNCHANGED <<TreeMap, Keys>>
  <2> DEFINE f == Find(k)
  <2>1. /\ Found(k) /\ f \in DOMAIN rows /\ node' = node
        /\ rows' = [rows EXCEPT ![f] = [key |-> k, value |-> v]]
    BY <1>6 DEF UpdateByKey, treeVars
  <2>2. rows[f].key = k
    BY <2>1, ReadsBound DEF Reads, IInv, Home
  <2> HIDE DEF f
  <2>3. Keys' = Keys
    BY <2>1, <2>2 DEF Keys, IInv, RowsTyped
  <2> QED
    BY <1>5, <2>1, <2>3
<1>7. CASE Reopen \/ UNCHANGED vars
  <2>1. node' = node /\ rows' = rows
    BY <1>7 DEF Reopen, LoadHeader, vars, treeVars
  <2> QED
    BY <1>5, <2>1 DEF Keys
<1> QED
  BY <1>3, <1>4, <1>6, <1>7 DEF Next

\* ImplementsKeyIndex, of BPlusTree::insert, remove and find in one leaf under
\* insertRecord, deleteByKey and updateByKey: the insert of a row binds its key to it
\* and no other key, the delete of a row takes its key out, and nothing else moves,
\* entries moved over one another or left behind the last key or not.
THEOREM ImplementsIndex == Spec /\ []OneLeaf => ImplementsKeyIndex
<1>1. Init => Index!Init
  <2> SUFFICES ASSUME Init PROVE Index!Init
    OBVIOUS
  <2> DEFINE m == TreeMap
  <2>1. Mapped(m, node[1])
    BY InitInv, TreeIsMapped DEF TreeMapped
  <2>2. \A k, v : ~Binds(node[1], k, v)
    BY InitInv DEF Init, IInv, Home
  <2> HIDE DEF m
  <2>3. DOMAIN m = {}
    BY <2>1, <2>2 DEF Mapped
  <2>4. m = [k \in {} |-> 0]
    BY <2>1, <2>3 DEF Mapped
  <2>5. Keys = [r \in {} |-> 0]
    BY DEF Init, Keys
  <2> QED
    BY <2>4, <2>5 DEF Index!Init, m, Keys
<1>2. IInv /\ IInv' /\ [Next]_vars => [Index!Next]_<<TreeMap, Keys>>
  BY StepMaps
<1> QED
  BY Invariance, <1>1, <1>2, PTL DEF Spec, ImplementsKeyIndex, Index!Spec, Index!vars, Keys

\* TypeOK: nothing in a node is other than a number, no row other than a record of
\* the table in a slot of its heap.
THEOREM TypeCorrect == Spec /\ []OneLeaf => []TypeOK
<1>1. IInv => TypeOK
  BY TreeAssumption DEF IInv, Unsplit, RowsTyped, TypeOK, TreeTypeOK, NodePage
<1> QED
  BY Invariance, <1>1, PTL

\* IndexPointsHome: findByPrimaryKey ends at a row of the heap that has the key, also
\* behind deletions, record ids given out again and second rows under one key.
THEOREM IndexIsSound == Spec /\ []OneLeaf => []IndexPointsHome
<1>1. IInv => IndexPointsHome
  BY ReadsBound DEF IInv, Home, Reads, IndexPointsHome
<1> QED
  BY Invariance, <1>1, PTL

LEMMA ReachableIsBound ==
  IInv => \A r : Reachable(r) <=> r \in DOMAIN rows /\ Binds(node[1], rows[r].key, r)
  BY ReadsBound DEF Reads, Reachable

LEMMA StepReaches ==
  ASSUME IInv, IInv', [Next]_vars, NEW r \in DOMAIN rows, Reachable(r), ~Reachable(r)',
         r \in DOMAIN rows'
  PROVE  \E q \in DOMAIN rows' \ DOMAIN rows : rows'[q].key = rows[r].key
<1>1. /\ Unsplit /\ node \in [NodePage -> Node] /\ nodeCount' = 1
  BY DEF IInv, Unsplit
<1>2. Binds(node[1], rows[r].key, r)
  BY ReachableIsBound
<1>3. ~Binds(node'[1], rows'[r].key, r)
  BY ReadsBoundNext DEF Reads, Reachable
<1>4. ASSUME NEW k \in Key, NEW v \in Value, InsertRecord(k, v)
      PROVE  \E q \in DOMAIN rows' \ DOMAIN rows : rows'[q].key = rows[r].key
  <2>1. PICK s \in Rid :
          /\ s \notin DOMAIN rows
          /\ rows' = [q \in DOMAIN rows \cup {s} |->
                        IF q = s THEN [key |-> k, value |-> v] ELSE rows[q]]
          /\ TreeInsert(k, s)
    BY <1>4 DEF InsertRecord, FirstFree
  <2>2. k \in Int /\ IsRid(s)
    BY RidIsRid, TreeAssumption
  <2>3. Rebinds(node'[1], node[1], k, s)
    BY <1>1, <2>1, <2>2, InsertBinds
  <2>4. rows'[r] = rows[r] /\ rows'[s].key = k /\ s \in DOMAIN rows' \ DOMAIN rows
    BY <2>1
  <2>5. rows[r].key = k
    BY <1>2, <1>3, <2>3, <2>4 DEF Rebinds
  <2> QED
    BY <2>4, <2>5
<1>5. ASSUME NEW k \in Key, DeleteByKey(k)
      PROVE  FALSE
  <2>1. /\ TreeRemove(k) /\ k \in Int /\ Found(k)
        /\ rows' = [q \in DOMAIN rows \ {Find(k)} |-> rows[q]]
    BY <1>5, TreeAssumption DEF DeleteByKey
  <2>2. Unbinds(node'[1], node[1], k)
    BY <1>1, <2>1, RemoveUnbinds
  <2>3. rows'[r] = rows[r] /\ r # Find(k)
    BY <2>1
  <2>4. rows[r].key # k
    BY <2>3 DEF Reachable
  <2> QED
    BY <1>2, <1>3, <2>2, <2>3, <2>4 DEF Unbinds
<1>6. ASSUME NEW k \in Key, NEW v \in Value, UpdateByKey(k, v)
      PROVE  FALSE
  <2> DEFINE f == Find(k)
  <2>1. /\ Found(k) /\ f \in DOMAIN rows /\ node' = node
        /\ rows' = [rows EXCEPT ![f] = [key |-> k, value |-> v]]
    BY <1>6 DEF UpdateByKey, treeVars
  <2>2. rows[f].key = k
    BY <2>1, ReadsBound DEF Reads, IInv, Home
  <2> HIDE DEF f
  <2>3. rows'[r].key = rows[r].key
    BY <2>1, <2>2 DEF IInv, RowsTyped
  <2> QED
    BY <1>2, <1>3, <2>1, <2>3
<1>7. ASSUME Reopen \/ UNCHANGED vars
      PROVE  FALSE
  <2>1. node' = node /\ rows' = rows
    BY <1>7 DEF Reopen, LoadHeader, vars, treeVars
  <2> QED
    BY <1>2, <1>3, <2>1
<1> QED
  BY <1>4, <1>5, <1>6, <1>7 DEF Next

\* RowsStayReachable: insertRecord, deleteByKey and updateByKey cut off no row but by a
\* second one under its key.
THEOREM RowsAreKept == Spec /\ []OneLeaf => RowsStayReachable
<1>1. IInv /\ IInv' /\ [Next]_vars =>
        [\A r \in DOMAIN rows : Reachable(r) /\ ~Reachable(r)' /\ r \in DOMAIN rows' =>
           \E q \in DOMAIN rows' \ DOMAIN rows : rows'[q].key = rows[r].key]_vars
  BY StepReaches
<1> QED
  BY Invariance, <1>1, PTL DEF Spec, RowsStayReachable

-----------------------------------------------------------------------------
(* The range scan.                                                          *)

LEMMA UpperFound ==
  ASSUME NEW n, LeafOK(n), NEW k \in Int, NEW pos, pos = UpperBound(n, k)
  PROVE  /\ pos \in 0 .. n.numKeys
         /\ pos < n.numKeys => KeyAt(n, pos) > k
         /\ \A j \in Entry : j < pos => KeyAt(n, j) <= k
<1> DEFINE N == n.numKeys
           T == {i \in 0 .. N : i < N => KeyAt(n, i) > k}
<1>1. N \in Nat /\ n \in Node /\ N <= MAX_KEYS
  BY Bound DEF LeafOK
<1>2. N \in T /\ T \subseteq Nat
  BY <1>1
<1>3. PICK x \in T : \A y \in T : ~ (<<y, x>> \in OpToRel(<, Nat))
  BY <1>2, NatLessThanWellFounded, WFMin
<1>4. \A y \in T : ~ (y < x)
  BY <1>2, <1>3 DEF OpToRel
<1>5. ASSUME NEW j \in 0 .. x - 1
      PROVE  ~(KeyAt(n, j) > k)
  <2>1. j \in 0 .. N /\ j < x
    BY <1>1
  <2> QED
    BY <1>4, <2>1
<1>6. \E i \in 0 .. N : /\ i < N => KeyAt(n, i) > k
                        /\ \A j \in 0 .. i - 1 : ~(KeyAt(n, j) > k)
  BY <1>5
<1>7. pos = CHOOSE i \in 0 .. N : /\ i < N => KeyAt(n, i) > k
                                  /\ \A j \in 0 .. i - 1 : ~(KeyAt(n, j) > k)
  BY DEF UpperBound, FirstOf
<1>8. /\ pos \in 0 .. N
      /\ pos < N => KeyAt(n, pos) > k
      /\ \A j \in 0 .. pos - 1 : ~(KeyAt(n, j) > k)
  BY <1>6, <1>7
<1>9. ASSUME NEW j \in Entry, j < pos
      PROVE  KeyAt(n, j) <= k
  <2>1. j \in 0 .. pos - 1 /\ KeyAt(n, j) \in Int
    BY <1>1, <1>8, <1>9, EntryType DEF Entry
  <2> QED
    BY <1>8, <2>1
<1> QED
  BY <1>8, <1>9

ScanLoop(n, low, high, m) ==
  m = [i \in 0 .. UpperBound(n, high) |->
         IF i = 0 THEN <<>>
         ELSE IF KeyAt(n, i - 1) >= low THEN Append(m[i - 1], ValueAt(n, i - 1)) ELSE m[i - 1]]

\* The values of the entries from place lo on, as many as there are below place hi.
Slice(n, lo, hi) == [j \in 1 .. (IF hi > lo THEN hi - lo ELSE 0) |-> ValueAt(n, lo + j - 1)]

LEMMA SliceGrows ==
  ASSUME NEW n, NEW lo \in Nat, NEW i \in Nat, lo <= i
  PROVE  Append(Slice(n, lo, i), ValueAt(n, i)) = Slice(n, lo, i + 1)
<1> DEFINE s == Slice(n, lo, i)
           g == i - lo
           v == ValueAt(n, i)
           T == {ValueAt(n, x) : x \in Nat}
<1>1. g \in Nat /\ s = [j \in 1 .. g |-> ValueAt(n, lo + j - 1)]
  BY DEF Slice
<1>2. \A j \in 1 .. g : lo + j - 1 \in Nat
  BY <1>1
<1>3. s \in Seq(T) /\ Len(s) = g /\ v \in T
  BY <1>1, <1>2
<1>4. \A j \in 1 .. g : s[j] = ValueAt(n, lo + j - 1)
  BY <1>1
<1>5. lo + (g + 1) - 1 = i /\ Slice(n, lo, i + 1) = [j \in 1 .. g + 1 |-> ValueAt(n, lo + j - 1)]
  BY <1>1 DEF Slice
<1> HIDE DEF s, g
<1>6. Append(s, v) = [j \in 1 .. g + 1 |-> IF j \in 1 .. g THEN s[j] ELSE v]
  BY <1>1, <1>3
<1>7. \A j \in 1 .. g + 1 : (IF j \in 1 .. g THEN s[j] ELSE v) = ValueAt(n, lo + j - 1)
  BY <1>1, <1>4, <1>5
<1>8. Append(s, v) = [j \in 1 .. g + 1 |-> ValueAt(n, lo + j - 1)]
  BY <1>6, <1>7
<1> QED
  BY <1>5, <1>8 DEF s

LEMMA ScanIsSlice ==
  ASSUME NEW n, LeafOK(n), NEW low \in Int, NEW high \in Int
  PROVE  ScanLeaf(n, low, high) = Slice(n, LowerBound(n, low), UpperBound(n, high))
<1> DEFINE lo == LowerBound(n, low)
           U == UpperBound(n, high)
           f == [i \in 0 .. U |-> Slice(n, lo, i)]
           m == CHOOSE m : ScanLoop(n, low, high, m)
           S == {i \in 0 .. U : m[i] = Slice(n, lo, i)}
<1>1. /\ n \in Node /\ n.numKeys \in Nat /\ n.numKeys <= MAX_KEYS
      /\ lo \in 0 .. n.numKeys /\ U \in 0 .. n.numKeys
      /\ lo < n.numKeys => KeyAt(n, lo) >= low
      /\ \A j \in Entry : j < lo => KeyAt(n, j) < low
  BY LowerFound, UpperFound, Bound DEF LeafOK
<1> HIDE DEF lo, U
<1>2. \A j \in Entry : j < n.numKeys => (KeyAt(n, j) >= low <=> lo <= j)
  <2> SUFFICES ASSUME NEW j \in Entry, j < n.numKeys
               PROVE  KeyAt(n, j) >= low <=> lo <= j
    OBVIOUS
  <2>1. KeyAt(n, j) \in Int
    BY <1>1, EntryType
  <2>2. CASE j < lo
    <3>1. KeyAt(n, j) < low
      BY <1>1, <2>2
    <3> QED
      BY <1>1, <2>1, <2>2, <3>1 DEF Entry
  <2>3. CASE j = lo
    BY <1>1, <2>3 DEF Entry
  <2>4. CASE lo < j
    <3>1. lo \in Entry /\ lo < n.numKeys
      BY <1>1, <2>4, Bound DEF Entry
    <3>2. KeyAt(n, lo) < KeyAt(n, j) /\ KeyAt(n, lo) \in Int
      BY <1>1, <2>4, <3>1, EntryType DEF LeafOK
    <3>3. KeyAt(n, j) >= low
      BY <1>1, <2>1, <3>1, <3>2
    <3> QED
      BY <1>1, <2>4, <3>3 DEF Entry
  <2> QED
    BY <1>1, <2>2, <2>3, <2>4 DEF Entry
<1>3. ASSUME NEW g, NEW i \in 0 .. U, i # 0, g[i - 1] = Slice(n, lo, i - 1)
      PROVE  (IF KeyAt(n, i - 1) >= low THEN Append(g[i - 1], ValueAt(n, i - 1)) ELSE g[i - 1])
               = Slice(n, lo, i)
  <2> DEFINE j == i - 1
  <2>1. j \in Entry /\ j < n.numKeys /\ j \in Nat /\ i = j + 1 /\ lo \in Nat
    BY <1>1, <1>3, Bound DEF Entry
  <2> HIDE DEF j
  <2>2. CASE lo <= j
    BY <1>2, <1>3, <2>1, <2>2, SliceGrows DEF j
  <2>3. CASE ~(lo <= j)
    <3>1. ~(j > lo) /\ ~(j + 1 > lo)
      BY <2>1, <2>3
    <3>2. Slice(n, lo, j) = Slice(n, lo, j + 1)
      BY <3>1 DEF Slice
    <3> QED
      BY <1>2, <1>3, <2>1, <2>3, <3>2 DEF j
  <2> QED
    BY <2>2, <2>3
<1>4. Slice(n, lo, 0) = <<>>
  <2>1. ~(0 > lo)
    BY <1>1
  <2> QED
    BY <2>1 DEF Slice
<1>5. ScanLoop(n, low, high, f)
  <2>1. ASSUME NEW i \in 0 .. U
        PROVE  f[i] = IF i = 0 THEN <<>>
                      ELSE IF KeyAt(n, i - 1) >= low
                           THEN Append(f[i - 1], ValueAt(n, i - 1)) ELSE f[i - 1]
    <3>1. CASE i = 0
      BY <1>4, <3>1
    <3>2. CASE i # 0
      <4>1. i - 1 \in 0 .. U
        BY <1>1, <3>2
      <4>2. f[i - 1] = Slice(n, lo, i - 1) /\ f[i] = Slice(n, lo, i)
        BY <4>1
      <4> HIDE DEF f
      <4> QED
        BY <1>3, <3>2, <4>2
    <3> QED
      BY <3>1, <3>2
  <2>2. f = [i \in 0 .. U |-> f[i]]
    OBVIOUS
  <2> HIDE DEF f
  <2>3. f = [i \in 0 .. U |-> IF i = 0 THEN <<>>
                      ELSE IF KeyAt(n, i - 1) >= low
                           THEN Append(f[i - 1], ValueAt(n, i - 1)) ELSE f[i - 1]]
    BY <2>1, <2>2
  <2> QED
    BY <2>3 DEF ScanLoop, U
<1>6. ScanLoop(n, low, high, m)
  BY <1>5
<1>7. ScanLeaf(n, low, high) = m[U]
  BY DEF ScanLeaf, ScanLoop, U
<1> HIDE DEF m, f
<1>8. \A i \in 0 .. U : m[i] = IF i = 0 THEN <<>>
                      ELSE IF KeyAt(n, i - 1) >= low
                           THEN Append(m[i - 1], ValueAt(n, i - 1)) ELSE m[i - 1]
  BY <1>6 DEF ScanLoop, U
<1>9. 0 \in S
  <2>1. 0 \in 0 .. U
    BY <1>1
  <2> QED
    BY <1>4, <1>8, <2>1
<1>10. ASSUME NEW i \in 0 + 1 .. U, i - 1 \in S
       PROVE  i \in S
  <2>1. i \in 0 .. U /\ i # 0 /\ m[i - 1] = Slice(n, lo, i - 1)
    BY <1>1, <1>10
  <2> QED
    BY <1>3, <1>8, <2>1
<1>11. U \in S
  <2> HIDE DEF S
  <2>1. U \in Nat /\ 0 <= U
    BY <1>1
  <2> QED
    BY <1>9, <1>10, <2>1, Climb
<1> QED
  BY <1>7, <1>11 DEF lo, U

Walk(low, high, m) ==
  m = [i \in 0 .. nodeCount |->
         IF i = 0 THEN [out |-> <<>>, leaf |-> FindLeafPage(low)]
         ELSE LET s == m[i - 1]
                  n == node[s.leaf]
              IN  IF s.leaf < 0 THEN s
                  ELSE [out  |-> s.out \o ScanLeaf(n, low, high),
                        leaf |-> IF UpperBound(n, high) < n.numKeys THEN -1 ELSE NextOf(n)]]

LEMMA ScanOfLeaf ==
  ASSUME Unsplit, NEW low \in Int, NEW high \in Int
  PROVE  RangeScan(low, high) =
           Slice(node[1], LowerBound(node[1], low), UpperBound(node[1], high))
<1> DEFINE n == node[1]
           first == [out |-> <<>>, leaf |-> 1]
           then == [out  |-> <<>> \o ScanLeaf(n, low, high),
                    leaf |-> IF UpperBound(n, high) < n.numKeys THEN -1 ELSE NextOf(n)]
           f == [i \in 0 .. 1 |-> IF i = 0 THEN first ELSE then]
           m == CHOOSE m : Walk(low, high, m)
<1>1. nodeCount = 1 /\ FindLeafPage(low) = 1 /\ LeafOK(n)
  BY RootPath DEF Unsplit
<1>2. ASSUME NEW g, g[0] = first
      PROVE  then = LET s == g[0]
                        x == node[s.leaf]
                    IN  IF s.leaf < 0 THEN s
                        ELSE [out  |-> s.out \o ScanLeaf(x, low, high),
                              leaf |-> IF UpperBound(x, high) < x.numKeys THEN -1 ELSE NextOf(x)]
  <2>1. first.leaf = 1 /\ first.out = <<>> /\ ~(first.leaf < 0)
    OBVIOUS
  <2> HIDE DEF first
  <2> QED
    BY <1>2, <2>1
<1> HIDE DEF first, then
<1>3. Walk(low, high, f)
  <2>1. ASSUME NEW i \in 0 .. 1
        PROVE  f[i] = IF i = 0 THEN first
                      ELSE LET s == f[i - 1]
                               x == node[s.leaf]
                           IN  IF s.leaf < 0 THEN s
                               ELSE [out  |-> s.out \o ScanLeaf(x, low, high),
                                     leaf |-> IF UpperBound(x, high) < x.numKeys THEN -1
                                              ELSE NextOf(x)]
    <3>1. f[0] = first /\ f[1] = then
      OBVIOUS
    <3> HIDE DEF f
    <3>2. CASE i = 0
      BY <3>1, <3>2
    <3>3. CASE i = 1
      <4>1. i # 0 /\ i - 1 = 0
        BY <3>3
      <4> QED
        BY <1>2, <3>1, <3>3, <4>1
    <3> QED
      BY <3>2, <3>3
  <2>2. f = [i \in 0 .. 1 |-> f[i]]
    OBVIOUS
  <2> HIDE DEF f
  <2>3. f = [i \in 0 .. 1 |->
                 IF i = 0 THEN first
                 ELSE LET s == f[i - 1]
                          x == node[s.leaf]
                      IN  IF s.leaf < 0 THEN s
                          ELSE [out  |-> s.out \o ScanLeaf(x, low, high),
                                leaf |-> IF UpperBound(x, high) < x.numKeys THEN -1 ELSE NextOf(x)]]
    BY <2>1, <2>2
  <2> QED
    BY <1>1, <2>3 DEF Walk, first
<1>4. Walk(low, high, m)
  BY <1>3
<1>5. RangeScan(low, high) = m[1].out
  BY <1>1 DEF RangeScan, Walk
<1> HIDE DEF m, f
<1>6. m[0] = first
  BY <1>1, <1>4 DEF Walk, first
<1>7. m[1] = LET s == m[0]
                 x == node[s.leaf]
             IN  IF s.leaf < 0 THEN s
                 ELSE [out  |-> s.out \o ScanLeaf(x, low, high),
                       leaf |-> IF UpperBound(x, high) < x.numKeys THEN -1 ELSE NextOf(x)]
  <2>1. 1 \in 0 .. nodeCount /\ 1 # 0 /\ 1 - 1 = 0
    BY <1>1
  <2> QED
    BY <1>4, <2>1 DEF Walk
<1>8. m[1] = then
  BY <1>2, <1>6, <1>7
<1>9. m[1].out = <<>> \o ScanLeaf(n, low, high)
  BY <1>8 DEF then
<1> DEFINE sl == Slice(n, LowerBound(n, low), UpperBound(n, high))
<1>10. ScanLeaf(n, low, high) = sl
  BY <1>1, ScanIsSlice
<1>11. <<>> \o sl = sl
  <2>1. /\ LowerBound(n, low) \in 0 .. n.numKeys /\ UpperBound(n, high) \in 0 .. n.numKeys
        /\ n.numKeys \in Nat
    BY <1>1, LowerFound, UpperFound, Bound DEF LeafOK
  <2> DEFINE a == LowerBound(n, low)
             b == UpperBound(n, high)
             g == IF b > a THEN b - a ELSE 0
  <2>2. g \in Nat
    BY <2>1
  <2>3. sl = [j \in 1 .. g |-> ValueAt(n, a + j - 1)]
    BY DEF Slice
  <2> DEFINE T == {ValueAt(n, a + j - 1) : j \in 1 .. g}
  <2>4. sl \in [1 .. g -> T]
    BY <2>3
  <2> HIDE DEF sl, g, T
  <2>5. sl \in Seq(T)
    BY <2>2, <2>4
  <2> QED
    BY <2>5
<1> QED
  BY <1>5, <1>9, <1>10, <1>11

LEMMA ScanAgrees == IInv => ScanAgreesWithFind
<1> SUFFICES ASSUME IInv, NEW low \in Key, NEW high \in Key
             PROVE  \E keys \in [DOMAIN RangeScan(low, high) -> Key] :
                      /\ \A i, j \in DOMAIN keys : i < j => keys[i] < keys[j]
                      /\ {keys[i] : i \in DOMAIN keys} = {k \in Key : low <= k /\ k <= high /\ Found(k)}
                      /\ RangeScan(low, high) = [i \in DOMAIN keys |-> Find(keys[i])]
  BY DEF ScanAgreesWithFind
<1> DEFINE n == node[1]
           lo == LowerBound(n, low)
           hi == UpperBound(n, high)
           g == IF hi > lo THEN hi - lo ELSE 0
           ks == [j \in 1 .. g |-> KeyAt(n, lo + j - 1)]
<1>1. low \in Int /\ high \in Int /\ LeafOK(n) /\ Key \subseteq Int
  BY TreeAssumption DEF IInv, Unsplit
<1>2. RangeScan(low, high) = [j \in 1 .. g |-> ValueAt(n, lo + j - 1)]
  BY <1>1, ScanOfLeaf DEF IInv, Slice
<1>3. /\ n \in Node /\ n.numKeys \in Nat /\ n.numKeys <= MAX_KEYS
      /\ lo \in 0 .. n.numKeys /\ (lo < n.numKeys => KeyAt(n, lo) >= low)
      /\ \A j \in Entry : j < lo => KeyAt(n, j) < low
      /\ hi \in 0 .. n.numKeys /\ (hi < n.numKeys => KeyAt(n, hi) > high)
      /\ \A j \in Entry : j < hi => KeyAt(n, j) <= high
  BY <1>1, LowerFound, UpperFound, Bound DEF LeafOK
<1>4. \A i, j \in Entry : i < j /\ j < n.numKeys => KeyAt(n, i) < KeyAt(n, j)
  BY <1>1 DEF LeafOK
<1>5. \A i \in Entry : KeyAt(n, i) \in Int
  BY <1>3, EntryType
<1>6. \A i \in Entry : i < n.numKeys =>
        /\ KeyAt(n, i) \in Key /\ Found(KeyAt(n, i)) /\ Find(KeyAt(n, i)) = ValueAt(n, i)
  <2> SUFFICES ASSUME NEW i \in Entry, i < n.numKeys
               PROVE  /\ KeyAt(n, i) \in Key /\ Found(KeyAt(n, i))
                      /\ Find(KeyAt(n, i)) = ValueAt(n, i)
    OBVIOUS
  <2>1. Binds(node[1], KeyAt(n, i), ValueAt(n, i))
    BY DEF Binds
  <2> QED
    BY <2>1, ReadsBound DEF Reads, IInv, Home
<1> HIDE DEF n, lo, hi
<1>7. g \in Nat /\ \A j \in 1 .. g : /\ lo + j - 1 \in Entry /\ lo + j - 1 < n.numKeys
                                     /\ lo + j - 1 < hi /\ lo <= lo + j - 1
  BY <1>3, Bound DEF Entry
<1>8. \A i \in Entry : lo <= i /\ i < hi => i - lo + 1 \in 1 .. g /\ lo + (i - lo + 1) - 1 = i
  BY <1>3, Bound DEF Entry
<1> HIDE DEF g
<1>9. DOMAIN ks = 1 .. g /\ \A j \in 1 .. g : ks[j] = KeyAt(n, lo + j - 1)
  OBVIOUS
<1>10. ks \in [DOMAIN RangeScan(low, high) -> Key]
  BY <1>2, <1>6, <1>7
<1> HIDE DEF ks
<1>11. ASSUME NEW i \in DOMAIN ks, NEW j \in DOMAIN ks, i < j
       PROVE  ks[i] < ks[j]
  <2> DEFINE a == lo + i - 1
             b == lo + j - 1
  <2>1. /\ a \in Entry /\ b \in Entry /\ b < n.numKeys
        /\ ks[i] = KeyAt(n, a) /\ ks[j] = KeyAt(n, b)
    BY <1>7, <1>9
  <2>2. a < b
    BY <1>3, <1>7, <1>9, <1>11
  <2> HIDE DEF a, b
  <2> QED
    BY <1>4, <2>1, <2>2
<1>12. ASSUME NEW j \in DOMAIN ks
       PROVE  ks[j] \in Key /\ low <= ks[j] /\ ks[j] <= high /\ Found(ks[j])
  <2> DEFINE a == lo + j - 1
  <2>1. a \in Entry /\ a < n.numKeys /\ a < hi /\ lo <= a /\ ks[j] = KeyAt(n, a)
    BY <1>7, <1>9
  <2> HIDE DEF a
  <2>2. KeyAt(n, a) >= low
    <3>1. CASE a = lo
      BY <1>3, <2>1, <3>1
    <3>2. CASE a # lo
      <4>1. lo \in Entry /\ lo < a /\ lo < n.numKeys
        BY <1>3, <2>1, <3>2, Bound DEF Entry
      <4>2. KeyAt(n, lo) < KeyAt(n, a) /\ KeyAt(n, lo) >= low
        BY <1>3, <1>4, <2>1, <4>1
      <4> QED
        BY <1>1, <1>5, <2>1, <4>1, <4>2
    <3> QED
      BY <3>1, <3>2
  <2>3. KeyAt(n, a) <= high
    BY <1>3, <2>1
  <2> QED
    BY <1>1, <1>5, <1>6, <2>1, <2>2, <2>3
<1>13. ASSUME NEW k \in Key, low <= k, k <= high, Found(k)
       PROVE  \E j \in DOMAIN ks : ks[j] = k
  <2>1. PICK i \in Entry : i < n.numKeys /\ KeyAt(n, i) = k
    BY <1>13, ReadsBound DEF Reads, Binds, n
  <2>2. lo <= i
    <3>1. ~(i < lo)
      BY <1>1, <1>3, <1>13, <2>1
    <3> QED
      BY <1>3, <3>1 DEF Entry
  <2>3. i < hi
    <3> SUFFICES ASSUME ~(i < hi) PROVE FALSE
      OBVIOUS
    <3>1. hi \in Entry /\ hi < n.numKeys /\ hi <= i
      BY <1>3, <2>1, Bound DEF Entry
    <3>2. KeyAt(n, hi) > high /\ KeyAt(n, hi) \in Int
      BY <1>3, <1>5, <3>1
    <3>3. CASE hi = i
      BY <1>1, <1>13, <2>1, <3>2, <3>3
    <3>4. CASE hi < i
      <4>1. KeyAt(n, hi) < k
        BY <1>4, <2>1, <3>1, <3>4
      <4> QED
        BY <1>1, <1>13, <3>2, <4>1
    <3> QED
      BY <1>3, <3>1, <3>3, <3>4 DEF Entry
  <2> DEFINE j == i - lo + 1
  <2>4. j \in DOMAIN ks /\ ks[j] = KeyAt(n, lo + j - 1) /\ lo + j - 1 = i
    BY <1>8, <1>9, <2>2, <2>3
  <2> HIDE DEF j
  <2> QED
    BY <2>1, <2>4
<1>14. {ks[i] : i \in DOMAIN ks} = {k \in Key : low <= k /\ k <= high /\ Found(k)}
  BY <1>12, <1>13
<1>15. RangeScan(low, high) = [i \in DOMAIN ks |-> Find(ks[i])]
  <2>1. \A j \in 1 .. g : Find(ks[j]) = ValueAt(n, lo + j - 1)
    BY <1>6, <1>7, <1>9
  <2> QED
    BY <1>2, <1>9, <2>1
<1> QED
  BY <1>10, <1>11, <1>14, <1>15

\* ScanAgreesWithFind: BPlusTree::rangeScan over one leaf returns, in key order, what
\* find returns for every key in the range that is in the leaf, and nothing else.
THEOREM ScansAgree == Spec /\ []OneLeaf => []ScanAgreesWithFind
  BY Invariance, ScanAgrees, PTL

-----------------------------------------------------------------------------
(* When the root is never split.                                            *)

\* With no more keys than a leaf takes, BPlusTree::insert never splits the root: were a
\* full leaf to take another key, it would hold more keys than there are.
THEOREM NeverSplit ==
  ASSUME IsFiniteSet(Key), Cardinality(Key) <= MAX_KEYS
  PROVE  Spec => []OneLeaf
<1>1. ASSUME IInv, NEW k \in Key, NEW v \in Value, InsertRecord(k, v)
      PROVE  nodeCount' = 1
  <2> SUFFICES ASSUME nodeCount' # 1 PROVE FALSE
    OBVIOUS
  <2> DEFINE n == node[1]
             f == [i \in 0 .. MAX_KEYS |-> IF i = MAX_KEYS THEN k ELSE KeyAt(n, i)]
  <2>1. PICK r \in Rid : TreeInsert(k, r)
    BY <1>1 DEF InsertRecord
  <2>2. n.numKeys = MAX_KEYS /\ \A w : ~Binds(n, k, w)
    BY <1>1, <2>1, InsertFits, TreeAssumption DEF IInv
  <2>3. LeafOK(n) /\ \A x, w : Binds(n, x, w) => x \in Key
    BY <1>1 DEF IInv, Unsplit, Home
  <2> HIDE DEF n
  <2>4. \A i \in Entry : i < MAX_KEYS /\ Binds(n, KeyAt(n, i), ValueAt(n, i))
    <3>1. \A i \in Entry : i < MAX_KEYS
      BY Bound DEF Entry
    <3> QED
      BY <2>2, <3>1 DEF Binds
  <2>5. \A i \in Entry : KeyAt(n, i) \in Key /\ KeyAt(n, i) # k
    BY <2>2, <2>3, <2>4
  <2>6. \A i \in 0 .. MAX_KEYS : i # MAX_KEYS => i \in Entry
    BY Bound DEF Entry
  <2>7. f \in [0 .. MAX_KEYS -> Key]
    BY <2>5, <2>6
  <2>8. ASSUME NEW a \in 0 .. MAX_KEYS, NEW b \in 0 .. MAX_KEYS, f[a] = f[b]
        PROVE  a = b
    <3>1. CASE a = MAX_KEYS \/ b = MAX_KEYS
      BY <2>5, <2>6, <2>8, <3>1
    <3>2. CASE a # MAX_KEYS /\ b # MAX_KEYS
      <4>1. a \in Entry /\ b \in Entry /\ KeyAt(n, a) = KeyAt(n, b)
        BY <2>6, <2>8, <3>2
      <4> QED
        BY <2>2, <2>3, <2>4, <4>1, OneEntry
    <3> QED
      BY <3>1, <3>2
  <2>9. f \in Injection(0 .. MAX_KEYS, Key)
    <3>1. IsInjective(f)
      BY <2>7, <2>8 DEF IsInjective
    <3> QED
      BY <2>7, <3>1 DEF Injection
  <2>10. Cardinality(0 .. MAX_KEYS) <= Cardinality(Key)
    BY <2>9, FS_Injection
  <2>11. Cardinality(0 .. MAX_KEYS) = MAX_KEYS + 1
    <3>1. 0 \in Int /\ MAX_KEYS \in Int /\ ~(0 > MAX_KEYS)
      BY Bound
    <3> QED
      BY <3>1, FS_Interval
  <2>12. Cardinality(Key) \in Nat
    BY FS_CardinalityType
  <2> QED
    BY <2>10, <2>11, <2>12, Bound
<1>2. IInv /\ [Next]_vars => OneLeaf'
  <2> SUFFICES ASSUME IInv, [Next]_vars PROVE nodeCount' = 1
    BY DEF OneLeaf
  <2>1. nodeCount = 1
    BY DEF IInv, Unsplit
  <2>2. CASE \E k \in Key, v \in Value : InsertRecord(k, v)
    BY <1>1, <2>2
  <2>3. CASE ~(\E k \in Key, v \in Value : InsertRecord(k, v))
    BY <2>1, <2>3 DEF Next, DeleteByKey, TreeRemove, UpdateByKey, Reopen, LoadHeader, vars, treeVars
  <2> QED
    BY <2>2, <2>3
<1>3. IInv => OneLeaf
  BY DEF IInv, Unsplit, OneLeaf
<1> QED
  BY <1>2, <1>3, InitInv, StepInv, PTL DEF Spec

\* All of it for a table with no more keys than a leaf takes, whatever the statements.
THEOREM SmallTable ==
  ASSUME IsFiniteSet(Key), Cardinality(Key) <= MAX_KEYS
  PROVE  /\ Spec => [](TypeOK /\ IndexPointsHome /\ ScanAgreesWithFind)
         /\ Spec => RowsStayReachable
         /\ Spec => ImplementsKeyIndex
<1>1. Spec => []OneLeaf
  BY NeverSplit
<1> QED
  BY <1>1, TypeCorrect, IndexIsSound, ScansAgree, RowsAreKept, ImplementsIndex, PTL
=============================================================================
