----------------------------- MODULE BPlusTree -----------------------------
(***************************************************************************)
(* src/bPlusTree/BPlusTree.h: the primary-key index, a B+ tree in the      *)
(* pages of one file.  Page 0 is the header with the number of the root    *)
(* page; every other page is a node.                                       *)
(*                                                                         *)
(* A Node is modelled as the memory it occupies, because one array of it   *)
(* is written past its end: insertRecursive shifts the entries of a full   *)
(* leaf one place up before it splits it, and keys[MAX_KEYS] is the memory *)
(* of values[0], values[MAX_KEYS] that of next and of what lies behind the *)
(* node.  C++ leaves the effect of that open; modelled is what plain       *)
(* address arithmetic makes of it.  (The header uses MAX_KEYS before its   *)
(* declaration; the model reads it as declared first.)                     *)
(*                                                                         *)
(* Pages are read and written through the buffer pool, whole and one at a  *)
(* time, so they are the page store of module PageStore, here without      *)
(* crashes: `node` and `header` are what fetchPage returns.                *)
(***************************************************************************)
EXTENDS Integers, Sequences, SequencesExt

CONSTANTS MAX_KEYS,
          Key,       \* int32_t keys
          MaxNodes   \* bound: node pages are 1 .. MaxNodes

ASSUME TreeAssumption ==
  MAX_KEYS \in Nat \ {0, 1} /\ Key \subseteq Int /\ MaxNodes \in Nat \ {0}

VARIABLES header,     \* the root number in page 0
          node,       \* node[p]: page p
          nodeCount,  \* pages of the file behind the header
          rootPage_   \* the member variable

treeVars == <<header, node, nodeCount, rootPage_>>

NodePage == 1 .. MaxNodes

-----------------------------------------------------------------------------
(* A node: MAX_KEYS keys, then a union of MAX_KEYS values of two integers   *)
(* and `next`, or of MAX_KEYS+1 children.  The last cell is outside: it is  *)
(* there while a function works on its copy of the node.                    *)

KeysAt == 0
UnionAt == MAX_KEYS
NextAt == 3 * MAX_KEYS
Cell == 0 .. NextAt + 1

Node == [isLeaf : BOOLEAN, numKeys : Nat, mem : [Cell -> Int]]

ZeroNode == [isLeaf |-> FALSE, numKeys |-> 0, mem |-> [c \in Cell |-> 0]]

KeyAt(n, i)   == n.mem[KeysAt + i]
ValueAt(n, i) == [pageId |-> n.mem[UnionAt + 2*i], slotNum |-> n.mem[UnionAt + 2*i + 1]]
ChildAt(n, i) == n.mem[UnionAt + i]
NextOf(n)     == n.mem[NextAt]

SetKey(n, i, k)   == [n EXCEPT !.mem[KeysAt + i] = k]
SetValue(n, i, v) == [n EXCEPT !.mem[UnionAt + 2*i] = v.pageId, !.mem[UnionAt + 2*i + 1] = v.slotNum]
SetChild(n, i, p) == [n EXCEPT !.mem[UnionAt + i] = p]
SetNext(n, p)     == [n EXCEPT !.mem[NextAt] = p]

\* keys[i] = keys[j], then values[i] = values[j].
MoveEntry(n, i, j) ==
  LET keyed == SetKey(n, i, KeyAt(n, j)) IN SetValue(keyed, i, ValueAt(keyed, j))

\* writeNode: what lies behind the node stays behind.
Written(n) == [n EXCEPT !.mem[NextAt + 1] = 0]

Up(a, b)   == [i \in 1 .. b - a + 1 |-> a + i - 1]
Down(a, b) == Reverse(Up(b, a))

\* std::lower_bound and std::upper_bound over the keys of a node.
FirstOf(n, P(_)) ==
  CHOOSE i \in 0 .. n.numKeys :
    /\ i < n.numKeys => P(KeyAt(n, i))
    /\ \A j \in 0 .. i - 1 : ~P(KeyAt(n, j))

LowerBound(n, k) == FirstOf(n, LAMBDA x : x >= k)
UpperBound(n, k) == FirstOf(n, LAMBDA x : x > k)

-----------------------------------------------------------------------------
(* Reading.                                                                 *)

\* The pages from the root to the leaf for k.
PathTo(k) ==
  LET path[i \in 0 .. nodeCount] ==
        IF i = 0 THEN <<rootPage_>>
        ELSE LET n == node[Last(path[i - 1])] IN
             IF n.isLeaf THEN path[i - 1]
                         ELSE Append(path[i - 1], ChildAt(n, UpperBound(n, k)))
  IN  path[nodeCount]

FindLeafPage(k) == Last(PathTo(k))

FoundAt(k) ==
  LET n == node[FindLeafPage(k)] IN {i \in 0 .. n.numKeys - 1 : KeyAt(n, i) = k}

Found(k) == FoundAt(k) # {}

\* The value find returns for a key it finds.
Find(k) ==
  LET i == CHOOSE i \in FoundAt(k) : \A j \in FoundAt(k) : i <= j
  IN  ValueAt(node[FindLeafPage(k)], i)

\* Faulty: leaves out the upper bound.
ScanLeafBelow(n, low, high) ==
  LET out[i \in 0 .. LowerBound(n, high)] ==
        IF i = 0 THEN <<>>
        ELSE IF KeyAt(n, i - 1) >= low THEN Append(out[i - 1], ValueAt(n, i - 1)) ELSE out[i - 1]
  IN  out[LowerBound(n, high)]

\* The values of the entries from low to high.
ScanLeaf(n, low, high) ==
  LET out[i \in 0 .. UpperBound(n, high)] ==
        IF i = 0 THEN <<>>
        ELSE IF KeyAt(n, i - 1) >= low THEN Append(out[i - 1], ValueAt(n, i - 1)) ELSE out[i - 1]
  IN  out[UpperBound(n, high)]

\* rangeScan: the leaves from the one for low, along next, up to a key above high.
RangeScan(low, high) ==
  LET scan[i \in 0 .. nodeCount] ==
        IF i = 0 THEN [out |-> <<>>, leaf |-> FindLeafPage(low)]
        ELSE LET s == scan[i - 1]
                 n == node[s.leaf]
             IN  IF s.leaf < 0 THEN s
                 ELSE [out  |-> s.out \o ScanLeaf(n, low, high),
                       leaf |-> IF UpperBound(n, high) < n.numKeys THEN -1 ELSE NextOf(n)]
  IN  scan[nodeCount].out

-----------------------------------------------------------------------------
(* insertRecursive.  A result has the pages as written so far and, when the *)
(* node was split, the key and the page to enter into the parent.           *)

NoSplit(pages, count) ==
  [pages |-> pages, count |-> count, split |-> FALSE, key |-> 0, pageId |-> -1]

\* The entries from pos on move up by one, the last of them first.
Shifted(n, pos) ==
  LET m[i \in pos .. n.numKeys] == IF i = n.numKeys THEN n ELSE MoveEntry(m[i + 1], i + 1, i)
  IN  m[pos]

WithEntry(n, pos, k, v) ==
  [SetValue(SetKey(Shifted(n, pos), pos, k), pos, v) EXCEPT !.numKeys = @ + 1]

SplitLeaf(pages, count, p, n) ==
  LET half == n.numKeys \div 2
      rest == n.numKeys - half
      new  == count + 1
      moved == FoldLeft(LAMBDA m, i :
                          SetValue(SetKey(m, i, KeyAt(n, half + i)), i, ValueAt(n, half + i)),
                        [ZeroNode EXCEPT !.isLeaf = TRUE, !.numKeys = rest], Up(0, rest - 1))
      newLeaf == SetNext(moved, NextOf(n))
      left == SetNext([n EXCEPT !.numKeys = half], new)
  IN  [pages |-> [pages EXCEPT ![p] = Written(left), ![new] = Written(newLeaf)],
       count |-> new, split |-> TRUE, key |-> KeyAt(newLeaf, 0), pageId |-> new]

InsertIntoLeaf(p, k, v) ==
  LET n == node[p]
      pos == LowerBound(n, k)
      inserted == WithEntry(n, pos, k, v)
  IN  IF pos < n.numKeys /\ KeyAt(n, pos) = k
      THEN NoSplit([node EXCEPT ![p] = SetValue(n, pos, v)], nodeCount)
      ELSE IF inserted.numKeys <= MAX_KEYS
           THEN NoSplit([node EXCEPT ![p] = Written(inserted)], nodeCount)
           ELSE SplitLeaf(node, nodeCount, p, inserted)

\* The children move one place further than their keys.
WithChild(n, pos, k, child) ==
  LET shifted == FoldLeft(LAMBDA m, i :
                            LET keyed == SetKey(m, i, KeyAt(m, i - 1))
                            IN  SetChild(keyed, i + 1, ChildAt(keyed, i)),
                          n, Down(n.numKeys, pos + 1))
  IN  [SetChild(SetKey(shifted, pos, k), pos + 1, child) EXCEPT !.numKeys = @ + 1]

\* The last child is taken from one place too far up.
SplitInternal(pages, count, p, n) ==
  LET half == n.numKeys \div 2
      rest == n.numKeys - half - 1
      new  == count + 1
      moved == FoldLeft(LAMBDA m, i :
                          SetChild(SetKey(m, i, KeyAt(n, half + 1 + i)), i, ChildAt(n, half + 1 + i)),
                        [ZeroNode EXCEPT !.numKeys = rest], Up(0, rest - 1))
      newInt == SetChild(moved, rest, ChildAt(n, n.numKeys + 1))
  IN  [pages |-> [pages EXCEPT ![p] = Written([n EXCEPT !.numKeys = half]),
                               ![new] = Written(newInt)],
       count |-> new, split |-> TRUE, key |-> KeyAt(n, half), pageId |-> new]

\* On the way back from a child: its new sibling is entered into page p.
Promote(res, p) ==
  LET n == res.pages[p]
      entered == WithChild(n, LowerBound(n, res.key), res.key, res.pageId)
  IN  IF ~res.split THEN res
      ELSE IF entered.numKeys <= MAX_KEYS
           THEN NoSplit([res.pages EXCEPT ![p] = Written(entered)], res.count)
           ELSE SplitInternal(res.pages, res.count, p, entered)

InsertRecursive(k, v) ==
  LET path == PathTo(k)
      res[d \in 1 .. Len(path)] ==
        IF d = Len(path) THEN InsertIntoLeaf(path[d], k, v) ELSE Promote(res[d + 1], path[d])
  IN  res[1]

-----------------------------------------------------------------------------
(* The operations.                                                          *)

NewRoot(res) ==
  SetChild(SetChild(SetKey([ZeroNode EXCEPT !.numKeys = 1], 0, res.key), 0, rootPage_),
           1, res.pageId)

\* Faulty: the root number never reaches the header page.
TreeInitNoHeader ==
  /\ rootPage_ = 1
  /\ header = 0
  /\ nodeCount = 1
  /\ node = [p \in NodePage |->
               IF p = 1 THEN SetNext([ZeroNode EXCEPT !.isLeaf = TRUE], -1) ELSE ZeroNode]

\* The constructor on an empty file: the header and an empty leaf for the root.
TreeInit ==
  /\ rootPage_ = 1
  /\ header = 1
  /\ nodeCount = 1
  /\ node = [p \in NodePage |->
               IF p = 1 THEN SetNext([ZeroNode EXCEPT !.isLeaf = TRUE], -1) ELSE ZeroNode]

TreeInsert(k, v) ==
  LET res == InsertRecursive(k, v)
      new == res.count + 1
  IN  IF res.split
      THEN /\ new <= MaxNodes
           /\ node' = [res.pages EXCEPT ![new] = NewRoot(res)]
           /\ nodeCount' = new
           /\ rootPage_' = new
           /\ header' = new
      ELSE /\ res.count <= MaxNodes
           /\ node' = res.pages
           /\ nodeCount' = res.count
           /\ UNCHANGED <<rootPage_, header>>

\* The entries behind pos move down by one.
ShiftedDown(n, pos) ==
  LET m[i \in pos .. n.numKeys - 1] == IF i = pos THEN n ELSE MoveEntry(m[i - 1], i - 1, i)
  IN  m[n.numKeys - 1]

\* Faulty: removes the entry behind the key's.
TreeRemoveNext(k) ==
  LET p == FindLeafPage(k)
      n == node[p]
      pos == UpperBound(n, k)
  IN  /\ node' = IF pos < n.numKeys
                 THEN [node EXCEPT ![p] = [ShiftedDown(n, pos) EXCEPT !.numKeys = @ - 1]]
                 ELSE node
      /\ UNCHANGED <<header, nodeCount, rootPage_>>

\* remove: from the leaf only, however few keys are left in it.
TreeRemove(k) ==
  LET p == FindLeafPage(k)
      n == node[p]
      pos == LowerBound(n, k)
  IN  /\ node' = IF pos < n.numKeys /\ KeyAt(n, pos) = k
                 THEN [node EXCEPT ![p] = [ShiftedDown(n, pos) EXCEPT !.numKeys = @ - 1]]
                 ELSE node
      /\ UNCHANGED <<header, nodeCount, rootPage_>>

\* The constructor on a file that has pages.
LoadHeader ==
  /\ rootPage_' = header
  /\ UNCHANGED <<header, node, nodeCount>>

-----------------------------------------------------------------------------
TreeTypeOK ==
  /\ rootPage_ \in NodePage /\ header \in NodePage
  /\ nodeCount \in NodePage
  /\ node \in [NodePage -> Node]

\* What the tree holds, as a map.
TreeMap == [k \in {x \in Key : Found(x)} |-> Find(k)]

\* In every range the scan returns, in key order, what find returns for the
\* keys in it.
ScanAgreesWithFind ==
  \A low, high \in Key :
    \E keys \in [DOMAIN RangeScan(low, high) -> Key] :
      /\ \A i, j \in DOMAIN keys : i < j => keys[i] < keys[j]
      /\ {keys[i] : i \in DOMAIN keys} = {k \in Key : low <= k /\ k <= high /\ Found(k)}
      /\ RangeScan(low, high) = [i \in DOMAIN keys |-> Find(keys[i])]
=============================================================================
