----------------------------- MODULE BTreeIndex -----------------------------
(***************************************************************************)
(* BTreeIndex of index.rs, and JsonIndex, a B-tree behind a lock of its    *)
(* own.  Nodes come from a fixed pool and are never given back; delete is  *)
(* UnsupportedOperation.  A node is [leaf, keys, kids]; nodes are numbers, *)
(* and the free list is a sequence of them.  split_child copies keys       *)
(* half + 1 .. 2 * half of the full child: with the even BTREE_ORDER of    *)
(* the code the last one is past the array, so the first split of a full   *)
(* node ends in a Fault.                                                   *)
(***************************************************************************)
EXTENDS IndexItems

CONSTANTS
    BTREE_ORDER,      \* 4 in the code: keys in a full node
    BtNodes           \* the pool sizes (max_nodes) to check

VARIABLES
    bt,         \* [root, nodes, free]
    btLock,     \* the B-tree's spin lock
    btOuter,    \* JsonIndex's lock: "free", "held", or "absent" for a plain B-tree
    btOut,      \* outcome of the last operation
    btAcked     \* how often each item was inserted with result Ok
btVars == <<bt, btLock, btOuter, btOut, btAcked>>

half == BTREE_ORDER \div 2
NoNode == 0
FreshNode == [leaf |-> TRUE, keys |-> << >>, kids |-> << >>]

BtInit ==
    /\ \E max \in BtNodes :
          bt = [root |-> NoNode, nodes |-> [n \in 1 .. max |-> FreshNode],
                free |-> [i \in 1 .. max |-> i]]
    /\ btLock = FALSE /\ btOut = Ok
    /\ btOuter \in {"absent", "free"}
    /\ btAcked = [x \in Items |-> 0]

\* find_key_position: the keys of a node that are before x.
KeyPosition(keys, x) ==
    LET before == {i \in 0 .. Len(keys) : \A j \in 1 .. i : Less(keys[j], x)}
    IN CHOOSE i \in before : \A j \in before : j <= i

\* Mutant: the key at pos is overwritten.
LeafReplace(keys, pos, x) == IF pos = Len(keys) THEN Append(keys, x) ELSE [keys EXCEPT ![pos + 1] = x]

\* insert_non_full on a leaf: the keys from pos on move up by one.
LeafInsert(keys, pos, x) == InsertAt(keys, pos + 1, x)
Full(node) == Len(node.keys) >= BTREE_ORDER

\* A tree with the outcome of the step that made it; the node allocate_node takes.
Done(t, out) == [t |-> t, out |-> out]
Taken(t) == Head(t.free)
AllocateNode(t, node) ==
    [t EXCEPT !.free = Tail(@), !.nodes[Taken(t)] = node]

\* split_child: child c, the idx-th of parent p, is full.
SplitChild(t, p, idx, c) ==
    LET child == t.nodes[c]
        new == Taken(t)
        right == [leaf |-> child.leaf,
                  keys |-> SubSeq(child.keys, half + 2, 2 * half + 1),
                  kids |-> IF child.leaf THEN << >>
                           ELSE SubSeq(child.kids, half + 2, 2 * half + 2)]
        left == [child EXCEPT !.keys = SubSeq(@, 1, half),
                              !.kids = IF child.leaf THEN @ ELSE SubSeq(@, 1, half + 1)]
        up == [t.nodes[p] EXCEPT !.keys = InsertAt(@, idx + 1, child.keys[half + 1]),
                                 !.kids = InsertAt(@, idx + 2, new)]
    IN IF t.free = << >> THEN Done(t, OutOfMemory)
       ELSE IF 2 * half >= BTREE_ORDER THEN Done(AllocateNode(t, FreshNode), Fault)
       ELSE Done([AllocateNode(t, right) EXCEPT !.nodes[c] = left, !.nodes[p] = up], Ok)

\* insert_non_full
RECURSIVE InsertNonFull(_, _, _)
InsertNonFull(t, n, x) ==
    LET node == t.nodes[n]
        pos == KeyPosition(node.keys, x)
    IN IF node.leaf
       THEN Done([t EXCEPT !.nodes[n].keys = LeafInsert(@, pos, x)], Ok)
       ELSE LET child == node.kids[pos + 1]
                split == SplitChild(t, n, pos, child)
                u == split.t
                go == IF Less(u.nodes[n].keys[pos + 1], x) THEN pos + 1 ELSE pos
            IN IF ~ Full(t.nodes[child]) THEN InsertNonFull(t, child, x)
               ELSE IF split.out # Ok THEN split
               ELSE InsertNonFull(u, u.nodes[n].kids[go + 1], x)

\* The body of insert once the item is built.  Results of split_child and
\* insert_non_full are dropped, so only a Fault or an allocation for the root
\* itself shows; those two leave with the lock held.
InsertItem(t, x) ==
    LET new == Taken(t)
        above == AllocateNode(t, [leaf |-> FALSE, keys |-> << >>, kids |-> <<t.root>>])
        split == SplitChild(above, new, 0, t.root)
        put == InsertNonFull(split.t, new, x)
        direct == InsertNonFull(t, t.root, x)
    IN IF t.root = NoNode
       THEN IF t.free = << >> THEN Done(t, OutOfMemory)
            ELSE Done([AllocateNode(t, [FreshNode EXCEPT !.keys = <<x>>])
                         EXCEPT !.root = new], Ok)
       ELSE IF Full(t.nodes[t.root])
       THEN IF t.free = << >> THEN Done(t, OutOfMemory)
            ELSE IF split.out = Fault THEN split
            ELSE IF put.out = Fault THEN put
            ELSE Done([put.t EXCEPT !.root = new], Ok)
       ELSE IF direct.out = Fault THEN direct ELSE Done(direct.t, Ok)

\* insert, of BTreeIndex or through JsonIndex.  An error of the inner insert
\* reaches JsonIndex, which unlocks; a Fault unwinds past its unlock.
BtInsert(k, r) ==
    LET x == Item(k, r)
        res == InsertItem(bt, x)
    IN /\ ~ btLock /\ btOuter # "held"
       /\ \/ /\ k.size > MaxKeySize
             /\ btOut' = Unsupported
             /\ UNCHANGED <<bt, btLock, btOuter, btAcked>>
          \/ /\ k.size <= MaxKeySize
             /\ bt' = res.t /\ btOut' = res.out
             /\ btLock' = (res.out # Ok)
             /\ btOuter' = IF res.out = Fault /\ btOuter = "free" THEN "held" ELSE btOuter
             /\ btAcked' = IF res.out = Ok THEN [btAcked EXCEPT ![x] = @ + 1] ELSE btAcked

\* delete
BtDelete ==
    /\ ~ btLock /\ btOuter # "held"
    /\ btOut' = Unsupported
    /\ UNCHANGED <<bt, btLock, btOuter, btAcked>>

CONSTANT BtMaxItems                   \* bound on the items of one behaviour
RECURSIVE SumOver(_, _)
SumOver(f, S) == IF S = {} THEN 0 ELSE LET x == CHOOSE y \in S : TRUE IN f[x] + SumOver(f, S \ {x})
BtNext ==
    \/ BtDelete
    \/ /\ SumOver(btAcked, Items) < BtMaxItems
       /\ \E k \in Keys, r \in Rids : BtInsert(k, r)
BtSpec == BtInit /\ [][BtNext]_btVars

-----------------------------------------------------------------------------
\* find: down from the root, to an item equal to the probe, record id included.
RECURSIVE FindFrom(_, _, _)
FindFrom(t, n, x) ==
    LET node == t.nodes[n]
        pos == KeyPosition(node.keys, x)
    IN IF n = NoNode THEN None
       ELSE IF pos < Len(node.keys) /\ Equal(node.keys[pos + 1], x) THEN node.keys[pos + 1].rid
       ELSE IF node.leaf THEN None
       ELSE FindFrom(t, node.kids[pos + 1], x)
BtFind(t, k) == IF t.root = NoNode THEN None ELSE FindFrom(t, t.root, Probe(k))

\* The path find_range and find_range_all stack up, root first.
RECURSIVE PathFrom(_, _, _)
PathFrom(t, n, x) ==
    LET node == t.nodes[n] IN
    IF node.leaf THEN <<n>>
    ELSE <<n>> \o PathFrom(t, node.kids[KeyPosition(node.keys, x) + 1], x)

\* The keys of a popped node: from the start key on, skipping those past the end.
InNode(keys, b, e) == SelectSeq(keys, LAMBDA x : ~ Less(x, b) /\ ~ Less(e, x))
\* After it, the left spine below its last child, each node up to the end key.
RECURSIVE SpineFrom(_, _, _)
SpineFrom(t, n, e) ==
    LET node == t.nodes[n]
        upto == {i \in 0 .. Len(node.keys) : \A j \in 1 .. i : ~ Less(e, node.keys[j])}
        cut == SubSeq(node.keys, 1, CHOOSE i \in upto : \A j \in upto : j <= i)
    IN cut \o IF node.leaf THEN << >> ELSE SpineFrom(t, node.kids[1], e)

\* find_range_all: the stacked nodes from the leaf up, cut at max_records.
RECURSIVE Popped(_, _, _, _)
Popped(t, path, b, e) ==
    IF path = << >> THEN << >>
    ELSE LET node == t.nodes[path[Len(path)]] IN
         InNode(node.keys, b, e)
           \o (IF node.leaf THEN << >> ELSE SpineFrom(t, node.kids[Len(node.keys) + 1], e))
           \o Popped(t, SubSeq(path, 1, Len(path) - 1), b, e)
BtRangeAll(t, b, e, max) ==
    LET hits == IF t.root = NoNode THEN << >>
                ELSE Popped(t, PathFrom(t, t.root, Probe(b)), Probe(b), Probe(e))
    IN [i \in 1 .. (IF Len(hits) < max THEN Len(hits) ELSE max) |-> hits[i].rid]
\* find_range: its first id.
BtRange(t, b, e) == LET ids == BtRangeAll(t, b, e, 1) IN IF ids = << >> THEN None ELSE ids[1]

\* The nodes below n and their items from left to right.
RECURSIVE Below(_, _)
Below(t, n) ==
    IF n = NoNode THEN << >>
    ELSE <<n>> \o FlattenSeq([i \in 1 .. Len(t.nodes[n].kids) |-> Below(t, t.nodes[n].kids[i])])
RECURSIVE InOrderItems(_, _)
InOrderItems(t, n) ==
    IF n = NoNode THEN << >>
    ELSE LET node == t.nodes[n] IN
         IF node.leaf THEN node.keys
         ELSE FlattenSeq([i \in 1 .. Len(node.keys) |->
                            InOrderItems(t, node.kids[i]) \o <<node.keys[i]>>])
              \o InOrderItems(t, node.kids[Len(node.keys) + 1])
Stored(t) == InOrderItems(t, t.root)
Times(s, x) == Cardinality({i \in 1 .. Len(s) : s[i] = x})
-----------------------------------------------------------------------------
\* The tree is ordered, no node is in it twice, and none is on the free list
\* too (index.rs allocate_node, split_child, insert).
BtWellFormed ==
    LET ns == Below(bt, bt.root) IN
    /\ InOrder(Stored(bt))
    /\ IsInjective(ns)
    /\ ToSet(ns) \cap ToSet(bt.free) = {}

\* Every item whose insert answered Ok is in the tree as often as it was
\* inserted, unless the pool has run out: insert drops the OutOfMemory of
\* split_child and insert_non_full and answers Ok (index.rs:2892-2897).
BtKeepsAcknowledged ==
    \/ bt.free = << >>
    \/ \A x \in Items : Times(Stored(bt), x) = btAcked[x]

\* Nothing is in the tree that was not inserted, pool exhausted or not.
BtNoPhantoms == \A x \in Items : Times(Stored(bt), x) <= btAcked[x]

\* find compares the record id as well: it finds exactly the keys stored for
\* record 0 (index.rs:2916-2942).
BtFindExact ==
    \A k \in Keys :
        BtFind(bt, k) = IF Times(Stored(bt), Probe(k)) > 0 THEN 0 ELSE None

\* While the tree is one leaf a range search returns the ids of the items
\* from (start, record 0) to (end, record 0), in order, cut at max_records, and
\* find_range the first of them.
BtLeafRangeExact ==
    (bt.root # NoNode /\ bt.nodes[bt.root].leaf) =>
    \A b \in Keys, e \in Keys, max \in 1 .. 2 :
        LET in == SelectSeq(Stored(bt),
                            LAMBDA x : ~ Less(x, Probe(b)) /\ ~ Less(Probe(e), x))
        IN /\ BtRangeAll(bt, b, e, max) =
              [i \in 1 .. (IF Len(in) < max THEN Len(in) ELSE max) |-> in[i].rid]
           /\ BtRange(bt, b, e) = IF in = << >> THEN None ELSE in[1].rid

\* The B-tree after any inserts: a well formed tree that holds what insert
\* acknowledged and nothing else, and that find and the range search of one
\* leaf read exactly (index.rs BTreeIndex).
BtExact ==
    /\ BtWellFormed /\ BtKeepsAcknowledged /\ BtNoPhantoms
    /\ BtFindExact /\ BtLeafRangeExact
=============================================================================
