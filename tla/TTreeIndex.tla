----------------------------- MODULE TTreeIndex -----------------------------
(***************************************************************************)
(* TTreeIndex of index.rs.  A node holds up to TTREE_ORDER keys and has a  *)
(* left, a middle and a right child, whatever the number of its keys.  A   *)
(* full child is split into itself and a new right node and the key in the *)
(* middle is copied into the parent; the two halves are then hung where    *)
(* the copied key stands, over whatever child was there.                   *)
(***************************************************************************)
EXTENDS IndexItems

CONSTANTS
    TTREE_ORDER,      \* 3 in the code
    TtNodes,          \* the pool sizes (max_nodes) to check
    TtMaxItems        \* bound on the inserts of one behaviour

VARIABLES
    tt,         \* [root, nodes, free]
    ttLock,     \* the spin lock
    ttOut,      \* outcome of the last operation
    ttAcked,    \* the items inserted with result Ok
    ttInserts   \* how many inserts that were
ttVars == <<tt, ttLock, ttOut, ttAcked, ttInserts>>

NoTNode == 0
EmptyTNode == [keys |-> << >>, left |-> NoTNode, middle |-> NoTNode, right |-> NoTNode]
mid == (TTREE_ORDER + 1) \div 2       \* TTREE_ORDER.div_ceil(2)

TtInit ==
    /\ \E max \in TtNodes :
          tt = [root |-> NoTNode, nodes |-> [n \in 1 .. max |-> EmptyTNode],
                free |-> [i \in 1 .. max |-> i]]
    /\ ttLock = FALSE /\ ttOut = Ok /\ ttAcked = {} /\ ttInserts = 0

TAllocate(t, node) ==
    [t EXCEPT !.free = Tail(@), !.nodes[Head(t.free)] = node]
TDone(t, out) == [t |-> t, out |-> out]

\* find_key_position: the first key that is not before x.
TKeyPosition(keys, x) ==
    LET before == {i \in 0 .. Len(keys) : \A j \in 1 .. i : Less(keys[j], x)}
    IN CHOOSE i \in before : \A j \in before : j <= i
THit(keys, x) ==
    LET p == TKeyPosition(keys, x) IN p < Len(keys) /\ Equal(keys[p + 1], x)

\* The child on the way to position pos.
ChildSlot(node, pos) ==
    IF pos = 0 THEN "left" ELSE IF pos < Len(node.keys) THEN "middle" ELSE "right"

\* The scratch array of a split: the keys of a full node with x before the
\* first greater one.
Merged(keys, x) ==
    LET after == {i \in 1 .. Len(keys) : Less(x, keys[i])}
    IN IF after = {} THEN Append(keys, x)
       ELSE InsertAt(keys, CHOOSE i \in after : \A j \in after : i <= j, x)

TFull(node) == Len(node.keys) >= TTREE_ORDER

\* insert_into_node: a full node has no room in its array.
IntoNode(t, n, x) ==
    IF TFull(t.nodes[n]) THEN TDone(t, Fault)
    ELSE TDone([t EXCEPT !.nodes[n].keys = InsertAt(@, TKeyPosition(@, x) + 1, x)], Ok)

\* The split of the full child c of node n for item x.
SplitTChild(t, n, c, x) ==
    LET all == Merged(t.nodes[c].keys, x)
        new == Head(t.free)
        cut == [TAllocate(t, [EmptyTNode EXCEPT !.keys = SubSeq(all, mid + 1, Len(all))])
                  EXCEPT !.nodes[c].keys = SubSeq(all, 1, mid)]
        up == IntoNode(cut, n, all[mid])
        keys == up.t.nodes[n].keys
        pos == TKeyPosition(keys, all[mid])
    IN IF t.free = << >> THEN TDone(t, OutOfMemory)
       ELSE IF up.out = Fault THEN up
       ELSE TDone([up.t EXCEPT !.nodes[n] =
                     IF pos = 0 THEN [@ EXCEPT !.left = c, !.middle = new]
                     ELSE IF pos < Len(keys) THEN [@ EXCEPT !.middle = c, !.right = new]
                     ELSE [@ EXCEPT !.right = new]], Ok)

\* The split of a full node that has no child at position pos.
SplitInPlace(t, n, pos, x) ==
    LET all == Merged(t.nodes[n].keys, x)
        slot == IF pos = 0 THEN "left" ELSE IF pos < mid THEN "middle" ELSE "right"
    IN IF t.free = << >> THEN TDone(t, OutOfMemory)
       ELSE TDone([TAllocate(t, [EmptyTNode EXCEPT !.keys = SubSeq(all, mid + 1, Len(all))])
                     EXCEPT !.nodes[n] = [@ EXCEPT !.keys = SubSeq(all, 1, mid),
                                                   ![slot] = Head(t.free)]], Ok)

\* insert_recursive_with_depth
MaxRecursion == 100
RECURSIVE Descend(_, _, _, _)
Descend(t, n, x, depth) ==
    LET node == t.nodes[n]
        pos == TKeyPosition(node.keys, x)
        child == node[ChildSlot(node, pos)]
    IN IF depth > MaxRecursion \/ THit(node.keys, x) THEN TDone(t, Ok)
       ELSE IF child # NoTNode
       THEN IF TFull(t.nodes[child]) THEN SplitTChild(t, n, child, x)
            ELSE Descend(t, child, x, depth + 1)
       ELSE IF ~ TFull(node) THEN IntoNode(t, n, x)
       ELSE SplitInPlace(t, n, pos, x)

\* Mutant: the first key of the right half is lost.
SplitRootMoved(t, x) ==
    LET all == Merged(t.nodes[t.root].keys, x)
        one == TAllocate(t, [EmptyTNode EXCEPT !.keys = <<all[mid]>>, !.left = t.root,
                                               !.right = Head(Tail(t.free))])
    IN IF Len(t.free) < 2 THEN TDone(t, OutOfMemory)
       ELSE TDone([TAllocate(one, [EmptyTNode EXCEPT !.keys = SubSeq(all, mid + 2, Len(all))])
                     EXCEPT !.root = Head(t.free), !.nodes[t.root].keys = SubSeq(all, 1, mid)], Ok)

\* The split of a full root: it keeps the lower keys and its children.
SplitRoot(t, x) ==
    LET all == Merged(t.nodes[t.root].keys, x)
        one == TAllocate(t, [EmptyTNode EXCEPT !.keys = <<all[mid]>>, !.left = t.root,
                                               !.right = Head(Tail(t.free))])
    IN IF t.free = << >> THEN TDone(t, OutOfMemory)
       ELSE IF Len(t.free) = 1 THEN TDone(TAllocate(t, EmptyTNode), OutOfMemory)
       ELSE TDone([TAllocate(one, [EmptyTNode EXCEPT !.keys = SubSeq(all, mid + 1, Len(all))])
                     EXCEPT !.root = Head(t.free), !.nodes[t.root].keys = SubSeq(all, 1, mid)], Ok)

\* The body of insert; the result of the descent is dropped unless a Fault.
TInsertItem(t, x) ==
    LET down == Descend(t, t.root, x, 0)
    IN IF t.root = NoTNode
       THEN IF t.free = << >> THEN TDone(t, OutOfMemory)
            ELSE TDone([TAllocate(t, [EmptyTNode EXCEPT !.keys = <<x>>])
                          EXCEPT !.root = Head(t.free)], Ok)
       ELSE IF TFull(t.nodes[t.root]) THEN SplitRoot(t, x)
       ELSE IF down.out = Fault THEN down ELSE TDone(down.t, Ok)

\* insert: an error for the root and a Fault leave with the lock held.
TtInsert(k, r) ==
    LET x == Item(k, r)
        res == TInsertItem(tt, x)
    IN /\ ~ ttLock
       /\ \/ /\ k.size > MaxKeySize
             /\ ttOut' = Unsupported
             /\ UNCHANGED <<tt, ttLock, ttAcked, ttInserts>>
          \/ /\ k.size <= MaxKeySize
             /\ tt' = res.t /\ ttOut' = res.out
             /\ ttLock' = (res.out # Ok)
             /\ ttAcked' = IF res.out = Ok THEN ttAcked \cup {x} ELSE ttAcked
             /\ ttInserts' = ttInserts + (IF res.out = Ok THEN 1 ELSE 0)

\* delete
TtDelete ==
    /\ ~ ttLock
    /\ ttOut' = Unsupported
    /\ UNCHANGED <<tt, ttLock, ttAcked, ttInserts>>

TtNext ==
    \/ TtDelete
    \/ /\ ttInserts < TtMaxItems
       /\ \E k \in Keys, r \in Rids : TtInsert(k, r)
TtSpec == TtInit /\ [][TtNext]_ttVars

-----------------------------------------------------------------------------
\* find, for an item: the search path from the root meets it.
RECURSIVE OnPath(_, _, _)
OnPath(t, n, x) ==
    /\ n # NoTNode
    /\ LET node == t.nodes[n] IN
       \/ THit(node.keys, x)
       \/ ~ THit(node.keys, x) /\ OnPath(t, node[ChildSlot(node, TKeyPosition(node.keys, x))], x)
TtFind(t, k) == IF OnPath(t, t.root, Probe(k)) THEN 0 ELSE None

\* find_range_all: left spines and right children; middle children are not visited.
RECURSIVE TWalk(_, _)
TWalk(t, n) ==
    IF n = NoTNode THEN << >>
    ELSE TWalk(t, t.nodes[n].left) \o t.nodes[n].keys \o TWalk(t, t.nodes[n].right)
TtRangeAll(t, b, e, max) ==
    LET in == SelectSeq(TWalk(t, t.root), LAMBDA x : ~ Less(x, Probe(b)) /\ ~ Less(Probe(e), x))
    IN [i \in 1 .. (IF Len(in) < max THEN Len(in) ELSE max) |-> in[i].rid]
\* find_range: its first id.
TtRange(t, b, e) == LET ids == TtRangeAll(t, b, e, 1) IN IF ids = << >> THEN None ELSE ids[1]

\* The nodes below n.
RECURSIVE TBelow(_, _)
TBelow(t, n) ==
    IF n = NoTNode THEN << >>
    ELSE <<n>> \o TBelow(t, t.nodes[n].left) \o TBelow(t, t.nodes[n].middle)
               \o TBelow(t, t.nodes[n].right)
-----------------------------------------------------------------------------
\* The nodes form a tree disjoint from the free list, and the keys of each
\* are sorted: the walks of the range searches end, and no node that is in
\* use is allocated again (index.rs allocate_node, insert_recursive_with_depth).
TtWellFormed ==
    LET ns == TBelow(tt, tt.root) IN
    /\ IsInjective(ns)
    /\ ToSet(ns) \cap ToSet(tt.free) = {}
    /\ \A n \in ToSet(ns) : InOrder(tt.nodes[n].keys)

\* Only inserted items are in the tree, although split keys are copied.
TtNoPhantoms == \A n \in ToSet(TBelow(tt, tt.root)) : ToSet(tt.nodes[n].keys) \subseteq ttAcked

\* Up to 2 * TTREE_ORDER + 1 inserts, and while nodes are left, the search path
\* meets every item whose insert answered Ok, and find exactly the keys stored
\* for record 0; from then on a split of a child
\* hangs its halves over another child (index.rs:3626-3634).
TtKeepsSevenInserts ==
    (ttInserts <= 2 * TTREE_ORDER + 1 /\ tt.free # << >>) =>
        /\ \A x \in ttAcked : OnPath(tt, tt.root, x)
        /\ \A k \in Keys : TtFind(tt, k) = IF Probe(k) \in ttAcked THEN 0 ELSE None

\* A range search over a tree of one node returns the items in the range, as
\* a probe with record id 0 delimits it, in order and cut at max_records.
TtNodeRangeExact ==
    (tt.root # NoTNode /\ Len(TBelow(tt, tt.root)) = 1) =>
    \A b \in Keys, e \in Keys :
        LET in == {x \in ttAcked : ~ Less(x, Probe(b)) /\ ~ Less(Probe(e), x)} IN
        /\ Len(TtRangeAll(tt, b, e, TTREE_ORDER)) = Cardinality(in)
        /\ ToSet(TtRangeAll(tt, b, e, TTREE_ORDER)) = {x.rid : x \in in}
        /\ TtRange(tt, b, e) \in IF in = {} THEN {None} ELSE {x.rid : x \in in}

\* The T-tree after any inserts: a well formed tree without phantoms, with every
\* item on its search path for seven inserts, and exact ranges in one node
\* (index.rs TTreeIndex).
TtExact == TtWellFormed /\ TtNoPhantoms /\ TtKeepsSevenInserts /\ TtNodeRangeExact
=============================================================================
