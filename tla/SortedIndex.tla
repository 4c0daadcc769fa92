---------------------------- MODULE SortedIndex ----------------------------
(***************************************************************************)
(* SecondaryIndex, the sorted array of index.rs: insert and delete shift   *)
(* the items under the index's spin lock, find and the range searches read *)
(* them by bisection.  Positions are 0-based as in the code; sequences are *)
(* 1-based.  The bisections lower an unsigned bound with "high = mid - 1": *)
(* at mid = 0 that is below zero, and the operation ends in a Fault with   *)
(* the lock it holds never released.                                       *)
(***************************************************************************)
EXTENDS IndexItems

CONSTANT SaMax                        \* max_items

VARIABLES
    sa,        \* the items, sorted
    saLock,    \* the spin lock: TRUE while held
    saOut      \* the outcome of the last operation
saVars == <<sa, saLock, saOut>>

SaInit == sa = << >> /\ saLock = FALSE /\ saOut = Ok

At(s, pos) == s[pos + 1]

\* binary_search: any position whose key is k, or None.
RECURSIVE Bisect(_, _, _, _)
Bisect(s, k, low, high) ==
    IF low > high THEN None
    ELSE LET mid == (low + high) \div 2 IN
         IF KeyEqual(At(s, mid), k) THEN mid
         ELSE IF KeyLess(At(s, mid), k) THEN Bisect(s, k, mid + 1, high)
         ELSE IF mid = 0 THEN None
         ELSE Bisect(s, k, low, mid - 1)
BinarySearch(s, k) == IF s = << >> THEN None ELSE Bisect(s, k, 0, Len(s) - 1)

\* The bisection of insert for the position of x.
RECURSIVE PlaceFrom(_, _, _, _, _)
PlaceFrom(s, x, low, high, pos) ==
    IF low > high THEN pos
    ELSE LET mid == (low + high) \div 2 IN
         IF Less(x, At(s, mid))
         THEN IF mid = 0 THEN BelowZero ELSE PlaceFrom(s, x, low, mid - 1, mid)
         ELSE PlaceFrom(s, x, mid + 1, high,
                        IF Equal(x, At(s, mid)) THEN mid + 1 ELSE pos)

\* Mutant: a new item goes to the end of the array.
PlaceLast(s, x) == IF s # << >> /\ Less(x, s[1]) THEN BelowZero ELSE Len(s)

Place(s, x) ==
    IF s = << >> THEN 0 ELSE PlaceFrom(s, x, 0, Len(s) - 1, Len(s))

SaFull == Len(sa) >= SaMax
SaInsert(k, r) ==
    LET x == Item(k, r) IN
    /\ ~ saLock
    /\ \/ /\ SaFull
          /\ saOut' = OutOfMemory
          /\ UNCHANGED <<sa, saLock>>
       \/ /\ ~ SaFull
          /\ k.size > MaxKeySize
          /\ saOut' = Unsupported
          /\ UNCHANGED <<sa, saLock>>
       \/ /\ ~ SaFull
          /\ k.size <= MaxKeySize
          /\ IF Place(sa, x) = BelowZero
             THEN saOut' = Fault /\ saLock' = TRUE /\ UNCHANGED sa
             ELSE /\ sa' = InsertAt(sa, Place(sa, x) + 1, x)
                  /\ saOut' = Ok
                  /\ UNCHANGED saLock

\* delete: the item bisection hits; equal keys are not told apart by record.
SaRemove(s, pos) == RemoveAt(s, pos + 1)
SaDelete(k) ==
    /\ ~ saLock
    /\ IF BinarySearch(sa, k) = None
       THEN saOut' = NotFound /\ UNCHANGED sa
       ELSE saOut' = Ok /\ sa' = SaRemove(sa, BinarySearch(sa, k))
    /\ UNCHANGED saLock

SaNext == \E k \in Keys : SaDelete(k) \/ \E r \in Rids : SaInsert(k, r)
SaSpec == SaInit /\ [][SaNext]_saVars

-----------------------------------------------------------------------------
\* find
SaFind(s, k) ==
    LET p == BinarySearch(s, k) IN IF p = None THEN None ELSE At(s, p).rid

\* The bisection both range searches start with: the first position not
\* before the start key; a Fault when it goes below position 0.
RECURSIVE LowerBoundFrom(_, _, _, _, _)
LowerBoundFrom(s, x, low, high, pos) ==
    IF low > high THEN pos
    ELSE LET mid == (low + high) \div 2 IN
         IF Less(At(s, mid), x) THEN LowerBoundFrom(s, x, mid + 1, high, mid + 1)
         ELSE IF mid = 0 THEN BelowZero
         ELSE LowerBoundFrom(s, x, low, mid - 1, pos)
LowerBound(s, k) == LowerBoundFrom(s, Probe(k), 0, Len(s) - 1, 0)

\* The test against the end key, which stops the scan when it fails.  Keys
\* of two sizes differ, if at all, in the byte their data stands for: the
\* shorter one passes when it is smaller there, and not when it is a prefix.
BelowEnd(x, e) ==
    \/ x.size = e.size /\ x.data <= e.data
    \/ x.size < e.size /\ x.data < e.data

\* find_range_all: ids from the lower bound until the end test fails or max.
RECURSIVE ScanFrom(_, _, _, _)
ScanFrom(s, pos, e, max) ==
    IF pos >= Len(s) \/ max = 0 \/ ~ BelowEnd(At(s, pos), e) THEN << >>
    ELSE <<At(s, pos).rid>> \o ScanFrom(s, pos + 1, e, max - 1)
FindRangeAll(s, b, e, max) ==
    IF s = << >> THEN << >>
    ELSE IF LowerBound(s, b) = BelowZero THEN <<BelowZero>>
    ELSE ScanFrom(s, LowerBound(s, b), e, max)

\* find_range: as find_range_all, one record; an empty index is a Fault
\* (item_count - 1 with item_count = 0).
FindRange(s, b, e) ==
    IF s = << >> \/ LowerBound(s, b) = BelowZero THEN BelowZero
    ELSE LET hit == ScanFrom(s, LowerBound(s, b), e, 1) IN
         IF hit = << >> THEN None ELSE hit[1]
-----------------------------------------------------------------------------
\* insert and delete keep the array sorted, whatever order keys and record
\* ids come in: everything the bisections rely on.
SaSorted == InOrder(sa)

\* find answers NotFound exactly when no item has the key, and otherwise with
\* a record stored under the key (index.rs binary_search).
SaFindExact ==
    \A k \in Keys :
        LET with == {i \in 1 .. Len(sa) : KeyEqual(sa[i], k)} IN
        IF with = {} THEN SaFind(sa, k) = None
        ELSE SaFind(sa, k) \in {sa[i].rid : i \in with}

\* Over keys of one size a range search that does not end in a Fault returns
\* the ids of the items between the two keys, in order, cut at max_records.
SaRangeExact ==
    sa # << >> =>
    \A b \in Keys, e \in Keys, max \in 1 .. SaMax :
        (/\ b.size = e.size
         /\ \A i \in 1 .. Len(sa) : sa[i].size = b.size
         /\ FindRangeAll(sa, b, e, max) # <<BelowZero>>) =>
        LET in == SelectSeq(sa, LAMBDA x : ~ KeyLess(x, b) /\ ~ KeyLess(e, x))
            ids == [i \in 1 .. Len(in) |-> in[i].rid]
        IN /\ FindRangeAll(sa, b, e, max) =
              SubSeq(ids, 1, IF Len(ids) < max THEN Len(ids) ELSE max)
           /\ FindRange(sa, b, e) = IF ids = << >> THEN None ELSE ids[1]

\* An insert never loses or alters an item and a delete takes one item away,
\* one with the key asked for (action property over insert and delete).
SaOneItemAtATime ==
    [][\/ sa' = sa
       \/ \E i \in 1 .. Len(sa') : RemoveAt(sa', i) = sa
       \/ \E i \in 1 .. Len(sa) : RemoveAt(sa, i) = sa' /\ saOut' = Ok]_saVars

\* The sorted array within its bound: always in order, find and range search
\* exact, and changed by one item at a time (index.rs SecondaryIndex::insert,
\* delete, find, find_range, find_range_all).
SaExact ==
    /\ [](Len(sa) <= SaMax /\ SaSorted /\ SaFindExact /\ SaRangeExact)
    /\ SaOneItemAtATime
=============================================================================
