----------------------------- MODULE IndexItems -----------------------------
(***************************************************************************)
(* What the ordered secondary indexes of index.rs share: the items they    *)
(* store and the order compare_items puts them in.  A key is its size and  *)
(* its bytes; the bytes are one number, since compare_items orders equally *)
(* long keys byte by byte (the string comparison of the Char, VarChar and  *)
(* Text fields is that same order).                                        *)
(***************************************************************************)
EXTENDS Integers, Sequences, SequencesExt, FiniteSets

CONSTANTS
    Keys,        \* keys given to the indexes: records [size, data]
    Rids         \* record ids (u16)

ASSUME KeysAssumption ==
    /\ Keys \subseteq [size : Nat, data : Nat]
    /\ Rids \subseteq Nat

MaxKeySize == 64                      \* larger keys are UnsupportedOperation
Item(k, r) == [size |-> k.size, data |-> k.data, rid |-> r]
Items == {Item(k, r) : k \in Keys, r \in Rids}

\* The three way comparison of the key alone, as binary_search does it.
KeyLess(a, b) == a.size < b.size \/ (a.size = b.size /\ a.data < b.data)
KeyEqual(a, b) == a.size = b.size /\ a.data = b.data

\* compare_items: the key, then the record id.
Less(a, b) == KeyLess(a, b) \/ (KeyEqual(a, b) /\ a.rid < b.rid)
Equal(a, b) == ~ Less(a, b) /\ ~ Less(b, a)
InOrder(s) == \A i \in 1 .. Len(s) - 1 : ~ Less(s[i + 1], s[i])

\* A probe for a key: the searches that use compare_items give it record id 0.
Probe(k) == Item(k, 0)

\* The outcomes of an operation; Fault stands for the panic of a checked
\* build (an unsigned subtraction below zero, an index past an array).
Ok == "ok"
OutOfMemory == "out_of_memory"
Unsupported == "unsupported"
NotFound == "not_found"
Fault == "fault"

\* No position, no record; and a position computed below zero.
None == -1
BelowZero == -2
=============================================================================
