---------------------------- MODULE PrimaryIndex ----------------------------
(***************************************************************************)
(* The hash index on the primary key (PrimaryIndex of index.rs) as a       *)
(* value: the chained items, newest first.  Items of one key share a       *)
(* chain whatever the hash function, so one sequence stands for all the    *)
(* chains.  max_items items come from a free list and go back to it.       *)
(***************************************************************************)
EXTENDS Naturals, Sequences

IndexType(Keys, RecordIds) == Seq([key : Keys, id : RecordIds])

NewIndex == <<>>

\* insert puts a new item in front of its chain; it does not look for an item
\* with the same key.  Without a free item it fails and changes nothing.
IndexInsert(I, max_items, key, id) ==
  IF Len(I) = max_items THEN I ELSE <<[key |-> key, id |-> id]>> \o I

HasKey(I, key) == \E i \in DOMAIN I : I[i].key = key

\* The item find and delete stop at: the newest one of the key.
FirstItem(I, key) ==
  CHOOSE i \in DOMAIN I : /\ I[i].key = key
                          /\ \A j \in 1 .. i - 1 : I[j].key # key

\* find (only when HasKey)
IndexFind(I, key) == I[FirstItem(I, key)].id

IndexDelete(I, key) ==
  LET i == FirstItem(I, key)
  IN  IF HasKey(I, key)
      THEN SubSeq(I, 1, i - 1) \o SubSeq(I, i + 1, Len(I)) ELSE I
=============================================================================
