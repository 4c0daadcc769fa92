---------------------------- MODULE AtomicTable ----------------------------
(***************************************************************************)
(* What a table promises its users: a map from record ids to rows that     *)
(* changes one row at a time, where an insert only ever takes an id that   *)
(* holds nothing, and a count that follows the inserts and deletes.        *)
(***************************************************************************)
EXTENDS Integers

CONSTANTS Ids, Row, Absent

VARIABLES rows,   \* Ids -> Row \cup {Absent}
          count   \* inserts so far minus deletes so far

avars == <<rows, count>>

AInit == rows = [i \in Ids |-> Absent] /\ count = 0

AInsert(i, r) ==
  /\ rows[i] = Absent
  /\ rows' = [rows EXCEPT ![i] = r]
  /\ count' = count + 1

AUpdate(i, r) ==
  /\ rows[i] # Absent
  /\ rows' = [rows EXCEPT ![i] = r]
  /\ UNCHANGED count

ADelete(i) ==
  /\ rows[i] # Absent
  /\ rows' = [rows EXCEPT ![i] = Absent]
  /\ count' = count - 1

ANext ==
  \E i \in Ids :
     \/ \E r \in Row : AInsert(i, r) \/ AUpdate(i, r)
     \/ ADelete(i)

ASpec == AInit /\ [][ANext]_avars
=============================================================================
