----------------------------- MODULE Snapshots -----------------------------
(***************************************************************************)
(* save_snapshot, save_incremental_snapshot and restore_snapshot of RemDb, *)
(* with the calls that change tables between them and restarts.  All of    *)
(* them take &mut self: each is one step.                                  *)
(*                                                                         *)
(* A snapshot file is a sequence of parts: the header, and for each table  *)
(* its description followed by its rows.  A write that fails leaves the    *)
(* parts before it.  All tables have one layout.  A table that a restore   *)
(* has to create gets record_size 0: its records share one address.        *)
(* Reading an incremental file back is not modelled: restore_snapshot      *)
(* expects descriptions that such a file does not hold.                    *)
(***************************************************************************)
EXTENDS MemoryTable, SequencesExt

CONSTANTS SnIds,         \* entries of RemDb::tables
          SnConfigured,  \* those that DbConfig::tables fills
          SnMaxOps       \* bound on calls

VARIABLES snTables,   \* RemDb::tables
          snVersion,  \* RemDb::snapshot_version
          snFile,     \* the parts in the snapshot file
          snSeen,     \* history: what each table held at the last snapshot
          snBase,     \* history: snapshot_version at the last full snapshot
          snLast,     \* history: how the last call ended
          snOps       \* calls so far

snVars == <<snTables, snVersion, snFile, snSeen, snBase, snLast, snOps>>

Absent == [present |-> FALSE]
HeldBy(T, flat) ==
  [present |-> TRUE, tbl |-> T, flat |-> flat, snap |-> 0]
EmptyTable == NewTable([s \in Slots |-> 0], [s \in Slots |-> 0])

SnContent(t) == IF t.present THEN {<<s, t.tbl.data[s]>> : s \in Used(t.tbl)} ELSE {}
SnPresent(tables) == {i \in SnIds : tables[i].present}
InOrderOfId(S) == SetToSortSeq(S, LAMBDA a, b : a < b)

\* With record_size 0 no byte of a record is copied or cleared.
Copied(t, T) ==
  [t EXCEPT !.tbl = IF t.flat THEN [T EXCEPT !.data = t.tbl.data] ELSE T]

-----------------------------------------------------------------------------
HeadPart(kind, base, n) == [part |-> "head", kind |-> kind, base |-> base, n |-> n]
TablePart(i, n) == [part |-> "table", id |-> i, n |-> n]
RowPart(s, row) == [part |-> "row", slot |-> s, row |-> row]

RowParts(T, S) ==
  LET q == InOrderOfId(S) IN [k \in DOMAIN q |-> RowPart(q[k], T.data[q[k]])]

\* The description announces record_count, the rows are the used slots.
SectionOf(tables, i) ==
  <<TablePart(i, tables[i].tbl.record_count)>>
    \o RowParts(tables[i].tbl, Used(tables[i].tbl))

FullFile(tables, version) ==
  LET ids == InOrderOfId(SnPresent(tables))
  IN  <<HeadPart("full", version, Len(ids))>>
        \o FlattenSeq([k \in DOMAIN ids |-> SectionOf(tables, ids[k])])

\* A table takes the new version before its section is written.
Stamped(tables, file, written, version) ==
  [i \in SnIds |->
     IF \E p \in DOMAIN file : /\ file[p].part = "table" /\ file[p].id = i
                               /\ p <= written + 1
     THEN [tables[i] EXCEPT !.snap = version] ELSE tables[i]]

SaveSnapshot ==
  LET file == FullFile(snTables, snVersion + 1) IN
  \E written \in 0 .. Len(file) :
     /\ snVersion' = snVersion + 1
     /\ snTables' = Stamped(snTables, file, written, snVersion + 1)
     /\ snFile' = SubSeq(file, 1, written)
     /\ snSeen' = [i \in SnIds |-> SnContent(snTables[i])]
     /\ snBase' = snVersion + 1
     /\ snLast' = IF written = Len(file) THEN "saved" ELSE "failed"

(***************************************************************************)
(* An incremental file takes the records whose slot was written more often *)
(* than snapshots were taken.                                              *)
(***************************************************************************)
Changed(t) == {s \in Used(t.tbl) : t.tbl.version[s] > t.snap % VersionMod}

IncrementalSection(tables, i) ==
  <<TablePart(i, Cardinality(Changed(tables[i])))>>
    \o RowParts(tables[i].tbl, Changed(tables[i]))

\* table_count counts the empty entries too.
IncrementalFile(tables, version) ==
  LET ids == InOrderOfId(SnPresent(tables))
  IN  <<HeadPart("incremental", version, Cardinality(SnIds))>>
        \o FlattenSeq([k \in DOMAIN ids |-> IncrementalSection(tables, ids[k])])

\* A table takes the version when its section is written.
SaveIncremental ==
  LET file == IncrementalFile(snTables, snVersion) IN
  \E written \in 0 .. Len(file) :
     /\ snFile' = SubSeq(file, 1, written)
     /\ snTables' =
          [i \in SnIds |->
             IF \E p \in 1 .. written :
                  /\ file[p].part = "table" /\ file[p].id = i
                  /\ p + file[p].n <= written
             THEN [snTables[i] EXCEPT !.snap = snVersion] ELSE snTables[i]]
     /\ snSeen' = [i \in SnIds |-> SnContent(snTables[i])]
     /\ snLast' = IF written = Len(file) THEN "incremental" ELSE "failed"
     /\ UNCHANGED <<snVersion, snBase>>

-----------------------------------------------------------------------------
\* A table at the entry is kept, whatever it is called.
EntryFor(tables, i) ==
  IF tables[i].present THEN tables[i] ELSE HeldBy(EmptyTable, TRUE)

\* Mutant: the old records stay.
EmptiedOnlyCount(T) == [T EXCEPT !.record_count = 0]

\* Every slot is freed, the free stack is left as it is.
Emptied(T) ==
  [T EXCEPT !.status = [s \in Slots |-> "Free"],
            !.version = [s \in Slots |-> Bump(T.version[s])],
            !.data = [s \in Slots |-> ZeroRow],
            !.record_count = 0]

RowRead(t, s, row) ==
  LET T == t.tbl IN
  [t EXCEPT !.tbl =
     [T EXCEPT !.data = [u \in Slots |-> IF u = s \/ t.flat THEN row ELSE @[u]],
               !.record_count = IF T.status[s] = "Used" THEN @ ELSE @ + 1,
               !.status[s] = "Used",
               !.version[s] = Bump(@),
               !.max_pk = Larger(@, row.pk)]]

\* One part of the file.  `cur` is the table whose rows are read.
ReadPart(st, p, full) ==
  IF st.stop \/ p.part = "head" THEN st
  ELSE IF p.part = "row"
  THEN [st EXCEPT !.tables[st.cur] = RowRead(@, p.slot, p.row), !.due = @ - 1]
  ELSE IF p.id \in full /\ ~st.tables[p.id].present
  THEN [st EXCEPT !.stop = TRUE]
  ELSE LET t == EntryFor(st.tables, p.id) IN
       [st EXCEPT !.tables[p.id] = Copied(t, Emptied(t.tbl)),
                  !.cur = p.id, !.due = p.n, !.left = @ - 1]

\* The announced rows of every table but the last are the rows that follow.
Aligned(file) ==
  \A p \in DOMAIN file :
     LET later == {q \in p + 1 .. Len(file) : file[q].part = "table"} IN
     file[p].part = "table" /\ later # {} =>
       file[p].n = (CHOOSE q \in later : \A r \in later : q <= r) - p - 1

(***************************************************************************)
(* restore_snapshot.  `full` are the entries for whose table no memory is  *)
(* left.  An error leaves the tables as far as they were read.             *)
(***************************************************************************)
RestoreSnapshot ==
  \E full \in SUBSET SnIds :
     LET st0 == [tables |-> snTables, cur |-> 0, due |-> 0, stop |-> FALSE,
                 left |-> IF snFile = <<>> THEN 1 ELSE snFile[1].n]
         st == FoldLeft(LAMBDA s, p : ReadPart(s, p, full), st0, snFile)
         ok == ~st.stop /\ st.left = 0 /\ st.due = 0
     IN  /\ snFile # <<>> => snFile[1].kind = "full" /\ Aligned(snFile)
         /\ snTables' = st.tables
         /\ snVersion' = IF ok THEN snFile[1].base ELSE snVersion
         /\ snLast' = IF ok THEN "restored" ELSE "refused"
         /\ UNCHANGED <<snFile, snSeen, snBase>>

-----------------------------------------------------------------------------
\* The calls between snapshots, on one table.
SetTable(i, t) ==
  /\ snTables' = [snTables EXCEPT ![i] = t]
  /\ snLast' = "other"
  /\ UNCHANGED <<snVersion, snFile, snSeen, snBase>>

SnInsert(i) ==
  \E row \in Rows : \E s \in InsertSlot(snTables[i].tbl) :
     /\ ~Conflict(snTables[i].tbl, row, {}, 1)
     /\ SetTable(i, Copied(snTables[i], InsertRow(snTables[i].tbl, s, row)))

SnUpdate(i) ==
  \E row \in Rows, s \in Used(snTables[i].tbl) :
     /\ ~Conflict(snTables[i].tbl, row, {s}, 1)
     /\ SetTable(i, Copied(snTables[i], UpdateRow(snTables[i].tbl, s, row)))

SnDelete(i) ==
  \E s \in Used(snTables[i].tbl) :
     SetTable(i, Copied(snTables[i], DeleteRow(snTables[i].tbl, s)))

SnCreateTable(i) ==
  /\ ~snTables[i].present
  /\ \A j \in SnIds : j < i => snTables[j].present
  /\ SetTable(i, HeldBy(EmptyTable, FALSE))

SnDropTable(i) == snTables[i].present /\ SetTable(i, Absent)

SnRestarted ==
  [i \in SnIds |-> IF i \in SnConfigured THEN HeldBy(EmptyTable, FALSE) ELSE Absent]

Restart ==
  /\ snTables' = SnRestarted
  /\ snVersion' = 0
  /\ snLast' = "other"
  /\ UNCHANGED <<snFile, snSeen, snBase>>

SnInit ==
  /\ snTables = SnRestarted
  /\ snVersion = 0
  /\ snFile = <<>>
  /\ snSeen = [i \in SnIds |-> {}]
  /\ snBase = 0
  /\ snLast = "other"
  /\ snOps = 0

SnNext ==
  /\ snOps < SnMaxOps
  /\ snOps' = snOps + 1
  /\ \/ SaveSnapshot \/ SaveIncremental \/ RestoreSnapshot \/ Restart
     \/ \E i \in SnIds : SnCreateTable(i) \/ SnDropTable(i)
     \/ \E i \in SnPresent(snTables) : SnInsert(i) \/ SnUpdate(i) \/ SnDelete(i)

SnSpec == SnInit /\ [][SnNext]_snVars

-----------------------------------------------------------------------------
InFile(i) == \E p \in DOMAIN snFile : snFile[p].part = "table" /\ snFile[p].id = i
Counted(t) == t.tbl.record_count = Cardinality(Used(t.tbl))

\* restore_snapshot answers Ok only for a file that was written to its end.  It
\* then leaves in every table of the file the records that were saved, each in
\* its slot, with the count right and max_pk above them, whatever the table
\* held before, and the other tables alone; a table that it had to create has
\* the right slots in use.  When it fails, a table holds what it held, or part
\* of what was saved, and its count agrees (lib.rs restore_snapshot).
SnRestoreExact ==
  [][/\ snLast' = "restored" =>
          /\ snVersion' = snBase
          /\ \A i \in SnIds :
               LET t == snTables'[i] IN
               IF ~InFile(i) THEN t = snTables[i] /\ snSeen[i] = {}
               ELSE /\ Counted(t)
                    /\ IF t.flat THEN {x[1] : x \in SnContent(t)} = {x[1] : x \in snSeen[i]}
                                 ELSE SnContent(t) = snSeen[i]
                    /\ \A x \in SnContent(t) : x[2].pk <= t.tbl.max_pk
     /\ snLast' = "refused" =>
          /\ snVersion' = snVersion
          /\ \A i \in SnIds :
               LET t == snTables'[i] IN
               \/ t = snTables[i]
               \/ Counted(t) /\ (t.flat \/ SnContent(t) \subseteq snSeen[i])]_snVars
=============================================================================
