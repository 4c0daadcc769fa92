---------------------- MODULE HighAvailabilityProofs ----------------------
(***************************************************************************)
(* The synchronisation of a slave (ha/sync_handler.rs, sync_receiver.rs),  *)
(* for every number of nodes, slots, keys and chunks: a slave that reports *)
(* Synced after a full transfer has the records of one snapshot.           *)
(***************************************************************************)
EXTENDS HighAvailability, WellFoundedInduction, TLAPS

USE ZenonT(30)

(***************************************************************************)
(* Loops as recursive functions                                            *)
(***************************************************************************)

\* A set of naturals has a least element.
LEMMA LeastNumber ==
  ASSUME NEW T, T \subseteq Nat, T # {}
  PROVE  \E m \in T : \A k \in T : m <= k
<1> DEFINE R == OpToRel(<, Nat)
<1>1. \A x, y \in Nat : x < y => <<x, y>> \in R
  BY DEF OpToRel
<1>2. IsWellFoundedOn(R, Nat)
  BY NatLessThanWellFounded
<1> HIDE DEF R
<1>3. PICK m \in T : \A k \in T : ~ (<<k, m>> \in R)
  BY <1>2, WFMin
<1>4. \A k \in T : ~(k < m)
  BY <1>1, <1>3
<1>5. QED
  BY <1>4, SMTT(30)

\* Induction on the naturals, for a set in place of a predicate.
LEMMA InductiveSet ==
  ASSUME NEW P, 0 \in P, \A n \in Nat : n \in P => n + 1 \in P
  PROVE  Nat \subseteq P
<1> SUFFICES ASSUME Nat \ P # {} PROVE FALSE
  OBVIOUS
<1>1. PICK m \in Nat \ P : \A k \in Nat \ P : m <= k
  BY LeastNumber
<1>2. m - 1 \in Nat /\ m - 1 \in P
  BY <1>1, SMTT(30)
<1>3. QED
  BY <1>2, SMTT(30)

\* What is true before a loop of N rounds and kept by every round.
LEMMA LoopInduction ==
  ASSUME NEW N \in Nat, NEW P, 0 \in P,
         \A j \in 1 .. N : j - 1 \in P => j \in P
  PROVE  0 .. N \subseteq P
<1> DEFINE Q == {n \in Nat : n <= N => n \in P}
<1>1. 0 \in Q
  OBVIOUS
<1>2. ASSUME NEW n \in Nat, n \in Q PROVE n + 1 \in Q
  <2> SUFFICES ASSUME n + 1 <= N PROVE n + 1 \in P
    BY SMTT(30)
  <2>1. n + 1 \in 1 .. N /\ (n + 1) - 1 = n /\ n \in P
    BY <1>2, SMTT(30)
  <2>2. QED
    BY <2>1
<1> HIDE DEF Q
<1>3. Nat \subseteq Q
  BY <1>1, <1>2, InductiveSet
<1>4. QED
  BY <1>3, SMTT(30) DEF Q

\* A loop of N rounds from a, round j being the function g[j] on X.
Rounds(X, N) == [1 .. N -> [X -> X]]

IsLoop(f, X, N, a, g) ==
  /\ f \in [0 .. N -> X] /\ f[0] = a
  /\ \A j \in 1 .. N : f[j] = g[j][f[j - 1]]

\* The loop exists: its rounds are done one after the other.
LEMMA Loop ==
  ASSUME NEW X, NEW N \in Nat, NEW a \in X, NEW g \in Rounds(X, N)
  PROVE  \E f : IsLoop(f, X, N, a, g)
<1> DEFINE Upto(f, n) == /\ f \in [0 .. N -> X] /\ f[0] = a
                         /\ \A j \in 1 .. n : f[j] = g[j][f[j - 1]]
           P == {n \in 0 .. N : \E f : Upto(f, n)}
<1>1. 0 \in P
  <2> DEFINE f == [j \in 0 .. N |-> a]
  <2>1. Upto(f, 0)
    BY SMTT(30)
  <2> HIDE DEF f, Upto
  <2>2. QED
    BY <2>1, SMTT(30)
<1>2. ASSUME NEW j \in 1 .. N, j - 1 \in P PROVE j \in P
  <2>1. PICK f : Upto(f, j - 1)
    BY <1>2
  <2> DEFINE h == [f EXCEPT ![j] = g[j][f[j - 1]]]
  <2>2. f[j - 1] \in X /\ g[j][f[j - 1]] \in X
    BY <2>1, SMTT(30) DEF Rounds
  <2>3. h \in [0 .. N -> X] /\ h[0] = a
    BY <2>1, <2>2, SMTT(30)
  <2>4. ASSUME NEW i \in 1 .. j PROVE h[i] = g[i][h[i - 1]]
    <3>1. h[i - 1] = f[i - 1]
      BY <2>1, SMTT(30)
    <3>2. CASE i = j
      BY <2>1, <3>1, <3>2, SMTT(30)
    <3>3. CASE i # j
      <4>1. i \in 1 .. j - 1 /\ h[i] = f[i]
        BY <2>1, <3>3, SMTT(30)
      <4>2. QED
        BY <2>1, <3>1, <4>1
    <3>4. QED
      BY <3>2, <3>3
  <2> HIDE DEF h
  <2>5. Upto(h, j)
    BY <2>3, <2>4
  <2> HIDE DEF Upto
  <2>6. QED
    BY <2>5, SMTT(30)
<1>3. N \in P
  <2> HIDE DEF P
  <2>1. 0 .. N \subseteq P
    BY <1>1, <1>2, LoopInduction
  <2>2. QED
    BY <2>1, SMTT(30)
<1>4. PICK f : Upto(f, N)
  BY <1>3
<1>5. IsLoop(f, X, N, a, g)
  BY <1>4 DEF IsLoop
<1>6. QED
  BY <1>5

(***************************************************************************)
(* Tables                                                                  *)
(***************************************************************************)

\* The fields of a table have the types of the fields of struct MemoryTable.
LEMMA Fields ==
  ASSUME NEW T \in TableType
  PROVE  /\ T.status \in [Slots -> {"Free", "Used"}]
         /\ T.version \in [Slots -> 0 .. VersionMod - 1]
         /\ T.create \in [Slots -> Nat]
         /\ T.delete \in [Slots -> Nat]
         /\ T.data \in [Slots -> Rows \cup {ZeroRow}]
         /\ T.free_slots \in [Slots -> Slots]
         /\ T.free_slot_count \in 0 .. MaxRecords
         /\ T.free_slot_count \in Int
         /\ T.record_count \in Int
         /\ T.max_pk \in Nat
         /\ T.low_power_mode \in BOOLEAN
  BY SizesAssumption, SMTT(30) DEF TableType

\* The version of a slot stays a VersionMod-bit number (u16 in the code).
LEMMA BumpType ==
  ASSUME NEW T \in TableType, NEW s \in Slots
  PROVE  Bump(T.version[s]) \in 0 .. VersionMod - 1
<1>1. T.version[s] \in 0 .. VersionMod - 1
  BY Fields
<1>2. QED
  BY <1>1, SizesAssumption, SMTT(30) DEF Bump

\* Writing a record into a slot changes its status, version and data only.
LEMMA PutRowEffect ==
  ASSUME NEW T \in TableType, NEW s \in Slots, NEW row \in Rows
  PROVE  /\ PutRow(T, s, row) \in TableType
         /\ PutRow(T, s, row).free_slots = T.free_slots
         /\ PutRow(T, s, row).free_slot_count = T.free_slot_count
         /\ PutRow(T, s, row).status = [T.status EXCEPT ![s] = "Used"]
         /\ PutRow(T, s, row).low_power_mode = T.low_power_mode
  BY BumpType, Fields DEF PutRow, TableType

(***************************************************************************)
(* Synchronisation                                                         *)
(***************************************************************************)

SyncTypes == {"Full", "Incremental"}
RecordPart == [kind : {"row"}, slot : Slots, row : Rows \cup {ZeroRow}]
SnapshotPart == {HeadPart, EndPart} \cup RecordPart

Transfers == [from : HaNodes, no : Nat, type : SyncTypes, parts : Seq(SnapshotPart)]
DataFrames == [topic : {"begin", "chunk", "end"}, of : Transfers, at : Nat]
RequestFrames == [topic : {"request"}, type : SyncTypes]
SyncFrames == DataFrames \cup RequestFrames

SyncStates == {"Idle", "Syncing", "Synced", "Failed"}
Receivers == [state : SyncStates, own : SyncStates, some : BOOLEAN, data : Seq(SnapshotPart),
              expected : Nat, received : Nat, begin : SyncTypes \cup {"None"}]
Calls == [frame : SyncFrames \cup {NoFrame}, left : Int]

HaTypes ==
  /\ haSubs \in [HaNodes -> [Callbacks -> Int]]
  /\ haRecv \in [HaNodes -> Receivers]
  /\ haPeers \in [HaNodes -> SUBSET {"handler", "receiver"}]
  /\ haTable \in [HaNodes -> TableType]
  /\ haInbox \in [HaNodes -> Seq(SyncFrames)]
  /\ haTodo \in [HaNodes -> Calls]
  /\ haSending \in [HaNodes -> Seq(DataFrames)]
  /\ haMade \in [HaNodes -> Nat]
  /\ haFrom \in [HaNodes -> SUBSET Transfers]

\* The callbacks for begin and chunk are subscribed together, the one for
\* end no more often; a node with a subscription knows it is a receiver.
Subscriptions(n) ==
  /\ haSubs[n]["begin"] = haSubs[n]["chunk"] /\ haSubs[n]["end"] <= haSubs[n]["chunk"]
  /\ haSubs[n]["chunk"] > 0 => "receiver" \in haPeers[n]
  /\ haTodo[n].left > 0 =>
       /\ haTodo[n].frame # NoFrame
       /\ haTodo[n].frame \in DataFrames => haTodo[n].left <= haSubs[n]["chunk"]

\* What a master sends: a transfer it has begun, with a whole snapshot.
WholeSnapshot(parts) ==
  /\ Len(parts) >= 2 /\ parts[1] = HeadPart /\ parts[Len(parts)] = EndPart
  /\ \A j \in 2 .. Len(parts) - 1 : parts[j] \in RecordPart
  /\ \A j, k \in 2 .. Len(parts) - 1 : parts[j].slot = parts[k].slot => j = k

Begun(id) ==
  /\ id.no < haMade[id.from]
  /\ IF id.type = "Full" THEN WholeSnapshot(id.parts) ELSE id.parts = <<>>

Sent(f) ==
  f \in DataFrames =>
    /\ Begun(f.of) /\ f.at <= ChunkCount(f.of.parts) + 1
    /\ f = FrameAt(f.of, f.at)

Before(f, g) == f \in DataFrames /\ g \in DataFrames /\ f.of = g.of => f.at < g.at

Elements(seq) == {seq[i] : i \in DOMAIN seq}
Ordered(seq) == \A i, j \in DOMAIN seq : i < j => Before(seq[i], seq[j])
AllBefore(F, G) == \A f \in F, g \in G : Before(f, g)

\* The frames on their way to n, in the order in which n will hear them.
Calling(n) == IF haTodo[n].left > 0 THEN {haTodo[n].frame} ELSE {}
Arriving(n) == Elements(haInbox[n])
Leaving == UNION {Elements(haSending[m]) : m \in HaNodes}
UnderWay(n) == Calling(n) \cup Arriving(n) \cup Leaving

InOrder(n) ==
  /\ Ordered(haSending[n]) /\ Ordered(haInbox[n])
  /\ \A f \in Elements(haSending[n]) : f.of.from = n
  /\ AllBefore(Arriving(n), Leaving)
  /\ AllBefore(Calling(n), Arriving(n) \cup Leaving)

\* How far a receiver is in the only transfer it heard of: p is the position
\* of the last frame.
Matches(r, id, p) ==
  r.begin # "None" =>
    /\ r.begin = id.type /\ r.expected = ChunkCount(id.parts) /\ r.received <= p
    /\ r.received = p => r.data = SubSeq(id.parts, 1, ChunkEnd(id.parts, p))

Reached(n, id, p) ==
  /\ \A f \in UnderWay(n) : f \in DataFrames /\ f.of = id => f.at > p
  /\ Matches(haRecv[n], id, p)

Progress(n) ==
  haRecv[n].some /\ haSubs[n]["chunk"] <= 1 =>
    /\ haFrom[n] = {} => haRecv[n].data = <<>> /\ haRecv[n].begin = "None"
    /\ \A id \in haFrom[n] : haFrom[n] = {id} =>
         \E p \in 0 .. ChunkCount(id.parts) + 1 : Reached(n, id, p)

HaInv ==
  /\ HaTypes
  /\ \A n \in HaNodes :
       /\ Subscriptions(n) /\ InOrder(n) /\ Progress(n)
       /\ \A f \in UnderWay(n) : Sent(f)
       /\ \A id \in haFrom[n] : Begun(id)
----------------------------------------------------------------------------
(* Chunks and snapshots *)

\* The chunks of send_snapshot_chunks cut the data without gap or overlap.
LEMMA ChunkBounds ==
  ASSUME NEW L \in Nat
  PROVE  LET c == (L + HaChunk - 1) \div HaChunk IN c \in Nat /\ L <= c * HaChunk
<1> DEFINE c == (L + HaChunk - 1) \div HaChunk
<1>1. L + HaChunk - 1 \in Nat
  BY HaAssumption, SMTT(30)
<1>2. c \in Nat
  BY <1>1, HaAssumption, SMTT(30)
<1>3. \A a \in Nat, b \in Nat \ {0} : (a \div b) * b > a - b
  BY SMTT(30)
<1>4. c * HaChunk > (L + HaChunk - 1) - HaChunk /\ c * HaChunk \in Nat
  BY <1>1, <1>2, <1>3, HaAssumption, SMTT(30)
<1>5. QED
  BY <1>2, <1>4, HaAssumption, SMTT(30)

\* The last chunk ends where the data ends, and no chunk ends before the one
\* before it.
LEMMA ChunkEnds ==
  ASSUME NEW S, NEW parts \in Seq(S)
  PROVE  /\ ChunkCount(parts) \in Nat
         /\ ChunkEnd(parts, 0) = 0 /\ ChunkEnd(parts, ChunkCount(parts)) = Len(parts)
         /\ \A i \in Nat : ChunkEnd(parts, i) \in 0 .. Len(parts)
         /\ \A i \in Nat : ChunkEnd(parts, i) <= ChunkEnd(parts, i + 1)
<1>1. Len(parts) \in Nat
  BY SMTT(30)
<1>2. ChunkCount(parts) \in Nat /\ Len(parts) <= ChunkCount(parts) * HaChunk
  BY <1>1, ChunkBounds DEF ChunkCount
<1>3. \A i \in Nat : i * HaChunk \in Nat /\ i * HaChunk <= (i + 1) * HaChunk
  BY HaAssumption, SMTT(30)
<1>4. 0 * HaChunk = 0 /\ ChunkCount(parts) * HaChunk \in Nat
  BY <1>2, HaAssumption, SMTT(30)
<1>5. ChunkEnd(parts, 0) = 0 /\ ChunkEnd(parts, ChunkCount(parts)) = Len(parts)
  BY <1>1, <1>2, <1>4, SMTT(30) DEF ChunkEnd
<1>6. \A i \in Nat : ChunkEnd(parts, i) \in 0 .. Len(parts)
  BY <1>1, <1>3, SMTT(30) DEF ChunkEnd
<1>7. ASSUME NEW i \in Nat PROVE ChunkEnd(parts, i) <= ChunkEnd(parts, i + 1)
  <2>1. (i + 1) * HaChunk \in Nat
    BY HaAssumption, SMTT(30)
  <2> DEFINE x == i * HaChunk
             y == (i + 1) * HaChunk
  <2>2. x \in Nat /\ y \in Nat /\ x <= y
    BY <1>3, <2>1
  <2> HIDE DEF x, y
  <2>3. ChunkEnd(parts, i) = IF x < Len(parts) THEN x ELSE Len(parts)
    BY DEF ChunkEnd, x
  <2>4. ChunkEnd(parts, i + 1) = IF y < Len(parts) THEN y ELSE Len(parts)
    BY DEF ChunkEnd, y
  <2>5. QED
    BY <1>1, <2>2, <2>3, <2>4, SMTT(30)
<1>8. QED
  BY <1>2, <1>5, <1>6, <1>7

\* Two neighbouring pieces of a sequence make one.
LEMMA JoinedChunks ==
  ASSUME NEW S, NEW parts \in Seq(S), NEW a \in 0 .. Len(parts), NEW b \in a .. Len(parts)
  PROVE  SubSeq(parts, 1, a) \o SubSeq(parts, a + 1, b) = SubSeq(parts, 1, b)
<1> DEFINE A == SubSeq(parts, 1, a)
           B == SubSeq(parts, a + 1, b)
           C == SubSeq(parts, 1, b)
<1>1. /\ A \in Seq(S) /\ Len(A) = a /\ \A i \in 1 .. a : A[i] = parts[i]
      /\ B \in Seq(S) /\ Len(B) = b - a /\ \A i \in 1 .. b - a : B[i] = parts[a + i]
      /\ C \in Seq(S) /\ Len(C) = b /\ \A i \in 1 .. b : C[i] = parts[i]
  BY SMTT(30)
<1> HIDE DEF A, B, C
<1>2. A \o B \in Seq(S) /\ Len(A \o B) = b
  BY <1>1, SMTT(30)
<1>3. ASSUME NEW i \in 1 .. b PROVE (A \o B)[i] = C[i]
  <2>1. CASE i <= a
    <3>1. (A \o B)[i] = A[i] /\ i \in 1 .. a
      BY <1>1, <2>1, SMTT(30)
    <3>2. QED
      BY <1>1, <3>1
  <2>2. CASE i > a
    <3>1. i - a \in 1 .. b - a /\ a + (i - a) = i
      BY <2>2, SMTT(30)
    <3>2. (A \o B)[i] = B[i - a]
      BY <1>1, <2>2, SMTT(30)
    <3>3. QED
      BY <1>1, <3>1, <3>2
  <2>3. i <= a \/ i > a
    BY SMTT(30)
  <2>4. QED
    BY <2>1, <2>2, <2>3
<1>4. QED
  BY <1>1, <1>2, <1>3, SMTT(30) DEF A, B, C

\* Data grown by the next chunk.
LEMMA NextChunk ==
  ASSUME NEW S, NEW parts \in Seq(S), NEW i \in Nat
  PROVE  /\ SubSeq(parts, 1, ChunkEnd(parts, i)) \o ChunkData(parts, i + 1)
              = SubSeq(parts, 1, ChunkEnd(parts, i + 1))
         /\ ChunkData(parts, i + 1) \in Seq(S)
<1> DEFINE a == ChunkEnd(parts, i)
           b == ChunkEnd(parts, i + 1)
<1>1. a \in 0 .. Len(parts) /\ b \in a .. Len(parts) /\ (i + 1) - 1 = i
  <2>1. i + 1 \in Nat /\ Len(parts) \in Nat
    BY SMTT(30)
  <2>2. a \in 0 .. Len(parts) /\ b \in 0 .. Len(parts) /\ a <= b
    BY <2>1, ChunkEnds
  <2>3. QED
    BY <2>1, <2>2, SMTT(30)
<1> HIDE DEF a, b
<1>2. ChunkData(parts, i + 1) = SubSeq(parts, a + 1, b)
  BY <1>1 DEF ChunkData, a, b
<1>3. SubSeq(parts, 1, a) \o SubSeq(parts, a + 1, b) = SubSeq(parts, 1, b)
  BY <1>1, JoinedChunks
<1>4. SubSeq(parts, a + 1, b) \in Seq(S)
  BY <1>1, SMTT(30)
<1>5. QED
  BY <1>2, <1>3, <1>4 DEF a, b

\* The loop of create_database_snapshot over the slots.
IsRowLoop(f, T) ==
  f = [i \in 0 .. MaxRecords |->
         IF i = 0 THEN <<>>
         ELSE IF T.status[i - 1] = "Used" THEN Append(f[i - 1], RowPart(T, i - 1))
              ELSE f[i - 1]]

NextRow(T, j, A) == IF T.status[j - 1] = "Used" THEN Append(A, RowPart(T, j - 1)) ELSE A

\* What create_database_snapshot writes for a used slot.
LEMMA RowPartType ==
  ASSUME NEW T \in TableType, NEW s \in Slots
  PROVE  RowPart(T, s) \in RecordPart /\ RowPart(T, s).slot = s
  BY Fields DEF RowPart, RecordPart

\* The loop over the slots, unfolded.
LEMMA RowLoop ==
  ASSUME NEW T \in TableType
  PROVE  LET rows == CHOOSE f : IsRowLoop(f, T)
         IN  /\ rows[0] = <<>>
             /\ \A j \in 1 .. MaxRecords : rows[j] = NextRow(T, j, rows[j - 1])
<1> DEFINE X == Seq(RecordPart)
           g == [j \in 1 .. MaxRecords |-> [A \in X |-> NextRow(T, j, A)]]
           rows == CHOOSE f : IsRowLoop(f, T)
<1>0. MaxRecords \in Nat
  BY SizesAssumption
<1>1. g \in Rounds(X, MaxRecords)
  <2>1. ASSUME NEW j \in 1 .. MaxRecords, NEW A \in X PROVE NextRow(T, j, A) \in X
    <3>1. j - 1 \in Slots
      BY <1>0, SMTT(30) DEF Slots
    <3>2. RowPart(T, j - 1) \in RecordPart
      BY <3>1, RowPartType
    <3>3. QED
      BY <3>2, SMTT(30) DEF NextRow
  <2>2. QED
    BY <2>1 DEF Rounds
<1>2. \E f : IsLoop(f, X, MaxRecords, <<>>, g)
  <2>1. <<>> \in X
    BY SMTT(30)
  <2> HIDE DEF g, X
  <2>2. QED
    BY <1>0, <1>1, <2>1, Loop
<1>3. PICK f : IsLoop(f, X, MaxRecords, <<>>, g)
  BY <1>2
<1>4. IsRowLoop(f, T)
  <2>1. ASSUME NEW j \in 1 .. MaxRecords PROVE f[j] = NextRow(T, j, f[j - 1])
    <3>1. f[j - 1] \in X
      <4>1. j - 1 \in 0 .. MaxRecords
        BY <1>0, SMTT(30)
      <4>2. QED
        BY <1>3, <4>1 DEF IsLoop
    <3>2. QED
      BY <1>3, <3>1 DEF IsLoop
  <2> HIDE DEF X, g
  <2>2. \A j \in 0 .. MaxRecords : f[j] = IF j = 0 THEN <<>> ELSE NextRow(T, j, f[j - 1])
    BY <1>0, <1>3, <2>1, SMTT(30) DEF IsLoop
  <2>3. f = [j \in 0 .. MaxRecords |-> f[j]]
    BY <1>3 DEF IsLoop
  <2>4. QED
    BY <2>2, <2>3 DEF IsRowLoop, NextRow
<1>5. IsRowLoop(rows, T)
  BY <1>4
<1> HIDE DEF rows
<1>6. \A j \in 0 .. MaxRecords : rows[j] = IF j = 0 THEN <<>> ELSE NextRow(T, j, rows[j - 1])
  BY <1>5 DEF IsRowLoop, NextRow
<1>7. rows[0] = <<>> /\ \A j \in 1 .. MaxRecords : rows[j] = NextRow(T, j, rows[j - 1])
  BY <1>0, <1>6, SMTT(30)
<1>8. QED
  BY <1>7 DEF rows

\* Every record once.
OnceBelow(R, i) ==
  /\ R \in Seq(RecordPart)
  /\ \A j \in DOMAIN R : R[j].slot < i
  /\ \A j, k \in DOMAIN R : R[j].slot = R[k].slot => j = k

\* The loop writes every slot at most once.
LEMMA RowPartsOnce ==
  ASSUME NEW T \in TableType
  PROVE  OnceBelow(RowParts(T), MaxRecords)
<1> DEFINE rows == CHOOSE f : IsRowLoop(f, T)
           P == {i \in 0 .. MaxRecords : OnceBelow(rows[i], i)}
<1>0. MaxRecords \in Nat
  BY SizesAssumption
<1>1. RowParts(T) = rows[MaxRecords]
  BY DEF RowParts, IsRowLoop
<1>2. /\ rows[0] = <<>>
      /\ \A j \in 1 .. MaxRecords : rows[j] = NextRow(T, j, rows[j - 1])
  BY RowLoop
<1> HIDE DEF rows
<1>3. 0 \in P
  <2>1. OnceBelow(<<>>, 0)
    BY SMTT(30) DEF OnceBelow
  <2>2. 0 \in 0 .. MaxRecords
    BY <1>0, SMTT(30)
  <2>3. QED
    BY <1>2, <2>1, <2>2
<1>4. ASSUME NEW i \in 1 .. MaxRecords, i - 1 \in P PROVE i \in P
  <2> DEFINE A == rows[i - 1]
             x == RowPart(T, i - 1)
  <2>0. i \in 0 .. MaxRecords /\ i \in Int /\ i - 1 \in Slots
    BY <1>0, SMTT(30) DEF Slots
  <2>1. OnceBelow(A, i - 1)
    BY <1>4
  <2>2. x \in RecordPart /\ x.slot = i - 1
    BY <2>0, RowPartType
  <2>3. \A p \in RecordPart : p.slot \in Int
    BY <1>0, SMTT(30) DEF RecordPart, Slots
  <2>4. A \in Seq(RecordPart) /\ \A j \in 1 .. Len(A) : A[j] \in RecordPart
    BY <2>1, SMTT(30) DEF OnceBelow
  <2> HIDE DEF A, x
  <2>5. OnceBelow(A, i)
    BY <2>0, <2>1, <2>3, <2>4, SMTT(30) DEF OnceBelow
  <2>6. OnceBelow(Append(A, x), i)
    <3>1. /\ Append(A, x) \in Seq(RecordPart) /\ Len(Append(A, x)) = Len(A) + 1
          /\ \A j \in 1 .. Len(A) : Append(A, x)[j] = A[j]
          /\ Append(A, x)[Len(A) + 1] = x
      BY <2>2, <2>4, SMTT(30)
    <3>2. \A j \in 1 .. Len(A) : A[j].slot < i - 1 /\ A[j].slot \in Int
      BY <2>1, <2>3, <2>4, SMTT(30) DEF OnceBelow
    <3>3. \A j, k \in 1 .. Len(A) : A[j].slot = A[k].slot => j = k
      BY <2>1, <2>4, SMTT(30) DEF OnceBelow
    <3>4. DOMAIN Append(A, x) = 1 .. Len(A) + 1 /\ Len(A) \in Nat
      BY <2>4, <3>1, SMTT(30)
    <3>5. \A j \in 1 .. Len(A) + 1 : j \in 1 .. Len(A) \/ j = Len(A) + 1
      BY <3>4, SMTT(30)
    <3>6. \A j \in DOMAIN Append(A, x) : Append(A, x)[j].slot < i
      BY <2>0, <2>2, <3>1, <3>2, <3>4, <3>5, SMTT(30)
    <3>7. \A j, k \in DOMAIN Append(A, x) :
             Append(A, x)[j].slot = Append(A, x)[k].slot => j = k
      BY <2>0, <2>2, <3>1, <3>2, <3>3, <3>4, <3>5, SMTT(30)
    <3>8. QED
      BY <3>1, <3>6, <3>7 DEF OnceBelow
  <2>7. rows[i] = Append(A, x) \/ rows[i] = A
    BY <1>2 DEF NextRow, A, x
  <2>8. QED
    BY <2>0, <2>5, <2>6, <2>7
<1> HIDE DEF P
<1>5. 0 .. MaxRecords \subseteq P
  BY <1>0, <1>3, <1>4, LoopInduction
<1>6. MaxRecords \in P
  BY <1>0, <1>5, SMTT(30)
<1>7. QED
  BY <1>1, <1>6 DEF P

\* Two sequences over a set make a sequence over it.
LEMMA Concatenated ==
  ASSUME NEW S, NEW s \in Seq(S), NEW t \in Seq(S)
  PROVE  /\ s \o t \in Seq(S) /\ Len(s \o t) = Len(s) + Len(t)
         /\ \A i \in 1 .. Len(s) + Len(t) :
              (s \o t)[i] = IF i <= Len(s) THEN s[i] ELSE t[i - Len(s)]
  BY SMTT(30)

\* create_database_snapshot writes a snapshot that can be read back.
LEMMA SnapshotWhole ==
  ASSUME NEW T \in TableType
  PROVE  SnapshotOf(T) \in Seq(SnapshotPart) /\ WholeSnapshot(SnapshotOf(T))
<1> DEFINE R == RowParts(T)
           H == <<HeadPart>>
           E == <<EndPart>>
           S == H \o R \o E
           L == Len(R)
<1>1. /\ R \in Seq(RecordPart) /\ L \in Nat
      /\ \A j \in 1 .. L : R[j] \in RecordPart
      /\ \A j, k \in 1 .. L : R[j].slot = R[k].slot => j = k
  BY RowPartsOnce, SMTT(30) DEF OnceBelow
<1>2. /\ H \in Seq(SnapshotPart) /\ Len(H) = 1 /\ H[1] = HeadPart
      /\ E \in Seq(SnapshotPart) /\ Len(E) = 1 /\ E[1] = EndPart
      /\ R \in Seq(SnapshotPart)
  BY <1>1, SMTT(30) DEF SnapshotPart
<1>3. S = SnapshotOf(T)
  BY DEF SnapshotOf
<1> HIDE DEF R, H, E
<1>4. /\ H \o R \in Seq(SnapshotPart) /\ Len(H \o R) = L + 1
      /\ (H \o R)[1] = HeadPart
      /\ \A j \in 2 .. L + 1 : (H \o R)[j] = R[j - 1]
  <2>1. /\ H \o R \in Seq(SnapshotPart) /\ Len(H \o R) = Len(H) + L
        /\ \A j \in 1 .. Len(H) + L : (H \o R)[j] = IF j <= Len(H) THEN H[j] ELSE R[j - Len(H)]
    BY <1>2, Concatenated
  <2>2. QED
    BY <1>1, <1>2, <2>1, SMTT(30)
<1>5. /\ S \in Seq(SnapshotPart) /\ Len(S) = L + 2
      /\ S[1] = HeadPart /\ S[L + 2] = EndPart
      /\ \A j \in 2 .. L + 1 : S[j] = R[j - 1]
  BY <1>1, <1>2, <1>4, SMTT(30)
<1> HIDE DEF S, L
<1>6. Len(S) - 1 = L + 1 /\ Len(S) >= 2 /\ \A j \in 2 .. L + 1 : j - 1 \in 1 .. L /\ j \in Int
  BY <1>1, <1>5, SMTT(30)
<1>7. WholeSnapshot(S)
  <2>1. \A j \in 2 .. L + 1 : S[j] \in RecordPart
    BY <1>1, <1>5, <1>6
  <2>2. ASSUME NEW j \in 2 .. L + 1, NEW k \in 2 .. L + 1, S[j].slot = S[k].slot
        PROVE  j = k
    <3>1. j - 1 = k - 1
      BY <1>1, <1>5, <1>6, <2>2, SMTT(30)
    <3>2. QED
      BY <1>6, <3>1, SMTT(30)
  <2>3. QED
    BY <1>5, <1>6, <2>1, <2>2 DEF WholeSnapshot
<1>8. QED
  BY <1>3, <1>5, <1>7

\* apply_snapshot on one record.
LEMMA ApplyRecordEffect ==
  ASSUME NEW T \in TableType, NEW part \in RecordPart
  PROVE  LET N == ApplyRecord(T, part)
         IN  /\ N \in TableType
             /\ N.status = [T.status EXCEPT ![part.slot] = "Used"]
             /\ N.data = [T.data EXCEPT ![part.slot] = part.row]
<1> DEFINE s == part.slot
           row == part.row
           M == PutRow(T, s, row)
           N == ApplyRecord(T, part)
<1>1. s \in Slots /\ row \in Rows \cup {ZeroRow}
  BY DEF RecordPart
<1>2. /\ M \in TableType
      /\ M.status = [T.status EXCEPT ![s] = "Used"] /\ M.data = [T.data EXCEPT ![s] = row]
  BY <1>1, BumpType, Fields DEF PutRow, TableType
<1>3. N = [M EXCEPT !.record_count = IF T.status[s] = "Used" THEN M.record_count ELSE M.record_count + 1]
  BY DEF ApplyRecord
<1> HIDE DEF M, N, s, row
<1>4. M.record_count \in Int /\ M.record_count + 1 \in Int
  BY <1>2, Fields, SMTT(30)
<1>5. N \in TableType /\ N.status = M.status /\ N.data = M.data
  BY <1>2, <1>3, <1>4 DEF TableType
<1>6. QED
  BY <1>2, <1>5 DEF N, s, row

IsApplyLoop(f, T, parts, m) ==
  f = [i \in 0 .. m |-> IF i = 0 THEN T ELSE ApplyRecord(f[i - 1], parts[i + 1])]

\* The loop of apply_snapshot, unfolded.
LEMMA ApplyLoop ==
  ASSUME NEW T \in TableType, NEW parts, NEW m \in Nat,
         \A i \in 1 .. m : parts[i + 1] \in RecordPart
  PROVE  LET at == CHOOSE f : IsApplyLoop(f, T, parts, m)
         IN  /\ at[0] = T
             /\ \A j \in 1 .. m : at[j] = ApplyRecord(at[j - 1], parts[j + 1])
<1> DEFINE X == TableType
           g == [j \in 1 .. m |-> [A \in X |-> ApplyRecord(A, parts[j + 1])]]
           at == CHOOSE f : IsApplyLoop(f, T, parts, m)
<1>1. g \in Rounds(X, m)
  <2>1. \A j \in 1 .. m, A \in X : ApplyRecord(A, parts[j + 1]) \in X
    BY ApplyRecordEffect
  <2>2. QED
    BY <2>1 DEF Rounds
<1>2. \E f : IsLoop(f, X, m, T, g)
  <2> HIDE DEF g, X
  <2>1. T \in X
    BY DEF X
  <2>2. QED
    BY <1>1, <2>1, Loop
<1>3. PICK f : IsLoop(f, X, m, T, g)
  BY <1>2
<1>4. IsApplyLoop(f, T, parts, m)
  <2>1. ASSUME NEW j \in 1 .. m PROVE f[j] = ApplyRecord(f[j - 1], parts[j + 1])
    <3>1. f[j - 1] \in X
      <4>1. j - 1 \in 0 .. m
        BY SMTT(30)
      <4>2. QED
        BY <1>3, <4>1 DEF IsLoop
    <3>2. QED
      BY <1>3, <3>1 DEF IsLoop
  <2> HIDE DEF X, g
  <2>2. \A j \in 0 .. m : f[j] = IF j = 0 THEN T ELSE ApplyRecord(f[j - 1], parts[j + 1])
    BY <1>3, <2>1, SMTT(30) DEF IsLoop
  <2>3. f = [j \in 0 .. m |-> f[j]]
    BY <1>3 DEF IsLoop
  <2>4. QED
    BY <2>2, <2>3 DEF IsApplyLoop
<1>5. IsApplyLoop(at, T, parts, m)
  BY <1>4
<1> HIDE DEF at
<1>6. \A j \in 0 .. m : at[j] = IF j = 0 THEN T ELSE ApplyRecord(at[j - 1], parts[j + 1])
  BY <1>5 DEF IsApplyLoop
<1>7. at[0] = T /\ \A j \in 1 .. m : at[j] = ApplyRecord(at[j - 1], parts[j + 1])
  BY <1>6, SMTT(30)
<1>8. QED
  BY <1>7 DEF at

\* Each record in turn; a later one overwrites an earlier one only when it
\* has the same slot.
AllApplied(N, parts, m) ==
  (\A j, k \in 1 .. m : parts[j + 1].slot = parts[k + 1].slot => j = k)
    => \A j \in 1 .. m : /\ N.status[parts[j + 1].slot] = "Used"
                         /\ N.data[parts[j + 1].slot] = parts[j + 1].row

\* After m rounds of apply_snapshot the first m records are in the table.
LEMMA Applied ==
  ASSUME NEW T \in TableType, NEW parts, NEW m \in Nat,
         \A i \in 1 .. m : parts[i + 1] \in RecordPart
  PROVE  LET N == (CHOOSE f : IsApplyLoop(f, T, parts, m))[m]
         IN  N \in TableType /\ AllApplied(N, parts, m)
<1> DEFINE at == CHOOSE f : IsApplyLoop(f, T, parts, m)
           Apart == \A j, k \in 1 .. m : parts[j + 1].slot = parts[k + 1].slot => j = k
           Has(N, j) == /\ N.status[parts[j + 1].slot] = "Used"
                        /\ N.data[parts[j + 1].slot] = parts[j + 1].row
           P == {i \in 0 .. m : at[i] \in TableType /\ (Apart => \A j \in 1 .. i : Has(at[i], j))}
<1>1. at[0] = T /\ \A j \in 1 .. m : at[j] = ApplyRecord(at[j - 1], parts[j + 1])
  BY ApplyLoop, SMTT(30)
<1> HIDE DEF at
<1>2. 0 \in P
  BY <1>1, SMTT(30)
<1>3. ASSUME NEW i \in 1 .. m, i - 1 \in P PROVE i \in P
  <2> DEFINE A == at[i - 1]
             B == at[i]
             x == parts[i + 1]
  <2>0. i \in 0 .. m /\ i \in Int /\ x \in RecordPart
    BY SMTT(30)
  <2>1. A \in TableType /\ (Apart => \A j \in 1 .. i - 1 : Has(A, j))
    BY <1>3
  <2>2. B = ApplyRecord(A, x)
    BY <1>1
  <2> HIDE DEF A, B, x
  <2>3. /\ B \in TableType
        /\ B.status = [A.status EXCEPT ![x.slot] = "Used"]
        /\ B.data = [A.data EXCEPT ![x.slot] = x.row]
    BY <2>0, <2>1, <2>2, ApplyRecordEffect
  <2>4. x.slot \in Slots /\ \A j \in 1 .. m : parts[j + 1].slot \in Slots
    BY <2>0 DEF RecordPart
  <2>5. A.status \in [Slots -> {"Free", "Used"}] /\ A.data \in [Slots -> Rows \cup {ZeroRow}]
    BY <2>1, Fields
  <2>6. ASSUME Apart, NEW j \in 1 .. i PROVE Has(B, j)
    <3>1. CASE j = i
      BY <2>3, <2>4, <2>5, <3>1 DEF x
    <3>2. CASE j # i
      <4>1. j \in 1 .. i - 1 /\ j \in 1 .. m
        BY <2>0, <3>2, SMTT(30)
      <4>2. parts[j + 1].slot # x.slot
        BY <2>6, <3>2, <4>1 DEF x
      <4>3. Has(A, j)
        BY <2>1, <2>6, <4>1
      <4>4. QED
        BY <2>3, <2>4, <2>5, <4>1, <4>2, <4>3
    <3>3. QED
      BY <3>1, <3>2
  <2> HIDE DEF Apart, Has
  <2>7. Apart => \A j \in 1 .. i : Has(B, j)
    BY <2>6
  <2>8. QED
    BY <2>0, <2>3, <2>7 DEF B
<1> HIDE DEF P
<1>4. 0 .. m \subseteq P
  BY <1>2, <1>3, LoopInduction
<1>5. m \in P
  BY <1>4, SMTT(30)
<1>6. QED
  BY <1>5 DEF P, at, AllApplied

\* apply_snapshot reads the records up to the first end marker.
LEMMA ApplySnapshotEffect ==
  ASSUME NEW T \in TableType, NEW parts \in Seq(SnapshotPart), Readable(parts)
  PROVE  LET N == ApplySnapshot(T, parts)
         IN  /\ N \in TableType
             /\ WholeSnapshot(parts) =>
                  \A part \in RecordsIn(parts) : part.slot \in Used(N) /\ N.data[part.slot] = part.row
<1>1. CASE parts = <<>>
  <2>1. ApplySnapshot(T, parts) = T
    BY <1>1 DEF ApplySnapshot
  <2>2. ~WholeSnapshot(parts)
    BY <1>1, SMTT(30) DEF WholeSnapshot
  <2>3. QED
    BY <2>1, <2>2
<1>2. CASE parts # <<>>
  <2> DEFINE last == CHOOSE i \in Ends(parts) : \A j \in Ends(parts) : i <= j
             m == last - 2
             N == ApplySnapshot(T, parts)
  <2>0. /\ Len(parts) \in Nat /\ DOMAIN parts = 1 .. Len(parts)
        /\ \A i \in 1 .. Len(parts) : parts[i] \in SnapshotPart
    BY SMTT(30)
  <2>1. PICK e \in Ends(parts) : \A j \in 2 .. e : parts[j].kind # "head"
    BY <1>2 DEF Readable
  <2>2. Ends(parts) \subseteq 1 .. Len(parts) /\ Ends(parts) \subseteq Nat /\ Ends(parts) # {}
    BY <2>0, <2>1, SMTT(30) DEF Ends
  <2>3. \E i \in Ends(parts) : \A j \in Ends(parts) : i <= j
    BY <2>2, LeastNumber
  <2>4. last \in Ends(parts) /\ \A j \in Ends(parts) : last <= j
    BY <2>3
  <2>5. N = (CHOOSE f : IsApplyLoop(f, T, parts, last - 2))[last - 2]
    BY <1>2 DEF ApplySnapshot, IsApplyLoop
  <2> HIDE DEF last, N
  <2>6. parts[1].kind = "head" /\ parts[last].kind = "end" /\ last \in 1 .. Len(parts)
    BY <1>2, <2>0, <2>2, <2>4 DEF Readable, Ends
  <2>7. m \in Nat
    BY <2>0, <2>6, SMTT(30)
  <2>8. ASSUME NEW i \in 1 .. m PROVE parts[i + 1] \in RecordPart
    <3>1. i + 1 \in 2 .. e /\ i + 1 \in 1 .. Len(parts) /\ i + 1 < last
      BY <2>0, <2>1, <2>2, <2>4, <2>6, <2>7, SMTT(30)
    <3>2. parts[i + 1].kind # "head" /\ parts[i + 1] \in SnapshotPart
      BY <2>0, <2>1, <3>1
    <3>3. i + 1 \notin Ends(parts)
      BY <2>0, <2>2, <2>4, <3>1, SMTT(30)
    <3>4. parts[i + 1].kind # "end"
      BY <2>0, <3>1, <3>3 DEF Ends
    <3>5. QED
      BY <3>2, <3>4, SMTT(30) DEF SnapshotPart, HeadPart, EndPart
  <2>9. N \in TableType /\ AllApplied(N, parts, m)
    <3> HIDE DEF m
    <3>1. N = (CHOOSE f : IsApplyLoop(f, T, parts, m))[m]
      BY <2>5 DEF m
    <3>2. QED
      BY <2>7, <2>8, <3>1, Applied
  <2>10. ASSUME WholeSnapshot(parts), NEW part \in RecordsIn(parts)
         PROVE  part.slot \in Used(N) /\ N.data[part.slot] = part.row
    <3>1. /\ Len(parts) >= 2 /\ parts[1] = HeadPart /\ parts[Len(parts)] = EndPart
          /\ \A j \in 2 .. Len(parts) - 1 : parts[j] \in RecordPart
          /\ \A j, k \in 2 .. Len(parts) - 1 : parts[j].slot = parts[k].slot => j = k
      BY <2>10 DEF WholeSnapshot
    <3>2. HeadPart.kind = "head" /\ EndPart.kind = "end" /\ \A p \in RecordPart : p.kind = "row"
      BY DEF HeadPart, EndPart, RecordPart
    <3>3. last = Len(parts)
      <4>1. \A j \in 2 .. Len(parts) - 1 : parts[j].kind # "end"
        BY <3>1, <3>2
      <4>2. ~(last \in 2 .. Len(parts) - 1) /\ last # 1
        BY <2>6, <3>1, <3>2, <4>1
      <4>3. Len(parts) \in Nat /\ last \in 1 .. Len(parts)
        BY <2>0, <2>6
      <4>4. QED
        BY <4>2, <4>3, SMTT(30)
    <3>4. ASSUME NEW j \in 1 .. m, NEW k \in 1 .. m, parts[j + 1].slot = parts[k + 1].slot
          PROVE  j = k
      <4>1. j + 1 \in 2 .. Len(parts) - 1 /\ k + 1 \in 2 .. Len(parts) - 1
        BY <2>0, <3>3, SMTT(30)
      <4>2. j + 1 = k + 1
        BY <3>1, <3>4, <4>1
      <4>3. QED
        BY <4>2, SMTT(30)
    <3>5. PICK i \in DOMAIN parts : parts[i].kind = "row" /\ part = parts[i]
      BY DEF RecordsIn
    <3>6. i # 1 /\ i # Len(parts) /\ i \in 1 .. Len(parts)
      BY <2>0, <3>1, <3>2, <3>5
    <3>7. i - 1 \in 1 .. m /\ (i - 1) + 1 = i /\ i \in 2 .. Len(parts) - 1
      BY <2>0, <3>3, <3>6, SMTT(30)
    <3>8. \A j \in 1 .. m : /\ N.status[parts[j + 1].slot] = "Used"
                            /\ N.data[parts[j + 1].slot] = parts[j + 1].row
      BY <2>9, <3>4 DEF AllApplied
    <3>9. N.status[part.slot] = "Used" /\ N.data[part.slot] = part.row
      BY <3>5, <3>7, <3>8
    <3>10. part.slot \in Slots
      BY <3>1, <3>5, <3>7 DEF RecordPart
    <3>11. QED
      BY <3>9, <3>10 DEF Used
  <2>11. QED
    BY <2>9, <2>10 DEF N
<1>3. QED
  BY <1>1, <1>2

----------------------------------------------------------------------------
(* Types.  A slave's free stack may hold slots in use, so that only the    *)
(* types of the table's fields are kept, not what they say together.       *)

\* A write of the application keeps the type of a table.
LEMMA InsertRowType ==
  ASSUME NEW T \in TableType, NEW row \in Rows, NEW s \in InsertSlot(T)
  PROVE  InsertRow(T, s, row) \in TableType
<1> DEFINE P == PutRow(T, s, row)
           N == InsertRow(T, s, row)
<1>1. s \in Slots
  <2>1. CASE AtCapacity(T)
    BY <2>1 DEF InsertSlot, OldestSlot, Used
  <2>2. CASE ~AtCapacity(T)
    <3>0. T.free_slot_count # 0 /\ T.free_slot_count \in 0 .. MaxRecords
      BY <2>2, Fields DEF InsertSlot
    <3>1. T.free_slot_count - 1 \in Slots
      BY <3>0, SizesAssumption, SMTT(30) DEF Slots
    <3>2. QED
      BY <2>2, <3>1, Fields, SMTT(30) DEF InsertSlot
  <2>3. QED
    BY <2>1, <2>2
<1>2. P \in TableType /\ P.free_slot_count = T.free_slot_count
  BY <1>1, PutRowEffect
<1>3. Larger(P.max_pk, row.pk) \in Nat
  BY <1>2, Fields, PksAssumption DEF Larger, Rows
<1> DEFINE new == IF AtCapacity(T) THEN 0 ELSE 1
<1>4. N = [P EXCEPT !.max_pk = Larger(P.max_pk, row.pk),
                    !.free_slot_count = P.free_slot_count - new,
                    !.record_count = P.record_count + new]
  BY DEF InsertRow
<1>5. new \in Int /\ P.record_count + new \in Int
  BY <1>2, Fields, SMTT(30)
<1>6. P.free_slot_count - new \in 0 .. MaxRecords
  <2>1. CASE AtCapacity(T)
    BY <1>2, <2>1, Fields, SMTT(30)
  <2>2. CASE ~AtCapacity(T)
    <3>1. T.free_slot_count # 0
      BY <2>2 DEF InsertSlot
    <3>2. new = 1 /\ P.free_slot_count \in 0 .. MaxRecords
      BY <1>2, <2>2, Fields
    <3> HIDE DEF new, P
    <3>3. QED
      BY <1>2, <3>1, <3>2, SizesAssumption, SMTT(30)
  <2>3. QED
    BY <2>1, <2>2
<1> HIDE DEF P, new, N
<1>7. N \in TableType
  BY <1>2, <1>3, <1>4, <1>5, <1>6 DEF TableType
<1>8. QED
  BY <1>7 DEF N

\* So does a removal.
LEMMA DeleteRowType ==
  ASSUME NEW T \in TableType, NEW s \in Slots
  PROVE  DeleteRow(T, s) \in TableType
<1> DEFINE c == T.free_slot_count
           P == PushFree(T, s)
           N == DeleteRow(T, s)
<1>1. P \in TableType
  <2>1. CASE c < MaxRecords
    <3>1. c \in Slots /\ c + 1 \in 0 .. MaxRecords
      BY <2>1, Fields, SizesAssumption, SMTT(30) DEF Slots
    <3>2. P = [T EXCEPT !.free_slots[c] = s, !.free_slot_count = c + 1]
      BY <2>1 DEF PushFree
    <3>3. /\ T.free_slots \in [Slots -> Slots]
          /\ [T.free_slots EXCEPT ![c] = s] \in [Slots -> Slots]
      BY <3>1, Fields
    <3> HIDE DEF P, c
    <3>4. QED
      BY <3>1, <3>2, <3>3 DEF TableType
  <2>2. CASE ~(c < MaxRecords)
    BY <2>2 DEF PushFree
  <2>3. QED
    BY <2>1, <2>2
<1>2. N = [P EXCEPT !.status[s] = "Free", !.version[s] = Bump(P.version[s]),
                    !.data[s] = ZeroRow, !.record_count = P.record_count - 1]
  BY DEF DeleteRow
<1> HIDE DEF P, N
<1>3. Bump(P.version[s]) \in 0 .. VersionMod - 1 /\ P.record_count - 1 \in Int
  BY <1>1, BumpType, Fields, SMTT(30)
<1>4. N \in TableType
  BY <1>1, <1>2, <1>3, Fields DEF TableType
<1>5. QED
  BY <1>4 DEF N

\* The type of what a node holds.
LEMMA HaFields ==
  ASSUME HaTypes, NEW n \in HaNodes
  PROVE  /\ haSubs[n] \in [Callbacks -> Int] /\ haRecv[n] \in Receivers
         /\ haPeers[n] \in SUBSET {"handler", "receiver"} /\ haTable[n] \in TableType
         /\ haInbox[n] \in Seq(SyncFrames) /\ haTodo[n] \in Calls
         /\ haSending[n] \in Seq(DataFrames)
         /\ haMade[n] \in Nat /\ haFrom[n] \in SUBSET Transfers
  BY DEF HaTypes

\* The fields of a receiver.
LEMMA ReceiverFields ==
  ASSUME NEW r \in Receivers
  PROVE  /\ r.state \in SyncStates /\ r.own \in SyncStates /\ r.some \in BOOLEAN
         /\ r.data \in Seq(SnapshotPart) /\ r.expected \in Nat /\ r.received \in Nat
         /\ r.begin \in SyncTypes \cup {"None"}
  BY DEF Receivers

\* The fields of a transfer.
LEMMA TransferFields ==
  ASSUME NEW id \in Transfers
  PROVE  /\ id.from \in HaNodes /\ id.no \in Nat /\ id.type \in SyncTypes
         /\ id.parts \in Seq(SnapshotPart)
  BY DEF Transfers

\* The topic of a frame tells its kind.
LEMMA FrameKinds ==
  ASSUME NEW c \in Calls
  PROVE  /\ c.left \in Int /\ c.frame \in SyncFrames \cup {NoFrame}
         /\ c.frame.topic = "request" => c.frame \in RequestFrames /\ c.frame.type \in SyncTypes
         /\ c.frame.topic \in {"begin", "chunk", "end"} =>
              c.frame \in DataFrames /\ c.frame.of \in Transfers /\ c.frame.at \in Nat
         /\ c.frame \in DataFrames => c.frame.topic \in {"begin", "chunk", "end"}
  BY SMTT(30) DEF Calls, SyncFrames, DataFrames, RequestFrames, NoFrame

\* A request is no frame of a transfer.
LEMMA RequestIsFrame ==
  ASSUME NEW type \in SyncTypes
  PROVE  Request(type) \in SyncFrames /\ Request(type) \notin DataFrames
  BY DEF Request, SyncFrames, RequestFrames, DataFrames

\* The frames of a transfer, from begin to end.
LEMMA FramesAre ==
  ASSUME NEW id \in Transfers
  PROVE  /\ Frames(id) \in Seq(DataFrames)
         /\ Len(Frames(id)) = ChunkCount(id.parts) + 2
         /\ \A i \in DOMAIN Frames(id) :
              /\ i - 1 \in 0 .. ChunkCount(id.parts) + 1
              /\ Frames(id)[i] = FrameAt(id, i - 1)
              /\ Frames(id)[i].of = id /\ Frames(id)[i].at = i - 1
<1> DEFINE c == ChunkCount(id.parts)
<1>1. c \in Nat
  BY TransferFields, ChunkEnds
<1>2. \A i \in Nat : /\ FrameAt(id, i) \in DataFrames
                     /\ FrameAt(id, i).of = id /\ FrameAt(id, i).at = i
  BY DEF FrameAt, DataFrames
<1>3. Frames(id) = [i \in 1 .. c + 2 |-> FrameAt(id, i - 1)]
  BY DEF Frames
<1> HIDE DEF c
<1>4. c + 2 \in Nat /\ \A i \in 1 .. c + 2 : i - 1 \in 0 .. c + 1 /\ i - 1 \in Nat
  BY <1>1, SMTT(30)
<1>5. Frames(id) \in Seq(DataFrames) /\ Len(Frames(id)) = c + 2 /\ DOMAIN Frames(id) = 1 .. c + 2
  BY <1>2, <1>3, <1>4, SMTT(30)
<1>6. QED
  BY <1>2, <1>3, <1>4, <1>5, SMTT(30) DEF c

\* publish appends the frame to some inboxes and leaves the others alone.
LEMMA HaSendEffect ==
  ASSUME NEW F, NEW frame \in F, haInbox \in [HaNodes -> Seq(F)], HaSend(frame)
  PROVE  /\ haInbox' \in [HaNodes -> Seq(F)]
         /\ \A n \in HaNodes : haInbox'[n] = haInbox[n] \/ haInbox'[n] = Append(haInbox[n], frame)
  BY SMTT(30) DEF HaSend

----------------------------------------------------------------------------
(* Subscriptions *)

\* subscribe adds at most one to one callback.
LEMMA OneSubscribed ==
  ASSUME NEW S \in [Callbacks -> Int], NEW c \in {"begin", "chunk", "end"}
  PROVE  /\ Refused(S, c) <=> S[c] >= HaMaxSubs
         /\ ~Refused(S, c) => Subscribed(S, c) = [S EXCEPT ![c] = @ + 1]
         /\ Refused(S, c) => Subscribed(S, c) = S
<1>1. OnTopic(c) = {c}
  BY DEF OnTopic
<1>2. SubsOn(S, c) = S[c] /\ S[c] \in Int
  BY <1>1 DEF SubsOn, Callbacks
<1>3. QED
  BY <1>2, HaAssumption, SMTT(30) DEF Refused, Subscribed

\* SyncReceiver::init subscribes all three callbacks or none.
LEMMA ReceiverInitEffect ==
  ASSUME NEW S \in [Callbacks -> Int], S["begin"] = S["chunk"], S["end"] <= S["chunk"]
  PROVE  LET h == ReceiverInit(S)
         IN  \/ ~h.ok /\ h.subs = S
             \/ /\ h.ok /\ h.subs \in [Callbacks -> Int]
                /\ h.subs["begin"] = S["begin"] + 1 /\ h.subs["chunk"] = S["chunk"] + 1
                /\ h.subs["end"] = S["end"] + 1
<1> DEFINE S1 == Subscribed(S, "begin")
           S2 == Subscribed(S1, "chunk")
           S3 == Subscribed(S2, "end")
           h == ReceiverInit(S)
<1>1. CASE Refused(S, "begin")
  <2>1. h = [ok |-> FALSE, subs |-> S]
    BY <1>1 DEF ReceiverInit
  <2>2. QED
    BY <2>1, SMTT(30)
<1>2. CASE ~Refused(S, "begin")
  <2>0. {"begin", "chunk", "end"} \subseteq Callbacks
    BY DEF Callbacks
  <2>1. S1 = [S EXCEPT !["begin"] = @ + 1] /\ S["begin"] < HaMaxSubs
    BY <1>2, <2>0, OneSubscribed, HaAssumption, SMTT(30)
  <2>2. S1 \in [Callbacks -> Int] /\ S1["chunk"] = S["chunk"] /\ S1["end"] = S["end"]
        /\ S1["begin"] = S["begin"] + 1
    BY <2>0, <2>1, SMTT(30)
  <2>3. ~Refused(S1, "chunk")
    BY <2>0, <2>1, <2>2, OneSubscribed, HaAssumption, SMTT(30)
  <2>4. S2 = [S1 EXCEPT !["chunk"] = @ + 1]
    BY <2>2, <2>3, OneSubscribed
  <2> HIDE DEF S1
  <2>5. /\ S2 \in [Callbacks -> Int] /\ S2["chunk"] = S["chunk"] + 1 /\ S2["end"] = S["end"]
        /\ S2["begin"] = S["begin"] + 1
    BY <2>0, <2>2, <2>4
  <2> HIDE DEF S2
  <2>6. ~Refused(S2, "end")
    <3>1. S["begin"] \in Int /\ S["chunk"] \in Int /\ S["end"] \in Int
      BY <2>0
    <3>2. ~(S2["end"] >= HaMaxSubs)
      BY <2>1, <2>5, <3>1, HaAssumption, SMTT(30)
    <3>3. QED
      BY <2>5, <3>2, OneSubscribed
  <2>7. S3 = [S2 EXCEPT !["end"] = @ + 1]
    BY <2>5, <2>6, OneSubscribed
  <2>8. /\ S3 \in [Callbacks -> Int] /\ S3["chunk"] = S["chunk"] + 1 /\ S3["end"] = S["end"] + 1
        /\ S3["begin"] = S["begin"] + 1
    BY <2>0, <2>5, <2>7, SMTT(30)
  <2> HIDE DEF S3
  <2>9. h.ok /\ h.subs = S3
    BY <1>2, <2>3, <2>6 DEF ReceiverInit, S1, S2, S3
  <2>10. QED
    BY <2>8, <2>9
<1>3. QED
  BY <1>1, <1>2

\* init_master leaves the callbacks of a receiver alone.
LEMMA HandlerSubscribed ==
  ASSUME NEW S \in [Callbacks -> Int], NEW c \in {"slave_ack", "request"}
  PROVE  /\ Subscribed(S, c) \in [Callbacks -> Int]
         /\ \A d \in {"begin", "chunk", "end"} : Subscribed(S, c)[d] = S[d]
  BY SMTT(30) DEF Subscribed, Callbacks

RoleTaken(x, n) ==
  /\ x.subs \in [Callbacks -> Int] /\ x.peers \in SUBSET {"handler", "receiver"}
  /\ x.subs["begin"] = x.subs["chunk"] /\ x.subs["end"] <= x.subs["chunk"]
  /\ x.subs["chunk"] >= haSubs[n]["chunk"]
  /\ x.subs["chunk"] > 0 => "receiver" \in x.peers

\* init_master and init_slave never end a subscription.
LEMMA RolesTaken ==
  ASSUME HaTypes, NEW n \in HaNodes, Subscriptions(n)
  PROVE  RoleTaken(AsMaster(n), n) /\ RoleTaken(AsSlave(n), n)
<1> DEFINE S == haSubs[n]
<1>1. S \in [Callbacks -> Int] /\ haPeers[n] \in SUBSET {"handler", "receiver"}
  BY HaFields
<1>2. /\ S["begin"] = S["chunk"] /\ S["end"] <= S["chunk"]
      /\ S["chunk"] > 0 => "receiver" \in haPeers[n]
  BY DEF Subscriptions
<1>3. S["chunk"] \in Int /\ S["end"] \in Int /\ S["begin"] \in Int
  BY <1>1 DEF Callbacks
<1>4. RoleTaken(AsMaster(n), n)
  <2> DEFINE A == Subscribed(S, "slave_ack")
             B == Subscribed(A, "request")
             x == AsMaster(n)
  <2>1. B \in [Callbacks -> Int] /\ \A d \in {"begin", "chunk", "end"} : B[d] = S[d]
    BY <1>1, HandlerSubscribed, SMTT(30)
  <2>2. /\ x.subs = B
        /\ x.peers = haPeers[n] \/ x.peers = haPeers[n] \cup {"handler"}
    BY DEF AsMaster, HandlerInit
  <2> HIDE DEF A, B, x, S
  <2>3. RoleTaken(x, n)
    BY <1>1, <1>2, <1>3, <2>1, <2>2, SMTT(30) DEF RoleTaken, S
  <2>4. QED
    BY <2>3 DEF x
<1>5. RoleTaken(AsSlave(n), n)
  <2> DEFINE h == ReceiverInit(S)
             x == AsSlave(n)
  <2>1. \/ ~h.ok /\ h.subs = S
        \/ /\ h.ok /\ h.subs \in [Callbacks -> Int]
           /\ h.subs["begin"] = S["begin"] + 1 /\ h.subs["chunk"] = S["chunk"] + 1
           /\ h.subs["end"] = S["end"] + 1
    BY <1>1, <1>2, ReceiverInitEffect
  <2>2. /\ x.subs = h.subs
        /\ x.peers = IF h.ok THEN haPeers[n] \cup {"receiver"} ELSE haPeers[n]
    BY DEF AsSlave
  <2> HIDE DEF h, x, S
  <2>3. RoleTaken(x, n)
    BY <1>1, <1>2, <1>3, <2>1, <2>2, SMTT(30) DEF RoleTaken, S
  <2>4. QED
    BY <2>3 DEF x
<1>6. QED
  BY <1>4, <1>5

----------------------------------------------------------------------------
(* The types are kept *)

\* The type of the calls still to be made.
LEMMA CalledType ==
  ASSUME HaTypes, NEW n \in HaNodes, Called(n)
  PROVE  /\ haTodo' \in [HaNodes -> Calls]
         /\ \A m \in HaNodes : m # n => haTodo'[m] = haTodo[m]
         /\ haTodo'[n] = IF haTodo[n].left = 1 THEN [frame |-> NoFrame, left |-> 0]
                         ELSE [frame |-> haTodo[n].frame, left |-> haTodo[n].left - 1]
<1> DEFINE new == IF haTodo[n].left = 1 THEN [frame |-> NoFrame, left |-> 0]
                  ELSE [frame |-> haTodo[n].frame, left |-> haTodo[n].left - 1]
<1>1. haTodo \in [HaNodes -> Calls] /\ haTodo[n] \in Calls
  BY DEF HaTypes
<1>2. new \in Calls
  BY <1>1, SMTT(30) DEF Calls
<1>3. haTodo' = [haTodo EXCEPT ![n] = new]
  BY <1>1 DEF Called
<1> HIDE DEF new
<1>4. /\ haTodo' \in [HaNodes -> Calls] /\ haTodo'[n] = new
      /\ \A m \in HaNodes : m # n => haTodo'[m] = haTodo[m]
  BY <1>1, <1>2, <1>3
<1>5. QED
  BY <1>4 DEF new

\* What a call of a receiver's callback does to the statics.
LEMMA BeginType ==
  ASSUME HaTypes, NEW n \in HaNodes, HandleBegin(n)
  PROVE  /\ haRecv' \in [HaNodes -> Receivers] /\ haFrom' \in [HaNodes -> SUBSET Transfers]
         /\ haRecv'[n].begin = haTodo[n].frame.of.type /\ haRecv'[n].received = 0
         /\ haRecv'[n].expected = ChunkCount(haTodo[n].frame.of.parts)
         /\ haRecv'[n].data = haRecv[n].data /\ haRecv'[n].some = haRecv[n].some
         /\ haRecv'[n].state = haRecv[n].state
<1> DEFINE f == haTodo[n].frame
           r == haRecv[n]
           q == [r EXCEPT !.begin = f.of.type, !.received = 0, !.expected = ChunkCount(f.of.parts)]
<1>1. f \in DataFrames /\ f.of \in Transfers
  BY HaFields, FrameKinds DEF HandleBegin
<1>2. f.of.type \in SyncTypes /\ ChunkCount(f.of.parts) \in Nat
  BY <1>1, TransferFields, ChunkEnds
<1>3. r \in Receivers /\ haRecv \in [HaNodes -> Receivers] /\ haFrom \in [HaNodes -> SUBSET Transfers]
  BY HaFields DEF HaTypes
<1>4. haRecv' = [haRecv EXCEPT ![n] = q] /\ haFrom' = [haFrom EXCEPT ![n] = @ \cup {f.of}]
  BY <1>3 DEF HandleBegin
<1> HIDE DEF f, r
<1>5. /\ q \in Receivers /\ q.begin = f.of.type /\ q.received = 0
      /\ q.expected = ChunkCount(f.of.parts) /\ q.data = r.data /\ q.some = r.some
      /\ q.state = r.state
  BY <1>2, <1>3 DEF Receivers
<1> HIDE DEF q
<1>6. haRecv' \in [HaNodes -> Receivers] /\ haRecv'[n] = q
  BY <1>3, <1>4, <1>5
<1>7. haFrom' \in [HaNodes -> SUBSET Transfers]
  BY <1>1, <1>3, <1>4
<1>8. QED
  BY <1>5, <1>6, <1>7 DEF f, r

\* handle_sync_chunk_callback keeps the types.
LEMMA ChunkType ==
  ASSUME HaTypes, NEW n \in HaNodes, HandleChunk(n), haTodo[n].frame.at > 0
  PROVE  LET f == haTodo[n].frame IN
         /\ haRecv' \in [HaNodes -> Receivers] /\ haFrom' \in [HaNodes -> SUBSET Transfers]
         /\ haRecv'[n].begin = haRecv[n].begin /\ haRecv'[n].received = haRecv[n].received + 1
         /\ haRecv'[n].expected = haRecv[n].expected /\ haRecv'[n].some = haRecv[n].some
         /\ haRecv[n].some => haRecv'[n].data = haRecv[n].data \o ChunkData(f.of.parts, f.at)
         /\ haRecv'[n].state = haRecv[n].state
<1> DEFINE f == haTodo[n].frame
           r == haRecv[n]
           d == ChunkData(f.of.parts, f.at)
           q == [r EXCEPT !.received = r.received + 1, !.data = IF r.some THEN r.data \o d ELSE r.data]
<1>1. f \in DataFrames /\ f.of \in Transfers /\ f.at \in Nat /\ f.at > 0
  BY HaFields, FrameKinds DEF HandleChunk
<1>2. d \in Seq(SnapshotPart)
  <2>1. f.at - 1 \in Nat /\ (f.at - 1) + 1 = f.at /\ f.of.parts \in Seq(SnapshotPart)
    BY <1>1, TransferFields, SMTT(30)
  <2>2. \A i \in Nat : ChunkData(f.of.parts, i + 1) \in Seq(SnapshotPart)
    BY <2>1, NextChunk
  <2>3. QED
    BY <2>1, <2>2
<1>3. r \in Receivers /\ haRecv \in [HaNodes -> Receivers] /\ haFrom \in [HaNodes -> SUBSET Transfers]
  BY HaFields DEF HaTypes
<1>4. haRecv' = [haRecv EXCEPT ![n] = q] /\ haFrom' = [haFrom EXCEPT ![n] = @ \cup {f.of}]
  BY <1>3 DEF HandleChunk
<1> HIDE DEF f, r, d
<1>5. r.data \in Seq(SnapshotPart) /\ r.received \in Nat
  BY <1>3, ReceiverFields
<1>6. r.data \o d \in Seq(SnapshotPart) /\ r.received + 1 \in Nat
  BY <1>2, <1>5, SMTT(30)
<1>7. /\ q \in Receivers /\ q.begin = r.begin /\ q.received = r.received + 1
      /\ q.expected = r.expected /\ q.some = r.some /\ q.state = r.state
      /\ r.some => q.data = r.data \o d
  BY <1>3, <1>5, <1>6 DEF Receivers
<1> HIDE DEF q
<1>8. haRecv' \in [HaNodes -> Receivers] /\ haRecv'[n] = q
  BY <1>3, <1>4, <1>7
<1>9. haFrom' \in [HaNodes -> SUBSET Transfers]
  BY <1>1, <1>3, <1>4
<1>10. QED
  BY <1>7, <1>8, <1>9 DEF f, r, d

\* The three outcomes of handle_sync_end_callback.
Counted(n) ==
  /\ haRecv[n].received = haRecv[n].expected
  /\ ChunkCount(haTodo[n].frame.of.parts) = haRecv[n].expected

Taken(r, state) == [r EXCEPT !.some = FALSE, !.data = <<>>, !.begin = "None", !.state = state]

Gathered(n) == IF haRecv[n].some THEN haRecv[n].data ELSE <<>>

\* A receiver whose data was taken.
LEMMA TakenType ==
  ASSUME NEW r \in Receivers, NEW state \in SyncStates
  PROVE  Taken(r, state) \in Receivers
<1>1. <<>> \in Seq(SnapshotPart)
  BY SMTT(30)
<1>2. QED
  BY <1>1 DEF Taken, Receivers

\* What handle_sync_end_callback does, chunks counted or not.
LEMMA EndEffect ==
  ASSUME HaTypes, NEW n \in HaNodes, HandleEnd(n)
  PROVE  LET r == haRecv[n]
             T == haTable[n]
         IN  /\ haFrom' = [haFrom EXCEPT ![n] = @ \cup {haTodo[n].frame.of}]
             /\ \/ /\ ~Counted(n)
                   /\ haRecv' = [haRecv EXCEPT ![n] = [r EXCEPT !.state = "Failed"]]
                   /\ haSubs' = [haSubs EXCEPT ![n]["end"] = @ - 1] /\ haTable' = haTable
                \/ /\ Counted(n) /\ haSubs' = haSubs
                   /\ \E state \in SyncStates :
                        /\ haRecv' = [haRecv EXCEPT ![n] = Taken(r, state)]
                        /\ state = "Synced" => r.begin # "None"
                   /\ \E N \in TableType :
                        /\ haTable' = [haTable EXCEPT ![n] = N]
                        /\ r.begin = "Full" /\ Readable(Gathered(n)) => N = ApplySnapshot(T, Gathered(n))
<1> DEFINE f == haTodo[n].frame
           r == haRecv[n]
           T == haTable[n]
           d == Gathered(n)
           taken == [r EXCEPT !.some = FALSE, !.data = <<>>, !.begin = "None"]
           Set(x) == haRecv' = [haRecv EXCEPT ![n] = x]
<1>0. /\ r \in Receivers /\ T \in TableType /\ haTable \in [HaNodes -> TableType]
      /\ haTable = [haTable EXCEPT ![n] = T]
  BY HaFields DEF HaTypes
<1>1. haFrom' = [haFrom EXCEPT ![n] = @ \cup {f.of}]
  BY DEF HandleEnd
<1>2. \A state : [taken EXCEPT !.state = state] = Taken(r, state)
  BY <1>0 DEF Taken, Receivers
<1>3. \/ /\ ~Counted(n) /\ Set([r EXCEPT !.state = "Failed"])
         /\ haSubs' = [haSubs EXCEPT ![n]["end"] = @ - 1] /\ haTable' = haTable
      \/ /\ Counted(n) /\ haSubs' = haSubs
         /\ \/ r.begin = "None" /\ Set([taken EXCEPT !.state = "Failed"]) /\ haTable' = haTable
            \/ r.begin = "Incremental" /\ Set([taken EXCEPT !.state = "Synced"]) /\ haTable' = haTable
            \/ /\ r.begin = "Full" /\ Set([taken EXCEPT !.state = "Synced"])
               /\ Readable(d) /\ haTable' = [haTable EXCEPT ![n] = ApplySnapshot(T, d)]
            \/ /\ r.begin = "Full" /\ ~Readable(d)
               /\ \E state \in {"Synced", "Failed"} : Set([taken EXCEPT !.state = state])
               /\ \E s \in Slots, row \in Rows :
                    haTable' \in {haTable, [haTable EXCEPT ![n] =
                                   ApplyRecord(T, [kind |-> "row", slot |-> s, row |-> row])]}
  BY DEF HandleEnd, Counted, Gathered
<1> HIDE DEF f, taken, Set
<1>4. CASE ~Counted(n)
  BY <1>1, <1>3, <1>4 DEF Set, f
<1>5. CASE Counted(n)
  <2>1. haSubs' = haSubs
    BY <1>3, <1>5
  <2>2. \E state \in SyncStates : /\ Set(Taken(r, state))
                                  /\ state = "Synced" => r.begin # "None"
    <3>1. {"Synced", "Failed"} \subseteq SyncStates
      BY DEF SyncStates
    <3>2. QED
      BY <1>2, <1>3, <1>5, <3>1, SMTT(30)
  <2>3. d \in Seq(SnapshotPart)
    BY <1>0, ReceiverFields, SMTT(30) DEF Gathered
  <2>4. \E N \in TableType :
          /\ haTable' = [haTable EXCEPT ![n] = N]
          /\ r.begin = "Full" /\ Readable(d) => N = ApplySnapshot(T, d)
    <3>1. CASE r.begin # "Full" /\ haTable' = haTable
      BY <1>0, <3>1
    <3>2. CASE /\ r.begin = "Full" /\ Readable(d)
               /\ haTable' = [haTable EXCEPT ![n] = ApplySnapshot(T, d)]
      <4>1. ApplySnapshot(T, d) \in TableType
        BY <1>0, <2>3, <3>2, ApplySnapshotEffect
      <4>2. QED
        BY <3>2, <4>1
    <3>3. CASE /\ ~Readable(d)
               /\ \E s \in Slots, row \in Rows :
                    haTable' \in {haTable, [haTable EXCEPT ![n] =
                                   ApplyRecord(T, [kind |-> "row", slot |-> s, row |-> row])]}
      <4>1. PICK s \in Slots, row \in Rows :
                    haTable' \in {haTable, [haTable EXCEPT ![n] =
                                   ApplyRecord(T, [kind |-> "row", slot |-> s, row |-> row])]}
        BY <3>3
      <4>2. [kind |-> "row", slot |-> s, row |-> row] \in RecordPart
        BY DEF RecordPart
      <4>3. ApplyRecord(T, [kind |-> "row", slot |-> s, row |-> row]) \in TableType
        BY <1>0, <4>2, ApplyRecordEffect
      <4>4. QED
        BY <1>0, <3>3, <4>1, <4>3
    <3>4. QED
      BY <1>3, <1>5, <3>1, <3>2, <3>3
  <2>5. QED
    BY <1>1, <1>5, <2>1, <2>2, <2>4 DEF Set, f
<1>6. QED
  BY <1>4, <1>5

\* The position of a frame in its transfer follows from its topic.
LEMMA Positions ==
  ASSUME NEW f \in DataFrames, Sent(f)
  PROVE  /\ Begun(f.of) /\ ChunkCount(f.of.parts) \in Nat /\ f.at \in Nat
         /\ f.topic = "begin" => f.at = 0
         /\ f.topic = "chunk" => f.at > 0 /\ f.at <= ChunkCount(f.of.parts)
         /\ f.topic = "end" => f.at = ChunkCount(f.of.parts) + 1
<1>1. f.of \in Transfers /\ f.at \in Nat
  BY DEF DataFrames
<1>2. ChunkCount(f.of.parts) \in Nat
  BY <1>1, TransferFields, ChunkEnds
<1>3. Begun(f.of) /\ f.at <= ChunkCount(f.of.parts) + 1 /\ f = FrameAt(f.of, f.at)
  BY DEF Sent
<1>4. f.topic = IF f.at = 0 THEN "begin" ELSE IF f.at > ChunkCount(f.of.parts) THEN "end" ELSE "chunk"
  <2> DEFINE id == f.of
             i == f.at
  <2> HIDE DEF id, i
  <2>1. FrameAt(id, i).topic = IF i = 0 THEN "begin" ELSE IF i > ChunkCount(id.parts) THEN "end" ELSE "chunk"
    BY DEF FrameAt
  <2>2. f = FrameAt(id, i)
    BY <1>3 DEF id, i
  <2>3. QED
    BY <2>1, <2>2 DEF id, i
<1>5. QED
  BY <1>1, <1>2, <1>3, <1>4, SMTT(30)

\* The frame a callback is called for.
LEMMA CalledFrame ==
  ASSUME HaInv, NEW n \in HaNodes, haTodo[n].left > 0,
         haTodo[n].frame.topic \in {"begin", "chunk", "end"}
  PROVE  LET f == haTodo[n].frame
         IN  f \in DataFrames /\ f \in UnderWay(n) /\ Sent(f) /\ f.of \in Transfers
<1>1. haTodo[n] \in Calls
  BY HaFields DEF HaInv
<1>2. haTodo[n].frame \in UnderWay(n)
  BY DEF UnderWay, Calling
<1>3. QED
  BY <1>1, <1>2, FrameKinds DEF HaInv

RoleAs(n) == IF haRole[n] = "Auto" \/ haRole[n] = "Master" THEN AsMaster(n) ELSE AsSlave(n)

\* The part of an action that takes a role.
LEMMA InitNodeEffect ==
  ASSUME NEW n \in HaNodes, HaInitNode(n)
  PROVE  /\ Keep(n, RoleAs(n))
         /\ UNCHANGED haInbox \/ HaSend(Request("Full"))
         /\ UNCHANGED <<haRecv, haTable, haTodo, haSending, haMade, haFrom>>
<1> DEFINE role == IF haRole[n] = "Auto" THEN "Master" ELSE haRole[n]
           x == IF role = "Master" THEN AsMaster(n) ELSE AsSlave(n)
<1>1. x = RoleAs(n)
  BY DEF RoleAs
<1>2. Keep(n, x)
  BY DEF HaInitNode
<1>3. UNCHANGED haInbox \/ HaSend(Request("Full"))
  BY DEF HaInitNode, ConnectToMaster, haNet
<1>4. UNCHANGED <<haRecv, haTable, haTodo, haSending, haMade, haFrom>>
  BY DEF HaInitNode
<1>5. QED
  BY <1>1, <1>2, <1>3, <1>4

\* The part of demote_to_slave that matters to a synchronisation.
LEMMA DemoteEffect ==
  ASSUME NEW n \in HaNodes, DemoteToSlave(n)
  PROVE  /\ Keep(n, AsSlave(n))
         /\ UNCHANGED haInbox \/ HaSend(Request("Full"))
         /\ UNCHANGED <<haRecv, haTable, haTodo, haSending, haMade, haFrom>>
  BY DEF DemoteToSlave, ConnectToMaster, haNet

\* The part of promote_to_master that matters to a synchronisation.
LEMMA PromoteEffect ==
  ASSUME NEW n \in HaNodes, PromoteToMaster(n)
  PROVE  /\ Keep(n, AsMaster(n))
         /\ UNCHANGED <<haInbox, haRecv, haTable, haTodo, haSending, haMade, haFrom>>
  BY DEF PromoteToMaster, haNet

RoleStep(n) ==
  /\ \E x : RoleTaken(x, n) /\ Keep(n, x)
  /\ UNCHANGED haInbox \/ HaSend(Request("Full"))
  /\ UNCHANGED <<haRecv, haTable, haTodo, haSending, haMade, haFrom>>

\* All three calls take a role in the same way.
LEMMA RoleSteps ==
  ASSUME HaInv, NEW n \in HaNodes,
         HaInitNode(n) \/ PromoteToMaster(n) \/ DemoteToSlave(n)
  PROVE  RoleStep(n)
<1>1. RoleTaken(AsMaster(n), n) /\ RoleTaken(AsSlave(n), n)
  BY RolesTaken DEF HaInv
<1>2. RoleTaken(RoleAs(n), n)
  BY <1>1 DEF RoleAs
<1>3. CASE HaInitNode(n)
  BY <1>2, <1>3, InitNodeEffect DEF RoleStep
<1>4. CASE PromoteToMaster(n)
  BY <1>1, <1>4, PromoteEffect DEF RoleStep
<1>5. CASE DemoteToSlave(n)
  BY <1>1, <1>5, DemoteEffect DEF RoleStep
<1>6. QED
  BY <1>3, <1>4, <1>5

\* Taking a role keeps the types.
LEMMA RoleStepTypes ==
  ASSUME HaTypes, NEW n \in HaNodes, RoleStep(n)
  PROVE  HaTypes'
<1>1. PICK x : RoleTaken(x, n) /\ Keep(n, x)
  BY DEF RoleStep
<1>2. x.subs \in [Callbacks -> Int] /\ x.peers \in SUBSET {"handler", "receiver"}
  BY <1>1 DEF RoleTaken
<1>3. haSubs' \in [HaNodes -> [Callbacks -> Int]] /\ haPeers' \in [HaNodes -> SUBSET {"handler", "receiver"}]
  BY <1>1, <1>2 DEF Keep, HaTypes
<1>4. haInbox' \in [HaNodes -> Seq(SyncFrames)]
  <2>1. Request("Full") \in SyncFrames /\ haInbox \in [HaNodes -> Seq(SyncFrames)]
    BY RequestIsFrame DEF SyncTypes, HaTypes
  <2>2. QED
    BY <2>1, HaSendEffect DEF RoleStep
<1>5. QED
  BY <1>3, <1>4 DEF RoleStep, HaTypes

\* handle_sync_end_callback keeps the types and the other subscriptions.
LEMMA EndTypes ==
  ASSUME HaTypes, NEW n \in HaNodes, HandleEnd(n)
  PROVE  /\ haRecv' \in [HaNodes -> Receivers] /\ haFrom' \in [HaNodes -> SUBSET Transfers]
         /\ haTable' \in [HaNodes -> TableType] /\ haSubs' \in [HaNodes -> [Callbacks -> Int]]
         /\ haSubs'[n]["begin"] = haSubs[n]["begin"] /\ haSubs'[n]["chunk"] = haSubs[n]["chunk"]
         /\ haSubs'[n]["end"] <= haSubs[n]["end"]
         /\ \A m \in HaNodes : m # n => haSubs'[m] = haSubs[m] /\ haRecv'[m] = haRecv[m]
<1>0. /\ haRecv \in [HaNodes -> Receivers] /\ haRecv[n] \in Receivers
      /\ haSubs \in [HaNodes -> [Callbacks -> Int]] /\ haSubs[n] \in [Callbacks -> Int]
      /\ haTable \in [HaNodes -> TableType] /\ haFrom \in [HaNodes -> SUBSET Transfers]
  BY HaFields DEF HaTypes
<1>1. {"begin", "chunk", "end"} \subseteq Callbacks
  BY DEF Callbacks
<1>2. haFrom' \in [HaNodes -> SUBSET Transfers]
  <2>1. haTodo[n].frame.of \in Transfers
    BY HaFields, FrameKinds DEF HandleEnd
  <2>2. haFrom' = [haFrom EXCEPT ![n] = @ \cup {haTodo[n].frame.of}]
    BY DEF HandleEnd
  <2>3. QED
    BY <1>0, <2>1, <2>2
<1>3. CASE ~Counted(n)
  <2>1. /\ haRecv' = [haRecv EXCEPT ![n] = [haRecv[n] EXCEPT !.state = "Failed"]]
        /\ haSubs' = [haSubs EXCEPT ![n]["end"] = @ - 1] /\ haTable' = haTable
    BY <1>3, EndEffect
  <2>2. [haRecv[n] EXCEPT !.state = "Failed"] \in Receivers
    BY <1>0 DEF Receivers, SyncStates
  <2>3. /\ haRecv' \in [HaNodes -> Receivers]
        /\ \A m \in HaNodes : m # n => haRecv'[m] = haRecv[m]
    BY <1>0, <2>1, <2>2
  <2>4. /\ haSubs' \in [HaNodes -> [Callbacks -> Int]]
        /\ haSubs'[n]["begin"] = haSubs[n]["begin"] /\ haSubs'[n]["chunk"] = haSubs[n]["chunk"]
        /\ haSubs'[n]["end"] <= haSubs[n]["end"]
        /\ \A m \in HaNodes : m # n => haSubs'[m] = haSubs[m]
    BY <1>0, <1>1, <2>1, SMTT(30)
  <2>5. QED
    BY <1>0, <1>2, <2>1, <2>3, <2>4
<1>4. CASE Counted(n)
  <2>1. haSubs' = haSubs
    BY <1>4, EndEffect
  <2>2. PICK state \in SyncStates : haRecv' = [haRecv EXCEPT ![n] = Taken(haRecv[n], state)]
    BY <1>4, EndEffect
  <2>3. PICK N \in TableType : haTable' = [haTable EXCEPT ![n] = N]
    BY <1>4, EndEffect
  <2>4. Taken(haRecv[n], state) \in Receivers
    BY <1>0, <2>2, TakenType
  <2>5. /\ haRecv' \in [HaNodes -> Receivers]
        /\ \A m \in HaNodes : m # n => haRecv'[m] = haRecv[m]
    BY <1>0, <2>2, <2>4
  <2>6. haTable' \in [HaNodes -> TableType]
    BY <1>0, <2>3
  <2>7. haSubs[n]["end"] \in Int
    BY <1>0, <1>1
  <2>8. QED
    BY <1>0, <1>2, <2>1, <2>5, <2>6, <2>7, SMTT(30)
<1>5. QED
  BY <1>3, <1>4

\* The transfer that handle_sync_request_callback begins.
LEMMA NewTransfer ==
  ASSUME HaInv, NEW n \in HaNodes, HandleRequest(n)
  PROVE  \E id \in Transfers :
           /\ haSending[n] = <<>> /\ haSending' = [haSending EXCEPT ![n] = Frames(id)]
           /\ haMade' = [haMade EXCEPT ![n] = @ + 1]
           /\ id.from = n /\ id.no = haMade[n]
           /\ IF id.type = "Full" THEN WholeSnapshot(id.parts) ELSE id.parts = <<>>
<1> DEFINE f == haTodo[n].frame
           parts == IF f.type = "Full" THEN SnapshotOf(haTable[n]) ELSE <<>>
           id == [from |-> n, no |-> haMade[n], type |-> f.type, parts |-> parts]
<1>1. f.type \in SyncTypes
  BY HaFields, FrameKinds DEF HandleRequest, HaInv
<1>2. haTable[n] \in TableType /\ haMade[n] \in Nat
  BY HaFields DEF HaInv
<1>3. /\ parts \in Seq(SnapshotPart)
      /\ IF f.type = "Full" THEN WholeSnapshot(parts) ELSE parts = <<>>
  BY <1>2, SnapshotWhole, SMTT(30)
<1>4. /\ haSending[n] = <<>> /\ haSending' = [haSending EXCEPT ![n] = Frames(id)]
      /\ haMade' = [haMade EXCEPT ![n] = @ + 1]
  BY DEF HandleRequest
<1> HIDE DEF f, parts
<1>5. /\ id \in Transfers /\ id.from = n /\ id.no = haMade[n] /\ id.type = f.type
      /\ id.parts = parts
  BY <1>1, <1>2, <1>3 DEF Transfers
<1>6. QED
  BY <1>3, <1>4, <1>5

\* Every step keeps the types.
LEMMA HaTypesStep ==
  ASSUME HaInv, HaNext
  PROVE  HaTypes'
<1>0. HaTypes
  BY DEF HaInv
<1> SUFFICES ASSUME NEW n \in HaNodes,
                    \/ HaInitNode(n) \/ PromoteToMaster(n) \/ DemoteToSlave(n) \/ CheckStatus(n)
                    \/ HaShutdown(n) \/ HandleRequest(n) \/ SendNext(n)
                    \/ StartSync(n) \/ WaitForCompletion(n) \/ RequestSync(n) \/ HaReceive(n)
                    \/ HandleBegin(n) \/ HandleChunk(n) \/ HandleEnd(n) \/ HaWrite(n)
             PROVE  HaTypes'
  BY DEF HaNext
<1>1. CASE HaInitNode(n) \/ PromoteToMaster(n) \/ DemoteToSlave(n)
  BY <1>0, <1>1, RoleSteps, RoleStepTypes
<1>2. CASE CheckStatus(n)
  BY <1>0, <1>2 DEF CheckStatus, HaTypes, haNet
<1>3. CASE HaShutdown(n)
  <2>1. haSubs' \in [HaNodes -> [Callbacks -> Int]] /\ haPeers' \in [HaNodes -> SUBSET {"handler", "receiver"}]
        /\ haInbox' \in [HaNodes -> Seq(SyncFrames)]
    BY <1>0, <1>3, SMTT(30) DEF HaShutdown, HaTypes
  <2>2. PICK q : /\ haRecv' = [haRecv EXCEPT ![n] = q]
                 /\ \/ q = haRecv[n]
                    \/ q = [haRecv[n] EXCEPT !.state = "Idle", !.own = "Idle", !.some = FALSE,
                                             !.data = <<>>, !.begin = "None"]
    BY <1>3 DEF HaShutdown
  <2>3. q \in Receivers
    <3>1. "Idle" \in SyncStates /\ <<>> \in Seq(SnapshotPart) /\ haRecv[n] \in Receivers
      BY <1>0, HaFields, SMTT(30) DEF SyncStates
    <3>2. QED
      BY <2>2, <3>1 DEF Receivers
  <2>4. haRecv' \in [HaNodes -> Receivers]
    BY <1>0, <2>2, <2>3 DEF HaTypes
  <2>5. QED
    BY <1>0, <1>3, <2>1, <2>4 DEF HaShutdown, HaTypes
<1>4. CASE HandleRequest(n)
  <2>1. haTodo' \in [HaNodes -> Calls]
    BY <1>0, <1>4, CalledType DEF HandleRequest
  <2>2. PICK id \in Transfers : /\ haSending' = [haSending EXCEPT ![n] = Frames(id)]
                                /\ haMade' = [haMade EXCEPT ![n] = @ + 1]
    BY <1>4, NewTransfer
  <2>3. Frames(id) \in Seq(DataFrames)
    BY <2>2, FramesAre
  <2>4. haSending' \in [HaNodes -> Seq(DataFrames)] /\ haMade' \in [HaNodes -> Nat]
    BY <1>0, <2>2, <2>3, SMTT(30) DEF HaTypes
  <2>5. QED
    BY <1>0, <1>4, <2>1, <2>4 DEF HandleRequest, HaTypes, haNet
<1>5. CASE SendNext(n)
  <2>1. haSending[n] \in Seq(DataFrames) /\ haSending[n] # <<>> /\ haInbox \in [HaNodes -> Seq(SyncFrames)]
    BY <1>0, <1>5, HaFields DEF SendNext, HaTypes
  <2>2. Head(haSending[n]) \in SyncFrames /\ Tail(haSending[n]) \in Seq(DataFrames)
    BY <2>1, SMTT(30) DEF SyncFrames
  <2>3. haInbox' \in [HaNodes -> Seq(SyncFrames)]
    BY <1>5, <2>1, <2>2, HaSendEffect DEF SendNext
  <2>4. haSending' \in [HaNodes -> Seq(DataFrames)]
    <3>1. /\ haSending \in [HaNodes -> Seq(DataFrames)] /\ <<>> \in Seq(DataFrames)
          /\ \/ haSending' = [haSending EXCEPT ![n] = Tail(haSending[n])]
             \/ haSending' = [haSending EXCEPT ![n] = <<>>]
      BY <1>0, <1>5, SMTT(30) DEF SendNext, HaTypes
    <3> DEFINE t == Tail(haSending[n])
    <3> HIDE DEF t
    <3>2. QED
      BY <2>2, <3>1 DEF t
  <2>5. QED
    BY <1>0, <1>5, <2>3, <2>4 DEF SendNext, HaTypes
<1>6. CASE StartSync(n)
  <2>1. haRecv' \in [HaNodes -> Receivers]
    BY <1>0, <1>6, SMTT(30) DEF StartSync, HaTypes, Receivers, SyncStates
  <2>2. haFrom' \in [HaNodes -> SUBSET Transfers]
    BY <1>0, <1>6 DEF StartSync, HaTypes
  <2>3. QED
    BY <1>0, <1>6, <2>1, <2>2 DEF StartSync, HaTypes, haNet
<1>7. CASE WaitForCompletion(n)
  <2>1. PICK own \in SyncStates : haRecv' = [haRecv EXCEPT ![n].own = own]
    BY <1>7 DEF WaitForCompletion, SyncStates
  <2>2. [haRecv[n] EXCEPT !.own = own] \in Receivers
    BY <1>0, <2>1, HaFields DEF Receivers
  <2>3. haRecv' \in [HaNodes -> Receivers]
    BY <1>0, <2>1, <2>2 DEF HaTypes
  <2>4. QED
    BY <1>0, <1>7, <2>3 DEF WaitForCompletion, HaTypes, haNet
<1>8. CASE RequestSync(n)
  <2>1. PICK type \in SyncTypes : HaSend(Request(type))
    BY <1>8 DEF RequestSync, SyncTypes
  <2>2. Request(type) \in SyncFrames /\ haInbox \in [HaNodes -> Seq(SyncFrames)]
    BY <1>0, <2>1, RequestIsFrame DEF HaTypes
  <2>3. haInbox' \in [HaNodes -> Seq(SyncFrames)]
    BY <2>1, <2>2, HaSendEffect
  <2>4. QED
    BY <1>0, <1>8, <2>3 DEF RequestSync, HaTypes
<1>9. CASE HaReceive(n)
  <2> DEFINE f == Head(haInbox[n])
             left == haSubs[n][f.topic]
  <2>1. haInbox[n] \in Seq(SyncFrames) /\ haInbox[n] # <<>> /\ haSubs[n] \in [Callbacks -> Int]
    BY <1>0, <1>9, HaFields DEF HaReceive
  <2>2. f \in SyncFrames /\ Tail(haInbox[n]) \in Seq(SyncFrames)
    BY <2>1, SMTT(30)
  <2>3. f.topic \in Callbacks
    BY <2>2 DEF SyncFrames, DataFrames, RequestFrames, Callbacks
  <2>4. left \in Int /\ 0 \in Int /\ "slave_ack" \in Callbacks
    BY <2>1, <2>3, SMTT(30) DEF Callbacks
  <2>5. [frame |-> IF left = 0 THEN NoFrame ELSE f, left |-> left] \in Calls
    BY <2>2, <2>4 DEF Calls
  <2>6. haTodo' = [haTodo EXCEPT ![n] = [frame |-> IF left = 0 THEN NoFrame ELSE f, left |-> left]]
    BY <1>9 DEF HaReceive
  <2> HIDE DEF f, left
  <2>7. haTodo' \in [HaNodes -> Calls]
    BY <1>0, <2>5, <2>6 DEF HaTypes
  <2>8. haInbox' \in [HaNodes -> Seq(SyncFrames)]
    BY <1>0, <1>9, <2>2 DEF HaReceive, HaTypes
  <2>9. haSubs' \in [HaNodes -> [Callbacks -> Int]]
    BY <1>0, <1>9, <2>1, <2>4 DEF HaReceive, HaTypes
  <2>10. QED
    BY <1>0, <1>9, <2>7, <2>8, <2>9 DEF HaReceive, HaTypes
<1>10. CASE HandleBegin(n)
  <2>1. haTodo' \in [HaNodes -> Calls]
    BY <1>0, <1>10, CalledType DEF HandleBegin
  <2>2. haRecv' \in [HaNodes -> Receivers] /\ haFrom' \in [HaNodes -> SUBSET Transfers]
    BY <1>0, <1>10, BeginType
  <2>3. QED
    BY <1>0, <1>10, <2>1, <2>2 DEF HandleBegin, HaTypes, haNet
<1>11. CASE HandleChunk(n)
  <2>1. haTodo' \in [HaNodes -> Calls]
    BY <1>0, <1>11, CalledType DEF HandleChunk
  <2>2. haTodo[n].left > 0 /\ haTodo[n].frame.topic = "chunk"
    BY <1>11 DEF HandleChunk
  <2>3. haTodo[n].frame.at > 0
    BY <2>2, CalledFrame, Positions
  <2>4. haRecv' \in [HaNodes -> Receivers] /\ haFrom' \in [HaNodes -> SUBSET Transfers]
    BY <1>0, <1>11, <2>3, ChunkType
  <2>5. QED
    BY <1>0, <1>11, <2>1, <2>4 DEF HandleChunk, HaTypes, haNet
<1>12. CASE HandleEnd(n)
  <2>1. haTodo' \in [HaNodes -> Calls]
    BY <1>0, <1>12, CalledType DEF HandleEnd
  <2>2. QED
    BY <1>0, <1>12, <2>1, EndTypes DEF HandleEnd, HaTypes, haNet
<1>13. CASE HaWrite(n)
  <2>1. PICK N \in TableType : haTable' = [haTable EXCEPT ![n] = N]
    <3>1. haTable[n] \in TableType
      BY <1>0, HaFields
    <3>2. CASE \E row \in Rows : \E s \in InsertSlot(haTable[n]) :
                 haTable' = [haTable EXCEPT ![n] = InsertRow(@, s, row)]
      BY <3>1, <3>2, InsertRowType
    <3>3. CASE \E s \in Used(haTable[n]) : haTable' = [haTable EXCEPT ![n] = DeleteRow(@, s)]
      BY <3>1, <3>3, DeleteRowType DEF Used
    <3>4. QED
      BY <1>13, <3>2, <3>3 DEF HaWrite
  <2>2. haTable' \in [HaNodes -> TableType]
    BY <1>0, <2>1 DEF HaTypes
  <2>3. QED
    BY <1>0, <1>13, <2>2 DEF HaWrite, HaTypes, haNet
<1>14. QED
  BY <1>1, <1>2, <1>3, <1>4, <1>5, <1>6, <1>7, <1>8, <1>9, <1>10, <1>11, <1>12, <1>13

----------------------------------------------------------------------------
(* The subscriptions stay as they should *)

\* A call that returns: either more calls of the same frame, or none.
LEMMA CalledEffect ==
  ASSUME HaTypes, NEW n \in HaNodes, Called(n), haTodo[n].left > 0
  PROVE  /\ \A m \in HaNodes : m # n => haTodo'[m] = haTodo[m]
         /\ haTodo'[n].left \in Int
         /\ haTodo'[n].left > 0 => /\ haTodo'[n].frame = haTodo[n].frame
                                   /\ haTodo'[n].left < haTodo[n].left
         /\ haTodo[n].left <= 1 => ~(haTodo'[n].left > 0)
<1>1. haTodo[n].left \in Int
  BY HaFields, FrameKinds
<1>2. /\ \A m \in HaNodes : m # n => haTodo'[m] = haTodo[m]
      /\ haTodo'[n] = IF haTodo[n].left = 1 THEN [frame |-> NoFrame, left |-> 0]
                      ELSE [frame |-> haTodo[n].frame, left |-> haTodo[n].left - 1]
  BY CalledType
<1>3. QED
  BY <1>1, <1>2, SMTT(30)

\* A step that changes no subscription, peer or call of k.
LEMMA SubsUnchanged ==
  ASSUME NEW k \in HaNodes, Subscriptions(k), haSubs'[k] = haSubs[k],
         haPeers'[k] = haPeers[k], haTodo'[k] = haTodo[k]
  PROVE  Subscriptions(k)'
  BY DEF Subscriptions

\* The end of a call leaves fewer calls than before.
LEMMA SubsCalled ==
  ASSUME HaTypes, NEW n \in HaNodes, NEW k \in HaNodes, Subscriptions(k), Called(n), haTodo[n].left > 0,
         haSubs'[k] = haSubs[k], haPeers'[k] = haPeers[k]
  PROVE  Subscriptions(k)'
<1>1. CASE k # n
  BY <1>1, CalledEffect, SubsUnchanged
<1>2. CASE k = n
  <2>1. haSubs[n]["chunk"] \in Int /\ haTodo[n].left \in Int
    BY HaFields, FrameKinds DEF Callbacks
  <2>2. QED
    BY <1>2, <2>1, CalledEffect, SMTT(30) DEF Subscriptions
<1>3. QED
  BY <1>1, <1>2

\* Receiving a frame ends no subscription of the receiver.
LEMMA ReceiveSubs ==
  ASSUME HaTypes, NEW n \in HaNodes, HaReceive(n), NEW c \in {"begin", "chunk", "end"}
  PROVE  haSubs'[n][c] = haSubs[n][c] /\ haSubs[n][c] \in Int
<1> DEFINE S == haSubs[n]
           v == IF Head(haInbox[n]).topic = "request" THEN 0 ELSE S["slave_ack"]
<1>1. haSubs' = [haSubs EXCEPT ![n] = [S EXCEPT !["slave_ack"] = v]]
  BY DEF HaReceive
<1>2. haSubs \in [HaNodes -> [Callbacks -> Int]] /\ S \in [Callbacks -> Int] /\ c \in Callbacks
  BY DEF HaTypes, Callbacks
<1> HIDE DEF v
<1>3. haSubs'[n] = [S EXCEPT !["slave_ack"] = v]
  BY <1>1, <1>2
<1> HIDE DEF S
<1>4. haSubs'[n][c] = S[c] /\ S[c] \in Int
  BY <1>2, <1>3
<1>5. QED
  BY <1>4 DEF S

\* Every step keeps the subscriptions of a receiver together.
LEMMA SubscriptionsStep ==
  ASSUME HaInv, HaNext, NEW k \in HaNodes
  PROVE  Subscriptions(k)'
<1>0. HaTypes /\ Subscriptions(k)
  BY DEF HaInv
<1> SUFFICES ASSUME NEW n \in HaNodes,
                    \/ HaInitNode(n) \/ PromoteToMaster(n) \/ DemoteToSlave(n) \/ CheckStatus(n)
                    \/ HaShutdown(n) \/ HandleRequest(n) \/ SendNext(n)
                    \/ StartSync(n) \/ WaitForCompletion(n) \/ RequestSync(n) \/ HaReceive(n)
                    \/ HandleBegin(n) \/ HandleChunk(n) \/ HandleEnd(n) \/ HaWrite(n)
             PROVE  Subscriptions(k)'
  BY DEF HaNext
<1>1. CASE HaInitNode(n) \/ PromoteToMaster(n) \/ DemoteToSlave(n)
  <2>1. RoleStep(n)
    BY <1>1, RoleSteps
  <2>2. PICK x : RoleTaken(x, n) /\ Keep(n, x)
    BY <2>1 DEF RoleStep
  <2>3. haTodo' = haTodo
    BY <2>1 DEF RoleStep
  <2>4. CASE k # n
    <3>1. haSubs'[k] = haSubs[k] /\ haPeers'[k] = haPeers[k]
      BY <1>0, <2>2, <2>4 DEF Keep, HaTypes
    <3>2. QED
      BY <1>0, <2>3, <3>1, SubsUnchanged
  <2>5. CASE k = n
    <3>1. haSubs'[n] = x.subs /\ haPeers'[n] = x.peers
      BY <1>0, <2>2 DEF Keep, HaTypes
    <3>2. haSubs[n]["chunk"] \in Int /\ x.subs["chunk"] \in Int /\ haTodo[n].left \in Int
      BY <1>0, <2>2, HaFields, FrameKinds, SMTT(30) DEF Callbacks, RoleTaken
    <3>3. QED
      BY <1>0, <2>2, <2>3, <2>5, <3>1, <3>2, SMTT(30) DEF Subscriptions, RoleTaken
  <2>6. QED
    BY <2>4, <2>5
<1>2. CASE CheckStatus(n) \/ SendNext(n) \/ StartSync(n) \/ WaitForCompletion(n) \/ RequestSync(n) \/ HaWrite(n)
  <2>1. UNCHANGED <<haSubs, haPeers, haTodo>>
    BY <1>2 DEF CheckStatus, SendNext, StartSync, WaitForCompletion, RequestSync, HaWrite
  <2>2. QED
    BY <1>0, <2>1, SubsUnchanged
<1>3. CASE HaShutdown(n)
  <2>1. CASE k # n
    <3>1. haSubs'[k] = haSubs[k] /\ haPeers'[k] = haPeers[k] /\ haTodo'[k] = haTodo[k]
      BY <1>0, <1>3, <2>1 DEF HaShutdown, HaTypes
    <3>2. QED
      BY <1>0, <3>1, SubsUnchanged
  <2>2. CASE k = n
    <3>1. /\ haSubs'[k]["begin"] = 0 /\ haSubs'[k]["chunk"] = 0 /\ haSubs'[k]["end"] = 0
          /\ haTodo'[k].left = 0
      BY <1>0, <1>3, <2>2 DEF HaShutdown, HaTypes, Callbacks
    <3>2. QED
      BY <3>1, SMTT(30) DEF Subscriptions
  <2>3. QED
    BY <2>1, <2>2
<1>4. CASE HandleRequest(n)
  BY <1>0, <1>4, SubsCalled DEF HandleRequest
<1>5. CASE HaReceive(n)
  <2>1. CASE k # n
    <3>1. haSubs'[k] = haSubs[k] /\ haPeers'[k] = haPeers[k] /\ haTodo'[k] = haTodo[k]
      BY <1>0, <1>5, <2>1 DEF HaReceive, HaTypes
    <3>2. QED
      BY <1>0, <3>1, SubsUnchanged
  <2>2. CASE k = n
    <3> DEFINE f == Head(haInbox[n])
               left == haSubs[n][f.topic]
    <3>1. /\ haTodo'[n] = [frame |-> IF left = 0 THEN NoFrame ELSE f, left |-> left]
          /\ haPeers'[n] = haPeers[n]
      BY <1>0, <1>5 DEF HaReceive, HaTypes
    <3>2. \A c \in {"begin", "chunk", "end"} : haSubs'[n][c] = haSubs[n][c] /\ haSubs[n][c] \in Int
      BY <1>0, <1>5, ReceiveSubs
    <3>3. f \in SyncFrames
      BY <1>0, <1>5, HaFields, SMTT(30) DEF HaReceive
    <3>4. f # NoFrame /\ (f \in DataFrames => f.topic \in {"begin", "chunk", "end"})
      BY <3>3, SMTT(30) DEF SyncFrames, DataFrames, RequestFrames, NoFrame
    <3> HIDE DEF f
    <3>5. f \in DataFrames => left \in Int /\ left <= haSubs[n]["chunk"]
      BY <1>0, <2>2, <3>2, <3>4, SMTT(30) DEF Subscriptions
    <3> HIDE DEF left
    <3>6. QED
      BY <1>0, <2>2, <3>1, <3>2, <3>4, <3>5, SMTT(30) DEF Subscriptions
  <2>3. QED
    BY <2>1, <2>2
<1>6. CASE HandleBegin(n) \/ HandleChunk(n)
  BY <1>0, <1>6, SubsCalled DEF HandleBegin, HandleChunk
<1>7. CASE HandleEnd(n)
  <2>1. haPeers' = haPeers /\ Called(n) /\ haTodo[n].left > 0
    BY <1>7 DEF HandleEnd
  <2>2. CASE k # n
    BY <1>0, <1>7, <2>1, <2>2, SubsCalled, EndTypes
  <2>3. CASE k = n
    <3>1. /\ haSubs'[n]["begin"] = haSubs[n]["begin"] /\ haSubs'[n]["chunk"] = haSubs[n]["chunk"]
          /\ haSubs'[n]["end"] <= haSubs[n]["end"] /\ haSubs'[n] \in [Callbacks -> Int]
      BY <1>0, <1>7, EndTypes
    <3>2. /\ haSubs[n]["chunk"] \in Int /\ haTodo[n].left \in Int /\ haSubs[n]["end"] \in Int
          /\ haSubs'[n]["end"] \in Int
      BY <1>0, <3>1, HaFields, FrameKinds DEF Callbacks
    <3>3. QED
      BY <1>0, <2>1, <2>3, <3>1, <3>2, CalledEffect, SMTT(30) DEF Subscriptions
  <2>4. QED
    BY <2>2, <2>3
<1>8. QED
  BY <1>1, <1>2, <1>3, <1>4, <1>5, <1>6, <1>7

----------------------------------------------------------------------------
(* The frames of a transfer are heard in the order in which they were sent *)

\* A frame that comes after all others keeps a queue in order.
LEMMA OrderedAppend ==
  ASSUME NEW F, NEW seq \in Seq(F), NEW x, Ordered(seq), AllBefore(Elements(seq), {x})
  PROVE  Ordered(Append(seq, x)) /\ Elements(Append(seq, x)) = Elements(seq) \cup {x}
<1> DEFINE L == Len(seq)
           t == Append(seq, x)
<1>1. /\ L \in Nat /\ DOMAIN seq = 1 .. L /\ DOMAIN t = 1 .. L + 1
      /\ \A i \in 1 .. L : t[i] = seq[i]
      /\ t[L + 1] = x
  BY SMTT(30)
<1> HIDE DEF L, t
<1>2. \A i \in 1 .. L + 1 : i \in 1 .. L \/ i = L + 1
  BY <1>1, SMTT(30)
<1>3. 1 .. L \subseteq 1 .. L + 1 /\ L + 1 \in 1 .. L + 1
  BY <1>1, SMTT(30)
<1>4. Elements(t) = Elements(seq) \cup {x}
  BY <1>1, <1>2, <1>3 DEF Elements
<1>5. ASSUME NEW i \in 1 .. L + 1, NEW j \in 1 .. L + 1, i < j PROVE Before(t[i], t[j])
  <2>1. i \in 1 .. L
    BY <1>1, <1>5, SMTT(30)
  <2>2. CASE j \in 1 .. L
    BY <1>1, <1>5, <2>1, <2>2 DEF Ordered
  <2>3. CASE j = L + 1
    <3>1. seq[i] \in Elements(seq)
      BY <1>1, <2>1 DEF Elements
    <3>2. QED
      BY <1>1, <2>1, <2>3, <3>1 DEF AllBefore
  <2>4. QED
    BY <1>2, <2>2, <2>3
<1>6. Ordered(t)
  BY <1>1, <1>5 DEF Ordered
<1>7. QED
  BY <1>4, <1>6 DEF t

\* Taking the first frame keeps a queue in order; the others come after it.
LEMMA OrderedTail ==
  ASSUME NEW F, NEW seq \in Seq(F), seq # <<>>, Ordered(seq)
  PROVE  /\ Ordered(Tail(seq)) /\ Elements(Tail(seq)) \subseteq Elements(seq)
         /\ Head(seq) \in Elements(seq) /\ AllBefore({Head(seq)}, Elements(Tail(seq)))
<1> DEFINE L == Len(seq)
           t == Tail(seq)
<1>1. /\ L \in Nat \ {0} /\ DOMAIN seq = 1 .. L /\ DOMAIN t = 1 .. L - 1
      /\ \A i \in 1 .. L - 1 : t[i] = seq[i + 1]
      /\ Head(seq) = seq[1]
  BY SMTT(30)
<1> HIDE DEF L, t
<1>2. 1 \in 1 .. L /\ \A i \in 1 .. L - 1 : i + 1 \in 1 .. L /\ 1 < i + 1
  BY <1>1, SMTT(30)
<1>3. \A i, j \in 1 .. L - 1 : i < j => i + 1 < j + 1
  BY <1>1, SMTT(30)
<1>4. Elements(t) \subseteq Elements(seq) /\ Head(seq) \in Elements(seq)
  BY <1>1, <1>2 DEF Elements
<1>5. Ordered(t)
  BY <1>1, <1>2, <1>3 DEF Ordered
<1>6. AllBefore({Head(seq)}, Elements(t))
  BY <1>1, <1>2, SMTT(30) DEF AllBefore, Elements, Ordered
<1>7. QED
  BY <1>4, <1>5, <1>6 DEF t

\* The empty queue.
LEMMA OrderedEmpty == Ordered(<<>>) /\ Elements(<<>>) = {}
  BY SMTT(30) DEF Ordered, Elements

\* The frames of one transfer; id is new.
LEMMA OrderedFrames ==
  ASSUME NEW id \in Transfers
  PROVE  /\ Ordered(Frames(id))
         /\ \A f \in Elements(Frames(id)) :
              /\ f \in DataFrames /\ f.of = id
              /\ f.at <= ChunkCount(id.parts) + 1 /\ f = FrameAt(id, f.at)
<1> DEFINE t == Frames(id)
<1>1. /\ t \in Seq(DataFrames)
      /\ \A i \in DOMAIN t :
           /\ i - 1 \in 0 .. ChunkCount(id.parts) + 1 /\ t[i] = FrameAt(id, i - 1)
           /\ t[i].of = id /\ t[i].at = i - 1
  BY FramesAre
<1> HIDE DEF t
<1>2. \A i \in DOMAIN t : i \in Int /\ t[i] \in DataFrames
  BY <1>1, SMTT(30)
<1>3. Ordered(t)
  BY <1>1, <1>2, SMTT(30) DEF Ordered, Before
<1>4. ChunkCount(id.parts) \in Nat
  BY TransferFields, ChunkEnds
<1>5. ASSUME NEW f \in Elements(t)
      PROVE  /\ f \in DataFrames /\ f.of = id
             /\ f.at <= ChunkCount(id.parts) + 1 /\ f = FrameAt(id, f.at)
  <2>1. PICK i \in DOMAIN t : f = t[i]
    BY DEF Elements
  <2>2. QED
    BY <1>1, <1>2, <1>4, <2>1, SMTT(30)
<1>6. QED
  BY <1>3, <1>5 DEF t

NewFrame(f) == f.of.no = haMade[f.of.from]

\* What a step leaves under way to k, requests apart, was under way before,
\* or belongs to a transfer that begins.
NothingNew(k) ==
  \A f \in UnderWay(k)' : f \in DataFrames => f \in UnderWay(k)

NothingElse(k) ==
  \A f \in UnderWay(k)' : f \in DataFrames => f \in UnderWay(k) \/ (NewFrame(f) /\ Sent(f)')

\* Requests have no place in the order.
LEMMA RequestsApart ==
  ASSUME NEW r, r \notin DataFrames, NEW F
  PROVE  AllBefore(F, {r}) /\ AllBefore({r}, F)
  BY DEF AllBefore, Before

\* Order between unions of sets of frames.
LEMMA AllBeforeUnion ==
  ASSUME NEW F, NEW G, NEW H
  PROVE  /\ AllBefore(F, G) /\ AllBefore(F, H) => AllBefore(F, G \cup H)
         /\ AllBefore(F, H) /\ AllBefore(G, H) => AllBefore(F \cup G, H)
  BY DEF AllBefore

\* What leaves the nodes when the queue of one of them changes.
LEMMA SendingChanged ==
  ASSUME HaTypes, NEW n \in HaNodes, NEW t, haSending' = [haSending EXCEPT ![n] = t]
  PROVE  /\ Leaving' = Elements(t) \cup UNION {Elements(haSending[m]) : m \in HaNodes \ {n}}
         /\ Leaving = Elements(haSending[n]) \cup UNION {Elements(haSending[m]) : m \in HaNodes \ {n}}
         /\ haSending'[n] = t /\ \A m \in HaNodes : m # n => haSending'[m] = haSending[m]
<1>1. haSending'[n] = t /\ \A m \in HaNodes : m # n => haSending'[m] = haSending[m]
  BY DEF HaTypes
<1>2. Leaving = Elements(haSending[n]) \cup UNION {Elements(haSending[m]) : m \in HaNodes \ {n}}
  BY DEF Leaving
<1>3. Leaving' = Elements(haSending'[n]) \cup UNION {Elements(haSending'[m]) : m \in HaNodes \ {n}}
  BY SMTT(30) DEF Leaving, Elements
<1>4. {Elements(haSending'[m]) : m \in HaNodes \ {n}} = {Elements(haSending[m]) : m \in HaNodes \ {n}}
  BY <1>1
<1>5. QED
  BY <1>1, <1>2, <1>3, <1>4

\* Nothing moves.
LEMMA NetStill ==
  ASSUME HaInv, NEW k \in HaNodes, UNCHANGED <<haTodo, haInbox, haSending>>
  PROVE  InOrder(k)' /\ NothingNew(k)
<1>1. InOrder(k)
  BY DEF HaInv
<1>2. Calling(k)' = Calling(k) /\ Arriving(k)' = Arriving(k) /\ Leaving' = Leaving
  BY DEF Calling, Arriving, Leaving
<1>3. QED
  BY <1>1, <1>2 DEF InOrder, NothingNew, UnderWay

\* A request is published.
LEMMA NetRequest ==
  ASSUME HaInv, NEW k \in HaNodes, UNCHANGED <<haTodo, haSending>>,
         NEW type \in SyncTypes, HaSend(Request(type))
  PROVE  InOrder(k)' /\ NothingNew(k)
<1> DEFINE r == Request(type)
           I == haInbox[k]
<1>1. r \in SyncFrames /\ r \notin DataFrames
  BY RequestIsFrame
<1>2. haInbox \in [HaNodes -> Seq(SyncFrames)] /\ I \in Seq(SyncFrames)
  BY HaFields DEF HaInv, HaTypes
<1> HIDE DEF r
<1>3. haInbox'[k] = I \/ haInbox'[k] = Append(I, r)
  BY <1>1, <1>2, HaSendEffect DEF r
<1>4. InOrder(k)
  BY DEF HaInv
<1>5. Calling(k)' = Calling(k) /\ Leaving' = Leaving /\ haSending'[k] = haSending[k]
  BY DEF Calling, Leaving
<1>6. Ordered(I) /\ Elements(I) = Arriving(k)
  BY <1>4 DEF InOrder, Arriving
<1>7. Arriving(k)' = Elements(haInbox'[k])
  BY DEF Arriving, Elements
<1> HIDE DEF I
<1>8. Ordered(haInbox'[k]) /\ Arriving(k)' \subseteq Arriving(k) \cup {r}
  <2>1. CASE haInbox'[k] = I
    BY <1>6, <1>7, <2>1
  <2>2. CASE haInbox'[k] = Append(I, r)
    <3>1. Ordered(Append(I, r)) /\ Elements(Append(I, r)) = Elements(I) \cup {r}
      BY <1>1, <1>2, <1>6, RequestsApart, OrderedAppend
    <3>2. QED
      BY <1>6, <1>7, <2>2, <3>1
  <2>3. QED
    BY <1>3, <2>1, <2>2
<1>9. AllBefore(Arriving(k) \cup {r}, Leaving) /\ AllBefore(Calling(k), Arriving(k) \cup {r} \cup Leaving)
  BY <1>1, <1>4 DEF InOrder, AllBefore, Before
<1>10. AllBefore(Arriving(k)', Leaving) /\ AllBefore(Calling(k), Arriving(k)' \cup Leaving)
  BY <1>8, <1>9 DEF AllBefore
<1>11. InOrder(k)'
  BY <1>4, <1>5, <1>8, <1>10 DEF InOrder
<1>12. NothingNew(k)
  BY <1>1, <1>5, <1>8 DEF NothingNew, UnderWay
<1>13. QED
  BY <1>11, <1>12

\* The inbox of a node that shuts down is dropped.
LEMMA NetShutdown ==
  ASSUME HaInv, NEW k \in HaNodes, NEW n \in HaNodes, HaShutdown(n)
  PROVE  InOrder(k)' /\ NothingNew(k)
<1>1. haInbox' = [haInbox EXCEPT ![n] = <<>>] /\ UNCHANGED <<haTodo, haSending>>
  BY DEF HaShutdown
<1>2. haInbox'[k] = haInbox[k] \/ haInbox'[k] = <<>>
  BY <1>1 DEF HaInv, HaTypes
<1>3. InOrder(k)
  BY DEF HaInv
<1>4. Calling(k)' = Calling(k) /\ Leaving' = Leaving /\ haSending'[k] = haSending[k]
  BY <1>1 DEF Calling, Leaving
<1>5. Arriving(k)' = Elements(haInbox'[k]) /\ Arriving(k) = Elements(haInbox[k])
  BY DEF Arriving, Elements
<1>6. Ordered(haInbox'[k]) /\ Arriving(k)' \subseteq Arriving(k)
  BY <1>2, <1>3, <1>5, OrderedEmpty DEF InOrder
<1>7. AllBefore(Arriving(k)', Leaving) /\ AllBefore(Calling(k), Arriving(k)' \cup Leaving)
  BY <1>3, <1>6 DEF InOrder, AllBefore
<1>8. InOrder(k)'
  BY <1>3, <1>4, <1>6, <1>7 DEF InOrder
<1>9. NothingNew(k)
  BY <1>4, <1>6 DEF NothingNew, UnderWay
<1>10. QED
  BY <1>8, <1>9

\* A call that returns puts no frame under way.
LEMMA CallingLess ==
  ASSUME HaTypes, NEW k \in HaNodes, NEW n \in HaNodes, Called(n), haTodo[n].left > 0
  PROVE  Calling(k)' \subseteq Calling(k)
<1>1. Calling(k)' = IF haTodo'[k].left > 0 THEN {haTodo'[k].frame} ELSE {}
  BY DEF Calling
<1>2. QED
  BY <1>1, CalledEffect DEF Calling

\* A callback has been called.
LEMMA NetCalled ==
  ASSUME HaInv, NEW k \in HaNodes, NEW n \in HaNodes, Called(n), haTodo[n].left > 0,
         UNCHANGED <<haInbox, haSending>>
  PROVE  InOrder(k)' /\ NothingNew(k)
<1>1. InOrder(k) /\ HaTypes
  BY DEF HaInv
<1>2. Calling(k)' \subseteq Calling(k)
  BY <1>1, CallingLess
<1>3. Arriving(k)' = Arriving(k) /\ Leaving' = Leaving
  BY DEF Arriving, Leaving
<1>4. AllBefore(Calling(k)', Arriving(k) \cup Leaving)
  BY <1>1, <1>2 DEF InOrder, AllBefore
<1>5. InOrder(k)'
  BY <1>1, <1>3, <1>4 DEF InOrder
<1>6. NothingNew(k)
  BY <1>2, <1>3 DEF NothingNew, UnderWay
<1>7. QED
  BY <1>5, <1>6

\* A frame is taken from the inbox.
LEMMA NetReceive ==
  ASSUME HaInv, NEW k \in HaNodes, NEW n \in HaNodes, HaReceive(n)
  PROVE  InOrder(k)' /\ NothingNew(k)
<1>1. InOrder(k) /\ HaTypes
  BY DEF HaInv
<1>2. Leaving' = Leaving /\ haSending' = haSending
  BY DEF HaReceive, Leaving
<1>3. CASE k # n
  <2>1. haInbox'[k] = haInbox[k] /\ haTodo'[k] = haTodo[k]
    BY <1>1, <1>3 DEF HaReceive, HaTypes
  <2>2. Arriving(k)' = Arriving(k) /\ Calling(k)' = Calling(k)
    BY <2>1 DEF Arriving, Calling
  <2>3. QED
    BY <1>1, <1>2, <2>1, <2>2 DEF InOrder, NothingNew, UnderWay
<1>4. CASE k = n
  <2> DEFINE I == haInbox[n]
             h == Head(I)
             left == haSubs[n][h.topic]
  <2>1. I \in Seq(SyncFrames) /\ I # <<>>
    BY <1>1, HaFields DEF HaReceive
  <2>2. /\ haInbox'[n] = Tail(I)
        /\ haTodo'[n] = [frame |-> IF left = 0 THEN NoFrame ELSE h, left |-> left]
    BY <1>1 DEF HaReceive, HaTypes
  <2>3. Calling(n)' \subseteq {h}
    <3>1. Calling(n)' = IF haTodo'[n].left > 0 THEN {haTodo'[n].frame} ELSE {}
      BY DEF Calling
    <3> HIDE DEF h, left
    <3>2. QED
      BY <2>2, <3>1, SMTT(30)
  <2>4. Ordered(I) /\ Arriving(n) = Elements(I) /\ AllBefore(Elements(I), Leaving)
    BY <1>1, <1>4 DEF InOrder, Arriving
  <2>5. Arriving(n)' = Elements(Tail(I))
    BY <2>2 DEF Arriving
  <2> HIDE DEF I
  <2>6. /\ Ordered(Tail(I)) /\ Elements(Tail(I)) \subseteq Elements(I)
        /\ h \in Elements(I) /\ AllBefore({h}, Elements(Tail(I)))
    BY <2>1, <2>4, OrderedTail
  <2>7. /\ AllBefore(Elements(Tail(I)), Leaving)
        /\ AllBefore({h}, Elements(Tail(I)) \cup Leaving)
    BY <2>4, <2>6 DEF AllBefore
  <2> HIDE DEF h
  <2>8. AllBefore(Calling(n)', Elements(Tail(I)) \cup Leaving)
    BY <2>3, <2>7 DEF AllBefore
  <2>9. InOrder(n)'
    BY <1>1, <1>2, <1>4, <2>2, <2>5, <2>6, <2>7, <2>8 DEF InOrder
  <2>10. NothingNew(n)
    BY <1>2, <2>3, <2>4, <2>5, <2>6 DEF NothingNew, UnderWay
  <2>11. QED
    BY <1>4, <2>9, <2>10
<1>5. QED
  BY <1>3, <1>4

\* The next frame of a transfer is published, or publishing fails.
LEMMA NetSend ==
  ASSUME HaInv, NEW k \in HaNodes, NEW n \in HaNodes, SendNext(n)
  PROVE  InOrder(k)' /\ NothingNew(k)
<1> DEFINE S == haSending[n]
           x == Head(S)
           I == haInbox[k]
           Rest == UNION {Elements(haSending[m]) : m \in HaNodes \ {n}}
<1>1. InOrder(k) /\ InOrder(n) /\ HaTypes /\ \A m \in HaNodes : InOrder(m)
  BY DEF HaInv
<1>2. S \in Seq(DataFrames) /\ S # <<>> /\ I \in Seq(SyncFrames) /\ haInbox \in [HaNodes -> Seq(SyncFrames)]
  BY <1>1, HaFields DEF SendNext, HaTypes
<1>3. Calling(k)' = Calling(k)
  BY DEF SendNext, Calling
<1>4. /\ Ordered(S) /\ \A f \in Elements(S) : f.of.from = n
      /\ Ordered(I) /\ Arriving(k) = Elements(I)
      /\ AllBefore(Elements(I), Leaving) /\ AllBefore(Calling(k), Elements(I) \cup Leaving)
  BY <1>1 DEF InOrder, Arriving
<1>5. \A g \in Rest : g.of.from # n
  BY <1>1 DEF InOrder
<1>6. Arriving(k)' = Elements(haInbox'[k])
  BY DEF Arriving
<1>7. \A t : haSending' = [haSending EXCEPT ![n] = t]
             => /\ Leaving' = Elements(t) \cup Rest /\ Leaving = Elements(S) \cup Rest
                /\ haSending'[k] = IF k = n THEN t ELSE haSending[k]
  BY <1>1, SendingChanged
<1>8. CASE HaSend(x) /\ haSending' = [haSending EXCEPT ![n] = Tail(S)]
  <2>1. x \in SyncFrames
    BY <1>2, SMTT(30) DEF SyncFrames
  <2>2. haInbox'[k] = I \/ haInbox'[k] = Append(I, x)
    BY <1>2, <1>8, <2>1, HaSendEffect
  <2>3. /\ Leaving' = Elements(Tail(S)) \cup Rest /\ Leaving = Elements(S) \cup Rest
        /\ haSending'[k] = IF k = n THEN Tail(S) ELSE haSending[k]
    BY <1>7, <1>8
  <2> HIDE DEF S, I, Rest
  <2>4. /\ Ordered(Tail(S)) /\ Elements(Tail(S)) \subseteq Elements(S)
        /\ x \in Elements(S) /\ AllBefore({x}, Elements(Tail(S)))
    BY <1>2, <1>4, OrderedTail
  <2> HIDE DEF x
  <2>5. AllBefore({x}, Elements(Tail(S)) \cup Rest)
    <3>1. AllBefore({x}, Rest)
      BY <1>4, <1>5, <2>4 DEF AllBefore, Before
    <3>2. QED
      BY <2>4, <3>1, AllBeforeUnion
  <2>6. Leaving' \subseteq Leaving /\ x \in Leaving
    BY <2>3, <2>4
  <2>7. Ordered(haInbox'[k]) /\ Elements(haInbox'[k]) \subseteq Elements(I) \cup {x}
    <3>1. AllBefore(Elements(I), {x})
      BY <1>4, <2>6 DEF AllBefore
    <3>2. Ordered(Append(I, x)) /\ Elements(Append(I, x)) = Elements(I) \cup {x}
      BY <1>2, <1>4, <3>1, OrderedAppend
    <3>3. QED
      BY <1>4, <2>2, <3>2
  <2>8. AllBefore(Elements(I) \cup {x}, Leaving')
    <3>1. AllBefore(Elements(I), Leaving')
      BY <1>4, <2>6 DEF AllBefore
    <3>2. AllBefore({x}, Leaving')
      BY <2>3, <2>5
    <3>3. QED
      BY <3>1, <3>2, AllBeforeUnion
  <2>9. AllBefore(Arriving(k)', Leaving')
    BY <1>6, <2>7, <2>8 DEF AllBefore
  <2>10. AllBefore(Calling(k), Arriving(k)' \cup Leaving')
    BY <1>4, <1>6, <2>6, <2>7 DEF AllBefore
  <2>11. Ordered(haSending'[k]) /\ \A f \in Elements(haSending'[k]) : f.of.from = k
    <3>1. CASE k = n
      BY <1>4, <2>3, <2>4, <3>1
    <3>2. CASE k # n
      BY <1>1, <2>3, <3>2 DEF InOrder
    <3>3. QED
      BY <3>1, <3>2
  <2>12. InOrder(k)'
    BY <1>3, <2>7, <2>9, <2>10, <2>11 DEF InOrder
  <2>13. NothingNew(k)
    BY <1>3, <1>4, <1>6, <2>6, <2>7 DEF NothingNew, UnderWay
  <2>14. QED
    BY <2>12, <2>13
<1>9. CASE haInbox' = haInbox /\ haSending' = [haSending EXCEPT ![n] = <<>>]
  <2>1. /\ Leaving' = Elements(<<>>) \cup Rest /\ Leaving = Elements(S) \cup Rest
        /\ haSending'[k] = IF k = n THEN <<>> ELSE haSending[k]
    BY <1>7, <1>9
  <2> HIDE DEF S, Rest, x
  <2>2. Leaving' \subseteq Leaving
    BY <2>1, OrderedEmpty
  <2>3. Arriving(k)' = Elements(I) /\ haInbox'[k] = I
    BY <1>6, <1>9
  <2> HIDE DEF I
  <2>4. AllBefore(Elements(I), Leaving') /\ AllBefore(Calling(k), Elements(I) \cup Leaving')
    BY <1>4, <2>2 DEF AllBefore
  <2>5. Ordered(haSending'[k]) /\ \A f \in Elements(haSending'[k]) : f.of.from = k
    BY <1>1, <2>1, OrderedEmpty DEF InOrder
  <2>6. InOrder(k)'
    BY <1>3, <1>4, <2>3, <2>4, <2>5 DEF InOrder
  <2>7. NothingNew(k)
    BY <1>3, <1>4, <2>2, <2>3 DEF NothingNew, UnderWay
  <2>8. QED
    BY <2>6, <2>7
<1>10. QED
  BY <1>8, <1>9 DEF SendNext

\* A transfer begins.
LEMMA NetBegin ==
  ASSUME HaInv, NEW k \in HaNodes, NEW n \in HaNodes, HandleRequest(n)
  PROVE  InOrder(k)' /\ NothingElse(k)
<1> DEFINE Rest == UNION {Elements(haSending[m]) : m \in HaNodes \ {n}}
<1>1. InOrder(k) /\ HaTypes
  BY DEF HaInv
<1>2. PICK id \in Transfers :
        /\ haSending[n] = <<>> /\ haSending' = [haSending EXCEPT ![n] = Frames(id)]
        /\ haMade' = [haMade EXCEPT ![n] = @ + 1]
        /\ id.from = n /\ id.no = haMade[n]
        /\ IF id.type = "Full" THEN WholeSnapshot(id.parts) ELSE id.parts = <<>>
  BY NewTransfer
<1> DEFINE New == Elements(Frames(id))
<1>3. /\ Leaving' = New \cup Rest /\ Leaving = Elements(haSending[n]) \cup Rest
      /\ haSending'[n] = Frames(id) /\ \A m \in HaNodes : m # n => haSending'[m] = haSending[m]
  BY <1>1, <1>2, SendingChanged
<1>4. /\ Ordered(Frames(id))
      /\ \A f \in New : /\ f \in DataFrames /\ f.of = id
                        /\ f.at <= ChunkCount(id.parts) + 1 /\ f = FrameAt(id, f.at)
  BY OrderedFrames
<1> HIDE DEF New, Rest
<1>5. Leaving' = New \cup Leaving
  BY <1>2, <1>3, OrderedEmpty
<1>6. Calling(k)' \subseteq Calling(k)
  BY <1>1, CallingLess DEF HandleRequest
<1>7. Arriving(k)' = Arriving(k) /\ haInbox' = haInbox
  BY DEF HandleRequest, haNet, Arriving
<1>8. haMade[n] \in Nat /\ haMade \in [HaNodes -> Nat]
  BY <1>1, HaFields DEF HaTypes
<1>9. AllBefore(UnderWay(k), New)
  <2>1. ASSUME NEW f \in UnderWay(k), NEW g \in New, f \in DataFrames PROVE f.of # g.of
    <3>1. f.of.no < haMade[f.of.from]
      BY <2>1 DEF HaInv, Sent, Begun
    <3>2. g.of = id
      BY <1>4
    <3>3. ~(id.no < haMade[id.from])
      BY <1>2, <1>8, SMTT(30)
    <3>4. QED
      BY <3>1, <3>2, <3>3
  <2>2. QED
    BY <2>1 DEF AllBefore, Before
<1>10. AllBefore(Arriving(k)', Leaving') /\ AllBefore(Calling(k)', Arriving(k)' \cup Leaving')
  BY <1>1, <1>5, <1>6, <1>7, <1>9 DEF AllBefore, InOrder, UnderWay
<1>11. Ordered(haSending'[k]) /\ \A f \in Elements(haSending'[k]) : f.of.from = k
  <2>1. CASE k = n
    BY <1>2, <1>3, <1>4, <2>1 DEF New
  <2>2. CASE k # n
    BY <1>1, <1>3, <2>2 DEF InOrder
  <2>3. QED
    BY <2>1, <2>2
<1>12. InOrder(k)'
  BY <1>1, <1>7, <1>10, <1>11 DEF InOrder
<1>13. UnderWay(k)' \subseteq UnderWay(k) \cup New
  BY <1>5, <1>6, <1>7 DEF UnderWay
<1>14. \A f \in New : NewFrame(f)
  BY <1>2, <1>4 DEF NewFrame
<1>16. Begun(id)'
  <2>1. haMade'[n] = haMade[n] + 1
    BY <1>2, <1>8
  <2>2. id.no < haMade'[id.from]
    BY <1>2, <1>8, <2>1, SMTT(30)
  <2>3. QED
    BY <1>2, <2>2 DEF Begun
<1>17. \A f \in New : Sent(f)'
  <2> SUFFICES ASSUME NEW f \in New PROVE Sent(f)'
    OBVIOUS
  <2>1. f.of = id /\ f.at <= ChunkCount(id.parts) + 1 /\ f = FrameAt(id, f.at)
    BY <1>4
  <2>2. QED
    BY <1>16, <2>1 DEF Sent
<1>18. NothingElse(k)
  BY <1>13, <1>14, <1>17 DEF NothingElse
<1>19. QED
  BY <1>12, <1>18

\* Every step keeps the frames in order and brings only frames of a new
\* transfer.
LEMMA NetStep ==
  ASSUME HaInv, HaNext, NEW k \in HaNodes
  PROVE  /\ InOrder(k)' /\ NothingElse(k)
         /\ \A m \in HaNodes : haMade'[m] >= haMade[m]
<1>0. HaTypes /\ haMade \in [HaNodes -> Nat]
  BY DEF HaInv, HaTypes
<1> SUFFICES ASSUME NEW n \in HaNodes,
                    \/ HaInitNode(n) \/ PromoteToMaster(n) \/ DemoteToSlave(n) \/ CheckStatus(n)
                    \/ HaShutdown(n) \/ HandleRequest(n) \/ SendNext(n)
                    \/ StartSync(n) \/ WaitForCompletion(n) \/ RequestSync(n) \/ HaReceive(n)
                    \/ HandleBegin(n) \/ HandleChunk(n) \/ HandleEnd(n) \/ HaWrite(n)
             PROVE  /\ InOrder(k)' /\ NothingElse(k)
                    /\ \A m \in HaNodes : haMade'[m] >= haMade[m]
  BY DEF HaNext
<1>1. CASE HandleRequest(n)
  <2>1. \A m \in HaNodes : haMade'[m] >= haMade[m]
    BY <1>0, <1>1, SMTT(30) DEF HandleRequest
  <2>2. QED
    BY <1>1, <2>1, NetBegin
<1>2. ASSUME haMade' = haMade, InOrder(k)', NothingNew(k)
      PROVE  /\ InOrder(k)' /\ NothingElse(k)
             /\ \A m \in HaNodes : haMade'[m] >= haMade[m]
  BY <1>0, <1>2, SMTT(30) DEF NothingNew, NothingElse
<1>3. CASE HaInitNode(n) \/ PromoteToMaster(n) \/ DemoteToSlave(n)
  <2>1. RoleStep(n)
    BY <1>3, RoleSteps
  <2>2. UNCHANGED <<haTodo, haSending, haMade>> /\ "Full" \in SyncTypes
    BY <2>1 DEF RoleStep, SyncTypes
  <2>3. CASE UNCHANGED haInbox
    BY <1>2, <2>2, <2>3, NetStill
  <2>4. CASE HaSend(Request("Full"))
    BY <1>2, <2>2, <2>4, NetRequest
  <2>5. QED
    BY <2>1, <2>3, <2>4 DEF RoleStep
<1>4. CASE CheckStatus(n) \/ StartSync(n) \/ WaitForCompletion(n) \/ HaWrite(n)
  <2>1. UNCHANGED <<haTodo, haInbox, haSending, haMade>>
    BY <1>4 DEF CheckStatus, StartSync, WaitForCompletion, HaWrite, haNet
  <2>2. QED
    BY <1>2, <2>1, NetStill
<1>5. CASE HaShutdown(n)
  BY <1>2, <1>5, NetShutdown DEF HaShutdown
<1>6. CASE SendNext(n)
  BY <1>2, <1>6, NetSend DEF SendNext
<1>7. CASE RequestSync(n)
  <2>1. UNCHANGED <<haTodo, haSending, haMade>> /\ \E type \in SyncTypes : HaSend(Request(type))
    BY <1>7 DEF RequestSync, SyncTypes
  <2>2. QED
    BY <1>2, <2>1, NetRequest
<1>8. CASE HaReceive(n)
  BY <1>2, <1>8, NetReceive DEF HaReceive
<1>9. CASE HandleBegin(n) \/ HandleChunk(n) \/ HandleEnd(n)
  <2>1. UNCHANGED <<haInbox, haSending, haMade>> /\ Called(n) /\ haTodo[n].left > 0
    BY <1>9 DEF HandleBegin, HandleChunk, HandleEnd, haNet
  <2>2. QED
    BY <1>2, <2>1, NetCalled
<1>10. QED
  BY <1>1, <1>3, <1>4, <1>5, <1>6, <1>7, <1>8, <1>9

\* A transfer once begun stays begun, and all that is heard was sent.
LEMMA BegunStays ==
  ASSUME HaTypes, HaTypes', \A m \in HaNodes : haMade'[m] >= haMade[m],
         NEW id \in Transfers, Begun(id)
  PROVE  Begun(id)'
<1>1. id.no \in Nat /\ haMade[id.from] \in Nat /\ haMade'[id.from] \in Nat /\ id.from \in HaNodes
  BY TransferFields DEF HaTypes
<1>2. id.no < haMade'[id.from]
  BY <1>1, SMTT(30) DEF Begun
<1>3. QED
  BY <1>2 DEF Begun

\* Every frame under way, and every transfer heard of, was begun by a master.
LEMMA SentStep ==
  ASSUME HaInv, HaNext, NEW k \in HaNodes
  PROVE  /\ \A f \in UnderWay(k)' : Sent(f)'
         /\ \A id \in haFrom'[k] : Begun(id)'
<1>0. HaTypes /\ HaTypes' /\ NothingElse(k) /\ \A m \in HaNodes : haMade'[m] >= haMade[m]
  BY HaTypesStep, NetStep DEF HaInv
<1>1. ASSUME NEW f \in UnderWay(k)' PROVE Sent(f)'
  <2>1. CASE f \notin DataFrames
    BY <2>1 DEF Sent
  <2>2. CASE f \in DataFrames /\ f \in UnderWay(k)
    <3>1. Sent(f)
      BY <2>2 DEF HaInv
    <3>2. f.of \in Transfers
      BY <2>2 DEF DataFrames
    <3>3. Begun(f.of) /\ f.at <= ChunkCount(f.of.parts) + 1 /\ f = FrameAt(f.of, f.at)
      BY <2>2, <3>1 DEF Sent
    <3>4. Begun(f.of)'
      BY <1>0, <3>2, <3>3, BegunStays
    <3>5. QED
      BY <3>3, <3>4 DEF Sent
  <2>3. QED
    BY <1>0, <2>1, <2>2 DEF NothingElse
<1>2. ASSUME NEW id \in haFrom'[k] PROVE Begun(id)'
  <2>1. id \in haFrom[k] \/ (id \in Transfers /\ Begun(id))
    <3>1. CASE \E n \in HaNodes : HandleBegin(n) \/ HandleChunk(n) \/ HandleEnd(n)
      <4>1. PICK n \in HaNodes : HandleBegin(n) \/ HandleChunk(n) \/ HandleEnd(n)
        BY <3>1
      <4>2. /\ haTodo[n].left > 0 /\ haTodo[n].frame.topic \in {"begin", "chunk", "end"}
            /\ haFrom' = [haFrom EXCEPT ![n] = @ \cup {haTodo[n].frame.of}]
        BY <4>1 DEF HandleBegin, HandleChunk, HandleEnd
      <4>3. LET f == haTodo[n].frame IN f \in DataFrames /\ f \in UnderWay(n) /\ Sent(f) /\ f.of \in Transfers
        BY <4>2, CalledFrame
      <4>4. haTodo[n].frame.of \in Transfers /\ Begun(haTodo[n].frame.of)
        BY <4>3, Positions
      <4>5. QED
        BY <1>0, <1>2, <4>2, <4>4 DEF HaTypes
    <3>2. CASE \E n \in HaNodes : StartSync(n)
      BY <1>0, <1>2, <3>2 DEF StartSync, HaTypes
    <3>3. CASE haFrom' = haFrom
      BY <1>2, <3>3
    <3>4. QED
      BY <3>1, <3>2, <3>3 DEF HaNext, HaInitNode, PromoteToMaster, DemoteToSlave, CheckStatus,
         HaShutdown, HandleRequest, SendNext, WaitForCompletion, RequestSync, HaReceive, HaWrite
  <2>2. haFrom[k] \subseteq Transfers /\ \A x \in haFrom[k] : Begun(x)
    BY <1>0 DEF HaInv, HaTypes
  <2>3. QED
    BY <1>0, <2>1, <2>2, BegunStays
<1>3. QED
  BY <1>1, <1>2

----------------------------------------------------------------------------
(* How far a receiver is *)

\* After handle_sync_begin_callback no chunk is counted and no data is there.
LEMMA MatchesBegin ==
  ASSUME NEW r \in Receivers, NEW id \in Transfers, r.data = <<>>
  PROVE  Matches([r EXCEPT !.begin = id.type, !.received = 0, !.expected = ChunkCount(id.parts)], id, 0)
<1> DEFINE x == [r EXCEPT !.begin = id.type, !.received = 0, !.expected = ChunkCount(id.parts)]
<1>1. x.begin = id.type /\ x.received = 0 /\ x.expected = ChunkCount(id.parts) /\ x.data = <<>>
  BY DEF Receivers
<1>2. id.parts \in Seq(SnapshotPart)
  BY TransferFields
<1>3. ChunkEnd(id.parts, 0) = 0
  BY <1>2, ChunkEnds
<1>4. SubSeq(id.parts, 1, 0) = <<>>
  BY <1>2, SMTT(30)
<1> HIDE DEF x
<1>5. Matches(x, id, 0)
  BY <1>1, <1>3, <1>4, SMTT(30) DEF Matches
<1>6. QED
  BY <1>5 DEF x

\* handle_sync_chunk_callback at q: if no chunk was missed, the data is whole
\* up to q.
LEMMA MatchesChunk ==
  ASSUME NEW r \in Receivers, NEW id \in Transfers, NEW p \in Nat, NEW q \in Nat,
         p < q, Matches(r, id, p)
  PROVE  Matches([r EXCEPT !.received = @ + 1, !.data = @ \o ChunkData(id.parts, q)], id, q)
<1> DEFINE x == [r EXCEPT !.received = @ + 1, !.data = @ \o ChunkData(id.parts, q)]
<1> SUFFICES Matches(x, id, q)
  OBVIOUS
<1>1. /\ x.begin = r.begin /\ x.received = r.received + 1 /\ x.expected = r.expected
      /\ x.data = r.data \o ChunkData(id.parts, q)
  BY DEF Receivers
<1>2. r.received \in Nat /\ id.parts \in Seq(SnapshotPart) /\ q - 1 \in Nat /\ (q - 1) + 1 = q
  BY ReceiverFields, TransferFields, SMTT(30)
<1> HIDE DEF x
<1>3. CASE r.begin = "None"
  BY <1>1, <1>3 DEF Matches
<1>4. CASE r.begin # "None"
  <2>1. /\ r.begin = id.type /\ r.expected = ChunkCount(id.parts) /\ r.received <= p
        /\ r.received = p => r.data = SubSeq(id.parts, 1, ChunkEnd(id.parts, p))
    BY <1>4 DEF Matches
  <2>2. x.received <= q
    BY <1>1, <1>2, <2>1, SMTT(30)
  <2>3. ASSUME x.received = q PROVE x.data = SubSeq(id.parts, 1, ChunkEnd(id.parts, q))
    <3>1. r.received = p /\ p = q - 1
      BY <1>1, <1>2, <2>1, <2>3, SMTT(30)
    <3>2. r.data = SubSeq(id.parts, 1, ChunkEnd(id.parts, q - 1))
      BY <2>1, <3>1
    <3>3. SubSeq(id.parts, 1, ChunkEnd(id.parts, q - 1)) \o ChunkData(id.parts, (q - 1) + 1)
            = SubSeq(id.parts, 1, ChunkEnd(id.parts, (q - 1) + 1))
      BY <1>2, NextChunk
    <3>4. QED
      BY <1>1, <1>2, <3>2, <3>3
  <2>4. QED
    BY <1>1, <2>1, <2>2, <2>3 DEF Matches
<1>5. QED
  BY <1>3, <1>4

\* A later position at which no chunk is counted says that one was missed.
LEMMA MatchesLater ==
  ASSUME NEW r \in Receivers, NEW id, NEW p \in Nat, NEW q \in Nat, p < q, Matches(r, id, p),
         NEW x, x.begin = r.begin, x.received = r.received, x.expected = r.expected
  PROVE  Matches(x, id, q)
<1>1. r.received \in Nat
  BY ReceiverFields
<1>2. r.begin # "None" => r.received <= q /\ r.received # q
  BY <1>1, SMTT(30) DEF Matches
<1>3. QED
  BY <1>2 DEF Matches

\* A step that leaves the receiver of k alone.
LEMMA ProgressKept ==
  ASSUME HaInv, NEW k \in HaNodes, NothingElse(k), haFrom'[k] = haFrom[k],
         haRecv'[k].some => haRecv[k].some,
         haRecv'[k].data = haRecv[k].data, haRecv'[k].begin = haRecv[k].begin,
         haRecv'[k].expected = haRecv[k].expected, haRecv'[k].received = haRecv[k].received,
         haSubs'[k]["chunk"] <= 1 => haSubs[k]["chunk"] <= 1
  PROVE  Progress(k)'
<1>0. HaTypes /\ Progress(k) /\ \A id \in haFrom[k] : Begun(id)
  BY DEF HaInv
<1> SUFFICES ASSUME haRecv'[k].some, haSubs'[k]["chunk"] <= 1
             PROVE  /\ haFrom'[k] = {} => haRecv'[k].data = <<>> /\ haRecv'[k].begin = "None"
                    /\ \A id \in haFrom'[k] : haFrom'[k] = {id} =>
                         \E p \in 0 .. ChunkCount(id.parts) + 1 : Reached(k, id, p)'
  BY DEF Progress
<1>1. haFrom'[k] = {} => haRecv'[k].data = <<>> /\ haRecv'[k].begin = "None"
  BY <1>0 DEF Progress
<1>2. ASSUME NEW id \in haFrom'[k], haFrom'[k] = {id}
      PROVE  \E p \in 0 .. ChunkCount(id.parts) + 1 : Reached(k, id, p)'
  <2>1. PICK p \in 0 .. ChunkCount(id.parts) + 1 : Reached(k, id, p)
    BY <1>0, <1>2 DEF Progress
  <2>2. id \in Transfers /\ Begun(id)
    BY <1>0, <1>2, HaFields
  <2>3. id.no < haMade[id.from] /\ id.no \in Nat /\ haMade[id.from] \in Nat
    BY <1>0, <2>2, TransferFields DEF Begun, HaTypes
  <2>4. ASSUME NEW f \in UnderWay(k)', f \in DataFrames, f.of = id PROVE f.at > p
    <3>1. ~NewFrame(f)
      BY <2>3, <2>4, SMTT(30) DEF NewFrame
    <3>2. f \in UnderWay(k)
      BY <2>4, <3>1 DEF NothingElse
    <3>3. QED
      BY <2>1, <2>4, <3>2 DEF Reached
  <2>5. Matches(haRecv'[k], id, p)
    BY <2>1 DEF Reached, Matches
  <2>6. Reached(k, id, p)'
    BY <2>4, <2>5 DEF Reached
  <2>7. QED
    BY <2>6
<1>3. QED
  BY <1>1, <1>2

\* The callback of a frame whose callbacks are subscribed once: the frame is
\* gone after it and what is still under way comes later.
LEMMA OneCall ==
  ASSUME HaInv, NEW n \in HaNodes, Called(n), haTodo[n].left > 0,
         haTodo[n].frame.topic \in {"begin", "chunk", "end"}, UNCHANGED <<haInbox, haSending>>,
         haSubs[n]["chunk"] <= 1
  PROVE  LET f == haTodo[n].frame
         IN  \A g \in UnderWay(n)' : g \in DataFrames /\ g.of = f.of => g.at > f.at
<1> DEFINE f == haTodo[n].frame
<1>0. HaTypes /\ InOrder(n) /\ Subscriptions(n)
  BY DEF HaInv
<1>1. f \in DataFrames /\ f.at \in Nat
  BY CalledFrame DEF DataFrames
<1>2. haTodo[n].left <= 1
  BY <1>0, <1>1, HaFields, FrameKinds, SMTT(30) DEF Subscriptions, Callbacks
<1>3. Calling(n)' = {}
  BY <1>0, <1>2, CalledEffect DEF Calling
<1>4. UnderWay(n)' \subseteq Arriving(n) \cup Leaving
  BY <1>3 DEF UnderWay, Arriving, Leaving
<1>5. AllBefore({f}, Arriving(n) \cup Leaving)
  BY <1>0 DEF InOrder, Calling
<1> HIDE DEF f
<1>6. \A g \in Arriving(n) \cup Leaving : Before(f, g)
  BY <1>5 DEF AllBefore
<1>7. ASSUME NEW g \in UnderWay(n)', g \in DataFrames, g.of = f.of PROVE g.at > f.at
  <2>1. f.at < g.at /\ g.at \in Nat
    BY <1>1, <1>4, <1>6, <1>7 DEF Before, DataFrames
  <2>2. QED
    BY <1>1, <2>1
<1>8. QED
  BY <1>7 DEF f

\* What the receiver knows when the callback of a frame f is called.
Known(n, f) ==
  \/ haFrom[n] = {} /\ haRecv[n].data = <<>> /\ haRecv[n].begin = "None"
  \/ \E p \in Nat : p < f.at /\ Reached(n, f.of, p)

\* A callback for a frame of the only transfer comes after the position
\* reached.
LEMMA KnownBefore ==
  ASSUME HaInv, NEW n \in HaNodes, haTodo[n].left > 0,
         haTodo[n].frame.topic \in {"begin", "chunk", "end"},
         haRecv[n].some, haSubs[n]["chunk"] <= 1, haFrom[n] \subseteq {haTodo[n].frame.of}
  PROVE  Known(n, haTodo[n].frame)
<1> DEFINE f == haTodo[n].frame
<1>0. HaTypes /\ Progress(n)
  BY DEF HaInv
<1>1. f \in DataFrames /\ f \in UnderWay(n) /\ f.of \in Transfers
  BY CalledFrame
<1>2. haFrom[n] \subseteq {f.of}
  OBVIOUS
<1> HIDE DEF f
<1>3. CASE haFrom[n] = {}
  BY <1>0, <1>3 DEF Progress, Known
<1>4. CASE haFrom[n] # {}
  <2>1. f.of \in haFrom[n] /\ haFrom[n] = {f.of}
    BY <1>2, <1>4
  <2>2. PICK p \in 0 .. ChunkCount(f.of.parts) + 1 : Reached(n, f.of, p)
    BY <1>0, <2>1 DEF Progress
  <2>3. f.at > p /\ f.at \in Nat /\ p \in Nat
    BY <1>1, <2>2, SMTT(30) DEF Reached, DataFrames
  <2>4. QED
    BY <2>2, <2>3 DEF Known, f
<1>5. QED
  BY <1>3, <1>4

\* The callback of a frame of the only transfer takes the receiver to its
\* position.
LEMMA ProgressHandled ==
  ASSUME HaInv, NEW n \in HaNodes, Called(n), haTodo[n].left > 0,
         haTodo[n].frame.topic \in {"begin", "chunk", "end"}, UNCHANGED <<haInbox, haSending>>,
         haFrom' = [haFrom EXCEPT ![n] = @ \cup {haTodo[n].frame.of}],
         haSubs'[n]["chunk"] = haSubs[n]["chunk"],
         haRecv'[n].some => haRecv[n].some,
         haRecv'[n].some /\ Known(n, haTodo[n].frame)
           => Matches(haRecv'[n], haTodo[n].frame.of, haTodo[n].frame.at)
  PROVE  Progress(n)'
<1> DEFINE f == haTodo[n].frame
<1>0. HaTypes /\ haFrom'[n] = haFrom[n] \cup {f.of}
  BY DEF HaInv, HaTypes
<1>1. f \in DataFrames /\ Sent(f) /\ f.of \in Transfers
  BY CalledFrame
<1>2. f.at \in 0 .. ChunkCount(f.of.parts) + 1
  <2>1. f.at \in Nat /\ ChunkCount(f.of.parts) \in Nat
    BY <1>1, Positions
  <2>2. f.at <= ChunkCount(f.of.parts) + 1
    BY <1>1 DEF Sent
  <2>3. QED
    BY <2>1, <2>2, SMTT(30)
<1>3. ASSUME haRecv'[n].some, haSubs'[n]["chunk"] <= 1, NEW id \in haFrom'[n], haFrom'[n] = {id}
      PROVE  \E p \in 0 .. ChunkCount(id.parts) + 1 : Reached(n, id, p)'
  <2>1. id = f.of /\ haFrom[n] \subseteq {f.of}
    BY <1>0, <1>3
  <2>2. Known(n, f)
    BY <1>3, <2>1, KnownBefore
  <2>3. Matches(haRecv'[n], f.of, f.at)
    BY <1>3, <2>2
  <2>4. \A g \in UnderWay(n)' : g \in DataFrames /\ g.of = f.of => g.at > f.at
    BY <1>3, OneCall
  <2> HIDE DEF f
  <2>5. PICK q \in 0 .. ChunkCount(id.parts) + 1 : q = f.at
    BY <1>2, <2>1
  <2>6. Reached(n, id, q)'
    BY <2>1, <2>3, <2>4, <2>5 DEF Reached
  <2>7. QED
    BY <2>6
<1>4. haFrom'[n] # {}
  BY <1>0
<1>5. QED
  BY <1>3, <1>4 DEF Progress

\* handle_sync_begin_callback takes the receiver to position 0.
LEMMA ProgressBegin ==
  ASSUME HaInv, NEW n \in HaNodes, HandleBegin(n)
  PROVE  Progress(n)'
<1> DEFINE f == haTodo[n].frame
           x == [haRecv[n] EXCEPT !.begin = f.of.type, !.received = 0, !.expected = ChunkCount(f.of.parts)]
<1>0. HaTypes /\ haRecv[n] \in Receivers
  BY HaFields DEF HaInv
<1>1. /\ f.topic = "begin" /\ haTodo[n].left > 0 /\ Called(n) /\ UNCHANGED <<haInbox, haSending>>
      /\ haFrom' = [haFrom EXCEPT ![n] = @ \cup {f.of}] /\ haSubs' = haSubs
  BY DEF HandleBegin, haNet
<1>2. haRecv'[n] = x
  BY <1>0 DEF HandleBegin, HaTypes, Receivers
<1>3. f \in DataFrames /\ Sent(f) /\ f.of \in Transfers
  BY <1>1, CalledFrame
<1>4. f.at = 0
  BY <1>1, <1>3, Positions
<1>5. x.some = haRecv[n].some
  BY <1>0 DEF Receivers
<1>6. ASSUME Known(n, f) PROVE Matches(x, f.of, f.at)
  <2>1. haRecv[n].data = <<>>
    BY <1>4, <1>6, SMTT(30) DEF Known
  <2>2. QED
    BY <1>0, <1>3, <1>4, <2>1, MatchesBegin
<1>7. QED
  BY <1>1, <1>2, <1>5, <1>6, ProgressHandled

\* handle_sync_chunk_callback takes the receiver to the position of the
\* chunk.
LEMMA ProgressChunk ==
  ASSUME HaInv, NEW n \in HaNodes, HandleChunk(n)
  PROVE  Progress(n)'
<1> DEFINE f == haTodo[n].frame
           r == haRecv[n]
           x == [r EXCEPT !.received = @ + 1, !.data = @ \o ChunkData(f.of.parts, f.at)]
<1>0. HaTypes /\ r \in Receivers
  BY HaFields DEF HaInv
<1>1. /\ f.topic = "chunk" /\ haTodo[n].left > 0 /\ Called(n) /\ UNCHANGED <<haInbox, haSending>>
      /\ haFrom' = [haFrom EXCEPT ![n] = @ \cup {f.of}] /\ haSubs' = haSubs
  BY DEF HandleChunk, haNet
<1>2. /\ haRecv'[n].some = r.some
      /\ r.some => haRecv'[n] = x
  BY <1>0 DEF HandleChunk, HaTypes, Receivers
<1>3. f \in DataFrames /\ Sent(f) /\ f.of \in Transfers
  BY <1>1, CalledFrame
<1>4. f.at \in Nat
  BY <1>3 DEF DataFrames
<1>5. ASSUME Known(n, f) PROVE Matches(x, f.of, f.at)
  <2>1. CASE r.begin = "None"
    <3>1. x.begin = "None"
      BY <1>0, <2>1 DEF Receivers
    <3>2. QED
      BY <3>1 DEF Matches
  <2>2. CASE r.begin # "None"
    <3>1. PICK p \in Nat : p < f.at /\ Reached(n, f.of, p)
      BY <1>5, <2>2 DEF Known
    <3>2. Matches(r, f.of, p)
      BY <3>1 DEF Reached
    <3> HIDE DEF f, r
    <3>3. QED
      BY <1>0, <1>3, <1>4, <3>1, <3>2, MatchesChunk
  <2>3. QED
    BY <2>1, <2>2
<1>6. haRecv'[n].some => haRecv'[n] = x
  BY <1>2
<1> HIDE DEF x
<1>7. QED
  BY <1>1, <1>2, <1>5, <1>6, ProgressHandled

\* handle_sync_end_callback takes the data, or finds a chunk missing.
LEMMA ProgressEnd ==
  ASSUME HaInv, NEW n \in HaNodes, HandleEnd(n)
  PROVE  Progress(n)'
<1> DEFINE f == haTodo[n].frame
           r == haRecv[n]
<1>0. HaTypes /\ r \in Receivers
  BY HaFields DEF HaInv
<1>1. /\ f.topic = "end" /\ haTodo[n].left > 0 /\ Called(n) /\ UNCHANGED <<haInbox, haSending>>
      /\ haFrom' = [haFrom EXCEPT ![n] = @ \cup {f.of}]
  BY <1>0, EndEffect DEF HandleEnd, haNet
<1>2. f \in DataFrames /\ f.at \in Nat
  BY <1>1, CalledFrame DEF DataFrames
<1>3. haSubs'[n]["chunk"] = haSubs[n]["chunk"]
  BY <1>0, EndTypes
<1>4. CASE Counted(n)
  <2>1. PICK state \in SyncStates : haRecv' = [haRecv EXCEPT ![n] = Taken(r, state)]
    BY <1>0, <1>4, EndEffect
  <2>2. ~haRecv'[n].some
    BY <1>0, <2>1 DEF HaTypes, Taken, Receivers
  <2>3. QED
    BY <2>2 DEF Progress
<1>5. CASE ~Counted(n)
  <2>1. haRecv' = [haRecv EXCEPT ![n] = [r EXCEPT !.state = "Failed"]]
    BY <1>0, <1>5, EndEffect
  <2>2. /\ haRecv'[n].some = r.some /\ haRecv'[n].begin = r.begin
        /\ haRecv'[n].received = r.received /\ haRecv'[n].expected = r.expected
    BY <1>0, <2>1 DEF HaTypes, Receivers
  <2>3. ASSUME Known(n, f) PROVE Matches(haRecv'[n], f.of, f.at)
    <3>1. CASE r.begin = "None"
      BY <2>2, <3>1 DEF Matches
    <3>2. CASE r.begin # "None"
      <4>1. PICK p \in Nat : p < f.at /\ Reached(n, f.of, p)
        BY <2>3, <3>2 DEF Known
      <4>2. Matches(r, f.of, p)
        BY <4>1 DEF Reached
      <4>3. QED
        BY <1>0, <1>2, <2>2, <4>1, <4>2, MatchesLater
    <3>3. QED
      BY <3>1, <3>2
  <2>4. QED
    BY <1>1, <1>3, <2>2, <2>3, ProgressHandled
<1>6. QED
  BY <1>4, <1>5

\* Every step keeps the relation of the data to the frames heard.
LEMMA ProgressStep ==
  ASSUME HaInv, HaNext, NEW k \in HaNodes
  PROVE  Progress(k)'
<1>0. HaTypes /\ NothingElse(k) /\ Subscriptions(k)
  BY NetStep DEF HaInv
<1>f. haSubs[k]["chunk"] \in Int /\ haRecv[k] \in Receivers
  BY <1>0, HaFields DEF Callbacks
<1> SUFFICES ASSUME NEW n \in HaNodes,
                    \/ HaInitNode(n) \/ PromoteToMaster(n) \/ DemoteToSlave(n) \/ CheckStatus(n)
                    \/ HaShutdown(n) \/ HandleRequest(n) \/ SendNext(n)
                    \/ StartSync(n) \/ WaitForCompletion(n) \/ RequestSync(n) \/ HaReceive(n)
                    \/ HandleBegin(n) \/ HandleChunk(n) \/ HandleEnd(n) \/ HaWrite(n)
             PROVE  Progress(k)'
  BY DEF HaNext
<1>1. CASE HaInitNode(n) \/ PromoteToMaster(n) \/ DemoteToSlave(n)
  <2>1. RoleStep(n)
    BY <1>1, RoleSteps
  <2>2. PICK x : RoleTaken(x, n) /\ Keep(n, x)
    BY <2>1 DEF RoleStep
  <2>3. haRecv' = haRecv /\ haFrom' = haFrom
    BY <2>1 DEF RoleStep
  <2>4. haSubs'[k]["chunk"] <= 1 => haSubs[k]["chunk"] <= 1
    <3>1. CASE k # n
      <4>1. haSubs'[k] = haSubs[k]
        BY <1>0, <2>2, <3>1 DEF Keep, HaTypes
      <4>2. QED
        BY <4>1
    <3>2. CASE k = n
      <4>1. haSubs'[k] = x.subs /\ x.subs["chunk"] \in Int /\ x.subs["chunk"] >= haSubs[k]["chunk"]
        BY <1>0, <2>2, <3>2 DEF Keep, HaTypes, RoleTaken, Callbacks
      <4>2. QED
        BY <1>f, <4>1, SMTT(30)
    <3>3. QED
      BY <3>1, <3>2
  <2>5. QED
    BY <1>0, <2>3, <2>4, ProgressKept
<1>2. CASE CheckStatus(n) \/ HandleRequest(n) \/ SendNext(n) \/ RequestSync(n) \/ HaWrite(n)
  <2>1. UNCHANGED <<haRecv, haFrom, haSubs>>
    BY <1>2 DEF CheckStatus, HandleRequest, SendNext, RequestSync, HaWrite
  <2>2. QED
    BY <1>0, <2>1, ProgressKept
<1>3. CASE HaReceive(n)
  <2>1. haRecv' = haRecv /\ haFrom' = haFrom
    BY <1>3 DEF HaReceive
  <2>2. haSubs'[k]["chunk"] = haSubs[k]["chunk"]
    <3>1. CASE k # n
      BY <1>0, <1>3, <3>1 DEF HaReceive, HaTypes
    <3>2. CASE k = n
      BY <1>0, <1>3, <3>2, ReceiveSubs
    <3>3. QED
      BY <3>1, <3>2
  <2>3. QED
    BY <1>0, <2>1, <2>2, ProgressKept
<1>4. CASE HaShutdown(n)
  <2>1. haFrom' = haFrom
    BY <1>4 DEF HaShutdown
  <2>2. CASE k # n
    <3>1. haRecv'[k] = haRecv[k] /\ haSubs'[k] = haSubs[k]
      BY <1>0, <1>4, <2>2 DEF HaShutdown, HaTypes
    <3>2. QED
      BY <1>0, <2>1, <3>1, ProgressKept
  <2>3. CASE k = n /\ "receiver" \in haPeers[n]
    <3>1. ~haRecv'[k].some
      BY <1>0, <1>4, <2>3 DEF HaShutdown, HaTypes, Receivers
    <3>2. QED
      BY <3>1 DEF Progress
  <2>4. CASE k = n /\ "receiver" \notin haPeers[n]
    <3>1. haRecv'[k] = haRecv[k]
      BY <1>0, <1>4, <2>4 DEF HaShutdown, HaTypes
    <3>2. haSubs[k]["chunk"] <= 1
      BY <1>0, <1>f, <2>4, SMTT(30) DEF Subscriptions
    <3>3. QED
      BY <1>0, <2>1, <3>1, <3>2, ProgressKept
  <2>5. QED
    BY <2>2, <2>3, <2>4
<1>5. CASE StartSync(n)
  <2>1. haSubs' = haSubs
    BY <1>5 DEF StartSync
  <2>2. CASE k # n
    <3>1. haRecv'[k] = haRecv[k] /\ haFrom'[k] = haFrom[k]
      BY <1>0, <1>5, <2>2 DEF StartSync, HaTypes
    <3>2. QED
      BY <1>0, <2>1, <3>1, ProgressKept
  <2>3. CASE k = n
    <3>1. haRecv'[k].data = <<>> /\ haRecv'[k].begin = "None" /\ haFrom'[k] = {}
      BY <1>0, <1>5, <2>3 DEF StartSync, HaTypes
    <3>2. QED
      BY <3>1 DEF Progress
  <2>4. QED
    BY <2>2, <2>3
<1>6. CASE WaitForCompletion(n)
  <2>1. haSubs' = haSubs /\ haFrom' = haFrom
    BY <1>6 DEF WaitForCompletion
  <2>2. /\ haRecv'[k].some = haRecv[k].some /\ haRecv'[k].begin = haRecv[k].begin
        /\ haRecv'[k].received = haRecv[k].received /\ haRecv'[k].expected = haRecv[k].expected
        /\ haRecv'[k].data = haRecv[k].data
    BY <1>0, <1>6, <1>f DEF WaitForCompletion, HaTypes, Receivers
  <2>3. QED
    BY <1>0, <2>1, <2>2, ProgressKept
<1>7. CASE HandleBegin(n) \/ HandleChunk(n)
  <2>1. CASE k # n
    <3>1. haRecv'[k] = haRecv[k] /\ haFrom'[k] = haFrom[k] /\ haSubs' = haSubs
      BY <1>0, <1>7, <2>1 DEF HandleBegin, HandleChunk, HaTypes
    <3>2. QED
      BY <1>0, <3>1, ProgressKept
  <2>2. QED
    BY <1>7, <2>1, ProgressBegin, ProgressChunk
<1>8. CASE HandleEnd(n)
  <2>1. CASE k # n
    <3>1. haRecv'[k] = haRecv[k] /\ haFrom'[k] = haFrom[k] /\ haSubs'[k] = haSubs[k]
      BY <1>0, <1>8, <2>1, EndEffect, SMTT(30) DEF HaTypes
    <3>2. QED
      BY <1>0, <3>1, ProgressKept
  <2>2. QED
    BY <1>8, <2>1, ProgressEnd
<1>9. QED
  BY <1>1, <1>2, <1>3, <1>4, <1>5, <1>6, <1>7, <1>8

\* The invariant is inductive.
LEMMA HaInvStep ==
  ASSUME HaInv, [HaNext]_haVars
  PROVE  HaInv'
<1>1. CASE HaNext
  <2>1. HaTypes'
    BY <1>1, HaTypesStep
  <2>2. \A n \in HaNodes : Subscriptions(n)' /\ InOrder(n)' /\ Progress(n)'
    BY <1>1, SubscriptionsStep, NetStep, ProgressStep
  <2>3. \A n \in HaNodes : /\ \A f \in UnderWay(n)' : Sent(f)'
                           /\ \A id \in haFrom'[n] : Begun(id)'
    BY <1>1, SentStep
  <2>4. QED
    BY <2>1, <2>2, <2>3 DEF HaInv
<1>2. CASE UNCHANGED haVars
  <2>1. /\ haSubs' = haSubs /\ haRecv' = haRecv /\ haPeers' = haPeers /\ haTable' = haTable
        /\ haInbox' = haInbox /\ haTodo' = haTodo /\ haSending' = haSending /\ haMade' = haMade
        /\ haFrom' = haFrom
    BY <1>2 DEF haVars
  <2>2. HaTypes'
    BY <2>1 DEF HaInv, HaTypes
  <2>3. Leaving' = Leaving /\ \A id : Begun(id)' = Begun(id)
    BY <2>1 DEF Leaving, Begun
  <2>4. ASSUME NEW n \in HaNodes
        PROVE  /\ Subscriptions(n)' /\ InOrder(n)' /\ Progress(n)'
               /\ \A f \in UnderWay(n)' : Sent(f)'
               /\ \A id \in haFrom'[n] : Begun(id)'
    <3>1. /\ Subscriptions(n) /\ InOrder(n) /\ Progress(n)
          /\ \A f \in UnderWay(n) : Sent(f)
          /\ \A id \in haFrom[n] : Begun(id)
      BY DEF HaInv
    <3>2. Calling(n)' = Calling(n) /\ Arriving(n)' = Arriving(n)
      BY <2>1 DEF Calling, Arriving
    <3>3. UnderWay(n)' = UnderWay(n)
      BY <2>3, <3>2 DEF UnderWay
    <3>4. Subscriptions(n)'
      BY <2>1, <3>1 DEF Subscriptions
    <3>5. InOrder(n)'
      BY <2>1, <2>3, <3>1, <3>2 DEF InOrder
    <3>6. \A f : Sent(f)' = Sent(f)
      BY <2>3 DEF Sent
    <3>7. Progress(n)'
      BY <2>1, <3>1, <3>3 DEF Progress, Reached
    <3>8. QED
      BY <2>1, <2>3, <3>1, <3>3, <3>4, <3>5, <3>6, <3>7
  <2>5. QED
    BY <2>2, <2>4 DEF HaInv
<1>3. QED
  BY <1>1, <1>2
\* It holds when no node is up.
LEMMA HaInvInit ==
  ASSUME HaInit
  PROVE  HaInv
<1>1. HaTypes
  <2>1. NewTable([s \in Slots |-> 0], [s \in Slots |-> 0]) \in TableType
    BY SizesAssumption, SMTT(30) DEF NewTable, TableType, Slots
  <2>2. [state |-> "Idle", own |-> "Idle", some |-> FALSE, data |-> <<>>,
         expected |-> 0, received |-> 0, begin |-> "None"] \in Receivers
    BY SMTT(30) DEF Receivers, SyncStates
  <2>3. [frame |-> NoFrame, left |-> 0] \in Calls
    BY SMTT(30) DEF Calls
  <2>4. haSubs \in [HaNodes -> [Callbacks -> Int]] /\ haMade \in [HaNodes -> Nat]
    BY SMTT(30) DEF HaInit
  <2>5. haRecv \in [HaNodes -> Receivers] /\ haTable \in [HaNodes -> TableType] /\ haTodo \in [HaNodes -> Calls]
    BY <2>1, <2>2, <2>3 DEF HaInit
  <2>6. haInbox \in [HaNodes -> Seq(SyncFrames)] /\ haSending \in [HaNodes -> Seq(DataFrames)]
    BY SMTT(30) DEF HaInit
  <2>7. haPeers \in [HaNodes -> SUBSET {"handler", "receiver"}] /\ haFrom \in [HaNodes -> SUBSET Transfers]
    BY DEF HaInit
  <2>8. QED
    BY <2>4, <2>5, <2>6, <2>7 DEF HaTypes
<1>2. ASSUME NEW n \in HaNodes
      PROVE  /\ Subscriptions(n) /\ InOrder(n) /\ Progress(n)
             /\ \A f \in UnderWay(n) : Sent(f)
             /\ \A id \in haFrom[n] : Begun(id)
  <2>1. /\ haInbox[n] = <<>> /\ haTodo[n].left = 0 /\ haFrom[n] = {} /\ ~haRecv[n].some
        /\ \A m \in HaNodes : haSending[m] = <<>>
    BY DEF HaInit
  <2>2. haSubs[n]["begin"] = 0 /\ haSubs[n]["chunk"] = 0 /\ haSubs[n]["end"] = 0
    BY DEF HaInit, Callbacks
  <2>3. Calling(n) = {} /\ Arriving(n) = {} /\ Leaving = {}
    BY <2>1, OrderedEmpty, SMTT(30) DEF Calling, Arriving, Leaving
  <2>4. InOrder(n)
    BY <2>1, <2>3, OrderedEmpty DEF InOrder, AllBefore
  <2>5. UnderWay(n) = {}
    BY <2>3 DEF UnderWay
  <2>6. QED
    BY <2>1, <2>2, <2>4, <2>5, SMTT(30) DEF Subscriptions, Progress
<1>3. QED
  BY <1>1, <1>2 DEF HaInv

\* apply_snapshot can read a whole snapshot.
LEMMA WholeIsReadable ==
  ASSUME NEW parts \in Seq(SnapshotPart), WholeSnapshot(parts)
  PROVE  Readable(parts)
<1>1. Len(parts) \in Nat /\ Len(parts) >= 2 /\ DOMAIN parts = 1 .. Len(parts)
  BY SMTT(30) DEF WholeSnapshot
<1>2. parts[1].kind = "head" /\ parts[Len(parts)].kind = "end"
  BY SMTT(30) DEF WholeSnapshot, HeadPart, EndPart
<1>3. Len(parts) \in Ends(parts)
  BY <1>1, <1>2, SMTT(30) DEF Ends
<1>4. ASSUME NEW j \in 2 .. Len(parts) PROVE parts[j].kind # "head"
  <2>1. CASE j = Len(parts)
    BY <1>2, <2>1
  <2>2. CASE j # Len(parts)
    <3>1. PICK L \in Nat : L = Len(parts)
      BY <1>1
    <3>2. j \in 2 .. L - 1
      BY <2>2, <3>1, SMTT(30)
    <3>3. parts[j] \in RecordPart
      BY <3>1, <3>2 DEF WholeSnapshot
    <3>4. QED
      BY <3>3 DEF RecordPart
  <2>3. QED
    BY <2>1, <2>2
<1>5. QED
  BY <1>2, <1>3, <1>4 DEF Readable

\* Only a counted end makes a receiver believe that it is synchronised.
LEMMA SyncedByEnd ==
  ASSUME HaInv, HaNext, NEW n \in HaNodes,
         haRecv[n].state # "Synced", haRecv'[n].state = "Synced"
  PROVE  HandleEnd(n) /\ Counted(n)
<1>0. HaTypes /\ haRecv[n] \in Receivers
  BY HaFields DEF HaInv
<1> SUFFICES ASSUME NEW m \in HaNodes,
                    \/ HaInitNode(m) \/ PromoteToMaster(m) \/ DemoteToSlave(m) \/ CheckStatus(m)
                    \/ HaShutdown(m) \/ HandleRequest(m) \/ SendNext(m)
                    \/ StartSync(m) \/ WaitForCompletion(m) \/ RequestSync(m) \/ HaReceive(m)
                    \/ HandleBegin(m) \/ HandleChunk(m) \/ HandleEnd(m) \/ HaWrite(m)
             PROVE  HandleEnd(n) /\ Counted(n)
  BY DEF HaNext
<1>1. CASE HandleEnd(m)
  <2>1. m = n
    BY <1>0, <1>1, EndTypes
  <2>2. CASE ~Counted(n)
    <3>1. haRecv' = [haRecv EXCEPT ![n] = [haRecv[n] EXCEPT !.state = "Failed"]]
      BY <1>0, <1>1, <2>1, <2>2, EndEffect
    <3>2. haRecv'[n].state = "Failed"
      BY <1>0, <3>1 DEF HaTypes, Receivers
    <3>3. QED
      BY <3>2
  <2>3. QED
    BY <1>1, <2>1, <2>2
<1>2. CASE HandleBegin(m) \/ HandleChunk(m) \/ WaitForCompletion(m)
  <2>1. CASE HandleBegin(m)
    BY <1>0, <2>1 DEF HandleBegin, HaTypes, Receivers
  <2>2. CASE HandleChunk(m)
    BY <1>0, <2>2 DEF HandleChunk, HaTypes, Receivers
  <2>3. CASE WaitForCompletion(m)
    BY <1>0, <2>3 DEF WaitForCompletion, HaTypes, Receivers
  <2>4. QED
    BY <1>2, <2>1, <2>2, <2>3
<1>3. CASE HaShutdown(m) \/ StartSync(m)
  <2>1. CASE HaShutdown(m)
    BY <1>0, <2>1 DEF HaShutdown, HaTypes, Receivers
  <2>2. CASE StartSync(m)
    BY <1>0, <2>2 DEF StartSync, HaTypes
  <2>3. QED
    BY <1>3, <2>1, <2>2
<1>4. CASE haRecv' = haRecv
  BY <1>4
<1>5. QED
  BY <1>1, <1>2, <1>3, <1>4 DEF HaInitNode, PromoteToMaster, DemoteToSlave, CheckStatus,
     HandleRequest, SendNext, RequestSync, HaReceive, HaWrite

\* The step that makes a receiver Synced brings all records of the snapshot.
LEMMA SyncedIsWhole ==
  ASSUME HaInv, HaNext, NEW n \in HaNodes, haRecv[n].some, haSubs[n]["chunk"] = 1,
         haRecv[n].state # "Synced", haRecv'[n].state = "Synced",
         NEW id \in haFrom'[n], haFrom'[n] = {id}, NEW part \in RecordsIn(id.parts)
  PROVE  part.slot \in Used(haTable'[n]) /\ haTable'[n].data[part.slot] = part.row
<1> DEFINE f == haTodo[n].frame
           r == haRecv[n]
           parts == id.parts
<1>0. HaTypes /\ r \in Receivers /\ haTable[n] \in TableType /\ HandleEnd(n) /\ Counted(n)
  BY HaFields, SyncedByEnd DEF HaInv
<1>1. f.topic = "end" /\ haTodo[n].left > 0
  BY <1>0 DEF HandleEnd
<1>2. f \in DataFrames /\ Sent(f) /\ f.of \in Transfers
  BY <1>1, CalledFrame
<1>3. Begun(f.of) /\ ChunkCount(f.of.parts) \in Nat /\ f.at = ChunkCount(f.of.parts) + 1
  BY <1>1, <1>2, Positions
<1>4. /\ haFrom' = [haFrom EXCEPT ![n] = @ \cup {f.of}]
      /\ \E state \in SyncStates :
           /\ haRecv' = [haRecv EXCEPT ![n] = Taken(r, state)]
           /\ state = "Synced" => r.begin # "None"
      /\ \E N \in TableType :
           /\ haTable' = [haTable EXCEPT ![n] = N]
           /\ r.begin = "Full" /\ Readable(Gathered(n)) => N = ApplySnapshot(haTable[n], Gathered(n))
  BY <1>0, EndEffect
<1>5. id = f.of /\ haFrom[n] \subseteq {f.of}
  <2>1. haFrom'[n] = haFrom[n] \cup {f.of}
    BY <1>0, <1>4 DEF HaTypes
  <2>2. QED
    BY <2>1
<1>6. r.begin # "None"
  <2>1. PICK state \in SyncStates : /\ haRecv' = [haRecv EXCEPT ![n] = Taken(r, state)]
                                    /\ state = "Synced" => r.begin # "None"
    BY <1>4
  <2>2. haRecv'[n].state = state
    BY <1>0, <2>1 DEF Taken, HaTypes, Receivers
  <2>3. QED
    BY <2>1, <2>2
<1>7. Known(n, f)
  BY <1>1, <1>5, KnownBefore, SMTT(30)
<1>8. PICK p \in Nat : p < f.at /\ Reached(n, f.of, p)
  BY <1>6, <1>7 DEF Known
<1>9. r.received = r.expected /\ ChunkCount(f.of.parts) = r.expected /\ Gathered(n) = r.data
  BY <1>0 DEF Counted, Gathered
<1> HIDE DEF f, r
<1>10. Matches(r, f.of, p)
  BY <1>8 DEF Reached, r
<1>11. /\ r.begin = id.type /\ r.received <= p
       /\ r.received = p => r.data = SubSeq(parts, 1, ChunkEnd(parts, p))
  BY <1>5, <1>6, <1>10 DEF Matches
<1>12. p = ChunkCount(parts) /\ r.received = p
  BY <1>3, <1>5, <1>8, <1>9, <1>11, SMTT(30)
<1>13. parts \in Seq(SnapshotPart) /\ id.type \in SyncTypes /\ Begun(id)
  BY <1>2, <1>3, <1>5, TransferFields
<1>14. r.data = parts
  <2>1. ChunkEnd(parts, ChunkCount(parts)) = Len(parts)
    BY <1>13, ChunkEnds
  <2>2. r.data = SubSeq(parts, 1, Len(parts))
    BY <1>11, <1>12, <2>1
  <2>3. QED
    BY <1>13, <2>2, SMTT(30)
<1>15. CASE id.type # "Full"
  <2>1. parts = <<>>
    BY <1>13, <1>15 DEF Begun
  <2>2. QED
    BY <2>1, SMTT(30) DEF RecordsIn
<1>16. CASE id.type = "Full"
  <2>1. WholeSnapshot(parts) /\ Readable(parts)
    BY <1>13, <1>16, WholeIsReadable DEF Begun
  <2>2. haTable'[n] = ApplySnapshot(haTable[n], parts)
    BY <1>0, <1>4, <1>9, <1>11, <1>14, <1>16, <2>1 DEF HaTypes
  <2>3. QED
    BY <1>0, <1>13, <2>1, <2>2, ApplySnapshotEffect, SMTT(30)
<1>17. QED
  BY <1>15, <1>16

\* A receiver that was started, hears one transfer and is subscribed to the
\* chunks once holds every record of the snapshot when it becomes Synced,
\* for any number of nodes, chunk size, table and loss of frames
\* (handle_sync_begin_callback, handle_sync_chunk_callback,
\* handle_sync_end_callback, send_snapshot_chunks).
THEOREM SyncedMeansWhole == HaSpec => HaSyncedWhole
<1> DEFINE Whole ==
      \A n \in HaNodes :
        haRecv[n].some /\ haSubs[n]["chunk"] = 1 /\ haRecv[n].state # "Synced" /\ haRecv'[n].state = "Synced"
          => \A id \in haFrom'[n] : haFrom'[n] = {id} =>
               \A part \in RecordsIn(id.parts) : /\ part.slot \in Used(haTable'[n])
                                                 /\ haTable'[n].data[part.slot] = part.row
<1>1. HaInit => HaInv
  BY HaInvInit
<1>2. HaInv /\ [HaNext]_haVars => HaInv'
  BY HaInvStep
<1>3. HaInv /\ [HaNext]_haVars => [Whole]_haVars
  <2>1. ASSUME HaInv, HaNext PROVE Whole
    BY <2>1, SyncedIsWhole
  <2>2. QED
    BY <2>1
<1>4. HaSpec => [][Whole]_haVars
  BY <1>1, <1>2, <1>3, PTL DEF HaSpec
<1>5. QED
  BY <1>4 DEF HaSyncedWhole
=============================================================================
