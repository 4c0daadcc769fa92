---------------------------- MODULE WalFileProofs ---------------------------
(***************************************************************************)
(* For every layout, number of items, faults and restarts: no reader of    *)
(* the log accepts an item that was not written to its last cell, the lock *)
(* is free between calls until an I/O call fails, and the readers find     *)
(* every item of a log that was written whole.                             *)
(*                                                                         *)
(* The readers are recursive functions over the cells of the file: what    *)
(* they compute is proved by induction on the number of cells read.        *)
(***************************************************************************)
EXTENDS WalFile, WellFoundedInduction, TLAPS

USE ZenonT(30)

FileCell == [item : Int, at : Nat]

\* The steps at which write_variable_size_log_item holds the lock.
Held == {"seek", "header", "first", "second", "count"}

----------------------------------------------------------------------------
(* Cells, parts and blocks *)

\* The numbers of cells of an item and its parts.
LEMMA Sizes ==
  ASSUME layout \in Layouts, NEW n
  PROVE  /\ HeaderCells \in Nat \ {0}
         /\ layout.packed \in Nat \ {0}
         /\ BlockCells = 1 + layout.packed /\ BlockCells \in Nat
         /\ \/ Blocks(n) = 0 /\ ItemCells(n) = HeaderCells
            \/ Blocks(n) = 1 /\ ItemCells(n) = HeaderCells + BlockCells
            \/ Blocks(n) = 2 /\ ItemCells(n) = HeaderCells + 2 * BlockCells
<1>1. /\ HeaderCells \in Nat \ {0}
      /\ layout.packed \in Nat \ {0}
      /\ BlockCells = 1 + layout.packed /\ BlockCells \in Nat
  BY LayoutAssumption, SMTT(30) DEF BlockCells
<1>2. Blocks(n) \in {0, 1, 2}
  BY SMTT(30) DEF Blocks
<1> HIDE DEF Blocks
<1>3. QED
  BY <1>1, <1>2, SMTT(30) DEF ItemCells

\* The cells of a part of an item.
LEMMA PartCells ==
  ASSUME NEW n \in Int, NEW i \in Nat, NEW j \in Nat, i <= j
  PROVE  /\ Part(n, i, j) \in Seq(FileCell)
         /\ Len(Part(n, i, j)) = j - i + 1
         /\ \A k \in 1 .. j - i + 1 : Part(n, i, j)[k] = Cell(n, i + k - 1)
<1> DEFINE m == j - i + 1
           P == [k \in 1 .. m |-> Cell(n, i + k - 1)]
<1>1. m \in Nat
  BY SMTT(30)
<1>2. \A k \in 1 .. m : Cell(n, i + k - 1) \in FileCell
  BY SMTT(30) DEF Cell, FileCell
<1> HIDE DEF m
<1>3. P \in [1 .. m -> FileCell]
  BY <1>2
<1>4. P \in Seq(FileCell) /\ Len(P) = m
  BY <1>1, <1>3, SMTT(30)
<1>5. QED
  BY <1>4 DEF Part, m

\* What is in a file after a write was in it, or was written, or is zero.
LEMMA WriteCells ==
  ASSUME NEW f \in Seq(FileCell), NEW p \in Nat, NEW s \in Seq(FileCell)
  PROVE  /\ Write(f, p, s) \in Seq(FileCell)
         /\ \A i \in DOMAIN Write(f, p, s) :
              \/ Write(f, p, s)[i] = Zero
              \/ \E j \in DOMAIN f : Write(f, p, s)[i] = f[j]
              \/ \E j \in DOMAIN s : Write(f, p, s)[i] = s[j]
         /\ Len(f) > 0 => Len(Write(f, p, s)) > 0
<1> DEFINE m == Longer(Len(f), p + Len(s))
           W == Write(f, p, s)
<1>1. m \in Nat /\ m >= Len(f)
  BY SMTT(30) DEF Longer
<1>2. Zero \in FileCell
  BY SMTT(30) DEF Zero, Cell, FileCell
<1>3. /\ \A j \in DOMAIN f : f[j] \in FileCell
      /\ \A j \in DOMAIN s : s[j] \in FileCell
  BY SMTT(30)
<1>4. W = [i \in 1 .. m |->
             IF i - p \in DOMAIN s THEN s[i - p]
             ELSE IF i \in DOMAIN f THEN f[i] ELSE Zero]
  BY DEF Write
<1> HIDE DEF m, W
<1>5. W \in [1 .. m -> FileCell]
  BY <1>2, <1>3, <1>4
<1>6. W \in Seq(FileCell) /\ Len(W) = m /\ DOMAIN W = 1 .. m
  BY <1>1, <1>5, SMTT(30)
<1>7. \A i \in 1 .. m : \/ W[i] = Zero
                        \/ \E j \in DOMAIN f : W[i] = f[j]
                        \/ \E j \in DOMAIN s : W[i] = s[j]
  BY <1>4
<1>8. QED
  BY <1>1, <1>6, <1>7, SMTT(30) DEF W

\* What is read is in the file.
LEMMA ReadCells ==
  ASSUME file \in Seq(FileCell), NEW p \in Nat, NEW n \in Nat,
         NEW k \in DOMAIN Read(p, n)
  PROVE  \E i \in DOMAIN file : Read(p, n)[k] = file[i]
<1> DEFINE e == IF p + n > Len(file) THEN Len(file) ELSE p + n
<1>1. e \in Nat /\ e <= Len(file) /\ Read(p, n) = SubSeq(file, p + 1, e)
  BY SMTT(30) DEF Read
<1> HIDE DEF e
<1>2. /\ SubSeq(file, p + 1, e)[k] = file[p + k]
      /\ p + k \in DOMAIN file
  BY <1>1, SMTT(30)
<1>3. QED
  BY <1>1, <1>2

----------------------------------------------------------------------------
(* The inductive invariant: a file that holds the last cell of an item     *)
(* holds an item that was written as a whole.                              *)

LastWhole ==
  \A i \in DOMAIN file, n \in DOMAIN ops :
    file[i] = Cell(n, ItemCells(n)) => n \in whole

WInv ==
  /\ layout \in Layouts
  /\ file \in Seq(FileCell) /\ pos \in Nat /\ offset \in Nat
  /\ Len(file) > 0 /\ record_count \in Nat
  /\ ops \in Seq(Ops)
  /\ \A i \in DOMAIN file : file[i].item <= Len(ops)
  /\ call \in [item : Nat, at : {"idle", "lock", "head"} \cup Held]
  /\ call.at # "idle" => call.item \in DOMAIN ops
  /\ LastWhole
  /\ ~ioError => (lock = 0 <=> call.at \notin Held)

\* The invariant holds for a new file.
LEMMA InitWInv == Init => WInv
<1> SUFFICES ASSUME Init PROVE WInv
  OBVIOUS
<1> DEFINE Z == [i \in 1 .. PreallocCells |-> Zero]
<1>1. Zero \in FileCell /\ Zero.item = 0 /\ FileHeader(0) \in FileCell
      /\ FileHeader(0).item = -1
  BY SMTT(30) DEF Zero, Cell, FileCell, FileHeader
<1>2. Z \in [1 .. PreallocCells -> FileCell] /\ PreallocCells \in Nat
  BY <1>1, LayoutAssumption
<1>3. Z \in Seq(FileCell) /\ Len(Z) = PreallocCells
  BY <1>2, SMTT(30)
<1>4. \A i \in 1 .. Len(Z) : Z[i].item = 0
  BY <1>1, <1>3
<1> HIDE DEF Z
<1>5. file = <<FileHeader(0)>> \o Z
  BY DEF Init, Z
<1>6. /\ file \in Seq(FileCell) /\ Len(file) > 0
      /\ \A i \in DOMAIN file : file[i].item = -1 \/ file[i].item = 0
  BY <1>1, <1>3, <1>4, <1>5, SMTT(30)
<1>7. ops = <<>> /\ ops \in Seq(Ops) /\ Len(ops) = 0 /\ DOMAIN ops = {}
  BY SMTT(30) DEF Init
<1>8. LastWhole
  BY <1>7 DEF LastWhole
<1>9. /\ call.at = "idle" /\ lock = 0
      /\ call \in [item : Nat, at : {"idle", "lock", "head"} \cup Held]
  BY DEF Init, Idle
<1>10. ~ioError => (lock = 0 <=> call.at \notin Held)
  BY <1>9 DEF Held
<1>11. layout \in Layouts /\ pos = 1 /\ offset = 1 /\ record_count = 0
  BY DEF Init
<1>12. QED
  BY <1>6, <1>7, <1>8, <1>9, <1>10, <1>11, SMTT(30) DEF WInv

\* Writing cells of an item, or the log header, keeps what is known of the file.
LEMMA WriteKeeps ==
  ASSUME WInv, NEW n \in DOMAIN ops, NEW s \in Seq(FileCell), NEW p \in Nat,
         \A k \in DOMAIN s : s[k].item = n \/ s[k].item < 0,
         file' = Write(file, p, s), ops' = ops, layout' = layout,
         whole \subseteq whole',
         \A k \in DOMAIN s : s[k] = Cell(n, ItemCells(n)) => n \in whole'
  PROVE  /\ file' \in Seq(FileCell) /\ Len(file') > 0
         /\ \A i \in DOMAIN file' : file'[i].item <= Len(ops')
         /\ LastWhole'
<1>0. file \in Seq(FileCell) /\ Len(file) > 0 /\ ops \in Seq(Ops)
  BY DEF WInv
<1>1. /\ file' \in Seq(FileCell) /\ Len(file') > 0
      /\ \A i \in DOMAIN file' : \/ file'[i] = Zero
                                 \/ \E j \in DOMAIN file : file'[i] = file[j]
                                 \/ \E j \in DOMAIN s : file'[i] = s[j]
  <2> DEFINE W == Write(file, p, s)
  <2>1. /\ W \in Seq(FileCell) /\ Len(W) > 0
        /\ \A i \in DOMAIN W : \/ W[i] = Zero
                               \/ \E j \in DOMAIN file : W[i] = file[j]
                               \/ \E j \in DOMAIN s : W[i] = s[j]
    BY <1>0, WriteCells
  <2> HIDE DEF W
  <2>2. file' = W
    BY DEF W
  <2>3. QED
    BY <2>1, <2>2
<1>2. n \in 1 .. Len(ops) /\ Len(ops) \in Nat
  BY <1>0, SMTT(30)
<1>3. Zero.item = 0
  BY DEF Zero, Cell
<1>4. \A i \in DOMAIN file' : file'[i].item <= Len(ops)
  <2>1. \A j \in DOMAIN file : file[j].item <= Len(ops)
    BY DEF WInv
  <2>2. \A j \in DOMAIN s : s[j].item <= Len(ops)
    <3>1. \A j \in DOMAIN s : s[j] \in FileCell
      BY SMTT(30)
    <3>2. \A j \in DOMAIN s : s[j].item \in Int
      BY <3>1 DEF FileCell
    <3>3. QED
      BY <1>2, <3>2, SMTT(30)
  <2>3. QED
    BY <1>1, <1>2, <1>3, <2>1, <2>2, SMTT(30)
<1>5. ASSUME NEW i \in DOMAIN file', NEW m \in DOMAIN ops,
             file'[i] = Cell(m, ItemCells(m))
      PROVE  m \in whole'
  <2>1. file'[i].item = m /\ m \in 1 .. Len(ops)
    BY <1>0, <1>5, SMTT(30) DEF Cell
  <2>2. CASE file'[i] = Zero
    BY <1>3, <2>1, <2>2, SMTT(30)
  <2>3. CASE \E j \in DOMAIN file : file'[i] = file[j]
    BY <1>5, <2>3 DEF WInv, LastWhole
  <2>4. CASE \E j \in DOMAIN s : file'[i] = s[j]
    <3>1. PICK j \in DOMAIN s : file'[i] = s[j]
      BY <2>4
    <3>2. m = n
      BY <1>0, <2>1, <3>1, SMTT(30)
    <3>3. QED
      BY <1>5, <3>1, <3>2
  <2>5. QED
    BY <1>1, <2>2, <2>3, <2>4
<1>6. \A m : ItemCells(m)' = ItemCells(m)
  BY DEF ItemCells, Blocks, HasOld, HasNew, BlockCells
<1>7. LastWhole'
  BY <1>5, <1>6 DEF LastWhole
<1>8. QED
  BY <1>1, <1>4, <1>7

----------------------------------------------------------------------------
(* Every step keeps the invariant *)

\* A call to write a log item begins.
LEMMA BeginStep == WInv /\ Begin => WInv'
<1> SUFFICES ASSUME WInv, Begin PROVE WInv'
  OBVIOUS
<1>0. ops \in Seq(Ops) /\ file \in Seq(FileCell)
  BY DEF WInv
<1>1. PICK op \in Ops : ops' = Append(ops, op)
  BY DEF Begin
<1>2. /\ ops' \in Seq(Ops) /\ Len(ops') = Len(ops) + 1
      /\ \A m \in DOMAIN ops : ops'[m] = ops[m]
      /\ DOMAIN ops' = DOMAIN ops \cup {Len(ops) + 1}
  BY <1>0, <1>1, SMTT(30)
<1>3. /\ file' = file /\ layout' = layout /\ pos' = pos /\ lock' = lock
      /\ record_count' = record_count /\ offset' = offset /\ whole' = whole
      /\ ioError' = ioError /\ call.at = "idle"
      /\ call'.at = "lock" /\ call'.item = Len(ops) + 1
  BY DEF Begin, manager, Idle
<1>4. \A i \in DOMAIN file : file[i].item \in Int /\ file[i].item <= Len(ops)
  <2>1. \A i \in DOMAIN file : file[i] \in FileCell
    BY <1>0, SMTT(30)
  <2>2. QED
    BY <2>1 DEF WInv, FileCell
<1>5. \A m \in DOMAIN ops : ItemCells(m)' = ItemCells(m)
  BY <1>2, <1>3 DEF ItemCells, Blocks, HasOld, HasNew, BlockCells
<1>6. LastWhole'
  <2> SUFFICES ASSUME NEW i \in DOMAIN file', NEW m \in DOMAIN ops',
                      file'[i] = Cell(m, ItemCells(m)')
               PROVE  m \in whole'
    BY DEF LastWhole
  <2>1. file[i].item = m /\ i \in DOMAIN file
    BY <1>3, SMTT(30) DEF Cell
  <2>2. m \in DOMAIN ops
    BY <1>0, <1>2, <1>4, <2>1, SMTT(30)
  <2>3. QED
    BY <1>3, <1>5, <2>1, <2>2 DEF WInv, LastWhole
<1>7. \A i \in DOMAIN file' : file'[i].item <= Len(ops')
  BY <1>0, <1>2, <1>3, <1>4, SMTT(30)
<1>8. ~ioError' => (lock' = 0 <=> call'.at \notin Held)
  BY <1>3 DEF WInv, Held
<1>9. /\ call'.item \in DOMAIN ops'
      /\ call' \in [item : Nat, at : {"idle", "lock", "head"} \cup Held]
  BY <1>0, <1>2, <1>3, SMTT(30) DEF Begin
<1>10. QED
  BY <1>2, <1>3, <1>6, <1>7, <1>8, <1>9 DEF WInv

\* A step that writes nothing to the file keeps what is known of it.
LEMMA SameFile ==
  ASSUME WInv, file' = file, ops' = ops, layout' = layout, whole' = whole
  PROVE  /\ layout' \in Layouts /\ file' \in Seq(FileCell)
         /\ Len(file') > 0 /\ ops' \in Seq(Ops)
         /\ \A i \in DOMAIN file' : file'[i].item <= Len(ops')
         /\ LastWhole'
<1>1. \A m : ItemCells(m)' = ItemCells(m)
  BY DEF ItemCells, Blocks, HasOld, HasNew, BlockCells
<1>2. LastWhole'
  BY <1>1 DEF LastWhole, WInv
<1>3. QED
  BY <1>2 DEF WInv

\* Taking the lock, seeking and counting leave the file alone.
LEMMA QuietStep == WInv /\ (Lock \/ Seek \/ Count) => WInv'
<1> SUFFICES ASSUME WInv, Lock \/ Seek \/ Count PROVE WInv'
  OBVIOUS
<1>1. /\ file' = file /\ ops' = ops /\ layout' = layout /\ whole' = whole
      /\ ioError' = ioError /\ call.at # "idle"
  BY DEF Lock, Seek, Count, history
<1>2. /\ call'.item = call.item
      /\ call' \in [item : Nat, at : {"idle", "lock", "head"} \cup Held]
  BY DEF Lock, Seek, Count, WInv, Held
<1>6. ~ioError' => (lock' = 0 <=> call'.at \notin Held)
  <2>1. CASE Lock
    <3>1. lock' = 1 /\ call'.at = "seek"
      BY <2>1 DEF Lock, WInv
    <3>2. QED
      BY <3>1, SMTT(30) DEF Held
  <2>2. CASE Seek
    <3>1. lock' = lock /\ call.at = "seek" /\ call'.at = "header"
      BY <2>2 DEF Seek, WInv
    <3>2. QED
      BY <1>1, <3>1 DEF WInv, Held
  <2>3. CASE Count
    <3>1. lock' = 0 /\ call'.at = "head"
      BY <2>3 DEF Count, WInv
    <3>2. QED
      BY <3>1 DEF Held
  <2>4. QED
    BY <2>1, <2>2, <2>3
<1>3. HeaderCells \in Nat /\ ItemCells(call.item) \in Nat
  BY Sizes, SMTT(30) DEF WInv
<1>4. pos' \in Nat /\ offset' \in Nat /\ record_count' \in Nat
  <2>1. pos \in Nat /\ offset \in Nat /\ record_count \in Nat
    BY DEF WInv
  <2>2. record_count * HeaderCells \in Nat
    BY <1>3, <2>1, SMTT(30)
  <2>3. QED
    BY <1>3, <2>1, <2>2, SMTT(30) DEF Lock, Seek, Count
<1>5. QED
  BY <1>1, <1>2, <1>4, <1>6, SameFile DEF WInv

\* What a write call stores: cells of the item, and its last cell only in the
\* last call.
LEMMA NextPartCells ==
  ASSUME WInv, Writing
  PROVE  /\ call.item \in DOMAIN ops
         /\ NextPart(call.item) \in Seq(FileCell)
         /\ \A k \in DOMAIN NextPart(call.item) :
              /\ NextPart(call.item)[k].item = call.item
              /\ NextPart(call.item)[k] = Cell(call.item, ItemCells(call.item))
                   => /\ Following(call.item) = "count"
                      /\ k = Len(NextPart(call.item))
         /\ Following(call.item) \in {"first", "second", "count"}
         /\ call.at # "header" => Len(NextPart(call.item)) > 1
<1> DEFINE n == call.item
           h == HeaderCells
           b == BlockCells
<1>1. n \in DOMAIN ops /\ ops \in Seq(Ops) /\ layout \in Layouts
  BY DEF WInv, Writing
<1>2. n \in Nat
  BY <1>1, SMTT(30)
<1>3. /\ h \in Nat \ {0} /\ b \in Nat /\ b > 1
      /\ \/ Blocks(n) = 0 /\ ItemCells(n) = h
         \/ Blocks(n) = 1 /\ ItemCells(n) = h + b
         \/ Blocks(n) = 2 /\ ItemCells(n) = h + 2 * b
  BY <1>1, Sizes, SMTT(30)
<1> HIDE DEF h, b, n
<1>4. \A i, j \in Nat : i <= j =>
        /\ Part(n, i, j) \in Seq(FileCell)
        /\ Len(Part(n, i, j)) = j - i + 1
        /\ \A k \in DOMAIN Part(n, i, j) :
             /\ Part(n, i, j)[k].item = n
             /\ Part(n, i, j)[k].at = i + k - 1
             /\ k \in 1 .. j - i + 1
  <2> TAKE i, j \in Nat
  <2> HAVE i <= j
  <2>1. /\ Part(n, i, j) \in Seq(FileCell)
        /\ Len(Part(n, i, j)) = j - i + 1
        /\ \A k \in 1 .. j - i + 1 : Part(n, i, j)[k] = Cell(n, i + k - 1)
    BY <1>2, PartCells, SMTT(30)
  <2>2. DOMAIN Part(n, i, j) = 1 .. j - i + 1
    BY <2>1, SMTT(30)
  <2>3. QED
    BY <2>1, <2>2, SMTT(30) DEF Cell
<1>5. \A x : Cell(n, x).at = x
  BY DEF Cell
<1>6. CASE call.at = "header"
  <2>1. NextPart(n) = Part(n, 1, h)
    BY <1>6 DEF NextPart, h
  <2>2. Following(n) = IF Blocks(n) = 0 THEN "count" ELSE "first"
    BY <1>6 DEF Following
  <2>3. /\ NextPart(n) \in Seq(FileCell)
        /\ call.at # "header" => Len(NextPart(n)) > 1
        /\ \A k \in DOMAIN NextPart(n) :
             /\ NextPart(n)[k].item = n
             /\ NextPart(n)[k].at = ItemCells(n) =>
                  Following(n) = "count" /\ k = Len(NextPart(n))
    <3> DEFINE P == NextPart(n)
    <3>1. 1 \in Nat /\ h \in Nat /\ 1 <= h
      BY <1>3, SMTT(30)
    <3>2. /\ P \in Seq(FileCell) /\ Len(P) = (h) - (1) + 1
          /\ \A k \in DOMAIN P : P[k].item = n /\ P[k].at = (1) + k - 1
      <4>1. 1 \in Nat /\ h \in Nat /\ 1 <= h
        BY <3>1
      <4>2. /\ Part(n, 1, h) \in Seq(FileCell)
            /\ Len(Part(n, 1, h)) = h - 1 + 1
            /\ \A k \in DOMAIN Part(n, 1, h) :
                 /\ Part(n, 1, h)[k].item = n
                 /\ Part(n, 1, h)[k].at = 1 + k - 1
        BY <1>4, <4>1
      <4>3. QED
        BY <2>1, <4>2
    <3> HIDE DEF P
    <3>3. \A k \in DOMAIN P : k \in 1 .. Len(P)
      BY <3>2, SMTT(30)
    <3>4. \A k \in DOMAIN P : P[k].at = ItemCells(n) =>
            Following(n) = "count" /\ k = Len(P)
      BY <1>3, <2>2, <3>2, <3>3, SMTT(30)
    <3>5. QED
      BY <1>6, <3>2, <3>4 DEF P
  <2>4. QED
    BY <1>1, <1>5, <2>2, <2>3 DEF n
<1>7. CASE call.at = "first"
  <2>1. NextPart(n) = Part(n, h + 1, h + b)
    BY <1>7 DEF NextPart, h, b
  <2>2. Following(n) = IF Blocks(n) = 1 THEN "count" ELSE "second"
    BY <1>7 DEF Following
  <2>3. /\ NextPart(n) \in Seq(FileCell)
        /\ call.at # "header" => Len(NextPart(n)) > 1
        /\ \A k \in DOMAIN NextPart(n) :
             /\ NextPart(n)[k].item = n
             /\ NextPart(n)[k].at = ItemCells(n) =>
                  Following(n) = "count" /\ k = Len(NextPart(n))
    <3> DEFINE P == NextPart(n)
    <3>1. h + 1 \in Nat /\ h + b \in Nat /\ h + 1 <= h + b
      BY <1>3, SMTT(30)
    <3>2. /\ P \in Seq(FileCell) /\ Len(P) = (h + b) - (h + 1) + 1
          /\ \A k \in DOMAIN P : P[k].item = n /\ P[k].at = (h + 1) + k - 1
      BY <1>4, <2>1, <3>1, ZenonT(40), Zenon
    <3> HIDE DEF P
    <3>3. \A k \in DOMAIN P : k \in 1 .. Len(P)
      BY <3>2, SMTT(30)
    <3>4. \A k \in DOMAIN P : P[k].at = ItemCells(n) =>
            Following(n) = "count" /\ k = Len(P)
      BY <1>3, <2>2, <3>2, <3>3, SMTT(30)
    <3>5. Len(P) > 1
      BY <1>3, <3>2, SMTT(30)
    <3>6. QED
      BY <3>2, <3>4, <3>5 DEF P
  <2>4. QED
    BY <1>1, <1>5, <2>2, <2>3 DEF n
<1>8. CASE call.at = "second"
  <2>1. NextPart(n) = Part(n, h + b + 1, h + 2 * b)
    BY <1>8 DEF NextPart, h, b
  <2>2. Following(n) = "count"
    BY <1>8 DEF Following
  <2>3. /\ NextPart(n) \in Seq(FileCell)
        /\ call.at # "header" => Len(NextPart(n)) > 1
        /\ \A k \in DOMAIN NextPart(n) :
             /\ NextPart(n)[k].item = n
             /\ NextPart(n)[k].at = ItemCells(n) =>
                  Following(n) = "count" /\ k = Len(NextPart(n))
    <3> DEFINE P == NextPart(n)
    <3>1. h + b + 1 \in Nat /\ h + 2 * b \in Nat /\ h + b + 1 <= h + 2 * b
      BY <1>3, SMTT(30)
    <3>2. /\ P \in Seq(FileCell) /\ Len(P) = (h + 2 * b) - (h + b + 1) + 1
          /\ \A k \in DOMAIN P : P[k].item = n /\ P[k].at = (h + b + 1) + k - 1
      BY <1>4, <2>1, <3>1, ZenonT(40), Zenon
    <3> HIDE DEF P
    <3>3. \A k \in DOMAIN P : k \in 1 .. Len(P)
      BY <3>2, SMTT(30)
    <3>4. \A k \in DOMAIN P : P[k].at = ItemCells(n) =>
            Following(n) = "count" /\ k = Len(P)
      BY <1>3, <2>2, <3>2, <3>3, SMTT(30)
    <3>5. Len(P) > 1
      BY <1>3, <3>2, SMTT(30)
    <3>6. QED
      BY <3>2, <3>4, <3>5 DEF P
  <2>4. QED
    BY <1>1, <1>5, <2>2, <2>3 DEF n
<1>9. QED
  BY <1>6, <1>7, <1>8 DEF Writing

\* One write of a part of an item.
LEMMA WritePartStep == WInv /\ WritePart => WInv'
<1> SUFFICES ASSUME WInv, WritePart PROVE WInv'
  OBVIOUS
<1> DEFINE n == call.item
           s == NextPart(n)
<1>1. /\ n \in DOMAIN ops /\ s \in Seq(FileCell)
      /\ \A k \in DOMAIN s :
           /\ s[k].item = n
           /\ s[k] = Cell(n, ItemCells(n)) => Following(n) = "count"
      /\ Following(n) \in {"first", "second", "count"}
  BY NextPartCells DEF WritePart
<1>2. /\ file' = Write(file, pos, s) /\ pos' = pos + Len(s)
      /\ call' = [call EXCEPT !.at = Following(n)]
      /\ whole' = IF Following(n) = "count" THEN whole \cup {n} ELSE whole
      /\ layout' = layout /\ lock' = lock /\ record_count' = record_count
      /\ offset' = offset /\ ops' = ops /\ ioError' = ioError
      /\ call.at \in {"header", "first", "second"}
  BY DEF WritePart, Writing
<1> HIDE DEF s
<1>3. pos \in Nat /\ Len(s) \in Nat /\ call \in [item : Nat, at : {"idle", "lock", "head"} \cup Held]
  BY <1>1, SMTT(30) DEF WInv
<1>4. /\ call'.item = n /\ call'.at \in Held /\ call.at \in Held
      /\ call' \in [item : Nat, at : {"idle", "lock", "head"} \cup Held]
  BY <1>1, <1>2, <1>3 DEF Held
<1>5. /\ file' \in Seq(FileCell) /\ Len(file') > 0
      /\ \A i \in DOMAIN file' : file'[i].item <= Len(ops')
      /\ LastWhole'
  <2> HIDE DEF n
  <2>1. \A k \in DOMAIN s : s[k].item = n \/ s[k].item < 0
    BY <1>1
  <2>2. whole \subseteq whole'
    BY <1>2
  <2>3. \A k \in DOMAIN s : s[k] = Cell(n, ItemCells(n)) => n \in whole'
    BY <1>1, <1>2
  <2>4. QED
    BY <1>1, <1>2, <1>3, <2>1, <2>2, <2>3, WriteKeeps
<1>6. ~ioError' => (lock' = 0 <=> call'.at \notin Held)
  BY <1>2, <1>4 DEF WInv
<1>7. QED
  BY <1>1, <1>2, <1>3, <1>4, <1>5, <1>6, SMTT(30) DEF WInv

\* A prefix of a part, and not all of it, holds no last cell.
LEMMA CutPart ==
  ASSUME WInv, Writing, NEW k \in 0 .. Len(NextPart(call.item)) - 1,
         file' = Write(file, pos, SubSeq(NextPart(call.item), 1, k)),
         ops' = ops, layout' = layout, whole' = whole
  PROVE  /\ file' \in Seq(FileCell) /\ Len(file') > 0
         /\ \A i \in DOMAIN file' : file'[i].item <= Len(ops')
         /\ LastWhole'
<1> DEFINE n == call.item
           P == NextPart(n)
           s == SubSeq(P, 1, k)
<1>1. /\ n \in DOMAIN ops /\ P \in Seq(FileCell)
      /\ \A i \in DOMAIN P :
           /\ P[i].item = n
           /\ P[i] = Cell(n, ItemCells(n)) => i = Len(P)
  BY NextPartCells
<1>2. k \in 0 .. Len(P) - 1 /\ file' = Write(file, pos, s) /\ pos \in Nat
  BY DEF WInv
<1> HIDE DEF P, n
<1>3. /\ s \in Seq(FileCell)
      /\ \A i \in DOMAIN s : i \in DOMAIN P /\ i # Len(P) /\ s[i] = P[i]
  BY <1>1, <1>2, SMTT(30)
<1> HIDE DEF s
<1>4. \A i \in DOMAIN s : s[i].item = n \/ s[i].item < 0
  BY <1>1, <1>3
<1>5. \A i \in DOMAIN s : s[i] = Cell(n, ItemCells(n)) => n \in whole'
  BY <1>1, <1>3
<1>6. QED
  BY <1>1, <1>2, <1>3, <1>4, <1>5, WriteKeeps

\* A write that is cut short or fails.
LEMMA FaultStep == WInv /\ (ShortWrite \/ IoError) => WInv'
<1> SUFFICES ASSUME WInv, ShortWrite \/ IoError PROVE WInv'
  OBVIOUS
<1>1. /\ layout' = layout /\ ops' = ops /\ whole' = whole
      /\ record_count' = record_count /\ offset' = offset
  BY DEF ShortWrite, IoError, manager
<1>2. /\ call'.at = "idle"
      /\ call' \in [item : Nat, at : {"idle", "lock", "head"} \cup Held]
  BY SMTT(30) DEF ShortWrite, IoError, Idle
<1>3. ~ioError' => lock' = 0
  BY DEF ShortWrite, IoError
<1>4. /\ pos' \in Nat
      /\ file' \in Seq(FileCell) /\ Len(file') > 0
      /\ \A i \in DOMAIN file' : file'[i].item <= Len(ops')
      /\ LastWhole'
  <2>0. pos \in Nat
    BY DEF WInv
  <2>1. CASE ShortWrite
    <3>1. PICK k \in 0 .. Len(NextPart(call.item)) - 1 :
            /\ file' = Write(file, pos, SubSeq(NextPart(call.item), 1, k))
            /\ pos' = pos + k
      BY <2>1 DEF ShortWrite
    <3>2. Writing
      BY <2>1 DEF ShortWrite
    <3>3. QED
      BY <1>1, <2>0, <3>1, <3>2, CutPart, SMTT(30)
  <2>2. CASE IoError /\ file' = file
    <3>1. pos' = pos
      BY <2>2 DEF IoError, manager
    <3>2. QED
      BY <1>1, <2>0, <2>2, <3>1, SameFile
  <2>3. CASE IoError /\ file' # file
    <3>1. /\ call.at \in {"first", "second"} /\ pos' = pos
          /\ file' = Write(file, pos, SubSeq(NextPart(call.item), 1, 1))
      BY <2>3 DEF IoError, manager
    <3>2. Writing /\ call.at # "header"
      BY <3>1 DEF Writing
    <3>3. NextPart(call.item) \in Seq(FileCell)
          /\ Len(NextPart(call.item)) > 1
      BY <3>2, NextPartCells
    <3>4. 1 \in 0 .. Len(NextPart(call.item)) - 1
      BY <3>3, SMTT(30)
    <3>5. QED
      BY <1>1, <2>0, <3>1, <3>2, <3>4, CutPart
  <2>4. QED
    BY <2>1, <2>2, <2>3
<1>5. ~ioError' => (lock' = 0 <=> call'.at \notin Held)
  BY <1>2, <1>3 DEF Held
<1>6. QED
  BY <1>1, <1>2, <1>4, <1>5 DEF WInv

\* The header of the log is written over.
LEMMA WriteHeaderStep == WInv /\ WriteHeader => WInv'
<1> SUFFICES ASSUME WInv, WriteHeader PROVE WInv'
  OBVIOUS
<1> DEFINE s == <<FileHeader(record_count)>>
<1>1. /\ layout' = layout /\ ops' = ops /\ whole' = whole /\ lock' = lock
      /\ record_count' = record_count /\ offset' = offset
      /\ call.at = "head" /\ call' = Idle
  BY DEF WriteHeader
<1>2. /\ call'.at = "idle"
      /\ call' \in [item : Nat, at : {"idle", "lock", "head"} \cup Held]
  BY <1>1 DEF Idle
<1>3. pos' \in Nat
  BY SMTT(30) DEF WriteHeader, WInv
<1>4. /\ file' \in Seq(FileCell) /\ Len(file') > 0
      /\ \A i \in DOMAIN file' : file'[i].item <= Len(ops')
      /\ LastWhole'
  <2>1. CASE file' = file
    BY <1>1, <2>1, SameFile
  <2>2. CASE file' = Write(file, 0, s)
    <3>1. call.item \in DOMAIN ops /\ ops \in Seq(Ops)
      BY <1>1 DEF WInv
    <3>2. FileHeader(record_count) \in FileCell
          /\ FileHeader(record_count).item = -1
      BY SMTT(30) DEF FileHeader, FileCell, WInv
    <3>3. s \in Seq(FileCell) /\ \A k \in DOMAIN s : s[k].item = -1
      BY <3>2, SMTT(30)
    <3> HIDE DEF s
    <3>4. \A k \in DOMAIN s :
            s[k] = Cell(call.item, ItemCells(call.item)) => call.item \in whole'
      <4>1. call.item \in Nat
        BY <3>1, SMTT(30)
      <4>2. QED
        BY <3>3, <4>1, SMTT(30) DEF Cell
    <3>5. QED
      BY <1>1, <2>2, <3>1, <3>3, <3>4, WriteKeeps, SMTT(30)
  <2>3. QED
    BY <2>1, <2>2 DEF WriteHeader
<1>5. ~ioError' => (lock' = 0 <=> call'.at \notin Held)
  <2>1. ~ioError' => ~ioError
    BY DEF WriteHeader
  <2>2. QED
    BY <1>1, <1>2, <2>1 DEF WInv, Held
<1>6. QED
  BY <1>1, <1>2, <1>3, <1>4, <1>5 DEF WInv

\* A restart keeps the file.
LEMMA RestartStep == WInv /\ Restart => WInv'
<1> SUFFICES ASSUME WInv, Restart PROVE WInv'
  OBVIOUS
<1>1. /\ file' = file /\ ops' = ops /\ layout' = layout /\ whole' = whole
      /\ pos' = 1 /\ offset' = 1 /\ record_count' = file[1].at
      /\ lock' = 0 /\ call' = Idle
  BY DEF Restart
<1>2. /\ call'.at = "idle"
      /\ call' \in [item : Nat, at : {"idle", "lock", "head"} \cup Held]
  BY <1>1 DEF Idle
<1>3. record_count' \in Nat
  <2>1. file \in Seq(FileCell) /\ Len(file) > 0
    BY DEF WInv
  <2>2. file[1] \in FileCell
    BY <2>1, SMTT(30)
  <2>3. QED
    BY <1>1, <2>2 DEF FileCell
<1>4. ~ioError' => (lock' = 0 <=> call'.at \notin Held)
  BY <1>1, <1>2 DEF Held
<1>5. QED
  BY <1>1, <1>2, <1>3, <1>4, SameFile DEF WInv

\* Every step keeps the invariant.
LEMMA StepWInv == WInv /\ [Next]_wvars => WInv'
<1> SUFFICES ASSUME WInv, [Next]_wvars PROVE WInv'
  OBVIOUS
<1>1. CASE UNCHANGED wvars
  <2>1. /\ file' = file /\ ops' = ops /\ layout' = layout /\ whole' = whole
        /\ pos' = pos /\ offset' = offset /\ record_count' = record_count
        /\ lock' = lock /\ call' = call /\ ioError' = ioError
    BY <1>1 DEF wvars, manager, history
  <2>2. QED
    BY <2>1, SameFile DEF WInv
<1>2. QED
  BY <1>1, BeginStep, QuietStep, WritePartStep, FaultStep, WriteHeaderStep,
     RestartStep DEF Next

----------------------------------------------------------------------------
(* What the readers accept *)

\* An item that a reader accepts was written to its last cell.
LEMMA AcceptedLast ==
  ASSUME WInv, NEW p \in Nat, NEW sized \in BOOLEAN, ItemAt(p, sized) # 0
  PROVE  ItemAt(p, sized) \in whole
<1> DEFINE n == HeaderAt(p)
           data == p + HeaderCells
           old == IF HasOld(n) THEN Block(data, sized) ELSE NoBlock(data)
           new == IF HasNew(n) THEN Block(old.next, sized)
                  ELSE NoBlock(old.next)
<1>1. /\ ItemAt(p, sized) = n /\ n # 0
      /\ Intact(n, old.data, new.data)
  BY DEF ItemAt
<1>2. n \in DOMAIN ops /\ Read(p, HeaderCells) = Part(n, 1, HeaderCells)
  BY <1>1 DEF HeaderAt
<1>3. /\ file \in Seq(FileCell) /\ ops \in Seq(Ops) /\ layout \in Layouts
  BY DEF WInv
<1>4. /\ HeaderCells \in Nat \ {0} /\ layout.packed \in Nat \ {0}
      /\ BlockCells = 1 + layout.packed /\ BlockCells \in Nat
      /\ DataCells \in Nat
  BY <1>3, Sizes, LayoutAssumption
<1>5. \A q \in Nat : /\ \/ Block(q, sized).data = <<>>
                        \/ \E r, m \in Nat : Block(q, sized).data = Read(r, m)
                     /\ Block(q, sized).next \in Nat
  <2> TAKE q \in Nat
  <2>1. CASE Block(q, sized) = SizedBlock(q)
    <3>1. \/ Block(q, sized).data = <<>> /\ Block(q, sized).next = q
          \/ /\ Block(q, sized).data = Read(q + 1, layout.packed)
             /\ Block(q, sized).next = q + BlockCells
      BY <2>1, SMTT(30) DEF SizedBlock
    <3>2. QED
      BY <1>4, <3>1, SMTT(30)
  <2>2. CASE Block(q, sized) = RawBlock(q)
    <3>1. /\ Block(q, sized).data = Read(q, DataCells)
          /\ Block(q, sized).next = q + DataCells
      BY <2>2, SMTT(30) DEF RawBlock
    <3>2. QED
      BY <1>4, <3>1, SMTT(30)
  <2>3. QED
    BY <2>1, <2>2 DEF Block
<1>6. data \in Nat /\ old.next \in Nat
  <2>1. data \in Nat
    BY <1>4, SMTT(30)
  <2>2. NoBlock(data).next = data
    BY DEF NoBlock
  <2>3. QED
    BY <1>5, <2>1, <2>2
<1>7. n \in Int
  BY <1>2, <1>3, SMTT(30)
<1> HIDE DEF n
<1>7a. \A i, j \in Nat : i <= j =>
        /\ Part(n, i, j) \in Seq(FileCell)
        /\ Len(Part(n, i, j)) = j - i + 1
        /\ \A k \in 1 .. j - i + 1 : Part(n, i, j)[k] = Cell(n, i + k - 1)
  BY <1>7, PartCells
<1>8. ASSUME NEW i \in Nat, NEW j \in Nat, i <= j, j = ItemCells(n),
             NEW r \in Nat, NEW m \in Nat, Part(n, i, j) = Read(r, m)
      PROVE  n \in whole
  <2>1. /\ Part(n, i, j) \in Seq(FileCell) /\ Len(Part(n, i, j)) = j - i + 1
        /\ \A k \in 1 .. j - i + 1 : Part(n, i, j)[k] = Cell(n, i + k - 1)
    BY <1>7a, <1>8
  <2> DEFINE k == j - i + 1
  <2>2. k \in 1 .. j - i + 1 /\ i + k - 1 = j
    BY <1>8, SMTT(30)
  <2>2a. k \in DOMAIN Part(n, i, j)
    BY <2>1, <2>2, SMTT(30)
  <2>3. Read(r, m)[k] = Cell(n, ItemCells(n)) /\ k \in DOMAIN Read(r, m)
    BY <1>8, <2>1, <2>2, <2>2a
  <2> HIDE DEF k
  <2>4. \E x \in DOMAIN file : Read(r, m)[k] = file[x]
    BY <1>3, <1>8, <2>3, ReadCells
  <2>5. QED
    BY <1>2, <2>3, <2>4 DEF WInv, LastWhole
<1>9. ASSUME NEW i \in Nat, NEW j \in Nat, i <= j, j = ItemCells(n),
             NEW q \in Nat, Part(n, i, j) = Block(q, sized).data
      PROVE  n \in whole
  <2>1. Part(n, i, j) \in Seq(FileCell) /\ Len(Part(n, i, j)) = j - i + 1
    BY <1>7a, <1>9
  <2>2. Part(n, i, j) # <<>>
    BY <1>9, <2>1, SMTT(30)
  <2>5. \/ Block(q, sized).data = <<>>
        \/ \E r, m \in Nat : Block(q, sized).data = Read(r, m)
    BY <1>5
  <2>3. PICK r, m \in Nat : Part(n, i, j) = Read(r, m)
    BY <1>9, <2>2, <2>5
  <2>4. QED
    BY <1>8, <1>9, <2>3
<1>10. CASE ~HasOld(n) /\ ~HasNew(n)
  <2>1. ItemCells(n) = HeaderCells
    BY <1>4, <1>10, SMTT(30) DEF ItemCells, Blocks
  <2>2. QED
    BY <1>1, <1>2, <1>4, <1>8, <2>1, SMTT(30)
<1>11. CASE HasNew(n)
  <2> DEFINE i == HeaderCells + (Blocks(n) - 1) * BlockCells + 2
  <2>1. Part(n, i, HeaderCells + Blocks(n) * BlockCells) = new.data
    BY <1>1, <1>11 DEF Intact
  <2>2. new.data = Block(old.next, sized).data
    BY <1>11
  <2>3. Blocks(n) = 1 \/ Blocks(n) = 2
    BY <1>11, SMTT(30) DEF Blocks
  <2>4. /\ i \in Nat /\ ItemCells(n) \in Nat /\ i <= ItemCells(n)
        /\ ItemCells(n) = HeaderCells + Blocks(n) * BlockCells
    BY <1>4, <2>3, SMTT(30) DEF ItemCells
  <2> HIDE DEF i, old, new
  <2>5. QED
    BY <1>1, <1>6, <1>9, <2>1, <2>2, <2>4
<1>12. CASE HasOld(n) /\ ~HasNew(n)
  <2> DEFINE i == HeaderCells + (1 - 1) * BlockCells + 2
  <2>1. Part(n, i, HeaderCells + 1 * BlockCells) = old.data
    BY <1>1, <1>12 DEF Intact
  <2>2. old.data = Block(data, sized).data
    BY <1>12
  <2>3. Blocks(n) = 1
    BY <1>12, SMTT(30) DEF Blocks
  <2>4. /\ i \in Nat /\ ItemCells(n) \in Nat /\ i <= ItemCells(n)
        /\ ItemCells(n) = HeaderCells + 1 * BlockCells
    <3>1. (1 - 1) * BlockCells = 0 /\ 1 * BlockCells = BlockCells
      BY <1>4, SMTT(30)
    <3>2. ItemCells(n) = HeaderCells + BlockCells
      BY <2>3, <3>1 DEF ItemCells
    <3>3. i = HeaderCells + 2
      BY <1>4, <3>1, SMTT(30)
    <3> HIDE DEF i
    <3>4. QED
      BY <1>4, <3>1, <3>2, <3>3, SMTT(30)
  <2>6. Part(n, i, ItemCells(n)) = Block(data, sized).data
    BY <2>1, <2>2, <2>4
  <2> HIDE DEF i, old, data
  <2>5. QED
    BY <1>1, <1>6, <1>9, <2>4, <2>6
<1>13. QED
  BY <1>10, <1>11, <1>12

----------------------------------------------------------------------------
\* Whatever faults, crashes, restarts and checkpoints leave in the log file,
\* the readers of transaction.rs accept only items that were written to their
\* last byte.
THEOREM NoTornItem == Spec => []AcceptedWhole
<1>1. WInv => AcceptedWhole
  <2> SUFFICES ASSUME WInv, NEW p \in 0 .. Len(file), NEW sized \in BOOLEAN,
                      ItemAt(p, sized) # 0
               PROVE  ItemAt(p, sized) \in whole
    BY DEF AcceptedWhole
  <2>1. p \in Nat
    BY SMTT(30)
  <2>2. QED
    BY <2>1, AcceptedLast
<1>2. QED
  BY <1>1, InitWInv, StepWInv, PTL DEF Spec

\* write_variable_size_log_item returns with LogManager.lock released, unless
\* an I/O call returned an error (then `?` leaves it held).
THEOREM LockFree == Spec => []LockReleased
<1>1. WInv => LockReleased
  <2> SUFFICES ASSUME WInv, call = Idle, ~ioError PROVE lock = 0
    BY DEF LockReleased
  <2>1. call.at = "idle"
    BY DEF Idle
  <2>2. QED
    BY <2>1 DEF WInv, Held
<1>2. QED
  BY <1>1, InitWInv, StepWInv, PTL DEF Spec

-----------------------------------------------------------------------------
(***************************************************************************)
(* What the readers find                                                   *)
(***************************************************************************)

(***************************************************************************)
(* Induction on the naturals, for a set in place of a predicate.           *)
(***************************************************************************)
LEMMA LeastNumber ==
  ASSUME NEW T, T \subseteq Nat, T # {}
  PROVE  \E m \in T : \A k \in T : m <= k
<1> DEFINE R == OpToRel(<, Nat)
<1>1. \A x, y \in Nat : x < y => <<x, y>> \in R
  BY DEF OpToRel
<1>2. IsWellFoundedOn(R, Nat)
  BY NatLessThanWellFounded
<1> HIDE DEF R
<1>3. PICK m \in T : \A k \in T : ~ (<<k, m>> \in R)
  BY <1>2, WFMin
<1>4. \A k \in T : ~(k < m)
  BY <1>1, <1>3
<1>5. QED
  BY <1>4, SMTT(30)

\* Induction: a set with 0 that is closed under + 1 has all naturals.
LEMMA InductiveSet ==
  ASSUME NEW P, 0 \in P, \A n \in Nat : n \in P => n + 1 \in P
  PROVE  Nat \subseteq P
<1> SUFFICES ASSUME Nat \ P # {} PROVE FALSE
  OBVIOUS
<1>1. PICK m \in Nat \ P : \A k \in Nat \ P : m <= k
  BY LeastNumber
<1>2. m - 1 \in Nat /\ m - 1 \in P
  BY <1>1, SMTT(30)
<1>3. QED
  BY <1>2, SMTT(30)

(***************************************************************************)
(* An item that lies in the file cell by cell can be read                  *)
(***************************************************************************)
\* Cell k of item n is in its place if the item lies at p.
Holds(p, n, k) == p + k \in DOMAIN file /\ file[p + k] = Cell(n, k)

\* Cells i .. j of item n are.
PartAt(p, n, i, j) == \A k \in i .. j : Holds(p, n, k)

\* A part of an item in the file is read back as it was written.
LEMMA ReadPart ==
  ASSUME file \in Seq(FileCell), NEW n \in Int, NEW p \in Nat,
         NEW i \in Nat, NEW j \in Nat, 0 < i, i <= j, PartAt(p, n, i, j)
  PROVE  /\ Read(p + i - 1, j - i + 1) = Part(n, i, j)
         /\ Len(Read(p + i - 1, j - i + 1)) = j - i + 1
<1> DEFINE q == p + i - 1
           m == j - i + 1
<1>0. q \in Nat /\ m \in Nat /\ q = p + i - 1 /\ m = j - i + 1
  BY SMTT(30)
<1> HIDE DEF q, m
<1>1. q + m \in DOMAIN file
  <2>1. Holds(p, n, j)
    BY SMTT(30) DEF PartAt
  <2>2. QED
    BY <1>0, <2>1, SMTT(30) DEF Holds
<1>2. /\ Read(q, m) = SubSeq(file, q + 1, q + m) /\ q + m <= Len(file)
      /\ q + m \in Nat /\ q + 1 \in Nat \ {0}
  BY <1>0, <1>1, SMTT(30) DEF Read
<1> DEFINE R == SubSeq(file, q + 1, q + m)
<1>3. R = [k \in 1 .. m |-> file[q + k]]
  <2>1. /\ R \in Seq(FileCell) /\ Len(R) = m
        /\ \A k \in 1 .. m : R[k] = file[q + k]
    BY <1>0, <1>2, SMTT(30)
  <2> HIDE DEF R
  <2>2. R = [k \in 1 .. m |-> R[k]]
    BY <2>1, SMTT(30)
  <2>3. QED
    BY <2>1, <2>2
<1>4. Len(R) = m
  BY <1>0, <1>2, SMTT(30)
<1>5. \A k \in 1 .. m : file[q + k] = Cell(n, i + k - 1)
  <2> TAKE k \in 1 .. m
  <2>1. i + k - 1 \in i .. j /\ p + (i + k - 1) = q + k
    BY <1>0, SMTT(30)
  <2>2. Holds(p, n, i + k - 1)
    BY <2>1 DEF PartAt
  <2>3. QED
    BY <2>1, <2>2 DEF Holds
<1>6. Part(n, i, j) = [k \in 1 .. m |-> Cell(n, i + k - 1)]
  BY <1>0 DEF Part
<1> HIDE DEF R
<1>7. R = Part(n, i, j)
  BY <1>3, <1>5, <1>6
<1>8. QED
  BY <1>2, <1>4, <1>7 DEF R, q, m

Whole(p, n) == PartAt(p, n, 1, ItemCells(n))

\* The header of an item that is in the file as a whole is read.
LEMMA HeaderRead ==
  ASSUME WInv, NEW p \in Nat, NEW n \in DOMAIN ops, Whole(p, n)
  PROVE  HeaderAt(p) = n /\ p + HeaderCells <= Len(file)
<1>0. /\ file \in Seq(FileCell) /\ ops \in Seq(Ops) /\ n \in Nat \ {0}
      /\ layout \in Layouts /\ DOMAIN ops \subseteq Nat
  BY SMTT(30) DEF WInv
<1>1. HeaderCells \in Nat \ {0} /\ ItemCells(n) \in Nat /\ HeaderCells <= ItemCells(n)
  BY <1>0, Sizes, SMTT(30)
<1>2. PartAt(p, n, 1, HeaderCells)
  BY <1>1, SMTT(30) DEF Whole, PartAt
<1>3. Read(p, HeaderCells) = Part(n, 1, HeaderCells)
  <2>1. Read(p + 1 - 1, HeaderCells - 1 + 1) = Part(n, 1, HeaderCells)
    BY <1>0, <1>1, <1>2, ReadPart, SMTT(30)
  <2>2. p + 1 - 1 = p /\ HeaderCells - 1 + 1 = HeaderCells
    BY <1>1, SMTT(30)
  <2>3. QED
    BY <2>1, <2>2
<1>4. \A m : Part(m, 1, HeaderCells)[1].item = m
  <2>1. 1 \in 1 .. HeaderCells - 1 + 1
    BY <1>1, SMTT(30)
  <2>2. QED
    BY <2>1 DEF Part, Cell
<1>5. \A m : Part(m, 1, HeaderCells) = Part(n, 1, HeaderCells) => m = n
  BY <1>4, SMTT(30)
<1> DEFINE S == {m \in DOMAIN ops : Read(p, HeaderCells) = Part(m, 1, HeaderCells)}
<1>6. S = {n}
  BY <1>3, <1>5
<1>7. HeaderAt(p) = n
  <2>1. HeaderAt(p) = IF S = {} THEN 0 ELSE CHOOSE m \in S : TRUE
    BY DEF HeaderAt
  <2> HIDE DEF S
  <2>2. (CHOOSE m \in S : TRUE) \in S
    BY <1>6
  <2>3. QED
    BY <1>6, <2>1, <2>2
<1>8. Holds(p, n, HeaderCells)
  BY <1>1, <1>2, SMTT(30) DEF PartAt
<1>9. QED
  BY <1>0, <1>1, <1>7, <1>8, SMTT(30) DEF Holds

\* A block of an item that lies at p, from cell j + 1 of the item on.
LEMMA BlockRead ==
  ASSUME WInv, NEW p \in Nat, NEW n \in DOMAIN ops, Whole(p, n),
         NEW j \in Nat, j \in {HeaderCells, HeaderCells + BlockCells},
         j + BlockCells <= ItemCells(n)
  PROVE  /\ SizedBlock(p + j).ok
         /\ SizedBlock(p + j).data = Part(n, j + 2, j + BlockCells)
         /\ SizedBlock(p + j).next = p + (j + BlockCells)
<1>0. /\ file \in Seq(FileCell) /\ ops \in Seq(Ops) /\ n \in Nat \ {0}
      /\ layout \in Layouts
  BY SMTT(30) DEF WInv
<1>1. /\ layout.packed \in Nat \ {0} /\ BlockCells = 1 + layout.packed
      /\ ItemCells(n) \in Nat
  BY <1>0, Sizes, SMTT(30)
<1>2. Holds(p, n, j + 1) /\ PartAt(p, n, j + 2, j + BlockCells)
  BY <1>1, SMTT(30) DEF Whole, PartAt
<1> DEFINE q == p + j
<1>3. q \in Nat /\ q + 1 \in DOMAIN file /\ file[q + 1] = Cell(n, j + 1)
  BY <1>2, SMTT(30) DEF Holds
<1>4. IsSizeCell(file[q + 1])
  BY <1>0, <1>3, SMTT(30) DEF IsSizeCell, Cell
<1>5. /\ Read(q + 1, layout.packed) = Part(n, j + 2, j + BlockCells)
      /\ Len(Read(q + 1, layout.packed)) = layout.packed
  <2> DEFINE i == j + 2
             l == j + BlockCells
  <2>1. /\ i \in Nat /\ l \in Nat /\ 0 < i /\ i <= l
        /\ p + i - 1 = q + 1 /\ l - i + 1 = layout.packed
    BY <1>1, <1>3, SMTT(30)
  <2>4. PartAt(p, n, i, l)
    BY <1>2
  <2> HIDE DEF i, l
  <2>2. /\ Read(p + i - 1, l - i + 1) = Part(n, i, l)
        /\ Len(Read(p + i - 1, l - i + 1)) = l - i + 1
    BY <1>0, <2>1, <2>4, ReadPart, SMTT(30)
  <2>3. QED
    BY <2>1, <2>2 DEF i, l
<1>6. q < Len(file)
  BY <1>0, <1>3, SMTT(30)
<1>7. SizedBlock(q) = [ok |-> TRUE, data |-> Read(q + 1, layout.packed),
                       next |-> q + BlockCells]
  BY <1>4, <1>5, <1>6 DEF SizedBlock
<1>8. q + BlockCells = p + (j + BlockCells)
  BY <1>1, SMTT(30)
<1>9. QED
  BY <1>5, <1>7, <1>8, SMTT(30)

\* Both readers accept an item that lies at p as a whole; without compression
\* the scan does so for an item without data.
LEMMA ItemRead ==
  ASSUME WInv, NEW p \in Nat, NEW n \in DOMAIN ops, Whole(p, n)
  PROVE  /\ ItemAt(p, TRUE) = n
         /\ Blocks(n) = 0 => ItemAt(p, FALSE) = n
<1>0. n \in Nat \ {0} /\ layout \in Layouts
  BY SMTT(30) DEF WInv
<1>1. HeaderAt(p) = n
  BY HeaderRead
<1> DEFINE h == HeaderCells
           b == BlockCells
           data == p + HeaderCells
<1>2. h \in Nat /\ b \in Nat
  BY <1>0, Sizes
<1>3. CASE Blocks(n) = 0
  <2>1. ~HasOld(n) /\ ~HasNew(n)
    BY <1>3, SMTT(30) DEF Blocks
  <2>2. Intact(n, <<>>, <<>>)
    BY <2>1 DEF Intact
  <2>3. QED
    BY <1>0, <1>1, <2>1, <2>2 DEF ItemAt, NoBlock
<1>4. CASE Blocks(n) = 1
  <2>1. ItemCells(n) = h + b
    BY <1>0, <1>4, Sizes, SMTT(30)
  <2>2. /\ SizedBlock(p + h).ok
        /\ SizedBlock(p + h).data = Part(n, h + 2, h + b)
    BY <1>2, <2>1, BlockRead, SMTT(30)
  <2>3. h + (1 - 1) * b + 2 = h + 2 /\ h + 1 * b = h + b
    BY <1>2, SMTT(30)
  <2>4. CASE HasOld(n)
    <3>1. ~HasNew(n)
      BY <1>4, <2>4, SMTT(30) DEF Blocks
    <3>2. Intact(n, Part(n, h + 2, h + b), <<>>)
      BY <2>3, <2>4, <3>1 DEF Intact
    <3>3. QED
      BY <1>0, <1>1, <1>4, <2>2, <2>4, <3>1, <3>2, SMTT(30) DEF ItemAt, NoBlock, Block
  <2>5. CASE ~HasOld(n)
    <3>1. HasNew(n)
      BY <1>4, <2>5, SMTT(30) DEF Blocks
    <3>2. Intact(n, <<>>, Part(n, h + 2, h + b))
      BY <1>4, <2>3, <2>5, <3>1 DEF Intact
    <3>3. QED
      BY <1>0, <1>1, <1>4, <2>2, <2>5, <3>1, <3>2, SMTT(30) DEF ItemAt, NoBlock, Block
  <2>6. QED
    BY <2>4, <2>5
<1>5. CASE Blocks(n) = 2
  <2>1. ItemCells(n) = h + 2 * b /\ HasOld(n) /\ HasNew(n)
    BY <1>0, <1>5, Sizes, SMTT(30) DEF Blocks
  <2>2. /\ SizedBlock(p + h).ok
        /\ SizedBlock(p + h).data = Part(n, h + 2, h + b)
        /\ SizedBlock(p + h).next = p + (h + b)
    BY <1>2, <2>1, BlockRead, SMTT(30)
  <2>3. /\ SizedBlock(p + (h + b)).ok
        /\ SizedBlock(p + (h + b)).data = Part(n, (h + b) + 2, (h + b) + b)
    <3>1. (h + b) + b <= ItemCells(n) /\ h + b \in Nat
      BY <1>2, <2>1, SMTT(30)
    <3>2. QED
      BY <3>1, BlockRead
  <2>4. /\ h + (1 - 1) * b + 2 = h + 2 /\ h + 1 * b = h + b
        /\ h + (2 - 1) * b + 2 = (h + b) + 2 /\ h + 2 * b = (h + b) + b
    BY <1>2, SMTT(30)
  <2>5. Intact(n, Part(n, h + 2, h + b), Part(n, (h + b) + 2, (h + b) + b))
    BY <1>5, <2>1, <2>4 DEF Intact
  <2>6. QED
    BY <1>0, <1>1, <1>5, <2>1, <2>2, <2>3, <2>5, SMTT(30) DEF ItemAt, Block
<1>6. QED
  BY <1>0, <1>3, <1>4, <1>5, Sizes

(***************************************************************************)
(* The inductive invariant: until the log is written again after a restart *)
(* the counted items lie in the file one behind the other, and before a    *)
(* restart the item under way follows them as far as it was written.       *)
(***************************************************************************)
Laid(st, end) ==
  /\ st \in [1 .. Len(log) + 1 -> Nat]
  /\ st[1] = 1 /\ st[Len(log) + 1] = end
  /\ \A i \in 1 .. Len(log) + 1 : 1 <= st[i] /\ st[i] <= end
  /\ \A i \in 1 .. Len(log) : \E n \in DOMAIN ops :
       log[i] = n /\ st[i + 1] = st[i] + ItemCells(n) /\ Whole(st[i], n)

\* The cells of the item under way that are in the file.
Stored ==
  CASE call.at = "first" -> HeaderCells
    [] call.at = "second" -> HeaderCells + BlockCells
    [] call.at = "count" -> ItemCells(call.item)
    [] OTHER -> 0

InOrder ==
  /\ \E st : \E end \in Nat : Laid(st, end) /\ (restarts = 0 => end = offset)
  /\ restarts = 0 => /\ record_count = Len(log)
                     /\ Writing \/ call.at = "count" => pos = offset + Stored
                     /\ PartAt(offset, call.item, 1, Stored)
  /\ restarts > 0 => call.at \in {"idle", "lock", "seek", "header"}

FileInv ==
  /\ log \in Seq(Nat) /\ restarts \in Nat /\ rewritten \in BOOLEAN
  /\ rewritten => restarts > 0
  /\ call.at = "first" => Blocks(call.item) # 0
  /\ call.at = "second" => Blocks(call.item) = 2
  /\ ~rewritten /\ NoCheckpoints => InOrder

\* A write changes the cells it covers and no others.
LEMMA WriteHolds ==
  ASSUME file \in Seq(FileCell), NEW p \in Nat, NEW s \in Seq(FileCell),
         file' = Write(file, p, s)
  PROVE  /\ \A c \in DOMAIN file : c <= p \/ c > p + Len(s) =>
              c \in DOMAIN file' /\ file'[c] = file[c]
         /\ \A k \in 1 .. Len(s) : p + k \in DOMAIN file' /\ file'[p + k] = s[k]
<1> DEFINE m == Longer(Len(file), p + Len(s))
<1>1. m \in Nat /\ m >= Len(file) /\ m >= p + Len(s)
  BY SMTT(30) DEF Longer
<1>2. file' = [i \in 1 .. m |->
                 IF i - p \in DOMAIN s THEN s[i - p]
                 ELSE IF i \in DOMAIN file THEN file[i] ELSE Zero]
  BY DEF Write
<1> HIDE DEF m
<1>3. DOMAIN file' = 1 .. m
  BY <1>2
<1>4. ASSUME NEW c \in DOMAIN file, c <= p \/ c > p + Len(s)
      PROVE  c \in DOMAIN file' /\ file'[c] = file[c]
  <2>1. c \in 1 .. m /\ c - p \notin DOMAIN s
    BY <1>1, <1>4, SMTT(30)
  <2>2. QED
    BY <1>2, <1>3, <2>1
<1>5. ASSUME NEW k \in 1 .. Len(s)
      PROVE  p + k \in DOMAIN file' /\ file'[p + k] = s[k]
  <2>1. p + k \in 1 .. m /\ (p + k) - p \in DOMAIN s /\ (p + k) - p = k
    BY <1>1, SMTT(30)
  <2>2. QED
    BY <1>2, <1>3, <2>1
<1>6. QED
  BY <1>4, <1>5

\* The layout depends on the cells up to its end, the log header excepted.
LEMMA LaidStays ==
  ASSUME WInv, NEW st, NEW end \in Nat, Laid(st, end), log \in Seq(Nat),
         log' = log, layout' = layout,
         \A n \in DOMAIN ops : n \in DOMAIN ops' /\ ItemCells(n)' = ItemCells(n),
         \A c \in DOMAIN file : 1 < c /\ c <= end =>
            c \in DOMAIN file' /\ file'[c] = file[c]
  PROVE  Laid(st, end)'
<1>1. ASSUME NEW i \in 1 .. Len(log)
      PROVE  \E n \in DOMAIN ops' : /\ log'[i] = n
                                     /\ st[i + 1] = st[i] + ItemCells(n)'
                                     /\ Whole(st[i], n)'
  <2>1. PICK n \in DOMAIN ops :
          log[i] = n /\ st[i + 1] = st[i] + ItemCells(n) /\ Whole(st[i], n)
    BY DEF Laid
  <2>0. i \in 1 .. Len(log) + 1 /\ i + 1 \in 1 .. Len(log) + 1
    BY SMTT(30)
  <2>2. st[i] \in Nat /\ 1 <= st[i] /\ st[i + 1] <= end
    <3>1. /\ st \in [1 .. Len(log) + 1 -> Nat]
          /\ \A j \in 1 .. Len(log) + 1 : 1 <= st[j] /\ st[j] <= end
      BY DEF Laid
    <3>2. QED
      BY <2>0, <3>1
  <2>3. ItemCells(n) \in Nat /\ ItemCells(n)' = ItemCells(n)
    BY Sizes, SMTT(30) DEF WInv
  <2>4. ASSUME NEW k \in 1 .. ItemCells(n)
        PROVE  Holds(st[i], n, k)'
    <3>1. Holds(st[i], n, k)
      BY <2>1 DEF Whole, PartAt
    <3>2. st[i] + k > 1 /\ st[i] + k <= end
      BY <2>1, <2>2, <2>3, SMTT(30)
    <3>3. QED
      BY <3>1, <3>2 DEF Holds
  <2>5. Whole(st[i], n)'
    BY <2>3, <2>4 DEF Whole, PartAt
  <2>6. n \in DOMAIN ops'
    OBVIOUS
  <2>7. QED
    BY <2>1, <2>3, <2>5, <2>6
<1>2. QED
  BY <1>1 DEF Laid

\* The sizes of the items depend on the operations and the layout only.
LEMMA SameItems ==
  ASSUME ops' = ops, layout' = layout
  PROVE  /\ \A n : ItemCells(n)' = ItemCells(n) /\ Blocks(n)' = Blocks(n)
         /\ NoCheckpoints' <=> NoCheckpoints
BY DEF ItemCells, Blocks, HasOld, HasNew, BlockCells, NoCheckpoints

\* A new file has no items.
LEMMA InitFile == Init => FileInv
<1> SUFFICES ASSUME Init PROVE FileInv
  OBVIOUS
<1>1. /\ log = <<>> /\ offset = 1 /\ restarts = 0 /\ rewritten = FALSE
      /\ record_count = 0 /\ call.at = "idle"
  BY DEF Init, Idle
<1>2. Len(log) = 0 /\ log \in Seq(Nat)
  BY <1>1, SMTT(30)
<1> DEFINE st == [i \in 1 .. Len(log) + 1 |-> 1]
<1>3. Laid(st, 1)
  <2>1. /\ st \in [1 .. Len(log) + 1 -> Nat]
        /\ \A i \in 1 .. Len(log) + 1 : st[i] = 1
        /\ 1 \in 1 .. Len(log) + 1 /\ Len(log) + 1 \in 1 .. Len(log) + 1
    BY <1>2, SMTT(30)
  <2>2. \A i \in 1 .. Len(log) : FALSE
    BY <1>2, SMTT(30)
  <2> HIDE DEF st
  <2>3. QED
    BY <2>1, <2>2, SMTT(30) DEF Laid
<1>4. Stored = 0
  BY <1>1 DEF Stored
<1>5. PartAt(offset, call.item, 1, Stored) /\ ~Writing
  BY <1>1, <1>4, SMTT(30) DEF PartAt, Writing
<1> HIDE DEF st
<1>6. \E t : \E end \in Nat : Laid(t, end) /\ (restarts = 0 => end = offset)
  BY <1>1, <1>3
<1>7. InOrder
  BY <1>1, <1>2, <1>4, <1>5, <1>6 DEF InOrder
<1>8. QED
  BY <1>1, <1>2, <1>7 DEF FileInv

\* Steps that change neither the log nor the counted items' cells, after which
\* nothing of an item under way is in the file.
LEMMA OrderStays ==
  ASSUME WInv, FileInv, InOrder, log' = log, offset' = offset,
         record_count' = record_count, restarts' = restarts, layout' = layout,
         \A n \in DOMAIN ops : n \in DOMAIN ops' /\ ItemCells(n)' = ItemCells(n),
         restarts = 0 => \A c \in DOMAIN file : 1 < c /\ c <= offset =>
                            c \in DOMAIN file' /\ file'[c] = file[c],
         restarts > 0 => file' = file,
         call'.at \in {"idle", "lock", "seek", "header"},
         restarts = 0 /\ call'.at = "header" => pos' = offset
  PROVE  InOrder'
<1>0. log \in Seq(Nat) /\ restarts \in Nat /\ offset \in Nat
  BY DEF FileInv, WInv
<1>1. PICK st : \E end \in Nat : Laid(st, end) /\ (restarts = 0 => end = offset)
  BY DEF InOrder
<1>2. PICK end \in Nat : Laid(st, end) /\ (restarts = 0 => end = offset)
  BY <1>1
<1>3. \A c \in DOMAIN file : 1 < c /\ c <= end =>
         c \in DOMAIN file' /\ file'[c] = file[c]
  BY <1>0, <1>2, SMTT(30)
<1>4. Laid(st, end)'
  BY <1>0, <1>2, <1>3, LaidStays
<1>5. Stored' = 0
  BY DEF Stored
<1>7. PartAt(offset, call.item, 1, Stored)'
  BY <1>5, SMTT(30) DEF PartAt
<1>8. restarts' = 0 => ((Writing \/ call.at = "count")' => pos' = offset' + Stored')
  BY <1>0, <1>5, SMTT(30) DEF Writing
<1>9. \E t : \E e \in Nat : Laid(t, e)' /\ (restarts' = 0 => e = offset')
  BY <1>2, <1>4
<1>10. QED
  BY <1>7, <1>8, <1>9 DEF InOrder

\* A call to write an item begins after the counted items.
LEMMA FileBegin == WInv /\ FileInv /\ Begin => FileInv'
<1> SUFFICES ASSUME WInv, FileInv, Begin PROVE FileInv'
  OBVIOUS
<1>0. ops \in Seq(Ops)
  BY DEF WInv
<1>1. PICK op \in Ops : ops' = Append(ops, op)
  BY DEF Begin
<1>2. /\ \A n \in DOMAIN ops : n \in DOMAIN ops' /\ ops'[n] = ops[n]
      /\ layout' = layout
  BY <1>0, <1>1, SMTT(30) DEF Begin
<1>3. /\ \A n \in DOMAIN ops : n \in DOMAIN ops' /\ ItemCells(n)' = ItemCells(n)
      /\ NoCheckpoints' => NoCheckpoints
  BY <1>2 DEF ItemCells, Blocks, HasOld, HasNew, BlockCells, NoCheckpoints
<1>4. /\ file' = file /\ log' = log /\ restarts' = restarts /\ offset' = offset
      /\ rewritten' = rewritten /\ record_count' = record_count
      /\ call'.at = "lock"
  BY DEF Begin, manager
<1>5. InOrder => InOrder'
  BY <1>2, <1>3, <1>4, OrderStays
<1>6. QED
  BY <1>3, <1>4, <1>5 DEF FileInv

\* Taking the lock and seeking leave the file alone.
LEMMA FileQuiet == WInv /\ FileInv /\ (Lock \/ Seek) => FileInv'
<1> SUFFICES ASSUME WInv, FileInv, Lock \/ Seek PROVE FileInv'
  OBVIOUS
<1>1. /\ file' = file /\ log' = log /\ restarts' = restarts /\ offset' = offset
      /\ rewritten' = rewritten /\ record_count' = record_count
      /\ ops' = ops /\ layout' = layout
  BY DEF Lock, Seek, history
<1>2. call'.at \in {"seek", "header"}
  BY DEF Lock, Seek, WInv
<1>3. NoCheckpoints /\ call'.at = "header" => pos' = offset
  <2>1. CASE Lock
    BY <2>1 DEF Lock, WInv
  <2>2. CASE Seek
    <3>1. call.item \in DOMAIN ops
      BY <2>2 DEF Seek, WInv
    <3>2. QED
      BY <2>2, <3>1 DEF Seek, NoCheckpoints
  <2>3. QED
    BY <2>1, <2>2
<1>4. InOrder /\ NoCheckpoints => InOrder'
  BY <1>1, <1>2, <1>3, SameItems, OrderStays
<1>5. QED
  BY <1>1, <1>2, <1>4, SameItems DEF FileInv

\* A restart keeps the items in the file.
LEMMA FileRestart == WInv /\ FileInv /\ Restart => FileInv'
<1> SUFFICES ASSUME WInv, FileInv, Restart PROVE FileInv'
  OBVIOUS
<1>1. /\ file' = file /\ log' = log /\ restarts' = restarts + 1
      /\ rewritten' = rewritten /\ ops' = ops /\ layout' = layout
      /\ call'.at = "idle" /\ restarts \in Nat
  BY DEF Restart, Idle, FileInv
<1>2. ASSUME InOrder PROVE InOrder'
  <2>1. PICK st : \E end \in Nat : Laid(st, end)
    BY <1>2 DEF InOrder
  <2>2. PICK end \in Nat : Laid(st, end)
    BY <2>1
  <2>3. log \in Seq(Nat)
    BY DEF FileInv
  <2>4. Laid(st, end)'
    BY <1>1, <2>2, <2>3, SameItems, LaidStays
  <2>5. \E t : \E e \in Nat : Laid(t, e)' /\ (restarts' = 0 => e = offset')
    BY <1>1, <2>4, SMTT(30)
  <2>6. QED
    BY <1>1, <2>5, SMTT(30) DEF InOrder
<1>3. QED
  BY <1>1, <1>2, SameItems, SMTT(30) DEF FileInv

\* Where a write call under way stores its cells.
LEMMA WritesBehind ==
  ASSUME WInv, FileInv, InOrder, Writing, restarts = 0
  PROVE  pos \in Nat /\ offset \in Nat /\ Stored \in Nat /\ pos = offset + Stored
<1>1. Stored \in Nat
  BY Sizes, SMTT(30) DEF Stored, Writing, WInv
<1>2. QED
  BY <1>1 DEF InOrder, WInv

\* A write that is cut short or fails leaves the counted items in place.
LEMMA FileFault == WInv /\ FileInv /\ (ShortWrite \/ IoError) => FileInv'
<1> SUFFICES ASSUME WInv, FileInv, ShortWrite \/ IoError PROVE FileInv'
  OBVIOUS
<1>1. /\ log' = log /\ restarts' = restarts /\ offset' = offset
      /\ record_count' = record_count /\ ops' = ops /\ layout' = layout
      /\ call'.at = "idle"
  BY SMTT(30) DEF ShortWrite, IoError, Idle, manager
<1>2. /\ rewritten' = (rewritten \/ restarts > 0)
      /\ restarts \in Nat /\ rewritten \in BOOLEAN
  BY DEF ShortWrite, IoError, FileInv
<1>3. /\ file \in Seq(FileCell)
      /\ Writing => NextPart(call.item) \in Seq(FileCell)
  BY NextPartCells DEF WInv
<1>4. ASSUME InOrder, restarts = 0
      PROVE  \A c \in DOMAIN file : 1 < c /\ c <= offset =>
               c \in DOMAIN file' /\ file'[c] = file[c]
  <2>1. CASE file' = file
    BY <2>1
  <2>2. CASE file' # file
    <3>1. Writing /\ \E k \in 0 .. Len(NextPart(call.item)) :
            file' = Write(file, pos, SubSeq(NextPart(call.item), 1, k))
      <4>1. CASE ShortWrite
        <5>1. Writing /\ \E k \in 0 .. Len(NextPart(call.item)) - 1 :
                file' = Write(file, pos, SubSeq(NextPart(call.item), 1, k))
          BY <4>1 DEF ShortWrite
        <5>2. Len(NextPart(call.item)) \in Nat
          BY <1>3, <5>1, SMTT(30)
        <5>3. QED
          BY <5>1, <5>2, SMTT(30)
      <4>2. CASE IoError
        <5>1. /\ call.at \in {"first", "second"}
              /\ file' = Write(file, pos, SubSeq(NextPart(call.item), 1, 1))
          BY <2>2, <4>2 DEF IoError
        <5>2. Writing /\ call.at # "header"
          BY <5>1 DEF Writing
        <5>3. Len(NextPart(call.item)) > 1
          BY <5>2, NextPartCells
        <5>4. 1 \in 0 .. Len(NextPart(call.item))
          BY <1>3, <5>2, <5>3, SMTT(30)
        <5>5. QED
          BY <5>1, <5>2, <5>4
      <4>3. QED
        BY <4>1, <4>2
    <3>2. PICK k \in 0 .. Len(NextPart(call.item)) :
            file' = Write(file, pos, SubSeq(NextPart(call.item), 1, k))
      BY <3>1
    <3> DEFINE s == SubSeq(NextPart(call.item), 1, k)
    <3>3. s \in Seq(FileCell)
      BY <1>3, <3>1, SMTT(30)
    <3>4. pos \in Nat /\ offset \in Nat /\ offset <= pos
      BY <1>4, <3>1, WritesBehind, SMTT(30)
    <3> HIDE DEF s
    <3>5. file' = Write(file, pos, s)
      BY <3>2 DEF s
    <3>6. \A c \in DOMAIN file : c <= pos => c \in DOMAIN file' /\ file'[c] = file[c]
      BY <1>3, <3>3, <3>4, <3>5, WriteHolds
    <3>7. \A c \in DOMAIN file : c \in Nat
      BY <1>3, SMTT(30)
    <3>8. QED
      BY <3>4, <3>6, <3>7, SMTT(30)
  <2>3. QED
    BY <2>1, <2>2
<1>5. ASSUME InOrder, restarts = 0 PROVE InOrder'
  BY <1>1, <1>4, <1>5, SameItems, OrderStays, SMTT(30)
<1>6. ~rewritten' => ~rewritten /\ restarts = 0
  <2>1. ~rewritten' => ~rewritten /\ ~(restarts > 0)
    BY <1>2
  <2>2. QED
    BY <1>2, <2>1, SMTT(30)
<1>7. ~rewritten' /\ NoCheckpoints' => InOrder'
  BY <1>1, <1>5, <1>6, SameItems DEF FileInv
<1>8. rewritten' \in BOOLEAN /\ (rewritten' => restarts' > 0)
  <2>1. rewritten => restarts > 0
    BY DEF FileInv
  <2>2. rewritten' => restarts > 0
    BY <1>2, <2>1
  <2>3. QED
    BY <1>1, <1>2, <2>2
<1>9. QED
  BY <1>1, <1>7, <1>8 DEF FileInv

\* The header of the log lies before the items.
LEMMA FileHeaderStep == WInv /\ FileInv /\ WriteHeader => FileInv'
<1> SUFFICES ASSUME WInv, FileInv, WriteHeader PROVE FileInv'
  OBVIOUS
<1>1. /\ log' = log /\ restarts' = restarts /\ offset' = offset
      /\ record_count' = record_count /\ ops' = ops /\ layout' = layout
      /\ rewritten' = rewritten /\ call.at = "head" /\ call'.at = "idle"
  BY DEF WriteHeader, Idle
<1>2. restarts \in Nat /\ file \in Seq(FileCell) /\ record_count \in Nat
  BY DEF FileInv, WInv
<1>3. \A c \in DOMAIN file : 1 < c => c \in DOMAIN file' /\ file'[c] = file[c]
  <2>1. CASE file' = file
    BY <2>1
  <2>2. CASE file' = Write(file, 0, <<FileHeader(record_count)>>)
    <3> DEFINE s == <<FileHeader(record_count)>>
    <3>1. FileHeader(record_count) \in FileCell
      BY <1>2, SMTT(30) DEF FileHeader, FileCell
    <3>2. s \in Seq(FileCell) /\ Len(s) = 1
      BY <3>1, SMTT(30)
    <3> HIDE DEF s
    <3>3. file' = Write(file, 0, s) /\ 0 \in Nat
      BY <2>2 DEF s
    <3>4. \A c \in DOMAIN file : c <= 0 \/ c > 0 + Len(s) =>
            c \in DOMAIN file' /\ file'[c] = file[c]
      BY <1>2, <3>2, <3>3, WriteHolds
    <3>5. QED
      BY <1>2, <3>2, <3>4, SMTT(30)
  <2>3. QED
    BY <2>1, <2>2 DEF WriteHeader
<1>4. InOrder => restarts = 0
  BY <1>1, <1>2, SMTT(30) DEF InOrder
<1>5. InOrder => InOrder'
  BY <1>1, <1>2, <1>3, <1>4, SameItems, OrderStays, SMTT(30)
<1>6. QED
  BY <1>1, <1>5, SameItems DEF FileInv

\* An item that was written as a whole is counted.
LEMMA FileCount == WInv /\ FileInv /\ Count => FileInv'
<1> SUFFICES ASSUME WInv, FileInv, Count PROVE FileInv'
  OBVIOUS
<1>1. /\ file' = file /\ log' = Append(log, call.item) /\ restarts' = restarts
      /\ record_count' = record_count + 1 /\ ops' = ops /\ layout' = layout
      /\ rewritten' = rewritten /\ call.at = "count" /\ call'.at = "head"
      /\ offset' = IF ops[call.item] = "Checkpoint" THEN offset
                   ELSE offset + ItemCells(call.item)
  BY DEF Count, WInv
<1>2. /\ restarts \in Nat /\ log \in Seq(Nat) /\ offset \in Nat
      /\ call.item \in DOMAIN ops /\ call.item \in Nat /\ ops \in Seq(Ops)
      /\ layout \in Layouts
  BY <1>1 DEF FileInv, WInv
<1>3. PICK n \in DOMAIN ops : n = call.item
  BY <1>2
<1>4. ItemCells(n) \in Nat /\ ItemCells(n)' = ItemCells(n)
  <2>1. ItemCells(n) \in Nat
    BY <1>2, Sizes, SMTT(30)
  <2>2. QED
    BY <1>1, <2>1, SameItems
<1>5. /\ log' \in Seq(Nat) /\ Len(log') = Len(log) + 1 /\ log'[Len(log) + 1] = n
      /\ \A i \in 1 .. Len(log) : log'[i] = log[i]
  <2>1. log' = Append(log, n) /\ n \in Nat
    BY <1>1, <1>2, <1>3
  <2>2. QED
    BY <1>2, <2>1, SMTT(30)
<1>6. ASSUME InOrder, NoCheckpoints PROVE InOrder'
  <2>1. restarts = 0
    BY <1>1, <1>2, <1>6, SMTT(30) DEF InOrder
  <2>2. /\ PartAt(offset, n, 1, ItemCells(n)) /\ record_count = Len(log)
    BY <1>1, <1>3, <1>6, <2>1 DEF InOrder, Stored
  <2>3. PICK end \in Nat : end = offset
    BY <1>2
  <2>4. PICK st : Laid(st, end)
    BY <1>6, <2>1, <2>3 DEF InOrder
  <2>5. Whole(end, n)'
    BY <1>1, <1>4, <2>2, <2>3 DEF Whole, PartAt, Holds
  <2> DEFINE new == end + ItemCells(n)
             l == Len(log)
             t == [i \in 1 .. l + 2 |-> IF i <= l + 1 THEN st[i] ELSE new]
  <2>6. /\ st \in [1 .. l + 1 -> Nat] /\ st[1] = 1 /\ st[l + 1] = end
        /\ \A i \in 1 .. l + 1 : 1 <= st[i] /\ st[i] <= end
        /\ l \in Nat /\ l + 1 \in 1 .. l + 1
    BY <1>2, <2>4, SMTT(30) DEF Laid
  <2>7. PICK e \in Nat : e = new
    BY <1>4, SMTT(30)
  <2>8. \A i \in 1 .. l : \E m \in DOMAIN ops :
          /\ log[i] = m /\ st[i + 1] = st[i] + ItemCells(m) /\ Whole(st[i], m)'
    <3> TAKE i \in 1 .. l
    <3>1. PICK m \in DOMAIN ops :
            log[i] = m /\ st[i + 1] = st[i] + ItemCells(m) /\ Whole(st[i], m)
      BY <2>4 DEF Laid
    <3>2. ItemCells(m)' = ItemCells(m)
      BY <1>1, SameItems
    <3>3. Whole(st[i], m)'
      BY <1>1, <3>1, <3>2 DEF Whole, PartAt, Holds
    <3>4. QED
      BY <3>1, <3>3
  <2>9. PICK u : u = t
    OBVIOUS
  <2>10. /\ u \in [1 .. l + 2 -> Nat] /\ u[l + 2] = e
         /\ \A i \in 1 .. l + 1 : u[i] = st[i]
    BY <2>6, <2>7, <2>9, SMTT(30)
  <2>11. e = end + ItemCells(n) /\ end <= e
    BY <1>4, <2>7, SMTT(30)
  <2> HIDE DEF t, new
  <2>12. Laid(u, e)'
    <3>1. Len(log') + 1 = l + 2
      BY <1>5, <2>6, SMTT(30)
    <3>2. /\ u \in [1 .. Len(log') + 1 -> Nat] /\ u[Len(log') + 1] = e
          /\ u[1] = 1
      <4>1. 1 \in 1 .. l + 1
        BY <2>6, SMTT(30)
      <4>2. QED
        BY <2>6, <2>10, <3>1, <4>1
    <3>3. \A i \in 1 .. l + 2 : i \in 1 .. l + 1 \/ i = l + 2
      BY <2>6, SMTT(30)
    <3>4. \A i \in 1 .. l + 2 : 1 <= u[i] /\ u[i] <= e
      <4>1. 1 <= end /\ \A i \in 1 .. l + 1 : u[i] \in Nat
        BY <2>6, <2>10
      <4>2. QED
        BY <2>6, <2>10, <2>11, <3>3, <4>1, SMTT(30)
    <3>5. ASSUME NEW i \in 1 .. l + 1
          PROVE  \E m \in DOMAIN ops' :
                   log'[i] = m /\ u[i + 1] = u[i] + ItemCells(m)' /\ Whole(u[i], m)'
      <4>1. CASE i \in 1 .. l
        <5>1. i \in 1 .. l + 1 /\ i + 1 \in 1 .. l + 1
          BY <2>6, <4>1, SMTT(30)
        <5>2. PICK m \in DOMAIN ops : /\ log[i] = m /\ Whole(st[i], m)'
                                      /\ st[i + 1] = st[i] + ItemCells(m)
          BY <2>8, <4>1
        <5>3. ItemCells(m)' = ItemCells(m) /\ log'[i] = log[i] /\ ops' = ops
          BY <1>1, <1>5, <4>1, SameItems
        <5>4. u[i] = st[i] /\ u[i + 1] = st[i + 1]
          BY <2>10, <5>1
        <5>5. QED
          BY <5>2, <5>3, <5>4
      <4>2. CASE i = l + 1
        <5>1. log'[i] = n /\ u[i] = end /\ u[i + 1] = e
          BY <1>5, <2>6, <2>10, <4>2, SMTT(30)
        <5>2. n \in DOMAIN ops' /\ e = end + ItemCells(n)'
          BY <1>1, <1>4, <2>11
        <5>3. QED
          BY <2>5, <5>1, <5>2
      <4>3. QED
        BY <2>6, <4>1, <4>2, SMTT(30)
    <3>6. Len(log') = l + 1
      BY <1>5
    <3>7. QED
      BY <3>1, <3>2, <3>4, <3>5, <3>6 DEF Laid
  <2>13. offset' = e
    BY <1>1, <1>3, <1>6, <2>3, <2>11 DEF NoCheckpoints
  <2>14. \E v : \E x \in Nat : Laid(v, x)' /\ (restarts' = 0 => x = offset')
    BY <2>12, <2>13
  <2>15. Stored' = 0 /\ ~Writing' /\ call'.at # "count"
    BY <1>1 DEF Stored, Writing
  <2>16. PartAt(offset, call.item, 1, Stored)'
    BY <2>15, SMTT(30) DEF PartAt
  <2>17. record_count' = Len(log')
    BY <1>1, <1>5, <2>2
  <2>18. QED
    BY <1>1, <2>1, <2>14, <2>15, <2>16, <2>17, SMTT(30) DEF InOrder
<1>7. QED
  BY <1>1, <1>5, <1>6, SameItems DEF FileInv

\* A write call stores the cells that follow those in the file, up to the ones
\* that are there when the next step begins.
LEMMA NextStored ==
  ASSUME WInv, FileInv, WritePart
  PROVE  /\ Stored \in Nat /\ Stored' \in Nat /\ Stored < Stored'
         /\ NextPart(call.item) = Part(call.item, Stored + 1, Stored')
         /\ call'.item = call.item
         /\ call'.at = "first" => Blocks(call.item) # 0
         /\ call'.at = "second" => Blocks(call.item) = 2
<1> DEFINE n == call.item
           h == HeaderCells
           b == BlockCells
<1>1. /\ call.at \in {"header", "first", "second"} /\ call'.at = Following(n)
      /\ call'.item = n /\ ops' = ops /\ layout' = layout /\ layout \in Layouts
  BY DEF WritePart, Writing, WInv
<1>2. /\ h \in Nat \ {0} /\ b \in Nat /\ b > 1
      /\ \/ Blocks(n) = 0 /\ ItemCells(n) = h
         \/ Blocks(n) = 1 /\ ItemCells(n) = h + b
         \/ Blocks(n) = 2 /\ ItemCells(n) = h + 2 * b
  BY <1>1, Sizes, SMTT(30)
<1>3. /\ ItemCells(call.item)' = ItemCells(n) /\ BlockCells' = b
  BY <1>1 DEF ItemCells, Blocks, HasOld, HasNew, BlockCells
<1>4. /\ call.at = "first" => Blocks(n) # 0
      /\ call.at = "second" => Blocks(n) = 2
  BY DEF FileInv
<1>5. Stored' = CASE call'.at = "first" -> h
                  [] call'.at = "second" -> h + b
                  [] call'.at = "count" -> ItemCells(n)
                  [] OTHER -> 0
  BY <1>3 DEF Stored
<1> HIDE DEF n, h, b
<1>6. CASE call.at = "header"
  <2>1. /\ Stored = 0 /\ NextPart(n) = Part(n, 1, h)
        /\ Following(n) = IF Blocks(n) = 0 THEN "count" ELSE "first"
    BY <1>6 DEF Stored, NextPart, Following, h
  <2>2. Stored' = h
    BY <1>1, <1>2, <1>5, <2>1, SMTT(30)
  <2>3. QED
    BY <1>1, <1>2, <2>1, <2>2, SMTT(30) DEF n
<1>7. CASE call.at = "first"
  <2>1. /\ Stored = h /\ NextPart(n) = Part(n, h + 1, h + b)
        /\ Following(n) = IF Blocks(n) = 1 THEN "count" ELSE "second"
    BY <1>7 DEF Stored, NextPart, Following, h, b
  <2>2. Stored' = h + b
    BY <1>1, <1>2, <1>4, <1>5, <1>7, <2>1, SMTT(30)
  <2>3. QED
    BY <1>1, <1>2, <1>4, <1>7, <2>1, <2>2, SMTT(30) DEF n
<1>8. CASE call.at = "second"
  <2>1. /\ Stored = h + b /\ NextPart(n) = Part(n, h + b + 1, h + 2 * b)
        /\ Following(n) = "count"
    BY <1>8 DEF Stored, NextPart, Following, h, b
  <2>2. Stored' = h + 2 * b
    BY <1>1, <1>2, <1>4, <1>5, <1>8, <2>1, SMTT(30)
  <2>3. QED
    BY <1>1, <1>2, <2>1, <2>2, SMTT(30) DEF n
<1>9. QED
  BY <1>1, <1>6, <1>7, <1>8

\* A part of an item is written after the ones before it.
LEMMA FileWrite == WInv /\ FileInv /\ WritePart => FileInv'
<1> SUFFICES ASSUME WInv, FileInv, WritePart PROVE FileInv'
  OBVIOUS
<1> DEFINE s == NextPart(call.item)
<1>1. /\ log' = log /\ restarts' = restarts /\ offset' = offset
      /\ record_count' = record_count /\ ops' = ops /\ layout' = layout
      /\ file' = Write(file, pos, s) /\ pos' = pos + Len(s) /\ Writing
  BY DEF WritePart
<1>2. /\ rewritten' = (rewritten \/ restarts > 0)
      /\ restarts \in Nat /\ rewritten \in BOOLEAN
      /\ rewritten => restarts > 0
  BY DEF WritePart, FileInv
<1>3. /\ file \in Seq(FileCell) /\ s \in Seq(FileCell) /\ log \in Seq(Nat)
      /\ call.item \in DOMAIN ops /\ ops \in Seq(Ops)
  BY <1>1, NextPartCells DEF WInv, FileInv
<1>4. /\ Stored \in Nat /\ Stored' \in Nat /\ Stored < Stored'
      /\ s = Part(call.item, Stored + 1, Stored') /\ call'.item = call.item
      /\ call'.at = "first" => Blocks(call.item)' # 0
      /\ call'.at = "second" => Blocks(call.item)' = 2
  <2>1. Blocks(call.item)' = Blocks(call.item)
    BY <1>1, NextStored DEF Blocks, HasOld, HasNew
  <2>2. QED
    BY <2>1, NextStored
<1>5. PICK m \in Nat, k \in Nat, n \in DOMAIN ops :
        m = Stored /\ k = Stored' /\ n = call.item
  BY <1>3, <1>4
<1>6. /\ s = Part(n, m + 1, k) /\ Len(s) = k - m
      /\ \A j \in 1 .. k - m : s[j] = Cell(n, m + j)
  <2>1. n \in Int /\ m + 1 \in Nat /\ m + 1 <= k /\ s = Part(n, m + 1, k)
    BY <1>3, <1>4, <1>5, SMTT(30)
  <2>2. /\ Len(s) = k - (m + 1) + 1
        /\ \A j \in 1 .. k - (m + 1) + 1 : s[j] = Cell(n, (m + 1) + j - 1)
    BY <2>1, PartCells
  <2>3. k - (m + 1) + 1 = k - m /\ \A j \in Nat : (m + 1) + j - 1 = m + j
    BY SMTT(30)
  <2>4. QED
    BY <2>1, <2>2, <2>3, SMTT(30)
<1> HIDE DEF s
<1>7. ASSUME InOrder, restarts = 0 PROVE InOrder'
  <2>1. /\ pos \in Nat /\ offset \in Nat /\ pos = offset + m
        /\ PartAt(offset, n, 1, m)
    BY <1>1, <1>5, <1>7, WritesBehind DEF InOrder
  <2>2. PICK end \in Nat : end = offset
    BY <2>1
  <2>3. PICK st : Laid(st, end)
    BY <1>7, <2>2 DEF InOrder
  <2>4. /\ \A c \in DOMAIN file : c <= pos => c \in DOMAIN file' /\ file'[c] = file[c]
        /\ \A j \in 1 .. Len(s) : pos + j \in DOMAIN file' /\ file'[pos + j] = s[j]
    BY <1>1, <1>3, <2>1, WriteHolds
  <2>5. \A c \in DOMAIN file : 1 < c /\ c <= end => c \in DOMAIN file' /\ file'[c] = file[c]
    BY <1>3, <2>1, <2>2, <2>4, SMTT(30)
  <2>6. Laid(st, end)'
    BY <1>1, <1>3, <2>3, <2>5, SameItems, LaidStays
  <2>7. PartAt(end, n, 1, k)'
    <3> SUFFICES ASSUME NEW j \in 1 .. k PROVE Holds(end, n, j)'
      BY DEF PartAt
    <3>1. CASE j <= m
      <4>1. Holds(end, n, j) /\ end + j <= pos
        BY <2>1, <2>2, <3>1, SMTT(30) DEF PartAt
      <4>2. QED
        BY <2>4, <4>1 DEF Holds
    <3>2. CASE j > m
      <4>1. j - m \in 1 .. k - m /\ pos + (j - m) = end + j /\ m + (j - m) = j
        BY <2>1, <2>2, <3>2, SMTT(30)
      <4>2. end + j \in DOMAIN file' /\ file'[end + j] = Cell(n, j)
        BY <1>6, <2>4, <4>1
      <4>3. QED
        BY <4>2 DEF Holds
    <3>3. QED
      BY <3>1, <3>2, SMTT(30)
  <2>8. PartAt(offset, call.item, 1, Stored)'
    <3>1. offset' = end /\ call'.item = n /\ Stored' = k
      BY <1>1, <1>4, <1>5, <2>2
    <3>2. QED
      BY <2>7, <3>1 DEF PartAt, Holds
  <2>9. pos' = offset' + Stored'
    <3>1. Len(s) = k - m /\ pos' = pos + Len(s) /\ pos = end + m
      BY <1>1, <1>6, <2>1, <2>2
    <3>2. pos' = end + k
      BY <3>1, SMTT(30)
    <3>3. QED
      BY <1>1, <1>5, <2>2, <3>2
  <2>10. \E v : \E x \in Nat : Laid(v, x)' /\ (restarts' = 0 => x = offset')
    BY <1>1, <2>2, <2>6
  <2>11. record_count' = Len(log') /\ restarts' = 0
    BY <1>1, <1>7 DEF InOrder
  <2>12. QED
    BY <2>8, <2>9, <2>10, <2>11, SMTT(30) DEF InOrder
<1>8. ~rewritten' => ~rewritten /\ restarts = 0
  <2>1. ~rewritten' => ~rewritten /\ ~(restarts > 0)
    BY <1>2
  <2>2. QED
    BY <1>2, <2>1, SMTT(30)
<1>9. ~rewritten' /\ NoCheckpoints' => InOrder'
  BY <1>1, <1>7, <1>8, SameItems DEF FileInv
<1>10. rewritten' \in BOOLEAN /\ (rewritten' => restarts' > 0)
  <2>1. rewritten' => restarts > 0
    BY <1>2
  <2>2. QED
    BY <1>1, <1>2, <2>1
<1>11. QED
  BY <1>1, <1>2, <1>3, <1>4, <1>9, <1>10 DEF FileInv

\* Every step keeps the invariant about the file.
LEMMA FileStep == WInv /\ FileInv /\ [Next]_wvars => FileInv'
<1> SUFFICES ASSUME WInv, FileInv, [Next]_wvars PROVE FileInv'
  OBVIOUS
<1>1. CASE UNCHANGED wvars
  <2>1. /\ file' = file /\ log' = log /\ restarts' = restarts /\ offset' = offset
        /\ rewritten' = rewritten /\ record_count' = record_count
        /\ ops' = ops /\ layout' = layout /\ call' = call /\ pos' = pos
    BY <1>1 DEF wvars, manager, history
  <2>2. \A n : ItemCells(n)' = ItemCells(n) /\ Blocks(n)' = Blocks(n)
    BY <2>1, SameItems
  <2>3. NoCheckpoints' => NoCheckpoints
    BY <2>1 DEF NoCheckpoints
  <2>4. ASSUME InOrder PROVE InOrder'
    <3>1. \A st, end : Laid(st, end) => Laid(st, end)'
      BY <2>1, SMTT(30) DEF Laid, Whole, PartAt, Holds, ItemCells, Blocks, HasOld, HasNew,
                  BlockCells
    <3>2. \E st : \E end \in Nat : Laid(st, end)' /\ (restarts' = 0 => end = offset')
      BY <2>1, <2>4, <3>1 DEF InOrder
    <3>3. Stored' = Stored
      BY <2>1 DEF Stored, ItemCells, Blocks, HasOld, HasNew, BlockCells
    <3>4. PartAt(offset, call.item, 1, Stored) => PartAt(offset, call.item, 1, Stored)'
      BY <2>1, <3>3 DEF PartAt, Holds
    <3>5. QED
      BY <2>1, <2>4, <3>2, <3>3, <3>4 DEF InOrder, Writing
  <2>5. QED
    BY <2>1, <2>3, <2>4 DEF FileInv, Blocks, HasOld, HasNew
<1>2. CASE Next
  BY <1>2, FileBegin, FileQuiet, FileWrite, FileFault, FileCount, FileHeaderStep,
     FileRestart DEF Next
<1>3. QED
  BY <1>1, <1>2

(***************************************************************************)
(* read_variable_size_log_item                                             *)
(***************************************************************************)
After(p) ==
  LET n == HeaderAt(p)
  IN  IF n = 0 \/ Blocks(n) = 2 THEN 0 ELSE p + ItemCells(n)

\* The position of item i, from those of the items before it in h.
WalkStep(h, i) ==
  IF i = 0 THEN 1 ELSE IF h[i - 1] = 0 THEN 0 ELSE After(h[i - 1])

IsWalk(h, N) == h = [i \in 0 .. N |-> WalkStep(h, i)]

\* An item that is counted lies in the file as a whole.
LEMMA LaidItem ==
  ASSUME WInv, FileInv, NEW st, NEW end \in Nat, Laid(st, end),
         NEW i \in 1 .. Len(log)
  PROVE  /\ log[i] \in DOMAIN ops /\ log[i] \in Nat \ {0}
         /\ st[i] \in Nat \ {0} /\ st[i + 1] = st[i] + ItemCells(log[i])
         /\ Whole(st[i], log[i]) /\ HeaderAt(st[i]) = log[i]
         /\ ItemCells(log[i]) \in Nat
<1>0. log \in Seq(Nat) /\ ops \in Seq(Ops) /\ layout \in Layouts
  BY DEF FileInv, WInv
<1>1. PICK n \in DOMAIN ops :
        log[i] = n /\ st[i + 1] = st[i] + ItemCells(n) /\ Whole(st[i], n)
  BY DEF Laid
<1>2. /\ st \in [1 .. Len(log) + 1 -> Nat]
      /\ \A j \in 1 .. Len(log) + 1 : 1 <= st[j] /\ st[j] <= end
  BY DEF Laid
<1>3. i \in 1 .. Len(log) + 1
  BY <1>0, SMTT(30)
<1>4. st[i] \in Nat \ {0}
  BY <1>2, <1>3, SMTT(30)
<1>5. n \in Nat \ {0} /\ ItemCells(n) \in Nat
  BY <1>0, Sizes, SMTT(30)
<1>6. HeaderAt(st[i]) = n
  BY <1>1, <1>4, HeaderRead
<1>7. QED
  BY <1>1, <1>4, <1>5, <1>6

\* The walk over items that are not updates goes from item to item.
LEMMA WalkOfLog ==
  ASSUME WInv, FileInv, NEW st, NEW end \in Nat, Laid(st, end),
         NEW N \in Nat, N <= Len(log),
         \A j \in 1 .. N : Blocks(log[j]) < 2
  PROVE  LET at == CHOOSE h : IsWalk(h, N)
         IN  \A j \in 0 .. N : at[j] = st[j + 1]
<1>0. /\ log \in Seq(Nat) /\ Len(log) \in Nat /\ st[1] = 1
      /\ st \in [1 .. Len(log) + 1 -> Nat]
  BY SMTT(30) DEF FileInv, Laid
<1>1. \A j \in 1 .. N : st[j] # 0 /\ After(st[j]) = st[j + 1]
  <2> TAKE j \in 1 .. N
  <2>1. j \in 1 .. Len(log)
    BY <1>0, SMTT(30)
  <2>2. /\ log[j] # 0 /\ st[j] # 0 /\ HeaderAt(st[j]) = log[j]
        /\ st[j + 1] = st[j] + ItemCells(log[j])
    BY <2>1, LaidItem
  <2>3. Blocks(log[j]) # 2
    <3>1. Blocks(log[j]) \in {0, 1, 2} /\ Blocks(log[j]) < 2
      BY SMTT(30) DEF Blocks
    <3>2. QED
      BY <3>1, SMTT(30)
  <2>4. QED
    BY <2>2, <2>3 DEF After
<1> DEFINE g == [j \in 0 .. N |-> st[j + 1]]
           at == CHOOSE h : IsWalk(h, N)
<1>2. IsWalk(g, N)
  <2>1. ASSUME NEW j \in 0 .. N PROVE st[j + 1] = WalkStep(g, j)
    <3>1. CASE j = 0
      BY <1>0, <3>1, SMTT(30) DEF WalkStep
    <3>2. CASE j # 0
      <4>1. j \in 1 .. N /\ j - 1 \in 0 .. N /\ (j - 1) + 1 = j
        BY <3>2, SMTT(30)
      <4>2. g[j - 1] = st[j]
        BY <4>1
      <4> HIDE DEF g
      <4>3. QED
        BY <1>1, <3>2, <4>1, <4>2 DEF WalkStep
    <3>3. QED
      BY <3>1, <3>2
  <2>2. QED
    BY <2>1 DEF IsWalk
<1>3. IsWalk(at, N)
  <2> HIDE DEF g
  <2>1. QED
    BY <1>2
<1> HIDE DEF at, g
<1> DEFINE P == {j \in Nat : j <= N => at[j] = st[j + 1]}
<1>4. \A j \in 0 .. N : at[j] = WalkStep(at, j)
  BY <1>3 DEF IsWalk
<1>5. 0 \in P
  <2>1. at[0] = 1
    BY <1>4, SMTT(30) DEF WalkStep
  <2>2. QED
    BY <1>0, <2>1, SMTT(30)
<1>6. ASSUME NEW j \in Nat, j \in P PROVE j + 1 \in P
  <2> SUFFICES ASSUME j + 1 <= N PROVE at[j + 1] = st[(j + 1) + 1]
    BY SMTT(30)
  <2>1. /\ j + 1 \in 1 .. N /\ j + 1 \in 0 .. N /\ (j + 1) - 1 = j
        /\ at[j] = st[j + 1]
    BY <1>6, SMTT(30)
  <2>2. at[j + 1] = IF at[j] = 0 THEN 0 ELSE After(at[j])
    BY <1>4, <2>1, SMTT(30) DEF WalkStep
  <2>3. QED
    BY <1>1, <2>1, <2>2
<1>7. Nat \subseteq P
  BY <1>5, <1>6, InductiveSet
<1>8. QED
  BY <1>7, SMTT(30) DEF at

\* read_log_item, called for one item after the other, finds all of them.
LEMMA WalkReadsBack == WInv /\ FileInv => ReadsBack
<1> SUFFICES ASSUME WInv, FileInv, restarts = 0, NoCheckpoints,
                    NEW i \in 1 .. record_count,
                    \A j \in 1 .. i - 1 : Blocks(log[j]) < 2
             PROVE  ReadItem(i - 1) = log[i]
  BY DEF ReadsBack
<1>1. InOrder /\ log \in Seq(Nat)
  BY SMTT(30) DEF FileInv
<1>2. PICK st : \E end \in Nat : Laid(st, end)
  BY <1>1 DEF InOrder
<1>3. PICK end \in Nat : Laid(st, end)
  BY <1>2
<1>4. record_count = Len(log) /\ Len(log) \in Nat
  BY <1>1, SMTT(30) DEF InOrder
<1>5. i \in 1 .. Len(log) /\ i - 1 \in Nat /\ i - 1 <= Len(log)
  BY <1>4, SMTT(30)
<1> DEFINE N == i - 1
           at == CHOOSE h : IsWalk(h, N)
<1>6. N \in 0 .. N /\ N + 1 = i
  BY <1>5, SMTT(30)
<1>7. at[N] = st[i]
  <2>1. \A j \in 0 .. N : at[j] = st[j + 1]
    <3> HIDE DEF N
    <3>1. N \in Nat /\ N <= Len(log) /\ \A j \in 1 .. N : Blocks(log[j]) < 2
      BY <1>5 DEF N
    <3>2. QED
      BY <1>3, <3>1, WalkOfLog
  <2> HIDE DEF N, at
  <2>2. QED
    BY <1>6, <2>1
<1>8. /\ st[i] \in Nat \ {0} /\ Whole(st[i], log[i])
      /\ log[i] \in DOMAIN ops
  BY <1>3, <1>5, LaidItem
<1>9. ItemAt(st[i], TRUE) = log[i]
  BY <1>8, ItemRead
<1>10. ReadItem(N) = IF at[N] = 0 THEN 0 ELSE ItemAt(at[N], TRUE)
  BY DEF ReadItem, IsWalk, WalkStep, After
<1>11. QED
  <2> HIDE DEF at
  <2>1. QED
    BY <1>7, <1>8, <1>9, <1>10

(***************************************************************************)
(* The scan of recover                                                     *)
(***************************************************************************)
ScanItem(p) == ItemAt(p, layout.compressed)

\* What the scan finds from position p on, given in h what it finds behind.
ScanBody(h, p, bad) ==
  IF p + HeaderCells > Len(file) THEN <<>>
  ELSE IF ScanItem(p) # 0
  THEN <<ScanItem(p)>> \o h[p + HeaderCells + Blocks(ScanItem(p)) * DataCells][0]
  ELSE IF bad + 1 = SkipThreshold /\ p + SkipBlock < Len(file)
  THEN h[p + SkipBlock][0]
  ELSE IF bad + 1 > MaxInvalid THEN <<>>
  ELSE h[p + HeaderCells][bad + 1]

IsScan(h) == h = [p \in Nat |-> [bad \in Nat |-> ScanBody(h, p, bad)]]

\* The scan only moves forward.
LEMMA ScanMoves ==
  ASSUME WInv, NEW p \in Nat
  PROVE  /\ ScanItem(p) \in Nat
         /\ p + HeaderCells \in Nat /\ p + HeaderCells > p
         /\ p + SkipBlock \in Nat /\ p + SkipBlock > p
         /\ p + HeaderCells + Blocks(ScanItem(p)) * DataCells \in Nat
         /\ p + HeaderCells + Blocks(ScanItem(p)) * DataCells > p
<1>1. HeaderCells \in Nat \ {0} /\ SkipBlock \in Nat \ {0} /\ DataCells \in Nat
  BY LayoutAssumption
<1>2. Blocks(ScanItem(p)) \in {0, 1, 2}
  BY SMTT(30) DEF Blocks
<1>3. Blocks(ScanItem(p)) * DataCells \in Nat
  BY <1>1, <1>2, SMTT(30)
<1>4. HeaderAt(p) \in Nat
  <2> DEFINE S == {n \in DOMAIN ops : Read(p, HeaderCells) = Part(n, 1, HeaderCells)}
  <2>1. S # {} => (CHOOSE n \in S : TRUE) \in S
    OBVIOUS
  <2>2. S \subseteq Nat
    <3>1. ops \in Seq(Ops)
      BY DEF WInv
    <3>2. DOMAIN ops \subseteq Nat
      BY <3>1, SMTT(30)
    <3>3. QED
      BY <3>2
  <2>3. HeaderAt(p) = 0 \/ HeaderAt(p) \in S
    BY <2>1 DEF HeaderAt
  <2>4. QED
    BY <2>2, <2>3, SMTT(30)
<1>5. ScanItem(p) \in Nat
  BY <1>4 DEF ScanItem, ItemAt
<1>6. QED
  BY <1>1, <1>3, <1>5, SMTT(30)

\* What the scan does at a cell depends on the cells behind it only.
LEMMA ScanLocal ==
  ASSUME WInv, NEW p \in Nat, NEW bad \in Nat, NEW h, NEW k,
         \A q \in Nat : q > p => h[q] = k[q]
  PROVE  ScanBody(h, p, bad) = ScanBody(k, p, bad)
<1> DEFINE q == p + HeaderCells + Blocks(ScanItem(p)) * DataCells
<1>1. h[q] = k[q]
  <2>1. q \in Nat /\ q > p
    BY ScanMoves
  <2> HIDE DEF q
  <2>2. QED
    BY <2>1
<1>2. h[p + HeaderCells] = k[p + HeaderCells] /\ h[p + SkipBlock] = k[p + SkipBlock]
  BY ScanMoves
<1>3. QED
  BY <1>1, <1>2 DEF ScanBody

\* What the scan finds is a sequence of items.
LEMMA ScanTyped ==
  ASSUME WInv, NEW p \in Nat, NEW bad \in Nat, NEW h,
         \A q \in Nat : q > p => \A b \in Nat : h[q][b] \in Seq(Nat)
  PROVE  ScanBody(h, p, bad) \in Seq(Nat)
<1> DEFINE q == p + HeaderCells + Blocks(ScanItem(p)) * DataCells
<1>1. h[q][0] \in Seq(Nat)
  <2>1. q \in Nat /\ q > p
    BY ScanMoves
  <2> HIDE DEF q
  <2>2. QED
    BY <2>1
<1>2. h[p + HeaderCells][bad + 1] \in Seq(Nat) /\ h[p + SkipBlock][0] \in Seq(Nat)
  <2>1. bad + 1 \in Nat
    BY SMTT(30)
  <2>2. QED
    BY <2>1, ScanMoves
<1>3. ScanItem(p) \in Nat
  BY ScanMoves
<1>4. <<ScanItem(p)>> \o h[q][0] \in Seq(Nat)
  <2> HIDE DEF q
  <2>1. <<ScanItem(p)>> \in Seq(Nat)
    BY <1>3, SMTT(30)
  <2>2. QED
    BY <1>1, <2>1, SMTT(30)
<1>5. <<>> \in Seq(Nat)
  BY SMTT(30)
<1>6. QED
  BY <1>2, <1>4, <1>5 DEF ScanBody

\* There is such a function: it is built from the end of the file backwards.
LEMMA ScanExists ==
  ASSUME WInv
  PROVE  \E h : IsScan(h)
<1> DEFINE F == [Nat -> [Nat -> Seq(Nat)]]
           Right(h, k) == \A p \in Nat : p + k >= Len(file) =>
                            \A bad \in Nat : h[p][bad] = ScanBody(h, p, bad)
           P == {k \in Nat : \E h \in F : Right(h, k)}
<1>0. Len(file) \in Nat /\ HeaderCells \in Nat \ {0}
  <2>1. file \in Seq(FileCell)
    BY DEF WInv
  <2>2. QED
    BY <2>1, LayoutAssumption, SMTT(30)
<1>1. 0 \in P
  <2> DEFINE h == [p \in Nat |-> [bad \in Nat |-> <<>>]]
  <2>1. h \in F
    BY SMTT(30)
  <2>2. Right(h, 0)
    <3> SUFFICES ASSUME NEW p \in Nat, p + 0 >= Len(file), NEW bad \in Nat
                 PROVE  h[p][bad] = ScanBody(h, p, bad)
      OBVIOUS
    <3>1. h[p][bad] = <<>>
      OBVIOUS
    <3>2. p + HeaderCells > Len(file)
      BY <1>0, SMTT(30)
    <3> HIDE DEF h
    <3>3. QED
      BY <3>1, <3>2 DEF ScanBody
  <2> HIDE DEF h, Right
  <2>3. QED
    BY <2>1, <2>2
<1>2. ASSUME NEW k \in Nat, k \in P PROVE k + 1 \in P
  <2> SUFFICES \E h \in F : Right(h, k + 1)
    <3> HIDE DEF F, Right
    <3>1. QED
      BY SMTT(30)
  <2>1. PICK h \in F : Right(h, k)
    BY <1>2
  <2> DEFINE g == [p \in Nat |-> IF p + k + 1 = Len(file)
                                 THEN [bad \in Nat |-> ScanBody(h, p, bad)]
                                 ELSE h[p]]
  <2>2. \A p \in Nat : p + k + 1 # Len(file) => g[p] = h[p]
    OBVIOUS
  <2>3. \A p \in Nat : p + k + 1 = Len(file) =>
                         \A bad \in Nat : g[p][bad] = ScanBody(h, p, bad)
    OBVIOUS
  <2>4. g \in F
    <3>1. ASSUME NEW p \in Nat, NEW bad \in Nat
          PROVE  ScanBody(h, p, bad) \in Seq(Nat)
      <4>1. \A q \in Nat : \A b \in Nat : h[q][b] \in Seq(Nat)
        OBVIOUS
      <4>2. QED
        BY <4>1, ScanTyped
    <3>2. \A p \in Nat : h[p] \in [Nat -> Seq(Nat)]
      OBVIOUS
    <3>3. \A p \in Nat : [bad \in Nat |-> ScanBody(h, p, bad)] \in [Nat -> Seq(Nat)]
      BY <3>1
    <3>4. QED
      BY <3>2, <3>3
  <2> HIDE DEF g
  <2>5. Right(g, k + 1)
    <3> SUFFICES ASSUME NEW p \in Nat, p + (k + 1) >= Len(file), NEW bad \in Nat
                 PROVE  g[p][bad] = ScanBody(g, p, bad)
      OBVIOUS
    <3>1. \A q \in Nat : q > p => g[q] = h[q]
      BY <1>0, <2>2, SMTT(30)
    <3>2. ScanBody(g, p, bad) = ScanBody(h, p, bad)
      BY <3>1, ScanLocal
    <3>3. CASE p + k + 1 = Len(file)
      BY <2>3, <3>2, <3>3
    <3>4. CASE p + k + 1 # Len(file)
      <4>1. g[p] = h[p]
        BY <2>2, <3>4
      <4>2. p + k >= Len(file)
        BY <1>0, <3>4, SMTT(30)
      <4>3. QED
        BY <2>1, <3>2, <4>1, <4>2
    <3>5. QED
      BY <3>3, <3>4
  <2> HIDE DEF Right, F
  <2>6. QED
    BY <2>4, <2>5
<1>3. Len(file) \in P
  <2> HIDE DEF P
  <2>1. Nat \subseteq P
    BY <1>1, <1>2, InductiveSet
  <2>2. QED
    BY <1>0, <2>1
<1>4. PICK h \in F : Right(h, Len(file))
  BY <1>3
<1>5. \A p \in Nat : \A bad \in Nat : h[p][bad] = ScanBody(h, p, bad)
  <2>1. \A p \in Nat : p + Len(file) >= Len(file)
    BY <1>0, SMTT(30)
  <2>2. QED
    BY <1>4, <2>1
<1>6. h = [p \in Nat |-> [bad \in Nat |-> ScanBody(h, p, bad)]]
  BY <1>5
<1>7. QED
  BY <1>6 DEF IsScan

TheScan == CHOOSE h : IsScan(h)

\* The scan is that function, and finds numbers of items.
LEMMA ScanIs ==
  ASSUME WInv
  PROVE  /\ Scan = TheScan[1][0]
         /\ \A p \in Nat : TheScan[p][0] = ScanBody(TheScan, p, 0)
         /\ \A p \in Nat : TheScan[p][0] \in Seq(Nat)
<1> DEFINE Found(p) == \A bad \in Nat : TheScan[p][bad] \in Seq(Nat)
           P == {k \in Nat : \A p \in Nat : p + k >= Len(file) => Found(p)}
<1>0. Len(file) \in Nat /\ HeaderCells \in Nat \ {0}
  <2>1. file \in Seq(FileCell)
    BY DEF WInv
  <2>2. QED
    BY <2>1, LayoutAssumption, SMTT(30)
<1>1. IsScan(TheScan)
  BY ScanExists DEF TheScan
<1>2. \A p \in Nat : \A bad \in Nat : TheScan[p][bad] = ScanBody(TheScan, p, bad)
  <2> TAKE p \in Nat
  <2>1. TheScan[p] = [bad \in Nat |-> ScanBody(TheScan, p, bad)]
    BY <1>1 DEF IsScan
  <2>2. QED
    BY <2>1
<1>3. 0 \in P
  <2> SUFFICES ASSUME NEW p \in Nat, p + 0 >= Len(file) PROVE Found(p)
    OBVIOUS
  <2>1. p + HeaderCells > Len(file)
    BY <1>0, SMTT(30)
  <2>2. \A bad \in Nat : ScanBody(TheScan, p, bad) = <<>>
    BY <2>1 DEF ScanBody
  <2>3. <<>> \in Seq(Nat)
    BY SMTT(30)
  <2>4. QED
    BY <1>2, <2>2, <2>3
<1>4. ASSUME NEW k \in Nat, k \in P PROVE k + 1 \in P
  <2> SUFFICES ASSUME NEW p \in Nat, p + (k + 1) >= Len(file),
                      NEW bad \in Nat
               PROVE  TheScan[p][bad] \in Seq(Nat)
    BY SMTT(30)
  <2>1. \A q \in Nat : q > p => q + k >= Len(file)
    BY <1>0, SMTT(30)
  <2>2. \A q \in Nat : q > p => \A b \in Nat : TheScan[q][b] \in Seq(Nat)
    BY <1>4, <2>1
  <2>3. ScanBody(TheScan, p, bad) \in Seq(Nat)
    BY <2>2, ScanTyped
  <2>4. QED
    BY <1>2, <2>3
<1>5. Len(file) \in P
  <2> HIDE DEF P
  <2>1. Nat \subseteq P
    BY <1>3, <1>4, InductiveSet
  <2>2. QED
    BY <1>0, <2>1
<1>6. \A p \in Nat : Found(p)
  <2>1. \A p \in Nat : p + Len(file) >= Len(file)
    BY <1>0, SMTT(30)
  <2> HIDE DEF Found
  <2>2. QED
    BY <1>5, <2>1
<1>7. Scan = TheScan[1][0]
  BY DEF Scan, ScanFrom, TheScan, IsScan, ScanBody, ScanItem
<1>8. 0 \in Nat
  OBVIOUS
<1>9. QED
  BY <1>2, <1>6, <1>7, <1>8

\* One item more in front of the rest.
LEMMA Regroup ==
  ASSUME NEW s \in Seq(Nat), NEW a \in Nat, NEW r \in Seq(Nat)
  PROVE  s \o (<<a>> \o r) = (s \o <<a>>) \o r
<1> DEFINE x == s \o (<<a>> \o r)
           y == (s \o <<a>>) \o r
           L == Len(s) + 1 + Len(r)
<1>1. x \in Seq(Nat) /\ Len(x) = L /\ y \in Seq(Nat) /\ Len(y) = L
  BY SMTT(30)
<1>2. \A i \in 1 .. L : x[i] = y[i]
  BY SMTT(30)
<1> HIDE DEF x, y
<1>3. /\ x = [i \in 1 .. L |-> x[i]] /\ y = [i \in 1 .. L |-> y[i]]
  BY <1>1, SMTT(30)
<1>4. x = y
  BY <1>2, <1>3
<1>5. QED
  BY <1>4 DEF x, y

\* Items 1 .. n are found, and passed over exactly.
Crossed(st, n) ==
  \A j \in 1 .. n :
    /\ ScanItem(st[j]) = log[j]
    /\ st[j + 1] = st[j] + HeaderCells + Blocks(log[j]) * DataCells

\* The scan finds one more item after the first n of them.
LEMMA ScanPrefix ==
  ASSUME WInv, FileInv, NEW st, NEW end \in Nat, Laid(st, end),
         NEW n \in Nat, n < Len(log), Crossed(st, n),
         ScanItem(st[n + 1]) = log[n + 1]
  PROVE  n + 1 <= Len(Scan) /\ Scan[n + 1] = log[n + 1]
<1>0. log \in Seq(Nat) /\ Len(log) \in Nat /\ st[1] = 1
  BY SMTT(30) DEF FileInv, Laid
<1> DEFINE Rest(j) == TheScan[st[j]][0]
           Ahead(m) == \E s \in Seq(Nat) : Len(s) = m /\ Scan = s \o Rest(m + 1)
           P == {m \in Nat : m <= n => Ahead(m)}
<1>1. ASSUME NEW j \in 1 .. n + 1
      PROVE  /\ st[j] \in Nat /\ Rest(j) \in Seq(Nat)
             /\ log[j] \in Nat \ {0}
             /\ ScanItem(st[j]) = log[j]
             /\ Rest(j) = <<log[j]>> \o
                  TheScan[st[j] + HeaderCells + Blocks(log[j]) * DataCells][0]
  <2>1. j \in 1 .. Len(log)
    BY <1>0, SMTT(30)
  <2>2. /\ log[j] \in DOMAIN ops /\ log[j] \in Nat \ {0} /\ st[j] \in Nat
        /\ Whole(st[j], log[j])
    BY <2>1, LaidItem
  <2>3. ScanItem(st[j]) = log[j]
    <3>1. CASE j = n + 1
      BY <3>1
    <3>2. CASE j # n + 1
      <4>1. j \in 1 .. n
        BY <3>2, SMTT(30)
      <4>2. QED
        BY <4>1 DEF Crossed
    <3>3. QED
      BY <3>1, <3>2
  <2>4. st[j] + HeaderCells <= Len(file)
    BY <2>2, HeaderRead
  <2>5. ~(st[j] + HeaderCells > Len(file))
    <3>1. file \in Seq(FileCell) /\ HeaderCells \in Nat
      BY LayoutAssumption DEF WInv
    <3>2. QED
      BY <2>2, <2>4, <3>1, SMTT(30)
  <2>6. Rest(j) = ScanBody(TheScan, st[j], 0) /\ Rest(j) \in Seq(Nat)
    BY <2>2, ScanIs
  <2>7. ScanBody(TheScan, st[j], 0) = <<log[j]>> \o
          TheScan[st[j] + HeaderCells + Blocks(log[j]) * DataCells][0]
    BY <2>2, <2>3, <2>5 DEF ScanBody
  <2>8. QED
    BY <2>2, <2>3, <2>6, <2>7
<1>2. \A j \in 1 .. n : Rest(j) = <<log[j]>> \o Rest(j + 1)
  <2> TAKE j \in 1 .. n
  <2>1. j \in 1 .. n + 1
    BY SMTT(30)
  <2>2. st[j + 1] = st[j] + HeaderCells + Blocks(log[j]) * DataCells
    BY DEF Crossed
  <2>3. QED
    BY <1>1, <2>1, <2>2
<1>3. Scan = Rest(1)
  BY <1>0, ScanIs
<1>4. Rest(n + 1) = <<log[n + 1]>> \o
        TheScan[st[n + 1] + HeaderCells + Blocks(log[n + 1]) * DataCells][0]
  <2>1. n + 1 \in 1 .. n + 1
    BY SMTT(30)
  <2>2. QED
    BY <1>1, <2>1
<1>5. \A j \in 1 .. n + 1 : Rest(j) \in Seq(Nat) /\ log[j] \in Nat
  BY <1>1
<1>6. TheScan[st[n + 1] + HeaderCells + Blocks(log[n + 1]) * DataCells][0] \in Seq(Nat)
  <2>1. n + 1 \in 1 .. n + 1
    BY SMTT(30)
  <2>2. st[n + 1] \in Nat /\ ScanItem(st[n + 1]) = log[n + 1]
    BY <1>1, <2>1
  <2>3. st[n + 1] + HeaderCells + Blocks(ScanItem(st[n + 1])) * DataCells \in Nat
    BY <2>2, ScanMoves
  <2>4. st[n + 1] + HeaderCells + Blocks(log[n + 1]) * DataCells \in Nat
    BY <2>2, <2>3
  <2> DEFINE q == st[n + 1] + HeaderCells + Blocks(log[n + 1]) * DataCells
  <2> HIDE DEF q
  <2>5. TheScan[q][0] \in Seq(Nat)
    BY <2>4, ScanIs DEF q
  <2>6. QED
    BY <2>5 DEF q
<1> HIDE DEF Rest
<1>7. 0 \in P
  <2>1. Scan = <<>> \o Rest(0 + 1)
    <3>1. Rest(0 + 1) = Rest(1) /\ 1 \in 1 .. n + 1
      BY SMTT(30)
    <3>2. Rest(1) \in Seq(Nat)
      BY <1>5, <3>1
    <3>3. QED
      BY <1>3, <3>1, <3>2, SMTT(30)
  <2>2. <<>> \in Seq(Nat) /\ Len(<<>>) = 0
    BY SMTT(30)
  <2>3. QED
    BY <2>1, <2>2
<1>8. ASSUME NEW m \in Nat, m \in P PROVE m + 1 \in P
  <2> SUFFICES ASSUME m + 1 <= n PROVE Ahead(m + 1)
    <3> HIDE DEF Ahead
    <3>1. QED
      BY SMTT(30)
  <2>1. PICK s \in Seq(Nat) : Len(s) = m /\ Scan = s \o Rest(m + 1)
    BY <1>8, SMTT(30)
  <2>2. m + 1 \in 1 .. n /\ m + 1 \in 1 .. n + 1 /\ (m + 1) + 1 \in 1 .. n + 1
    BY SMTT(30)
  <2>3. /\ Rest(m + 1) = <<log[m + 1]>> \o Rest((m + 1) + 1)
        /\ log[m + 1] \in Nat /\ Rest((m + 1) + 1) \in Seq(Nat)
    BY <1>2, <1>5, <2>2
  <2> DEFINE a == log[m + 1]
             r == Rest((m + 1) + 1)
             t == s \o <<a>>
  <2>4. a \in Nat /\ r \in Seq(Nat) /\ Scan = s \o (<<a>> \o r)
    BY <2>1, <2>3
  <2> HIDE DEF a, r
  <2>5. t \in Seq(Nat) /\ Len(t) = m + 1 /\ <<a>> \in Seq(Nat)
    BY <2>1, <2>4, SMTT(30)
  <2>6. s \o (<<a>> \o r) = t \o r
    BY <2>1, <2>4, Regroup
  <2>7. QED
    BY <2>4, <2>5, <2>6 DEF r
<1>9. n \in P
  <2> HIDE DEF P
  <2>1. QED
    BY <1>7, <1>8, InductiveSet
<1>10. PICK s \in Seq(Nat) : Len(s) = n /\ Scan = s \o Rest(n + 1)
  BY <1>9, SMTT(30)
<1> DEFINE a == log[n + 1]
           r == TheScan[st[n + 1] + HeaderCells + Blocks(log[n + 1]) * DataCells][0]
<1>11. a \in Nat /\ r \in Seq(Nat) /\ Scan = s \o (<<a>> \o r)
  <2>1. n + 1 \in 1 .. n + 1
    BY SMTT(30)
  <2>2. QED
    BY <1>4, <1>5, <1>6, <1>10, <2>1
<1> HIDE DEF a, r
<1>12. n + 1 <= Len(Scan) /\ Scan[n + 1] = a
  BY <1>10, <1>11, SMTT(30)
<1>13. QED
  BY <1>12 DEF a

\* Data of the size the scan expects, or no data, is passed over exactly.
LEMMA PassedOver ==
  ASSUME WInv, FileInv, NEW st, NEW end \in Nat, Laid(st, end),
         NEW j \in 1 .. Len(log), BlockCells = DataCells \/ Blocks(log[j]) = 0
  PROVE  st[j + 1] = st[j] + HeaderCells + Blocks(log[j]) * DataCells
<1>1. st[j] \in Nat /\ st[j + 1] = st[j] + ItemCells(log[j])
  BY LaidItem
<1>2. ItemCells(log[j]) = HeaderCells + Blocks(log[j]) * DataCells
  <2>1. ItemCells(log[j]) = HeaderCells + Blocks(log[j]) * BlockCells
    BY DEF ItemCells
  <2>2. CASE BlockCells = DataCells
    BY <2>1, <2>2
  <2>3. CASE Blocks(log[j]) = 0
    <3>1. layout \in Layouts
      BY DEF WInv
    <3>2. ItemCells(log[j]) = HeaderCells /\ HeaderCells \in Nat
      BY <2>3, <3>1, Sizes, SMTT(30)
    <3>3. DataCells \in Nat
      BY LayoutAssumption
    <3>4. QED
      BY <2>3, <3>2, <3>3, SMTT(30)
  <2>4. QED
    BY <2>2, <2>3
<1>3. HeaderCells \in Nat /\ DataCells \in Nat /\ Blocks(log[j]) \in {0, 1, 2}
  BY LayoutAssumption, SMTT(30) DEF Blocks
<1>4. Blocks(log[j]) * DataCells \in Nat
  BY <1>3, SMTT(30)
<1>5. QED
  BY <1>1, <1>2, <1>3, <1>4, SMTT(30)

\* Stored with its size, or without data, an item is found by the scan.
LEMMA FoundAt ==
  ASSUME WInv, FileInv, NEW st, NEW end \in Nat, Laid(st, end),
         NEW j \in 1 .. Len(log), layout.compressed \/ Blocks(log[j]) = 0
  PROVE  ScanItem(st[j]) = log[j]
<1>1. /\ log[j] \in DOMAIN ops /\ st[j] \in Nat /\ Whole(st[j], log[j])
  BY LaidItem
<1>2. /\ ItemAt(st[j], TRUE) = log[j]
      /\ Blocks(log[j]) = 0 => ItemAt(st[j], FALSE) = log[j]
  BY <1>1, ItemRead
<1>3. layout.compressed \in BOOLEAN
  BY LayoutAssumption DEF WInv
<1>4. CASE layout.compressed
  <2>1. layout.compressed = TRUE
    BY <1>3, <1>4
  <2>2. QED
    BY <1>2, <2>1 DEF ScanItem
<1>5. CASE ~layout.compressed
  <2>1. layout.compressed = FALSE /\ Blocks(log[j]) = 0
    BY <1>3, <1>5
  <2>2. QED
    BY <1>2, <2>1 DEF ScanItem
<1>6. QED
  BY <1>4, <1>5

\* The scan finds the items of the log in front of all others.
LEMMA ScanLeading == WInv /\ FileInv => ScanFindsLeading
<1> SUFFICES ASSUME WInv, FileInv, ~rewritten, NoCheckpoints, NEW i \in Certain
             PROVE  i <= Len(Scan) /\ Scan[i] = log[i]
  BY DEF ScanFindsLeading
<1>1. InOrder /\ log \in Seq(Nat) /\ Len(log) \in Nat
  BY SMTT(30) DEF FileInv
<1>2. PICK st : \E end \in Nat : Laid(st, end)
  BY <1>1 DEF InOrder
<1>3. PICK end \in Nat : Laid(st, end)
  BY <1>2
<1>4. /\ i \in 1 .. Len(log)
      /\ layout.compressed \/ \A j \in 1 .. i : Blocks(log[j]) = 0
      /\ \/ BlockCells = DataCells /\ layout.compressed
         \/ \A j \in 1 .. i - 1 : Blocks(log[j]) = 0
  <2>1. CASE layout.compressed /\ BlockCells = DataCells
    BY <2>1 DEF Certain
  <2>2. CASE layout.compressed /\ BlockCells # DataCells
    BY <2>2 DEF Certain
  <2>3. CASE ~layout.compressed
    <3>1. i \in 1 .. Len(log) /\ \A j \in 1 .. i : Blocks(log[j]) = 0
      BY <2>3 DEF Certain
    <3>2. \A j \in 1 .. i - 1 : j \in 1 .. i
      BY <3>1, SMTT(30)
    <3>3. QED
      BY <3>1, <3>2
  <2>4. QED
    BY <2>1, <2>2, <2>3
<1>5. ASSUME NEW j \in 1 .. i PROVE ScanItem(st[j]) = log[j]
  <2>1. j \in 1 .. Len(log) /\ (layout.compressed \/ Blocks(log[j]) = 0)
    BY <1>1, <1>4, SMTT(30)
  <2>2. QED
    BY <1>3, <2>1, FoundAt
<1>6. ASSUME NEW j \in 1 .. i - 1
      PROVE  st[j + 1] = st[j] + HeaderCells + Blocks(log[j]) * DataCells
  <2>1. j \in 1 .. Len(log) /\ (BlockCells = DataCells \/ Blocks(log[j]) = 0)
    BY <1>1, <1>4, SMTT(30)
  <2>2. QED
    BY <1>3, <2>1, PassedOver
<1> DEFINE n == i - 1
<1>7. n \in Nat /\ n < Len(log) /\ n + 1 = i
  BY <1>1, <1>4, SMTT(30)
<1>8. Crossed(st, n)
  <2>1. \A j \in 1 .. n : j \in 1 .. i
    BY <1>4, SMTT(30)
  <2>2. QED
    BY <1>5, <1>6, <2>1 DEF Crossed
<1>9. ScanItem(st[n + 1]) = log[n + 1]
  <2>1. i \in 1 .. i
    BY <1>4, SMTT(30)
  <2>2. QED
    BY <1>5, <1>7, <2>1
<1> HIDE DEF n
<1>10. n + 1 <= Len(Scan) /\ Scan[n + 1] = log[n + 1]
  BY <1>3, <1>7, <1>8, <1>9, ScanPrefix
<1>11. QED
  BY <1>7, <1>10

\* read_log_item and the scan of recover give the written items back: until
\* a restart every counted item is read by its number, as long as no update
\* lies before it, and after a crash at any point of any write the scan finds
\* the leading items in their order, for every size of header and data.
THEOREM LogIsReadable == Spec => []WalReadable
<1> DEFINE I == WInv /\ FileInv
<1>1. Init => I
  BY InitWInv, InitFile
<1>2. I /\ [Next]_wvars => I'
  BY StepWInv, FileStep
<1>3. I => WalReadable
  BY WalkReadsBack, ScanLeading DEF WalReadable
<1> HIDE DEF I
<1>4. QED
  BY <1>1, <1>2, <1>3, PTL DEF Spec
=============================================================================
