--------------------------- MODULE StructureProofs --------------------------
(***************************************************************************)
(* The allocator, for pools, requests and threads of any number and size,  *)
(* and the ring of a table with a time to live, for every size of ring.    *)
(***************************************************************************)
EXTENDS StaticAllocator, TtlRing, FiniteSetTheorems, TLAPS

USE ZenonT(30)

(***************************************************************************)
(* The ring                                                                *)
(***************************************************************************)

SlotStates == {"FREE", "ACTIVE", "DELETED"}
OutItem == [item : Nat, time : Nat, now : Nat]

\* The first trWrite slots were written, each with the item of its number; the
\* others are FREE.  An ACTIVE slot was not read, and its block is held.
TrInv ==
  /\ trRead \in Nat /\ trWrite \in Nat
  /\ trRead <= trWrite /\ trWrite <= Capacity
  /\ DOMAIN trSlots = Ring
  /\ \A s \in Ring : /\ DOMAIN trSlots[s] = {"state", "time", "item"}
                     /\ trSlots[s].state \in SlotStates
                     /\ trSlots[s].state = "FREE" <=> s >= trWrite
                     /\ trSlots[s].time \in Nat
                     /\ s < trWrite => trSlots[s].item = s
                     /\ trSlots[s].state = "ACTIVE" => s >= trRead
  /\ \A e \in trHeap : e.slot \in Ring
  /\ trHeld = IF trUp THEN RingOf("ACTIVE") ELSE {}
  /\ trUp \in BOOLEAN
  /\ trOut \in Seq(OutItem)
  /\ \A i \in DOMAIN trOut : trOut[i].item < trRead
  /\ TrInOrder

\* In the first lap item k goes to slot k.
LEMMA SlotIs ==
  ASSUME NEW k \in Nat, k < Capacity
  PROVE  SlotOf(k) = k /\ k \in Ring
BY RingAssumption, SMTT(30) DEF SlotOf, Ring

\* The items of written slots are their numbers.
LEMMA ItemsAre ==
  ASSUME TrInv, NEW S, S \subseteq RingOf("ACTIVE")
  PROVE  TrItems(S) = S
<1>1. \A s \in S : s \in Ring /\ trSlots[s].item = s
  BY RingAssumption, SMTT(30) DEF TrInv, RingOf, Ring
<1>2. QED
  BY <1>1 DEF TrItems

\* Only active items expire.
LEMMA ExpiredActive ==
  ASSUME TrInv, NEW now
  PROVE  Expired(now) \subseteq RingOf("ACTIVE")
BY SMTT(30) DEF TrInv, Expired, Due, Current, RingOf

\* Deleting items changes the state of their slots only.
LEMMA DeletedSlots ==
  ASSUME NEW slots, DOMAIN slots = Ring, NEW S,
         \A s \in Ring : DOMAIN slots[s] = {"state", "time", "item"}
  PROVE  /\ DOMAIN Deleted(slots, S) = Ring
         /\ \A s \in Ring :
              /\ Deleted(slots, S)[s].state =
                   IF s \in S THEN "DELETED" ELSE slots[s].state
              /\ Deleted(slots, S)[s].time = slots[s].time
              /\ Deleted(slots, S)[s].item = slots[s].item
              /\ DOMAIN Deleted(slots, S)[s] = {"state", "time", "item"}
BY DEF Deleted

\* A step that deletes ACTIVE slots, gives their blocks back, and may move the
\* read position over slots that are not ACTIVE any more.
LEMMA Removing ==
  ASSUME TrInv, trUp, NEW S, S \subseteq RingOf("ACTIVE"),
         trSlots' = Deleted(trSlots, S), trHeld' = trHeld \ S,
         trHeap' \subseteq trHeap, trWrite' = trWrite, trUp' = trUp,
         trRead' \in Nat, trRead <= trRead', trRead' <= trWrite,
         \A s \in RingOf("ACTIVE") \ S : s >= trRead',
         trOut' \in Seq(OutItem),
         \A i \in DOMAIN trOut' : trOut'[i].item < trRead',
         TrInOrder'
  PROVE  TrInv'
<1>1. /\ DOMAIN trSlots = Ring
      /\ \A s \in Ring : /\ DOMAIN trSlots[s] = {"state", "time", "item"}
                         /\ trSlots[s].state \in SlotStates
                         /\ trSlots[s].time \in Nat
                         /\ trSlots[s].state = "FREE" <=> s >= trWrite
                         /\ s < trWrite => trSlots[s].item = s
  BY DEF TrInv
<1>2. /\ DOMAIN trSlots' = Ring
      /\ \A s \in Ring :
           /\ trSlots'[s].state = IF s \in S THEN "DELETED" ELSE trSlots[s].state
           /\ trSlots'[s].time = trSlots[s].time
           /\ trSlots'[s].item = trSlots[s].item
           /\ DOMAIN trSlots'[s] = {"state", "time", "item"}
  BY <1>1, DeletedSlots, SMTT(30)
<1>3. \A s \in S : s \in Ring /\ trSlots[s].state = "ACTIVE"
  BY DEF RingOf
<1>4. RingOf("ACTIVE")' = RingOf("ACTIVE") \ S
  BY <1>2, <1>3, SMTT(30) DEF RingOf
<1>5. ASSUME NEW s \in Ring
      PROVE  /\ trSlots'[s].state \in SlotStates
             /\ trSlots'[s].time \in Nat
             /\ trSlots'[s].state = "FREE" <=> s >= trWrite'
             /\ s < trWrite' => trSlots'[s].item = s
             /\ trSlots'[s].state = "ACTIVE" => s >= trRead'
             /\ DOMAIN trSlots'[s] = {"state", "time", "item"}
  <2>1. trSlots'[s].state = "ACTIVE" => s \in RingOf("ACTIVE") \ S
    BY <1>2 DEF RingOf
  <2>2. s \in S => trSlots[s].state # "FREE"
    BY <1>3
  <2>3. QED
    BY <1>1, <1>2, <2>1, <2>2 DEF SlotStates
<1>6. trHeld' = IF trUp' THEN RingOf("ACTIVE")' ELSE {}
  BY <1>4 DEF TrInv
<1>7. \A e \in trHeap' : e.slot \in Ring
  BY DEF TrInv
<1>8. QED
  BY <1>2, <1>5, <1>6, <1>7 DEF TrInv

\* Deleting twice is deleting the items of both.
LEMMA DeletedTwice ==
  ASSUME NEW slots, DOMAIN slots = Ring, NEW S, NEW T,
         \A s \in Ring : DOMAIN slots[s] = {"state", "time", "item"}
  PROVE  Deleted(Deleted(slots, S), T) = Deleted(slots, S \cup T)
BY DEF Deleted

\* The invariant holds for a new ring.
LEMMA TrInitInv == TrInit => TrInv
<1> SUFFICES ASSUME TrInit PROVE TrInv
  OBVIOUS
<1>1. /\ DOMAIN trSlots = Ring
      /\ \A s \in Ring : trSlots[s] = [state |-> "FREE", time |-> 0, item |-> 0]
  BY DEF TrInit
<1>2. \A s \in Ring : s >= 0
  BY RingAssumption, SMTT(30) DEF Ring
<1>3. RingOf("ACTIVE") = {}
  BY <1>1, SMTT(30) DEF RingOf
<1>4. trOut = <<>> /\ trOut \in Seq(OutItem) /\ DOMAIN trOut = {}
  BY SMTT(30) DEF TrInit
<1>5. TrInOrder
  BY <1>4 DEF TrInOrder
<1>6. QED
  BY <1>1, <1>2, <1>3, <1>4, <1>5, RingAssumption, SMTT(30) DEF TrInit, TrInv, SlotStates, Ring

\* What a step that returns no item leaves of the history.
LEMMA SameOut ==
  ASSUME TrInv, trOut' = trOut, trRead' \in Nat, trRead <= trRead'
  PROVE  /\ trOut' \in Seq(OutItem)
         /\ \A i \in DOMAIN trOut' : trOut'[i].item < trRead'
         /\ TrInOrder'
<1>1. \A i \in DOMAIN trOut : trOut[i].item \in Nat
  <2>1. \A i \in DOMAIN trOut : trOut[i] \in OutItem
    BY SMTT(30) DEF TrInv
  <2>2. QED
    BY <2>1 DEF OutItem
<1>2. QED
  BY <1>1, SMTT(30) DEF TrInv, TrInOrder

\* Expired items are evicted.
LEMMA EvictExpiredStep ==
  ASSUME TrInv, NEW now \in TrTimes, TrEvictExpired(now)
  PROVE  TrInv'
<1>1. Expired(now) \subseteq RingOf("ACTIVE")
  BY ExpiredActive
<1>2. TrItems(Expired(now)) = Expired(now)
  BY <1>1, ItemsAre
<1>3. /\ trUp /\ trSlots' = Deleted(trSlots, Expired(now))
      /\ trHeld' = trHeld \ Expired(now) /\ trHeap' \subseteq trHeap
      /\ trWrite' = trWrite /\ trUp' = trUp /\ trRead' = trRead /\ trOut' = trOut
  BY <1>2 DEF TrEvictExpired, Evicted
<1>4. /\ trRead' \in Nat /\ trRead <= trRead' /\ trRead' <= trWrite
      /\ \A s \in RingOf("ACTIVE") : s >= trRead'
  BY <1>3, SMTT(30) DEF TrInv, RingOf
<1>5. QED
  BY <1>1, <1>3, <1>4, SameOut, Removing

\* The items that expire next are evicted.
LEMMA EvictShortestStep ==
  ASSUME TrInv, NEW now \in TrTimes, TrEvictShortest(now)
  PROVE  TrInv'
<1> DEFINE victim == IF ShortestEntry(now) # {} THEN ShortestEntry(now)
                                               ELSE Fallback(now)
           S == Expired(now) \cup victim
<1>1. victim \subseteq RingOf("ACTIVE")
  <2>1. ShortestEntry(now) \subseteq RingOf("ACTIVE")
    BY SMTT(30) DEF ShortestEntry, Least, Current, RingOf, TrInv
  <2>2. Fallback(now) \subseteq RingOf("ACTIVE")
    BY DEF Fallback, Unread
  <2>3. QED
    BY <2>1, <2>2
<1>2. S \subseteq RingOf("ACTIVE")
  BY <1>1, ExpiredActive
<1>3. TrItems(S) = S
  BY <1>2, ItemsAre
<1>4. /\ trUp /\ trSlots' = Deleted(trSlots, S)
      /\ trHeld' = trHeld \ S /\ trHeap' \subseteq trHeap
      /\ trWrite' = trWrite /\ trUp' = trUp /\ trRead' = trRead /\ trOut' = trOut
  BY <1>3 DEF TrEvictShortest
<1> HIDE DEF S
<1>5. /\ trRead' \in Nat /\ trRead <= trRead' /\ trRead' <= trWrite
      /\ \A s \in RingOf("ACTIVE") : s >= trRead'
  BY <1>4, SMTT(30) DEF TrInv, RingOf
<1>6. QED
  BY <1>2, <1>4, <1>5, SameOut, Removing

\* The ring is dropped with all its blocks.
LEMMA DropStep == TrInv /\ TrDrop => TrInv'
<1> SUFFICES ASSUME TrInv, TrDrop PROVE TrInv'
  OBVIOUS
<1>1. TrItems(RingOf("ACTIVE")) = RingOf("ACTIVE")
  BY ItemsAre
<1>2. trHeld' = {} /\ trUp' = FALSE
  BY <1>1 DEF TrDrop, TrInv
<1>3. TrInOrder'
  BY DEF TrInv, TrDrop, TrInOrder
<1>4. QED
  BY <1>2, <1>3 DEF TrInv, TrDrop

\* An item goes to a free slot; if the slot is not free nothing is written and
\* expired items are evicted.
LEMMA WriteItemStep ==
  ASSUME TrInv, NEW now \in TrTimes, NEW ttl \in TrTtls, TrWriteItem(now, ttl)
  PROVE  TrInv'
<1> DEFINE slot == SlotOf(trWrite)
           expires == (now + ttl) % TrTimeMod
           evict == trSlots[slot].state \notin {"FREE", "DELETED"}
           swept == IF evict THEN Expired(now) ELSE {}
<1>1. CASE trSlots[slot].state = "FREE"
  <2>1. /\ trUp /\ trSlots' = [trSlots EXCEPT ![slot] =
              [state |-> "ACTIVE", time |-> expires, item |-> trWrite]]
        /\ trHeap' = trHeap \cup
              {[time |-> expires, slot |-> slot, logical |-> trWrite]}
        /\ trHeld' = trHeld \cup {trWrite} /\ trWrite' = trWrite + 1
        /\ trRead' = trRead /\ trOut' = trOut /\ trUp' = trUp
    BY <1>1 DEF TrWriteItem
  <2>2. trWrite < Capacity
    <3>1. slot \in Ring /\ trWrite \in Nat
      BY RingAssumption, SMTT(30) DEF SlotOf, Ring, TrInv
    <3>2. slot >= trWrite
      BY <1>1, <3>1 DEF TrInv
    <3>3. QED
      BY <3>1, <3>2, RingAssumption, SMTT(30) DEF Ring, TrInv
  <2>3. slot = trWrite /\ slot \in Ring
    BY <2>2, SlotIs DEF TrInv
  <2>4. expires \in Nat
    <3>1. now \in Nat /\ ttl \in Nat /\ TrTimeMod \in Nat \ {0}
      BY RingAssumption
    <3>2. QED
      BY <3>1, SMTT(30)
  <2> HIDE DEF expires, slot
  <2>5. /\ DOMAIN trSlots' = Ring
        /\ \A s \in Ring : trSlots'[s] =
             IF s = trWrite
             THEN [state |-> "ACTIVE", time |-> expires, item |-> trWrite]
             ELSE trSlots[s]
    BY <2>1, <2>3 DEF TrInv
  <2>6. RingOf("ACTIVE")' = RingOf("ACTIVE") \cup {trWrite}
    BY <2>3, <2>5, SMTT(30) DEF RingOf
  <2>7. \A s \in Ring : /\ DOMAIN trSlots'[s] = {"state", "time", "item"}
                        /\ trSlots'[s].state \in SlotStates
                        /\ trSlots'[s].time \in Nat
                        /\ trSlots'[s].state = "FREE" <=> s >= trWrite'
                        /\ s < trWrite' => trSlots'[s].item = s
                        /\ trSlots'[s].state = "ACTIVE" => s >= trRead'
    <3> SUFFICES ASSUME NEW s \in Ring
                 PROVE  /\ DOMAIN trSlots'[s] = {"state", "time", "item"}
                        /\ trSlots'[s].state \in SlotStates
                        /\ trSlots'[s].time \in Nat
                        /\ trSlots'[s].state = "FREE" <=> s >= trWrite'
                        /\ s < trWrite' => trSlots'[s].item = s
                        /\ trSlots'[s].state = "ACTIVE" => s >= trRead'
      OBVIOUS
    <3>1. s \in Nat
      BY RingAssumption, SMTT(30) DEF Ring
    <3>2. CASE s = trWrite
      BY <2>1, <2>4, <2>5, <3>1, <3>2, SMTT(30) DEF TrInv, SlotStates
    <3>3. CASE s # trWrite
      BY <2>1, <2>5, <3>1, <3>3, SMTT(30) DEF TrInv
    <3>4. QED
      BY <3>2, <3>3
  <2>8. trHeld' = IF trUp' THEN RingOf("ACTIVE")' ELSE {}
    BY <2>1, <2>6 DEF TrInv
  <2>9. \A e \in trHeap' : e.slot \in Ring
    BY <2>1, <2>3, SMTT(30) DEF TrInv
  <2>10. trRead' \in Nat /\ trRead <= trRead' /\ trWrite' \in Nat
         /\ trRead' <= trWrite' /\ trWrite' <= Capacity
    BY <2>1, <2>2, RingAssumption, SMTT(30) DEF TrInv
  <2>11. /\ trOut' \in Seq(OutItem) /\ TrInOrder'
         /\ \A i \in DOMAIN trOut' : trOut'[i].item < trRead'
    BY <2>1, <2>10, SameOut
  <2>12. QED
    BY <2>1, <2>5, <2>7, <2>8, <2>9, <2>10, <2>11 DEF TrInv
<1>2. CASE trSlots[slot].state # "FREE"
  <2>1. swept \subseteq RingOf("ACTIVE")
    BY ExpiredActive
  <2>2. TrItems(swept) = swept
    BY <2>1, ItemsAre, SMTT(30)
  <2>3. /\ trUp /\ trSlots' = Deleted(trSlots, swept)
        /\ trHeld' = trHeld \ swept /\ trHeap' \subseteq trHeap
        /\ trWrite' = trWrite /\ trUp' = trUp /\ trRead' = trRead
        /\ trOut' = trOut
    BY <1>2, <2>2 DEF TrWriteItem
  <2> HIDE DEF swept
  <2>4. /\ trRead' \in Nat /\ trRead <= trRead' /\ trRead' <= trWrite
        /\ \A s \in RingOf("ACTIVE") : s >= trRead'
    BY <2>3, SMTT(30) DEF TrInv, RingOf
  <2>5. QED
    BY <2>1, <2>3, <2>4, SameOut, Removing
<1>3. QED
  BY <1>1, <1>2

\* The oldest item is read, after the expired ones are evicted.
LEMMA ReadItemStep ==
  ASSUME TrInv, NEW now \in TrTimes, TrReadItem(now)
  PROVE  TrInv'
<1> DEFINE E == Expired(now)
           slot == SlotOf(trRead)
           swept == Deleted(trSlots, E)
           active == swept[slot].state = "ACTIVE"
           fresh == active /\ swept[slot].time > now
<1>1. E \subseteq RingOf("ACTIVE") /\ TrItems(E) = E
  BY ExpiredActive, ItemsAre
<1>2. /\ DOMAIN trSlots = Ring
      /\ \A s \in Ring : DOMAIN trSlots[s] = {"state", "time", "item"}
  BY DEF TrInv
<1>3. CASE trRead = trWrite
  <2>1. /\ trUp /\ trSlots' = Deleted(trSlots, E)
        /\ trHeld' = trHeld \ E /\ trHeap' \subseteq trHeap
        /\ trWrite' = trWrite /\ trUp' = trUp /\ trRead' = trRead
        /\ trOut' = trOut
    BY <1>1, <1>3 DEF TrReadItem, Evicted
  <2> HIDE DEF E
  <2>2. /\ trRead' \in Nat /\ trRead <= trRead' /\ trRead' <= trWrite
        /\ \A s \in RingOf("ACTIVE") : s >= trRead'
    BY <2>1, SMTT(30) DEF TrInv, RingOf
  <2>3. QED
    BY <1>1, <2>1, <2>2, SameOut, Removing
<1>4. CASE trRead # trWrite
  <2> DEFINE S == E \cup (IF active THEN {slot} ELSE {})
  <2>0. trRead < Capacity /\ trRead < trWrite
    BY <1>4, RingAssumption, SMTT(30) DEF TrInv
  <2>1. slot = trRead /\ slot \in Ring
    BY <2>0, SlotIs DEF TrInv
  <2>2. /\ swept[slot].state = IF slot \in E THEN "DELETED" ELSE trSlots[slot].state
        /\ swept[slot].time = trSlots[slot].time
        /\ swept[slot].item = trSlots[slot].item
    BY <1>2, <2>1, DeletedSlots, SMTT(30)
  <2>3. trSlots[slot].item = trRead /\ trSlots[slot].time \in Nat
    BY <2>0, <2>1 DEF TrInv
  <2>4. active => slot \in RingOf("ACTIVE") \ E
    BY <2>1, <2>2 DEF RingOf
  <2>5. S \subseteq RingOf("ACTIVE") /\ TrItems({slot}) = {trRead}
    BY <1>1, <2>3, <2>4 DEF TrItems
  <2>6. /\ trUp /\ trHeap' = trHeap \ Due(now)
        /\ trSlots' = IF active THEN Deleted(swept, {slot}) ELSE swept
        /\ trHeld' = trHeld \ (TrItems(E) \cup
                               (IF active THEN TrItems({slot}) ELSE {}))
        /\ trRead' = trRead + 1
        /\ trOut' = IF fresh
                    THEN Append(trOut, [item |-> swept[slot].item,
                                        time |-> swept[slot].time, now |-> now])
                    ELSE trOut
        /\ trWrite' = trWrite /\ trUp' = trUp
    BY <1>4 DEF TrReadItem, Evicted
  <2>7. trSlots' = Deleted(trSlots, S)
    <3>1. CASE active
      BY <1>2, <2>6, <3>1, DeletedTwice, SMTT(30)
    <3>2. CASE ~active
      BY <2>6, <3>2
    <3>3. QED
      BY <3>1, <3>2
  <2>8. trHeld' = trHeld \ S
    BY <1>1, <2>1, <2>5, <2>6
  <2>9. \A s \in RingOf("ACTIVE") \ S : s >= trRead'
    <3> SUFFICES ASSUME NEW s \in RingOf("ACTIVE") \ S PROVE s >= trRead + 1
      BY <2>6
    <3>1. s \in Ring /\ s \in Nat /\ s >= trRead /\ trSlots[s].state = "ACTIVE"
      BY RingAssumption, SMTT(30) DEF RingOf, TrInv, Ring
    <3>2. s # trRead
      <4> SUFFICES ASSUME s = trRead PROVE FALSE
        OBVIOUS
      <4>1. s = slot /\ s \notin E
        BY <2>1
      <4>2. active
        BY <2>2, <3>1, <4>1
      <4>3. QED
        BY <4>1, <4>2
    <3>3. QED
      BY <3>1, <3>2, SMTT(30) DEF TrInv
  <2>10. trRead' \in Nat /\ trRead <= trRead' /\ trRead' <= trWrite
    BY <2>0, <2>6, SMTT(30) DEF TrInv
  <2>11. /\ trOut' \in Seq(OutItem) /\ TrInOrder'
         /\ \A i \in DOMAIN trOut' : trOut'[i].item < trRead'
    <3>1. CASE ~fresh
      BY <2>6, <2>10, <3>1, SameOut
    <3>2. CASE fresh
      <4> DEFINE new == [item |-> trRead, time |-> trSlots[slot].time, now |-> now]
      <4>1. trOut' = Append(trOut, new)
        BY <2>2, <2>3, <2>6, <3>2
      <4>2. new \in OutItem /\ new.item = trRead /\ new.time > new.now
        BY <2>2, <2>3, <3>2, RingAssumption DEF OutItem, TrInv
      <4>3. /\ trOut \in Seq(OutItem) /\ trRead \in Nat
            /\ \A i \in 1 .. Len(trOut) : trOut[i].item \in Nat
                                        /\ trOut[i].item < trRead
        <5>1. trOut \in Seq(OutItem) /\ trRead \in Nat
              /\ \A i \in 1 .. Len(trOut) : trOut[i].item < trRead
          BY SMTT(30) DEF TrInv
        <5>2. \A i \in 1 .. Len(trOut) : trOut[i] \in OutItem
          BY <5>1, SMTT(30)
        <5>3. QED
          BY <5>1, <5>2 DEF OutItem
      <4>4. /\ \A i, j \in 1 .. Len(trOut) : i < j => trOut[i].item < trOut[j].item
            /\ \A i \in 1 .. Len(trOut) : trOut[i].time > trOut[i].now
        BY <4>3, SMTT(30) DEF TrInv, TrInOrder
      <4> HIDE DEF new
      <4>5. /\ trOut' \in Seq(OutItem) /\ Len(trOut') = Len(trOut) + 1
            /\ \A i \in 1 .. Len(trOut) : trOut'[i] = trOut[i]
            /\ trOut'[Len(trOut) + 1] = new
            /\ DOMAIN trOut' = 1 .. Len(trOut) + 1
        BY <4>1, <4>2, <4>3, SMTT(30)
      <4>6. \A i \in 1 .. Len(trOut) + 1 : i \in 1 .. Len(trOut) \/ i = Len(trOut) + 1
        BY <4>3, SMTT(30)
      <4>7. TrInOrder'
        BY <4>2, <4>3, <4>4, <4>5, <4>6, SMTT(30) DEF TrInOrder
      <4>8. \A i \in DOMAIN trOut' : trOut'[i].item < trRead'
        BY <2>6, <4>2, <4>3, <4>5, <4>6, SMTT(30)
      <4>9. QED
        BY <4>5, <4>7, <4>8
    <3>3. QED
      BY <3>1, <3>2
  <2>12. trHeap' \subseteq trHeap
    BY <2>6
  <2> HIDE DEF S
  <2>13. QED
    BY <2>5, <2>6, <2>7, <2>8, <2>9, <2>10, <2>11, <2>12, Removing
<1>5. QED
  BY <1>3, <1>4

\* The ring of ttl_ringbuffer.rs for every capacity, all times and any order of
\* calls: no block of a message is lost or freed twice, read returns items in the
\* order of writing and none that has expired, and the ring takes one lap only.
THEOREM RingIsSound == TrSpec => []TrSound
<1>1. TrInit => TrInv
  BY TrInitInv
<1>2. TrInv /\ [TrNext]_trVars => TrInv'
  <2> SUFFICES ASSUME TrInv, [TrNext]_trVars PROVE TrInv'
    OBVIOUS
  <2>1. CASE UNCHANGED trVars
    BY <2>1 DEF trVars, TrInv, TrInOrder, RingOf
  <2>2. CASE TrNext
    BY <2>2, EvictExpiredStep, ReadItemStep, EvictShortestStep, WriteItemStep,
       DropStep DEF TrNext
  <2>3. QED
    BY <2>1, <2>2
<1>3. TrInv => TrSound
  <2> SUFFICES ASSUME TrInv PROVE TrSound
    OBVIOUS
  <2>1. TrItems(RingOf("ACTIVE")) = RingOf("ACTIVE")
    BY ItemsAre
  <2>2. ASSUME NEW s \in RingOf("ACTIVE")
        PROVE  trSlots[s].item \in trRead .. trWrite - 1
               /\ SlotOf(trSlots[s].item) = s
    <3>1. /\ s \in Ring /\ s \in Nat /\ s < Capacity /\ trSlots[s].state = "ACTIVE"
          /\ trRead \in Nat /\ trWrite \in Nat
      BY RingAssumption, SMTT(30) DEF RingOf, Ring, TrInv
    <3>2. s < trWrite /\ s >= trRead
      BY <3>1, SMTT(30) DEF TrInv
    <3>3. trSlots[s].item = s
      BY <3>1, <3>2 DEF TrInv
    <3>4. SlotOf(s) = s
      BY <3>1, SlotIs
    <3>5. QED
      BY <3>1, <3>2, <3>3, <3>4, SMTT(30)
  <2>3. QED
    BY <2>1, <2>2 DEF TrInv, TrSound, TrBlocksOwned
<1>4. QED
  BY <1>1, <1>2, <1>3, PTL DEF TrSpec

-----------------------------------------------------------------------------
(***************************************************************************)
(* The allocator                                                           *)
(***************************************************************************)

\* No two free blocks touch.
Coalesced == \A b, c \in free_list : End(b) # c

\* The block of pointer p is in the pool at s.
Inside(s, p) == s <= p - Header /\ p - Header < s + PoolSize

\* Whose blocks the allocated ones are.
Owned ==
  /\ \A t \in Threads, i \in Parts :
       ptrs[t][i] # 0 /\ Inside(start, ptrs[t][i]) =>
         ptrs[t][i] - Header \in Allocated \ leaked
  /\ \A t, u \in Threads, i, j \in Parts :
       /\ ptrs[t][i] # 0
       /\ ptrs[t][i] = ptrs[u][j]
       /\ Inside(start, ptrs[t][i])
       => t = u /\ i = j
  /\ \A b \in Allocated :
       b \in leaked \/ \E t \in Threads, i \in Parts : ptrs[t][i] = b + Header
  /\ leaked \subseteq Allocated

\* The parts of a table that is being created are allocated in order.
Stages ==
  \A t \in Threads :
    /\ op[t] = "none" => \A i \in Parts : ptrs[t][i] = 0
    /\ op[t] = "new" => /\ ptrs[t][3] = 0
                        /\ ptrs[t][1] = 0 => ptrs[t][2] = 0

\* Before the first pool is given there are no blocks and no pointers.
NotReady ==
  ~ready => /\ Blocks = {} /\ ~merging
            /\ \A t \in Threads, i \in Parts : ptrs[t][i] = 0

\* The inductive invariant.
AInv ==
  /\ TypeOK /\ BlocksTile /\ Owned /\ Stages /\ NotReady
  /\ ~merging => Coalesced

\* Requests are rounded up to natural numbers.
LEMMA AlignedNat == \A n \in Nat : Aligned(n) \in Nat
BY SMTT(30) DEF Aligned

\* The order and cover part of BlocksTile as a property of any blocks B with
\* sizes z in the pool at s: what CutTiles and MergeTiles are about.
Tile(B, z, s) ==
  /\ \A b \in B : s <= b /\ b + Header + z[b] <= s + PoolSize
  /\ \A b, c \in B : b < c => b + Header + z[b] <= c
  /\ \A x \in s .. s + PoolSize - 1 : \E b \in B : b <= x /\ x < b + Header + z[b]

\* Cutting a block in two keeps the pool tiled.
LEMMA CutTiles ==
  ASSUME NEW B \in SUBSET Nat, NEW z \in [B -> Nat], NEW s \in Nat, Tile(B, z, s),
         NEW b \in B, NEW n \in Nat, z[b] >= n + Header + 8,
         NEW r, r = b + Header + n,
         NEW y, y = [c \in B \cup {r} |-> IF c = b THEN n ELSE
                                          IF c = r THEN z[b] - n - Header ELSE z[c]]
  PROVE  /\ r \in Nat /\ r \notin B /\ b < r /\ r < b + Header + z[b]
         /\ y \in [B \cup {r} -> Nat]
         /\ y[b] = n /\ y[r] = z[b] - n - Header
         /\ \A c \in B \ {b} : y[c] = z[c]
         /\ Tile(B \cup {r}, y, s)
<1>0. Header \in Nat \ {0} /\ PoolSize \in Nat
  BY AllocatorAssumption
<1>1. r \in Nat /\ b < r /\ r < b + Header + z[b] /\ b \in Nat /\ z[b] \in Nat
  BY <1>0, SMTT(30)
<1>2. r \notin B
  BY <1>0, <1>1, SMTT(30) DEF Tile
<1>3. /\ y \in [B \cup {r} -> Nat] /\ y[b] = n /\ y[r] = z[b] - n - Header
      /\ \A c \in B \ {b} : y[c] = z[c]
  <2>1. z[b] - n - Header \in Nat
    BY <1>0, <1>1, SMTT(30)
  <2>2. \A c \in B \cup {r} : (IF c = b THEN n ELSE IF c = r THEN z[b] - n - Header
                               ELSE z[c]) \in Nat
    BY <1>2, <2>1
  <2> QED BY <1>1, <1>2, <2>2, Zenon
<1>4. /\ b + Header + y[b] = r /\ r + Header + y[r] = b + Header + z[b]
  BY <1>0, <1>1, <1>3, SMTT(30)
<1>5. ASSUME NEW c \in B \cup {r}
      PROVE  s <= c /\ c + Header + y[c] <= s + PoolSize
  <2>1. CASE c = b \/ c = r
    BY <1>0, <1>1, <1>4, <2>1, SMTT(30) DEF Tile
  <2>2. CASE c \in B \ {b}
    BY <1>3, <2>2 DEF Tile
  <2> QED BY <2>1, <2>2
<1>6. ASSUME NEW c \in B \cup {r}, NEW d \in B \cup {r}, c < d
      PROVE  c + Header + y[c] <= d
  <2>0. \A e \in B : e \in Nat /\ z[e] \in Nat
    OBVIOUS
  <2>1. CASE c \in B \ {b} /\ d \in B
    BY <1>3, <1>6, <2>1 DEF Tile
  <2>2. CASE c = b /\ d \in B
    BY <1>0, <1>1, <1>4, <1>6, <2>0, <2>2, SMTT(30) DEF Tile
  <2>3. CASE c = r /\ d \in B
    <3>1. b < d
      BY <1>1, <1>6, <2>0, <2>3, SMTT(30)
    <3> QED BY <1>4, <2>3, <3>1 DEF Tile
  <2>4. CASE c \in B /\ d = r
    <3>1. CASE c = b
      BY <1>0, <1>1, <1>4, <2>4, <3>1, SMTT(30)
    <3>2. CASE c # b
      <4>1. ~(b < c)
        BY <1>0, <1>1, <1>6, <2>0, <2>4, SMTT(30) DEF Tile
      <4>2. c + Header + z[c] <= b
        BY <1>1, <2>0, <2>4, <3>2, <4>1, SMTT(30) DEF Tile
      <4> QED BY <1>0, <1>1, <1>3, <2>0, <2>4, <3>2, <4>2, SMTT(30)
    <3> QED BY <3>1, <3>2
  <2> QED BY <1>1, <1>6, <2>1, <2>2, <2>3, <2>4, SMTT(30)
<1>7. ASSUME NEW x \in s .. s + PoolSize - 1
      PROVE  \E c \in B \cup {r} : c <= x /\ x < c + Header + y[c]
  <2>1. PICK c \in B : c <= x /\ x < c + Header + z[c]
    BY DEF Tile
  <2>2. CASE c # b
    BY <1>3, <2>1, <2>2
  <2>3. CASE c = b /\ x < r
    BY <1>4, <2>1, <2>3
  <2>4. CASE c = b /\ ~(x < r)
    BY <1>0, <1>1, <1>4, <2>1, <2>4, SMTT(30)
  <2> QED BY <2>2, <2>3, <2>4, Zenon
<1> QED BY <1>1, <1>2, <1>3, <1>5, <1>6, <1>7, Zenon DEF Tile

\* Merging a block with the one behind it keeps the pool tiled.
LEMMA MergeTiles ==
  ASSUME NEW B \in SUBSET Nat, NEW z \in [B -> Nat], NEW s \in Nat, Tile(B, z, s),
         NEW b \in B, NEW c \in B, b + Header + z[b] = c,
         NEW y \in [B \ {c} -> Nat], y[b] = z[b] + Header + z[c],
         \A x \in B \ {b, c} : y[x] = z[x]
  PROVE  Tile(B \ {c}, y, s)
<1>0. Header \in Nat \ {0} /\ PoolSize \in Nat
  BY AllocatorAssumption
<1>1. /\ b \in Nat /\ c \in Nat /\ z[b] \in Nat /\ z[c] \in Nat /\ b < c
      /\ \A e \in B : e \in Nat /\ z[e] \in Nat
  BY <1>0, SMTT(30)
<1>2. /\ b \in B \ {c} /\ y[b] = z[b] + Header + z[c]
      /\ \A x \in B \ {b, c} : y[x] = z[x]
  BY <1>1, SMTT(30)
<1>3. b + Header + y[b] = c + Header + z[c]
  BY <1>0, <1>1, <1>2, SMTT(30)
<1>4. ASSUME NEW x \in B \ {c}
      PROVE  s <= x /\ x + Header + y[x] <= s + PoolSize
  BY <1>2, <1>3 DEF Tile
<1>5. ASSUME NEW x \in B \ {c}, NEW w \in B \ {c}, x < w
      PROVE  x + Header + y[x] <= w
  <2>1. CASE x # b
    BY <1>2, <1>5, <2>1 DEF Tile
  <2>2. CASE x = b
    <3>1. c <= w
      BY <1>5, <2>2 DEF Tile
    <3>2. c < w
      BY <1>1, <3>1, SMTT(30)
    <3> QED BY <1>3, <2>2, <3>2 DEF Tile
  <2> QED BY <2>1, <2>2
<1>6. ASSUME NEW x \in s .. s + PoolSize - 1
      PROVE  \E w \in B \ {c} : w <= x /\ x < w + Header + y[w]
  <2>1. PICK w \in B : w <= x /\ x < w + Header + z[w]
    BY DEF Tile
  <2>2. CASE w = c
    BY <1>0, <1>1, <1>2, <1>3, <2>1, <2>2, SMTT(30)
  <2>3. CASE w = b
    BY <1>0, <1>1, <1>2, <1>3, <2>1, <2>3, SMTT(30)
  <2>4. CASE w # b /\ w # c
    BY <1>2, <2>1, <2>4
  <2> QED BY <2>2, <2>3, <2>4
<1> QED BY <1>2, <1>3, <1>4, <1>5, <1>6 DEF Tile

\* A pool with its blocks is tiled in the sense of the two lemmas.
LEMMA TileOf == ASSUME ready, BlocksTile PROVE Tile(Blocks, size, start)
BY DEF BlocksTile, Tile, End

\* And the other way round, after a step.
LEMMA OfTileNext == Tile(Blocks', size', start') => BlocksTile'
BY DEF BlocksTile, Tile, End

\* The constants, and the types of single blocks.
LEMMA BlockTypes ==
  ASSUME TypeOK
  PROVE  /\ Header \in Nat \ {0} /\ PoolSize \in Nat /\ start \in Nat
         /\ Blocks \in SUBSET Nat /\ size \in [Blocks -> Nat]
         /\ \A b \in Blocks : b \in Nat /\ size[b] \in Nat /\ End(b) \in Nat
<1>1. /\ Header \in Nat \ {0} /\ PoolSize \in Nat /\ start \in Nat
      /\ Blocks \in SUBSET Nat /\ size \in [Blocks -> Nat]
  BY AllocatorAssumption DEF TypeOK
<1>2. \A b \in Blocks : b \in Nat /\ size[b] \in Nat /\ End(b) \in Nat
  BY <1>1, SMTT(30) DEF End
<1> QED BY <1>1, <1>2

\* A block handed out by allocate becomes the one new allocated block, the pool
\* stays tiled and no free blocks touch.
LEMMA TakeStep ==
  ASSUME TypeOK, BlocksTile, Coalesced, ready, NEW b, NEW n \in Nat, Take(b, n)
  PROVE  /\ Blocks' \subseteq Nat /\ size' \in [Blocks' -> Nat]
         /\ free_list' \subseteq Blocks' /\ used' \in Nat
         /\ BlocksTile' /\ Coalesced'
         /\ b \in free_list /\ Allocated' = Allocated \cup {b}
         /\ Blocks \subseteq Blocks'
         /\ \A c \in Blocks \ {b} : size'[c] = size[c]
<1>0. /\ Header \in Nat \ {0} /\ PoolSize \in Nat /\ start \in Nat
      /\ Blocks \in SUBSET Nat /\ size \in [Blocks -> Nat]
      /\ \A c \in Blocks : c \in Nat /\ size[c] \in Nat /\ End(c) \in Nat
  BY BlockTypes
<1>1. /\ b \in free_list /\ b \in Blocks /\ free_list \subseteq Blocks /\ used \in Nat
      /\ start' = start
  BY DEF Take, Fits, TypeOK
<1>2. Tile(Blocks, size, start)
  BY TileOf
<1>3. CASE ~Cut(b, n)
  <2>1. free_list' = free_list \ {b} /\ size' = size
    BY <1>3 DEF Take
  <2>2. Blocks' = Blocks /\ used' = used + size[b] + Header
    BY <2>1 DEF Take, Blocks
  <2>3. used' \in Nat
    BY <1>0, <1>1, <2>2, SMTT(30)
  <2>4. BlocksTile' /\ Coalesced'
    BY <1>1, <1>2, <2>1, <2>2, OfTileNext DEF Coalesced, End
  <2>5. Allocated' = Allocated \cup {b}
    BY <1>1, <2>1, <2>2 DEF Allocated
  <2> QED BY <1>0, <1>1, <2>1, <2>2, <2>3, <2>4, <2>5
<1>4. CASE Cut(b, n)
  <2> DEFINE r == Rest(b, n)
  <2>1. free_list' = (free_list \ {b}) \cup {r} /\ size' = Split(b, n)
    BY <1>4 DEF Take
  <2>2. size[b] >= n + Header + 8 /\ r = b + Header + n
    BY <1>4 DEF Cut, Rest
  <2>3. size' = [c \in Blocks \cup {r} |-> IF c = b THEN n ELSE
                    IF c = r THEN size[b] - n - Header ELSE size[c]]
    BY <2>1 DEF Split
  <2>4. Blocks' = Blocks \cup {r}
    BY <2>3 DEF Blocks
  <2> HIDE DEF r
  <2>5. /\ r \in Nat /\ r \notin Blocks /\ b < r /\ r < b + Header + size[b]
        /\ size' \in [Blocks \cup {r} -> Nat]
        /\ size'[b] = n /\ size'[r] = size[b] - n - Header
        /\ \A c \in Blocks \ {b} : size'[c] = size[c]
        /\ Tile(Blocks \cup {r}, size', start)
    BY <1>0, <1>1, <1>2, <2>2, <2>3, CutTiles, SMTT(30)
  <2>6. BlocksTile'
    BY <1>1, <2>4, <2>5, OfTileNext
  <2>7. used' \in Nat
    <3>1. used' = used + n + Header
      BY <2>5 DEF Take
    <3> QED BY <1>0, <1>1, <3>1, SMTT(30)
  <2>8. Allocated' = Allocated \cup {b}
    BY <1>1, <2>1, <2>4, <2>5 DEF Allocated
  <2>9. ASSUME NEW c \in free_list', NEW d \in free_list' PROVE End(c)' # d
    <3>1. (c \in free_list \ {b} \/ c = r) /\ (d \in free_list \ {b} \/ d = r)
      BY <2>1
    <3>2. CASE c \in free_list \ {b} /\ d \in free_list \ {b}
      BY <1>1, <2>5, <3>2 DEF Coalesced, End
    <3>3. CASE c = r /\ d \in free_list \ {b}
      <4>1. End(c)' = End(b)
        BY <1>0, <1>1, <2>2, <2>5, <3>3, SMTT(30) DEF End
      <4> QED BY <1>1, <3>3, <4>1 DEF Coalesced
    <3>4. CASE c \in free_list \ {b} /\ d = r
      <4>1. End(c)' = End(c) /\ c \in Blocks /\ c # b
        BY <1>1, <2>5, <3>4 DEF End
      <4>2. End(c) # r
        <5>1. CASE c < b
          BY <1>0, <1>1, <1>2, <2>5, <4>1, <5>1, SMTT(30) DEF Tile, End
        <5>2. CASE b < c
          BY <1>0, <1>1, <1>2, <2>5, <4>1, <5>2, SMTT(30) DEF Tile, End
        <5> QED BY <1>0, <1>1, <4>1, <5>1, <5>2, SMTT(30)
      <4> QED BY <3>4, <4>1, <4>2
    <3>5. CASE c = r /\ d = r
      BY <1>0, <1>1, <2>5, <3>5, SMTT(30) DEF End
    <3> QED BY <3>1, <3>2, <3>3, <3>4, <3>5
  <2> QED
    <3>1. Coalesced'
      BY <2>9 DEF Coalesced
    <3> QED BY <1>0, <1>1, <2>1, <2>4, <2>5, <2>6, <2>7, <2>8, <3>1
<1> QED BY <1>3, <1>4

\* Allocated blocks exist only in a pool.
LEMMA ReadyOf == ASSUME NotReady, Blocks # {} PROVE ready
BY DEF NotReady

\* The part that is allocated next has no block.
LEMMA NextPartFree ==
  ASSUME Stages, NEW t \in Threads, op[t] = "new"
  PROVE  /\ NextPart(t) \in Parts /\ ptrs[t][NextPart(t)] = 0
         /\ \A j \in Parts : j < NextPart(t) => ptrs[t][j] # 0
<1>1. ptrs[t][3] = 0 /\ (ptrs[t][1] = 0 => ptrs[t][2] = 0)
  BY DEF Stages
<1>2. \E i \in Parts : ptrs[t][i] = 0 /\ \A j \in Parts : j < i => ptrs[t][j] # 0
  <2>1. CASE ptrs[t][1] = 0
    <3>1. 1 \in Parts /\ \A j \in Parts : ~(j < 1)
      BY SMTT(30) DEF Parts
    <3> QED BY <2>1, <3>1
  <2>2. CASE ptrs[t][1] # 0 /\ ptrs[t][2] = 0
    <3>1. 2 \in Parts /\ \A j \in Parts : j < 2 => j = 1
      BY SMTT(30) DEF Parts
    <3> QED BY <2>2, <3>1
  <2>3. CASE ptrs[t][1] # 0 /\ ptrs[t][2] # 0
    <3>1. 3 \in Parts /\ \A j \in Parts : j < 3 => j = 1 \/ j = 2
      BY SMTT(30) DEF Parts
    <3> QED BY <1>1, <2>3, <3>1
  <2> QED BY <2>1, <2>2, <2>3
<1> QED BY <1>2 DEF NextPart

\* allocate gives a table that is being created its next part.
LEMMA AllocPartStep ==
  ASSUME AInv, NEW t \in Threads, NEW n \in Sizes, AllocPart(t, n)
  PROVE  AInv'
<1>0. /\ TypeOK /\ BlocksTile /\ Owned /\ Stages /\ NotReady /\ Coalesced
  BY DEF AInv, AllocPart
<1> DEFINE k == NextPart(t)
<1>1. /\ k \in Parts /\ ptrs[t][k] = 0
      /\ \A j \in Parts : j < k => ptrs[t][j] # 0
  BY <1>0, NextPartFree DEF AllocPart
<1>2. PICK b \in free_list : /\ Take(b, Aligned(n))
                             /\ ptrs' = [ptrs EXCEPT ![t][k] = b + Header]
  BY DEF AllocPart
<1>3. op' = [op EXCEPT ![t] = IF k = 3 THEN "table" ELSE "new"]
  BY DEF AllocPart
<1> HIDE DEF k
<1>4. /\ b \in Blocks /\ b \in Nat /\ Header \in Nat \ {0}
      /\ b + Header \in Nat \ {0} /\ (b + Header) - Header = b
  <2>1. b \in Blocks /\ b \in Nat /\ Header \in Nat \ {0}
    BY <1>0, BlockTypes DEF TypeOK
  <2> QED BY <2>1, SMTT(30)
<1>5. ready
  BY <1>0, <1>4, ReadyOf
<1>6. Aligned(n) \in Nat
  BY AlignedNat, AllocatorAssumption
<1>7. /\ Blocks' \subseteq Nat /\ size' \in [Blocks' -> Nat]
      /\ free_list' \subseteq Blocks' /\ used' \in Nat
      /\ BlocksTile' /\ Coalesced'
      /\ Allocated' = Allocated \cup {b}
      /\ Blocks \subseteq Blocks'
  BY <1>0, <1>2, <1>5, <1>6, TakeStep
<1>8. /\ ready' = ready /\ start' = start /\ merging' = merging /\ leaked' = leaked
      /\ free_count' = free_count /\ alloc_count' = alloc_count + 1
  BY <1>2 DEF Take, AllocPart
<1>9. ptrs \in [Threads -> [Parts -> Nat]] /\ leaked \subseteq Blocks
      /\ op \in [Threads -> {"none", "new", "table", "drop"}]
  BY <1>0 DEF TypeOK
<1>10. /\ ptrs' \in [Threads -> [Parts -> Nat]]
       /\ ptrs'[t][k] = b + Header
       /\ \A u \in Threads, i \in Parts : (u # t \/ i # k) => ptrs'[u][i] = ptrs[u][i]
  BY <1>1, <1>2, <1>4, <1>9
<1>11. TypeOK'
  <2>1. op' \in [Threads -> {"none", "new", "table", "drop"}]
    BY <1>3, <1>9
  <2>2. alloc_count' \in Nat /\ free_count' \in Nat
    BY <1>0, <1>8, SMTT(30) DEF TypeOK
  <2>3. ready' \in BOOLEAN /\ merging' \in BOOLEAN /\ start' \in Bases
    BY <1>0, <1>8 DEF TypeOK
  <2>4. leaked' \subseteq Blocks'
    BY <1>7, <1>8, <1>9
  <2> QED BY <1>7, <1>10, <2>1, <2>2, <2>3, <2>4, Zenon DEF TypeOK
<1>12. b \notin Allocated /\ b \notin leaked
  BY <1>0, <1>2 DEF Allocated, Owned
<1>13. Owned'
  <2>1. ASSUME NEW u \in Threads, NEW i \in Parts,
               ptrs'[u][i] # 0, Inside(start, ptrs'[u][i])
        PROVE  ptrs'[u][i] - Header \in Allocated' \ leaked'
    <3>1. CASE (u = t /\ i = k)
      BY <1>4, <1>7, <1>8, <1>10, <1>12, <3>1
    <3>2. CASE (u # t \/ i # k)
      BY <1>0, <1>7, <1>8, <1>10, <2>1, <3>2 DEF Owned
    <3> QED BY <3>1, <3>2
  <2>2. ASSUME NEW u \in Threads, NEW v \in Threads, NEW i \in Parts, NEW j \in Parts,
               ptrs'[u][i] # 0, ptrs'[u][i] = ptrs'[v][j], Inside(start, ptrs'[u][i])
        PROVE  u = v /\ i = j
    <3>1. ASSUME NEW w \in Threads, NEW l \in Parts, (w # t \/ l # k),
                 ptrs'[w][l] = ptrs'[t][k], Inside(start, ptrs'[t][k])
          PROVE  FALSE
      <4>1. ptrs[w][l] = b + Header /\ Inside(start, ptrs[w][l])
        BY <1>10, <3>1
      <4>2. ptrs[w][l] - Header \in Allocated
        BY <1>0, <1>4, <4>1 DEF Owned
      <4> QED BY <1>4, <1>12, <4>1, <4>2
    <3>2. CASE (u = t /\ i = k) \/ (v = t /\ j = k)
      BY <2>2, <3>1, <3>2
    <3>3. CASE (u # t \/ i # k) /\ (v # t \/ j # k)
      BY <1>0, <1>10, <2>2, <3>3, SMTT(30) DEF Owned
    <3> QED BY <3>2, <3>3
  <2>3. ASSUME NEW c \in Allocated'
        PROVE  c \in leaked' \/ \E u \in Threads, i \in Parts : ptrs'[u][i] = c + Header
    <3>1. CASE c = b
      BY <1>1, <1>10, <3>1
    <3>2. CASE c \in Allocated /\ c \notin leaked
      <4>1. PICK u \in Threads, i \in Parts : ptrs[u][i] = c + Header
        BY <1>0, <3>2 DEF Owned
      <4>2. c \in Nat
        BY <1>0, <3>2, BlockTypes DEF Allocated
      <4>3. c + Header # 0
        BY <1>4, <4>2, SMTT(30)
      <4>4. (u # t \/ i # k)
        BY <1>1, <4>1, <4>3
      <4> QED BY <1>10, <4>1, <4>4
    <3> QED BY <1>7, <1>8, <3>1, <3>2
  <2>4. leaked' \subseteq Allocated'
    BY <1>0, <1>7, <1>8 DEF Owned
  <2> QED BY <1>8, <2>1, <2>2, <2>3, <2>4, SMTT(30) DEF Owned
<1>14. Stages'
  <2> SUFFICES ASSUME NEW u \in Threads
               PROVE  /\ op'[u] = "none" => \A i \in Parts : ptrs'[u][i] = 0
                      /\ op'[u] = "new" => /\ ptrs'[u][3] = 0
                                           /\ ptrs'[u][1] = 0 => ptrs'[u][2] = 0
    BY DEF Stages
  <2>0. 1 \in Parts /\ 2 \in Parts /\ 3 \in Parts /\ (k = 1 \/ k = 2 \/ k = 3)
    BY <1>1, SMTT(30) DEF Parts
  <2>1. CASE u # t
    BY <1>0, <1>3, <1>9, <1>10, <2>0, <2>1, SMTT(30) DEF Stages
  <2>2. CASE u = t
    <3>1. op'[t] = IF k = 3 THEN "table" ELSE "new"
      BY <1>3, <1>9
    <3>2. ptrs[t][3] = 0
      BY <1>0 DEF Stages, AllocPart
    <3>3. CASE k = 3
      BY <2>2, <3>1, <3>3
    <3>4. CASE k # 3
      <4>1. ptrs'[t][3] = 0
        BY <1>10, <2>0, <3>2, <3>4
      <4>2. ptrs'[t][1] # 0
        BY <1>1, <1>4, <1>10, <2>0, <3>4, SMTT(30)
      <4> QED BY <2>2, <3>1, <3>4, <4>1, <4>2
    <3> QED BY <3>3, <3>4
  <2> QED BY <2>1, <2>2
<1> QED BY <1>5, <1>7, <1>8, <1>11, <1>13, <1>14 DEF AInv, NotReady

\* An allocated block lies in the pool.
LEMMA AllocatedInside ==
  ASSUME TypeOK, BlocksTile, NotReady, NEW b \in Allocated
  PROVE  ready /\ b \in Nat /\ Inside(start, b + Header)
<1>1. b \in Blocks /\ ready
  BY ReadyOf DEF Allocated
<1>2. /\ Header \in Nat \ {0} /\ PoolSize \in Nat /\ start \in Nat
      /\ b \in Nat /\ size[b] \in Nat
  BY <1>1, BlockTypes
<1>3. start <= b /\ b + Header + size[b] <= start + PoolSize
  BY <1>1 DEF BlocksTile, End
<1>4. (b + Header) - Header = b /\ b < start + PoolSize
  BY <1>2, <1>3, SMTT(30)
<1> QED BY <1>1, <1>2, <1>3, <1>4 DEF Inside

\* drop frees the next part of a table, in the current pool or in an earlier one.
LEMMA FreePartStep ==
  ASSUME AInv, NEW t \in Threads, NEW k \in Parts, FreePart(t, k)
  PROVE  AInv'
<1>0. /\ TypeOK /\ BlocksTile /\ Owned /\ Stages /\ NotReady /\ Coalesced
  BY DEF AInv, FreePart
<1> DEFINE p == ptrs[t][k]
           b == p - Header
<1>1. /\ p # 0 /\ FreeBlock(b) /\ ptrs' = [ptrs EXCEPT ![t][k] = 0]
      /\ op' = [op EXCEPT ![t] = IF k = 3 THEN "none" ELSE "drop"]
      /\ leaked' = leaked /\ ~merging
      /\ \A j \in Parts : j < k => ptrs[t][j] = 0
  BY DEF FreePart
<1>2. /\ ptrs \in [Threads -> [Parts -> Nat]] /\ leaked \subseteq Blocks
      /\ op \in [Threads -> {"none", "new", "table", "drop"}]
      /\ used \in Nat /\ alloc_count \in Nat /\ free_count \in Nat
      /\ free_list \subseteq Blocks
  BY <1>0 DEF TypeOK
<1>3. /\ ptrs' \in [Threads -> [Parts -> Nat]]
      /\ ptrs'[t][k] = 0
      /\ \A u \in Threads, i \in Parts : (u # t \/ i # k) => ptrs'[u][i] = ptrs[u][i]
  BY <1>1, <1>2
<1>4. /\ Header \in Nat \ {0} /\ PoolSize \in Nat /\ start \in Nat
      /\ Blocks \in SUBSET Nat /\ size \in [Blocks -> Nat]
  BY <1>0, BlockTypes
<1>5. p \in Nat /\ b + Header = p
  BY <1>2, <1>4, SMTT(30)
<1>6. InPool(b) <=> Inside(start, p)
  BY DEF InPool, Inside
<1>7. InPool(b) => b \in Allocated /\ b \notin leaked
  BY <1>0, <1>1, <1>6 DEF Owned
<1>8. /\ ready' = ready /\ start' = start /\ size' = size /\ alloc_count' = alloc_count
      /\ free_list' \subseteq Blocks /\ Allocated' = Allocated \ {b}
      /\ merging' \in BOOLEAN /\ (~merging' => free_list' = free_list)
      /\ free_count' \in Nat
  <2>1. CASE InPool(b) /\ GiveBack(b)
    <3>1. /\ ready' = ready /\ start' = start /\ size' = size /\ alloc_count' = alloc_count
          /\ free_list' = free_list \cup {b} /\ merging' = TRUE
          /\ free_count' = free_count + 1
      BY <2>1 DEF GiveBack
    <3> HIDE DEF b
    <3>2. b \in Blocks /\ Blocks' = Blocks
      BY <1>7, <2>1, <3>1 DEF Allocated, Blocks
    <3> QED BY <1>2, <3>1, <3>2, SMTT(30) DEF Allocated
  <2>2. CASE ~InPool(b) /\ UNCHANGED allocator
    <3>1. /\ ready' = ready /\ start' = start /\ size' = size /\ alloc_count' = alloc_count
          /\ free_list' = free_list /\ merging' = merging /\ free_count' = free_count
      BY <2>2 DEF allocator
    <3>2. Allocated' = Allocated
      BY <3>1 DEF Allocated, Blocks
    <3>3. b \notin Allocated
      <4>1. ASSUME b \in Allocated PROVE FALSE
        BY <1>0, <1>5, <1>6, <2>2, <4>1, AllocatedInside
      <4> QED BY <4>1
    <3> HIDE DEF b
    <3>4. merging \in BOOLEAN
      BY <1>0 DEF TypeOK
    <3> QED BY <1>2, <3>1, <3>2, <3>3, <3>4
  <2> QED BY <1>1, <2>1, <2>2 DEF FreeBlock
<1>9. used' \in Nat
  <2>1. CASE InPool(b)
    <3>1. size[b] \in Nat
      BY <1>4, <1>7, <2>1 DEF Allocated
    <3>2. used' = IF used >= size[b] + Header THEN used - (size[b] + Header) ELSE used
      BY <1>1, <2>1 DEF FreeBlock, GiveBack
    <3> HIDE DEF b
    <3> QED BY <1>2, <1>4, <3>1, <3>2, SMTT(30)
  <2>2. CASE ~InPool(b)
    BY <1>1, <1>2, <2>2 DEF FreeBlock, allocator
  <2> QED BY <2>1, <2>2
<1>10. Blocks' = Blocks
  BY <1>8 DEF Blocks
<1> HIDE DEF b, p
<1>11. TypeOK'
  <2>1. op' \in [Threads -> {"none", "new", "table", "drop"}]
    BY <1>1, <1>2
  <2>2. ready' \in BOOLEAN /\ start' \in Bases
    BY <1>0, <1>8 DEF TypeOK
  <2>3. /\ Blocks' \subseteq Nat /\ size' \in [Blocks' -> Nat]
        /\ free_list' \subseteq Blocks' /\ leaked' \subseteq Blocks' /\ alloc_count' \in Nat
    BY <1>1, <1>2, <1>4, <1>8, <1>10
  <2> QED BY <1>3, <1>8, <1>9, <2>1, <2>2, <2>3, Zenon DEF TypeOK
<1>12. BlocksTile'
  BY <1>0, <1>8, <1>10 DEF BlocksTile, End
<1>13. ~merging' => Coalesced'
  BY <1>0, <1>8 DEF Coalesced, End
<1>14. Owned'
  <2>1. ASSUME NEW u \in Threads, NEW i \in Parts,
               ptrs'[u][i] # 0, Inside(start, ptrs'[u][i])
        PROVE  ptrs'[u][i] - Header \in Allocated' \ leaked'
    <3>1. (u # t \/ i # k) /\ ptrs'[u][i] = ptrs[u][i]
      BY <1>3, <2>1
    <3>2. ptrs[u][i] - Header \in Allocated \ leaked
      BY <1>0, <2>1, <3>1 DEF Owned
    <3>3. ptrs[u][i] # p
      BY <1>0, <2>1, <3>1, SMTT(30) DEF Owned, p
    <3>4. ptrs[u][i] - Header # b
      <4>1. ptrs[u][i] \in Nat
        BY <1>2
      <4> QED BY <1>4, <1>5, <3>3, <4>1, SMTT(30) DEF b
    <3> QED BY <1>1, <1>8, <3>1, <3>2, <3>4, SMTT(30)
  <2>2. ASSUME NEW u \in Threads, NEW v \in Threads, NEW i \in Parts, NEW j \in Parts,
               ptrs'[u][i] # 0, ptrs'[u][i] = ptrs'[v][j], Inside(start, ptrs'[u][i])
        PROVE  u = v /\ i = j
    <3>1. (u # t \/ i # k) /\ (v # t \/ j # k)
      BY <1>3, <2>2
    <3> QED BY <1>0, <1>3, <2>2, <3>1, SMTT(30) DEF Owned
  <2>3. ASSUME NEW c \in Allocated'
        PROVE  c \in leaked' \/ \E u \in Threads, i \in Parts : ptrs'[u][i] = c + Header
    <3>1. c \in Allocated /\ c # b /\ c \in Nat
      BY <1>4, <1>8 DEF Allocated
    <3>2. CASE c \notin leaked
      <4>1. PICK u \in Threads, i \in Parts : ptrs[u][i] = c + Header
        BY <1>0, <3>1, <3>2 DEF Owned
      <4>2. c + Header # p
        BY <1>4, <1>5, <3>1, SMTT(30) DEF b
      <4> QED BY <1>3, <4>1, <4>2 DEF p
    <3> QED BY <1>1, <3>2
  <2>4. leaked' \subseteq Allocated'
    <3>1. b \notin leaked
      BY <1>0, <1>5, <1>6, <1>7, AllocatedInside DEF Owned
    <3> QED BY <1>0, <1>1, <1>8, <3>1 DEF Owned
  <2> QED BY <1>8, <2>1, <2>2, <2>3, <2>4, SMTT(30) DEF Owned
<1>15. Stages'
  <2> SUFFICES ASSUME NEW u \in Threads
               PROVE  /\ op'[u] = "none" => \A i \in Parts : ptrs'[u][i] = 0
                      /\ op'[u] = "new" => /\ ptrs'[u][3] = 0
                                           /\ ptrs'[u][1] = 0 => ptrs'[u][2] = 0
    BY DEF Stages
  <2>0. 1 \in Parts /\ 2 \in Parts /\ 3 \in Parts
    BY SMTT(30) DEF Parts
  <2>1. CASE u # t
    BY <1>0, <1>1, <1>2, <1>3, <2>0, <2>1 DEF Stages
  <2>2. CASE u = t
    <3>1. op'[t] = IF k = 3 THEN "none" ELSE "drop"
      BY <1>1, <1>2
    <3>2. ASSUME k = 3, NEW i \in Parts PROVE ptrs'[t][i] = 0
      <4>1. i = 3 \/ i < 3
        BY SMTT(30) DEF Parts
      <4> QED BY <1>1, <1>3, <3>2, <4>1
    <3> QED BY <2>2, <3>1, <3>2
  <2> QED BY <2>1, <2>2
<1>16. NotReady'
  <2>1. ASSUME ~ready PROVE FALSE
    BY <1>0, <1>1, <2>1 DEF NotReady, p
  <2> QED BY <1>8, <2>1 DEF NotReady
<1> QED BY <1>11, <1>12, <1>13, <1>14, <1>15, <1>16 DEF AInv

\* allocate reports OutOfMemory: the parts the table has are lost.
LEMMA AllocFailsStep ==
  ASSUME AInv, NEW t \in Threads, NEW n \in Sizes, AllocFails(t, n)
  PROVE  AInv'
<1>0. /\ TypeOK /\ BlocksTile /\ Owned /\ Stages /\ NotReady /\ Coalesced
  BY DEF AInv, AllocFails
<1>1. /\ op' = [op EXCEPT ![t] = "none"]
      /\ leaked' = leaked \cup {b \in Allocated : b + Header \in Holds(t)}
      /\ ptrs' = [ptrs EXCEPT ![t] = [i \in Parts |-> 0]]
      /\ UNCHANGED allocator
  BY DEF AllocFails
<1>2. /\ ready' = ready /\ start' = start /\ size' = size /\ free_list' = free_list
      /\ merging' = merging /\ used' = used /\ alloc_count' = alloc_count
      /\ free_count' = free_count
  BY <1>1 DEF allocator
<1>3. Blocks' = Blocks /\ Allocated' = Allocated
  BY <1>2 DEF Blocks, Allocated
<1>4. /\ ptrs \in [Threads -> [Parts -> Nat]]
      /\ op \in [Threads -> {"none", "new", "table", "drop"}]
  BY <1>0 DEF TypeOK
<1>5. /\ ptrs' \in [Threads -> [Parts -> Nat]]
      /\ \A i \in Parts : ptrs'[t][i] = 0
      /\ \A u \in Threads \ {t} : ptrs'[u] = ptrs[u]
  BY <1>1, <1>4
<1>6. /\ op' \in [Threads -> {"none", "new", "table", "drop"}]
      /\ op'[t] = "none" /\ \A u \in Threads \ {t} : op'[u] = op[u]
  BY <1>1, <1>4
<1>7. TypeOK'
  <2>1. leaked' \subseteq Blocks'
    BY <1>0, <1>1, <1>3 DEF Allocated, TypeOK
  <2> QED BY <1>0, <1>2, <1>3, <1>5, <1>6, <2>1, Zenon DEF TypeOK
<1>8. BlocksTile' /\ Coalesced'
  BY <1>0, <1>2, <1>3 DEF BlocksTile, Coalesced, End
<1>9. Owned'
  <2>1. ASSUME NEW u \in Threads, NEW i \in Parts,
               ptrs'[u][i] # 0, Inside(start, ptrs'[u][i])
        PROVE  ptrs'[u][i] - Header \in Allocated' \ leaked'
    <3>1. u # t /\ ptrs'[u][i] = ptrs[u][i]
      BY <1>5, <2>1
    <3>2. ptrs[u][i] - Header \in Allocated \ leaked
      BY <1>0, <2>1, <3>1 DEF Owned
    <3>3. (ptrs[u][i] - Header) + Header = ptrs[u][i]
      BY <1>4, AllocatorAssumption, SMTT(30)
    <3>4. ptrs[u][i] \notin Holds(t)
      BY <1>0, <2>1, <3>1, SMTT(30) DEF Owned, Holds
    <3> QED BY <1>1, <1>3, <3>1, <3>2, <3>3, <3>4, SMTT(30)
  <2>2. ASSUME NEW u \in Threads, NEW v \in Threads, NEW i \in Parts, NEW j \in Parts,
               ptrs'[u][i] # 0, ptrs'[u][i] = ptrs'[v][j], Inside(start, ptrs'[u][i])
        PROVE  u = v /\ i = j
    <3>1. u # t /\ v # t
      BY <1>5, <2>2
    <3> QED BY <1>0, <1>5, <2>2, <3>1, SMTT(30) DEF Owned
  <2>3. ASSUME NEW c \in Allocated'
        PROVE  c \in leaked' \/ \E u \in Threads, i \in Parts : ptrs'[u][i] = c + Header
    <3>1. c \in Allocated /\ c + Header # 0
      <4>1. c \in Allocated /\ c \in Nat
        BY <1>0, <1>3, AllocatedInside
      <4> QED BY <4>1, AllocatorAssumption, SMTT(30)
    <3>2. CASE c \notin leaked
      <4>1. PICK u \in Threads, i \in Parts : ptrs[u][i] = c + Header
        BY <1>0, <3>1, <3>2 DEF Owned
      <4>2. CASE u = t
        BY <1>1, <3>1, <4>1, <4>2 DEF Holds
      <4>3. CASE u # t
        BY <1>5, <4>1, <4>3
      <4> QED BY <4>2, <4>3
    <3> QED BY <1>1, <3>2
  <2>4. leaked' \subseteq Allocated'
    BY <1>0, <1>1, <1>3 DEF Owned
  <2> QED BY <1>2, <2>1, <2>2, <2>3, <2>4, SMTT(30) DEF Owned
<1>10. Stages'
  <2>1. 1 \in Parts /\ 2 \in Parts /\ 3 \in Parts
    BY SMTT(30) DEF Parts
  <2> QED BY <1>0, <1>5, <1>6, <2>1, SMTT(30) DEF Stages
<1>11. NotReady'
  BY <1>0, <1>2, <1>3, <1>5 DEF NotReady
<1> QED BY <1>7, <1>8, <1>9, <1>10, <1>11 DEF AInv

\* A pool in which nobody holds a pointer starts as one free block.
LEMMA ResetStep ==
  ASSUME AInv, NEW s \in Bases, ResetTo(s), Unheld(s), ~merging, ready' = TRUE,
         UNCHANGED <<merging, op, ptrs>>
  PROVE  AInv'
<1>0. TypeOK /\ Stages
  BY DEF AInv
<1>1. /\ start' = s /\ size' = [b \in {s} |-> PoolSize - Header] /\ free_list' = {s}
      /\ used' = 0 /\ alloc_count' = 0 /\ free_count' = 0 /\ leaked' = {}
  BY DEF ResetTo
<1>2. /\ s \in Nat /\ Header \in Nat \ {0} /\ PoolSize \in Nat
      /\ PoolSize - Header \in Nat /\ PoolSize > 0
  BY AllocatorAssumption, SMTT(30)
<1>3. /\ Blocks' = {s} /\ size'[s] = PoolSize - Header /\ size' \in [{s} -> Nat]
      /\ Allocated' = {}
  BY <1>1, <1>2 DEF Blocks, Allocated
<1>4. End(s)' = s + PoolSize
  <2>1. End(s)' = s + Header + (PoolSize - Header)
    BY <1>3 DEF End
  <2> QED BY <1>2, <2>1, SMTT(30)
<1>5. TypeOK'
  <2>1. Blocks' \subseteq Nat /\ size' \in [Blocks' -> Nat] /\ free_list' \subseteq Blocks'
    BY <1>1, <1>2, <1>3
  <2>2. used' \in Nat /\ alloc_count' \in Nat /\ free_count' \in Nat
    BY <1>1
  <2> QED BY <1>0, <1>1, <2>1, <2>2, Zenon DEF TypeOK
<1>6. Tile(Blocks', size', start')
  BY <1>1, <1>2, <1>3, SMTT(30) DEF Tile
<1>7. BlocksTile'
  BY <1>6, OfTileNext
<1>8. Coalesced'
  BY <1>1, <1>2, <1>4, SMTT(30) DEF Coalesced
<1>9. Owned'
  <2>1. ASSUME NEW t \in Threads, NEW i \in Parts, ptrs[t][i] # 0, Inside(s, ptrs[t][i])
        PROVE  FALSE
    <3>1. ptrs[t][i] \in Held
      BY <2>1, SMTT(30) DEF Held, Holds
    <3> QED BY <2>1, <3>1 DEF Unheld, Inside
  <2> QED BY <1>1, <1>3, <2>1 DEF Owned
<1>10. Stages' /\ NotReady'
  BY <1>0 DEF Stages, NotReady
<1> QED BY <1>5, <1>7, <1>8, <1>9, <1>10 DEF AInv

\* merge_adjacent_blocks joins two free blocks that touch.
LEMMA MergeStep == ASSUME AInv, Merge PROVE AInv'
<1>0. /\ TypeOK /\ BlocksTile /\ Owned /\ Stages /\ NotReady
  BY DEF AInv
<1>1. PICK b \in free_list, c \in free_list :
        /\ Adjacent(b, c)
        /\ size' = [x \in Blocks \ {c} |->
                      IF x = b THEN size[b] + Header + size[c] ELSE size[x]]
        /\ free_list' = free_list \ {c}
  BY DEF Merge
<1>2. /\ ready' = ready /\ start' = start /\ used' = used /\ alloc_count' = alloc_count
      /\ free_count' = free_count /\ op' = op /\ ptrs' = ptrs /\ leaked' = leaked
      /\ merging /\ merging' = merging
  BY DEF Merge
<1>3. /\ start \in Nat /\ Blocks \in SUBSET Nat /\ size \in [Blocks -> Nat]
      /\ b \in Blocks /\ c \in Blocks /\ free_list \subseteq Blocks
      /\ b + Header + size[b] = c
  BY <1>0, <1>1, BlockTypes DEF TypeOK, Adjacent, End
<1>4. ready
  BY <1>0, <1>3, ReadyOf
<1>5. /\ size' \in [Blocks \ {c} -> Nat]
      /\ Tile(Blocks \ {c}, size', start)
  <2>1. Tile(Blocks, size, start)
    BY <1>0, <1>4, TileOf
  <2>2. b # c /\ size[b] + Header + size[c] \in Nat
    <3>1. Header \in Nat \ {0} /\ b \in Nat /\ size[b] \in Nat /\ size[c] \in Nat
      BY <1>3, AllocatorAssumption
    <3> QED BY <1>3, <3>1, SMTT(30)
  <2>3. /\ size' \in [Blocks \ {c} -> Nat] /\ size'[b] = size[b] + Header + size[c]
        /\ \A x \in Blocks \ {b, c} : size'[x] = size[x]
    BY <1>1, <1>3, <2>2
  <2> QED BY <1>3, <2>1, <2>3, MergeTiles
<1>6. Blocks' = Blocks \ {c}
  BY <1>1 DEF Blocks
<1>7. Allocated' = Allocated
  BY <1>1, <1>3, <1>6 DEF Allocated
<1>8. BlocksTile'
  BY <1>2, <1>5, <1>6, OfTileNext
<1>9. Owned'
  BY <1>0, <1>2, <1>7, SMTT(30) DEF Owned
<1>10. TypeOK'
  <2>1. leaked' \subseteq Blocks'
    BY <1>7, <1>9 DEF Owned, Allocated
  <2>2. Blocks' \subseteq Nat /\ size' \in [Blocks' -> Nat] /\ free_list' \subseteq Blocks'
    BY <1>1, <1>3, <1>5, <1>6
  <2>3. /\ ready' \in BOOLEAN /\ merging' \in BOOLEAN /\ start' \in Bases
        /\ used' \in Nat /\ alloc_count' \in Nat /\ free_count' \in Nat
        /\ op' \in [Threads -> {"none", "new", "table", "drop"}]
        /\ ptrs' \in [Threads -> [Parts -> Nat]]
    BY <1>0, <1>2 DEF TypeOK
  <2> QED BY <2>1, <2>2, <2>3, Zenon DEF TypeOK
<1>11. Stages' /\ NotReady'
  BY <1>0, <1>2, <1>4 DEF Stages, NotReady
<1> QED BY <1>2, <1>8, <1>9, <1>10, <1>11 DEF AInv

\* The end of the merge loop, the beginning of an operation, and stuttering.
LEMMA OtherSteps ==
  ASSUME AInv,
         \/ MergeDone
         \/ \E t \in Threads : BeginNew(t) \/ BeginDrop(t)
         \/ UNCHANGED vars
  PROVE  AInv'
<1>0. /\ TypeOK /\ BlocksTile /\ Owned /\ Stages /\ NotReady /\ (~merging => Coalesced)
  BY DEF AInv
<1>1. /\ ready' = ready /\ start' = start /\ size' = size /\ free_list' = free_list
      /\ used' = used /\ alloc_count' = alloc_count /\ free_count' = free_count
      /\ ptrs' = ptrs /\ leaked' = leaked
  BY DEF MergeDone, BeginNew, BeginDrop, vars, allocator
<1>2. Blocks' = Blocks /\ Allocated' = Allocated
  BY <1>1 DEF Blocks, Allocated
<1>3. op \in [Threads -> {"none", "new", "table", "drop"}] /\ merging \in BOOLEAN
  BY <1>0 DEF TypeOK
<1>4. /\ op' \in [Threads -> {"none", "new", "table", "drop"}]
      /\ \A u \in Threads : op'[u] = op[u] \/ (op[u] = "none" /\ op'[u] = "new")
                              \/ op'[u] = "drop"
  BY <1>3 DEF MergeDone, BeginNew, BeginDrop, vars
<1>5. merging' \in BOOLEAN /\ (~merging' => Coalesced')
  <2>1. CASE MergeDone
    <3>1. merging' = FALSE /\ \A b, c \in free_list : End(b) # c
      BY <2>1 DEF MergeDone, Adjacent
    <3> QED BY <1>1, <3>1, Zenon DEF Coalesced, End
  <2>2. CASE merging' = merging
    <3>1. Coalesced => Coalesced'
      BY <1>1 DEF Coalesced, End
    <3> QED BY <1>0, <1>3, <2>2, <3>1, Zenon
  <2> QED BY <2>1, <2>2 DEF BeginNew, BeginDrop, vars, allocator
<1>6. TypeOK'
  BY <1>0, <1>1, <1>2, <1>4, <1>5 DEF TypeOK
<1>7. BlocksTile'
  BY <1>0, <1>1, <1>2 DEF BlocksTile, End
<1>8. Owned'
  BY <1>0, <1>1, <1>2, SMTT(30) DEF Owned
<1>9. Stages'
  <2>1. 1 \in Parts /\ 2 \in Parts /\ 3 \in Parts
    BY SMTT(30) DEF Parts
  <2> QED BY <1>0, <1>1, <1>4, <2>1 DEF Stages
<1>10. NotReady'
  <2>1. merging' => merging
    BY <1>3 DEF MergeDone, BeginNew, BeginDrop, vars, allocator
  <2> QED BY <1>0, <1>1, <1>2, <2>1 DEF NotReady
<1> QED BY <1>5, <1>6, <1>7, <1>8, <1>9, <1>10 DEF AInv

\* Before the first pool is given.
LEMMA AInvInit == Init => AInv
<1> SUFFICES ASSUME Init PROVE AInv
  OBVIOUS
<1>1. Blocks = {} /\ Allocated = {} /\ free_list = {} /\ size \in [Blocks -> Nat]
  BY DEF Init, Blocks, Allocated
<1>2. ptrs \in [Threads -> [Parts -> Nat]] /\ \A t \in Threads, i \in Parts : ptrs[t][i] = 0
  BY DEF Init
<1>3. TypeOK
  BY <1>1, <1>2 DEF Init, TypeOK
<1>4. BlocksTile /\ NotReady /\ Coalesced
  BY <1>1, <1>2 DEF Init, BlocksTile, NotReady, Coalesced
<1>5. Owned
  BY <1>1, <1>2 DEF Init, Owned
<1>6. Stages
  BY <1>2 DEF Init, Stages, Parts
<1> QED BY <1>3, <1>4, <1>5, <1>6 DEF AInv

\* The inductive invariant holds in every reachable state.
THEOREM AllocatorInvariant == Spec => []AInv
<1>1. AInv /\ [Next]_vars => AInv'
  <2> SUFFICES ASSUME AInv, [Next]_vars PROVE AInv'
    OBVIOUS
  <2>1. ASSUME NEW s \in Bases, InitGlobalAllocator(s) PROVE AInv'
    BY <2>1, ResetStep DEF InitGlobalAllocator
  <2>2. CASE ResetGlobalAllocator
    <3>1. ResetTo(start) /\ Unheld(start) /\ ~merging /\ UNCHANGED <<merging, op, ptrs>>
      BY <2>2 DEF ResetGlobalAllocator
    <3>2. start \in Bases /\ ready' = TRUE
      BY <2>2 DEF ResetGlobalAllocator, AInv, TypeOK
    <3> QED BY <3>1, <3>2, ResetStep
  <2>3. CASE Merge
    BY <2>3, MergeStep
  <2>4. ASSUME NEW t \in Threads, NEW n \in Sizes, AllocPart(t, n) \/ AllocFails(t, n)
        PROVE  AInv'
    BY <2>4, AllocPartStep, AllocFailsStep
  <2>5. ASSUME NEW t \in Threads, NEW i \in Parts, FreePart(t, i) PROVE AInv'
    BY <2>5, FreePartStep
  <2>6. CASE MergeDone \/ (\E t \in Threads : BeginNew(t) \/ BeginDrop(t)) \/ UNCHANGED vars
    BY <2>6, OtherSteps
  <2> QED BY <2>1, <2>2, <2>3, <2>4, <2>5, <2>6 DEF Next
<1> QED BY <1>1, AInvInit, PTL DEF Spec

\* However threads create and drop tables and allocate cuts and free merges blocks,
\* the fields keep their types (no block size wraps below zero) and the blocks
\* cover the pool without gap and without overlap.
THEOREM PoolStaysTiled == Spec => [](TypeOK /\ BlocksTile)
<1>1. AInv => TypeOK /\ BlocksTile
  BY DEF AInv
<1> QED BY <1>1, AllocatorInvariant, PTL

\* The memory of two parts of tables never overlaps, and no block is lost but by
\* the OutOfMemory path of new_with_options.
THEOREM TablesNeverOverlap == Spec => []TablesDisjoint
<1>1. AInv => TablesDisjoint
  <2> SUFFICES ASSUME AInv PROVE TablesDisjoint
    OBVIOUS
  <2>0. TypeOK /\ BlocksTile /\ Owned /\ NotReady
    BY DEF AInv
  <2>1. ASSUME NEW t \in Threads, NEW u \in Threads, NEW i \in Parts, NEW j \in Parts,
               NEW b, b = ptrs[t][i] - Header, NEW c, c = ptrs[u][j] - Header,
               ptrs[t][i] # 0, ptrs[u][j] # 0, t # u \/ i # j, InPool(b), InPool(c)
        PROVE  /\ b \in Allocated /\ c \in Allocated
               /\ End(b) <= c \/ End(c) <= b
    <3>1. Inside(start, ptrs[t][i]) /\ Inside(start, ptrs[u][j])
      BY <2>1 DEF InPool, Inside
    <3>2. b \in Allocated /\ c \in Allocated /\ ptrs[t][i] # ptrs[u][j]
      BY <2>0, <2>1, <3>1, SMTT(30) DEF Owned
    <3>3. ready /\ b \in Blocks /\ c \in Blocks /\ b \in Nat /\ c \in Nat
      BY <2>0, <3>2, AllocatedInside DEF Allocated
    <3>4. b # c
      <4>1. ptrs[t][i] \in Nat /\ ptrs[u][j] \in Nat /\ Header \in Nat
        BY <2>0, AllocatorAssumption DEF TypeOK
      <4> QED BY <2>1, <3>2, <4>1, SMTT(30)
    <3>5. b < c \/ c < b
      BY <3>3, <3>4, SMTT(30)
    <3> QED BY <2>0, <3>2, <3>3, <3>5 DEF BlocksTile
  <2>2. ASSUME NEW b \in Allocated PROVE b + Header \in Held \/ b \in leaked
    <3>1. b \in Nat /\ Header \in Nat \ {0}
      BY <2>0, AllocatedInside, AllocatorAssumption
    <3>2. b + Header # 0
      BY <3>1, SMTT(30)
    <3> QED BY <2>0, <3>2, SMTT(30) DEF Owned, Held, Holds
  <2> QED BY <2>1, <2>2, SMTT(30) DEF TablesDisjoint
<1> QED BY <1>1, AllocatorInvariant, PTL

\* allocate never reports OutOfMemory while a run of free bytes could hold the block.
THEOREM OutOfMemoryIsReal == Spec => []NoFalseOutOfMemory
<1>1. AInv => NoFalseOutOfMemory
  <2> SUFFICES ASSUME AInv, ready, ~merging, NEW n \in Sizes,
                      \A b \in free_list : size[b] < Aligned(n),
                      NEW x \in start .. start + PoolSize - Header - Aligned(n)
               PROVE  \E b \in Allocated : b < x + Header + Aligned(n) /\ x < End(b)
    BY DEF NoFalseOutOfMemory
  <2> DEFINE a == Aligned(n)
  <2>0. TypeOK /\ BlocksTile /\ Coalesced
    BY DEF AInv
  <2>1. /\ a \in Nat /\ Header \in Nat \ {0} /\ PoolSize \in Nat /\ start \in Nat
        /\ \A b \in Blocks : b \in Nat /\ size[b] \in Nat /\ End(b) \in Nat
    BY <2>0, AlignedNat, AllocatorAssumption, BlockTypes
  <2>2. free_list \subseteq Blocks /\ \A b \in free_list : size[b] < a
    BY <2>0 DEF TypeOK
  <2> HIDE DEF a
  <2>3. /\ x \in Nat /\ start <= x /\ x + Header + a <= start + PoolSize
        /\ x \in start .. start + PoolSize - 1
    BY <2>1, SMTT(30) DEF a
  <2>4. PICK b \in Blocks : b <= x /\ x < End(b)
    BY <2>0, <2>3 DEF BlocksTile
  <2>5. CASE b \notin free_list
    BY <2>1, <2>3, <2>4, <2>5, SMTT(30) DEF Allocated, a
  <2>6. CASE b \in free_list
    <3>1. End(b) < x + Header + a
      <4>1. size[b] < a /\ End(b) = b + Header + size[b]
        BY <2>2, <2>6 DEF End
      <4> QED BY <2>1, <2>3, <2>4, <4>1, SMTT(30)
    <3>2. End(b) \in start .. start + PoolSize - 1
      BY <2>1, <2>3, <2>4, <3>1, SMTT(30)
    <3>3. PICK c \in Blocks : c <= End(b) /\ End(b) < End(c)
      BY <2>0, <3>2 DEF BlocksTile
    <3>4. c = End(b)
      <4>1. b < c
        <5>1. ASSUME c < b PROVE FALSE
          <6>1. End(c) <= b
            BY <2>0, <5>1 DEF BlocksTile
          <6> QED BY <2>1, <2>3, <2>4, <3>3, <6>1, SMTT(30)
        <5>2. b # c
          BY <2>1, <3>3, SMTT(30)
        <5> QED BY <2>1, <5>1, <5>2, SMTT(30)
      <4>2. End(b) <= c
        BY <2>0, <4>1 DEF BlocksTile
      <4> QED BY <2>1, <3>3, <4>2, SMTT(30)
    <3>5. c \in Allocated
      BY <2>0, <2>6, <3>4 DEF Coalesced, Allocated
    <3> QED BY <2>1, <2>3, <2>4, <3>1, <3>3, <3>4, <3>5, SMTT(30) DEF a
  <2> QED BY <2>5, <2>6
<1> QED BY <1>1, AllocatorInvariant, PTL

-----------------------------------------------------------------------------
(* The statistics.                                                           *)

\* The bytes of the blocks A with sizes z in the pool at s.
Bytes(A, z, s) ==
  {x \in s .. s + PoolSize - 1 : \E b \in A : b <= x /\ x < b + Header + z[b]}

\* One more block, apart from the others, adds its bytes.
LEMMA BytesAdd ==
  ASSUME NEW s \in Nat, NEW A, NEW z, NEW y, NEW b \in Nat, y[b] \in Nat,
         b \notin A,
         \A a \in A : a \in Nat /\ z[a] \in Nat /\ y[a] = z[a],
         s <= b, b + Header + y[b] <= s + PoolSize,
         \A a \in A : a + Header + z[a] <= b \/ b + Header + y[b] <= a
  PROVE  /\ Cardinality(Bytes(A, z, s)) \in Nat
         /\ Cardinality(Bytes(A \cup {b}, y, s))
              = Cardinality(Bytes(A, z, s)) + (y[b] + Header)
<1> DEFINE e == b + Header + y[b]
           I == b .. e - 1
<1>0. Header \in Nat \ {0} /\ PoolSize \in Nat /\ e \in Nat /\ b < e
  BY AllocatorAssumption, SMTT(30)
<1>1. ASSUME NEW x
      PROVE  x \in Bytes(A \cup {b}, y, s) <=> x \in Bytes(A, z, s) \/ x \in I
  <2>1. x \in Bytes(A \cup {b}, y, s) <=>
          /\ x \in s .. s + PoolSize - 1
          /\ \/ \E a \in A : a <= x /\ x < a + Header + z[a]
             \/ b <= x /\ x < e
    BY DEF Bytes
  <2>2. x \in I => x \in s .. s + PoolSize - 1 /\ b <= x /\ x < e
    BY <1>0, SMTT(30)
  <2>3. x \in s .. s + PoolSize - 1 /\ b <= x /\ x < e => x \in I
    BY <1>0, SMTT(30)
  <2>4. QED
    BY <2>1, <2>2, <2>3 DEF Bytes
<1>2. Bytes(A, z, s) \cap I = {}
  <2>1. SUFFICES ASSUME NEW x \in Bytes(A, z, s), x \in I PROVE FALSE
    OBVIOUS
  <2>2. PICK a \in A : a <= x /\ x < a + Header + z[a]
    BY <2>1 DEF Bytes
  <2>3. a \in Nat /\ z[a] \in Nat /\ x \in Int /\ b <= x /\ x < e
    BY <1>0, <2>1, SMTT(30)
  <2>4. a + Header + z[a] <= b \/ e <= a
    OBVIOUS
  <2>5. QED
    BY <1>0, <2>2, <2>3, <2>4, SMTT(30)
<1>3. IsFiniteSet(s .. s + PoolSize - 1)
  BY <1>0, FS_Interval, SMTT(30)
<1>4. IsFiniteSet(Bytes(A, z, s))
  <2>1. Bytes(A, z, s) \in SUBSET (s .. s + PoolSize - 1)
    BY DEF Bytes
  <2>2. QED
    BY <1>3, <2>1, FS_Subset
<1>5. IsFiniteSet(I) /\ Cardinality(I) = y[b] + Header
  <2>1. e - 1 \in Int /\ ~(b > e - 1) /\ (e - 1) - b + 1 = y[b] + Header
    BY <1>0, SMTT(30)
  <2> HIDE DEF e
  <2>2. IsFiniteSet(b .. e - 1) /\ Cardinality(b .. e - 1) = (e - 1) - b + 1
    <3> DEFINE h == e - 1
    <3>1. h \in Int /\ b \in Int /\ ~(b > h)
      BY <2>1, SMTT(30)
    <3> HIDE DEF h
    <3>2. IsFiniteSet(b .. h) /\ Cardinality(b .. h) = h - b + 1
      BY <3>1, FS_Interval
    <3>3. QED
      BY <3>2 DEF h
  <2>3. QED
    BY <2>1, <2>2
<1> HIDE DEF I, e
<1>6. Bytes(A \cup {b}, y, s) = Bytes(A, z, s) \cup I
  BY <1>1
<1>7. Cardinality(Bytes(A, z, s)) \in Nat /\ Cardinality(I) \in Nat
  BY <1>4, <1>5, FS_CardinalityType
<1>8. Cardinality(Bytes(A, z, s) \cup I)
        = Cardinality(Bytes(A, z, s)) + Cardinality(I)
  <2>1. Cardinality(Bytes(A, z, s) \cap I) = 0
    BY <1>2, FS_EmptySet
  <2>2. QED
    BY <1>4, <1>5, <1>7, <2>1, FS_Union, SMTT(30)
<1>9. QED
  BY <1>5, <1>6, <1>7, <1>8

\* StatsExact with the bytes named.
Stats ==
  /\ used = Cardinality(Bytes(Allocated, size, start))
  /\ alloc_count - free_count = Cardinality(Allocated)

\* The statistics are right when the numbers of bytes are.
LEMMA StatsOf == StatsExact <=> (ready => Stats)
BY DEF StatsExact, Stats, Bytes, End

\* The same in the next state.
LEMMA StatsOfNext == (ready' => Stats') => StatsExact'
BY DEF StatsExact, Stats, Bytes, End

\* Blocks A among those that tile a pool are finitely many, inside it, and apart.
LEMMA ApartFacts ==
  ASSUME NEW s \in Nat, NEW B \in SUBSET Nat, NEW z \in [B -> Nat], Tile(B, z, s),
         NEW A \in SUBSET B
  PROVE  /\ IsFiniteSet(A) /\ Cardinality(A) \in Nat
         /\ \A b \in A : /\ b \in Nat /\ z[b] \in Nat
                         /\ s <= b /\ b + Header + z[b] <= s + PoolSize
         /\ \A a, b \in A :
              a # b => a + Header + z[a] <= b \/ b + Header + z[b] <= a
<1>1. Header \in Nat \ {0} /\ PoolSize \in Nat
  BY AllocatorAssumption
<1>2. \A b \in A : /\ b \in Nat /\ z[b] \in Nat
                   /\ s <= b /\ b + Header + z[b] <= s + PoolSize
  BY <1>1 DEF Tile
<1>3. \A a, b \in A :
        a # b => a + Header + z[a] <= b \/ b + Header + z[b] <= a
  <2>1. \A a, b \in A : a < b => a + Header + z[a] <= b
    BY DEF Tile
  <2>2. QED
    BY <1>2, <2>1, SMTT(30)
<1>4. A \in SUBSET (s .. s + PoolSize)
  BY <1>1, <1>2, SMTT(30)
<1>5. IsFiniteSet(s .. s + PoolSize)
  BY <1>1, FS_Interval, SMTT(30)
<1>6. QED
  BY <1>2, <1>3, <1>4, <1>5, FS_Subset, FS_CardinalityType

\* And after a step.
LEMMA TileOfNext == BlocksTile' /\ ready' => Tile(Blocks', size', start')
BY DEF BlocksTile, Tile, End

\* allocate counts what it hands out.
LEMMA AllocPartStats ==
  ASSUME AInv, AInv', StatsExact,
         NEW t \in Threads, NEW n \in Sizes, AllocPart(t, n)
  PROVE  StatsExact'
<1>1. PICK b \in free_list : Take(b, Aligned(n))
  BY DEF AllocPart
<1>2. TypeOK /\ BlocksTile /\ Coalesced /\ NotReady /\ ~merging
  BY DEF AInv, AllocPart
<1>3. ready
  BY <1>1, <1>2, ReadyOf DEF TypeOK
<1>4. Aligned(n) \in Nat
  BY AllocatorAssumption, AlignedNat
<1>5. /\ Allocated' = Allocated \cup {b} /\ b \notin Allocated
      /\ \A c \in Allocated : size'[c] = size[c]
  BY <1>1, <1>2, <1>3, <1>4, TakeStep DEF Allocated
<1>6. /\ start' = start /\ ready' = ready /\ used' = used + size'[b] + Header
      /\ alloc_count' = alloc_count + 1 /\ free_count' = free_count
  BY <1>1 DEF Take
<1>7. /\ used \in Nat /\ alloc_count \in Nat /\ free_count \in Nat
      /\ start \in Nat /\ Header \in Nat
  BY <1>2, BlockTypes DEF TypeOK
<1>8. /\ start \in Nat /\ Blocks' \in SUBSET Nat /\ size' \in [Blocks' -> Nat]
      /\ Tile(Blocks', size', start) /\ Allocated' \in SUBSET Blocks'
  <2>1. TypeOK' /\ BlocksTile' /\ ready'
    BY <1>3, <1>6 DEF AInv
  <2>2. QED
    BY <1>6, <1>7, <2>1, TileOfNext DEF TypeOK, Allocated
<1>9. /\ \A a \in Allocated' :
           /\ a \in Nat /\ size'[a] \in Nat
           /\ start <= a /\ a + Header + size'[a] <= start + PoolSize
      /\ \A a, c \in Allocated' :
           a # c => a + Header + size'[a] <= c \/ c + Header + size'[c] <= a
  BY <1>8, ApartFacts, SMTT(30)
<1>10. IsFiniteSet(Allocated)
  <2>1. IsFiniteSet(Allocated') /\ Allocated \in SUBSET Allocated'
    BY <1>5, <1>8, ApartFacts, SMTT(30)
  <2>2. QED
    BY <2>1, FS_Subset
<1>11. Cardinality(Allocated') = Cardinality(Allocated) + 1
       /\ Cardinality(Allocated) \in Nat
  BY <1>5, <1>10, FS_AddElement, FS_CardinalityType
<1>12. Stats
  BY <1>3, StatsOf
<1>13. /\ Cardinality(Bytes(Allocated, size, start)) \in Nat
       /\ Cardinality(Bytes(Allocated \cup {b}, size', start))
            = Cardinality(Bytes(Allocated, size, start)) + (size'[b] + Header)
  <2> DEFINE A == Allocated
             z == size
             y == size'
  <2>1. b \in Allocated' /\ b \notin A /\ start \in Nat
        /\ \A a \in A : a \in Allocated' /\ a # b
    BY <1>5, <1>7
  <2>2. b \in Nat /\ y[b] \in Nat /\ start <= b
        /\ b + Header + y[b] <= start + PoolSize
    BY <1>9, <2>1
  <2>3. \A a \in A : a \in Nat /\ z[a] \in Nat /\ y[a] = z[a]
    BY <1>5, <1>9, <2>1
  <2>4. \A a \in A : a + Header + z[a] <= b \/ b + Header + y[b] <= a
    BY <1>5, <1>9, <2>1
  <2> HIDE DEF A, z, y
  <2>5. /\ Cardinality(Bytes(A, z, start)) \in Nat
        /\ Cardinality(Bytes(A \cup {b}, y, start))
             = Cardinality(Bytes(A, z, start)) + (y[b] + Header)
    BY <2>1, <2>2, <2>3, <2>4, BytesAdd, SMTT(30)
  <2>6. QED
    BY <2>5 DEF A, y, z
<1>14. used' = Cardinality(Bytes(Allocated', size', start'))
  <2>1. b \in Allocated'
    BY <1>5
  <2>2. size'[b] \in Nat
    BY <1>9, <2>1
  <2>3. used' = used + (size'[b] + Header)
    BY <1>6, <1>7, <2>2, SMTT(30)
  <2>4. QED
    BY <1>5, <1>6, <1>12, <1>13, <2>3 DEF Stats
<1>15. alloc_count' - free_count' = Cardinality(Allocated')
  BY <1>6, <1>7, <1>11, <1>12, SMTT(30) DEF Stats
<1>16. Stats'
  BY <1>14, <1>15 DEF Stats, Bytes
<1>17. QED
  BY <1>16, StatsOfNext

\* free takes off what allocate counted: used never falls short of it.
LEMMA FreePartStats ==
  ASSUME AInv, StatsExact, NEW t \in Threads, NEW k \in Parts, FreePart(t, k)
  PROVE  StatsExact'
<1> DEFINE p == ptrs[t][k]
           b == p - Header
<1>0. /\ TypeOK /\ BlocksTile /\ Owned /\ NotReady
      /\ p # 0 /\ FreeBlock(b)
  BY DEF AInv, FreePart
<1>1. CASE ~InPool(b)
  <2>1. UNCHANGED allocator
    BY <1>0, <1>1 DEF FreeBlock
  <2>2. QED
    BY <2>1 DEF allocator, StatsExact, Allocated, Blocks, End
<1>2. CASE InPool(b)
  <2>1. b \in Allocated
    BY <1>0, <1>2 DEF Owned, Inside, InPool
  <2>2. ready
    BY <1>0, <2>1, ReadyOf DEF Allocated
  <2>3. Stats
    BY <2>2, StatsOf
  <2> HIDE DEF b
  <2>4. /\ used' = IF used >= size[b] + Header THEN used - (size[b] + Header)
                   ELSE used
        /\ free_count' = free_count + 1 /\ free_list' = free_list \cup {b}
        /\ ready' = ready /\ start' = start /\ size' = size
        /\ alloc_count' = alloc_count
    BY <1>0, <1>2 DEF FreeBlock, GiveBack
  <2>5. /\ used \in Nat /\ alloc_count \in Nat /\ free_count \in Nat
        /\ start \in Nat /\ Header \in Nat
        /\ Blocks \in SUBSET Nat /\ size \in [Blocks -> Nat]
        /\ Tile(Blocks, size, start)
    BY <1>0, <2>2, BlockTypes, TileOf DEF TypeOK
  <2> DEFINE A == Allocated \ {b}
  <2>6. Allocated' = A /\ Allocated = A \cup {b} /\ b \notin A
    BY <2>1, <2>4 DEF Allocated, Blocks
  <2>7. /\ IsFiniteSet(Allocated) /\ Cardinality(Allocated) \in Nat
        /\ \A a \in Allocated :
             /\ a \in Nat /\ size[a] \in Nat
             /\ start <= a /\ a + Header + size[a] <= start + PoolSize
        /\ \A a, c \in Allocated :
             a # c => a + Header + size[a] <= c \/ c + Header + size[c] <= a
    <3>1. Allocated \in SUBSET Blocks
      BY DEF Allocated
    <3>2. QED
      BY <2>5, <3>1, ApartFacts, SMTT(30)
  <2>8. Cardinality(Allocated') = Cardinality(Allocated) - 1
    BY <2>1, <2>6, <2>7, FS_RemoveElement
  <2>9. /\ Cardinality(Bytes(A, size, start)) \in Nat
        /\ Cardinality(Bytes(A \cup {b}, size, start))
             = Cardinality(Bytes(A, size, start)) + (size[b] + Header)
    <3> DEFINE z == size
    <3>1. /\ b \in Nat /\ z[b] \in Nat /\ start <= b
          /\ b + Header + z[b] <= start + PoolSize
          /\ \A a \in A : a \in Nat /\ z[a] \in Nat /\ z[a] = z[a]
          /\ \A a \in A : a + Header + z[a] <= b \/ b + Header + z[b] <= a
          /\ start \in Nat /\ b \notin A
      BY <2>1, <2>5, <2>7
    <3> HIDE DEF A, z
    <3>2. /\ Cardinality(Bytes(A, z, start)) \in Nat
          /\ Cardinality(Bytes(A \cup {b}, z, start))
               = Cardinality(Bytes(A, z, start)) + (z[b] + Header)
      BY <3>1, BytesAdd, SMTT(30)
    <3>3. QED
      BY <3>2 DEF z
  <2>10. size[b] \in Nat
    BY <2>1, <2>7
  <2> HIDE DEF A
  <2>11. used = Cardinality(Bytes(A, size, start)) + (size[b] + Header)
    BY <2>3, <2>6, <2>9 DEF Stats
  <2>12. used' = Cardinality(Bytes(A, size, start))
    BY <2>4, <2>5, <2>9, <2>10, <2>11, SMTT(30)
  <2>13. alloc_count' - free_count' = Cardinality(Allocated')
    BY <2>3, <2>4, <2>5, <2>7, <2>8, SMTT(30) DEF Stats
  <2>14. Stats'
    BY <2>4, <2>6, <2>12, <2>13 DEF Stats, Bytes
  <2>15. QED
    BY <2>14, StatsOfNext
<1>3. QED
  BY <1>1, <1>2

\* A merge is of free blocks only.
LEMMA MergeStats == ASSUME AInv, StatsExact, Merge PROVE StatsExact'
<1>0. TypeOK /\ NotReady
  BY DEF AInv
<1>1. PICK b \in free_list, c \in free_list :
        /\ size' = [x \in Blocks \ {c} |->
                      IF x = b THEN size[b] + Header + size[c] ELSE size[x]]
        /\ free_list' = free_list \ {c}
  BY DEF Merge
<1>2. /\ ready' = ready /\ start' = start /\ used' = used
      /\ alloc_count' = alloc_count /\ free_count' = free_count
  BY DEF Merge
<1>3. free_list \subseteq Blocks
  BY <1>0 DEF TypeOK
<1>4. Blocks' = Blocks \ {c}
  BY <1>1 DEF Blocks
<1>5. Allocated' = Allocated
  BY <1>1, <1>3, <1>4 DEF Allocated
<1>6. \A a \in Allocated : size'[a] = size[a]
  BY <1>1, <1>3 DEF Allocated
<1>7. ready
  BY <1>0, <1>3, ReadyOf
<1>8. Stats
  BY <1>7, StatsOf
<1>9. Stats'
  BY <1>2, <1>5, <1>6, <1>8 DEF Stats, Bytes
<1>10. QED
  BY <1>9, StatsOfNext

\* A new or reset pool has no allocated block.
LEMMA ResetStats == ASSUME NEW s \in Bases, ResetTo(s) PROVE StatsExact'
<1>1. /\ size' = [b \in {s} |-> PoolSize - Header] /\ free_list' = {s}
      /\ used' = 0 /\ alloc_count' = 0 /\ free_count' = 0
  BY DEF ResetTo
<1>2. Allocated' = {}
  BY <1>1 DEF Allocated, Blocks
<1>3. Bytes({}, size', start') = {}
  BY DEF Bytes
<1>4. Stats'
  BY <1>1, <1>2, <1>3, FS_EmptySet, SMTT(30) DEF Stats, Bytes
<1>5. QED
  BY <1>4, StatsOfNext

\* The statistics of the allocator are exact between any two calls: used is the
\* number of bytes in allocated blocks, however blocks were cut, freed and
\* merged, so the guard of free against an underflow of used never bites.
THEOREM StatsAreExact == Spec => []StatsExact
<1>1. Init => StatsExact
  BY DEF Init, StatsExact
<1>2. AInv /\ AInv' /\ StatsExact /\ [Next]_vars => StatsExact'
  <2> SUFFICES ASSUME AInv, AInv', StatsExact, [Next]_vars PROVE StatsExact'
    OBVIOUS
  <2>1. CASE \E s \in Bases : InitGlobalAllocator(s)
    BY <2>1, ResetStats DEF InitGlobalAllocator
  <2>2. CASE ResetGlobalAllocator
    <3>1. start \in Bases /\ ResetTo(start)
      BY <2>2 DEF ResetGlobalAllocator, AInv, TypeOK
    <3>2. QED
      BY <3>1, ResetStats
  <2>3. CASE Merge
    BY <2>3, MergeStats
  <2>4. ASSUME NEW t \in Threads, NEW n \in Sizes, AllocPart(t, n)
        PROVE  StatsExact'
    BY <2>4, AllocPartStats
  <2>5. ASSUME NEW t \in Threads, NEW i \in Parts, FreePart(t, i)
        PROVE  StatsExact'
    BY <2>5, FreePartStats
  <2>6. CASE UNCHANGED <<ready, start, size, free_list, used, alloc_count,
                         free_count>>
    BY <2>6 DEF StatsExact, Allocated, Blocks, End
  <2>7. CASE \/ MergeDone \/ UNCHANGED vars
             \/ \E t \in Threads : \/ BeginNew(t) \/ BeginDrop(t)
                                   \/ \E n \in Sizes : AllocFails(t, n)
    BY <2>6, <2>7 DEF MergeDone, BeginNew, BeginDrop, AllocFails,
                             allocator, vars
  <2>8. QED
    BY <2>1, <2>2, <2>3, <2>4, <2>5, <2>7 DEF Next
<1>3. QED
  BY <1>1, <1>2, AllocatorInvariant, PTL DEF Spec
=============================================================================
