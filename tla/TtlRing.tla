------------------------------ MODULE TtlRing ------------------------------
(***************************************************************************)
(* TTLCircularBuffer of pubsub/ttl_ringbuffer.rs: a ring of slots, each    *)
(* with a block of allocated data and the time it expires, and a heap of   *)
(* expiry times.  Every method takes &mut self, so a call is one step;     *)
(* read calls itself and takes the time again, so one call of it is a      *)
(* step of its own.  The clock is SystemTime, which may be set back.       *)
(*                                                                         *)
(* The item written by the n-th accepted write is the number n, which is   *)
(* also its logical index.  Bytes and lengths are not told apart.          *)
(***************************************************************************)
EXTENDS Integers, Sequences

CONSTANTS TrAsked,    \* the capacity asked for
          TrTimes,    \* what SystemTime::now can return
          TrTtls,     \* ttl_ms of the writes
          TrTimeMod   \* 2^64 in the code

VARIABLES trSlots,    \* state, timestamp and data of every slot
          trRead,     \* current_read
          trWrite,    \* current_write
          trHeap,     \* ttl_heap
          trHeld,     \* the data blocks allocated and not given back
          trReading,  \* read has called itself and has not returned
          trOut,      \* what read returned: item, its expiry, the time then
          trUp        \* the buffer is not dropped

trVars == <<trSlots, trRead, trWrite, trHeap, trHeld, trReading, trOut, trUp>>

\* next_power_of_two
Capacity ==
  CHOOSE c \in {2 ^ k : k \in 0 .. TrAsked} :
     c >= TrAsked /\ (c = 1 \/ c \div 2 < TrAsked)

ASSUME RingAssumption ==
  /\ Capacity \in Nat \ {0}
  /\ TrTimes \subseteq Nat /\ TrTtls \subseteq Nat /\ TrTimeMod \in Nat \ {0}

Ring == 0 .. Capacity - 1
SlotOf(logical) == logical % Capacity
RingOf(state) == {s \in Ring : trSlots[s].state = state}

TrInit ==
  /\ trSlots = [s \in Ring |-> [state |-> "FREE", time |-> 0, item |-> 0]]
  /\ trRead = 0 /\ trWrite = 0
  /\ trHeap = {} /\ trHeld = {}
  /\ trReading = FALSE /\ trOut = <<>> /\ trUp = TRUE

\* The logical index a slot is taken to have, from the write position alone:
\* the slot about to be written counts as new, not as one lap old.
SlotLogical(s) ==
  LET here == SlotOf(trWrite)
  IN  IF s > here THEN trWrite - (Capacity - s + here)
                  ELSE trWrite - (here - s)

\* The slot of a heap entry still holds what the entry was pushed for.
Current(e) ==
  /\ trSlots[e.slot].state = "ACTIVE"
  /\ SlotLogical(e.slot) = e.logical
  /\ trSlots[e.slot].time = e.time

\* Mutant: the data goes, the slot stays ACTIVE.
DeletedKept(slots, S) == slots

Deleted(slots, S) ==
  [s \in Ring |-> IF s \in S THEN [slots[s] EXCEPT !.state = "DELETED"]
                             ELSE slots[s]]

TrItems(S) == {trSlots[s].item : s \in S}

\* evict_expired pops every entry that is due, and frees the current ones.
Due(now) == {e \in trHeap : e.time <= now}
Expired(now) == {e.slot : e \in {d \in Due(now) : Current(d)}}
Evicted(now) == Deleted(trSlots, Expired(now))

TrEvictExpired(now) ==
  /\ trUp /\ ~trReading
  /\ trSlots' = Evicted(now)
  /\ trHeap' = trHeap \ Due(now)
  /\ trHeld' = trHeld \ TrItems(Expired(now))
  /\ UNCHANGED <<trRead, trWrite, trReading, trOut, trUp>>

\* write: a slot in use makes room by eviction first.  Only a slot that is
\* FREE passes the compare_exchange; one that was DELETED never does.
TrWriteItem(now, ttl) ==
  LET slot == SlotOf(trWrite)
      evict == trSlots[slot].state \notin {"FREE", "DELETED"}
      expires == (now + ttl) % TrTimeMod
      swept == IF evict THEN Expired(now) ELSE {}
  IN  /\ trUp /\ ~trReading
      /\ IF trSlots[slot].state = "FREE"
         THEN /\ trSlots' = [trSlots EXCEPT ![slot] =
                   [state |-> "ACTIVE", time |-> expires, item |-> trWrite]]
              /\ trHeap' = trHeap \cup
                   {[time |-> expires, slot |-> slot, logical |-> trWrite]}
              /\ trHeld' = trHeld \cup {trWrite}
              /\ trWrite' = trWrite + 1
         ELSE /\ trSlots' = Deleted(trSlots, swept)
              /\ trHeap' = IF evict THEN trHeap \ Due(now) ELSE trHeap
              /\ trHeld' = trHeld \ TrItems(swept)
              /\ UNCHANGED trWrite
      /\ UNCHANGED <<trRead, trReading, trOut, trUp>>

\* One call of read, which evicts, and then returns None, passes over a slot
\* and calls itself, or returns the data of the slot.
TrReadItem(now) ==
  LET swept == Evicted(now)
      slot == SlotOf(trRead)
      active == swept[slot].state = "ACTIVE"
      fresh == active /\ swept[slot].time > now
      gone == TrItems(Expired(now)) \cup (IF active THEN TrItems({slot}) ELSE {})
  IN  /\ trUp
      /\ trHeap' = trHeap \ Due(now)
      /\ IF trRead = trWrite
         THEN /\ trSlots' = swept
              /\ trHeld' = trHeld \ TrItems(Expired(now))
              /\ trReading' = FALSE
              /\ UNCHANGED <<trRead, trOut>>
         ELSE /\ trSlots' = IF active THEN Deleted(swept, {slot}) ELSE swept
              /\ trHeld' = trHeld \ gone
              /\ trRead' = trRead + 1
              /\ trReading' = ~fresh
              /\ trOut' = IF fresh
                          THEN Append(trOut, [item |-> swept[slot].item,
                                              time |-> swept[slot].time, now |-> now])
                          ELSE trOut
      /\ UNCHANGED <<trWrite, trUp>>

\* evict_shortest_ttl: the first current entry of the heap that is left, or
\* else, in evict_shortest_ttl_fallback, the slot with the least time to go.
Before(e, f) ==
  e.time < f.time \/ (e.time = f.time /\ e.slot <= f.slot)

Least(E) == {e \in E : \A f \in E : Before(e, f)}

ShortestEntry(now) ==
  {e.slot : e \in Least({e \in trHeap \ Due(now) : Current(e)})}

Remaining(s, now) == IF trSlots[s].time > now THEN trSlots[s].time - now ELSE 0

Unread(now) ==
  {k \in trRead .. trWrite - 1 :
     SlotOf(k) \in RingOf("ACTIVE") \ Expired(now)}

Fallback(now) ==
  {SlotOf(k) : k \in {i \in Unread(now) : \A j \in Unread(now) :
     \/ Remaining(SlotOf(i), now) < Remaining(SlotOf(j), now)
     \/ Remaining(SlotOf(i), now) = Remaining(SlotOf(j), now) /\ i <= j}}

TrEvictShortest(now) ==
  LET victim == IF ShortestEntry(now) # {} THEN ShortestEntry(now)
                                           ELSE Fallback(now)
  IN  /\ trUp /\ ~trReading
      /\ trSlots' = Deleted(trSlots, Expired(now) \cup victim)
      /\ trHeap' = trHeap \ Due(now)
      /\ trHeld' = trHeld \ TrItems(Expired(now) \cup victim)
      /\ UNCHANGED <<trRead, trWrite, trReading, trOut, trUp>>

TrDrop ==
  /\ trUp /\ ~trReading
  /\ trUp' = FALSE
  /\ trHeld' = trHeld \ TrItems(RingOf("ACTIVE"))
  /\ UNCHANGED <<trSlots, trRead, trWrite, trHeap, trReading, trOut>>

TrNext ==
  \/ \E now \in TrTimes : \/ TrEvictExpired(now)
                          \/ TrReadItem(now)
                          \/ TrEvictShortest(now)
                          \/ \E ttl \in TrTtls : TrWriteItem(now, ttl)
  \/ TrDrop

TrSpec == TrInit /\ [][TrNext]_trVars

\* A data block is allocated exactly while its slot is ACTIVE, such a slot lies
\* between the read and the write position, and drop gives every block back.
TrBlocksOwned ==
  /\ trHeld = IF trUp THEN TrItems(RingOf("ACTIVE")) ELSE {}
  /\ \A s \in RingOf("ACTIVE") :
        trSlots[s].item \in trRead .. trWrite - 1 /\ SlotOf(trSlots[s].item) = s

\* read returns items in the order written, each once, none at a time it had
\* expired.
TrInOrder ==
  /\ \A i, j \in DOMAIN trOut : i < j => trOut[i].item < trOut[j].item
  /\ \A i \in DOMAIN trOut : trOut[i].time > trOut[i].now

\* The ring of ttl_ringbuffer.rs, whatever the order of its calls and whatever
\* the clock does: no block is lost or freed twice, items leave in order, and
\* the ring is written for one lap only, because write takes a slot that is
\* FREE and no call makes a slot FREE again.
TrSound == TrBlocksOwned /\ TrInOrder /\ trWrite <= Capacity
=============================================================================
