-------------------------- MODULE HighAvailability --------------------------
(***************************************************************************)
(* Roles and full synchronisation (ha/manager.rs, role.rs, heartbeat.rs,   *)
(* sync_handler.rs, sync_receiver.rs, replication.rs).  Every node holds   *)
(* one copy of the table; a published frame reaches every node of the      *)
(* group, the sender included, in order, unless it is lost.                *)
(*                                                                         *)
(* A snapshot is a sequence of parts: the head of the table, a row per     *)
(* used record, the end marker.  A frame of a transfer is the transfer and *)
(* a position in it; what the code puts into the frame follows from them.  *)
(* Frames that no callback acts upon (role changes, acks, heartbeats, the  *)
(* log: their callbacks return true) are left out.                         *)
(***************************************************************************)
EXTENDS MemoryTable, Sequences

CONSTANTS HaNodes,
          HaRoles,      \* configured roles: a set of functions from HaNodes
          HaChunk,      \* MAX_CHUNK_DATA_SIZE, in parts
          HaMaxSubs,    \* max_subscribers_per_topic
          HaMaxOps,     \* bound on the calls of the application
          HaMaxLost,    \* bound on the frames that are lost
          HaMaxInbox    \* bound on frames under way to a node

ASSUME HaAssumption == HaChunk \in Nat \ {0} /\ HaMaxSubs \in Nat

VARIABLES haRole,     \* RoleManager.current_role
          haUp,       \* "off", "on", "failed": init returned an error
          haBeat,     \* HeartbeatMonitor: role, sender, receiver, alive
          haSubs,     \* how often each callback is subscribed
          haRecv,     \* the statics of sync_receiver.rs and SyncReceiver.state
          haPeers,    \* sync_handler and sync_receiver that are Some
          haTable, haInbox,
          haTodo,     \* calls of handle_data still to be made for a frame
          haSending,  \* frames of the transfer being published
          haMade,     \* history: how many transfers a node began
          haOps, haLost,
          haFrom      \* history: transfers a receiver heard since start_sync

haVars == <<haRole, haUp, haBeat, haSubs, haRecv, haPeers, haTable, haInbox,
            haTodo, haSending, haMade, haOps, haLost, haFrom>>

haNet == <<haInbox, haLost>>

Callbacks == {"slave_ack", "request", "begin", "chunk", "end"}
NoFrame == [topic |-> "none"]
Request(type) == [topic |-> "request", type |-> type]

HaInit ==
  /\ haRole \in HaRoles
  /\ haUp = [n \in HaNodes |-> "off"]
  /\ haBeat = [n \in HaNodes |-> [role |-> "Auto", sender |-> FALSE, receiver |-> FALSE, alive |-> TRUE]]
  /\ haSubs = [n \in HaNodes |-> [c \in Callbacks |-> 0]]
  /\ haRecv = [n \in HaNodes |-> [state |-> "Idle", own |-> "Idle", some |-> FALSE, data |-> <<>>,
                                  expected |-> 0, received |-> 0, begin |-> "None"]]
  /\ haPeers = [n \in HaNodes |-> {}]
  /\ haTable = [n \in HaNodes |-> NewTable([s \in Slots |-> 0], [s \in Slots |-> 0])]
  /\ haInbox = [n \in HaNodes |-> <<>>]
  /\ haTodo = [n \in HaNodes |-> [frame |-> NoFrame, left |-> 0]]
  /\ haSending = [n \in HaNodes |-> <<>>]
  /\ haMade = [n \in HaNodes |-> 0]
  /\ haOps = 0 /\ haLost = 0
  /\ haFrom = [n \in HaNodes |-> {}]

HaCall == haOps < HaMaxOps /\ haOps' = haOps + 1

\* pubsub::publish: to every node of the group that subscribes to the topic,
\* itself included.  Any of them may miss the frame.
HaSend(frame) ==
  LET to == {m \in HaNodes : haUp'[m] # "off" /\ haSubs'[m][frame.topic] > 0}
  IN  \E L \in SUBSET to :
        /\ haLost' = haLost + Cardinality(L) /\ haLost' <= HaMaxLost
        /\ \A m \in to \ L : Len(haInbox[m]) < HaMaxInbox
        /\ haInbox' = [m \in HaNodes |-> IF m \in to \ L THEN Append(haInbox[m], frame) ELSE haInbox[m]]

(***************************************************************************)
(* Subscriptions                                                           *)
(***************************************************************************)
\* The callbacks that share the topic of c.
OnTopic(c) == IF c \in {"slave_ack", "request"} THEN {"slave_ack", "request"} ELSE {c}

SubsOn(S, c) == IF OnTopic(c) = {c} THEN S[c] ELSE S["slave_ack"] + S["request"]

\* pubsub::subscribe: the same callback may be there already.
Subscribed(S, c) == IF SubsOn(S, c) < HaMaxSubs THEN [S EXCEPT ![c] = @ + 1] ELSE S
Refused(S, c) == SubsOn(S, c) >= HaMaxSubs

(***************************************************************************)
(* Taking a role                                                           *)
(***************************************************************************)
\* SyncHandler::init and SyncReceiver::init stop at a topic that is full.
HandlerInit(S) == [ok |-> ~Refused(S, "request"), subs |-> Subscribed(S, "request")]

ReceiverInit(S) ==
  LET S1 == Subscribed(S, "begin")
      S2 == Subscribed(S1, "chunk")
  IN  IF Refused(S, "begin") THEN [ok |-> FALSE, subs |-> S]
      ELSE IF Refused(S1, "chunk") THEN [ok |-> FALSE, subs |-> S1]
      ELSE [ok |-> ~Refused(S2, "end"), subs |-> Subscribed(S2, "end")]

\* HeartbeatMonitor::init_master and init_slave
SenderOn(beat) == [beat EXCEPT !.sender = TRUE]
ReceiverOn(beat) == [beat EXCEPT !.receiver = TRUE]

\* init_master: ok says whether the sync handler could subscribe.
AsMaster(n) ==
  LET h == HandlerInit(Subscribed(haSubs[n], "slave_ack"))
  IN  [ok |-> h.ok, subs |-> h.subs, beat |-> SenderOn(haBeat[n]),
       peers |-> IF h.ok THEN haPeers[n] \cup {"handler"} ELSE haPeers[n]]

\* init_slave up to connect_to_master.
AsSlave(n) ==
  LET h == ReceiverInit(haSubs[n])
  IN  [ok |-> h.ok, subs |-> h.subs, beat |-> ReceiverOn(haBeat[n]),
       peers |-> IF h.ok THEN haPeers[n] \cup {"receiver"} ELSE haPeers[n]]

Keep(n, x) ==
  /\ haSubs' = [haSubs EXCEPT ![n] = x.subs]
  /\ haPeers' = [haPeers EXCEPT ![n] = x.peers]

\* connect_to_master: a full sync is requested, unless no address is
\* configured; the request may fail.
ConnectToMaster(x) ==
  \/ x.ok /\ HaSend(Request("Full"))
  \/ UNCHANGED haNet

\* ha::init.  A node configured Auto finds no cluster and becomes master.  An
\* error leaves the subscriptions behind.
HaInitNode(n) ==
  /\ haUp[n] # "on" /\ HaCall
  /\ LET role == IF haRole[n] = "Auto" THEN "Master" ELSE haRole[n]
         x == IF role = "Master" THEN AsMaster(n) ELSE AsSlave(n)
         up(u) == haUp' = [haUp EXCEPT ![n] = u]
     IN  /\ haRole' = [haRole EXCEPT ![n] = role]
         /\ haBeat' = [haBeat EXCEPT ![n] = x.beat]
         /\ Keep(n, x)
         /\ \/ x.ok /\ role = "Master" /\ up("on") /\ UNCHANGED haNet
            \/ x.ok /\ role = "Slave" /\ up("on") /\ ConnectToMaster(x)
            \/ /\ ~x.ok \/ role = "Slave"
               /\ up("failed") /\ UNCHANGED haNet
  /\ UNCHANGED <<haRecv, haTable, haTodo, haSending, haMade, haFrom>>

\* The role is changed first; an error of init_master is returned, one of
\* init_slave is not.
PromoteToMaster(n) ==
  /\ haUp[n] = "on" /\ haRole[n] # "Master" /\ HaCall
  /\ haRole' = [haRole EXCEPT ![n] = "Master"]
  /\ haBeat' = [haBeat EXCEPT ![n] = [AsMaster(n).beat EXCEPT !.role = "Master"]]
  /\ Keep(n, AsMaster(n))
  /\ UNCHANGED <<haUp, haRecv, haTable, haNet, haTodo, haSending, haMade, haFrom>>

DemoteToSlave(n) ==
  /\ haUp[n] = "on" /\ haRole[n] # "Slave" /\ HaCall
  /\ haRole' = [haRole EXCEPT ![n] = "Slave"]
  /\ haBeat' = [haBeat EXCEPT ![n] = [AsSlave(n).beat EXCEPT !.role = "Slave"]]
  /\ Keep(n, AsSlave(n))
  /\ UNCHANGED haUp
  /\ ConnectToMaster(AsSlave(n))
  /\ UNCHANGED <<haRecv, haTable, haTodo, haSending, haMade, haFrom>>

\* check_status: no heartbeat is ever sent or noted, so a monitor that takes
\* itself for a slave times out; nothing follows from it.
CheckStatus(n) ==
  /\ haUp[n] = "on" /\ haBeat[n].role = "Slave"
  /\ haBeat' = [haBeat EXCEPT ![n].alive = FALSE]
  /\ UNCHANGED <<haRole, haUp, haSubs, haRecv, haPeers, haTable, haNet, haTodo, haSending,
                 haOps, haMade, haFrom>>

\* shutdown: the statics are reset by a receiver only.
HaShutdown(n) ==
  /\ haUp[n] = "on" /\ haTodo[n].left = 0 /\ haSending[n] = <<>> /\ HaCall
  /\ haUp' = [haUp EXCEPT ![n] = "off"]
  /\ haSubs' = [haSubs EXCEPT ![n] = [c \in Callbacks |-> 0]]
  /\ haInbox' = [haInbox EXCEPT ![n] = <<>>]
  /\ haPeers' = [haPeers EXCEPT ![n] = {}]
  /\ haBeat' = [haBeat EXCEPT ![n] = [role |-> "Auto", sender |-> FALSE, receiver |-> FALSE, alive |-> TRUE]]
  /\ haRecv' = [haRecv EXCEPT ![n] =
                  IF "receiver" \in haPeers[n]
                  THEN [@ EXCEPT !.state = "Idle", !.own = "Idle", !.some = FALSE,
                                 !.data = <<>>, !.begin = "None"]
                  ELSE @]
  /\ UNCHANGED <<haRole, haTable, haTodo, haSending, haLost, haMade, haFrom>>

(***************************************************************************)
(* The master: answering a request                                         *)
(***************************************************************************)
\* create_database_snapshot: the used records in the order of their slots.
HeadPart == [kind |-> "head"]
RowPart(T, s) == [kind |-> "row", slot |-> s, row |-> T.data[s]]
EndPart == [kind |-> "end"]

RowParts(T) ==
  LET rows[i \in 0 .. MaxRecords] ==
        IF i = 0 THEN <<>>
        ELSE IF T.status[i - 1] = "Used" THEN Append(rows[i - 1], RowPart(T, i - 1))
             ELSE rows[i - 1]
  IN  rows[MaxRecords]

SnapshotOf(T) == <<HeadPart>> \o RowParts(T) \o <<EndPart>>

\* The chunks of send_snapshot_chunks: how many, where each ends and begins.
ChunkCount(parts) == (Len(parts) + HaChunk - 1) \div HaChunk
ChunkEnd(parts, i) == IF i * HaChunk < Len(parts) THEN i * HaChunk ELSE Len(parts)
ChunkData(parts, i) == SubSeq(parts, ChunkEnd(parts, i - 1) + 1, ChunkEnd(parts, i))

\* send_snapshot_chunks and, for an empty log, send_wal_chunks
FrameAt(transfer, i) ==
  [topic |-> IF i = 0 THEN "begin" ELSE IF i > ChunkCount(transfer.parts) THEN "end" ELSE "chunk",
   of |-> transfer, at |-> i]

Frames(transfer) == [i \in 1 .. ChunkCount(transfer.parts) + 2 |-> FrameAt(transfer, i - 1)]

\* The call returns; after the last one the frame is gone.
Called(n) ==
  haTodo' = [haTodo EXCEPT ![n] = IF @.left = 1 THEN [frame |-> NoFrame, left |-> 0]
                                  ELSE [frame |-> @.frame, left |-> @.left - 1]]

\* handle_sync_request_callback.  The log is never read: get_wal_logs_since
\* returns nothing.
HandleRequest(n) ==
  LET frame == haTodo[n].frame
      parts == IF frame.type = "Full" THEN SnapshotOf(haTable[n]) ELSE <<>>
  IN  /\ frame.topic = "request" /\ haTodo[n].left > 0 /\ haSending[n] = <<>>
      /\ haSending' = [haSending EXCEPT ![n] =
                          Frames([from |-> n, no |-> haMade[n], type |-> frame.type, parts |-> parts])]
      /\ haMade' = [haMade EXCEPT ![n] = @ + 1]
      /\ Called(n)
      /\ UNCHANGED <<haRole, haUp, haBeat, haSubs, haRecv, haPeers, haTable, haNet, haOps, haFrom>>

\* One frame is published; when that fails the rest is not sent.
SendNext(n) ==
  /\ haSending[n] # <<>>
  /\ UNCHANGED <<haUp, haSubs>>
  /\ \/ HaSend(Head(haSending[n])) /\ haSending' = [haSending EXCEPT ![n] = Tail(@)]
     \/ /\ haLost < HaMaxLost /\ haLost' = haLost + 1
        /\ UNCHANGED haInbox /\ haSending' = [haSending EXCEPT ![n] = <<>>]
  /\ UNCHANGED <<haRole, haBeat, haRecv, haPeers, haTable, haTodo, haOps, haMade, haFrom>>

(***************************************************************************)
(* The receiver                                                            *)
(***************************************************************************)
\* SyncReceiver::start_sync, which only the application calls.
StartSync(n) ==
  /\ haUp[n] = "on" /\ HaCall
  /\ haRecv' = [haRecv EXCEPT ![n] = [state |-> "Syncing", own |-> "Syncing", some |-> TRUE,
                                      data |-> <<>>, expected |-> 0, received |-> 0, begin |-> "None"]]
  /\ haFrom' = [haFrom EXCEPT ![n] = {}]
  /\ UNCHANGED <<haRole, haUp, haBeat, haSubs, haPeers, haTable, haNet, haTodo, haSending, haMade>>

\* wait_for_completion, at its last look at the state.
WaitForCompletion(n) ==
  /\ haRecv[n].own = "Syncing"
  /\ haRecv' = [haRecv EXCEPT ![n].own = IF haRecv[n].state = "Synced" THEN "Synced" ELSE "Failed"]
  /\ UNCHANGED <<haRole, haUp, haBeat, haSubs, haPeers, haTable, haNet, haTodo, haSending,
                 haOps, haMade, haFrom>>

\* request_full_sync and request_incremental_sync, called by the application.
RequestSync(n) ==
  /\ haUp[n] = "on" /\ HaCall
  /\ UNCHANGED <<haUp, haSubs>>
  /\ \E type \in {"Full", "Incremental"} : HaSend(Request(type))
  /\ UNCHANGED <<haRole, haBeat, haRecv, haPeers, haTable, haTodo, haSending, haMade, haFrom>>

\* A frame arrives and its callbacks are to be called.  handle_slave_ack is
\* subscribed to requests and refuses them.
HaReceive(n) ==
  LET frame == Head(haInbox[n])
      left == haSubs[n][frame.topic]
  IN  /\ haInbox[n] # <<>> /\ haTodo[n].left = 0 /\ haSending[n] = <<>>
      /\ haInbox' = [haInbox EXCEPT ![n] = Tail(@)]
      /\ haTodo' = [haTodo EXCEPT ![n] = [frame |-> IF left = 0 THEN NoFrame ELSE frame, left |-> left]]
      /\ haSubs' = [haSubs EXCEPT ![n]["slave_ack"] = IF frame.topic = "request" THEN 0 ELSE @]
      /\ UNCHANGED <<haRole, haUp, haBeat, haRecv, haPeers, haTable, haSending, haOps, haLost, haMade, haFrom>>

\* handle_sync_begin_callback: the data gathered so far stays.
HandleBegin(n) ==
  LET frame == haTodo[n].frame
  IN  /\ frame.topic = "begin" /\ haTodo[n].left > 0
      /\ haRecv' = [haRecv EXCEPT ![n].begin = frame.of.type, ![n].received = 0,
                                  ![n].expected = ChunkCount(frame.of.parts)]
      /\ haFrom' = [haFrom EXCEPT ![n] = @ \cup {frame.of}]
      /\ Called(n)
      /\ UNCHANGED <<haRole, haUp, haBeat, haSubs, haPeers, haTable, haNet, haSending, haOps, haMade>>

HandleChunk(n) ==
  LET frame == haTodo[n].frame
  IN  /\ frame.topic = "chunk" /\ haTodo[n].left > 0
      /\ haRecv' = [haRecv EXCEPT ![n].received = @ + 1,
                                  ![n].data = IF haRecv[n].some THEN @ \o ChunkData(frame.of.parts, frame.at) ELSE @]
      /\ haFrom' = [haFrom EXCEPT ![n] = @ \cup {frame.of}]
      /\ Called(n)
      /\ UNCHANGED <<haRole, haUp, haBeat, haSubs, haPeers, haTable, haNet, haSending, haOps, haMade>>

\* apply_snapshot: up to the first end marker; no record is removed, and
\* neither the free stack nor an index is touched.
ApplyRecord(T, part) ==
  [PutRow(T, part.slot, part.row) EXCEPT
     !.record_count = IF T.status[part.slot] = "Used" THEN @ ELSE @ + 1]

Ends(parts) == {i \in DOMAIN parts : parts[i].kind = "end"}

ApplySnapshot(T, parts) ==
  LET last == CHOOSE i \in Ends(parts) : \A j \in Ends(parts) : i <= j
      at[i \in 0 .. last - 2] == IF i = 0 THEN T ELSE ApplyRecord(at[i - 1], parts[i + 1])
  IN  IF parts = <<>> THEN T ELSE at[last - 2]

\* Data in which a table is not complete: the reader runs into the next
\* bytes and past the end.
Readable(parts) ==
  parts # <<>> =>
    /\ parts[1].kind = "head"
    /\ \E i \in Ends(parts) : \A j \in 2 .. i : parts[j].kind # "head"

\* Mutant: the chunks are not counted.
HandleEndUncounted(n) ==
  LET frame == haTodo[n].frame
      r == haRecv[n]
      data == IF r.some THEN r.data ELSE <<>>
  IN  /\ frame.topic = "end" /\ haTodo[n].left > 0
      /\ haRecv' = [haRecv EXCEPT ![n].state = "Synced", ![n].some = FALSE, ![n].data = <<>>,
                                  ![n].begin = "None"]
      /\ haTable' = IF Readable(data) THEN [haTable EXCEPT ![n] = ApplySnapshot(@, data)] ELSE haTable
      /\ UNCHANGED haSubs
      /\ haFrom' = [haFrom EXCEPT ![n] = @ \cup {frame.of}]
      /\ Called(n)
      /\ UNCHANGED <<haRole, haUp, haBeat, haPeers, haNet, haSending, haOps, haMade>>

\* handle_sync_end_callback.  A wrong number of chunks ends the subscription.
HandleEnd(n) ==
  LET frame == haTodo[n].frame
      r == haRecv[n]
      data == IF r.some THEN r.data ELSE <<>>
      taken == [r EXCEPT !.some = FALSE, !.data = <<>>, !.begin = "None"]
      set(x) == haRecv' = [haRecv EXCEPT ![n] = x]
  IN  /\ frame.topic = "end" /\ haTodo[n].left > 0
      /\ \/ /\ r.received # r.expected \/ ChunkCount(frame.of.parts) # r.expected
            /\ set([r EXCEPT !.state = "Failed"])
            /\ haSubs' = [haSubs EXCEPT ![n]["end"] = @ - 1]
            /\ UNCHANGED haTable
         \/ /\ r.received = r.expected /\ ChunkCount(frame.of.parts) = r.expected
            /\ UNCHANGED haSubs
            /\ \/ r.begin = "None" /\ set([taken EXCEPT !.state = "Failed"]) /\ UNCHANGED haTable
               \/ r.begin = "Incremental" /\ set([taken EXCEPT !.state = "Synced"]) /\ UNCHANGED haTable
               \/ /\ r.begin = "Full" /\ set([taken EXCEPT !.state = "Synced"])
                  /\ Readable(data)
                  /\ haTable' = [haTable EXCEPT ![n] = ApplySnapshot(@, data)]
               \/ /\ r.begin = "Full" /\ ~Readable(data)
                  /\ \E state \in {"Synced", "Failed"} : set([taken EXCEPT !.state = state])
                  /\ \E s \in Slots, row \in Rows :
                       haTable' \in {haTable, [haTable EXCEPT ![n] =
                                              ApplyRecord(@, [kind |-> "row", slot |-> s, row |-> row])]}
      /\ haFrom' = [haFrom EXCEPT ![n] = @ \cup {frame.of}]
      /\ Called(n)
      /\ UNCHANGED <<haRole, haUp, haBeat, haPeers, haNet, haSending, haOps, haMade>>

(***************************************************************************)
(* The application's records                                               *)
(***************************************************************************)
HaWrite(n) ==
  /\ HaCall
  /\ \/ \E row \in Rows : \E s \in InsertSlot(haTable[n]) :
          /\ ~Conflict(haTable[n], row, {}, 1)
          /\ haTable' = [haTable EXCEPT ![n] = InsertRow(@, s, row)]
     \/ \E s \in Used(haTable[n]) : haTable' = [haTable EXCEPT ![n] = DeleteRow(@, s)]
  /\ UNCHANGED <<haRole, haUp, haBeat, haSubs, haRecv, haPeers, haNet, haTodo, haSending, haMade, haFrom>>

HaNext ==
  \E n \in HaNodes :
     \/ HaInitNode(n) \/ PromoteToMaster(n) \/ DemoteToSlave(n) \/ CheckStatus(n) \/ HaShutdown(n)
     \/ HandleRequest(n) \/ SendNext(n)
     \/ StartSync(n) \/ WaitForCompletion(n) \/ RequestSync(n) \/ HaReceive(n)
     \/ HandleBegin(n) \/ HandleChunk(n) \/ HandleEnd(n)
     \/ HaWrite(n)

HaSpec == HaInit /\ [][HaNext]_haVars

(***************************************************************************)
(* Properties                                                              *)
(***************************************************************************)
RecordsIn(parts) == {parts[i] : i \in {j \in DOMAIN parts : parts[j].kind = "row"}}

\* A transfer a started receiver takes for complete was complete: if all the
\* frames it heard since start_sync belong to one transfer, and the callback
\* for chunks is subscribed once, then every record of the snapshot is in the
\* table when the state becomes Synced, whatever was lost
\* (handle_sync_end_callback, apply_snapshot).
HaSyncedWhole ==
  [][\A n \in HaNodes :
       haRecv[n].some /\ haSubs[n]["chunk"] = 1 /\ haRecv[n].state # "Synced" /\ haRecv'[n].state = "Synced"
         => \A id \in haFrom'[n] : haFrom'[n] = {id} =>
              \A part \in RecordsIn(id.parts) : /\ part.slot \in Used(haTable'[n])
                                                /\ haTable'[n].data[part.slot] = part.row]_haVars

\* Whoever is told Synced holds the records of the master
\* (README_EN.md:39, ha/sync_receiver.rs).
HaSyncedMeansSame ==
  [][\A n \in HaNodes :
       haRecv[n].state # "Synced" /\ haRecv'[n].state = "Synced"
         => \A id \in haFrom'[n] :
              \A part \in RecordsIn(id.parts) : part.slot \in Used(haTable'[n])]_haVars
=============================================================================
