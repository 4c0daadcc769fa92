------------------------------- MODULE PubSub -------------------------------
(***************************************************************************)
(* Publish/subscribe over UDP (src/pubsub): PubSub instances of several    *)
(* processes in one broadcast or multicast group.  publish sends a frame   *)
(* to every socket of the group, the sender's included; the network may    *)
(* lose, duplicate and reorder.  Receivers ask for missing frames (NACK),  *)
(* publishers repeat frames when asked and after a timeout.                *)
(*                                                                         *)
(* An instance is used by its public methods until receive_loop is called, *)
(* which never returns.  start_receiver runs the loop on a clone without a *)
(* socket, whose every recv fails: it takes no step here.  Nothing sends   *)
(* heartbeat frames.                                                       *)
(***************************************************************************)
EXTENDS Integers, Sequences, FiniteSets

CONSTANTS Nodes,
          Publishers, Subscribers,  \* the nodes whose program publishes, subscribes
          Topics,           \* topic ids below max_topics
          Wildcard,         \* WILDCARD_TOPIC_ID
          MaxSubs,          \* max_subscribers_per_topic
          MaxRetransmits,   \* max_retransmits
          EnableNack,       \* enable_nack
          MaxCalls, MaxFaults   \* bounds: calls of the programs (a publish counts
                                \* twice) and faults of the network

\* 0 stands for no topic.
ASSUME PubSubAssumption ==
  /\ Wildcard \notin Topics /\ 0 \notin Topics \cup {Wildcard}
  /\ MaxSubs \in Nat \ {0} /\ MaxRetransmits \in Nat
  /\ EnableNack \in BOOLEAN
  /\ MaxCalls \in Nat /\ MaxFaults \in Nat

VARIABLES next_seq,   \* Publisher.next_seq_num
          pending,    \* pending_data, by sequence number
          expected,   \* SubscriberManager.expected_seq_nums
          subs,       \* subscribers and wildcard_subscribers: id, or 0
          next_id,    \* next_subscription_id
          mode,       \* "calls", or where receive_loop is
          inbox,      \* frames in the socket's buffer
          resend,     \* retransmit_frames not sent yet
          clock,      \* logical time: the order of send times
          calls,      \* number of calls of subscribe and publish
          faults,     \* number of network faults
          published,  \* history: the topic of each sequence number; 0: no frame
          sends,      \* history: how often each frame was sent
          accepted,   \* history: frames handed to subscribers, by topic
          ended       \* history: subscriptions that ended

publisher == <<next_seq, pending, resend, clock, published, sends>>
subscriber == <<expected, subs, next_id, accepted, ended>>
vars == <<publisher, subscriber, mode, inbox, calls, faults>>

Data(n, s, t) == [type |-> "Data", seq |-> s, topic |-> t, from |-> n]
Nack(n, s, t) == [type |-> "Nack", seq |-> s, topic |-> t, from |-> n]

Init ==
  /\ next_seq = [n \in Nodes |-> 1]
  /\ pending = [n \in Nodes |-> <<>>]
  /\ expected = [n \in Nodes |-> [t \in Topics |-> 1]]
  /\ subs = [n \in Nodes |-> [t \in Topics \cup {Wildcard} |->
                                [i \in 1 .. MaxSubs |-> 0]]]
  /\ next_id = [n \in Nodes |-> 1]
  /\ mode = [n \in Nodes |-> "calls"]
  /\ inbox = [n \in Nodes |-> <<>>]
  /\ resend = [n \in Nodes |-> {}]
  /\ clock = [n \in Nodes |-> 0]
  /\ calls = 0 /\ faults = 0
  /\ published = [n \in Nodes |-> <<>>]
  /\ sends = [n \in Nodes |-> <<>>]
  /\ accepted = [n \in Nodes |-> [t \in Topics |-> <<>>]]
  /\ ended = [n \in Nodes |-> {}]

\* udp_socket.send of a sequence of frames: to every socket of the group.
Broadcast(frames) == inbox' = [m \in Nodes |-> inbox[m] \o frames]

(***************************************************************************)
(* subscribe and unsubscribe                                               *)
(***************************************************************************)
Ids(n, t) == {subs[n][t][i] : i \in 1 .. MaxSubs} \ {0}

\* Mutant: the last position is given out again.
SubscribeLast(n, t) ==
  LET none == {i \in 1 .. MaxSubs : subs[n][t][i] = 0}
      index == IF none = {} THEN MaxSubs
               ELSE CHOOSE i \in none : \A j \in none : i <= j
  IN  /\ mode[n] = "calls" /\ calls < MaxCalls
      /\ calls' = calls + 1
      /\ next_id' = [next_id EXCEPT ![n] = @ + 1]
      /\ subs' = [subs EXCEPT ![n][t][index] = next_id[n]]
      /\ UNCHANGED <<publisher, expected, accepted, ended, mode, inbox, faults>>

\* The first free position; without one, an error, and the id is used up.
Subscribe(n, t) ==
  LET none == {i \in 1 .. MaxSubs : subs[n][t][i] = 0}
      index == CHOOSE i \in none : \A j \in none : i <= j
  IN  /\ mode[n] = "calls" /\ calls < MaxCalls
      /\ calls' = calls + 1
      /\ next_id' = [next_id EXCEPT ![n] = @ + 1]
      /\ \/ /\ none # {}
            /\ subs' = [subs EXCEPT ![n][t][index] = next_id[n]]
            /\ UNCHANGED ended
         \/ /\ none = {}
            /\ ended' = [ended EXCEPT ![n] = @ \cup {next_id[n]}]
            /\ UNCHANGED subs
      /\ UNCHANGED <<publisher, expected, accepted, mode, inbox, faults>>

\* The lists of node n without the subscriptions in S.
Without(n, S) ==
  [t \in Topics \cup {Wildcard} |->
     [i \in 1 .. MaxSubs |-> IF subs[n][t][i] \in S THEN 0 ELSE subs[n][t][i]]]

Unsubscribe(n) ==
  /\ mode[n] = "calls"
  /\ \E t \in Topics \cup {Wildcard} : \E id \in Ids(n, t) :
       /\ subs' = [subs EXCEPT ![n] = Without(n, {id})]
       /\ ended' = [ended EXCEPT ![n] = @ \cup {id}]
  /\ UNCHANGED <<publisher, expected, next_id, accepted, mode, inbox, calls, faults>>

(***************************************************************************)
(* publish: create_frame, then send                                        *)
(***************************************************************************)

\* pending_data with a new frame.
Remember(n, t) ==
  IF EnableNack
  THEN [s \in DOMAIN pending[n] \cup {next_seq[n]} |->
          IF s = next_seq[n]
          THEN [topic |-> t, sent |-> clock[n], count |-> 0, done |-> FALSE]
          ELSE pending[n][s]]
  ELSE pending[n]

\* A topic outside Topics is sent as well; receivers drop it.
Publish(n, t) ==
  /\ mode[n] = "calls" /\ calls + 1 < MaxCalls
  /\ calls' = calls + 2
  /\ next_seq' = [next_seq EXCEPT ![n] = @ + 1]
  /\ published' = [published EXCEPT ![n] = Append(@, t)]
  /\ pending' = [pending EXCEPT ![n] = Remember(n, t)]
  /\ clock' = [clock EXCEPT ![n] = @ + 1]
  /\ \/ /\ Broadcast(<<Data(n, next_seq[n], t)>>)
        /\ sends' = [sends EXCEPT ![n] = Append(@, 1)]
        /\ UNCHANGED faults
     \/ /\ faults < MaxFaults        \* the send fails
        /\ faults' = faults + 1
        /\ sends' = [sends EXCEPT ![n] = Append(@, 0)]
        /\ UNCHANGED inbox
  /\ UNCHANGED <<resend, subscriber, mode>>

\* Data longer than MAX_DATA_LEN: an error, after the number was taken.
PublishTooLong(n) ==
  /\ mode[n] = "calls" /\ calls + 1 < MaxCalls
  /\ calls' = calls + 2
  /\ next_seq' = [next_seq EXCEPT ![n] = @ + 1]
  /\ published' = [published EXCEPT ![n] = Append(@, 0)]
  /\ sends' = [sends EXCEPT ![n] = Append(@, 0)]
  /\ UNCHANGED <<pending, resend, clock, subscriber, mode, inbox, faults>>

(***************************************************************************)
(* receive_loop                                                            *)
(***************************************************************************)
EnterLoop(n) ==
  /\ mode[n] = "calls"
  /\ mode' = [mode EXCEPT ![n] = "check"]
  /\ UNCHANGED <<publisher, subscriber, inbox, calls, faults>>

\* Mutant: the limit is checked after the frame was sent again.
ResendOneMore(n, S) == {s \in S : pending[n][s].count <= MaxRetransmits}

\* The frames in S that are below the retransmission limit.
Resend(n, S) == {s \in S : pending[n][s].count < MaxRetransmits}

\* The entries of S are sent again, or given up at the limit.
Repeat(n, S) ==
  [s \in DOMAIN pending[n] |->
     IF s \in Resend(n, S)
     THEN [pending[n][s] EXCEPT !.count = @ + 1, !.sent = clock[n]]
     ELSE [pending[n][s] EXCEPT !.done = @ \/ s \in S]]

\* check_timeouts: the frames sent before some moment are due; the entries
\* given up are removed.
CheckTimeouts(n) ==
  /\ mode[n] = "check"
  /\ \E moment \in 0 .. clock[n] :
       LET due == {s \in DOMAIN pending[n] : /\ ~pending[n][s].done
                                            /\ pending[n][s].sent < moment}
           left == Repeat(n, due)
       IN  /\ pending' = [pending EXCEPT ![n] =
                            [s \in {x \in DOMAIN left : ~left[x].done} |-> left[s]]]
           /\ resend' = [resend EXCEPT ![n] = Resend(n, due)]
           /\ clock' = [clock EXCEPT ![n] = IF Resend(n, due) = {} THEN @ ELSE @ + 1]
  /\ mode' = [mode EXCEPT ![n] = "recv"]
  /\ UNCHANGED <<next_seq, published, sends, subscriber, inbox, calls, faults>>

\* The loop over retransmit_frames, in the order of pending_data.
SendNext(n) ==
  /\ mode[n] = "recv"
  /\ \E s \in resend[n] :
       /\ \A r \in resend[n] : s <= r
       /\ Broadcast(<<Data(n, s, pending[n][s].topic)>>)
       /\ sends' = [sends EXCEPT ![n][s] = @ + 1]
       /\ resend' = [resend EXCEPT ![n] = @ \ {s}]
  /\ UNCHANGED <<next_seq, pending, clock, published, subscriber, mode, calls, faults>>

\* recv: the first frame leaves the buffer, then the answers are sent.
Answer(n, frames) ==
  inbox' = [m \in Nodes |-> (IF m = n THEN Tail(inbox[m]) ELSE inbox[m]) \o frames]

\* handle_data: every subscriber of the topic and of the wildcard is called;
\* the ones that return false are removed.
HandleData(n, frame) ==
  /\ \E stop \in SUBSET (Ids(n, frame.topic) \cup Ids(n, Wildcard)) :
       /\ subs' = [subs EXCEPT ![n] = Without(n, stop)]
       /\ ended' = [ended EXCEPT ![n] = @ \cup stop]
  /\ LET d == <<frame.from, frame.seq>>
         seen == accepted[n][frame.topic]
     IN  accepted' = [accepted EXCEPT ![n][frame.topic] =
                        IF \E i \in DOMAIN seen : seen[i] = d
                        THEN seen ELSE Append(seen, d)]

\* Mutant: the expected number never moves.
CheckSeqNumStuck(n, frame) == UNCHANGED expected

\* check_seq_num, for a frame that is not ahead.
CheckSeqNum(n, frame) ==
  expected' = [expected EXCEPT ![n][frame.topic] =
                 IF frame.seq = @ THEN @ + 1 ELSE @]

\* Mutant: one missing frame is tolerated.
AheadByTwo(n, frame) == frame.seq > expected[n][frame.topic] + 1

Ahead(n, frame) == frame.seq > expected[n][frame.topic]

ReceiveData(n) ==
  LET frame == Head(inbox[n])
  IN  /\ frame.type = "Data" /\ frame.topic \in Topics
      /\ \/ /\ Ahead(n, frame)
            /\ Answer(n, <<Nack(n, expected[n][frame.topic], frame.topic)>>)
            /\ UNCHANGED subscriber
         \/ /\ ~Ahead(n, frame)
            /\ CheckSeqNum(n, frame)
            /\ HandleData(n, frame)
            /\ Answer(n, <<>>)
            /\ UNCHANGED next_id
      /\ UNCHANGED publisher

\* handle_data refuses a topic that is not below max_topics.
ReceiveUnknown(n) ==
  /\ Head(inbox[n]).type = "Data" /\ Head(inbox[n]).topic \notin Topics
  /\ Answer(n, <<>>)
  /\ UNCHANGED <<publisher, subscriber>>

\* handle_nack: only an own frame of that number and topic is sent again.
ReceiveNack(n) ==
  LET frame == Head(inbox[n])
      asked == {s \in DOMAIN pending[n] : /\ s = frame.seq
                                         /\ pending[n][s].topic = frame.topic}
  IN  /\ frame.type = "Nack"
      /\ pending' = [pending EXCEPT ![n] = Repeat(n, asked)]
      /\ \/ /\ Resend(n, asked) = {}
            /\ Answer(n, <<>>)
            /\ UNCHANGED <<clock, sends>>
         \/ /\ Resend(n, asked) # {}
            /\ Answer(n, <<Data(n, frame.seq, frame.topic)>>)
            /\ clock' = [clock EXCEPT ![n] = @ + 1]
            /\ sends' = [sends EXCEPT ![n][frame.seq] = @ + 1]
      /\ UNCHANGED <<next_seq, resend, published, subscriber>>

Receive(n) ==
  /\ mode[n] = "recv" /\ resend[n] = {} /\ inbox[n] # <<>>
  /\ ReceiveData(n) \/ ReceiveUnknown(n) \/ ReceiveNack(n)
  /\ mode' = [mode EXCEPT ![n] = "check"]
  /\ UNCHANGED <<calls, faults>>

\* recv fails: the loop goes on.
ReceiveFails(n) ==
  /\ mode[n] = "recv" /\ resend[n] = {} /\ faults < MaxFaults
  /\ mode' = [mode EXCEPT ![n] = "check"]
  /\ faults' = faults + 1
  /\ UNCHANGED <<publisher, subscriber, inbox, calls>>

(***************************************************************************)
(* The network: a frame in a buffer is lost (or refused for its CRC),      *)
(* doubled, or overtaken by the one behind it.                             *)
(***************************************************************************)
Faulty(n, i) ==
  LET q == inbox[n]
      before == SubSeq(q, 1, i - 1)
      after == SubSeq(q, i + 1, Len(q))
  IN  /\ faults < MaxFaults
      /\ faults' = faults + 1
      /\ \/ inbox' = [inbox EXCEPT ![n] = before \o after]
         \/ inbox' = [inbox EXCEPT ![n] = before \o <<q[i], q[i]>> \o after]
         \/ /\ after # <<>>
            /\ inbox' = [inbox EXCEPT ![n] =
                           before \o <<Head(after), q[i]>> \o Tail(after)]
      /\ UNCHANGED <<publisher, subscriber, mode, calls>>

Next ==
  \E n \in Nodes :
    \/ n \in Subscribers /\ \E t \in Topics \cup {Wildcard} : Subscribe(n, t)
    \/ n \in Publishers /\ \E t \in Topics \cup {Wildcard} : Publish(n, t)
    \/ n \in Publishers /\ PublishTooLong(n)
    \/ Unsubscribe(n) \/ EnterLoop(n)
    \/ CheckTimeouts(n) \/ SendNext(n) \/ Receive(n) \/ ReceiveFails(n)
    \/ \E i \in DOMAIN inbox[n] : Faulty(n, i)

\* The thread in receive_loop keeps running.
Fairness == \A n \in Nodes : /\ WF_vars(CheckTimeouts(n))
                             /\ WF_vars(SendNext(n))
                             /\ WF_vars(Receive(n))

Spec == Init /\ [][Next]_vars
FairSpec == Spec /\ Fairness

(***************************************************************************)
(* Properties                                                              *)
(***************************************************************************)
FrameType == [type : {"Data", "Nack"}, seq : Nat \ {0},
              topic : Topics \cup {Wildcard}, from : Nodes]
PendingType == [topic : Topics \cup {Wildcard}, sent : Nat, count : Nat,
                done : BOOLEAN]

\* The fields of a PubSub have their types; every number taken by create_frame
\* has its history entry, and only such numbers are pending or resent.
TypeOK ==
  /\ next_seq \in [Nodes -> Nat \ {0}]
  /\ published \in [Nodes -> Seq(Topics \cup {Wildcard, 0})]
  /\ sends \in [Nodes -> Seq(Nat)]
  /\ resend \in [Nodes -> SUBSET Nat]
  /\ inbox \in [Nodes -> Seq(FrameType)]
  /\ accepted \in [Nodes -> [Topics -> Seq(Nodes \X (Nat \ {0}))]]
  /\ expected \in [Nodes -> [Topics -> Nat \ {0}]]
  /\ subs \in [Nodes -> [Topics \cup {Wildcard} -> [1 .. MaxSubs -> Nat]]]
  /\ next_id \in [Nodes -> Nat \ {0}]
  /\ mode \in [Nodes -> {"calls", "check", "recv"}]
  /\ clock \in [Nodes -> Nat]
  /\ calls \in Nat /\ faults \in Nat
  /\ ended \in [Nodes -> SUBSET Nat]
  /\ \A n \in Nodes :
       /\ Len(published[n]) = next_seq[n] - 1 /\ Len(sends[n]) = next_seq[n] - 1
       /\ DOMAIN pending[n] \subseteq DOMAIN published[n]
       /\ \A s \in DOMAIN pending[n] : pending[n][s] \in PendingType
       /\ resend[n] \subseteq DOMAIN pending[n]

\* Only node p ever published on topic t.
OnlyPublisher(p, t) ==
  \A n \in Nodes \ {p} : \A s \in DOMAIN published[n] : published[n][s] # t

\* What check_seq_num is for: whatever the network loses, doubles or reorders,
\* the subscribers of a topic with one publisher see the publisher's messages
\* from the first on, in order and without a gap (repeats apart).
AcceptedInOrder ==
  \A p, n \in Nodes, t \in Topics : OnlyPublisher(p, t) =>
    \A i \in DOMAIN accepted[n][t] :
      /\ accepted[n][t][i] = <<p, i>>
      /\ i \in DOMAIN published[p] /\ published[p][i] = t

\* max_retransmits bounds the repeats of a frame, however NACKs of several
\* receivers (handle_nack) and timeouts (check_timeouts) interleave.
RetransmitBound ==
  \A n \in Nodes : \A s \in DOMAIN sends[n] : sends[n][s] <= 1 + MaxRetransmits

\* A subscription is in exactly one place of the lists from subscribe until it
\* ends by unsubscribe or by its callback, and never again: a frame reaches its
\* callback at most once, and no frame reaches it later.
SubscriptionsExact ==
  \A n \in Nodes :
    /\ \A id \in 1 .. next_id[n] - 1 :
         id \in ended[n] <=> \A t \in Topics \cup {Wildcard} : id \notin Ids(n, t)
    /\ \A t, u \in Topics \cup {Wildcard}, i, j \in 1 .. MaxSubs :
         subs[n][t][i] = subs[n][u][j] /\ <<t, i>> # <<u, j>> => subs[n][t][i] = 0

Published(n, s, t) == s \in DOMAIN published[n] /\ published[n][s] = t
Delivered(m, n, s, t) == \E i \in DOMAIN accepted[m][t] : accepted[m][t][i] = <<n, s>>

\* All published messages are on one topic and from one node.
OneStream == \E p \in Nodes, t \in Topics : \A n \in Nodes :
               \A s \in DOMAIN published[n] : n = p /\ published[n][s] = t

\* On a faultless network a node in receive_loop gets every message of a
\* publisher that uses one topic.
EventuallyDelivered ==
  [](faults = 0 /\ OneStream) =>
    \A m \in Nodes, n \in Publishers, t \in Topics, s \in 1 .. MaxCalls \div 2 :
      (mode[m] # "calls" /\ Published(n, s, t)) ~> Delivered(m, n, s, t)
=============================================================================
