---------------------------- MODULE PubSubProofs ----------------------------
(***************************************************************************)
(* Publish/subscribe, for any group of nodes, any topics, limits and faults:*)
(* the types, that a topic with one publisher is accepted in order and     *)
(* without gaps, the bound on retransmissions, and what a receiver is      *)
(* subscribed to.  At the end, the list of databases and its file.         *)
(***************************************************************************)
EXTENDS PubSub, DatabaseManager, WellFoundedInduction, TLAPS

USE ZenonT(30)

AllTopics == Topics \cup {Wildcard}

\* Frames that say the truth: a data frame carries what its sender published.
Real == {f \in FrameType : f.type = "Data" => Published(f.from, f.seq, f.topic)}

\* Every pending frame was published; what was sent and will be sent is counted.
Counted ==
  \A n \in Nodes : \A s \in DOMAIN pending[n] :
    /\ Published(n, s, pending[n][s].topic)
    /\ pending[n][s].count <= MaxRetransmits
    /\ sends[n][s] <= 1 + pending[n][s].count
    /\ s \in resend[n] => sends[n][s] <= pending[n][s].count

\* The accepted frames of a topic with one publisher are those below expected.
Ordered ==
  \A n, p \in Nodes, t \in Topics : OnlyPublisher(p, t) =>
    /\ Len(accepted[n][t]) = expected[n][t] - 1
    /\ \A i \in 1 .. expected[n][t] - 1 : /\ accepted[n][t][i] = <<p, i>>
                                         /\ Published(p, i, t)

PInv == /\ TypeOK
        /\ pending = [n \in Nodes |-> pending[n]]
        /\ \A n \in Nodes : inbox[n] \in Seq(Real)
        /\ Counted
        /\ RetransmitBound
        /\ Ordered

\* A larger set has all the sequences of a smaller one.
LEMMA SeqMono == ASSUME NEW S, NEW T, S \subseteq T, NEW q \in Seq(S)
                 PROVE  q \in Seq(T)
BY SMTT(30)

\* A new history entry keeps the old ones.
LEMMA PublishGrows ==
  ASSUME TypeOK, NEW n \in Nodes, NEW x \in Topics \cup {Wildcard, 0},
         published' = [published EXCEPT ![n] = Append(@, x)]
  PROVE  /\ \A m, s, t : Published(m, s, t) /\ m \in Nodes => Published(m, s, t)'
         /\ \A p, t : OnlyPublisher(p, t)' => OnlyPublisher(p, t)
         /\ Real \subseteq Real'
<1>1. \A m \in Nodes : DOMAIN published[m] \subseteq DOMAIN published'[m]
  BY SMTT(30) DEF TypeOK
<1>2. \A m \in Nodes : \A s \in DOMAIN published[m] : published'[m][s] = published[m][s]
  BY SMTT(30) DEF TypeOK
<1>3. \A m, s, t : Published(m, s, t) /\ m \in Nodes => Published(m, s, t)'
  BY <1>1, <1>2 DEF Published
<1>4. \A p, t : OnlyPublisher(p, t)' => OnlyPublisher(p, t)
  BY <1>1, <1>2, SMTT(30) DEF OnlyPublisher
<1>5. Real \subseteq Real'
  BY <1>3 DEF Real, FrameType
<1> QED BY <1>3, <1>4, <1>5

\* The invariant holds before any call.
LEMMA PInit == Init => PInv
<1> SUFFICES ASSUME Init PROVE PInv
  OBVIOUS
<1> USE PubSubAssumption DEF Init
<1>1. TypeOK
  BY SMTT(30) DEF TypeOK, PendingType, FrameType
<1>2. \A n \in Nodes : inbox[n] \in Seq(Real)
  BY SMTT(30)
<1>3. pending = [n \in Nodes |-> pending[n]]
  OBVIOUS
<1>4. Counted /\ RetransmitBound
  BY SMTT(30) DEF Counted, RetransmitBound
<1>5. Ordered
  BY SMTT(30) DEF Ordered
<1> QED BY <1>1, <1>2, <1>3, <1>4, <1>5 DEF PInv

\* The lists of subscriptions hold numbers, with and without some of them.
LEMMA ListTypes ==
  ASSUME TypeOK, NEW n \in Nodes
  PROVE  /\ subs \in [Nodes -> [AllTopics -> [1 .. MaxSubs -> Nat]]]
         /\ \A S : Without(n, S) \in [AllTopics -> [1 .. MaxSubs -> Nat]]
         /\ \A t \in AllTopics : \A id \in Ids(n, t) : id \in Nat
<1>1. subs \in [Nodes -> [AllTopics -> [1 .. MaxSubs -> Nat]]]
  BY DEF TypeOK, AllTopics
<1>2. \A S : Without(n, S) \in [AllTopics -> [1 .. MaxSubs -> Nat]]
  BY <1>1, PubSubAssumption, SMTT(30) DEF Without, AllTopics
<1>3. \A t \in AllTopics : \A i \in 1 .. MaxSubs : subs[n][t][i] \in Nat
  BY <1>1
<1>4. \A t \in AllTopics : \A id \in Ids(n, t) : id \in Nat
  BY <1>3 DEF Ids
<1> QED BY <1>1, <1>2, <1>4

\* Steps that only touch subscriptions, the mode and counters.
LEMMA CallsStep ==
  ASSUME PInv, NEW n \in Nodes,
         \/ \E t \in AllTopics : Subscribe(n, t)
         \/ Unsubscribe(n) \/ EnterLoop(n) \/ ReceiveFails(n)
  PROVE  PInv'
<1>0. TypeOK
  BY DEF PInv
<1>s. subs \in [Nodes -> [AllTopics -> [1 .. MaxSubs -> Nat]]]
  BY <1>0 DEF TypeOK, AllTopics
<1>1. UNCHANGED <<publisher, expected, accepted, inbox>>
  BY DEF Subscribe, Unsubscribe, EnterLoop, ReceiveFails, subscriber
<1>2. /\ next_id' \in [Nodes -> Nat \ {0}]
      /\ mode' \in [Nodes -> {"calls", "check", "recv"}]
      /\ calls' \in Nat /\ faults' \in Nat
      /\ subs' \in [Nodes -> [AllTopics -> [1 .. MaxSubs -> Nat]]]
      /\ ended' \in [Nodes -> SUBSET Nat]
  <2>1. CASE \E t \in AllTopics : Subscribe(n, t)
    <3>1. PICK t \in AllTopics : Subscribe(n, t)
      BY <2>1
    <3>2. next_id[n] \in Nat /\ next_id[n] + 1 \in Nat \ {0} /\ calls + 1 \in Nat
      BY <1>0, SMTT(30) DEF TypeOK
    <3>3. /\ next_id' = [next_id EXCEPT ![n] = next_id[n] + 1]
          /\ calls' = calls + 1 /\ UNCHANGED <<mode, faults>>
      BY <3>1 DEF Subscribe
    <3>4. CASE UNCHANGED subs /\ ended' = [ended EXCEPT ![n] = ended[n] \cup {next_id[n]}]
      BY <1>0, <3>2, <3>3, <3>4 DEF TypeOK, AllTopics
    <3>5. CASE UNCHANGED ended /\ \E i : subs' = [subs EXCEPT ![n][t][i] = next_id[n]]
      <4>1. PICK i : subs' = [subs EXCEPT ![n][t][i] = next_id[n]]
        BY <3>5
      <4>2. [subs[n][t] EXCEPT ![i] = next_id[n]] \in [1 .. MaxSubs -> Nat]
        BY <1>s, <3>2, <3>1
      <4>3. subs' \in [Nodes -> [AllTopics -> [1 .. MaxSubs -> Nat]]]
        BY <1>s, <4>1, <4>2, <3>1
      <4> QED BY <1>0, <3>2, <3>3, <3>5, <4>3 DEF TypeOK
    <3> QED BY <3>1, <3>4, <3>5, Zenon DEF Subscribe
  <2>2. CASE Unsubscribe(n)
    <3>1. \A S : Without(n, S) \in [AllTopics -> [1 .. MaxSubs -> Nat]]
      BY <1>0, ListTypes
    <3>2. \A t \in AllTopics : \A id \in Ids(n, t) : id \in Nat
      BY <1>0, ListTypes
    <3>3. PICK id \in Nat : /\ subs' = [subs EXCEPT ![n] = Without(n, {id})]
                           /\ ended' = [ended EXCEPT ![n] = ended[n] \cup {id}]
      BY <2>2, <3>2 DEF Unsubscribe, AllTopics
    <3>4. UNCHANGED <<next_id, mode, calls, faults>>
      BY <2>2 DEF Unsubscribe
    <3> QED BY <1>0, <3>1, <3>3, <3>4, Zenon DEF TypeOK, AllTopics
  <2>3. CASE EnterLoop(n)
    BY <1>0, <2>3 DEF EnterLoop, subscriber, TypeOK, AllTopics
  <2>4. CASE ReceiveFails(n)
    <3>1. /\ mode' = [mode EXCEPT ![n] = "check"] /\ faults' = faults + 1
          /\ UNCHANGED <<next_id, subs, ended, calls>>
      BY <2>4 DEF ReceiveFails, subscriber
    <3>2. faults' \in Nat
      BY <1>0, <3>1, SMTT(30) DEF TypeOK
    <3>3. mode' \in [Nodes -> {"calls", "check", "recv"}]
      BY <1>0, <3>1 DEF TypeOK
    <3> QED BY <1>0, <3>1, <3>2, <3>3, Zenon DEF TypeOK, AllTopics
  <2> QED BY <2>1, <2>2, <2>3, <2>4
<1>4. TypeOK'
  BY <1>0, <1>1, <1>2 DEF TypeOK, publisher, AllTopics
<1>5. Real' = Real
  BY <1>1 DEF Real, Published, publisher
<1>6. (Counted /\ RetransmitBound)'
  BY <1>1 DEF PInv, Counted, RetransmitBound, Published, publisher
<1>7. Ordered'
  BY <1>1, SMTT(30) DEF PInv, Ordered, OnlyPublisher, Published, publisher
<1> QED BY <1>1, <1>4, <1>5, <1>6, <1>7 DEF PInv, publisher

\* The history moved on only by new published entries.
LEMMA OrderedStable ==
  ASSUME PInv, UNCHANGED <<expected, accepted>>,
         \A m, s, t : Published(m, s, t) /\ m \in Nodes => Published(m, s, t)',
         \A p, t : OnlyPublisher(p, t)' => OnlyPublisher(p, t)
  PROVE  Ordered'
BY DEF PInv, Ordered

\* publish gives a frame the next number and keeps it for retransmission.
LEMMA PublishStep ==
  ASSUME PInv, NEW n \in Nodes, NEW t \in AllTopics,
         Publish(n, t) \/ PublishTooLong(n)
  PROVE  PInv'
<1>0. TypeOK
  BY DEF PInv
<1> DEFINE N == next_seq[n]
<1>1. PICK x \in Topics \cup {Wildcard, 0} : published' = [published EXCEPT ![n] = Append(@, x)]
  BY DEF Publish, PublishTooLong, AllTopics
<1>2. /\ \A m, s, u : Published(m, s, u) /\ m \in Nodes => Published(m, s, u)'
      /\ \A p, u : OnlyPublisher(p, u)' => OnlyPublisher(p, u)
      /\ Real \subseteq Real'
  BY <1>0, <1>1, PublishGrows
<1>3. PICK k \in {0, 1} : sends' = [sends EXCEPT ![n] = Append(@, k)]
  BY DEF Publish, PublishTooLong
<1>4. /\ N \in Nat \ {0} /\ DOMAIN published[n] = 1 .. N - 1 /\ DOMAIN sends[n] = 1 .. N - 1
      /\ DOMAIN published'[n] = 1 .. N /\ DOMAIN sends'[n] = 1 .. N
      /\ published'[n][N] = x
      /\ sends'[n][N] = k /\ \A s \in 1 .. N - 1 : sends'[n][s] = sends[n][s]
      /\ Len(published'[n]) = N /\ Len(sends'[n]) = N
  BY <1>0, <1>1, <1>3, SMTT(30) DEF TypeOK
<1> HIDE DEF N
<1>5. /\ next_seq' = [next_seq EXCEPT ![n] = @ + 1]
      /\ UNCHANGED <<resend, subscriber, mode>>
      /\ calls' \in Nat /\ faults' \in Nat /\ clock' \in [Nodes -> Nat]
  <2>1. CASE Publish(n, t)
    <3>1. next_seq' = [next_seq EXCEPT ![n] = @ + 1] /\ UNCHANGED <<resend, subscriber, mode>>
      BY <2>1 DEF Publish
    <3>2. calls' = calls + 2 /\ clock' = [clock EXCEPT ![n] = @ + 1]
      BY <2>1 DEF Publish
    <3>3. faults' = faults \/ faults' = faults + 1
      BY <2>1 DEF Publish
    <3> QED BY <1>0, <3>1, <3>2, <3>3, SMTT(30) DEF TypeOK
  <2>2. CASE PublishTooLong(n)
    BY <1>0, <2>2, SMTT(30) DEF PublishTooLong, TypeOK
  <2> QED BY <2>1, <2>2
<1>a. \A m \in Nodes \ {n} : /\ published'[m] = published[m] /\ sends'[m] = sends[m]
                              /\ next_seq'[m] = next_seq[m]
  BY <1>0, <1>1, <1>3, <1>5 DEF TypeOK
<1>b. N \in 1 .. N /\ N \notin 1 .. N - 1 /\ next_seq'[n] = N + 1
  BY <1>0, <1>4, <1>5, SMTT(30) DEF TypeOK, N
<1>c. N \in DOMAIN published'[n] /\ published'[n][N] = x
  BY <1>4, <1>b
<1>6. inbox' \in [Nodes -> Seq(Real')]
  <2>1. \A m \in Nodes : inbox[m] \in Seq(Real')
    BY <1>2, SeqMono DEF PInv
  <2>2. CASE UNCHANGED inbox
    BY <1>0, <2>1, <2>2 DEF TypeOK
  <2>3. CASE Publish(n, t) /\ Broadcast(<<Data(n, N, t)>>)
    <3>1. x = t
      BY <1>0, <1>1, <1>4, <2>3, SMTT(30) DEF Publish, TypeOK, AllTopics
    <3>2. N \in DOMAIN published'[n] /\ published'[n][N] = t
      BY <3>1, <1>4, SMTT(30)
    <3>3. Data(n, N, t) \in Real'
      BY <3>2, <1>4 DEF Data, Real, FrameType, AllTopics, Published
    <3>4. \A m \in Nodes : inbox[m] \o <<Data(n, N, t)>> \in Seq(Real')
      BY <2>1, <3>3, SMTT(30)
    <3> QED BY <2>3, <3>4 DEF Broadcast
  <2> QED BY <2>2, <2>3 DEF Publish, PublishTooLong, N
<1>7. \/ pending' = pending
      \/ /\ x = t
         /\ pending' = [pending EXCEPT ![n] =
              [s \in DOMAIN pending[n] \cup {N} |->
                 IF s = N THEN [topic |-> t, sent |-> clock[n], count |-> 0, done |-> FALSE]
                 ELSE pending[n][s]]]
  <2>1. CASE PublishTooLong(n)
    BY <2>1 DEF PublishTooLong
  <2>2. CASE Publish(n, t)
    <3>1. x = t
      BY <1>0, <1>1, <1>4, <2>2, SMTT(30) DEF Publish, TypeOK, AllTopics
    <3>2. pending' = [pending EXCEPT ![n] = Remember(n, t)]
      BY <2>2 DEF Publish
    <3>3. CASE EnableNack
      BY <3>1, <3>2, <3>3 DEF Remember, N
    <3>4. CASE ~EnableNack
      <4>1. Remember(n, t) = pending[n]
        BY <3>4 DEF Remember
      <4>2. pending' = pending
        BY <4>1, <3>2 DEF PInv
      <4> QED BY <4>2
    <3> QED BY <3>3, <3>4
  <2> QED BY <2>1, <2>2
<1>8. pending' = [m \in Nodes |-> pending'[m]]
  BY <1>7 DEF PInv
<1>9. \A m \in Nodes : \A s \in DOMAIN pending'[m] :
        \/ s \in DOMAIN pending[m] /\ pending'[m][s] = pending[m][s]
        \/ /\ m = n /\ s = N /\ x = t
           /\ pending'[m][s] = [topic |-> t, sent |-> clock[n], count |-> 0, done |-> FALSE]
  <2>1. CASE pending' = pending
    BY <2>1
  <2>2. CASE pending' # pending
    <3>1. \A m \in Nodes \ {n} : pending'[m] = pending[m]
      BY <1>7, <2>2 DEF PInv
    <3>2. /\ x = t
          /\ pending'[n] =
              [s \in DOMAIN pending[n] \cup {N} |->
                 IF s = N THEN [topic |-> t, sent |-> clock[n], count |-> 0, done |-> FALSE]
                 ELSE pending[n][s]]
      BY <1>7, <2>2 DEF PInv
    <3> QED BY <3>1, <3>2, Zenon
  <2> QED BY <2>1, <2>2, Zenon
<1>10. \A m \in Nodes : DOMAIN pending[m] \subseteq DOMAIN pending'[m]
  <2>1. CASE pending' = pending
    BY <2>1
  <2>2. CASE pending' # pending
    <3>1. \A m \in Nodes \ {n} : pending'[m] = pending[m]
      BY <1>7, <2>2 DEF PInv
    <3>2. DOMAIN pending'[n] = DOMAIN pending[n] \cup {N}
      BY <1>7, <2>2, SMTT(30) DEF PInv
    <3> QED BY <3>1, <3>2
  <2> QED BY <2>1, <2>2
<1>11. TypeOK'
  <2>1. /\ next_seq' \in [Nodes -> Nat \ {0}]
        /\ published' \in [Nodes -> Seq(Topics \cup {Wildcard, 0})]
        /\ sends' \in [Nodes -> Seq(Nat)]
    <3>1. next_seq' \in [Nodes -> Nat \ {0}]
      BY <1>0, <1>5, SMTT(30) DEF TypeOK
    <3>2. published' \in [Nodes -> Seq(Topics \cup {Wildcard, 0})]
      BY <1>0, <1>1, SMTT(30) DEF TypeOK
    <3>3. sends' \in [Nodes -> Seq(Nat)]
      BY <1>0, <1>3, SMTT(30) DEF TypeOK
    <3> QED BY <3>1, <3>2, <3>3
  <2>2. inbox' \in [Nodes -> Seq(FrameType)]
    <3>1. Real' \subseteq FrameType
      BY DEF Real
    <3> QED BY <1>6, <3>1, SeqMono
  <2>3. [topic |-> t, sent |-> clock[n], count |-> 0, done |-> FALSE] \in PendingType
    BY <1>0 DEF TypeOK, PendingType, AllTopics
  <2>4. \A m \in Nodes :
          /\ Len(published'[m]) = next_seq'[m] - 1 /\ Len(sends'[m]) = next_seq'[m] - 1
          /\ DOMAIN published[m] \subseteq DOMAIN published'[m]
    <3>1. 1 .. N - 1 \subseteq 1 .. N /\ N = (N + 1) - 1
      BY <1>4, SMTT(30)
    <3>2. \A m \in Nodes : Len(published[m]) = next_seq[m] - 1 /\ Len(sends[m]) = next_seq[m] - 1
      BY <1>0 DEF TypeOK
    <3> QED BY <1>4, <1>a, <1>b, <3>1, <3>2, Zenon
  <2>5. \A m \in Nodes :
          /\ DOMAIN pending'[m] \subseteq DOMAIN published'[m]
          /\ \A s \in DOMAIN pending'[m] : pending'[m][s] \in PendingType
    <3>1. \A m \in Nodes : /\ DOMAIN pending[m] \subseteq DOMAIN published[m]
                          /\ \A s \in DOMAIN pending[m] : pending[m][s] \in PendingType
      BY <1>0 DEF TypeOK
    <3> QED BY <1>c, <1>9, <2>3, <2>4, <3>1
  <2>6. \A m \in Nodes : resend'[m] \subseteq DOMAIN pending'[m]
    BY <1>0, <1>5, <1>10 DEF TypeOK
  <2> QED BY <1>0, <1>5, <2>1, <2>2, <2>4, <2>5, <2>6, Zenon DEF TypeOK, subscriber
<1>12. Counted'
  <2> SUFFICES ASSUME NEW m \in Nodes, NEW s \in DOMAIN pending'[m]
               PROVE  /\ Published(m, s, pending[m][s].topic)'
                      /\ pending'[m][s].count <= MaxRetransmits
                      /\ sends'[m][s] <= 1 + pending'[m][s].count
                      /\ s \in resend'[m] => sends'[m][s] <= pending'[m][s].count
    BY DEF Counted
  <2>1. CASE s \in DOMAIN pending[m] /\ pending'[m][s] = pending[m][s]
    <3>1. sends'[m][s] = sends[m][s] /\ resend'[m] = resend[m]
      BY <1>0, <1>3, <1>4, <1>5, <2>1 DEF TypeOK
    <3> QED BY <1>2, <2>1, <3>1 DEF PInv, Counted
  <2>2. CASE /\ m = n /\ s = N /\ x = t
             /\ pending'[m][s] = [topic |-> t, sent |-> clock[n], count |-> 0, done |-> FALSE]
    <3>1. Published(m, s, t)'
      BY <1>c, <2>2 DEF Published
    <3>a. resend[n] \subseteq DOMAIN published[n]
      BY <1>0 DEF TypeOK
    <3>2. N \notin resend[n]
      BY <3>a, <1>4, <1>b
    <3>3. sends'[m][s] <= 1 /\ s \notin resend'[m]
      BY <1>4, <1>5, <2>2, <3>2, SMTT(30)
    <3> QED BY <2>2, <3>1, <3>3, PubSubAssumption, SMTT(30)
  <2> QED BY <1>9, <2>1, <2>2
<1>13. RetransmitBound'
  <2> SUFFICES ASSUME NEW m \in Nodes, NEW s \in DOMAIN sends'[m]
               PROVE  sends'[m][s] <= 1 + MaxRetransmits
    BY DEF RetransmitBound
  <2>1. CASE m = n /\ s = N
    BY <1>4, <2>1, PubSubAssumption, SMTT(30)
  <2>2. CASE ~(m = n /\ s = N)
    <3>1. s \in DOMAIN sends[m] /\ sends'[m][s] = sends[m][s]
      <4>1. CASE m = n
        <5>1. s \in 1 .. N - 1
          BY <1>4, <2>2, <4>1, SMTT(30)
        <5> QED BY <1>4, <4>1, <5>1
      <4> QED BY <1>a, <4>1
    <3> QED BY <3>1 DEF PInv, RetransmitBound
  <2> QED BY <2>1, <2>2
<1>14. Ordered'
  BY <1>2, <1>5, OrderedStable DEF subscriber
<1> QED BY <1>6, <1>8, <1>11, <1>12, <1>13, <1>14 DEF PInv

\* What repeating the entries of S changes.
LEMMA RepeatFacts ==
  ASSUME TypeOK, NEW n \in Nodes, NEW S \in SUBSET DOMAIN pending[n]
  PROVE  /\ DOMAIN Repeat(n, S) = DOMAIN pending[n]
         /\ Resend(n, S) \subseteq S
         /\ \A s \in DOMAIN pending[n] :
              /\ Repeat(n, S)[s] \in PendingType
              /\ Repeat(n, S)[s].topic = pending[n][s].topic
              /\ s \in Resend(n, S) =>
                   /\ Repeat(n, S)[s].count = pending[n][s].count + 1
                   /\ Repeat(n, S)[s].done = pending[n][s].done
                   /\ pending[n][s].count < MaxRetransmits
              /\ s \notin Resend(n, S) => Repeat(n, S)[s].count = pending[n][s].count
<1>1. DOMAIN Repeat(n, S) = DOMAIN pending[n] /\ Resend(n, S) \subseteq S
  BY DEF Repeat, Resend
<1>2. ASSUME NEW s \in DOMAIN pending[n]
      PROVE  /\ Repeat(n, S)[s] \in PendingType
             /\ Repeat(n, S)[s].topic = pending[n][s].topic
             /\ s \in Resend(n, S) =>
                  /\ Repeat(n, S)[s].count = pending[n][s].count + 1
                  /\ Repeat(n, S)[s].done = pending[n][s].done
                  /\ pending[n][s].count < MaxRetransmits
             /\ s \notin Resend(n, S) => Repeat(n, S)[s].count = pending[n][s].count
  <2>1. pending[n][s] \in PendingType /\ clock[n] \in Nat
    BY DEF TypeOK
  <2>2. CASE s \in Resend(n, S)
    <3>1. Repeat(n, S)[s] = [pending[n][s] EXCEPT !.count = @ + 1, !.sent = clock[n]]
      BY <2>2 DEF Repeat
    <3>2. pending[n][s].count < MaxRetransmits
      BY <2>2 DEF Resend
    <3> DEFINE c == pending[n][s].count + 1
               e == [pending[n][s] EXCEPT !.count = c, !.sent = clock[n]]
    <3>a. c \in Nat
      BY <2>1, SMTT(30) DEF PendingType
    <3>b. c = pending[n][s].count + 1
      OBVIOUS
    <3> HIDE DEF c
    <3>c. e \in PendingType
      BY <2>1, <3>a DEF PendingType
    <3>d. e.count = c
      BY <2>1 DEF PendingType
    <3>3. e \in PendingType /\ e.count = pending[n][s].count + 1
      BY <3>b, <3>c, <3>d
    <3>4. e.topic = pending[n][s].topic
      BY <2>1 DEF PendingType
    <3>5. e.done = pending[n][s].done
      BY <2>1 DEF PendingType
    <3> HIDE DEF e
    <3>6. Repeat(n, S)[s] = e
      BY <3>1 DEF e, c
    <3> QED BY <2>2, <3>2, <3>3, <3>4, <3>5, <3>6
  <2>3. CASE s \notin Resend(n, S)
    <3> DEFINE d == pending[n][s].done \/ s \in S
    <3>1. Repeat(n, S)[s] = [pending[n][s] EXCEPT !.done = d]
      BY <2>3 DEF Repeat
    <3>2. d \in BOOLEAN
      OBVIOUS
    <3> HIDE DEF d
    <3>3. [pending[n][s] EXCEPT !.done = d] \in PendingType
      BY <2>1, <3>2 DEF PendingType
    <3>4. /\ [pending[n][s] EXCEPT !.done = d].topic = pending[n][s].topic
          /\ [pending[n][s] EXCEPT !.done = d].count = pending[n][s].count
      BY <2>1 DEF PendingType
    <3> QED BY <2>3, <3>1, <3>3, <3>4
  <2> QED BY <2>2, <2>3
<1> QED BY <1>1, <1>2

\* Steps of the retransmission keep the invariant when they leave the history
\* alone, send only real frames and keep the counts.
LEMMA RepeatStep ==
  ASSUME PInv, UNCHANGED <<next_seq, published, subscriber, calls, faults>>,
         sends' \in [Nodes -> Seq(Nat)],
         \A m \in Nodes : Len(sends'[m]) = Len(sends[m]),
         resend' \in [Nodes -> SUBSET Nat],
         inbox' \in [Nodes -> Seq(Real)],
         mode' \in [Nodes -> {"calls", "check", "recv"}],
         clock' \in [Nodes -> Nat],
         pending' = [m \in Nodes |-> pending'[m]],
         \A m \in Nodes :
           /\ DOMAIN pending'[m] \subseteq DOMAIN pending[m]
           /\ resend'[m] \subseteq DOMAIN pending'[m]
           /\ \A s \in DOMAIN pending'[m] :
                /\ pending'[m][s] \in PendingType
                /\ pending'[m][s].topic = pending[m][s].topic
                /\ pending'[m][s].count <= MaxRetransmits
                /\ sends'[m][s] <= 1 + pending'[m][s].count
                /\ s \in resend'[m] => sends'[m][s] <= pending'[m][s].count
           /\ \A s \in DOMAIN sends[m] : sends'[m][s] <= 1 + MaxRetransmits
  PROVE  PInv'
<1>0. TypeOK
  BY DEF PInv
<1>1. Real' = Real
  BY DEF Real, Published
<1>2. inbox' \in [Nodes -> Seq(FrameType)]
  <2>1. Real \subseteq FrameType
    BY DEF Real
  <2> QED BY <2>1, SeqMono
<1>3. TypeOK'
  BY <1>0, <1>2 DEF TypeOK, subscriber
<1>4. Counted'
  <2>1. \A m \in Nodes : \A s \in DOMAIN pending'[m] : Published(m, s, pending[m][s].topic)
    BY DEF PInv, Counted
  <2>2. \A m \in Nodes : \A s \in DOMAIN pending'[m] : Published(m, s, pending[m][s].topic)'
    BY <2>1 DEF Published
  <2> QED BY <2>2 DEF Counted
<1>5. RetransmitBound'
  <2>1. \A m \in Nodes : DOMAIN sends'[m] = DOMAIN sends[m]
    BY <1>0, SMTT(30) DEF TypeOK
  <2> QED BY <2>1, Zenon DEF RetransmitBound
<1>6. Ordered'
  <2>1. \A m, s, t : Published(m, s, t) => Published(m, s, t)'
    BY DEF Published
  <2>2. \A p, t : OnlyPublisher(p, t)' => OnlyPublisher(p, t)
    BY DEF OnlyPublisher
  <2> QED BY <2>1, <2>2, OrderedStable DEF subscriber
<1> QED BY <1>1, <1>3, <1>4, <1>5, <1>6 DEF PInv

\* check_timeouts picks the frames to send again, below the limit of retries.
LEMMA CheckTimeoutsStep ==
  ASSUME PInv, NEW n \in Nodes, CheckTimeouts(n)
  PROVE  PInv'
<1>0. TypeOK
  BY DEF PInv
<1>1. PICK moment \in 0 .. clock[n] :
        LET due == {s \in DOMAIN pending[n] : /\ ~pending[n][s].done
                                             /\ pending[n][s].sent < moment}
            left == Repeat(n, due)
        IN  /\ pending' = [pending EXCEPT ![n] =
                             [s \in {x \in DOMAIN left : ~left[x].done} |-> left[s]]]
            /\ resend' = [resend EXCEPT ![n] = Resend(n, due)]
            /\ clock' = [clock EXCEPT ![n] = IF Resend(n, due) = {} THEN @ ELSE @ + 1]
  BY DEF CheckTimeouts
<1> DEFINE due == {s \in DOMAIN pending[n] : /\ ~pending[n][s].done
                                            /\ pending[n][s].sent < moment}
           left == Repeat(n, due)
<1>2. /\ UNCHANGED <<next_seq, published, sends, subscriber, inbox, calls, faults>>
      /\ mode' = [mode EXCEPT ![n] = "recv"]
  BY DEF CheckTimeouts
<1>3. /\ due \in SUBSET DOMAIN pending[n]
      /\ \A s \in due : ~pending[n][s].done
  OBVIOUS
<1>4. /\ pending' = [pending EXCEPT ![n] = [s \in {x \in DOMAIN left : ~left[x].done} |-> left[s]]]
      /\ resend' = [resend EXCEPT ![n] = Resend(n, due)]
      /\ clock' = [clock EXCEPT ![n] = IF Resend(n, due) = {} THEN @ ELSE @ + 1]
  BY <1>1
<1> HIDE DEF due
<1>5. /\ DOMAIN left = DOMAIN pending[n]
      /\ Resend(n, due) \subseteq due
      /\ \A s \in DOMAIN pending[n] :
           /\ left[s] \in PendingType
           /\ left[s].topic = pending[n][s].topic
           /\ s \in Resend(n, due) => /\ left[s].count = pending[n][s].count + 1
                                      /\ left[s].done = pending[n][s].done
                                      /\ pending[n][s].count < MaxRetransmits
           /\ s \notin Resend(n, due) => left[s].count = pending[n][s].count
  BY <1>0, <1>3, RepeatFacts
<1> HIDE DEF left
<1>6. /\ DOMAIN pending'[n] = {x \in DOMAIN left : ~left[x].done}
      /\ \A s \in DOMAIN pending'[n] : pending'[n][s] = left[s]
      /\ \A m \in Nodes \ {n} : pending'[m] = pending[m]
      /\ pending' = [m \in Nodes |-> pending'[m]]
  BY <1>4 DEF PInv
<1>7. resend'[n] = Resend(n, due) /\ \A m \in Nodes \ {n} : resend'[m] = resend[m]
  BY <1>0, <1>4 DEF TypeOK
<1>8. Resend(n, due) \subseteq DOMAIN pending'[n]
  BY <1>3, <1>5, <1>6
<1>9. resend' \in [Nodes -> SUBSET Nat]
  <2>1. DOMAIN pending[n] \subseteq Nat
    BY <1>0, SMTT(30) DEF TypeOK
  <2>2. Resend(n, due) \subseteq Nat
    BY <2>1, <1>5, <1>3
  <2> QED BY <1>0, <1>4, <2>2 DEF TypeOK
<1>10. \A m \in Nodes : /\ DOMAIN pending'[m] \subseteq DOMAIN pending[m]
                        /\ resend'[m] \subseteq DOMAIN pending'[m]
  <2>1. \A m \in Nodes : resend[m] \subseteq DOMAIN pending[m]
    BY <1>0 DEF TypeOK
  <2>2. DOMAIN pending'[n] \subseteq DOMAIN pending[n]
    BY <1>5, <1>6
  <2> QED BY <1>6, <1>7, <1>8, <2>1, <2>2
<1>11. ASSUME NEW m \in Nodes, NEW s \in DOMAIN pending'[m]
       PROVE  /\ pending'[m][s] \in PendingType
              /\ pending'[m][s].topic = pending[m][s].topic
              /\ pending'[m][s].count <= MaxRetransmits
              /\ sends'[m][s] <= 1 + pending'[m][s].count
              /\ s \in resend'[m] => sends'[m][s] <= pending'[m][s].count
  <2>1. /\ s \in DOMAIN pending[m]
        /\ pending[m][s] \in PendingType /\ pending[m][s].count \in Nat
        /\ pending[m][s].count <= MaxRetransmits
        /\ sends[m][s] <= 1 + pending[m][s].count
        /\ s \in resend[m] => sends[m][s] <= pending[m][s].count
    BY <1>0, <1>10 DEF PInv, Counted, TypeOK, PendingType
  <2>2. sends[m][s] \in Nat
    <3>1. DOMAIN pending[m] \subseteq DOMAIN sends[m]
      BY <1>0, SMTT(30) DEF TypeOK
    <3>2. sends[m] \in Seq(Nat)
      BY <1>0 DEF TypeOK
    <3> QED BY <2>1, <3>1, <3>2, SMTT(30)
  <2>3. CASE m # n
    BY <1>2, <1>6, <1>7, <2>1, <2>3
  <2>4. CASE m = n /\ s \in Resend(n, due)
    <3>1. pending'[m][s] = left[s] /\ left[s].count = pending[m][s].count + 1
          /\ pending[m][s].count < MaxRetransmits
      BY <1>5, <1>6, <2>1, <2>4
    <3> QED BY <1>2, <1>5, <2>1, <2>2, <2>4, <3>1, PubSubAssumption, SMTT(30)
  <2>5. CASE m = n /\ s \notin Resend(n, due)
    BY <1>2, <1>5, <1>6, <1>7, <2>1, <2>5
  <2> QED BY <2>3, <2>4, <2>5
<1>12. clock' \in [Nodes -> Nat]
  BY <1>0, <1>4, SMTT(30) DEF TypeOK
<1>13. mode' \in [Nodes -> {"calls", "check", "recv"}]
  BY <1>0, <1>2 DEF TypeOK
<1>14. /\ sends' \in [Nodes -> Seq(Nat)] /\ \A m \in Nodes : Len(sends'[m]) = Len(sends[m])
       /\ \A m \in Nodes : \A s \in DOMAIN sends[m] : sends'[m][s] <= 1 + MaxRetransmits
  BY <1>0, <1>2 DEF TypeOK, PInv, RetransmitBound
<1>15. inbox' \in [Nodes -> Seq(Real)]
  BY <1>0, <1>2 DEF TypeOK, PInv
<1> QED BY <1>2, <1>6, <1>9, <1>10, <1>11, <1>12, <1>13, <1>14, <1>15, RepeatStep

\* A step that sends frame s of node n once more.
LEMMA SendAgain ==
  ASSUME PInv, NEW n \in Nodes, NEW s \in DOMAIN pending[n],
         sends' = [sends EXCEPT ![n][s] = @ + 1]
  PROVE  /\ sends' \in [Nodes -> Seq(Nat)]
         /\ \A m \in Nodes : Len(sends'[m]) = Len(sends[m])
         /\ \A m \in Nodes : \A r \in DOMAIN sends[m] :
              sends'[m][r] = IF m = n /\ r = s THEN sends[m][r] + 1 ELSE sends[m][r]
         /\ \A m \in Nodes : \A r \in DOMAIN sends[m] : sends[m][r] \in Nat
         /\ \A m \in Nodes : DOMAIN pending[m] \subseteq DOMAIN sends[m]
         /\ Data(n, s, pending[n][s].topic) \in Real
<1>0. TypeOK
  BY DEF PInv
<1>1. sends \in [Nodes -> Seq(Nat)] /\ sends[n] \in Seq(Nat)
  BY <1>0 DEF TypeOK
<1>2. \A m \in Nodes : DOMAIN pending[m] \subseteq DOMAIN sends[m]
  BY <1>0, SMTT(30) DEF TypeOK
<1>3. s \in 1 .. Len(sends[n]) /\ sends[n][s] \in Nat
  BY <1>1, <1>2, SMTT(30)
<1>4. /\ [sends[n] EXCEPT ![s] = @ + 1] \in Seq(Nat)
      /\ Len([sends[n] EXCEPT ![s] = @ + 1]) = Len(sends[n])
  BY <1>1, <1>3, SMTT(30)
<1>5. sends' = [sends EXCEPT ![n] = [sends[n] EXCEPT ![s] = @ + 1]]
  BY <1>1
<1>6. sends' \in [Nodes -> Seq(Nat)] /\ \A m \in Nodes : Len(sends'[m]) = Len(sends[m])
  BY <1>1, <1>4, <1>5
<1>7. \A m \in Nodes : \A r \in DOMAIN sends[m] :
        sends'[m][r] = IF m = n /\ r = s THEN sends[m][r] + 1 ELSE sends[m][r]
  BY <1>1, <1>5
<1>8. \A m \in Nodes : \A r \in DOMAIN sends[m] : sends[m][r] \in Nat
  BY <1>1, SMTT(30)
<1>9. Data(n, s, pending[n][s].topic) \in Real
  <2>1. Published(n, s, pending[n][s].topic)
    BY DEF PInv, Counted
  <2>2. pending[n][s].topic \in AllTopics
    BY <1>0 DEF TypeOK, PendingType, AllTopics
  <2>3. s \in Nat \ {0}
    BY <1>3, SMTT(30)
  <2> QED BY <2>1, <2>2, <2>3 DEF Real, Data, FrameType, AllTopics
<1> QED BY <1>2, <1>6, <1>7, <1>8, <1>9

\* One frame is sent again.
LEMMA SendNextStep ==
  ASSUME PInv, NEW n \in Nodes, SendNext(n)
  PROVE  PInv'
<1>0. TypeOK
  BY DEF PInv
<1>1. PICK s \in resend[n] : /\ Broadcast(<<Data(n, s, pending[n][s].topic)>>)
                             /\ sends' = [sends EXCEPT ![n][s] = @ + 1]
                             /\ resend' = [resend EXCEPT ![n] = @ \ {s}]
  BY DEF SendNext
<1>2. UNCHANGED <<next_seq, pending, clock, published, subscriber, mode, calls, faults>>
  BY DEF SendNext
<1>3. s \in DOMAIN pending[n]
  BY <1>0 DEF TypeOK
<1> DEFINE f == Data(n, s, pending[n][s].topic)
<1>4. /\ sends' \in [Nodes -> Seq(Nat)]
      /\ \A m \in Nodes : Len(sends'[m]) = Len(sends[m])
      /\ \A m \in Nodes : \A r \in DOMAIN sends[m] :
           sends'[m][r] = IF m = n /\ r = s THEN sends[m][r] + 1 ELSE sends[m][r]
      /\ \A m \in Nodes : \A r \in DOMAIN sends[m] : sends[m][r] \in Nat
      /\ \A m \in Nodes : DOMAIN pending[m] \subseteq DOMAIN sends[m]
      /\ f \in Real
  BY <1>1, <1>3, SendAgain
<1> HIDE DEF f
<1>5. inbox' \in [Nodes -> Seq(Real)]
  <2>1. \A m \in Nodes : inbox[m] \o <<f>> \in Seq(Real)
    BY <1>4, SMTT(30) DEF PInv
  <2> QED BY <1>1, <2>1 DEF Broadcast, f
<1>6. /\ resend' \in [Nodes -> SUBSET Nat]
      /\ resend'[n] = resend[n] \ {s} /\ \A m \in Nodes \ {n} : resend'[m] = resend[m]
  BY <1>0, <1>1 DEF TypeOK
<1>7. ASSUME NEW m \in Nodes, NEW r \in DOMAIN pending[m]
      PROVE  /\ pending[m][r] \in PendingType
             /\ pending[m][r].count <= MaxRetransmits
             /\ sends'[m][r] <= 1 + pending[m][r].count
             /\ r \in resend'[m] => sends'[m][r] <= pending[m][r].count
  <2>1. /\ pending[m][r] \in PendingType /\ pending[m][r].count \in Nat
        /\ pending[m][r].count <= MaxRetransmits
        /\ sends[m][r] <= 1 + pending[m][r].count
        /\ r \in resend[m] => sends[m][r] <= pending[m][r].count
    BY <1>0 DEF PInv, Counted, TypeOK, PendingType
  <2>2. sends[m][r] \in Nat
    BY <1>4
  <2>3. CASE m = n /\ r = s
    <3>1. sends'[m][r] = sends[m][r] + 1 /\ r \notin resend'[m] /\ r \in resend[m]
      BY <1>4, <1>6, <2>3
    <3> QED BY <2>1, <2>2, <3>1, SMTT(30)
  <2>4. CASE ~(m = n /\ r = s)
    <3>1. sends'[m][r] = sends[m][r] /\ (r \in resend'[m] => r \in resend[m])
      BY <1>4, <1>6, <2>4
    <3> QED BY <2>1, <3>1
  <2> QED BY <2>3, <2>4
<1>8. \A m \in Nodes : \A r \in DOMAIN sends[m] : sends'[m][r] <= 1 + MaxRetransmits
  <2> SUFFICES ASSUME NEW m \in Nodes, NEW r \in DOMAIN sends[m]
               PROVE  sends'[m][r] <= 1 + MaxRetransmits
    OBVIOUS
  <2>1. CASE m = n /\ r = s
    <3>1. sends'[m][r] \in Nat /\ pending[n][s].count \in Nat
      BY <1>0, <1>3, <1>4, <2>1, SMTT(30) DEF TypeOK, PendingType
    <3>2. sends'[m][r] <= 1 + pending[n][s].count /\ pending[n][s].count <= MaxRetransmits
      BY <1>3, <1>7, <2>1
    <3> QED BY <3>1, <3>2, PubSubAssumption, SMTT(30)
  <2>2. CASE ~(m = n /\ r = s)
    BY <1>4, <2>2 DEF PInv, RetransmitBound
  <2> QED BY <2>1, <2>2
<1>9. \A m \in Nodes : resend'[m] \subseteq DOMAIN pending[m]
  BY <1>0, <1>6 DEF TypeOK
<1>10. pending = [m \in Nodes |-> pending[m]] /\ clock \in [Nodes -> Nat]
       /\ mode \in [Nodes -> {"calls", "check", "recv"}]
  BY <1>0 DEF PInv, TypeOK
<1> QED BY <1>2, <1>4, <1>5, <1>6, <1>7, <1>8, <1>9, <1>10, RepeatStep

\* Answering the first frame of the buffer with frames that say the truth.
LEMMA AnswerReal ==
  ASSUME PInv, NEW n \in Nodes, inbox[n] # <<>>, NEW fs \in Seq(Real), Answer(n, fs)
  PROVE  inbox' \in [Nodes -> Seq(Real)] /\ Head(inbox[n]) \in Real
<1>1. inbox[n] \in Seq(Real) /\ \A m \in Nodes : inbox[m] \in Seq(Real)
  BY DEF PInv
<1>2. Tail(inbox[n]) \in Seq(Real) /\ Head(inbox[n]) \in Real
  BY <1>1, SMTT(30)
<1>3. \A m \in Nodes : (IF m = n THEN Tail(inbox[m]) ELSE inbox[m]) \o fs \in Seq(Real)
  BY <1>1, <1>2, SMTT(30)
<1> QED BY <1>2, <1>3 DEF Answer

\* Nothing published, accepted, pending or sent changes: only the buffers do.
LEMMA NetworkStep ==
  ASSUME PInv, UNCHANGED <<publisher, subscriber, calls>>, faults' \in Nat,
         mode' \in [Nodes -> {"calls", "check", "recv"}],
         inbox' \in [Nodes -> Seq(Real)]
  PROVE  PInv'
<1>0. TypeOK
  BY DEF PInv
<1>1. Real' = Real
  BY DEF Real, Published, publisher
<1>2. inbox' \in [Nodes -> Seq(FrameType)]
  <2>1. Real \subseteq FrameType
    BY DEF Real
  <2> QED BY <2>1, SeqMono
<1>3. TypeOK'
  BY <1>0, <1>2 DEF TypeOK, publisher, subscriber
<1>4. (Counted /\ RetransmitBound)'
  BY DEF PInv, Counted, RetransmitBound, Published, publisher
<1>5. Ordered'
  <2>1. \A m, s, t : Published(m, s, t) => Published(m, s, t)'
    BY DEF Published, publisher
  <2>2. \A p, t : OnlyPublisher(p, t)' => OnlyPublisher(p, t)
    BY DEF OnlyPublisher, publisher
  <2> QED BY <2>1, <2>2, OrderedStable DEF subscriber
<1> QED BY <1>1, <1>3, <1>4, <1>5 DEF PInv, publisher

\* The network loses, doubles or reorders a frame.
LEMMA FaultyStep ==
  ASSUME PInv, NEW n \in Nodes, NEW i \in DOMAIN inbox[n], Faulty(n, i)
  PROVE  PInv'
<1> DEFINE q == inbox[n]
           before == SubSeq(q, 1, i - 1)
           after == SubSeq(q, i + 1, Len(q))
<1>0. TypeOK
  BY DEF PInv
<1>1. q \in Seq(Real) /\ i \in 1 .. Len(q) /\ q[i] \in Real
  BY SMTT(30) DEF PInv
<1> HIDE DEF q
<1>2. before \in Seq(Real) /\ after \in Seq(Real)
  BY <1>1, SMTT(30)
<1> HIDE DEF before, after
<1>3. after # <<>> => Head(after) \in Real /\ Tail(after) \in Seq(Real)
  BY <1>2, SMTT(30)
<1>4. PICK r \in Seq(Real) : inbox' = [inbox EXCEPT ![n] = r]
  <2>1. before \o after \in Seq(Real) /\ <<q[i], q[i]>> \in Seq(Real)
    BY <1>1, <1>2, SMTT(30)
  <2>2. before \o <<q[i], q[i]>> \o after \in Seq(Real)
    BY <1>2, <2>1, SMTT(30)
  <2>3. after # <<>> => <<Head(after), q[i]>> \in Seq(Real)
    BY <1>1, <1>3, SMTT(30)
  <2>4. after # <<>> => before \o <<Head(after), q[i]>> \o Tail(after) \in Seq(Real)
    BY <1>2, <1>3, <2>3, SMTT(30)
  <2>5. \/ inbox' = [inbox EXCEPT ![n] = before \o after]
        \/ inbox' = [inbox EXCEPT ![n] = before \o <<q[i], q[i]>> \o after]
        \/ /\ after # <<>>
           /\ inbox' = [inbox EXCEPT ![n] = before \o <<Head(after), q[i]>> \o Tail(after)]
    BY DEF Faulty, before, after, q
  <2> QED BY <2>1, <2>2, <2>4, <2>5, Zenon
<1>5. inbox' \in [Nodes -> Seq(Real)]
  BY <1>0, <1>4 DEF TypeOK, PInv
<1>6. UNCHANGED <<publisher, subscriber, mode, calls>> /\ faults' = faults + 1
  BY DEF Faulty
<1>7. faults' \in Nat
  BY <1>0, <1>6, SMTT(30) DEF TypeOK
<1>8. mode' \in [Nodes -> {"calls", "check", "recv"}]
  BY <1>0, <1>6 DEF TypeOK
<1> QED BY <1>5, <1>6, <1>7, <1>8, NetworkStep

\* A NACK is answered with a retransmission, if the frame is pending.
LEMMA NackStep ==
  ASSUME PInv, NEW n \in Nodes, inbox[n] # <<>>, resend[n] = {}, ReceiveNack(n),
         mode' = [mode EXCEPT ![n] = "check"], UNCHANGED <<calls, faults>>
  PROVE  PInv'
<1> DEFINE frame == Head(inbox[n])
           asked == {s \in DOMAIN pending[n] : /\ s = frame.seq
                                              /\ pending[n][s].topic = frame.topic}
<1>0. TypeOK
  BY DEF PInv
<1>1. /\ pending' = [pending EXCEPT ![n] = Repeat(n, asked)]
      /\ UNCHANGED <<next_seq, resend, published, subscriber>>
      /\ \/ /\ Resend(n, asked) = {}
            /\ Answer(n, <<>>)
            /\ UNCHANGED <<clock, sends>>
         \/ /\ Resend(n, asked) # {}
            /\ Answer(n, <<Data(n, frame.seq, frame.topic)>>)
            /\ clock' = [clock EXCEPT ![n] = @ + 1]
            /\ sends' = [sends EXCEPT ![n][frame.seq] = @ + 1]
  BY DEF ReceiveNack
<1>2. asked \in SUBSET DOMAIN pending[n] /\ \A s \in asked : s = frame.seq /\ pending[n][s].topic = frame.topic
  OBVIOUS
<1> HIDE DEF asked, frame
<1> DEFINE left == Repeat(n, asked)
           again == Resend(n, asked)
<1>3. /\ DOMAIN left = DOMAIN pending[n]
      /\ again \subseteq asked
      /\ \A s \in DOMAIN pending[n] :
           /\ left[s] \in PendingType
           /\ left[s].topic = pending[n][s].topic
           /\ s \in again => /\ left[s].count = pending[n][s].count + 1
                             /\ pending[n][s].count < MaxRetransmits
           /\ s \notin again => left[s].count = pending[n][s].count
  BY <1>0, <1>2, RepeatFacts
<1>4. \/ again = {} /\ Answer(n, <<>>) /\ UNCHANGED <<clock, sends>>
      \/ \E s \in again : /\ Answer(n, <<Data(n, s, pending[n][s].topic)>>)
                           /\ clock' = [clock EXCEPT ![n] = @ + 1]
                           /\ sends' = [sends EXCEPT ![n][s] = @ + 1]
                           /\ again = {s}
  <2>1. CASE Resend(n, asked) = {}
    BY <1>1, <2>1
  <2>2. CASE Resend(n, asked) # {}
    <3>1. PICK s \in again : TRUE
      BY <2>2
    <3>2. s = frame.seq /\ pending[n][s].topic = frame.topic /\ again = {s}
      BY <1>2, <1>3, <3>1, SMTT(30)
    <3>3. /\ Answer(n, <<Data(n, frame.seq, frame.topic)>>)
          /\ clock' = [clock EXCEPT ![n] = @ + 1]
          /\ sends' = [sends EXCEPT ![n][frame.seq] = @ + 1]
      BY <1>1, <2>2
    <3> QED BY <3>1, <3>2, <3>3
  <2> QED BY <2>1, <2>2
<1>5. pending' = [pending EXCEPT ![n] = left]
  BY <1>1
<1> HIDE DEF left, again
<1>6. /\ pending'[n] = left /\ \A m \in Nodes \ {n} : pending'[m] = pending[m]
      /\ pending' = [m \in Nodes |-> pending'[m]]
  BY <1>5 DEF PInv
<1>7. /\ inbox' \in [Nodes -> Seq(Real)] /\ clock' \in [Nodes -> Nat]
      /\ sends' \in [Nodes -> Seq(Nat)]
      /\ \A m \in Nodes : Len(sends'[m]) = Len(sends[m])
      /\ \A m \in Nodes : \A r \in DOMAIN sends[m] :
           sends'[m][r] = IF m = n /\ r \in again THEN sends[m][r] + 1 ELSE sends[m][r]
  <2>1. CASE again = {} /\ Answer(n, <<>>) /\ UNCHANGED <<clock, sends>>
    <3>a. <<>> \in Seq(Real)
      BY SMTT(30)
    <3>1. inbox' \in [Nodes -> Seq(Real)]
      BY <2>1, <3>a, AnswerReal, ZenonT(40), Zenon
    <3> QED BY <1>0, <2>1, <3>1 DEF TypeOK
  <2>2. CASE \E s \in again : /\ Answer(n, <<Data(n, s, pending[n][s].topic)>>)
                             /\ clock' = [clock EXCEPT ![n] = @ + 1]
                             /\ sends' = [sends EXCEPT ![n][s] = @ + 1]
                             /\ again = {s}
    <3>1. PICK s \in again : /\ Answer(n, <<Data(n, s, pending[n][s].topic)>>)
                            /\ clock' = [clock EXCEPT ![n] = @ + 1]
                            /\ sends' = [sends EXCEPT ![n][s] = @ + 1]
                            /\ again = {s}
      BY <2>2
    <3>2. s \in DOMAIN pending[n]
      BY <1>2, <1>3
    <3> DEFINE f == Data(n, s, pending[n][s].topic)
    <3>3. /\ sends' \in [Nodes -> Seq(Nat)]
          /\ \A m \in Nodes : Len(sends'[m]) = Len(sends[m])
          /\ \A m \in Nodes : \A r \in DOMAIN sends[m] :
               sends'[m][r] = IF m = n /\ r = s THEN sends[m][r] + 1 ELSE sends[m][r]
          /\ f \in Real
      BY <3>1, <3>2, SendAgain
    <3>4. Answer(n, <<f>>)
      BY <3>1
    <3> HIDE DEF f
    <3>5. <<f>> \in Seq(Real)
      BY <3>3, SMTT(30)
    <3>6. inbox' \in [Nodes -> Seq(Real)]
      BY <3>4, <3>5, AnswerReal
    <3>7. clock' \in [Nodes -> Nat]
      BY <1>0, <3>1, SMTT(30) DEF TypeOK
    <3> QED BY <3>1, <3>3, <3>6, <3>7
  <2> QED BY <1>4, <2>1, <2>2
<1>8. ASSUME NEW m \in Nodes, NEW s \in DOMAIN pending'[m]
      PROVE  /\ s \in DOMAIN pending[m]
             /\ pending'[m][s] \in PendingType
             /\ pending'[m][s].topic = pending[m][s].topic
             /\ pending'[m][s].count <= MaxRetransmits
             /\ sends'[m][s] <= 1 + pending'[m][s].count
             /\ s \in resend'[m] => sends'[m][s] <= pending'[m][s].count
  <2>1. s \in DOMAIN pending[m]
    BY <1>3, <1>6
  <2>2. /\ pending[m][s] \in PendingType /\ pending[m][s].count \in Nat
        /\ pending[m][s].count <= MaxRetransmits
        /\ sends[m][s] <= 1 + pending[m][s].count
        /\ s \in resend[m] => sends[m][s] <= pending[m][s].count
    BY <1>0, <2>1 DEF PInv, Counted, TypeOK, PendingType
  <2>3. s \in DOMAIN sends[m] /\ sends[m][s] \in Nat
    <3>1. DOMAIN pending[m] \subseteq DOMAIN sends[m] /\ sends[m] \in Seq(Nat)
      BY <1>0, SMTT(30) DEF TypeOK
    <3> QED BY <2>1, <3>1, SMTT(30)
  <2>4. CASE m # n
    BY <1>1, <1>6, <1>7, <2>1, <2>2, <2>3, <2>4
  <2>5. CASE m = n
    <3>1. s \notin resend'[m]
      BY <1>1, <2>5
    <3>2. CASE s \in again
      <4>1. sends'[m][s] = sends[m][s] + 1 /\ pending'[m][s].count = pending[m][s].count + 1
            /\ pending[m][s].count < MaxRetransmits
        BY <1>3, <1>6, <1>7, <2>1, <2>3, <2>5, <3>2
      <4>2. /\ pending'[m][s].count <= MaxRetransmits
            /\ sends'[m][s] <= 1 + pending'[m][s].count
        BY <2>2, <2>3, <4>1, PubSubAssumption, SMTT(30)
      <4> QED BY <1>3, <1>6, <2>1, <2>5, <3>1, <4>2
    <3>3. CASE s \notin again
      BY <1>3, <1>6, <1>7, <2>1, <2>2, <2>3, <2>5, <3>1, <3>3
    <3> QED BY <3>2, <3>3
  <2> QED BY <2>4, <2>5
<1>9. \A m \in Nodes : \A s \in DOMAIN sends[m] : sends'[m][s] <= 1 + MaxRetransmits
  <2> SUFFICES ASSUME NEW m \in Nodes, NEW s \in DOMAIN sends[m]
               PROVE  sends'[m][s] <= 1 + MaxRetransmits
    OBVIOUS
  <2>1. CASE m = n /\ s \in again
    <3>1. s \in DOMAIN pending'[m] /\ pending'[m][s].count \in Nat /\ sends[m][s] \in Nat
      BY <1>0, <1>2, <1>3, <1>6, <2>1, SMTT(30) DEF TypeOK, PendingType
    <3>2. /\ pending'[m][s].count <= MaxRetransmits
          /\ sends'[m][s] <= 1 + pending'[m][s].count
      BY <1>8, <3>1
    <3>3. sends'[m][s] \in Nat
      BY <1>7, <2>1, <3>1, SMTT(30)
    <3> QED BY <3>1, <3>2, <3>3, PubSubAssumption, SMTT(30)
  <2>2. CASE ~(m = n /\ s \in again)
    BY <1>7, <2>2 DEF PInv, RetransmitBound
  <2> QED BY <2>1, <2>2
<1>10. /\ resend' \in [Nodes -> SUBSET Nat]
       /\ \A m \in Nodes : resend'[m] \subseteq DOMAIN pending'[m]
  <2>1. \A m \in Nodes : DOMAIN pending'[m] = DOMAIN pending[m]
    BY <1>3, <1>6
  <2> QED BY <1>0, <1>1, <2>1 DEF TypeOK
<1>11. mode' \in [Nodes -> {"calls", "check", "recv"}]
  BY <1>0 DEF TypeOK
<1> QED BY <1>1, <1>6, <1>7, <1>8, <1>9, <1>10, <1>11, RepeatStep, SMTT(30)

Advance(e, k) == IF k = e THEN e + 1 ELSE e
Record(seen, d) == IF \E i \in DOMAIN seen : seen[i] = d THEN seen ELSE Append(seen, d)

\* The frames of publisher p with numbers 1 to e - 1.
Prefix(seen, e, p) == Len(seen) = e - 1 /\ \A i \in 1 .. e - 1 : seen[i] = <<p, i>>

\* Taking frame k of publisher p when frames 1 to e - 1 were taken.
LEMMA TakeFrame ==
  ASSUME NEW seen \in Seq(Nodes \X (Nat \ {0})), NEW e \in Nat \ {0},
         NEW k \in Nat \ {0}, k <= e, NEW p \in Nodes, Prefix(seen, e, p)
  PROVE  Prefix(Record(seen, <<p, k>>), Advance(e, k), p)
<1> DEFINE d == <<p, k>>
<1>1. DOMAIN seen = 1 .. e - 1 /\ \A i \in 1 .. e - 1 : seen[i] = <<p, i>>
  BY SMTT(30) DEF Prefix
<1>2. CASE k = e
  <2>1. \A i \in DOMAIN seen : seen[i] = <<p, i>> /\ i # k
    BY <1>1, <1>2, SMTT(30)
  <2>2. \A i \in DOMAIN seen : seen[i] # d
    BY <2>1, SMTT(30)
  <2>3. Record(seen, d) = Append(seen, d) /\ Advance(e, k) = e + 1
    BY <1>2, <2>2 DEF Advance, Record
  <2>4. d \in Nodes \X (Nat \ {0}) /\ d = <<p, k>>
    OBVIOUS
  <2> HIDE DEF d
  <2>6. Len(Append(seen, d)) = e /\ Append(seen, d)[e] = d
        /\ \A i \in 1 .. e - 1 : Append(seen, d)[i] = seen[i]
    BY <2>4, SMTT(30) DEF Prefix
  <2>7. (e + 1) - 1 = e /\ \A i \in 1 .. e : i \in 1 .. e - 1 \/ i = e
    BY SMTT(30)
  <2>8. Prefix(Append(seen, d), e + 1, p)
    BY <1>1, <1>2, <2>4, <2>6, <2>7 DEF Prefix
  <2> QED BY <2>3, <2>4, <2>8, Zenon
<1>3. CASE k # e
  <2>1. k \in 1 .. e - 1
    BY <1>3, SMTT(30)
  <2>2. \E i \in DOMAIN seen : seen[i] = d
    BY <1>1, <2>1
  <2>3. Record(seen, d) = seen /\ Advance(e, k) = e
    BY <1>3, <2>2 DEF Advance, Record
  <2> QED BY <2>3
<1> QED BY <1>2, <1>3

\* A frame that is not ahead is delivered, and accepted when it is new.
LEMMA AcceptStep ==
  ASSUME PInv, NEW n \in Nodes, NEW frame \in Real, frame.type = "Data",
         frame.topic \in Topics, ~Ahead(n, frame),
         CheckSeqNum(n, frame), HandleData(n, frame),
         UNCHANGED <<publisher, next_id, calls, faults>>,
         inbox' \in [Nodes -> Seq(Real)],
         mode' = [mode EXCEPT ![n] = "check"]
  PROVE  PInv'
<1> DEFINE t == frame.topic
           e == expected[n][t]
           seen == accepted[n][t]
           d == <<frame.from, frame.seq>>
<1>0. TypeOK
  BY DEF PInv
<1>1. /\ frame.from \in Nodes /\ frame.seq \in Nat \ {0} /\ Published(frame.from, frame.seq, t)
      /\ t \in Topics /\ e \in Nat \ {0} /\ frame.seq <= e
      /\ seen \in Seq(Nodes \X (Nat \ {0})) /\ d \in Nodes \X (Nat \ {0})
  <2>1. frame.from \in Nodes /\ frame.seq \in Nat \ {0} /\ Published(frame.from, frame.seq, t)
    BY DEF Real, FrameType
  <2>2. e \in Nat \ {0} /\ seen \in Seq(Nodes \X (Nat \ {0}))
    BY <1>0, SMTT(30) DEF TypeOK
  <2>3. frame.seq <= e
    BY <2>1, <2>2, SMTT(30) DEF Ahead
  <2>4. d \in Nodes \X (Nat \ {0})
    BY <2>1
  <2> QED BY <2>1, <2>2, <2>3, <2>4
<1> DEFINE e2 == IF frame.seq = e THEN e + 1 ELSE e
           seen2 == IF \E i \in DOMAIN seen : seen[i] = d THEN seen ELSE Append(seen, d)
<1>2. expected' = [expected EXCEPT ![n][t] = e2] /\ accepted' = [accepted EXCEPT ![n][t] = seen2]
  <2>1. /\ expected' = [expected EXCEPT ![n][t] = IF frame.seq = @ THEN @ + 1 ELSE @]
        /\ accepted' = [accepted EXCEPT ![n][t] =
                          IF \E i \in DOMAIN seen : seen[i] = d THEN seen ELSE Append(seen, d)]
    BY DEF CheckSeqNum, HandleData
  <2>2. expected \in [Nodes -> [Topics -> Nat \ {0}]]
    BY <1>0 DEF TypeOK
  <2>3. expected' = [expected EXCEPT ![n][t] = e2]
    BY <1>1, <2>1, <2>2
  <2> QED BY <2>1, <2>3, Zenon
<1>3. e2 \in Nat \ {0} /\ seen2 \in Seq(Nodes \X (Nat \ {0}))
  BY <1>1, SMTT(30)
<1>4. /\ expected'[n][t] = e2 /\ accepted'[n][t] = seen2
      /\ \A m \in Nodes, u \in Topics : ~(m = n /\ u = t) =>
           expected'[m][u] = expected[m][u] /\ accepted'[m][u] = accepted[m][u]
  BY <1>0, <1>1, <1>2 DEF TypeOK
<1>5. ASSUME NEW p \in Nodes, OnlyPublisher(p, t)
      PROVE  /\ Len(seen2) = e2 - 1
             /\ \A i \in 1 .. e2 - 1 : seen2[i] = <<p, i>> /\ Published(p, i, t)
  <2>1. Len(seen) = e - 1 /\ \A i \in 1 .. e - 1 : seen[i] = <<p, i>> /\ Published(p, i, t)
    BY <1>1, <1>5 DEF PInv, Ordered
  <2>2. frame.from = p
    BY <1>1, <1>5 DEF OnlyPublisher, Published
  <2>3. e2 = Advance(e, frame.seq) /\ seen2 = Record(seen, <<p, frame.seq>>)
    BY <2>2 DEF Advance, Record
  <2>4. /\ seen \in Seq(Nodes \X (Nat \ {0})) /\ <<p, frame.seq>> \in Nodes \X (Nat \ {0})
        /\ e \in Nat \ {0} /\ frame.seq \in Nat \ {0} /\ frame.seq <= e
        /\ Published(p, frame.seq, t)
    BY <1>1, <2>2
  <2> HIDE DEF e, seen, e2, seen2, d, t
  <2>5. Prefix(seen, e, p)
    BY <2>1 DEF Prefix
  <2>6. Prefix(seen2, e2, p)
    BY <2>3, <2>4, <2>5, TakeFrame
  <2>7. \A i \in 1 .. e2 - 1 : i \in 1 .. e - 1 \/ i = frame.seq
    BY <2>3, <2>4, SMTT(30) DEF Advance
  <2> QED BY <2>1, <2>4, <2>6, <2>7 DEF Prefix
<1> HIDE DEF e, seen, e2, seen2, d, t
<1>6. Ordered'
  <2>1. \A p, u : OnlyPublisher(p, u)' => OnlyPublisher(p, u)
    BY DEF OnlyPublisher, publisher
  <2>2. \A p, i, u : Published(p, i, u) => Published(p, i, u)'
    BY DEF Published, publisher
  <2> SUFFICES ASSUME NEW m \in Nodes, NEW p \in Nodes, NEW u \in Topics, OnlyPublisher(p, u)
               PROVE  /\ Len(accepted'[m][u]) = expected'[m][u] - 1
                      /\ \A i \in 1 .. expected'[m][u] - 1 :
                           accepted'[m][u][i] = <<p, i>> /\ Published(p, i, u)'
    BY <2>1 DEF Ordered
  <2>3. CASE m = n /\ u = t
    BY <1>4, <1>5, <2>2, <2>3
  <2>4. CASE ~(m = n /\ u = t)
    <3>1. /\ Len(accepted[m][u]) = expected[m][u] - 1
          /\ \A i \in 1 .. expected[m][u] - 1 : accepted[m][u][i] = <<p, i>> /\ Published(p, i, u)
      BY DEF PInv, Ordered
    <3>2. expected'[m][u] = expected[m][u] /\ accepted'[m][u] = accepted[m][u]
      BY <1>4, <2>4
    <3> QED BY <2>2, <3>1, <3>2
  <2> QED BY <2>3, <2>4
<1>7. /\ expected' \in [Nodes -> [Topics -> Nat \ {0}]]
      /\ accepted' \in [Nodes -> [Topics -> Seq(Nodes \X (Nat \ {0}))]]
  BY <1>0, <1>1, <1>2, <1>3 DEF TypeOK
<1>8. /\ subs' \in [Nodes -> [AllTopics -> [1 .. MaxSubs -> Nat]]]
      /\ ended' \in [Nodes -> SUBSET Nat]
  <2>1. /\ subs \in [Nodes -> [AllTopics -> [1 .. MaxSubs -> Nat]]]
        /\ \A S : Without(n, S) \in [AllTopics -> [1 .. MaxSubs -> Nat]]
        /\ \A u \in AllTopics : \A id \in Ids(n, u) : id \in Nat
    BY <1>0, ListTypes
  <2>4. PICK stop : /\ stop \subseteq Ids(n, frame.topic) \cup Ids(n, Wildcard)
                    /\ subs' = [subs EXCEPT ![n] = Without(n, stop)]
                    /\ ended' = [ended EXCEPT ![n] = @ \cup stop]
    BY DEF HandleData
  <2>5. stop \subseteq Nat
    BY <2>1, <2>4 DEF AllTopics
  <2> QED BY <1>0, <2>1, <2>4, <2>5, Zenon DEF TypeOK
<1>9. Real' = Real
  BY DEF Real, Published, publisher
<1>10. inbox' \in [Nodes -> Seq(FrameType)]
  <2>1. Real \subseteq FrameType
    BY DEF Real
  <2> QED BY <2>1, SeqMono
<1>11. mode' \in [Nodes -> {"calls", "check", "recv"}]
  BY <1>0 DEF TypeOK
<1>12. TypeOK'
  BY <1>0, <1>7, <1>8, <1>10, <1>11 DEF TypeOK, publisher, AllTopics
<1>13. (Counted /\ RetransmitBound)'
  BY DEF PInv, Counted, RetransmitBound, Published, publisher
<1> QED BY <1>6, <1>9, <1>12, <1>13 DEF PInv, publisher

\* A frame is taken from the socket and handled.
LEMMA ReceiveStep ==
  ASSUME PInv, NEW n \in Nodes, Receive(n)
  PROVE  PInv'
<1> DEFINE frame == Head(inbox[n])
<1>0. TypeOK
  BY DEF PInv
<1>1. /\ inbox[n] # <<>> /\ resend[n] = {} /\ UNCHANGED <<calls, faults>>
      /\ mode' = [mode EXCEPT ![n] = "check"]
  BY DEF Receive
<1>2. mode' \in [Nodes -> {"calls", "check", "recv"}]
  BY <1>0, <1>1 DEF TypeOK
<1>3. faults' \in Nat
  BY <1>0, <1>1 DEF TypeOK
<1>4. <<>> \in Seq(Real)
  BY SMTT(30)
<1>5. CASE ReceiveNack(n)
  BY <1>1, <1>5, NackStep
<1>6. CASE ReceiveUnknown(n)
  <2>1. inbox' \in [Nodes -> Seq(Real)]
    BY <1>1, <1>4, <1>6, AnswerReal DEF ReceiveUnknown
  <2> QED BY <1>1, <1>2, <1>3, <1>6, <2>1, NetworkStep DEF ReceiveUnknown
<1>7. CASE ReceiveData(n)
  <2>1. frame.type = "Data" /\ frame.topic \in Topics /\ UNCHANGED publisher
    BY <1>7 DEF ReceiveData
  <2>2. CASE /\ Answer(n, <<Nack(n, expected[n][frame.topic], frame.topic)>>)
             /\ UNCHANGED subscriber
    <3>1. Nack(n, expected[n][frame.topic], frame.topic) \in Real
      <4>1. expected[n][frame.topic] \in Nat \ {0}
        BY <1>0, <2>1, SMTT(30) DEF TypeOK
      <4> HIDE DEF frame
      <4> QED BY <2>1, <4>1 DEF Nack, Real, FrameType
    <3>2. <<Nack(n, expected[n][frame.topic], frame.topic)>> \in Seq(Real)
      BY <3>1, SMTT(30)
    <3>3. inbox' \in [Nodes -> Seq(Real)]
      BY <1>1, <2>2, <3>2, AnswerReal
    <3> QED BY <1>1, <1>2, <1>3, <2>1, <2>2, <3>3, NetworkStep
  <2>3. CASE /\ ~Ahead(n, frame) /\ CheckSeqNum(n, frame) /\ HandleData(n, frame)
             /\ Answer(n, <<>>) /\ UNCHANGED next_id
    <3>1. inbox' \in [Nodes -> Seq(Real)] /\ frame \in Real
      BY <1>1, <1>4, <2>3, AnswerReal
    <3> HIDE DEF frame
    <3> QED BY <1>1, <2>1, <2>3, <3>1, AcceptStep, Zenon
  <2> QED BY <1>7, <2>2, <2>3 DEF ReceiveData
<1> QED BY <1>5, <1>6, <1>7 DEF Receive

\* The invariant holds in every reachable state.
THEOREM PubSubInvariant == Spec => []PInv
<1>1. PInv /\ [Next]_vars => PInv'
  <2> SUFFICES ASSUME PInv, [Next]_vars PROVE PInv'
    OBVIOUS
  <2>1. CASE UNCHANGED vars
    <3>1. TypeOK'
      BY <2>1 DEF PInv, TypeOK, vars, publisher, subscriber
    <3>2. mode' \in [Nodes -> {"calls", "check", "recv"}] /\ faults' \in Nat
      BY <3>1 DEF TypeOK
    <3>3. inbox' \in [Nodes -> Seq(Real)]
      BY <2>1 DEF PInv, TypeOK, vars
    <3> QED BY <2>1, <3>2, <3>3, NetworkStep DEF vars
  <2>2. CASE Next
    BY <2>2, CallsStep, PublishStep, CheckTimeoutsStep, SendNextStep, ReceiveStep, FaultyStep
       DEF Next, AllTopics
  <2> QED BY <2>1, <2>2
<1> QED BY <1>1, PInit, PTL DEF Spec

\* The fields of every PubSub instance keep their types.
THEOREM PubSubTypes == Spec => []TypeOK
<1>1. PInv => TypeOK
  BY DEF PInv
<1> QED BY <1>1, PubSubInvariant, PTL

\* A topic with one publisher is accepted from its first message on, in order
\* and without a gap, whatever happens to the frames on the way (check_seq_num).
THEOREM PubSubInOrder == Spec => []AcceptedInOrder
<1>1. PInv => AcceptedInOrder
  <2> SUFFICES ASSUME PInv, NEW p \in Nodes, NEW n \in Nodes, NEW t \in Topics,
                      OnlyPublisher(p, t), NEW i \in DOMAIN accepted[n][t]
               PROVE  /\ accepted[n][t][i] = <<p, i>>
                      /\ i \in DOMAIN published[p] /\ published[p][i] = t
    BY DEF AcceptedInOrder
  <2>1. Len(accepted[n][t]) = expected[n][t] - 1
    BY DEF PInv, Ordered
  <2>2. i \in 1 .. expected[n][t] - 1
    <3>1. accepted[n][t] \in Seq(Nodes \X (Nat \ {0}))
      <4>1. TypeOK
        BY DEF PInv
      <4>2. accepted \in [Nodes -> [Topics -> Seq(Nodes \X (Nat \ {0}))]]
        BY <4>1 DEF TypeOK
      <4> QED BY <4>2
    <3>2. DOMAIN accepted[n][t] = 1 .. Len(accepted[n][t])
      BY <3>1, SMTT(30)
    <3> QED BY <2>1, <3>2
  <2> QED BY <2>2, SMTT(30) DEF PInv, Ordered, Published
<1> QED BY <1>1, PubSubInvariant, PTL

\* No frame is sent more than max_retransmits times again, however the NACKs and
\* the timeouts interleave.
THEOREM PubSubRetransmits == Spec => []RetransmitBound
<1>1. PInv => RetransmitBound
  BY DEF PInv
<1> QED BY <1>1, PubSubInvariant, PTL

-----------------------------------------------------------------------------
(* The lists of subscriptions of a node, L, with k the next id and E the     *)
(* subscriptions that ended.                                                 *)

ListsType == [AllTopics -> [1 .. MaxSubs -> Nat]]

SubsOK(L, k, E) ==
  /\ E \subseteq 1 .. k - 1
  /\ \A t \in AllTopics, i \in 1 .. MaxSubs : L[t][i] < k
  /\ \A id \in 1 .. k - 1 :
       id \in E <=> \A t \in AllTopics, i \in 1 .. MaxSubs : L[t][i] # id
  /\ \A t, u \in AllTopics, i, j \in 1 .. MaxSubs :
       L[t][i] = L[u][j] /\ (t # u \/ i # j) => L[t][i] = 0

SInv == \A n \in Nodes : SubsOK(subs[n], next_id[n], ended[n])

\* subscribe puts the next id into a free position.
LEMMA SubscribeKeeps ==
  ASSUME NEW L \in ListsType, NEW N \in ListsType, NEW k \in Nat \ {0}, NEW E,
         SubsOK(L, k, E), NEW t \in AllTopics, NEW i \in 1 .. MaxSubs,
         L[t][i] = 0, N[t][i] = k,
         \A u \in AllTopics, j \in 1 .. MaxSubs :
           u # t \/ j # i => N[u][j] = L[u][j]
  PROVE  SubsOK(N, k + 1, E)
<1>1. \A u \in AllTopics, j \in 1 .. MaxSubs : L[u][j] \in Nat /\ N[u][j] \in Nat
  BY DEF ListsType
<1>2. E \subseteq 1 .. (k + 1) - 1 /\ k \notin E
  BY SMTT(30) DEF SubsOK
<1>3. \A u \in AllTopics, j \in 1 .. MaxSubs : N[u][j] < k + 1
  BY <1>1, SMTT(30) DEF SubsOK
<1>4. ASSUME NEW id \in 1 .. (k + 1) - 1
      PROVE  id \in E <=> \A u \in AllTopics, j \in 1 .. MaxSubs : N[u][j] # id
  <2>1. CASE id = k
    BY <1>2, <2>1
  <2>2. CASE id # k
    <3>1. id \in 1 .. k - 1 /\ id # 0
      BY <2>2, SMTT(30)
    <3>2. \A u \in AllTopics, j \in 1 .. MaxSubs : N[u][j] = id <=> L[u][j] = id
      BY <2>2, <3>1
    <3>3. QED
      BY <3>1, <3>2, SMTT(30) DEF SubsOK
  <2>3. QED
    BY <2>1, <2>2
<1>5. ASSUME NEW u \in AllTopics, NEW v \in AllTopics,
             NEW a \in 1 .. MaxSubs, NEW b \in 1 .. MaxSubs,
             N[u][a] = N[v][b], u # v \/ a # b
      PROVE  N[u][a] = 0
  <2>1. \A w \in AllTopics, j \in 1 .. MaxSubs : L[w][j] # k
    BY <1>1, SMTT(30) DEF SubsOK
  <2>2. ~(u = t /\ a = i) /\ ~(v = t /\ b = i)
    BY <1>5, <2>1, SMTT(30)
  <2>3. QED
    BY <1>5, <2>2, SMTT(30) DEF SubsOK
<1>6. QED
  BY <1>2, <1>3, <1>4, <1>5, SMTT(30) DEF SubsOK

\* subscribe without a free position uses up the id.
LEMMA FullKeeps ==
  ASSUME NEW L \in ListsType, NEW k \in Nat \ {0}, NEW E, SubsOK(L, k, E)
  PROVE  SubsOK(L, k + 1, E \cup {k})
<1>1. \A u \in AllTopics, j \in 1 .. MaxSubs : L[u][j] \in Nat
  BY DEF ListsType
<1>2. \A u \in AllTopics, j \in 1 .. MaxSubs : L[u][j] < k
  BY DEF SubsOK
<1>3. \A u \in AllTopics, j \in 1 .. MaxSubs : L[u][j] < k + 1 /\ L[u][j] # k
  BY <1>1, <1>2, SMTT(30)
<1>4. 1 .. (k + 1) - 1 = (1 .. k - 1) \cup {k} /\ k \notin 1 .. k - 1
  BY SMTT(30)
<1>5. E \cup {k} \subseteq 1 .. (k + 1) - 1
  BY <1>4 DEF SubsOK
<1>6. ASSUME NEW id \in 1 .. (k + 1) - 1
      PROVE  id \in E \cup {k} <=>
               \A t \in AllTopics, i \in 1 .. MaxSubs : L[t][i] # id
  <2>1. CASE id = k
    BY <1>3, <2>1
  <2>2. CASE id # k
    BY <1>4, <2>2 DEF SubsOK
  <2>3. QED
    BY <2>1, <2>2
<1>7. QED
  BY <1>3, <1>5, <1>6 DEF SubsOK

\* Subscriptions in S end: by unsubscribe, or by their callbacks.
LEMMA WithoutKeeps ==
  ASSUME NEW L \in ListsType, NEW N \in ListsType, NEW k \in Nat \ {0}, NEW E,
         SubsOK(L, k, E), NEW S,
         \A id \in S : /\ id # 0
                       /\ \E t \in AllTopics, i \in 1 .. MaxSubs : L[t][i] = id,
         \A t \in AllTopics, i \in 1 .. MaxSubs :
           N[t][i] = IF L[t][i] \in S THEN 0 ELSE L[t][i]
  PROVE  SubsOK(N, k, E \cup S)
<1>0. \A u \in AllTopics, j \in 1 .. MaxSubs : L[u][j] \in Nat
  BY DEF ListsType
<1>1. \A u \in AllTopics, j \in 1 .. MaxSubs : L[u][j] \in Nat /\ L[u][j] < k
  BY <1>0 DEF SubsOK
<1>2. S \subseteq 1 .. k - 1
  BY <1>1, SMTT(30)
<1>3. E \cup S \subseteq 1 .. k - 1
  BY <1>2 DEF SubsOK
<1>4. \A t \in AllTopics, i \in 1 .. MaxSubs : N[t][i] < k
  BY <1>1, SMTT(30)
<1>5. ASSUME NEW id \in 1 .. k - 1
      PROVE  id \in E \cup S <=>
               \A t \in AllTopics, i \in 1 .. MaxSubs : N[t][i] # id
  <2>1. id # 0
    BY SMTT(30)
  <2>2. CASE id \in S
    BY <2>1, <2>2, SMTT(30)
  <2>3. CASE id \notin S
    <3>1. \A t \in AllTopics, i \in 1 .. MaxSubs : N[t][i] = id <=> L[t][i] = id
      BY <2>1, <2>3, SMTT(30)
    <3>2. QED
      BY <2>3, <3>1, SMTT(30) DEF SubsOK
  <2>4. QED
    BY <2>2, <2>3
<1>6. \A t, u \in AllTopics, i, j \in 1 .. MaxSubs :
         N[t][i] = N[u][j] /\ (t # u \/ i # j) => N[t][i] = 0
  BY SMTT(30) DEF SubsOK
<1>7. QED
  BY <1>3, <1>4, <1>5, <1>6 DEF SubsOK

\* A step of node n that keeps its own lists right keeps all of them right.
LEMMA OneNode ==
  ASSUME TypeOK, SInv, NEW n \in Nodes, NEW L, NEW k, NEW E,
         subs' = [subs EXCEPT ![n] = L], next_id' = [next_id EXCEPT ![n] = k],
         ended' = [ended EXCEPT ![n] = E], SubsOK(L, k, E)
  PROVE  SInv'
<1>1. /\ subs \in [Nodes -> [Topics \cup {Wildcard} -> [1 .. MaxSubs -> Nat]]]
      /\ next_id \in [Nodes -> Nat \ {0}] /\ ended \in [Nodes -> SUBSET Nat]
  BY DEF TypeOK
<1>2. ASSUME NEW m \in Nodes PROVE SubsOK(subs'[m], next_id'[m], ended'[m])
  <2>1. CASE m = n
    BY <1>1, <2>1
  <2>2. CASE m # n
    BY <1>1, <2>2 DEF SInv
  <2>3. QED
    BY <2>1, <2>2
<1>3. QED
  BY <1>2 DEF SInv

\* A set of numbers has a least element.
LEMMA LeastNat ==
  ASSUME NEW P \in SUBSET Nat, P # {}
  PROVE  \E x \in P : \A y \in P : x <= y
<1> DEFINE Less == OpToRel(<, Nat)
<1>1. IsWellFoundedOn(Less, Nat)
  BY NatLessThanWellFounded
<1> HIDE DEF Less
<1>2. PICK x \in P : \A y \in P : ~(<<y, x>> \in Less)
  BY <1>1, WFMin
<1>3. ASSUME NEW y \in P PROVE x <= y
  <2>1. SUFFICES ASSUME y < x PROVE FALSE
    BY SMTT(30)
  <2>2. <<y, x>> \in Nat \X Nat /\ <<y, x>>[1] < <<y, x>>[2]
    BY <2>1
  <2>3. <<y, x>> \in Less
    BY <2>2 DEF Less, OpToRel
  <2>4. QED
    BY <1>2, <2>3
<1>4. QED
  BY <1>3

\* subscribe.
LEMMA SubscribeStep ==
  ASSUME TypeOK, SInv, NEW n \in Nodes, NEW t \in AllTopics, Subscribe(n, t)
  PROVE  SInv'
<1> DEFINE L == subs[n]
           k == next_id[n]
           none == {i \in 1 .. MaxSubs : subs[n][t][i] = 0}
           index == CHOOSE i \in none : \A j \in none : i <= j
<1>1. /\ subs \in [Nodes -> ListsType] /\ next_id \in [Nodes -> Nat \ {0}]
      /\ ended \in [Nodes -> SUBSET Nat]
  BY DEF TypeOK, ListsType, AllTopics
<1>2. L \in ListsType /\ k \in Nat \ {0} /\ SubsOK(L, k, ended[n])
  BY <1>1 DEF SInv
<1>3. next_id' = [next_id EXCEPT ![n] = k + 1]
  BY DEF Subscribe
<1>4. CASE none # {} /\ subs' = [subs EXCEPT ![n][t][index] = k] /\ ended' = ended
  <2>1. none \in SUBSET Nat /\ none # {}
    BY <1>4, SMTT(30)
  <2>2. \E i \in none : \A j \in none : i <= j
    <3> HIDE DEF none
    <3>1. QED
      BY <2>1, LeastNat
  <2>3. index \in none
    BY <2>2
  <2>4. index \in 1 .. MaxSubs /\ L[t][index] = 0
    BY <2>3
  <2> HIDE DEF index, none
  <2> DEFINE N == [L EXCEPT ![t][index] = k]
  <2>5. /\ N \in ListsType /\ N[t][index] = k
        /\ \A u \in AllTopics, j \in 1 .. MaxSubs :
             u # t \/ j # index => N[u][j] = L[u][j]
    BY <1>2, <2>4 DEF ListsType
  <2>7. subs' = [subs EXCEPT ![n] = N]
    BY <1>1, <1>4
  <2>6. SubsOK(N, k + 1, ended[n])
    <3> HIDE DEF N, L, k
    <3>1. QED
      BY <1>2, <2>4, <2>5, SubscribeKeeps, SMTT(30)
  <2>8. ended' = [ended EXCEPT ![n] = ended[n]]
    BY <1>1, <1>4
  <2> HIDE DEF N
  <2>9. QED
    BY <1>3, <2>6, <2>7, <2>8, OneNode
<1>5. CASE subs' = subs /\ ended' = [ended EXCEPT ![n] = @ \cup {k}]
  <2>1. SubsOK(L, k + 1, ended[n] \cup {k})
    BY <1>2, FullKeeps
  <2>2. subs' = [subs EXCEPT ![n] = L]
    BY <1>1, <1>5
  <2>3. QED
    BY <1>3, <1>5, <2>1, <2>2, OneNode
<1>6. QED
  BY <1>4, <1>5 DEF Subscribe

\* Subscriptions of node n end.
LEMMA EndStep ==
  ASSUME TypeOK, SInv, NEW n \in Nodes, NEW S,
         \A id \in S : \E t \in AllTopics : id \in Ids(n, t),
         subs' = [subs EXCEPT ![n] = Without(n, S)],
         ended' = [ended EXCEPT ![n] = @ \cup S], next_id' = next_id
  PROVE  SInv'
<1> DEFINE L == subs[n]
           N == Without(n, S)
<1>1. /\ subs \in [Nodes -> ListsType] /\ next_id \in [Nodes -> Nat \ {0}]
      /\ ended \in [Nodes -> SUBSET Nat]
  BY DEF TypeOK, ListsType, AllTopics
<1>2. L \in ListsType /\ SubsOK(L, next_id[n], ended[n])
  BY <1>1 DEF SInv
<1>3. /\ N \in ListsType
      /\ \A t \in AllTopics, i \in 1 .. MaxSubs :
           N[t][i] = IF L[t][i] \in S THEN 0 ELSE L[t][i]
  BY <1>2 DEF Without, ListsType, AllTopics
<1>4. \A id \in S : /\ id # 0
                    /\ \E t \in AllTopics, i \in 1 .. MaxSubs : L[t][i] = id
  BY DEF Ids
<1>5. SubsOK(N, next_id[n], ended[n] \cup S)
  <2> HIDE DEF L, N
  <2>1. next_id[n] \in Nat \ {0}
    BY <1>1
  <2>2. QED
    BY <1>2, <1>3, <1>4, <2>1, WithoutKeeps
<1>6. next_id' = [next_id EXCEPT ![n] = next_id[n]]
  BY <1>1
<1>7. QED
  BY <1>5, <1>6, OneNode

\* Nobody is subscribed before any call.
LEMMA SInit == Init => SInv
<1> SUFFICES ASSUME Init, NEW n \in Nodes
             PROVE  SubsOK(subs[n], next_id[n], ended[n])
  BY DEF SInv
<1>1. next_id[n] = 1 /\ ended[n] = {}
  BY DEF Init
<1>2. \A t \in AllTopics, i \in 1 .. MaxSubs : subs[n][t][i] = 0
  BY DEF Init, AllTopics
<1>3. QED
  BY <1>1, <1>2, SMTT(30) DEF SubsOK

\* Every step keeps the ids of the subscriptions apart.
LEMMA SNext == TypeOK /\ SInv /\ [Next]_vars => SInv'
<1> SUFFICES ASSUME TypeOK, SInv, [Next]_vars PROVE SInv'
  OBVIOUS
<1>1. CASE UNCHANGED <<subs, next_id, ended>>
  BY <1>1 DEF SInv
<1>2. ASSUME NEW n \in Nodes, NEW t \in AllTopics, Subscribe(n, t) PROVE SInv'
  BY <1>2, SubscribeStep
<1>3. ASSUME NEW n \in Nodes, Unsubscribe(n) PROVE SInv'
  <2>0. PICK t \in AllTopics : \E id \in Ids(n, t) :
           /\ subs' = [subs EXCEPT ![n] = Without(n, {id})]
           /\ ended' = [ended EXCEPT ![n] = @ \cup {id}]
    BY <1>3 DEF Unsubscribe, AllTopics
  <2>1. PICK id \in Ids(n, t) :
           /\ subs' = [subs EXCEPT ![n] = Without(n, {id})]
           /\ ended' = [ended EXCEPT ![n] = @ \cup {id}]
    BY <2>0
  <2>2. next_id' = next_id
    BY <1>3 DEF Unsubscribe
  <2> DEFINE S == {id}
  <2>3. /\ \A x \in S : \E u \in AllTopics : x \in Ids(n, u)
        /\ subs' = [subs EXCEPT ![n] = Without(n, S)]
        /\ ended' = [ended EXCEPT ![n] = @ \cup S]
    BY <2>1
  <2> HIDE DEF S
  <2>4. QED
    BY <2>2, <2>3, EndStep
<1>4. ASSUME NEW n \in Nodes, Receive(n) PROVE SInv'
  <2>1. CASE ReceiveUnknown(n) \/ ReceiveNack(n)
    BY <1>1, <2>1 DEF ReceiveUnknown, ReceiveNack, subscriber
  <2>2. CASE ReceiveData(n)
    <3> DEFINE frame == Head(inbox[n])
    <3>1. CASE UNCHANGED subscriber
      BY <1>1, <3>1 DEF subscriber
    <3>2. CASE HandleData(n, frame) /\ UNCHANGED next_id
      <4>1. frame.topic \in AllTopics /\ Wildcard \in AllTopics
        BY <2>2 DEF ReceiveData, AllTopics
      <4>2. PICK stop \in SUBSET (Ids(n, frame.topic) \cup Ids(n, Wildcard)) :
               /\ subs' = [subs EXCEPT ![n] = Without(n, stop)]
               /\ ended' = [ended EXCEPT ![n] = @ \cup stop]
        BY <3>2 DEF HandleData
      <4>3. \A id \in stop : \E u \in AllTopics : id \in Ids(n, u)
        BY <4>1
      <4>4. QED
        BY <3>2, <4>2, <4>3, EndStep
    <3>3. QED
      BY <2>2, <3>1, <3>2 DEF ReceiveData
  <2>3. QED
    BY <1>4, <2>1, <2>2 DEF Receive
<1>5. ASSUME NEW n \in Nodes,
             \/ \E t \in AllTopics : Publish(n, t)
             \/ PublishTooLong(n) \/ EnterLoop(n)
             \/ CheckTimeouts(n) \/ SendNext(n) \/ ReceiveFails(n)
             \/ \E i \in DOMAIN inbox[n] : Faulty(n, i)
      PROVE  SInv'
  BY <1>1, <1>5 DEF Publish, PublishTooLong, EnterLoop, CheckTimeouts,
                          SendNext, ReceiveFails, Faulty, subscriber
<1>6. CASE UNCHANGED vars
  BY <1>1, <1>6 DEF vars, subscriber
<1>7. QED
  BY <1>2, <1>3, <1>4, <1>5, <1>6 DEF Next, AllTopics

\* Every subscription is in exactly one position of the lists from subscribe
\* until unsubscribe or its callback ends it, and in none afterwards, for any
\* number of topics and positions, with frames handled between the calls.
THEOREM PubSubSubscriptions == Spec => []SubscriptionsExact
<1>1. SInv => SubscriptionsExact
  <2> SUFFICES ASSUME SInv, NEW n \in Nodes
               PROVE  /\ \A id \in 1 .. next_id[n] - 1 :
                           id \in ended[n] <=>
                             \A t \in Topics \cup {Wildcard} : id \notin Ids(n, t)
                      /\ \A t, u \in Topics \cup {Wildcard}, i, j \in 1 .. MaxSubs :
                           subs[n][t][i] = subs[n][u][j] /\ <<t, i>> # <<u, j>>
                             => subs[n][t][i] = 0
    BY DEF SubscriptionsExact
  <2>1. SubsOK(subs[n], next_id[n], ended[n])
    BY DEF SInv
  <2>2. ASSUME NEW id \in 1 .. next_id[n] - 1
        PROVE  id \in ended[n] <=>
                 \A t \in Topics \cup {Wildcard} : id \notin Ids(n, t)
    <3>1. id # 0
      BY SMTT(30)
    <3>2. QED
      BY <2>1, <3>1, SMTT(30) DEF SubsOK, Ids, AllTopics
  <2>3. \A t, u \in Topics \cup {Wildcard}, i, j \in 1 .. MaxSubs :
           subs[n][t][i] = subs[n][u][j] /\ <<t, i>> # <<u, j>>
             => subs[n][t][i] = 0
    BY <2>1, SMTT(30) DEF SubsOK, AllTopics
  <2>4. QED
    BY <2>2, <2>3
<1>2. QED
  BY <1>1, SInit, SNext, PubSubTypes, PTL DEF Spec

(***************************************************************************)
(* Loops as recursive functions                                            *)
(***************************************************************************)
\* A set of naturals has a least element.
LEMMA LeastNumber ==
  ASSUME NEW T, T \subseteq Nat, T # {}
  PROVE  \E m \in T : \A k \in T : m <= k
<1> DEFINE R == OpToRel(<, Nat)
<1>1. \A x, y \in Nat : x < y => <<x, y>> \in R
  BY DEF OpToRel
<1>2. IsWellFoundedOn(R, Nat)
  BY NatLessThanWellFounded
<1> HIDE DEF R
<1>3. PICK m \in T : \A k \in T : ~ (<<k, m>> \in R)
  BY <1>2, WFMin
<1>4. \A k \in T : ~(k < m)
  BY <1>1, <1>3
<1>5. QED
  BY <1>4, SMTT(30)

\* Induction on the naturals, for a set in place of a predicate.
LEMMA InductiveSet ==
  ASSUME NEW P, 0 \in P, \A n \in Nat : n \in P => n + 1 \in P
  PROVE  Nat \subseteq P
<1> SUFFICES ASSUME Nat \ P # {} PROVE FALSE
  OBVIOUS
<1>1. PICK m \in Nat \ P : \A k \in Nat \ P : m <= k
  BY LeastNumber
<1>2. m - 1 \in Nat /\ m - 1 \in P
  BY <1>1, SMTT(30)
<1>3. QED
  BY <1>2, SMTT(30)

\* What is true before a loop of N rounds and kept by every round.
LEMMA LoopInduction ==
  ASSUME NEW N \in Nat, NEW P, 0 \in P,
         \A j \in 1 .. N : j - 1 \in P => j \in P
  PROVE  0 .. N \subseteq P
<1> DEFINE Q == {n \in Nat : n <= N => n \in P}
<1>1. 0 \in Q
  OBVIOUS
<1>2. ASSUME NEW n \in Nat, n \in Q PROVE n + 1 \in Q
  <2> SUFFICES ASSUME n + 1 <= N PROVE n + 1 \in P
    BY SMTT(30)
  <2>1. n + 1 \in 1 .. N /\ (n + 1) - 1 = n /\ n \in P
    BY <1>2, SMTT(30)
  <2>2. QED
    BY <2>1
<1> HIDE DEF Q
<1>3. Nat \subseteq Q
  BY <1>1, <1>2, InductiveSet
<1>4. QED
  BY <1>3, SMTT(30) DEF Q

\* A loop of N rounds from a, round j being the function g[j] on X.
Rounds(X, N) == [1 .. N -> [X -> X]]

IsLoop(f, X, N, a, g) ==
  /\ f \in [0 .. N -> X] /\ f[0] = a
  /\ \A j \in 1 .. N : f[j] = g[j][f[j - 1]]

\* The loop exists: its rounds are done one after the other.
LEMMA Loop ==
  ASSUME NEW X, NEW N \in Nat, NEW a \in X, NEW g \in Rounds(X, N)
  PROVE  \E f : IsLoop(f, X, N, a, g)
<1> DEFINE Upto(f, n) == /\ f \in [0 .. N -> X] /\ f[0] = a
                         /\ \A j \in 1 .. n : f[j] = g[j][f[j - 1]]
           P == {n \in 0 .. N : \E f : Upto(f, n)}
<1>1. 0 \in P
  <2> DEFINE f == [j \in 0 .. N |-> a]
  <2>1. Upto(f, 0)
    BY SMTT(30)
  <2> HIDE DEF f, Upto
  <2>2. QED
    BY <2>1, SMTT(30)
<1>2. ASSUME NEW j \in 1 .. N, j - 1 \in P PROVE j \in P
  <2>1. PICK f : Upto(f, j - 1)
    BY <1>2
  <2> DEFINE h == [f EXCEPT ![j] = g[j][f[j - 1]]]
  <2>2. f[j - 1] \in X /\ g[j][f[j - 1]] \in X
    BY <2>1, SMTT(30) DEF Rounds
  <2>3. h \in [0 .. N -> X] /\ h[0] = a
    BY <2>1, <2>2, SMTT(30)
  <2>4. ASSUME NEW i \in 1 .. j PROVE h[i] = g[i][h[i - 1]]
    <3>1. h[i - 1] = f[i - 1]
      BY <2>1, SMTT(30)
    <3>2. CASE i = j
      BY <2>1, <3>1, <3>2, SMTT(30)
    <3>3. CASE i # j
      <4>1. i \in 1 .. j - 1 /\ h[i] = f[i]
        BY <2>1, <3>3, SMTT(30)
      <4>2. QED
        BY <2>1, <3>1, <4>1
    <3>4. QED
      BY <3>2, <3>3
  <2> HIDE DEF h
  <2>5. Upto(h, j)
    BY <2>3, <2>4
  <2> HIDE DEF Upto
  <2>6. QED
    BY <2>5, SMTT(30)
<1>3. N \in P
  <2> HIDE DEF P
  <2>1. 0 .. N \subseteq P
    BY <1>1, <1>2, LoopInduction
  <2>2. QED
    BY <2>1, SMTT(30)
<1>4. PICK f : Upto(f, N)
  BY <1>3
<1>5. IsLoop(f, X, N, a, g)
  BY <1>4 DEF IsLoop
<1>6. QED
  BY <1>5

\* The first n slots of S.
Firsts(S, n) == {S[k] : k \in 1 .. n}

\* The first j members of a sequence.
LEMMA FirstsNext ==
  ASSUME NEW S, NEW j \in Nat \ {0}
  PROVE  Firsts(S, j) = Firsts(S, j - 1) \cup {S[j]} /\ Firsts(S, 0) = {}
<1>1. ASSUME NEW x PROVE x \in Firsts(S, j) <=> x \in Firsts(S, j - 1) \cup {S[j]}
  <2>1. ASSUME x \in Firsts(S, j) PROVE x \in Firsts(S, j - 1) \cup {S[j]}
    <3>1. PICK k \in 1 .. j : x = S[k]
      BY <2>1 DEF Firsts
    <3>2. k = j \/ k \in 1 .. j - 1
      BY SMTT(30)
    <3>3. QED
      BY <3>1, <3>2 DEF Firsts
  <2>2. ASSUME x \in Firsts(S, j - 1) \cup {S[j]} PROVE x \in Firsts(S, j)
    BY <2>2, SMTT(30) DEF Firsts
  <2>3. QED
    BY <2>1, <2>2
<1>2. Firsts(S, 0) = {}
  BY SMTT(30) DEF Firsts
<1>3. QED
  BY <1>1, <1>2

(***************************************************************************)
(* The list of databases                                                   *)
(***************************************************************************)
AllNames == DmNames \cup {"default"}
NamesIn(s) == {s[i] : i \in DOMAIN s}

DmInv ==
  /\ dmList \in Seq(AllNames) /\ dmLog \in Seq(AllNames)
  /\ dmCurrent \subseteq Int /\ \A c \in dmCurrent : c < Len(dmList)
  /\ \A c, d \in dmCurrent : c = d
  /\ "" \notin NamesIn(dmLog) /\ "default" \in NamesIn(dmLog)
  /\ NamesIn(dmList) \subseteq NamesIn(dmLog)

\* The names of a list with one more name.
LEMMA NamesAppend ==
  ASSUME NEW S, NEW s \in Seq(S), NEW x \in S
  PROVE  /\ Append(s, x) \in Seq(S) /\ Len(Append(s, x)) = Len(s) + 1
         /\ NamesIn(Append(s, x)) = NamesIn(s) \cup {x}
<1>1. /\ Append(s, x) \in Seq(S) /\ Len(Append(s, x)) = Len(s) + 1
      /\ DOMAIN s = 1 .. Len(s) /\ DOMAIN Append(s, x) = 1 .. Len(s) + 1
      /\ \A i \in 1 .. Len(s) : Append(s, x)[i] = s[i]
      /\ Append(s, x)[Len(s) + 1] = x /\ Len(s) \in Nat
  BY SMTT(30)
<1> DEFINE t == Append(s, x)
<1>2. NamesIn(t) \subseteq NamesIn(s) \cup {x}
  <2> SUFFICES ASSUME NEW i \in 1 .. Len(s) + 1 PROVE t[i] \in NamesIn(s) \cup {x}
    BY <1>1 DEF NamesIn
  <2>1. i \in 1 .. Len(s) \/ i = Len(s) + 1
    BY <1>1, SMTT(30)
  <2>2. QED
    BY <1>1, <2>1 DEF NamesIn
<1>3. NamesIn(s) \cup {x} \subseteq NamesIn(t)
  <2>1. \A i \in 1 .. Len(s) : i \in DOMAIN t /\ t[i] = s[i]
    BY <1>1, SMTT(30)
  <2>2. Len(s) + 1 \in DOMAIN t /\ t[Len(s) + 1] = x
    BY <1>1, SMTT(30)
  <2> HIDE DEF t
  <2>3. QED
    BY <1>1, <2>1, <2>2 DEF NamesIn
<1>4. QED
  BY <1>1, <1>2, <1>3

\* create_database on a list: it stays within the limit and without
\* duplicates, and has the new name unless it is full.
Listing(c) ==
  /\ c.list \in Seq(AllNames) /\ c.log \in Seq(AllNames)
  /\ \A i, j \in DOMAIN c.list : c.list[i] = c.list[j] => i = j
  /\ Len(c.list) <= DmMax

\* create_database adds a name unless it is there or the list is full, and logs
\* it.
LEMMA CreatedEffect ==
  ASSUME NEW L \in Seq(AllNames), NEW log \in Seq(AllNames), NEW n \in AllNames
  PROVE  LET c == Created(L, log, n)
         IN  /\ c \in [list : Seq(AllNames), log : Seq(AllNames)]
             /\ NamesIn(L) \subseteq NamesIn(c.list)
             /\ NamesIn(c.list) \subseteq NamesIn(L) \cup {n}
             /\ NamesIn(log) \subseteq NamesIn(c.log)
             /\ NamesIn(c.log) \subseteq NamesIn(log) \cup {n}
             /\ NamesIn(c.list) \subseteq NamesIn(L) \cup NamesIn(c.log)
             /\ Len(L) <= Len(c.list)
             /\ n \in NamesIn(c.list) \/ Len(c.list) >= DmMax
             /\ (\A i, j \in DOMAIN L : L[i] = L[j] => i = j) /\ Len(L) <= DmMax
                => Listing(c)
<1> DEFINE c == Created(L, log, n)
<1>0. Len(L) \in Nat /\ DOMAIN L = 1 .. Len(L) /\ DmMax \in Nat
  BY DmAssumption, SMTT(30)
<1>1. CASE (\E i \in DOMAIN L : L[i] = n) \/ Len(L) >= DmMax
  <2>1. c = [list |-> L, log |-> log]
    BY <1>1 DEF Created
  <2>2. n \in NamesIn(L) \/ Len(L) >= DmMax
    BY <1>1 DEF NamesIn
  <2>3. Len(L) <= Len(L)
    BY <1>0, SMTT(30)
  <2> HIDE DEF c
  <2>4. QED
    BY <2>1, <2>2, <2>3, SMTT(30) DEF Listing, c
<1>2. CASE ~((\E i \in DOMAIN L : L[i] = n) \/ Len(L) >= DmMax)
  <2>1. c = [list |-> Append(L, n), log |-> Append(log, n)]
    BY <1>2 DEF Created
  <2>2. /\ Append(L, n) \in Seq(AllNames) /\ Len(Append(L, n)) = Len(L) + 1
        /\ NamesIn(Append(L, n)) = NamesIn(L) \cup {n}
        /\ Append(log, n) \in Seq(AllNames)
        /\ NamesIn(Append(log, n)) = NamesIn(log) \cup {n}
    BY NamesAppend, SMTT(30)
  <2>3. ASSUME \A i, j \in DOMAIN L : L[i] = L[j] => i = j, Len(L) <= DmMax
        PROVE  Listing(c)
    <3>1. \A i, j \in DOMAIN Append(L, n) : Append(L, n)[i] = Append(L, n)[j] => i = j
      BY <1>0, <1>2, <2>3, SMTT(30)
    <3>2. Len(L) + 1 <= DmMax
      BY <1>0, <1>2, SMTT(30)
    <3> HIDE DEF c
    <3>3. QED
      BY <2>1, <2>2, <3>1, <3>2 DEF Listing
  <2>4. Len(L) <= Len(L) + 1
    BY <1>0, SMTT(30)
  <2> HIDE DEF c
  <2>5. QED
    BY <2>1, <2>2, <2>3, <2>4, SMTT(30) DEF c
<1>3. QED
  BY <1>1, <1>2

Managers == [list : Seq(AllNames), log : Seq(AllNames)]

\* After i items of the log: the list and the log hold names of the log, and
\* the names of those items are in the list unless it is full.
After(c, items, i) ==
  /\ c \in Managers /\ Listing(c)
  /\ NamesIn(c.list) \subseteq NamesIn(items)
  /\ NamesIn(c.log) = NamesIn(items)
  /\ Len(c.list) >= DmMax \/ Firsts(items, i) \subseteq NamesIn(c.list)

\* One round of the replay of the log of databases.
LEMMA AfterNext ==
  ASSUME NEW items \in Seq(AllNames), NEW j \in 1 .. Len(items), NEW c,
         After(c, items, j - 1)
  PROVE  After(Created(c.list, c.log, items[j]), items, j)
<1> DEFINE n == items[j]
           d == Created(c.list, c.log, n)
<1>0. /\ c.list \in Seq(AllNames) /\ c.log \in Seq(AllNames) /\ n \in AllNames
      /\ n \in NamesIn(items)
  BY SMTT(30) DEF After, Managers, NamesIn
<1>1. /\ d \in Managers
      /\ NamesIn(c.list) \subseteq NamesIn(d.list)
      /\ NamesIn(d.list) \subseteq NamesIn(c.list) \cup {n}
      /\ NamesIn(c.log) \subseteq NamesIn(d.log)
      /\ NamesIn(d.log) \subseteq NamesIn(c.log) \cup {n}
      /\ Len(c.list) <= Len(d.list)
      /\ n \in NamesIn(d.list) \/ Len(d.list) >= DmMax
  <2> HIDE DEF n
  <2>1. QED
    BY <1>0, CreatedEffect DEF Managers
<1>2. Listing(d)
  <2> HIDE DEF n
  <2>1. (\A i, k \in DOMAIN c.list : c.list[i] = c.list[k] => i = k) /\ Len(c.list) <= DmMax
    BY DEF After, Listing
  <2>2. QED
    BY <1>0, <2>1, CreatedEffect
<1> HIDE DEF d
<1>3. Firsts(items, j) = Firsts(items, j - 1) \cup {n}
  BY FirstsNext, SMTT(30)
<1>4. Len(c.list) \in Nat /\ Len(d.list) \in Nat /\ DmMax \in Nat
  BY <1>0, <1>1, DmAssumption, SMTT(30) DEF Managers
<1> HIDE DEF n
<1>5. Len(d.list) >= DmMax \/ Firsts(items, j) \subseteq NamesIn(d.list)
  <2>1. CASE Len(c.list) >= DmMax
    BY <1>1, <1>4, <2>1, SMTT(30)
  <2>2. CASE Firsts(items, j - 1) \subseteq NamesIn(c.list)
    BY <1>1, <1>3, <2>2
  <2>3. QED
    BY <2>1, <2>2 DEF After
<1>6. NamesIn(d.list) \subseteq NamesIn(items) /\ NamesIn(d.log) = NamesIn(items)
  BY <1>0, <1>1 DEF After
<1>7. After(d, items, j)
  BY <1>1, <1>2, <1>5, <1>6 DEF After
<1>8. QED
  BY <1>7 DEF d, n

\* The replay as a whole.
LEMMA ReplayedEffect ==
  ASSUME NEW start \in Managers, After(start, start.log, 0)
  PROVE  After(Replayed(start), start.log, Len(start.log))
<1> DEFINE items == start.log
           N == Len(items)
           Eq(f) == f = [i \in 0 .. N |->
                           IF i = 0 THEN start
                           ELSE Created(f[i - 1].list, f[i - 1].log, items[i])]
           step == CHOOSE f : Eq(f)
           g == [i \in 1 .. N |-> [c \in Managers |-> Created(c.list, c.log, items[i])]]
<1>0. items \in Seq(AllNames) /\ N \in Nat
  BY SMTT(30) DEF Managers
<1>1. g \in Rounds(Managers, N)
  <2>1. ASSUME NEW i \in 1 .. N, NEW c \in Managers
        PROVE  Created(c.list, c.log, items[i]) \in Managers
    <3>1. c.list \in Seq(AllNames) /\ c.log \in Seq(AllNames) /\ items[i] \in AllNames
      BY <1>0, SMTT(30) DEF Managers
    <3>2. QED
      BY <3>1, CreatedEffect DEF Managers
  <2>2. QED
    BY <2>1 DEF Rounds
<1>2. \E f : IsLoop(f, Managers, N, start, g)
  <2> HIDE DEF g, N
  <2>1. QED
    BY <1>0, <1>1, Loop
<1>3. PICK f : IsLoop(f, Managers, N, start, g)
  BY <1>2
<1>4. Eq(f)
  <2>1. ASSUME NEW i \in 1 .. N
        PROVE  f[i] = Created(f[i - 1].list, f[i - 1].log, items[i])
    <3>1. f[i - 1] \in Managers
      BY <1>0, <1>3, SMTT(30) DEF IsLoop
    <3>2. QED
      BY <1>3, <3>1 DEF IsLoop
  <2> HIDE DEF g, N
  <2>2. \A i \in 0 .. N : f[i] = IF i = 0 THEN start
                                 ELSE Created(f[i - 1].list, f[i - 1].log, items[i])
    BY <1>0, <1>3, <2>1, SMTT(30) DEF IsLoop
  <2>3. f = [i \in 0 .. N |-> f[i]]
    BY <1>3 DEF IsLoop
  <2>4. QED
    BY <2>2, <2>3
<1>5. Eq(step)
  <2> HIDE DEF Eq
  <2>1. QED
    BY <1>4
<1>6. Replayed(start) = step[N]
  BY DEF Replayed
<1> HIDE DEF step
<1>7. /\ step[0] = start
      /\ \A i \in 1 .. N : step[i] = Created(step[i - 1].list, step[i - 1].log, items[i])
  <2>1. \A i \in 0 .. N : step[i] = IF i = 0 THEN start
          ELSE Created(step[i - 1].list, step[i - 1].log, items[i])
    BY <1>5
  <2>2. QED
    BY <1>0, <2>1, SMTT(30)
<1> DEFINE P == {i \in 0 .. N : After(step[i], items, i)}
<1>8. 0 \in P
  BY <1>0, <1>7, SMTT(30)
<1>9. ASSUME NEW i \in 1 .. N, i - 1 \in P PROVE i \in P
  <2>1. After(step[i - 1], items, i - 1)
    BY <1>9
  <2>2. After(step[i], items, i)
    <3> HIDE DEF items
    <3>1. QED
      BY <1>0, <1>7, <2>1, AfterNext
  <2>3. QED
    BY <2>2, SMTT(30)
<1> HIDE DEF P
<1>10. 0 .. N \subseteq P
  BY <1>0, <1>8, <1>9, LoopInduction
<1>11. N \in P
  BY <1>0, <1>10, SMTT(30)
<1>12. QED
  BY <1>6, <1>11 DEF P

\* The step that DmSound allows.
DmStepOK == DmCurrentKept /\ DmRecovered

\* The invariant holds for a new manager.
LEMMA DmInitInv == DmInit => DmInv
<1> SUFFICES ASSUME DmInit PROVE DmInv
  OBVIOUS
<1> DEFINE one == <<"default">>
<1>1. one \in Seq(AllNames) /\ NamesIn(one) = {"default"}
  BY SMTT(30) DEF AllNames, NamesIn
<1>2. dmList = one /\ dmLog = one /\ dmCurrent = {}
  BY DEF DmInit
<1> HIDE DEF one
<1>3. QED
  BY <1>1, <1>2 DEF DmInv

\* The name of the current database depends on the cells of the list it names.
LEMMA NameStays ==
  ASSUME DmInv, dmCurrent' = dmCurrent,
         Len(dmList) <= Len(dmList'), dmList' \in Seq(AllNames),
         \A i \in 1 .. Len(dmList) : dmList'[i] = dmList[i]
  PROVE  CurrentName' = CurrentName
<1>1. /\ DOMAIN dmList = 1 .. Len(dmList) /\ DOMAIN dmList' = 1 .. Len(dmList')
      /\ Len(dmList) \in Nat /\ Len(dmList') \in Nat
  <2>1. dmList \in Seq(AllNames)
    BY DEF DmInv
  <2>2. QED
    BY <2>1, SMTT(30)
<1>0. \A d \in dmCurrent : d \in Int /\ d < Len(dmList)
  BY DEF DmInv
<1>2. \A d \in dmCurrent : d + 1 \in DOMAIN dmList <=> d + 1 \in DOMAIN dmList'
  BY <1>0, <1>1, SMTT(30)
<1>3. \A d \in dmCurrent : d + 1 \in DOMAIN dmList => dmList'[d + 1] = dmList[d + 1]
  BY <1>0, <1>1
<1>4. QED
  BY <1>2, <1>3 DEF CurrentName

\* CREATE DATABASE.
LEMMA DmCreateStep ==
  ASSUME DmInv, NEW n \in DmNames, DmCreate(n)
  PROVE  DmInv' /\ DmStepOK
<1> DEFINE c == Created(dmList, dmLog, n)
<1>0. /\ dmList \in Seq(AllNames) /\ dmLog \in Seq(AllNames) /\ n \in AllNames
      /\ dmCurrent' = dmCurrent /\ dmReply'.op = "create"
  BY DEF DmInv, AllNames, DmCreate, DmAnswer
<1>1. /\ c \in Managers
      /\ NamesIn(c.list) \subseteq NamesIn(dmList) \cup NamesIn(c.log)
      /\ NamesIn(dmLog) \subseteq NamesIn(c.log)
      /\ NamesIn(c.log) \subseteq NamesIn(dmLog) \cup {n}
      /\ Len(dmList) <= Len(c.list)
  BY <1>0, CreatedEffect DEF Managers
<1>2. \A i \in 1 .. Len(dmList) : c.list[i] = dmList[i]
  BY <1>0, SMTT(30) DEF Created
<1> HIDE DEF c
<1>3. CASE n = ""
  <2>1. dmList' = dmList /\ dmLog' = dmLog
    BY <1>3 DEF DmCreate
  <2>2. QED
    BY <1>0, <2>1 DEF DmInv, DmStepOK, DmCurrentKept, DmRecovered, CurrentName
<1>4. CASE n # ""
  <2>1. dmList' = c.list /\ dmLog' = c.log
    BY <1>4 DEF DmCreate, c
  <2>2. dmList' \in Seq(AllNames) /\ dmLog' \in Seq(AllNames)
    BY <1>1, <2>1 DEF Managers
  <2>3. CurrentName' = CurrentName
    BY <1>0, <1>1, <1>2, <2>1, <2>2, NameStays
  <2>4. \A d \in dmCurrent' : d < Len(dmList')
    <3>1. Len(dmList) \in Nat /\ Len(dmList') \in Nat /\ Len(dmList) <= Len(dmList')
      BY <1>0, <1>1, <2>1, <2>2, SMTT(30)
    <3>2. \A d \in dmCurrent : d \in Int /\ d < Len(dmList)
      BY DEF DmInv
    <3>3. QED
      BY <1>0, <3>1, <3>2, SMTT(30)
  <2>5. DmInv'
    BY <1>0, <1>1, <1>4, <2>1, <2>2, <2>4 DEF DmInv
  <2>6. QED
    BY <1>0, <2>3, <2>5 DEF DmStepOK, DmCurrentKept, DmRecovered
<1>5. QED
  BY <1>3, <1>4

\* remdb_create_database of the C API.
LEMMA DmCreateCStep ==
  ASSUME DmInv, NEW n \in DmNames, DmCreateC(n)
  PROVE  DmInv' /\ DmStepOK
<1>0. /\ dmList' = dmList /\ dmCurrent' = dmCurrent /\ dmReply'.op = "create_c"
      /\ n \in AllNames /\ dmLog \in Seq(AllNames)
  BY DEF DmInv, AllNames, DmCreateC, DmAnswer
<1>1. /\ dmLog' \in Seq(AllNames) /\ NamesIn(dmLog) \subseteq NamesIn(dmLog')
      /\ "" \notin NamesIn(dmLog')
  <2>1. CASE n = ""
    BY <1>0, <2>1 DEF DmCreateC, DmInv
  <2>2. CASE n # ""
    <3> DEFINE e == <<>>
               c == Created(e, dmLog, n)
    <3>1. dmLog' = c.log
      BY <2>2 DEF DmCreateC
    <3>2. e \in Seq(AllNames)
      BY SMTT(30)
    <3> HIDE DEF e
    <3>3. /\ c \in Managers /\ NamesIn(dmLog) \subseteq NamesIn(c.log)
          /\ NamesIn(c.log) \subseteq NamesIn(dmLog) \cup {n}
      BY <1>0, <3>2, CreatedEffect DEF Managers
    <3> HIDE DEF c
    <3>4. QED
      BY <2>2, <3>1, <3>3 DEF Managers, DmInv
  <2>3. QED
    BY <2>1, <2>2
<1>2. DmInv'
  BY <1>0, <1>1 DEF DmInv
<1>3. QED
  BY <1>0, <1>2 DEF DmStepOK, DmCurrentKept, DmRecovered, CurrentName

\* USE changes the current database only, CLOSE not even that.
LEMMA DmUseStep ==
  ASSUME DmInv, NEW n \in DmNames, DmUse(n) \/ DmClose(n)
  PROVE  DmInv' /\ DmStepOK
<1>1. CASE DmUse(n)
  <2>1. /\ dmCurrent' \subseteq Int /\ \A c \in dmCurrent' : c < Len(dmList)
        /\ \A c, d \in dmCurrent' : c = d
    <3>1. CASE DmListed(n)
      <4> DEFINE i == CHOOSE i \in DOMAIN dmList : dmList[i] = n
      <4>1. i \in DOMAIN dmList
        BY <3>1 DEF DmListed
      <4>2. dmCurrent' = {i - 1}
        BY <1>1, <3>1 DEF DmUse, DmPosition
      <4> HIDE DEF i
      <4>3. i \in Int /\ i - 1 < Len(dmList)
        <5>1. dmList \in Seq(AllNames)
          BY DEF DmInv
        <5>2. QED
          BY <4>1, <5>1, SMTT(30)
      <4>4. QED
        BY <4>2, <4>3, SMTT(30)
    <3>2. CASE ~DmListed(n)
      BY <1>1, <3>2 DEF DmUse, DmInv
    <3>3. QED
      BY <3>1, <3>2
  <2>2. dmList' = dmList /\ dmLog' = dmLog /\ dmReply'.op = "use"
    BY <1>1 DEF DmUse, DmAnswer
  <2>3. QED
    BY <2>1, <2>2 DEF DmInv, DmStepOK, DmCurrentKept, DmRecovered
<1>2. CASE DmClose(n)
  <2>1. /\ dmList' = dmList /\ dmLog' = dmLog /\ dmCurrent' = dmCurrent
        /\ dmReply'.op = "close"
    BY <1>2 DEF DmClose, DmAnswer
  <2>2. QED
    BY <2>1 DEF DmInv, DmStepOK, DmCurrentKept, DmRecovered, CurrentName
<1>3. QED
  BY <1>1, <1>2

\* DROP DATABASE; the current one is left when it is dropped.
LEMMA DmDropStep ==
  ASSUME DmInv, NEW n \in DmNames, DmDrop(n)
  PROVE  DmInv' /\ DmStepOK
<1>0. /\ dmLog' = dmLog /\ dmReply'.op = "drop" /\ dmReply'.name = n
      /\ dmReply'.result = DmFound(n)
  BY DEF DmDrop, DmAnswer
<1>1. CASE ~DmListed(n)
  <2>1. dmList' = dmList /\ dmCurrent' = dmCurrent
    BY <1>1 DEF DmDrop
  <2>2. QED
    BY <1>0, <2>1 DEF DmInv, DmStepOK, DmCurrentKept, DmRecovered, CurrentName
<1>2. CASE DmListed(n)
  <2> DEFINE k == CHOOSE i \in DOMAIN dmList : dmList[i] = n
             N == Len(dmList)
  <2>1. k \in DOMAIN dmList /\ dmList[k] = n
    BY <1>2 DEF DmListed
  <2>2. /\ dmList' = [i \in 1 .. N - 1 |-> IF i <= k - 1 THEN dmList[i] ELSE dmList[i + 1]]
        /\ dmCurrent' = Moved(dmCurrent, k - 1)
    BY <1>2 DEF DmDrop, DmPosition
  <2> HIDE DEF k
  <2>3. /\ dmList \in Seq(AllNames) /\ N \in Nat /\ DOMAIN dmList = 1 .. N
        /\ k \in 1 .. N /\ \A i \in 1 .. N : dmList[i] \in AllNames
    <3>1. dmList \in Seq(AllNames)
      BY DEF DmInv
    <3>2. QED
      BY <2>1, <3>1, SMTT(30)
  <2>4. \A d \in dmCurrent : d \in Int /\ d < N
    BY DEF DmInv
  <2> HIDE DEF N
  <2>5. \A i \in 1 .. N - 1 : /\ i < k => dmList'[i] = dmList[i]
                              /\ i >= k => dmList'[i] = dmList[i + 1]
    BY <2>2, <2>3, SMTT(30)
  <2>6. /\ dmList' \in Seq(AllNames) /\ Len(dmList') = N - 1
        /\ DOMAIN dmList' = 1 .. N - 1
    <3>1. \A i \in 1 .. N - 1 : dmList'[i] \in AllNames
      BY <2>3, <2>5, SMTT(30)
    <3>2. dmList' = [i \in 1 .. N - 1 |-> dmList'[i]] /\ N - 1 \in Nat
      BY <2>2, <2>3, SMTT(30)
    <3>3. QED
      BY <3>1, <3>2, SMTT(30)
  <2>7. NamesIn(dmList') \subseteq NamesIn(dmList)
    <3> SUFFICES ASSUME NEW i \in 1 .. N - 1 PROVE dmList'[i] \in NamesIn(dmList)
      BY <2>6 DEF NamesIn
    <3>1. i \in 1 .. N /\ i + 1 \in 1 .. N /\ (i < k \/ i >= k)
      BY <2>3, SMTT(30)
    <3>2. QED
      BY <2>3, <2>5, <3>1 DEF NamesIn
  <2>8. dmCurrent' \subseteq Int /\ \A d \in dmCurrent' : d < Len(dmList')
    <3> SUFFICES ASSUME NEW d \in dmCurrent'
                 PROVE  d \in Int /\ d < N - 1
      BY <2>6
    <3>1. PICK c \in dmCurrent : d = IF c < 0 \/ c >= k - 1 THEN c - 1 ELSE c
      BY <2>2 DEF Moved
    <3>2. c \in Int /\ c < N
      BY <2>4
    <3>3. QED
      BY <2>3, <3>1, <3>2, SMTT(30)
  <2>9. \A c, d \in dmCurrent' : c = d
    <3>1. \A c, d \in dmCurrent : c = d
      BY DEF DmInv
    <3> TAKE c, d \in dmCurrent'
    <3>2. PICK x \in dmCurrent : c = IF x < 0 \/ x >= k - 1 THEN x - 1 ELSE x
      BY <2>2 DEF Moved
    <3>3. PICK y \in dmCurrent : d = IF y < 0 \/ y >= k - 1 THEN y - 1 ELSE y
      BY <2>2 DEF Moved
    <3>4. x = y
      BY <3>1
    <3>5. QED
      BY <3>2, <3>3, <3>4
  <2>10. DmInv'
    BY <1>0, <2>6, <2>7, <2>8, <2>9 DEF DmInv
  <2>11. DmCurrentKept
    <3>1. CASE k - 1 \in dmCurrent
      <4>0. CurrentName \subseteq {n}
        <5>1. dmCurrent = {k - 1}
          BY <3>1 DEF DmInv
        <5>2. (k - 1) + 1 = k
          BY <2>3, SMTT(30)
        <5>3. QED
          BY <2>1, <5>1, <5>2 DEF CurrentName
      <4>1. n # ""
        BY <2>1 DEF DmInv, NamesIn
      <4>2. DmFound(n) = "Ok"
        BY <1>2, <4>1 DEF DmFound
      <4>3. QED
        BY <1>0, <3>1, <4>0, <4>2 DEF DmCurrentKept
    <3>2. CASE k - 1 \notin dmCurrent
      <4>1. CurrentName' = CurrentName
        <5>1. CASE dmCurrent = {}
          BY <2>2, <5>1 DEF CurrentName, Moved
        <5>2. ASSUME NEW d \in dmCurrent PROVE CurrentName' = CurrentName
          <6> DEFINE e == IF d < 0 \/ d >= k - 1 THEN d - 1 ELSE d
          <6>1. dmCurrent = {d} /\ dmCurrent' = {e}
            BY <2>2, <5>2 DEF DmInv, Moved
          <6>2. d \in Int /\ d < N /\ d # k - 1
            BY <2>4, <3>2
          <6>3. /\ d + 1 \in DOMAIN dmList <=> e + 1 \in DOMAIN dmList'
                /\ d + 1 \in DOMAIN dmList => dmList'[e + 1] = dmList[d + 1]
            <7>1. CASE d < 0
              BY <2>3, <2>6, <6>2, <7>1, SMTT(30)
            <7>2. CASE 0 <= d /\ d < k - 1
              <8>1. e = d /\ d + 1 \in 1 .. N - 1 /\ d + 1 < k /\ d + 1 \in 1 .. N
                BY <2>3, <6>2, <7>2, SMTT(30)
              <8>2. QED
                BY <2>3, <2>5, <2>6, <8>1, SMTT(30)
            <7>3. CASE d > k - 1
              <8>1. /\ e + 1 = d /\ d \in 1 .. N - 1 /\ d >= k /\ d + 1 \in 1 .. N
                BY <2>3, <6>2, <7>3, SMTT(30)
              <8>2. QED
                BY <2>3, <2>5, <2>6, <8>1, SMTT(30)
            <7>4. QED
              BY <2>3, <6>2, <7>1, <7>2, <7>3, SMTT(30)
          <6> HIDE DEF e
          <6>4. QED
            BY <6>1, <6>3 DEF CurrentName
        <5>3. QED
          BY <5>1, <5>2
      <4>2. QED
        BY <4>1 DEF DmCurrentKept
    <3>3. QED
      BY <3>1, <3>2
  <2>12. QED
    BY <1>0, <2>10, <2>11 DEF DmStepOK, DmRecovered
<1>3. QED
  BY <1>1, <1>2

\* A restart replays the log into an empty list.
LEMMA DmRestartStep ==
  ASSUME DmInv, DmRestart
  PROVE  DmInv' /\ DmStepOK
<1> DEFINE e == <<>>
           start == Created(e, dmLog, "default")
           r == Replayed(start)
<1>0. /\ dmList' = r.list /\ dmLog' = r.log /\ dmCurrent' = {}
      /\ dmReply'.op = "restart"
  BY DEF DmRestart, DmAnswer
<1>1. /\ e \in Seq(AllNames) /\ NamesIn(e) = {} /\ Len(e) = 0 /\ DOMAIN e = {}
      /\ dmLog \in Seq(AllNames) /\ "default" \in AllNames
  <2>1. e \in Seq(AllNames) /\ Len(e) = 0 /\ DOMAIN e = {}
    BY SMTT(30)
  <2>2. NamesIn(e) = {}
    BY <2>1 DEF NamesIn
  <2>3. dmLog \in Seq(AllNames) /\ "default" \in AllNames
    BY DEF AllNames, DmInv
  <2>4. QED
    BY <2>1, <2>2, <2>3
<1> HIDE DEF e
<1>2. /\ start \in Managers
      /\ NamesIn(start.list) \subseteq {"default"}
      /\ NamesIn(dmLog) \subseteq NamesIn(start.log)
      /\ NamesIn(start.log) \subseteq NamesIn(dmLog) \cup {"default"}
      /\ Listing(start)
  <2> DEFINE n == "default"
  <2>1. n \in AllNames
    BY <1>1
  <2>2. (\A i, j \in DOMAIN e : e[i] = e[j] => i = j) /\ Len(e) <= DmMax
    BY <1>1, DmAssumption, SMTT(30)
  <2> HIDE DEF n
  <2>3. LET c == Created(e, dmLog, n)
        IN  /\ c \in [list : Seq(AllNames), log : Seq(AllNames)]
            /\ NamesIn(c.list) \subseteq NamesIn(e) \cup {n}
            /\ NamesIn(dmLog) \subseteq NamesIn(c.log)
            /\ NamesIn(c.log) \subseteq NamesIn(dmLog) \cup {n}
            /\ Listing(c)
    BY <1>1, <2>1, <2>2, CreatedEffect
  <2>4. QED
    BY <1>1, <2>3 DEF n, Managers
<1> HIDE DEF start
<1>3. NamesIn(start.log) = NamesIn(dmLog) /\ NamesIn(start.list) \subseteq NamesIn(dmLog)
  BY <1>2 DEF DmInv
<1>4. After(start, start.log, 0)
  <2>1. Firsts(start.log, 0) = {}
    BY FirstsNext, SMTT(30)
  <2>2. QED
    BY <1>2, <1>3, <2>1 DEF After
<1>5. After(r, start.log, Len(start.log))
  BY <1>2, <1>4, ReplayedEffect
<1> HIDE DEF r
<1>6. /\ dmList' \in Seq(AllNames) /\ dmLog' \in Seq(AllNames)
      /\ \A i, j \in DOMAIN dmList' : dmList'[i] = dmList'[j] => i = j
      /\ Len(dmList') <= DmMax
      /\ NamesIn(dmList') \subseteq NamesIn(dmLog)
      /\ NamesIn(dmLog') = NamesIn(dmLog)
  BY <1>0, <1>3, <1>5 DEF After, Listing, Managers
<1>7. Len(dmList') >= DmMax \/ NamesIn(dmLog) \subseteq NamesIn(dmList')
  <2>1. Firsts(start.log, Len(start.log)) = NamesIn(start.log)
    <3>1. start.log \in Seq(AllNames)
      BY <1>2 DEF Managers
    <3>2. QED
      BY <3>1, SMTT(30) DEF Firsts, NamesIn
  <2>2. QED
    BY <1>0, <1>3, <1>5, <2>1 DEF After
<1>8. Len(dmList') = DmMax \/ NamesIn(dmList') = NamesIn(dmLog)
  <2>1. Len(dmList') \in Nat /\ DmMax \in Nat
    BY <1>6, DmAssumption, SMTT(30)
  <2>2. Len(dmList') >= DmMax => Len(dmList') = DmMax
    BY <1>6, <2>1, SMTT(30)
  <2>3. QED
    BY <1>6, <1>7, <2>2
<1>9. DmInv'
  BY <1>0, <1>6 DEF DmInv
<1>10. NamesIn(dmList) \subseteq NamesIn(dmLog)
  BY DEF DmInv
<1>11. DmRecovered
  BY <1>6, <1>8, <1>10 DEF DmRecovered, NamesIn, Logged
<1>12. DmCurrentKept
  BY <1>0 DEF DmCurrentKept
<1>13. QED
  BY <1>9, <1>11, <1>12 DEF DmStepOK

\* Every step keeps the invariant and is a step the property allows.
LEMMA DmStep == DmInv /\ [DmNext]_dmVars => DmInv' /\ [DmStepOK]_dmVars
<1> SUFFICES ASSUME DmInv, [DmNext]_dmVars PROVE DmInv' /\ [DmStepOK]_dmVars
  OBVIOUS
<1>1. ASSUME NEW n \in DmNames, DmCreate(n) PROVE DmInv' /\ DmStepOK
  BY <1>1, DmCreateStep
<1>2. ASSUME NEW n \in DmNames, DmCreateC(n) PROVE DmInv' /\ DmStepOK
  BY <1>2, DmCreateCStep
<1>3. ASSUME NEW n \in DmNames, DmUse(n) \/ DmClose(n) PROVE DmInv' /\ DmStepOK
  BY <1>3, DmUseStep
<1>4. ASSUME NEW n \in DmNames, DmDrop(n) PROVE DmInv' /\ DmStepOK
  BY <1>4, DmDropStep
<1>5. CASE DmRestart
  BY <1>5, DmRestartStep
<1>6. CASE UNCHANGED dmVars
  BY <1>6 DEF dmVars, DmInv
<1>7. QED
  BY <1>1, <1>2, <1>3, <1>4, <1>5, <1>6 DEF DmNext

\* The current database is changed only by use_database, a restart, or its own
\* drop, and a restart brings back the databases of the log, without
\* duplicates, up to the limit (DatabaseManager of lib.rs), for every set of
\* names and every limit.
THEOREM DatabaseListIsSound == DmSpec => DmSound
<1>1. DmSpec => [][DmStepOK]_dmVars
  BY DmInitInv, DmStep, PTL DEF DmSpec
<1>2. QED
  BY <1>1 DEF DmSound, DmStepOK
=============================================================================
