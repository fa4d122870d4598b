-------------------------- MODULE LiveSocketProofs --------------------------
(* Type correctness of LiveSocket, and the order in which a client sees the events of
   a subscription, for any clients, topics, commands and bounds. *)
EXTENDS LiveSocket, FiniteSetTheorems, SequenceTheorems, TLAPS

(* NewClient's counter counts the connections: it never runs past their number. *)
Connected == {c \in Clients : conn[c] # "none"}
CountInv == maxId = Cardinality(Connected)

(* A goroutine that waits for room in client.ch has an event to deliver. *)
DeliverInv == \A s \in Subscriptions : sub[s].at = "deliver" => sub[s].queue # <<>>

(* A connection that was never begun has no goroutines. *)
BeginInv == \A c \in Clients : conn[c] = "none" => reader[c] = "idle"

TypeInv == TypeOK /\ CountInv /\ DeliverInv /\ BeginInv

-----------------------------------------------------------------------------
(* What the assumption on the constants gives as numbers. *)
LEMMA Numbers ==
  /\ IsFiniteSet(Clients) /\ Cardinality(Clients) \in Nat
  /\ ChannelBufSize \in Nat /\ MaxEvents \in Nat /\ MaxEpochs \in Nat /\ MaxCommands \in Nat
  /\ ChannelBufSize > 0
BY ConstantsAssumption, FS_CardinalityType

(* No counter runs past the number of connections. *)
LEMMA ConnectedCount ==
  /\ IsFiniteSet(Connected)
  /\ Cardinality(Connected) \in 0 .. Cardinality(Clients)
<1>1. Connected \subseteq Clients
  BY DEF Connected
<1> QED BY <1>1, Numbers, FS_Subset, FS_CardinalityType

(* A subscription is a triple; the place of a reply in `of` is none. *)
LEMMA SubscriptionParts ==
  ASSUME NEW s \in Subscriptions
  PROVE  s[1] \in Clients /\ s[2] \in Topics /\ s[3] \in 1 .. MaxEpochs /\ s # <<>>
BY DEF Subscriptions

(* A new subscription is on its way to its topic, with nothing to deliver. *)
LEMMA NotMadeIsOne ==
  /\ NotMade \in Subscription
  /\ NotMade.at = "none" /\ NotMade.queue = <<>>
  /\ \A f \in EventTypes \cup {AnyType} :
       /\ [NotMade EXCEPT !.at = "joining", !.filter = f] \in Subscription
       /\ [NotMade EXCEPT !.at = "joining", !.filter = f].at = "joining"
       /\ [NotMade EXCEPT !.at = "joining", !.filter = f].queue = <<>>
<1>1. <<>> \in Seq(1 .. MaxEvents) /\ FALSE \in BOOLEAN
  OBVIOUS
<1>2. NotMade \in Subscription /\ NotMade.at = "none" /\ NotMade.queue = <<>>
  BY <1>1 DEF NotMade, Subscription
<1>3. ASSUME NEW f \in EventTypes \cup {AnyType}
      PROVE  /\ [NotMade EXCEPT !.at = "joining", !.filter = f] \in Subscription
             /\ [NotMade EXCEPT !.at = "joining", !.filter = f].at = "joining"
             /\ [NotMade EXCEPT !.at = "joining", !.filter = f].queue = <<>>
  BY <1>1 DEF NotMade, Subscription
<1> QED BY <1>2, <1>3

-----------------------------------------------------------------------------
(* At the start nobody is connected. *)
LEMMA InitTypeInv == Init => TypeInv
<1> SUFFICES ASSUME Init PROVE TypeInv
  OBVIOUS
<1>1. Connected = {}
  BY DEF Init, Connected
<1>2. CountInv
  BY <1>1, FS_EmptySet DEF Init, CountInv
<1>3. DeliverInv
  BY NotMadeIsOne DEF Init, DeliverInv
<1>4. TypeOK
  <2>1. /\ topicMap \subseteq Topics
        /\ conn \in [Clients -> ConnStates]
        /\ reader \in [Clients -> ReaderLabels]
        /\ writer \in [Clients -> WriterLabels]
        /\ hub \in [1 .. Cardinality(Clients) -> SUBSET Clients]
    BY ConstantsAssumption DEF Init, ConnStates, ReaderLabels, WriterLabels
  <2>2. /\ commands \in [Clients -> 0 .. MaxCommands]
        /\ maxId \in 0 .. Cardinality(Clients) /\ id \in [Clients -> 0 .. Cardinality(Clients)]
        /\ entry \in [Clients -> [Topics -> 0 .. MaxEpochs]]
        /\ made \in [Clients -> [Topics -> 0 .. MaxEpochs]]
    BY Numbers DEF Init
  <2>3. sub \in [Subscriptions -> Subscription]
    BY NotMadeIsOne DEF Init
  <2>4. /\ ch \in [Clients -> Seq(Message)] /\ sent \in [Clients -> Seq(Message)]
        /\ \A c \in Clients : Len(ch[c]) <= ChannelBufSize
    BY Numbers DEF Init
  <2>5. events \in Seq(Event)
    BY DEF Init
  <2> QED BY <2>1, <2>2, <2>3, <2>4, <2>5 DEF TypeOK
<1>5. BeginInv
  BY DEF Init, BeginInv
<1> QED BY <1>2, <1>3, <1>4, <1>5 DEF TypeInv

(* A step that begins no connection keeps the count. *)
LEMMA CountStays ==
  ASSUME CountInv, UNCHANGED maxId,
         \A c \in Clients : conn'[c] = "none" <=> conn[c] = "none"
  PROVE  CountInv'
<1>1. Connected' = Connected
  BY DEF Connected
<1> QED BY <1>1 DEF CountInv

(* A step of a connection or of the hub: it moves goroutines, never messages. *)
LEMMA ConnectionStep ==
  ASSUME TypeInv, UNCHANGED <<maxId, ch, subVars, events, sent>>,
         topicMap' \subseteq Topics,
         conn' \in [Clients -> ConnStates],
         \A c \in Clients : conn'[c] = "none" <=> conn[c] = "none",
         \A c \in Clients : reader[c] = "idle" => reader'[c] = "idle",
         commands' \in [Clients -> 0 .. MaxCommands],
         id' \in [Clients -> 0 .. Cardinality(Clients)],
         hub' \in [1 .. Cardinality(Clients) -> SUBSET Clients],
         reader' \in [Clients -> ReaderLabels],
         writer' \in [Clients -> WriterLabels]
  PROVE  TypeInv'
<1>1. CountInv'
  BY CountStays DEF TypeInv
<1>2. DeliverInv'
  BY DEF TypeInv, DeliverInv, subVars
<1>3. TypeOK'
  BY DEF TypeInv, TypeOK, subVars
<1>4. BeginInv'
  BY DEF TypeInv, BeginInv
<1> QED BY <1>1, <1>2, <1>3, <1>4 DEF TypeInv

(* A step that moves messages: of a channel, a subscription or what is published. *)
LEMMA MessageStep ==
  ASSUME TypeInv, UNCHANGED <<topicMap, maxId, id, hub>>,
         conn' \in [Clients -> ConnStates],
         \A c \in Clients : conn'[c] = "none" <=> conn[c] = "none",
         \A c \in Clients : reader[c] = "idle" => reader'[c] = "idle",
         commands' \in [Clients -> 0 .. MaxCommands],
         reader' \in [Clients -> ReaderLabels], UNCHANGED writer,
         ch' \in [Clients -> Seq(Message)], \A c \in Clients : Len(ch'[c]) <= ChannelBufSize,
         sent' \in [Clients -> Seq(Message)],
         entry' \in [Clients -> [Topics -> 0 .. MaxEpochs]],
         made' \in [Clients -> [Topics -> 0 .. MaxEpochs]],
         sub' \in [Subscriptions -> Subscription],
         events' \in Seq(Event),
         DeliverInv'
  PROVE  TypeInv'
<1>1. CountInv'
  BY CountStays DEF TypeInv
<1>3. TypeOK'
  BY DEF TypeInv, TypeOK
<1>4. BeginInv'
  BY DEF TypeInv, BeginInv
<1> QED BY <1>1, <1>3, <1>4 DEF TypeInv

(* The steps of connections and of the hub. *)
LEMMA GoroutinesTypeInv ==
  ASSUME TypeInv, NEW c \in Clients
  PROVE  /\ PeerEnds(c, "eof") \/ PeerEnds(c, "reset") => TypeInv'
         /\ ReaderStep(c) => TypeInv'
         /\ DelByWriter(c) => TypeInv'
<1> USE DEF TypeInv, TypeOK, ReaderTo, WriterTo, Forget
<1>1. ASSUME PeerEnds(c, "eof") \/ PeerEnds(c, "reset") PROVE TypeInv'
  BY <1>1, ConnectionStep DEF PeerEnds, ConnStates
<1>2. ASSUME NewClient(c) PROVE TypeInv'
  BY <1>2, ConnectionStep DEF NewClient, ReaderLabels
<1>3. ASSUME Add(c) PROVE TypeInv'
  BY <1>3, ConnectionStep DEF Add, ReaderLabels, WriterLabels
<1>4. ASSUME DelByReader(c) PROVE TypeInv'
  BY <1>4, ConnectionStep DEF DelByReader, ReaderLabels
<1>5. ASSUME DelByWriter(c) PROVE TypeInv'
  BY <1>5, ConnectionStep DEF DelByWriter, WriterLabels
<1>6. ASSUME ReaderSelect(c) PROVE TypeInv'
  BY <1>6, ConnectionStep DEF ReaderSelect, ReaderLabels, WriterLabels
<1>7. ASSUME ReceiveEnd(c) PROVE TypeInv'
  BY <1>7, ConnectionStep DEF ReceiveEnd, ReaderLabels
<1>8. ASSUME DoneToWriter(c) PROVE TypeInv'
  <2>1. /\ reader' \in [Clients -> ReaderLabels] /\ writer' \in [Clients -> WriterLabels]
        /\ conn' \in [Clients -> ConnStates]
    BY <1>8 DEF DoneToWriter, ReaderLabels, WriterLabels, ConnStates
  <2>2. \A d \in Clients : conn'[d] = "none" <=> conn[d] = "none"
    BY <1>8 DEF DoneToWriter, BeginInv
  <2> QED BY <1>8, <2>1, <2>2, ConnectionStep DEF DoneToWriter
<1> QED BY <1>1, <1>2, <1>3, <1>4, <1>5, <1>6, <1>7, <1>8 DEF ReaderStep

(* Connect counts the connection it begins. *)
LEMMA ConnectTypeInv == ASSUME TypeInv, NEW c \in Clients, Connect(c) PROVE TypeInv'
<1> USE DEF TypeInv, TypeOK
<1>1. Connected' = Connected \cup {c} /\ c \notin Connected
  BY DEF Connect, Connected
<1>2. Cardinality(Connected') = Cardinality(Connected) + 1
  BY <1>1, ConnectedCount, FS_AddElement
<1>3. CountInv'
  BY <1>2 DEF Connect, CountInv
<1>4. maxId' \in 0 .. Cardinality(Clients)
  <2>1. Connected' \subseteq Clients
    BY <1>1 DEF Connected
  <2>2. Cardinality(Connected') <= Cardinality(Clients) /\ Cardinality(Connected') \in Nat
    BY <2>1, Numbers, FS_Subset, FS_CardinalityType
  <2> QED BY <1>3, <2>2 DEF CountInv
<1>5. conn' \in [Clients -> ConnStates] /\ reader' \in [Clients -> ReaderLabels]
  BY DEF Connect, ConnStates, ReaderLabels, ReaderTo
<1>6. TypeOK'
  BY <1>4, <1>5 DEF Connect, subVars
<1>7. DeliverInv'
  BY DEF Connect, subVars, DeliverInv
<1>8. BeginInv'
  BY DEF Connect, BeginInv, ReaderTo
<1> QED BY <1>3, <1>6, <1>7, <1>8

(* listenWrite takes the first message of the channel; the reader answers into it. *)
LEMMA ChannelTypeInv ==
  ASSUME TypeInv, NEW c \in Clients, WriterSends(c) \/ SendReply(c)
  PROVE  TypeInv'
<1> USE DEF TypeInv, TypeOK
<1>1. CASE WriterSends(c)
  <2>1. ch[c] \in Seq(Message) /\ ch[c] # <<>> /\ sent[c] \in Seq(Message)
    BY <1>1 DEF WriterSends
  <2>2. /\ Head(ch[c]) \in Message /\ Tail(ch[c]) \in Seq(Message)
        /\ Len(Tail(ch[c])) = Len(ch[c]) - 1
        /\ Append(sent[c], Head(ch[c])) \in Seq(Message)
    BY <2>1
  <2>3. ch' \in [Clients -> Seq(Message)] /\ sent' \in [Clients -> Seq(Message)]
    BY <1>1, <2>2 DEF WriterSends
  <2>4. \A d \in Clients : Len(ch'[d]) <= ChannelBufSize
    BY <1>1, <2>1, <2>2, Numbers DEF WriterSends
  <2>5. DeliverInv'
    BY <1>1 DEF WriterSends, subVars, DeliverInv
  <2> QED BY <1>1, <2>3, <2>4, <2>5, MessageStep DEF WriterSends, subVars
<1>2. CASE SendReply(c)
  <2>1. Reply \in Message /\ Append(ch[c], Reply) \in Seq(Message)
        /\ Len(Append(ch[c], Reply)) = Len(ch[c]) + 1
    BY DEF Message
  <2>2. ch' \in [Clients -> Seq(Message)]
    BY <1>2, <2>1 DEF SendReply
  <2>3. \A d \in Clients : Len(ch'[d]) <= ChannelBufSize
    BY <1>2, <2>1, Numbers DEF SendReply
  <2>4. DeliverInv' /\ reader' \in [Clients -> ReaderLabels]
    BY <1>2 DEF SendReply, subVars, DeliverInv, ReaderTo, ReaderLabels
  <2> QED BY <1>2, <2>2, <2>3, <2>4, MessageStep DEF SendReply, subVars, ReaderTo
<1> QED BY <1>1, <1>2

(* An event that is published goes to the end of queues. *)
LEMMA PublishedType ==
  ASSUME TypeInv, NEW t \in Topics, NEW type \in EventTypes, Published(t, type)
  PROVE  /\ events' \in Seq(Event) /\ Len(events') = Len(events) + 1
         /\ sub' \in [Subscriptions -> Subscription]
         /\ Len(events) + 1 \in 1 .. MaxEvents
         /\ \A s \in Subscriptions :
              /\ sub'[s].at = sub[s].at
              /\ sub'[s].queue \in {sub[s].queue, Append(sub[s].queue, Len(events) + 1)}
         /\ DeliverInv'
<1> USE DEF TypeInv, TypeOK
<1>1. [topic |-> t, type |-> type] \in Event
  BY DEF Event
<1>2. events' \in Seq(Event) /\ Len(events') = Len(events) + 1 /\ Len(events) \in Nat
  BY <1>1 DEF Published
<1>3. Len(events) + 1 \in 1 .. MaxEvents
  BY <1>2, Numbers DEF Published
<1>4. ASSUME NEW s \in Subscriptions
      PROVE  /\ sub'[s] \in Subscription
             /\ sub'[s].at = sub[s].at
             /\ sub'[s].queue \in {sub[s].queue, Append(sub[s].queue, Len(events) + 1)}
  <2>1. sub[s] \in Subscription /\ sub[s].queue \in Seq(1 .. MaxEvents)
    BY DEF Subscription
  <2>2. Append(sub[s].queue, Len(events) + 1) \in Seq(1 .. MaxEvents)
    BY <1>3, <2>1
  <2>3. sub'[s] \in {sub[s], [sub[s] EXCEPT !.queue = Append(sub[s].queue, Len(events) + 1)]}
    BY DEF Published
  <2>4. [sub[s] EXCEPT !.queue = Append(sub[s].queue, Len(events) + 1)] \in Subscription
    BY <2>1, <2>2 DEF Subscription
  <2>5. CASE sub'[s] = sub[s] BY <2>1, <2>5
  <2>6. CASE sub'[s] = [sub[s] EXCEPT !.queue = Append(sub[s].queue, Len(events) + 1)]
    BY <2>1, <2>2, <2>4, <2>6 DEF Subscription
  <2> QED BY <2>3, <2>5, <2>6
<1>5. sub' \in [Subscriptions -> Subscription]
  <2>1. sub' = [s \in Subscriptions |-> sub'[s]]
    BY DEF Published
  <2> QED BY <1>4, <2>1
<1>6. DeliverInv'
  <2> SUFFICES ASSUME NEW s \in Subscriptions, sub'[s].at = "deliver" PROVE sub'[s].queue # <<>>
    BY DEF DeliverInv
  <2>1. sub[s].queue # <<>> /\ sub[s].queue \in Seq(1 .. MaxEvents)
    BY <1>4 DEF DeliverInv, Subscription
  <2>2. Len(Append(sub[s].queue, Len(events) + 1)) # 0
    BY <2>1
  <2> QED BY <1>4, <2>1, <2>2
<1> QED BY <1>2, <1>3, <1>4, <1>5, <1>6

(* A command of the peer: counted, and the reader goes back to its loop, or panics and
   closes the connection. *)
LEMMA CommandTypes ==
  ASSUME TypeInv, NEW c \in Clients, Command(c)
  PROVE  /\ commands' \in [Clients -> 0 .. MaxCommands]
         /\ \A label \in {"select", "reply", "panicked"} :
              ReaderTo(c, label) => /\ reader' \in [Clients -> ReaderLabels]
                                    /\ \A d \in Clients : reader[d] = "idle" => reader'[d] = "idle"
<1>1. commands' \in [Clients -> 0 .. MaxCommands]
  BY Numbers DEF TypeInv, TypeOK, Command
<1>2. ASSUME NEW label \in {"select", "reply", "panicked"}, ReaderTo(c, label)
      PROVE  /\ reader' \in [Clients -> ReaderLabels]
             /\ \A d \in Clients : reader[d] = "idle" => reader'[d] = "idle"
  BY <1>2 DEF TypeInv, TypeOK, Command, ReaderTo, ReaderLabels
<1> QED BY <1>1, <1>2

(* Subscribe makes subscriptions of the next epoch. *)
LEMMA SubscribeTypeInv ==
  ASSUME TypeInv, NEW c \in Clients, NEW list \in TopicLists,
         NEW type \in EventTypes \cup {AnyType}, Subscribe(c, list, type)
  PROVE  TypeInv'
<1> USE DEF TypeInv, TypeOK
<1> DEFINE unknown == FirstUnknown(c, list)
           new == {list[i] : i \in {j \in DOMAIN list : /\ entry[c][list[j]] = 0
                                                        /\ unknown = 0 \/ j < unknown}}
           made2 == [t \in Topics |-> made[c][t] + IF t \in new THEN 1 ELSE 0]
           joins(s) == s[1] = c /\ s[2] \in new /\ s[3] = made2[s[2]]
           joined(s) == [NotMade EXCEPT !.at = "joining",
                           !.filter = IF s[2] = list[FirstWanted(c, list)] THEN type ELSE AnyType]
<1>1. /\ Command(c)
      /\ \A t \in new : made[c][t] < MaxEpochs
      /\ made' = [made EXCEPT ![c] = made2]
      /\ entry' = [entry EXCEPT ![c] = [t \in Topics |-> IF t \in new THEN made2[t] ELSE @[t]]]
      /\ sub' = [s \in Subscriptions |-> IF joins(s) THEN joined(s) ELSE sub[s]]
      /\ IF unknown = 0
         THEN ReaderTo(c, "select") /\ UNCHANGED conn
         ELSE ReaderTo(c, "panicked") /\ conn' = [conn EXCEPT ![c] = "closed"]
      /\ UNCHANGED <<topicMap, maxId, id, hub, writer, ch, events, sent>>
  BY DEF Subscribe
<1>2. made2 \in [Topics -> 0 .. MaxEpochs]
  <2> SUFFICES ASSUME NEW t \in Topics PROVE made[c][t] + (IF t \in new THEN 1 ELSE 0) \in 0 .. MaxEpochs
    OBVIOUS
  <2>1. t \in new => made[c][t] < MaxEpochs
    BY <1>1
  <2>2. made[c][t] \in 0 .. MaxEpochs
    OBVIOUS
  <2> HIDE DEF new
  <2> QED BY <2>1, <2>2, Numbers
<1>3. made' \in [Clients -> [Topics -> 0 .. MaxEpochs]]
  BY <1>1, <1>2
<1>4. entry' \in [Clients -> [Topics -> 0 .. MaxEpochs]]
  <2> HIDE DEF new, made2
  <2>1. [t \in Topics |-> IF t \in new THEN made2[t] ELSE entry[c][t]] \in [Topics -> 0 .. MaxEpochs]
    BY <1>2
  <2> QED BY <1>1, <2>1
<1>5. \A s \in Subscriptions : joined(s) \in Subscription /\ joined(s).at = "joining"
  BY NotMadeIsOne
<1>6. sub' \in [Subscriptions -> Subscription] /\ DeliverInv'
  <2> HIDE DEF joined, joins
  <2>1. \A s \in Subscriptions : sub'[s] \in {sub[s], joined(s)} /\ sub'[s] \in Subscription
    BY <1>1, <1>5
  <2>2. sub' = [s \in Subscriptions |-> sub'[s]]
    BY <1>1
  <2> QED BY <1>5, <2>1, <2>2 DEF DeliverInv
<1>7. conn' \in [Clients -> ConnStates] /\ \A d \in Clients : conn'[d] = "none" <=> conn[d] = "none"
  <2> HIDE DEF unknown
  <2>1. conn' \in {conn, [conn EXCEPT ![c] = "closed"]} /\ conn[c] = "open"
    BY <1>1 DEF Command
  <2> QED BY <2>1 DEF ConnStates
<1>8. /\ commands' \in [Clients -> 0 .. MaxCommands]
      /\ reader' \in [Clients -> ReaderLabels]
      /\ \A d \in Clients : reader[d] = "idle" => reader'[d] = "idle"
  <2> HIDE DEF unknown
  <2>1. ReaderTo(c, "select") \/ ReaderTo(c, "panicked")
    BY <1>1
  <2> QED BY <1>1, <2>1, CommandTypes
<1> HIDE DEF unknown, new, made2, joins, joined
<1> QED BY <1>1, <1>3, <1>4, <1>6, <1>7, <1>8, MessageStep

(* The other commands. *)
LEMMA CommandTypeInv ==
  ASSUME TypeInv, NEW c \in Clients, ClientCommand(c)
  PROVE  TypeInv'
<1> USE DEF TypeInv, TypeOK
<1>1. ASSUME NEW list \in TopicLists, NEW type \in EventTypes \cup {AnyType}, Subscribe(c, list, type)
      PROVE  TypeInv'
  BY <1>1, SubscribeTypeInv
<1>2. ASSUME NEW topics \in SUBSET Topics, Unsubscribe(c, topics) PROVE TypeInv'
  <2>1. entry' \in [Clients -> [Topics -> 0 .. MaxEpochs]]
    BY <1>2, Numbers, SMTT(30) DEF Unsubscribe
  <2>2. ASSUME NEW s \in Subscriptions
        PROVE  sub'[s] \in Subscription /\ sub'[s].at = sub[s].at /\ sub'[s].queue = sub[s].queue
    <3>1. <<>> \in Seq(1 .. MaxEvents) /\ sub[s] \in Subscription
      OBVIOUS
    <3>2. sub'[s] \in {sub[s], [sub[s] EXCEPT !.closed = TRUE]}
      BY <1>2 DEF Unsubscribe
    <3>3. /\ [sub[s] EXCEPT !.closed = TRUE] \in Subscription
          /\ [sub[s] EXCEPT !.closed = TRUE].at = sub[s].at
          /\ [sub[s] EXCEPT !.closed = TRUE].queue = sub[s].queue
      BY <3>1 DEF Subscription
    <3> QED BY <3>1, <3>2, <3>3
  <2>3. sub' = [s \in Subscriptions |-> sub'[s]]
    BY <1>2 DEF Unsubscribe
  <2>4. sub' \in [Subscriptions -> Subscription] /\ DeliverInv'
    BY <2>2, <2>3 DEF DeliverInv
  <2> QED BY <1>2, <2>1, <2>4, CommandTypes, MessageStep DEF Unsubscribe
<1>3. ASSUME NEW t \in Topics, CreateTopic(c, t) \/ DestroyTopic(c, t) PROVE TypeInv'
  BY <1>3, CommandTypes, ConnectionStep DEF CreateTopic, DestroyTopic
<1>4. ASSUME NEW t \in Topics, PublishMessage(c, t) PROVE TypeInv'
  <2>1. ReaderTo(c, "select") /\ Command(c)
        /\ UNCHANGED <<topicMap, conn, maxId, id, hub, writer, ch, entry, made, sent>>
    BY <1>4 DEF PublishMessage
  <2>2. CASE t \in topicMap
    <3>1. Published(t, NewMessage) /\ NewMessage \in EventTypes
      BY <1>4, <2>2 DEF PublishMessage, EventTypes
    <3> QED BY <2>1, <3>1, PublishedType, CommandTypes, MessageStep
  <2>3. CASE t \notin topicMap
    <3>1. UNCHANGED <<events, sub>>
      BY <1>4, <2>3 DEF PublishMessage
    <3>2. DeliverInv'
      BY <3>1 DEF DeliverInv
    <3> QED BY <2>1, <3>1, <3>2, CommandTypes, MessageStep
  <2> QED BY <2>2, <2>3
<1>5. ASSUME ListTopics(c) PROVE TypeInv'
  BY <1>5, CommandTypes, ConnectionStep DEF ListTopics
<1>6. ASSUME ReceiveInvalid(c) PROVE TypeInv'
  <2>1. Command(c) /\ ReaderTo(c, "select")
    BY <1>6 DEF ReceiveInvalid, Command
  <2> QED BY <1>6, <2>1, CommandTypes, ConnectionStep DEF ReceiveInvalid
<1> QED BY <1>1, <1>2, <1>3, <1>4, <1>5, <1>6 DEF ClientCommand

(* The goroutines of the subscriptions. *)
LEMMA SubscriptionTypeInv ==
  ASSUME TypeInv, NEW s \in Subscriptions,
         SubscriptionStep(s) \/ SkipEvent(s) \/ Deliver(s)
  PROVE  TypeInv'
<1> USE DEF TypeInv, TypeOK
<1>1. sub[s] \in Subscription /\ sub[s].queue \in Seq(1 .. MaxEvents) /\ <<>> \in Seq(1 .. MaxEvents)
  BY DEF Subscription
<1>2. sub[s].queue # <<>> => /\ Tail(sub[s].queue) \in Seq(1 .. MaxEvents)
                             /\ Head(sub[s].queue) \in 1 .. MaxEvents
  BY <1>1, HeadTailProperties
<1>3. ASSUME NEW x \in Subscription, sub' = [sub EXCEPT ![s] = x], x.at = "deliver" => x.queue # <<>>
      PROVE  sub' \in [Subscriptions -> Subscription] /\ DeliverInv'
  BY <1>3 DEF DeliverInv
<1>4. ASSUME SubGoesOn, UNCHANGED ch, sub' \in [Subscriptions -> Subscription], DeliverInv'
      PROVE  TypeInv'
  BY <1>4, MessageStep DEF SubGoesOn
<1>5. CASE Join(s)
  <2>1. sub' = [sub EXCEPT ![s] = [sub[s] EXCEPT !.at = "listen"]]
    BY <1>5 DEF Join
  <2>2. [sub[s] EXCEPT !.at = "listen"] \in Subscription /\ [sub[s] EXCEPT !.at = "listen"].at = "listen"
    BY <1>1 DEF Subscription
  <2> QED BY <1>3, <1>4, <1>5, <2>1, <2>2 DEF Join
<1>6. CASE SkipEvent(s)
  <2>1. sub' = [sub EXCEPT ![s] = [sub[s] EXCEPT !.queue = Tail(sub[s].queue)]] /\ sub[s].at = "listen"
    BY <1>6 DEF SkipEvent
  <2>2. /\ [sub[s] EXCEPT !.queue = Tail(sub[s].queue)] \in Subscription
        /\ [sub[s] EXCEPT !.queue = Tail(sub[s].queue)].at = sub[s].at
    BY <1>1, <1>2, <1>6 DEF SkipEvent, Subscription
  <2> QED BY <1>3, <1>4, <1>6, <2>1, <2>2 DEF SkipEvent
<1>7. CASE TakeEvent(s)
  <2>1. /\ [sub[s] EXCEPT !.at = "deliver"] \in Subscription
        /\ [sub[s] EXCEPT !.at = "deliver"].queue = sub[s].queue
        /\ [sub[s] EXCEPT !.at = "ended", !.queue = <<>>] \in Subscription
        /\ [sub[s] EXCEPT !.at = "ended", !.queue = <<>>].at = "ended"
    BY <1>1 DEF Subscription
  <2>2. sub[s].queue # <<>>
    BY <1>7 DEF TakeEvent
  <2>3. \/ sub' = [sub EXCEPT ![s] = [sub[s] EXCEPT !.at = "deliver"]]
        \/ sub' = [sub EXCEPT ![s] = [sub[s] EXCEPT !.at = "ended", !.queue = <<>>]]
    BY <1>7 DEF TakeEvent
  <2>4. sub' \in [Subscriptions -> Subscription] /\ DeliverInv'
    BY <1>3, <2>1, <2>2, <2>3
  <2> QED BY <1>4, <1>7, <2>4 DEF TakeEvent
<1>8. CASE EndSubscription(s)
  <2>1. sub' = [sub EXCEPT ![s] = [sub[s] EXCEPT !.at = "ended", !.queue = <<>>]]
    BY <1>8 DEF EndSubscription
  <2>2. /\ [sub[s] EXCEPT !.at = "ended", !.queue = <<>>] \in Subscription
        /\ [sub[s] EXCEPT !.at = "ended", !.queue = <<>>].at = "ended"
    BY <1>1 DEF Subscription
  <2> QED BY <1>3, <1>4, <1>8, <2>1, <2>2 DEF EndSubscription
<1>9. CASE Deliver(s)
  <2>1. s[1] \in Clients /\ sub[s].queue # <<>>
    BY <1>9, SubscriptionParts DEF Deliver, DeliverInv
  <2>2. sub' = [sub EXCEPT ![s] = [sub[s] EXCEPT !.at = "listen", !.queue = Tail(sub[s].queue)]]
    BY <1>9 DEF Deliver
  <2>3. /\ [sub[s] EXCEPT !.at = "listen", !.queue = Tail(sub[s].queue)] \in Subscription
        /\ [sub[s] EXCEPT !.at = "listen", !.queue = Tail(sub[s].queue)].at = "listen"
    BY <1>1, <1>2, <2>1 DEF Subscription
  <2>4. sub' \in [Subscriptions -> Subscription] /\ DeliverInv'
    BY <1>3, <2>2, <2>3
  <2>5. [n |-> Head(sub[s].queue), of |-> s] \in Message
    BY <1>2, <2>1 DEF Message
  <2>6. /\ Append(ch[s[1]], [n |-> Head(sub[s].queue), of |-> s]) \in Seq(Message)
        /\ Len(Append(ch[s[1]], [n |-> Head(sub[s].queue), of |-> s])) = Len(ch[s[1]]) + 1
    BY <2>1, <2>5
  <2>7. ch' \in [Clients -> Seq(Message)]
    BY <1>9, <2>6 DEF Deliver
  <2>8. \A d \in Clients : Len(ch'[d]) <= ChannelBufSize
    BY <1>9, <2>1, <2>6, Numbers, SMTT(30) DEF Deliver
  <2> QED BY <1>9, <2>4, <2>7, <2>8, MessageStep DEF Deliver, SubGoesOn
<1> QED BY <1>5, <1>6, <1>7, <1>8, <1>9 DEF SubscriptionStep

(* Every step keeps types, counts and places. *)
LEMMA NextTypeInv == ASSUME TypeInv, [Next]_vars PROVE TypeInv'
<1>1. ASSUME NEW t \in Topics, NEW type \in RowEvents, PublishRowEvent(t, type) PROVE TypeInv'
  <2>1. type \in EventTypes /\ Published(t, type)
    BY <1>1 DEF PublishRowEvent, EventTypes
  <2> QED BY <1>1, <2>1, PublishedType, MessageStep DEF PublishRowEvent, TypeInv, TypeOK
<1>2. ASSUME UNCHANGED vars PROVE TypeInv'
  BY <1>2, ConnectionStep DEF vars, subVars, TypeInv, TypeOK
<1> QED
  BY <1>1, <1>2, GoroutinesTypeInv, ConnectTypeInv, ChannelTypeInv, CommandTypeInv, SubscriptionTypeInv
  DEF Next

(* Every variable of the websocket server keeps its type, the channel its capacity, and
   NewClient's counter stays within the number of connections. *)
THEOREM TypeCorrect == Spec => []TypeOK
<1>1. TypeInv => TypeOK
  BY DEF TypeInv
<1> QED BY <1>1, InitTypeInv, NextTypeInv, PTL DEF Spec
-----------------------------------------------------------------------------
(* The order of the messages. Of two messages of one subscription the earlier event
   comes first: among those sent, among those in client.ch, between the two, and
   before whatever still waits in the queue of the subscription. *)
Before(a, b) == (a.of = b.of /\ a # Reply) => a.n < b.n
Increasing(ms) == \A i, j \in DOMAIN ms : i < j => Before(ms[i], ms[j])

WireInv ==
  \A c \in Clients :
    /\ Increasing(sent[c])
    /\ Increasing(ch[c])
    /\ \A i \in DOMAIN sent[c], j \in DOMAIN ch[c] : Before(sent[c][i], ch[c][j])

Ascending(queue) == \A i, j \in DOMAIN queue : i < j => queue[i] < queue[j]

(* What the subscriptions of c have handed over so far, unless it was lost. *)
Handed(c) == {ch[c][i] : i \in DOMAIN ch[c]} \cup {sent[c][i] : i \in DOMAIN sent[c]}

Awaits(s) ==
  /\ Ascending(sub[s].queue)
  /\ \A i \in DOMAIN sub[s].queue : sub[s].queue[i] <= Len(events)
  /\ \A m \in Handed(s[1]), i \in DOMAIN sub[s].queue : m.of = s => m.n < sub[s].queue[i]

QueueInv == \A s \in Subscriptions : Awaits(s)

NumbersInv == \A c \in Clients : \A m \in Handed(c) : m.n <= Len(events)

OrderInv == TypeInv /\ WireInv /\ QueueInv /\ NumbersInv

(* A message behind all it must follow keeps a sequence increasing. *)
LEMMA AppendIncreasing ==
  ASSUME NEW ms \in Seq(Message), NEW m \in Message, Increasing(ms),
         \A i \in DOMAIN ms : Before(ms[i], m)
  PROVE  Increasing(Append(ms, m))
<1> SUFFICES ASSUME NEW i \in DOMAIN Append(ms, m), NEW j \in DOMAIN Append(ms, m), i < j
             PROVE  Before(Append(ms, m)[i], Append(ms, m)[j])
  BY DEF Increasing
<1>1. /\ i \in 1 .. Len(ms) /\ Append(ms, m)[i] = ms[i]
      /\ j \in 1 .. Len(ms) => Append(ms, m)[j] = ms[j]
      /\ j \notin 1 .. Len(ms) => Append(ms, m)[j] = m
  OBVIOUS
<1>2. DOMAIN ms = 1 .. Len(ms)
  OBVIOUS
<1>3. CASE j \in 1 .. Len(ms)
  BY <1>1, <1>2, <1>3 DEF Increasing
<1>4. CASE j \notin 1 .. Len(ms)
  BY <1>1, <1>2, <1>4
<1> QED BY <1>3, <1>4

(* So does taking the first message away; every other one follows it. *)
LEMMA TailIncreasing ==
  ASSUME NEW ms \in Seq(Message), ms # <<>>, Increasing(ms)
  PROVE  /\ Increasing(Tail(ms))
         /\ \A i \in DOMAIN Tail(ms) : Before(Head(ms), Tail(ms)[i])
         /\ \A i \in DOMAIN Tail(ms) : \E j \in DOMAIN ms : Tail(ms)[i] = ms[j]
         /\ 1 \in DOMAIN ms /\ Head(ms) = ms[1]
<1>1. /\ Tail(ms) \in Seq(Message) /\ Len(Tail(ms)) = Len(ms) - 1
      /\ \A i \in 1 .. Len(Tail(ms)) : Tail(ms)[i] = ms[i + 1]
  BY HeadTailProperties
<1>2. DOMAIN ms = 1 .. Len(ms) /\ DOMAIN Tail(ms) = 1 .. Len(Tail(ms)) /\ Len(ms) \in Nat \ {0}
      /\ Head(ms) = ms[1]
  BY <1>1, EmptySeq
<1>3. \A i \in DOMAIN Tail(ms) : i + 1 \in DOMAIN ms /\ 1 < i + 1 /\ i \in Nat
  BY <1>1, <1>2
<1> QED BY <1>1, <1>2, <1>3 DEF Increasing

(* The same for the numbers of a queue. *)
LEMMA QueueTail ==
  ASSUME NEW q \in Seq(1 .. MaxEvents), q # <<>>, Ascending(q)
  PROVE  /\ Ascending(Tail(q))
         /\ \A i \in DOMAIN Tail(q) : Head(q) < Tail(q)[i]
         /\ \A i \in DOMAIN Tail(q) : \E j \in DOMAIN q : Tail(q)[i] = q[j]
         /\ 1 \in DOMAIN q /\ Head(q) = q[1]
<1>1. /\ Tail(q) \in Seq(1 .. MaxEvents) /\ Len(Tail(q)) = Len(q) - 1
      /\ \A i \in 1 .. Len(Tail(q)) : Tail(q)[i] = q[i + 1]
  BY HeadTailProperties
<1>2. DOMAIN q = 1 .. Len(q) /\ DOMAIN Tail(q) = 1 .. Len(Tail(q)) /\ Len(q) \in Nat \ {0}
      /\ Head(q) = q[1]
  BY <1>1, EmptySeq
<1>3. \A i \in DOMAIN Tail(q) : i + 1 \in DOMAIN q /\ 1 < i + 1 /\ i \in Nat
  BY <1>1, <1>2
<1> QED BY <1>1, <1>2, <1>3 DEF Ascending
(* At the start there is nothing to order. *)
LEMMA InitOrderInv == Init => OrderInv
<1> SUFFICES ASSUME Init PROVE OrderInv
  OBVIOUS
<1>1. \A c \in Clients : ch[c] = <<>> /\ sent[c] = <<>>
  BY DEF Init
<1>2. \A s \in Subscriptions : sub[s].queue = <<>>
  BY NotMadeIsOne DEF Init
<1>3. WireInv
  BY <1>1 DEF WireInv, Increasing
<1>4. QueueInv
  BY <1>2 DEF QueueInv, Awaits, Ascending
<1>5. NumbersInv
  BY <1>1 DEF NumbersInv, Handed
<1> QED BY <1>3, <1>4, <1>5, InitTypeInv DEF OrderInv

(* A step that hands nothing over and at most takes from the queues keeps the order. *)
LEMMA QueuesShrink ==
  ASSUME OrderInv, TypeInv', UNCHANGED <<ch, sent, events>>,
         \A s \in Subscriptions :
           \/ sub'[s].queue \in {sub[s].queue, <<>>}
           \/ sub[s].queue # <<>> /\ sub'[s].queue = Tail(sub[s].queue)
  PROVE  OrderInv'
<1>1. WireInv' /\ NumbersInv'
  BY DEF OrderInv, WireInv, NumbersInv, Handed
<1>2. ASSUME NEW s \in Subscriptions PROVE Awaits(s)'
  <2>1. Awaits(s) /\ sub[s].queue \in Seq(1 .. MaxEvents)
    BY DEF OrderInv, QueueInv, TypeInv, TypeOK, Subscription
  <2>2. Handed(s[1])' = Handed(s[1])
    BY DEF Handed
  <2>3. CASE sub'[s].queue = sub[s].queue
    BY <2>1, <2>2, <2>3 DEF Awaits
  <2>4. CASE sub'[s].queue = <<>>
    BY <2>4 DEF Awaits, Ascending
  <2>5. CASE sub[s].queue # <<>> /\ sub'[s].queue = Tail(sub[s].queue)
    <3>1. Ascending(sub'[s].queue)
          /\ \A i \in DOMAIN sub'[s].queue : \E j \in DOMAIN sub[s].queue : sub'[s].queue[i] = sub[s].queue[j]
      BY <2>1, <2>5, QueueTail DEF Awaits
    <3> QED BY <2>1, <2>2, <3>1 DEF Awaits
  <2> QED BY <2>3, <2>4, <2>5
<1> QED BY <1>1, <1>2 DEF OrderInv, QueueInv

(* An event that is published comes after all that was. *)
LEMMA PublishedOrder ==
  ASSUME OrderInv, TypeInv', UNCHANGED <<ch, sent>>,
         NEW t \in Topics, NEW type \in EventTypes, Published(t, type)
  PROVE  OrderInv'
<1>1. WireInv'
  BY DEF OrderInv, WireInv
<1> DEFINE next == Len(events) + 1
<1>2. /\ Len(events') = next /\ Len(events) \in Nat
      /\ \A s \in Subscriptions : sub'[s].queue \in {sub[s].queue, Append(sub[s].queue, next)}
  BY PublishedType DEF OrderInv, TypeInv, TypeOK
<1>3. \A c : Handed(c)' = Handed(c)
  BY DEF Handed
<1>4. NumbersInv'
  <2> SUFFICES ASSUME NEW c \in Clients, NEW m \in Handed(c) PROVE m.n <= next
    BY <1>2, <1>3 DEF NumbersInv
  <2>1. m.n <= Len(events) /\ m \in Message
    BY SMTT(30) DEF NumbersInv, OrderInv, Handed, TypeInv, TypeOK
  <2>2. m.n \in Nat
    BY <2>1, Numbers DEF Message, Reply
  <2> QED BY <1>2, <2>1, <2>2
<1>5. ASSUME NEW s \in Subscriptions PROVE Awaits(s)'
  <2>1. Awaits(s) /\ sub[s].queue \in Seq(1 .. MaxEvents) /\ s[1] \in Clients
    BY SubscriptionParts DEF OrderInv, QueueInv, TypeInv, TypeOK, Subscription
  <2>2. \A i \in DOMAIN sub[s].queue : sub[s].queue[i] \in Nat /\ sub[s].queue[i] < next
    BY <1>2, <2>1, Numbers DEF Awaits
  <2>3. CASE sub'[s].queue = sub[s].queue
    BY <1>2, <1>3, <2>1, <2>2, <2>3 DEF Awaits
  <2>4. CASE sub'[s].queue = Append(sub[s].queue, next)
    <3>1. \A i \in DOMAIN sub'[s].queue :
             \/ i \in DOMAIN sub[s].queue /\ sub'[s].queue[i] = sub[s].queue[i]
             \/ i = Len(sub[s].queue) + 1 /\ sub'[s].queue[i] = next
      BY <1>2, <2>1, <2>4
    <3>2. DOMAIN sub[s].queue = 1 .. Len(sub[s].queue) /\ Len(sub[s].queue) \in Nat
      BY <2>1
    <3>3. Ascending(sub'[s].queue)
      <4> SUFFICES ASSUME NEW i \in DOMAIN sub'[s].queue, NEW j \in DOMAIN sub'[s].queue, i < j
                   PROVE  sub'[s].queue[i] < sub'[s].queue[j]
        BY DEF Ascending
      <4>1. i \in DOMAIN sub[s].queue /\ sub'[s].queue[i] = sub[s].queue[i]
        BY <1>2, <2>1, <2>4
      <4>2. CASE j \in DOMAIN sub[s].queue /\ sub'[s].queue[j] = sub[s].queue[j]
        BY <2>1, <4>1, <4>2 DEF Awaits, Ascending
      <4>3. CASE sub'[s].queue[j] = next
        BY <2>2, <4>1, <4>3
      <4> QED BY <3>1, <4>2, <4>3
    <3>4. \A i \in DOMAIN sub'[s].queue : sub'[s].queue[i] <= next
      BY <1>2, <2>2, <3>1
    <3>5. \A m \in Handed(s[1]), i \in DOMAIN sub'[s].queue : m.of = s => m.n < sub'[s].queue[i]
      <4> SUFFICES ASSUME NEW m \in Handed(s[1]), NEW i \in DOMAIN sub'[s].queue, m.of = s
                   PROVE  m.n < sub'[s].queue[i]
        OBVIOUS
      <4>1. m.n <= Len(events) /\ m \in Message
        BY <2>1, SMTT(30) DEF NumbersInv, OrderInv, Handed, TypeInv, TypeOK
      <4>2. m.n \in Nat
        BY <4>1, Numbers DEF Message, Reply
      <4> QED BY <1>2, <2>1, <3>1, <4>1, <4>2 DEF Awaits
    <3> QED BY <1>2, <1>3, <3>3, <3>4, <3>5 DEF Awaits
  <2> QED BY <1>2, <2>3, <2>4
<1> QED BY <1>1, <1>4, <1>5 DEF OrderInv, QueueInv

(* listenWrite moves the first message of the channel to the wire, or loses it. *)
LEMMA WriterOrder ==
  ASSUME OrderInv, TypeInv', NEW c \in Clients, WriterSends(c)
  PROVE  OrderInv'
<1>1. ch \in [Clients -> Seq(Message)] /\ sent \in [Clients -> Seq(Message)]
  BY DEF OrderInv, TypeInv, TypeOK
<1>2. ch[c] # <<>> /\ ch' = [ch EXCEPT ![c] = Tail(ch[c])] /\ UNCHANGED <<sub, events>>
      /\ sent' \in {sent, [sent EXCEPT ![c] = Append(sent[c], Head(ch[c]))]}
  BY DEF WriterSends, subVars
<1>3. Increasing(ch[c]) /\ Increasing(sent[c])
      /\ \A i \in DOMAIN sent[c], j \in DOMAIN ch[c] : Before(sent[c][i], ch[c][j])
  BY DEF OrderInv, WireInv
<1>4. /\ Increasing(Tail(ch[c]))
      /\ \A i \in DOMAIN Tail(ch[c]) : Before(Head(ch[c]), Tail(ch[c])[i])
      /\ \A i \in DOMAIN Tail(ch[c]) : \E j \in DOMAIN ch[c] : Tail(ch[c])[i] = ch[c][j]
      /\ 1 \in DOMAIN ch[c] /\ Head(ch[c]) = ch[c][1] /\ Head(ch[c]) \in Message
  BY <1>1, <1>2, <1>3, TailIncreasing, HeadTailProperties
<1> DEFINE longer == Append(sent[c], Head(ch[c]))
<1>5. /\ Increasing(longer)
      /\ \A i \in DOMAIN longer : longer[i] = Head(ch[c]) \/ \E j \in DOMAIN sent[c] : longer[i] = sent[c][j]
  <2>1. sent[c] \in Seq(Message) /\ \A i \in DOMAIN sent[c] : Before(sent[c][i], Head(ch[c]))
    BY <1>1, <1>3, <1>4
  <2>2. Increasing(longer)
    BY <1>3, <1>4, <2>1, AppendIncreasing
  <2> QED BY <1>4, <2>1, <2>2
<1> HIDE DEF longer
<1>6. WireInv'
  <2> SUFFICES ASSUME NEW d \in Clients
               PROVE  /\ Increasing(sent'[d]) /\ Increasing(ch'[d])
                      /\ \A i \in DOMAIN sent'[d], j \in DOMAIN ch'[d] : Before(sent'[d][i], ch'[d][j])
    BY DEF WireInv, Increasing
  <2>1. CASE d # c
    BY <1>1, <1>2, <2>1 DEF OrderInv, WireInv, longer
  <2>2. CASE d = c
    <3>1. ch'[c] = Tail(ch[c]) /\ sent'[c] \in {sent[c], longer}
      BY <1>1, <1>2 DEF longer
    <3>2. Increasing(sent'[c]) /\ Increasing(ch'[c])
      BY <1>3, <1>4, <1>5, <3>1
    <3>3. ASSUME NEW i \in DOMAIN sent'[c], NEW j \in DOMAIN ch'[c]
          PROVE  Before(sent'[c][i], ch'[c][j])
      <4>1. \/ sent'[c][i] = Head(ch[c]) \/ \E k \in DOMAIN sent[c] : sent'[c][i] = sent[c][k]
        BY <1>5, <3>1
      <4> QED BY <1>3, <1>4, <3>1, <4>1
    <3> QED BY <2>2, <3>2, <3>3
  <2> QED BY <2>1, <2>2
<1>7. \A d \in Clients : Handed(d)' \subseteq Handed(d)
  <2> SUFFICES ASSUME NEW d \in Clients, NEW m \in Handed(d)' PROVE m \in Handed(d)
    OBVIOUS
  <2>1. CASE d # c
    BY <1>1, <1>2, <2>1 DEF Handed
  <2>2. CASE d = c
    <3>1. ch'[c] = Tail(ch[c]) /\ sent'[c] \in {sent[c], longer}
      BY <1>1, <1>2 DEF longer
    <3> QED BY <1>4, <1>5, <2>2, <3>1 DEF Handed
  <2> QED BY <2>1, <2>2
<1>8. NumbersInv'
  BY <1>2, <1>7 DEF OrderInv, NumbersInv
<1>9. QueueInv'
  BY <1>2, <1>7, SubscriptionParts DEF OrderInv, QueueInv, Awaits
<1> QED BY <1>6, <1>8, <1>9 DEF OrderInv

(* A message enters a channel with room, behind what its subscription handed over. *)
LEMMA EntersChannel ==
  ASSUME OrderInv, TypeInv', NEW c \in Clients, NEW m \in Message,
         ch' = [ch EXCEPT ![c] = Append(ch[c], m)], UNCHANGED <<sent, events>>,
         \A x \in Handed(c) : Before(x, m),
         m.n <= Len(events),
         \A s \in Subscriptions :
           /\ Awaits(s)
           /\ Ascending(sub'[s].queue)
           /\ \A i \in DOMAIN sub'[s].queue : \E j \in DOMAIN sub[s].queue : sub'[s].queue[i] = sub[s].queue[j]
           /\ m.of = s => s[1] = c /\ \A i \in DOMAIN sub'[s].queue : m.n < sub'[s].queue[i]
  PROVE  OrderInv'
<1>1. ch \in [Clients -> Seq(Message)]
  BY DEF OrderInv, TypeInv, TypeOK
<1> DEFINE longer == Append(ch[c], m)
<1>2. /\ Increasing(longer)
      /\ \A i \in DOMAIN longer : longer[i] = m \/ \E j \in DOMAIN ch[c] : longer[i] = ch[c][j]
  <2>1. ch[c] \in Seq(Message) /\ Increasing(ch[c]) /\ \A i \in DOMAIN ch[c] : Before(ch[c][i], m)
    BY <1>1 DEF OrderInv, WireInv, Handed
  <2>2. Increasing(longer)
    BY <2>1, AppendIncreasing
  <2> QED BY <2>1, <2>2
<1> HIDE DEF longer
<1>3. ch'[c] = longer /\ \A d \in Clients : d # c => ch'[d] = ch[d]
  BY <1>1 DEF longer
<1>4. WireInv'
  <2> SUFFICES ASSUME NEW d \in Clients
               PROVE  /\ Increasing(sent[d]) /\ Increasing(ch'[d])
                      /\ \A i \in DOMAIN sent[d], j \in DOMAIN ch'[d] : Before(sent[d][i], ch'[d][j])
    BY DEF WireInv, Increasing
  <2>1. \A i \in DOMAIN sent[c] : Before(sent[c][i], m)
    BY DEF Handed
  <2>2. CASE d # c
    BY <1>3, <2>2 DEF OrderInv, WireInv
  <2>3. CASE d = c
    <3>1. \A i \in DOMAIN sent[c], j \in DOMAIN longer : Before(sent[c][i], longer[j])
      BY <1>2, <2>1 DEF OrderInv, WireInv
    <3>2. Increasing(sent[c])
      BY DEF OrderInv, WireInv
    <3> QED BY <1>2, <1>3, <2>3, <3>1, <3>2
  <2> QED BY <2>2, <2>3
<1>5. \A d \in Clients : Handed(d)' \subseteq Handed(d) \cup (IF d = c THEN {m} ELSE {})
  BY <1>2, <1>3 DEF Handed
<1>6. NumbersInv'
  BY <1>5 DEF OrderInv, NumbersInv
<1>7. ASSUME NEW s \in Subscriptions PROVE Awaits(s)'
  <2>1. s[1] \in Clients
    BY SubscriptionParts
  <2>2. \A x \in Handed(s[1])', i \in DOMAIN sub'[s].queue : x.of = s => x.n < sub'[s].queue[i]
    <3> SUFFICES ASSUME NEW x \in Handed(s[1])', NEW i \in DOMAIN sub'[s].queue, x.of = s
                 PROVE  x.n < sub'[s].queue[i]
      OBVIOUS
    <3>1. CASE x \in Handed(s[1])
      BY <3>1 DEF Awaits
    <3>2. CASE x = m
      BY <3>2
    <3> QED BY <1>5, <2>1, <3>1, <3>2
  <2> QED BY <2>2 DEF Awaits
<1> QED BY <1>4, <1>6, <1>7 DEF OrderInv, QueueInv
(* The reader answers list-topicName: the answer belongs to no subscription. *)
LEMMA ReplyOrder ==
  ASSUME OrderInv, TypeInv', NEW c \in Clients, SendReply(c)
  PROVE  OrderInv'
<1>1. Reply \in Message /\ Reply.of = <<>> /\ Reply.n = 0
  BY DEF Message, Reply
<1>2. ASSUME NEW x \in Handed(c) PROVE Before(x, Reply)
  <2>1. x \in Message
    BY DEF OrderInv, TypeInv, TypeOK, Handed
  <2>2. x = Reply \/ x.of \in Subscriptions
    BY <2>1 DEF Message
  <2> QED BY <1>1, <2>2, SubscriptionParts DEF Before
<1>3. Reply.n <= Len(events)
  BY <1>1 DEF OrderInv, TypeInv, TypeOK
<1>4. ch' = [ch EXCEPT ![c] = Append(ch[c], Reply)] /\ UNCHANGED <<sent, events, sub>>
  BY DEF SendReply, subVars
<1>5. ASSUME NEW s \in Subscriptions
      PROVE  /\ Awaits(s) /\ Reply.of # s
             /\ Ascending(sub'[s].queue)
             /\ \A i \in DOMAIN sub'[s].queue : \E j \in DOMAIN sub[s].queue : sub'[s].queue[i] = sub[s].queue[j]
  BY <1>1, <1>4, SubscriptionParts DEF OrderInv, QueueInv, Awaits
<1> QED BY <1>1, <1>2, <1>3, <1>4, <1>5, EntersChannel, ZenonT(40)

(* A subscription delivers the first event of its queue: what it handed over came
   before, what it still has comes after. *)
LEMMA DeliverOrder ==
  ASSUME OrderInv, TypeInv', NEW s \in Subscriptions, Deliver(s)
  PROVE  OrderInv'
<1> DEFINE m == [n |-> Head(sub[s].queue), of |-> s]
<1>1. /\ s[1] \in Clients /\ sub \in [Subscriptions -> Subscription]
      /\ sub[s].queue \in Seq(1 .. MaxEvents) /\ sub[s].queue # <<>> /\ Awaits(s)
  BY SubscriptionParts DEF OrderInv, QueueInv, TypeInv, TypeOK, DeliverInv, Deliver, Subscription
<1>2. /\ Ascending(Tail(sub[s].queue))
      /\ \A i \in DOMAIN Tail(sub[s].queue) : Head(sub[s].queue) < Tail(sub[s].queue)[i]
      /\ \A i \in DOMAIN Tail(sub[s].queue) : \E j \in DOMAIN sub[s].queue : Tail(sub[s].queue)[i] = sub[s].queue[j]
      /\ 1 \in DOMAIN sub[s].queue /\ Head(sub[s].queue) = sub[s].queue[1]
      /\ Head(sub[s].queue) \in 1 .. MaxEvents
  BY <1>1, QueueTail, HeadTailProperties DEF Awaits
<1>3. m \in Message /\ m.of = s /\ m.n = Head(sub[s].queue)
  BY <1>2 DEF Message
<1> HIDE DEF m
<1>4. m.n <= Len(events) /\ \A x \in Handed(s[1]) : Before(x, m)
  BY <1>1, <1>2, <1>3 DEF Awaits, Before
<1>5. ch' = [ch EXCEPT ![s[1]] = Append(ch[s[1]], m)] /\ UNCHANGED <<sent, events>>
  BY DEF Deliver, SubGoesOn, m
<1>6. sub'[s].queue = Tail(sub[s].queue) /\ \A r \in Subscriptions : r # s => sub'[r] = sub[r]
  <2>1. sub' = [sub EXCEPT ![s] = [sub[s] EXCEPT !.at = "listen", !.queue = Tail(sub[s].queue)]]
    BY DEF Deliver
  <2>2. [sub[s] EXCEPT !.at = "listen", !.queue = Tail(sub[s].queue)].queue = Tail(sub[s].queue)
    BY <1>1 DEF Subscription
  <2> QED BY <1>1, <2>1, <2>2
<1>7. ASSUME NEW r \in Subscriptions
      PROVE  /\ Awaits(r)
             /\ Ascending(sub'[r].queue)
             /\ \A i \in DOMAIN sub'[r].queue : \E j \in DOMAIN sub[r].queue : sub'[r].queue[i] = sub[r].queue[j]
             /\ m.of = r => r[1] = s[1] /\ \A i \in DOMAIN sub'[r].queue : m.n < sub'[r].queue[i]
  <2>1. Awaits(r)
    BY DEF OrderInv, QueueInv
  <2>2. CASE r = s
    <3>1. /\ Ascending(sub'[s].queue) /\ \A i \in DOMAIN sub'[s].queue : m.n < sub'[s].queue[i]
          /\ \A i \in DOMAIN sub'[s].queue : \E j \in DOMAIN sub[s].queue : sub'[s].queue[i] = sub[s].queue[j]
      BY <1>2, <1>3, <1>6
    <3> QED BY <2>1, <2>2, <3>1
  <2>3. CASE r # s
    BY <1>3, <1>6, <2>1, <2>3 DEF Awaits
  <2> QED BY <2>2, <2>3
<1> QED BY <1>1, <1>3, <1>4, <1>5, <1>7, EntersChannel
(* What the other steps of a subscription do to its queue. *)
LEMMA SubscriptionQueues ==
  ASSUME TypeInv, NEW s \in Subscriptions, SubscriptionStep(s) \/ SkipEvent(s)
  PROVE  /\ UNCHANGED <<ch, sent, events>>
         /\ \A r \in Subscriptions :
              \/ sub'[r].queue \in {sub[r].queue, <<>>}
              \/ sub[r].queue # <<>> /\ sub'[r].queue = Tail(sub[r].queue)
<1>1. sub \in [Subscriptions -> Subscription] /\ sub[s] \in Subscription
  BY DEF TypeInv, TypeOK
<1>2. UNCHANGED <<ch, sent, events>>
  BY DEF SubscriptionStep, SkipEvent, Join, TakeEvent, EndSubscription, SubGoesOn
<1>3. ASSUME NEW x, sub' = [sub EXCEPT ![s] = x],
             \/ x.queue \in {sub[s].queue, <<>>}
             \/ sub[s].queue # <<>> /\ x.queue = Tail(sub[s].queue)
      PROVE  \A r \in Subscriptions :
               \/ sub'[r].queue \in {sub[r].queue, <<>>}
               \/ sub[r].queue # <<>> /\ sub'[r].queue = Tail(sub[r].queue)
  BY <1>1, <1>3
<1>4. CASE SkipEvent(s)
  <2>1. [sub[s] EXCEPT !.queue = Tail(sub[s].queue)].queue = Tail(sub[s].queue)
    BY <1>1 DEF Subscription
  <2> QED BY <1>2, <1>3, <1>4, <2>1 DEF SkipEvent
<1>5. \A a \in {"listen", "deliver", "ended"} :
        /\ [sub[s] EXCEPT !.at = a].queue = sub[s].queue
        /\ [sub[s] EXCEPT !.at = a, !.queue = <<>>].queue = <<>>
  BY <1>1 DEF Subscription
<1>6. CASE Join(s)
  BY <1>2, <1>3, <1>5, <1>6 DEF Join
<1>7. CASE TakeEvent(s)
  <2>1. \/ sub' = [sub EXCEPT ![s] = [sub[s] EXCEPT !.at = "deliver"]]
        \/ sub' = [sub EXCEPT ![s] = [sub[s] EXCEPT !.at = "ended", !.queue = <<>>]]
    BY <1>7 DEF TakeEvent
  <2> QED BY <1>2, <1>3, <1>5, <2>1
<1>8. CASE EndSubscription(s)
  BY <1>2, <1>3, <1>5, <1>8 DEF EndSubscription
<1> QED BY <1>4, <1>6, <1>7, <1>8 DEF SubscriptionStep

(* Commands touch no message but those they publish; a new subscription begins with an
   empty queue. *)
LEMMA CommandOrder ==
  ASSUME OrderInv, TypeInv', NEW c \in Clients, ClientCommand(c)
  PROVE  OrderInv'
<1>1. ASSUME NEW list \in TopicLists, NEW type \in EventTypes \cup {AnyType}, Subscribe(c, list, type)
      PROVE  OrderInv'
  <2>1. UNCHANGED <<ch, sent, events>>
    BY <1>1 DEF Subscribe
  <2> DEFINE joined(s) == [NotMade EXCEPT !.at = "joining",
                             !.filter = IF s[2] = list[FirstWanted(c, list)] THEN type ELSE AnyType]
  <2>2. \A s \in Subscriptions : joined(s).queue = <<>>
    BY NotMadeIsOne
  <2>3. \A s \in Subscriptions : sub'[s] \in {sub[s], joined(s)}
    BY <1>1 DEF Subscribe
  <2> HIDE DEF joined
  <2> QED BY <2>1, <2>2, <2>3, QueuesShrink
<1>2. ASSUME NEW topics \in SUBSET Topics, Unsubscribe(c, topics) PROVE OrderInv'
  <2>1. UNCHANGED <<ch, sent, events>>
    BY <1>2 DEF Unsubscribe
  <2>2. \A s \in Subscriptions : sub'[s] \in {sub[s], [sub[s] EXCEPT !.closed = TRUE]}
    BY <1>2 DEF Unsubscribe
  <2>3. \A s \in Subscriptions : [sub[s] EXCEPT !.closed = TRUE].queue = sub[s].queue
    BY DEF OrderInv, TypeInv, TypeOK, Subscription
  <2> QED BY <2>1, <2>2, <2>3, QueuesShrink
<1>3. ASSUME NEW t \in Topics, PublishMessage(c, t) PROVE OrderInv'
  <2>1. UNCHANGED <<ch, sent>> /\ NewMessage \in EventTypes
        /\ (Published(t, NewMessage) \/ UNCHANGED <<events, sub>>)
    BY <1>3 DEF PublishMessage, EventTypes
  <2> QED BY <2>1, PublishedOrder, QueuesShrink
<1>4. ASSUME UNCHANGED <<ch, sent, events, sub>> PROVE OrderInv'
  BY <1>4, QueuesShrink
<1>5. (\E t \in Topics : CreateTopic(c, t) \/ DestroyTopic(c, t)) \/ ListTopics(c) \/ ReceiveInvalid(c)
        => UNCHANGED <<ch, sent, events, sub>>
  BY DEF CreateTopic, DestroyTopic, ListTopics, ReceiveInvalid, subVars
<1> QED BY <1>1, <1>2, <1>3, <1>4, <1>5 DEF ClientCommand

(* Every step keeps the order. *)
LEMMA NextOrderInv == ASSUME OrderInv, [Next]_vars PROVE OrderInv'
<1>1. TypeInv'
  BY NextTypeInv DEF OrderInv
<1>2. ASSUME UNCHANGED <<ch, sent, events, sub>> PROVE OrderInv'
  BY <1>1, <1>2, QueuesShrink
<1>3. ASSUME NEW c \in Clients,
             \/ Connect(c) \/ PeerEnds(c, "eof") \/ PeerEnds(c, "reset")
             \/ ReaderStep(c) \/ DelByWriter(c)
      PROVE  OrderInv'
  <2>1. UNCHANGED <<ch, sent, events, sub>>
    BY <1>3 DEF Connect, PeerEnds, ReaderStep, NewClient, Add, DelByReader, DelByWriter, ReaderSelect,
                ReceiveEnd, DoneToWriter, subVars
  <2> QED BY <1>2, <2>1
<1>4. ASSUME NEW t \in Topics, NEW type \in RowEvents, PublishRowEvent(t, type) PROVE OrderInv'
  <2>1. type \in EventTypes /\ Published(t, type) /\ UNCHANGED <<ch, sent>>
    BY <1>4 DEF PublishRowEvent, EventTypes
  <2> QED BY <1>1, <2>1, PublishedOrder
<1>5. ASSUME NEW s \in Subscriptions, SubscriptionStep(s) \/ SkipEvent(s) PROVE OrderInv'
  BY <1>1, <1>5, SubscriptionQueues, QueuesShrink DEF OrderInv
<1>6. ASSUME UNCHANGED vars PROVE OrderInv'
  BY <1>2, <1>6 DEF vars, subVars
<1> QED
  BY <1>1, <1>3, <1>4, <1>5, <1>6, CommandOrder, ReplyOrder, WriterOrder, DeliverOrder DEF Next

(* A client that sees two events through one subscription sees them in the order they
   were published, and none of them twice. *)
THEOREM EventsComeInOrder == Spec => []InOrder
<1>1. OrderInv => InOrder
  BY DEF OrderInv, WireInv, Increasing, Before, InOrder
<1> QED BY <1>1, InitOrderInv, NextOrderInv, PTL DEF Spec
=============================================================================
