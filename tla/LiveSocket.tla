----------------------------- MODULE LiveSocket -----------------------------
(* The /live websocket server: the hub that owns the map of clients, the two
   goroutines of every connection (listenRead, listenWrite), the buffered
   channel between them, the unbuffered done channel, and the goroutine behind
   every topic a client subscribes to.

   External and modelled as they are used: the topics (Olric publish/subscribe,
   one ordered queue for each subscription) and the peer, which sends commands,
   closes its side, or resets the connection. Whether a row event passes the
   read permission and the column filters of a subscriber is left open. *)
EXTENDS Integers, Sequences, FiniteSets, SequencesExt

CONSTANTS Clients,         \* connections
          Topics,          \* topic names
          SystemTopics,    \* topics of tables, which no client may destroy
          RowEvents,       \* types of row events: "create", "update", "delete"
          NewMessage,      \* type of the events clients publish
          AnyType,         \* a subscription without an EventType filter
          ChannelBufSize,  \* capacity of client.ch
          MaxEvents,       \* bound on the events of an instance
          MaxEpochs,       \* bound on the subscriptions of a client to a topic
          MaxCommands      \* bound on the commands of a peer

EventTypes == RowEvents \cup {NewMessage}

ASSUME ConstantsAssumption ==
  /\ IsFiniteSet(Clients)
  /\ SystemTopics \subseteq Topics
  /\ NewMessage \notin RowEvents
  /\ AnyType \notin EventTypes
  /\ {ChannelBufSize, MaxEvents, MaxEpochs, MaxCommands} \subseteq Nat
  /\ ChannelBufSize > 0

VARIABLES
  topicMap,   \* DtopicMap: the topics that exist
  conn,       \* conn[c]: "none", "open", "eof" (closed by the peer), "reset", "closed"
  commands,   \* commands[c]: how many commands the peer has sent
  maxId,      \* the shared counter behind client ids
  id,         \* id[c]: c's id, 0 before NewClient read it
  hub,        \* hub[i]: the client the server has under id i
  reader,     \* reader[c]: where the connection's goroutine (listenRead) is
  writer,     \* writer[c]: where listenWrite is
  ch,         \* ch[c]: client.ch
  entry,      \* entry[c][t]: the subscription subscribedTopics has for t, 0: none
  made,       \* made[c][t]: how many subscriptions to t client c has made
  sub,        \* sub[s]: the goroutine of subscription s = <<c, t, epoch>>
  events,     \* all events published, in order
  sent        \* sent[c]: messages written to the websocket

vars == <<topicMap, conn, commands, maxId, id, hub, reader, writer, ch, entry,
          made, sub, events, sent>>

subVars == <<entry, made, sub>>

Subscriptions == Clients \X Topics \X (1 .. MaxEpochs)

Event == [topic : Topics, type : EventTypes]

(* A message in ch or on the wire: event n as subscription `of` delivers it, or
   the answer to list-topicName (n = 0, of = <<>>). *)
Reply == [n |-> 0, of |-> <<>>]

Message == {Reply} \cup [n : 1 .. MaxEvents, of : Subscriptions]

(* at: "none"; "joining", the SUBSCRIBE command is on its way; "listen";
   "deliver", blocked on client.ch; "ended", returned.
   queue: events the goroutine has still to take. *)
Subscription == [at : {"none", "joining", "listen", "deliver", "ended"},
                 filter : EventTypes \cup {AnyType},
                 closed : BOOLEAN,
                 queue : Seq(1 .. MaxEvents)]

NotMade == [at |-> "none", filter |-> AnyType, closed |-> FALSE, queue |-> <<>>]

ConnStates == {"none", "open", "eof", "reset", "closed"}
ReaderLabels == {"idle", "counted", "add", "select", "receive", "reply", "done", "del",
                 "doneForWriter", "returned", "panicked"}
WriterLabels == {"idle", "select", "del", "doneForReader", "returned"}

TypeOK ==
  /\ topicMap \subseteq Topics
  /\ conn \in [Clients -> ConnStates]
  /\ commands \in [Clients -> 0 .. MaxCommands]
  /\ maxId \in 0 .. Cardinality(Clients)
  /\ id \in [Clients -> 0 .. Cardinality(Clients)]
  /\ hub \in [1 .. Cardinality(Clients) -> SUBSET Clients]
  /\ reader \in [Clients -> ReaderLabels]
  /\ writer \in [Clients -> WriterLabels]
  /\ ch \in [Clients -> Seq(Message)] /\ \A c \in Clients : Len(ch[c]) <= ChannelBufSize
  /\ sent \in [Clients -> Seq(Message)]
  /\ entry \in [Clients -> [Topics -> 0 .. MaxEpochs]]
  /\ made \in [Clients -> [Topics -> 0 .. MaxEpochs]]
  /\ sub \in [Subscriptions -> Subscription]
  /\ events \in Seq(Event)

Init ==
  /\ topicMap = SystemTopics
  /\ conn = [c \in Clients |-> "none"]
  /\ commands = [c \in Clients |-> 0]
  /\ maxId = 0
  /\ id = [c \in Clients |-> 0]
  /\ hub = [i \in 1 .. Cardinality(Clients) |-> {}]
  /\ reader = [c \in Clients |-> "idle"]
  /\ writer = [c \in Clients |-> "idle"]
  /\ ch = [c \in Clients |-> <<>>]
  /\ entry = [c \in Clients |-> [t \in Topics |-> 0]]
  /\ made = entry
  /\ sub = [s \in Subscriptions |-> NotMade]
  /\ events = <<>>
  /\ sent = ch

ReaderTo(c, label) == reader' = [reader EXCEPT ![c] = label]
WriterTo(c, label) == writer' = [writer EXCEPT ![c] = label]

-----------------------------------------------------------------------------
(* The peer. *)

PeerEnds(c, how) ==
  /\ conn[c] = "open"
  /\ conn' = [conn EXCEPT ![c] = how]
  /\ UNCHANGED <<topicMap, commands, maxId, id, hub, reader, writer, ch, subVars,
                 events, sent>>

(* NewClient: maxId++ and the later read of maxId are not one step, and other
   connections run the same code: two of them can read the same number. *)
Connect(c) ==
  /\ conn[c] = "none"
  /\ conn' = [conn EXCEPT ![c] = "open"]
  /\ maxId' = maxId + 1
  /\ ReaderTo(c, "counted")
  /\ UNCHANGED <<topicMap, commands, id, hub, writer, ch, subVars, events, sent>>

NewClient(c) ==
  /\ reader[c] = "counted"
  /\ id' = [id EXCEPT ![c] = maxId]
  /\ ReaderTo(c, "add")
  /\ UNCHANGED <<topicMap, conn, commands, maxId, hub, writer, ch, subVars, events, sent>>

-----------------------------------------------------------------------------
(* The hub: its loop only ever waits in its select, so a send on addCh, delCh
   or errCh meets it there. *)

(* Mutant of Forget: the reader's own Del is relied on. *)
ForgetNothing(c) == UNCHANGED hub

Forget(c) == hub' = [hub EXCEPT ![id[c]] = {}]

Add(c) ==
  /\ reader[c] = "add"
  /\ hub' = [hub EXCEPT ![id[c]] = {c}]
  /\ ReaderTo(c, "select")
  /\ WriterTo(c, "select")
  /\ UNCHANGED <<topicMap, conn, commands, maxId, id, ch, subVars, events, sent>>

DelByWriter(c) ==
  /\ writer[c] = "del"
  /\ Forget(c)
  /\ WriterTo(c, "doneForReader")
  /\ UNCHANGED <<topicMap, conn, commands, maxId, id, reader, ch, subVars, events, sent>>

DelByReader(c) ==
  /\ reader[c] = "del"
  /\ Forget(c)
  /\ ReaderTo(c, "doneForWriter")
  /\ UNCHANGED <<topicMap, conn, commands, maxId, id, writer, ch, subVars, events, sent>>

-----------------------------------------------------------------------------
(* listenRead and listenWrite. A send on doneCh needs the other goroutine at its
   select. *)

(* The reader's select takes doneCh if the writer is sending, else it receives. *)
ReaderSelect(c) ==
  /\ reader[c] = "select"
  /\ IF writer[c] = "doneForReader"
     THEN ReaderTo(c, "del") /\ WriterTo(c, "returned")
     ELSE ReaderTo(c, "receive") /\ UNCHANGED writer
  /\ UNCHANGED <<topicMap, conn, commands, maxId, id, hub, ch, subVars, events, sent>>

(* io.EOF leads to doneCh; any other error goes to the hub's errCh, and the
   next Receive has the same error. *)
ReceiveEnd(c) ==
  /\ reader[c] = "receive"
  /\ \/ conn[c] = "eof" /\ ReaderTo(c, "done")
     \/ conn[c] = "reset" /\ ReaderTo(c, "select")
  /\ UNCHANGED <<topicMap, conn, commands, maxId, id, hub, writer, ch, subVars, events, sent>>

(* Some message did not parse: the error goes to errCh. *)
ReceiveInvalid(c) ==
  /\ reader[c] = "receive" /\ conn[c] = "open" /\ commands[c] < MaxCommands
  /\ commands' = [commands EXCEPT ![c] = @ + 1]
  /\ ReaderTo(c, "select")
  /\ UNCHANGED <<topicMap, conn, maxId, id, hub, writer, ch, subVars, events, sent>>

DoneToWriter(c) ==
  /\ reader[c] \in {"done", "doneForWriter"}
  /\ writer[c] = "select"
  /\ WriterTo(c, "del")
  /\ ReaderTo(c, IF reader[c] = "done" THEN "select" ELSE "returned")
  /\ conn' = [conn EXCEPT ![c] = IF reader[c] = "done" THEN @ ELSE "closed"]
  /\ UNCHANGED <<topicMap, commands, maxId, id, hub, ch, subVars, events, sent>>

(* Mutant of WriterSends: the writer waits for an open connection. *)
WriterSendsWhileOpen(c) ==
  /\ writer[c] = "select" /\ ch[c] # <<>> /\ conn[c] = "open"
  /\ ch' = [ch EXCEPT ![c] = Tail(@)]
  /\ sent' = [sent EXCEPT ![c] = Append(@, Head(ch[c]))]
  /\ UNCHANGED <<topicMap, conn, commands, maxId, id, hub, reader, writer, subVars, events>>

(* websocket.JSON.Send; its error is only logged. *)
WriterSends(c) ==
  /\ writer[c] = "select" /\ ch[c] # <<>>
  /\ ch' = [ch EXCEPT ![c] = Tail(@)]
  /\ sent' = IF conn[c] = "open" THEN [sent EXCEPT ![c] = Append(@, Head(ch[c]))]
                                 ELSE sent
  /\ UNCHANGED <<topicMap, conn, commands, maxId, id, hub, reader, writer, subVars, events>>

-----------------------------------------------------------------------------
(* MessageFromClient, run by the reader. *)

Command(c) == /\ reader[c] = "receive" /\ conn[c] = "open"
              /\ commands[c] < MaxCommands
              /\ commands' = [commands EXCEPT ![c] = @ + 1]

FirstWanted(c, list) == SelectInSeq(list, LAMBDA t : entry[c][t] = 0)
FirstUnknown(c, list) == SelectInSeq(list, LAMBDA t : entry[c][t] = 0 /\ t \notin topicMap)

(* Topics of the list that are not subscribed yet get a subscription, in order;
   the first of them takes the EventType out of the filters. A topic that does
   not exist is dereferenced: the reader panics, its deferred Close runs. *)
Subscribe(c, list, type) ==
  LET first == FirstWanted(c, list)
      unknown == FirstUnknown(c, list)
      new == {list[i] : i \in {j \in DOMAIN list : /\ entry[c][list[j]] = 0
                                                   /\ unknown = 0 \/ j < unknown}}
      made2 == [t \in Topics |-> made[c][t] + IF t \in new THEN 1 ELSE 0]
  IN
  /\ Command(c)
  /\ \A t \in new : made[c][t] < MaxEpochs
  /\ made' = [made EXCEPT ![c] = made2]
  /\ entry' = [entry EXCEPT ![c] = [t \in Topics |-> IF t \in new THEN made2[t] ELSE @[t]]]
  /\ sub' = [s \in Subscriptions |->
       IF s[1] = c /\ s[2] \in new /\ s[3] = made2[s[2]]
       THEN [NotMade EXCEPT !.at = "joining",
                            !.filter = IF s[2] = list[first] THEN type ELSE AnyType]
       ELSE sub[s]]
  /\ IF unknown = 0
     THEN ReaderTo(c, "select") /\ UNCHANGED conn
     ELSE ReaderTo(c, "panicked") /\ conn' = [conn EXCEPT ![c] = "closed"]
  /\ UNCHANGED <<topicMap, maxId, id, hub, writer, ch, events, sent>>

(* Mutant of Unsubscribe: the entries go, the subscriptions stay open. *)
UnsubscribeEntriesOnly(c, topics) ==
  /\ Command(c)
  /\ entry' = [entry EXCEPT ![c] = [t \in Topics |-> IF t \in topics THEN 0 ELSE @[t]]]
  /\ ReaderTo(c, "select")
  /\ UNCHANGED <<topicMap, conn, maxId, id, hub, writer, ch, made, sub, events, sent>>

(* Close closes the channel of the subscription behind what it already holds. *)
Unsubscribe(c, topics) ==
  /\ Command(c)
  /\ entry' = [entry EXCEPT ![c] = [t \in Topics |-> IF t \in topics THEN 0 ELSE @[t]]]
  /\ sub' = [s \in Subscriptions |->
       IF s[1] = c /\ s[2] \in topics /\ s[3] = entry[c][s[2]]
       THEN [sub[s] EXCEPT !.closed = TRUE]
       ELSE sub[s]]
  /\ ReaderTo(c, "select")
  /\ UNCHANGED <<topicMap, conn, maxId, id, hub, writer, ch, made, events, sent>>

CreateTopic(c, t) ==
  /\ Command(c)
  /\ topicMap' = topicMap \cup {t}
  /\ ReaderTo(c, "select")
  /\ UNCHANGED <<conn, maxId, id, hub, writer, ch, subVars, events, sent>>

(* Only the map entry goes: the subscriptions to the topic stay open. *)
DestroyTopic(c, t) ==
  /\ Command(c)
  /\ t \notin SystemTopics
  /\ topicMap' = topicMap \ {t}
  /\ ReaderTo(c, "select")
  /\ UNCHANGED <<conn, maxId, id, hub, writer, ch, subVars, events, sent>>

(* The reader itself sends the answer to ch, and waits while ch is full. *)
ListTopics(c) ==
  /\ Command(c)
  /\ ReaderTo(c, "reply")
  /\ UNCHANGED <<topicMap, conn, maxId, id, hub, writer, ch, subVars, events, sent>>

SendReply(c) ==
  /\ reader[c] = "reply" /\ Len(ch[c]) < ChannelBufSize
  /\ ch' = [ch EXCEPT ![c] = Append(@, Reply)]
  /\ ReaderTo(c, "select")
  /\ UNCHANGED <<topicMap, conn, commands, maxId, id, hub, writer, subVars, events, sent>>

-----------------------------------------------------------------------------
(* The subscriptions. *)

(* Event n of topic t reaches every subscription that has joined the topic. *)
Published(t, type) ==
  /\ Len(events) < MaxEvents
  /\ events' = Append(events, [topic |-> t, type |-> type])
  /\ sub' = [s \in Subscriptions |->
       IF s[2] = t /\ sub[s].at \in {"listen", "deliver"} /\ ~sub[s].closed
       THEN [sub[s] EXCEPT !.queue = Append(@, Len(events) + 1)]
       ELSE sub[s]]

(* The event interceptor publishes what happened to a row of table t. *)
PublishRowEvent(t, type) ==
  /\ t \in SystemTopics
  /\ Published(t, type)
  /\ UNCHANGED <<topicMap, conn, commands, maxId, id, hub, reader, writer, ch, entry,
                 made, sent>>

(* new-message. To a topic that does not exist it does nothing. *)
PublishMessage(c, t) ==
  /\ Command(c)
  /\ IF t \in topicMap THEN Published(t, NewMessage) ELSE UNCHANGED <<events, sub>>
  /\ ReaderTo(c, "select")
  /\ UNCHANGED <<topicMap, conn, maxId, id, hub, writer, ch, entry, made, sent>>

SubGoesOn == UNCHANGED <<topicMap, conn, commands, maxId, id, hub, reader, writer,
                         entry, made, events, sent>>

Join(s) ==
  /\ sub[s].at = "joining" /\ ~sub[s].closed
  /\ sub' = [sub EXCEPT ![s].at = "listen"]
  /\ SubGoesOn /\ UNCHANGED ch

TypeOf(s) == events[Head(sub[s].queue)].type

(* The goroutine skips a message that the subscriber may not read or that the
   column filters refuse, or that was lost on its way to a full Go channel. *)
SkipEvent(s) ==
  /\ sub[s].at = "listen" /\ sub[s].queue # <<>>
  /\ sub' = [sub EXCEPT ![s].queue = Tail(@)]
  /\ SubGoesOn /\ UNCHANGED ch

(* One of another type than the filter's ends the goroutine. *)
TakeEvent(s) ==
  /\ sub[s].at = "listen" /\ sub[s].queue # <<>>
  /\ sub' = IF sub[s].filter \in {AnyType, TypeOf(s)}
            THEN [sub EXCEPT ![s].at = "deliver"]
            ELSE [sub EXCEPT ![s].at = "ended", ![s].queue = <<>>]
  /\ SubGoesOn /\ UNCHANGED ch

(* Mutant of Deliver: a message that finds the channel full goes back to the
   end of its queue. *)
DeliverOrRetry(s) ==
  LET c == s[1]
      full == Len(ch[c]) >= ChannelBufSize IN
  /\ sub[s].at = "deliver"
  /\ ch' = IF full THEN ch
           ELSE [ch EXCEPT ![c] = Append(@, [n |-> Head(sub[s].queue), of |-> s])]
  /\ sub' = [sub EXCEPT ![s].at = "listen",
                        ![s].queue = IF full THEN Append(Tail(@), Head(@)) ELSE Tail(@)]
  /\ SubGoesOn

(* Mutant of Deliver: the channel is a list that never fills. *)
DeliverAlways(s) ==
  /\ sub[s].at = "deliver"
  /\ ch' = [ch EXCEPT ![s[1]] = Append(@, [n |-> Head(sub[s].queue), of |-> s])]
  /\ sub' = [sub EXCEPT ![s].at = "listen", ![s].queue = Tail(@)]
  /\ SubGoesOn

Deliver(s) ==
  /\ sub[s].at = "deliver" /\ Len(ch[s[1]]) < ChannelBufSize
  /\ ch' = [ch EXCEPT ![s[1]] = Append(@, [n |-> Head(sub[s].queue), of |-> s])]
  /\ sub' = [sub EXCEPT ![s].at = "listen", ![s].queue = Tail(@)]
  /\ SubGoesOn

(* A closed channel yields nil once it is empty; what had not reached it when
   the subscription closed is gone. *)
EndSubscription(s) ==
  /\ sub[s].at \in {"joining", "listen"} /\ sub[s].closed
  /\ sub' = [sub EXCEPT ![s].at = "ended", ![s].queue = <<>>]
  /\ SubGoesOn /\ UNCHANGED ch

-----------------------------------------------------------------------------
TopicLists == {<<t>> : t \in Topics} \cup {<<t, u>> : t, u \in Topics}

ClientCommand(c) ==
  \/ \E list \in TopicLists, type \in EventTypes \cup {AnyType} : Subscribe(c, list, type)
  \/ \E topics \in SUBSET Topics : Unsubscribe(c, topics)
  \/ \E t \in Topics : CreateTopic(c, t) \/ DestroyTopic(c, t) \/ PublishMessage(c, t)
  \/ ListTopics(c)
  \/ ReceiveInvalid(c)

ReaderStep(c) == NewClient(c) \/ Add(c) \/ DelByReader(c) \/ ReaderSelect(c)
                 \/ ReceiveEnd(c) \/ DoneToWriter(c)

SubscriptionStep(s) == Join(s) \/ TakeEvent(s) \/ EndSubscription(s)

Next ==
  \/ \E c \in Clients :
       \/ Connect(c) \/ PeerEnds(c, "eof") \/ PeerEnds(c, "reset")
       \/ ClientCommand(c)
       \/ ReaderStep(c) \/ SendReply(c)
       \/ DelByWriter(c) \/ WriterSends(c)
  \/ \E t \in Topics, type \in RowEvents : PublishRowEvent(t, type)
  \/ \E s \in Subscriptions : SubscriptionStep(s) \/ SkipEvent(s) \/ Deliver(s)

Spec == Init /\ [][Next]_vars

(* Goroutines that can run do run; a sender that waits for room in a channel is
   served in its turn (Go queues waiting senders), and a select that finds two
   ready cases chooses among them at random. Peers and writes to the database
   owe nothing. *)
FairSpec ==
  /\ Spec
  /\ \A c \in Clients : /\ WF_vars(ReaderStep(c)) /\ SF_vars(SendReply(c))
                        /\ WF_vars(DelByWriter(c)) /\ SF_vars(WriterSends(c))
  /\ \A s \in Subscriptions : WF_vars(SubscriptionStep(s)) /\ SF_vars(Deliver(s))

-----------------------------------------------------------------------------
(* A client that sees two events of a topic through one subscription sees them
   in the order they were published, and none of them twice: whatever the
   goroutine of the subscription, the channel and listenWrite do meanwhile. *)
InOrder ==
  \A c \in Clients : \A i, j \in DOMAIN sent[c] :
    (i < j /\ sent[c][i].of = sent[c][j].of /\ sent[c][i] # Reply)
      => sent[c][i].n < sent[c][j].n

(* When listenRead has seen the end of the stream (websocket_client.go:129), the
   hub ends up without the client. *)
EofForgets ==
  \A c \in Clients : (reader[c] = "done") ~> (\A i \in DOMAIN hub : c \notin hub[i])

(* list-topicName sends its answer from the reader itself, into the channel the
   subscriptions fill: the reader still gets back to its loop. *)
ReplyUnblocks ==
  \A c \in Clients : (reader[c] = "reply") ~> (reader[c] # "reply")

(* Once unsubscribed, a goroutine ends, unless it is stuck on the channel of a
   connection whose writer is gone. *)
UnsubscribeEndsGoroutine ==
  \A s \in Subscriptions :
    (sub[s].at # "none" /\ entry[s[1]][s[2]] # s[3])
      ~> (sub[s].at = "ended" \/ writer[s[1]] # "select")

(* websocket_client.go:107, :122: a done request reaches the other goroutine as
   well, so both return. It does not: the second send on doneCh meets a reader
   that sends too, or nobody. *)
DoneReachesBoth ==
  \A c \in Clients : (reader[c] = "done") ~> (reader[c] = "returned")

(* docs/websockets/websocket.md:221: to subscribe with new filters one has to
   unsubscribe first, so a topic in subscribedTopics still has its goroutine.
   It need not: an event of another type than the filter's ends it. *)
SubscribedTopicIsListenedTo ==
  \A c \in Clients, t \in Topics :
    entry[c][t] # 0 => sub[<<c, t, entry[c][t]>>].at # "ended"
=============================================================================
