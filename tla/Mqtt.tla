-------------------------------- MODULE Mqtt --------------------------------
(***************************************************************************)
(* MQTTBROKER, MQTTPUBLISHER and MQTTSUBSCRIBER machines.                  *)
(*                                                                         *)
(* Each broker has an MQTT client, whose task calls the event handler, and *)
(* starts a task that sends messages.  All brokers share one queue, one    *)
(* connection flag and one system client.  The processing task publishes   *)
(* into the queue, and takes received values from external_messages.       *)
(*                                                                         *)
(* A message or a value is a number: how many were made before it.         *)
(* Timeouts of message_mutex, mqtt_mutex and runtime_mutex can happen      *)
(* whenever a task asks for one; what is done under a mutex is one step.   *)
(***************************************************************************)
EXTENDS Naturals, Sequences, FiniteSets

CONSTANTS
    Brokers,
    Publishers, Subscribers,
    BrokerOf,       \* the broker of each publisher and subscriber
    Topic,          \* the topic of each subscriber
    Prefixes,       \* pairs of topics, the first a prefix of the second
    Setup,          \* the order in which cwrt_setup creates the machines
    Command,        \* the topic "/command"
    NoBroker,       \* 0 for a broker, a client or a message
    MaxPublished,   \* bound: messages published
    MaxReceived,    \* bound: values and commands received
    MaxEvents       \* bound: connections made

ASSUME MachinesAssumption ==
    /\ BrokerOf \in [Publishers \cup Subscribers -> Brokers]
    /\ Setup \in Seq(Brokers \cup Subscribers)
    /\ \A i, j \in DOMAIN Setup : Setup[i] = Setup[j] => i = j
    /\ NoBroker \notin Brokers
ASSUME BoundsAssumption == MaxPublished \in Nat /\ MaxReceived \in Nat /\ MaxEvents \in Nat

VARIABLES
    todo,           \* what cwrt_setup has still to create
    brokers,        \* the brokers created: their clients and sending tasks run
    subscribers,    \* the list of each broker
    connected,      \* the connection of each client, as its events tell
    subscribed,     \* topics each client is subscribed to
    handler,        \* where the event handler of each client is
    item, next,     \* positions in its walk of the subscribers, 0 at the end
    mqtt_is_connected, system_client,
    mqtt_messages,
    publishing,     \* the messages the processing task is about to publish
    sending,        \* the message each sending task has taken
    log,            \* history: what was given to a client, and by which task
    external_messages,
    popped,         \* what process_next_external_message has taken
    message,        \* the message of each subscriber
    commands,       \* the number of command_messages (Lists has their links)
    published, received, events,    \* history: counters
    early,          \* history: subscribers registered when CONNECTED was handled
    racing          \* history: two handlers took the client for missing

setup == <<todo, brokers>>
client == <<connected, subscribed, handler, item, next, events, early, racing>>
flag == <<mqtt_is_connected, system_client>>
outgoing == <<mqtt_messages, publishing, sending, log, published>>
incoming == <<external_messages, popped, message, commands, received>>
vars == <<setup, subscribers, client, flag, outgoing, incoming>>

NoItem == [s |-> NoBroker, value |-> 0]

Init ==
    /\ todo = Setup /\ brokers = {}
    /\ subscribers = [b \in Brokers |-> <<>>]
    /\ connected = [b \in Brokers |-> FALSE]
    /\ subscribed = [b \in Brokers |-> {}]
    /\ handler = [b \in Brokers |-> "idle"]
    /\ item = [b \in Brokers |-> 0] /\ next = [b \in Brokers |-> 0]
    /\ mqtt_is_connected = FALSE /\ system_client = NoBroker
    /\ mqtt_messages = <<>> /\ publishing = <<>>
    /\ sending = [b \in Brokers |-> <<>>]
    /\ log = <<>>
    /\ external_messages = <<>> /\ popped = NoItem
    /\ message = [s \in Subscribers |-> 0]
    /\ commands = 0
    /\ published = 0 /\ received = 0 /\ events = 0
    /\ early = {} /\ racing = FALSE

-----------------------------------------------------------------------------
(***************************************************************************)
(* cwrt_setup: every broker makes the mutex and the queue anew.  Nobody    *)
(* publishes before the setup is over, so the queue is empty.              *)
(***************************************************************************)
Init_cw_MQTTBROKER(b) ==
    /\ todo # <<>> /\ Head(todo) = b
    /\ mqtt_messages' = <<>>
    /\ subscribers' = [subscribers EXCEPT ![b] = <<>>]
    /\ brokers' = brokers \cup {b}
    /\ todo' = Tail(todo)
    /\ UNCHANGED <<client, flag, publishing, sending, log, published, incoming>>

\* register_subscriber, with no lock against the event handler's walk.
register_subscriber(s) ==
    /\ todo # <<>> /\ Head(todo) = s
    /\ subscribers' = [subscribers EXCEPT ![BrokerOf[s]] = Append(@, s)]
    /\ todo' = Tail(todo)
    /\ UNCHANGED <<brokers, client, flag, outgoing, incoming>>

-----------------------------------------------------------------------------
(***************************************************************************)
(* The event handler of a client.  A connection that is lost while it runs *)
(* is the next event of the same task.                                     *)
(***************************************************************************)
\* MQTT_EVENT_CONNECTED.
Connected(b) ==
    /\ b \in brokers /\ ~connected[b] /\ handler[b] = "idle" /\ events < MaxEvents
    /\ connected' = [connected EXCEPT ![b] = TRUE]
    /\ handler' = [handler EXCEPT ![b] = "test"]
    /\ events' = events + 1
    /\ early' = early \cup {s \in Subscribers :
                              \E i \in DOMAIN subscribers[b] : subscribers[b][i] = s}
    /\ UNCHANGED <<setup, subscribers, subscribed, item, next, racing, flag, outgoing,
                   incoming>>

\* list_for_each_safe: the next item is looked up before the body runs.
Following(b, i) == IF i # 0 /\ i < Len(subscribers[b]) THEN i + 1 ELSE 0

BeginWalk(b) ==
    LET first == IF subscribers[b] = <<>> THEN 0 ELSE 1
    IN  /\ handler' = [handler EXCEPT ![b] = "walk"]
        /\ item' = [item EXCEPT ![b] = first]
        /\ next' = [next EXCEPT ![b] = Following(b, first)]

TestHave(b) ==
    /\ handler[b] = "test"
    /\ \/ mqtt_is_connected /\ BeginWalk(b) /\ UNCHANGED racing
       \/ /\ ~mqtt_is_connected
          /\ handler' = [handler EXCEPT ![b] = "client"]
          /\ racing' = (racing \/ \E c \in Brokers : handler[c] \in {"client", "state"})
          /\ UNCHANGED <<item, next>>
    /\ UNCHANGED <<setup, subscribers, connected, subscribed, events, early,
                   flag, outgoing, incoming>>

\* Mutated form of setMQTTclient: only the connection is noted.
setMQTTclientForgotten(b) ==
    /\ handler[b] = "client"
    /\ handler' = [handler EXCEPT ![b] = "state"]
    /\ UNCHANGED <<setup, subscribers, connected, subscribed, item, next, events, early,
                   racing, flag, outgoing, incoming>>

setMQTTclient(b) ==
    /\ handler[b] = "client"
    /\ system_client' = b
    /\ handler' = [handler EXCEPT ![b] = "state"]
    /\ UNCHANGED <<setup, subscribers, connected, subscribed, item, next, events, early,
                   racing, mqtt_is_connected, outgoing, incoming>>

setMQTTstate(b) ==
    /\ handler[b] = "state"
    /\ mqtt_is_connected' = TRUE
    /\ handler' = [handler EXCEPT ![b] = "command"]
    /\ UNCHANGED <<setup, subscribers, connected, subscribed, item, next, events, early,
                   racing, system_client, outgoing, incoming>>

SubscribeCommand(b) ==
    /\ handler[b] = "command"
    /\ subscribed' = [subscribed EXCEPT ![b] = @ \cup {Command}]
    /\ BeginWalk(b)
    /\ UNCHANGED <<setup, subscribers, connected, events, early, racing, flag,
                   outgoing, incoming>>

\* Mutated form of SubscribeItem: the walk stops at the last item.
SubscribeItemShort(b) ==
    /\ handler[b] = "walk" /\ item[b] # 0
    /\ subscribed' = IF next[b] = 0 THEN subscribed
                     ELSE [subscribed EXCEPT ![b] = @ \cup {Topic[subscribers[b][item[b]]]}]
    /\ item' = [item EXCEPT ![b] = next[b]]
    /\ next' = [next EXCEPT ![b] = Following(b, next[b])]
    /\ UNCHANGED <<setup, subscribers, connected, handler, events, early, racing,
                   flag, outgoing, incoming>>

SubscribeItem(b) ==
    /\ handler[b] = "walk" /\ item[b] # 0
    /\ subscribed' = [subscribed EXCEPT ![b] = @ \cup {Topic[subscribers[b][item[b]]]}]
    /\ item' = [item EXCEPT ![b] = next[b]]
    /\ next' = [next EXCEPT ![b] = Following(b, next[b])]
    /\ UNCHANGED <<setup, subscribers, connected, handler, events, early, racing,
                   flag, outgoing, incoming>>

EventDone(b) ==
    /\ handler[b] = "walk" /\ item[b] = 0
    /\ handler' = [handler EXCEPT ![b] = "idle"]
    /\ UNCHANGED <<setup, subscribers, connected, subscribed, item, next, events, early,
                   racing, flag, outgoing, incoming>>

\* Mutated form of Disconnected: the flag is left alone.
DisconnectedUnnoticed(b) ==
    /\ connected[b] /\ handler[b] = "idle"
    /\ connected' = [connected EXCEPT ![b] = FALSE]
    /\ subscribed' = [subscribed EXCEPT ![b] = {}]
    /\ UNCHANGED <<setup, subscribers, handler, item, next, events, early, racing,
                   flag, outgoing, incoming>>

\* MQTT_EVENT_DISCONNECTED, of any broker.
Disconnected(b) ==
    /\ connected[b] /\ handler[b] = "idle"
    /\ connected' = [connected EXCEPT ![b] = FALSE]
    /\ subscribed' = [subscribed EXCEPT ![b] = {}]
    /\ mqtt_is_connected' = FALSE
    /\ UNCHANGED <<setup, subscribers, handler, item, next, events, early, racing,
                   system_client, outgoing, incoming>>

-----------------------------------------------------------------------------
(***************************************************************************)
(* Publishing.  Whatever the processing task does, what it publishes goes  *)
(* to the queue message by message, each under message_mutex and           *)
(* mqtt_mutex.                                                             *)
(***************************************************************************)
Free == todo = <<>> /\ publishing = <<>> /\ popped = NoItem

\* The brokers the messages are for, or NoBroker for the system client.
Publishes(to) ==
    /\ Free /\ published + Len(to) <= MaxPublished
    /\ publishing' = [k \in DOMAIN to |-> [id |-> published + k, broker |-> to[k]]]
    /\ published' = published + Len(to)
    /\ UNCHANGED <<setup, subscribers, client, flag, mqtt_messages, sending, log,
                   external_messages, popped, message, received>>

\* A new value goes to the publisher's broker, then to the system client.
cw_MQTTPUBLISHER_set_value(p) ==
    Publishes(<<BrokerOf[p], NoBroker>>) /\ UNCHANGED commands

\* publish_MQTT for a new state of any machine.
changeMachineState == Publishes(<<NoBroker>>) /\ UNCHANGED commands

\* The name and the state, and the timer.
default_describe == <<NoBroker, NoBroker>>

\* DESCRIBE gives two messages, and three for some classes, which the model
\* leaves out; LIST one, as do an unknown machine and an unknown command;
\* PROPERTY and SEND do nothing.
cwrt_process ==
    /\ commands > 0
    /\ \E answer \in {default_describe, <<NoBroker>>, <<>>} : Publishes(answer)
    /\ commands' = commands - 1

push_mqtt_message(m) == mqtt_messages' = Append(mqtt_messages, m)

\* publish_MQTT, publish_MQTT_property and sendMQTT are alike.
sendMQTT ==
    /\ publishing # <<>> /\ mqtt_is_connected
    /\ push_mqtt_message(Head(publishing))
    /\ publishing' = Tail(publishing)
    /\ UNCHANGED <<setup, subscribers, client, flag, sending, log, published, incoming>>

\* Not connected, or 10 ticks without one of the mutexes: the message is lost.
PublishDropped ==
    /\ publishing # <<>>
    /\ publishing' = Tail(publishing)
    /\ UNCHANGED <<setup, subscribers, client, flag, mqtt_messages, sending, log,
                   published, incoming>>

\* Mutated form of pop_mqtt_message: the item is read, and stays.
PeekMessage(b) ==
    /\ b \in brokers /\ sending[b] = <<>> /\ mqtt_messages # <<>>
    /\ sending' = [sending EXCEPT ![b] = <<Head(mqtt_messages)>>]
    /\ UNCHANGED <<setup, subscribers, client, flag, mqtt_messages, publishing, log,
                   published, incoming>>

\* Mutated form of pop_mqtt_message: nothing is taken without a connection.
PopConnected(b) ==
    /\ b \in brokers /\ sending[b] = <<>> /\ mqtt_messages # <<>> /\ mqtt_is_connected
    /\ sending' = [sending EXCEPT ![b] = <<Head(mqtt_messages)>>]
    /\ mqtt_messages' = Tail(mqtt_messages)
    /\ UNCHANGED <<setup, subscribers, client, flag, publishing, log, published, incoming>>

\* The sending task b's Init started.  A timeout of mqtt_mutex leaves the item.
pop_mqtt_message(b) ==
    /\ b \in brokers /\ sending[b] = <<>> /\ mqtt_messages # <<>>
    /\ sending' = [sending EXCEPT ![b] = <<Head(mqtt_messages)>>]
    /\ mqtt_messages' = Tail(mqtt_messages)
    /\ UNCHANGED <<setup, subscribers, client, flag, publishing, log, published, incoming>>

\* esp_mqtt_client_publish, outside the mutex; a client that is not connected
\* drops the message.
SendMessage(b) ==
    /\ sending[b] # <<>>
    /\ LET m == Head(sending[b])
           clt == IF m.broker # NoBroker THEN m.broker ELSE system_client
       IN  log' = Append(log, [id |-> m.id, task |-> b, client |-> clt,
                               sent |-> connected[clt]])
    /\ sending' = [sending EXCEPT ![b] = <<>>]
    /\ UNCHANGED <<setup, subscribers, client, flag, mqtt_messages, publishing, published,
                   incoming>>

-----------------------------------------------------------------------------
(***************************************************************************)
(* Receiving.  MQTT_EVENT_DATA of client b, on a topic it has subscribed.  *)
(***************************************************************************)
\* strncmp over the received length: the subscriber's topic may be longer.
\* Only the first that matches is given the value.
Receiver(b, t) ==
    LET matching == {i \in DOMAIN subscribers[b] : <<t, Topic[subscribers[b][i]]>> \in Prefixes}
    IN  {subscribers[b][i] : i \in {j \in matching : \A k \in matching : j <= k}}

\* external_messages, unless message_mutex was not to be had.
push_message(s, value) ==
    \/ external_messages' = Append(external_messages, [s |-> s, value |-> value])
    \/ UNCHANGED external_messages

receiveMQTT(b, t) ==
    /\ connected[b] /\ handler[b] = "idle" /\ t \in subscribed[b]
    /\ received < MaxReceived
    /\ received' = received + 1
    /\ IF <<t, Command>> \in Prefixes
         THEN commands' = commands + 1 /\ UNCHANGED external_messages
         ELSE /\ \/ \E s \in Receiver(b, t) : push_message(s, received')
                 \/ Receiver(b, t) = {} /\ UNCHANGED external_messages
              /\ UNCHANGED commands
    /\ UNCHANGED <<setup, subscribers, client, flag, outgoing, popped, message>>

\* Mutated form of PopExternal: the newest value first.
PopExternalLast ==
    /\ Free /\ external_messages # <<>>
    /\ popped' = external_messages[Len(external_messages)]
    /\ external_messages' =
         SubSeq(external_messages, 1, Len(external_messages) - 1)
    /\ UNCHANGED <<setup, subscribers, client, flag, outgoing, message, commands, received>>

\* process_next_external_message, first half.
PopExternal ==
    /\ Free /\ external_messages # <<>>
    /\ popped' = Head(external_messages)
    /\ external_messages' = Tail(external_messages)
    /\ UNCHANGED <<setup, subscribers, client, flag, outgoing, message, commands, received>>

\* Second half: with runtime_mutex the value is set, without it is lost.
SetMessage ==
    /\ popped # NoItem
    /\ message' \in {[message EXCEPT ![popped.s] = popped.value], message}
    /\ popped' = NoItem
    /\ UNCHANGED <<setup, subscribers, client, flag, outgoing, external_messages, commands,
                   received>>

-----------------------------------------------------------------------------
cwrt_setup == \E m \in Brokers : Init_cw_MQTTBROKER(m)
MakeSubscribers == \E s \in Subscribers : register_subscriber(s)

HandleEvent(b) ==
    \/ TestHave(b) \/ setMQTTclient(b) \/ setMQTTstate(b) \/ SubscribeCommand(b)
    \/ SubscribeItem(b) \/ EventDone(b)

Network == \E b \in Brokers :
    \/ Connected(b) \/ Disconnected(b)
    \/ \E t \in {Topic[s] : s \in Subscribers} \cup {Command} : receiveMQTT(b, t)

Publish == sendMQTT \/ PublishDropped

cwMQTTTask(b) == pop_mqtt_message(b) \/ SendMessage(b)

Next ==
    \/ cwrt_setup \/ MakeSubscribers
    \/ Network
    \/ \E b \in Brokers : HandleEvent(b) \/ cwMQTTTask(b)
    \/ \E p \in Publishers : cw_MQTTPUBLISHER_set_value(p)
    \/ changeMachineState \/ cwrt_process
    \/ Publish
    \/ PopExternal \/ SetMessage

Spec == Init /\ [][Next]_vars

\* Tasks keep running.  The network need do nothing, and the program need not
\* publish.
Fairness ==
    /\ WF_vars(cwrt_setup) /\ WF_vars(MakeSubscribers) /\ WF_vars(Publish)
    /\ WF_vars(PopExternal \/ SetMessage)
    /\ \A b \in Brokers : WF_vars(HandleEvent(b)) /\ WF_vars(cwMQTTTask(b))

FairSpec == Spec /\ Fairness

-----------------------------------------------------------------------------
(***************************************************************************)
(* Properties.                                                             *)
(***************************************************************************)
Messages == [id : Nat, broker : Brokers \cup {NoBroker}]

\* Types of the MQTT machines' data (cw_MQTTBROKER.c:10-20, runtime.c:23-24,
\* 95-99); the system client is that of a broker as soon as there is a
\* connection, so what is sent to "0" has a client.
TypeOK ==
    /\ brokers \subseteq Brokers
    /\ \A b \in Brokers : \A i \in DOMAIN subscribers[b] :
         BrokerOf[subscribers[b][i]] = b
    /\ handler \in [Brokers -> {"idle", "test", "client", "state", "command", "walk"}]
    /\ system_client \in Brokers \cup {NoBroker}
    /\ mqtt_is_connected \/ mqtt_messages # <<>> => system_client # NoBroker
    /\ mqtt_messages \in Seq(Messages) /\ publishing \in Seq(Messages)
    /\ \A b \in Brokers : sending[b] \in Seq(Messages) /\ Len(sending[b]) <= 1
    /\ popped.s \in Subscribers \cup {NoBroker}
    /\ message \in [Subscribers -> 0..received]
    /\ commands \in 0..received

SentOnce ==
    LET queued == {<<"queue", i>> : i \in DOMAIN mqtt_messages}
        held == {<<"task", b>> : b \in {x \in Brokers : sending[x] # <<>>}}
        done == {<<"log", i>> : i \in DOMAIN log}
        Id(place) == CASE place[1] = "queue" -> mqtt_messages[place[2]].id
                       [] place[1] = "task" -> Head(sending[place[2]]).id
                       [] OTHER -> log[place[2]].id
    IN  \A x, y \in queued \cup held \cup done : Id(x) = Id(y) => x = y

TasksKeepOrder ==
    /\ \A i, j \in DOMAIN log :
         i < j /\ log[i].task = log[j].task => log[i].id < log[j].id
    /\ \A i \in DOMAIN log, j \in DOMAIN mqtt_messages : log[i].id < mqtt_messages[j].id

\* A message is in one place: in the queue, with one of the sending tasks or
\* with a client, although each broker has started a task and they all pop the
\* same queue.  Each task sends in the order of publication, and what waits is
\* newer than what was sent; two tasks may overtake each other between the pop
\* and the publish (cw_MQTTBROKER.c:39-66, 176, 192).
SentInOrder == SentOnce /\ TasksKeepOrder

\* While the flag says connected, the system client is, and it is subscribed
\* to commands once its event is handled; unless two clients took the flag for
\* unset at the same time (cw_MQTTBROKER.c:75-91).
SystemClientConnected ==
    mqtt_is_connected /\ ~racing =>
        /\ connected[system_client]
        /\ handler[system_client] \in {"idle", "walk"} =>
             Command \in subscribed[system_client]

\* A subscriber that was registered when its broker connected is subscribed,
\* although register_subscriber may change the list during the walk
\* (cw_MQTTBROKER.c:82-86, 217-222).
EarlySubscribersHear ==
    \A s \in early : connected[BrokerOf[s]] /\ handler[BrokerOf[s]] = "idle"
        => Topic[s] \in subscribed[BrokerOf[s]]

\* The message of a subscriber never goes back to an earlier value, whatever
\* is lost on the way (runtime.c:101-143).
NeverBack == [][\A s \in Subscribers : message'[s] >= message[s]]_vars

\* A message that was queued is given to a client in the end, whichever tasks
\* run and whoever disconnects (cw_MQTTBROKER.c:51-66).
QueueDrains ==
    \A id \in 1..MaxPublished :
        (\E i \in DOMAIN mqtt_messages : mqtt_messages[i].id = id)
            ~> (\E i \in DOMAIN log : log[i].id = id)

-----------------------------------------------------------------------------
(***************************************************************************)
(* The inductive invariant behind the safety properties.                   *)
(***************************************************************************)
Given == [id : Nat, task : Brokers, client : Brokers, sent : BOOLEAN]

\* The types that TypeOK leaves out: what is given to a client, among them.
Types ==
    /\ brokers \subseteq Brokers
    /\ subscribers \in [Brokers -> Seq(Subscribers)]
    /\ \A b \in Brokers : \A i \in DOMAIN subscribers[b] :
         BrokerOf[subscribers[b][i]] = b
    /\ connected \in [Brokers -> BOOLEAN]
    /\ subscribed \in [Brokers -> SUBSET ({Topic[s] : s \in Subscribers} \cup {Command})]
    /\ handler \in [Brokers -> {"idle", "test", "client", "state", "command", "walk"}]
    /\ item \in [Brokers -> Nat] /\ next \in [Brokers -> Nat]
    /\ mqtt_is_connected \in BOOLEAN /\ racing \in BOOLEAN
    /\ system_client \in Brokers \cup {NoBroker}
    /\ early \subseteq Subscribers

\* The setup creates a broker once, and no event comes before.
Creation ==
    /\ todo \in Seq(Brokers \cup Subscribers)
    /\ \A i, j \in DOMAIN todo : todo[i] = todo[j] => i = j
    /\ \A i \in DOMAIN todo : todo[i] \notin brokers
    /\ \A b \in Brokers : b \notin brokers => ~connected[b]
    /\ \A s \in early : BrokerOf[s] \in brokers

\* One handler at a time makes its client the system client, unless they race,
\* and none does while the flag says that there is one.
OneClient ==
    /\ \A b \in Brokers : handler[b] # "idle" => connected[b]
    /\ \A b \in Brokers : handler[b] = "state" => system_client # NoBroker
    /\ mqtt_is_connected => system_client # NoBroker
    /\ ~racing =>
         /\ \A b \in Brokers : handler[b] = "state" => system_client = b
         /\ \A b, c \in Brokers :
              handler[b] \in {"client", "state"} /\ handler[c] \in {"client", "state"}
                  => b = c
    /\ ~racing /\ mqtt_is_connected =>
         /\ \A b \in Brokers : handler[b] \notin {"client", "state"}
         /\ connected[system_client]
         /\ handler[system_client] # "test"
         /\ handler[system_client] # "command" => Command \in subscribed[system_client]

\* A walk of the handler of b has s before it, or has subscribed its topic.
\* What it does not see is added behind its last item, after it looked for next.
Ahead(b, s) ==
    \E i \in DOMAIN subscribers[b] :
        /\ subscribers[b][i] = s
        /\ handler[b] = "walk" =>
             item[b] # 0 /\ item[b] <= i /\ (item[b] < i => next[b] = item[b] + 1)

Walks ==
    /\ \A b \in Brokers : handler[b] = "walk" =>
         /\ item[b] # 0 => item[b] \in DOMAIN subscribers[b]
         /\ next[b] # 0 => next[b] \in DOMAIN subscribers[b] /\ next[b] = item[b] + 1
    /\ \A s \in early :
         /\ \E i \in DOMAIN subscribers[BrokerOf[s]] : subscribers[BrokerOf[s]][i] = s
         /\ connected[BrokerOf[s]] /\ handler[BrokerOf[s]] \in {"idle", "walk"} =>
              \/ Topic[s] \in subscribed[BrokerOf[s]]
              \/ handler[BrokerOf[s]] = "walk" /\ Ahead(BrokerOf[s], s)

\* The ids of messages along the way: the processing task, the queue, the
\* sending tasks, the clients.
Before(s, t) == \A i \in DOMAIN s, j \in DOMAIN t : s[i].id < t[j].id
Different(s, t) == \A i \in DOMAIN s, j \in DOMAIN t : s[i].id # t[j].id
Increasing(s) == \A i, j \in DOMAIN s : i < j => s[i].id < s[j].id
Made(s) == \A i \in DOMAIN s : s[i].id \in 1..published

Outgoing ==
    /\ published \in Nat
    /\ mqtt_messages \in Seq(Messages) /\ publishing \in Seq(Messages)
    /\ sending \in [Brokers -> Seq(Messages)] /\ log \in Seq(Given)
    /\ \A b \in Brokers : Len(sending[b]) <= 1
    /\ mqtt_messages # <<>> => system_client # NoBroker
    /\ \A b \in Brokers : sending[b] # <<>> => system_client # NoBroker

InOrder ==
    /\ Made(publishing) /\ Made(mqtt_messages) /\ Made(log)
    /\ Increasing(publishing) /\ Increasing(mqtt_messages)
    /\ Before(mqtt_messages, publishing)
    /\ Before(log, mqtt_messages) /\ Before(log, publishing)
    /\ \A b \in Brokers : /\ Made(sending[b])
                          /\ Before(sending[b], mqtt_messages)
                          /\ Before(sending[b], publishing)
                          /\ Different(sending[b], log)
    /\ \A b, c \in Brokers : b # c => Different(sending[b], sending[c])
    /\ \A i, j \in DOMAIN log :
         i < j => log[i].id # log[j].id /\ (log[i].task = log[j].task => log[i].id < log[j].id)
    /\ \A i \in DOMAIN log : \A j \in DOMAIN sending[log[i].task] :
         log[i].id < sending[log[i].task][j].id

\* The values along the way: external_messages, process_next_external_message,
\* the message of a subscriber.
Values == [s : Subscribers, value : Nat \ {0}]

Incoming ==
    /\ received \in Nat /\ commands \in 0..received
    /\ message \in [Subscribers -> 0..received]
    /\ external_messages \in Seq(Values)
    /\ popped \in Values \cup {NoItem}
    /\ popped.value <= received
    /\ \A i \in DOMAIN external_messages :
         popped.value < external_messages[i].value /\ external_messages[i].value <= received
    /\ \A i, j \in DOMAIN external_messages :
         i < j => external_messages[i].value < external_messages[j].value
    /\ \A s \in Subscribers :
         /\ popped # NoItem => message[s] <= popped.value
         /\ \A i \in DOMAIN external_messages : message[s] <= external_messages[i].value

MqttInv == Types /\ Creation /\ OneClient /\ Walks /\ Outgoing /\ InOrder /\ Incoming
=============================================================================
