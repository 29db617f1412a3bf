----------------------------- MODULE Mqtt_proofs -----------------------------
(***************************************************************************)
(* Proofs about Mqtt, for any brokers, publishers and subscribers: in what *)
(* order messages are given to the clients, which client is the system     *)
(* client, who is subscribed after a connection, and that a subscriber's   *)
(* message never goes back.                                                *)
(***************************************************************************)
EXTENDS Mqtt, TLAPS

LEMMA TailOf ==
  ASSUME NEW S, NEW s \in Seq(S), s # <<>>
  PROVE  /\ Tail(s) \in Seq(S) /\ Head(s) = s[1] /\ Head(s) \in S /\ 1 \in DOMAIN s
         /\ Len(Tail(s)) = Len(s) - 1
         /\ \A i \in DOMAIN Tail(s) : i \in Nat /\ i + 1 \in DOMAIN s /\ Tail(s)[i] = s[i + 1]
OBVIOUS

LEMMA AppendOf ==
  ASSUME NEW S, NEW s \in Seq(S), NEW x \in S
  PROVE  /\ Append(s, x) \in Seq(S) /\ Append(s, x) # <<>>
         /\ DOMAIN Append(s, x) = DOMAIN s \cup {Len(s) + 1}
         /\ \A i \in DOMAIN s : Append(s, x)[i] = s[i] /\ i < Len(s) + 1 /\ i \in Nat
         /\ Append(s, x)[Len(s) + 1] = x
OBVIOUS

\* What is left of a sequence in order is in order.
LEMMA TailIncreasing ==
  ASSUME NEW s \in Seq(Messages), s # <<>>, Increasing(s), Made(s)
  PROVE  Increasing(Tail(s)) /\ Made(Tail(s))
<1>1. \A i \in DOMAIN Tail(s) : i \in Nat /\ i + 1 \in DOMAIN s /\ Tail(s)[i] = s[i + 1]
  BY TailOf
<1>2. Increasing(Tail(s))
  <2> SUFFICES ASSUME NEW i \in DOMAIN Tail(s), NEW j \in DOMAIN Tail(s), i < j
               PROVE  Tail(s)[i].id < Tail(s)[j].id
    BY DEF Increasing
  <2>1. i + 1 \in DOMAIN s /\ j + 1 \in DOMAIN s /\ i + 1 < j + 1
    BY <1>1
  <2> QED  BY <1>1, <2>1 DEF Increasing
<1>3. Made(Tail(s))
  BY <1>1 DEF Made
<1> QED  BY <1>2, <1>3

\* The machines are still to be created.
THEOREM InitMqttInv == Init => MqttInv
<1> SUFFICES ASSUME Init PROVE MqttInv
  OBVIOUS
<1>1. Types
  <2>1. subscribers \in [Brokers -> Seq(Subscribers)]
        /\ \A b \in Brokers : DOMAIN subscribers[b] = {}
    BY DEF Init
  <2> QED  BY <2>1 DEF Init, Types
<1>2. Creation
  BY MachinesAssumption DEF Init, Creation
<1>3. OneClient
  BY DEF Init, OneClient
<1>4. Walks
  BY DEF Init, Walks
<1>5. Outgoing
  BY DEF Init, Outgoing
<1>6. InOrder
  BY DEF Init, InOrder, Made, Before, Increasing, Different
<1>7. Incoming
  BY DEF Init, Incoming, NoItem
<1> QED  BY <1>1, <1>2, <1>3, <1>4, <1>5, <1>6, <1>7 DEF MqttInv

\* A part of the invariant is kept by a step that leaves alone what it is about.
LEMMA Undisturbed ==
  ASSUME MqttInv
  PROVE  /\ UNCHANGED <<brokers, subscribers, client, flag>> => Types'
         /\ UNCHANGED <<setup, connected, early>> => Creation'
         /\ UNCHANGED <<connected, handler, subscribed, racing, flag>> => OneClient'
         /\ UNCHANGED <<subscribers, connected, subscribed, handler, item, next, early>>
              => Walks'
         /\ UNCHANGED <<outgoing, system_client>> => Outgoing'
         /\ UNCHANGED outgoing => InOrder'
         /\ UNCHANGED incoming => Incoming'
<1> USE DEF MqttInv, setup, client, flag, outgoing, incoming
<1>1. UNCHANGED <<brokers, subscribers, client, flag>> => Types'
  BY DEF Types
<1>2. UNCHANGED <<setup, connected, early>> => Creation'
  BY DEF Creation
<1>3. UNCHANGED <<connected, handler, subscribed, racing, flag>> => OneClient'
  BY DEF OneClient
<1>4. UNCHANGED <<subscribers, connected, subscribed, handler, item, next, early>> => Walks'
  BY DEF Walks, Ahead
<1>5. UNCHANGED <<outgoing, system_client>> => Outgoing'
  BY DEF Outgoing
<1>6. UNCHANGED outgoing => InOrder'
  BY DEF InOrder, Made, Before, Different, Increasing
<1>7. UNCHANGED incoming => Incoming'
  BY DEF Incoming
<1> QED  BY <1>1, <1>2, <1>3, <1>4, <1>5, <1>6, <1>7

-----------------------------------------------------------------------------
(***************************************************************************)
(* The setup.                                                              *)
(***************************************************************************)
\* What is left to create after one more machine.
LEMMA NextMachine ==
  ASSUME Creation, todo # <<>>, todo' = Tail(todo)
  PROVE  /\ todo' \in Seq(Brokers \cup Subscribers)
         /\ \A i, j \in DOMAIN todo' : todo'[i] = todo'[j] => i = j
         /\ \A i \in DOMAIN todo' : todo'[i] \notin brokers /\ todo'[i] # Head(todo)
         /\ Head(todo) \notin brokers
<1>1. todo \in Seq(Brokers \cup Subscribers)
  BY DEF Creation
<1>2. /\ todo' \in Seq(Brokers \cup Subscribers) /\ Head(todo) = todo[1] /\ 1 \in DOMAIN todo
      /\ \A i \in DOMAIN todo' : i \in Nat /\ i + 1 \in DOMAIN todo /\ todo'[i] = todo[i + 1]
  BY <1>1, TailOf
<1>3. \A i \in DOMAIN todo' : i # 0
  BY <1>2
<1> QED  BY <1>2, <1>3 DEF Creation

\* The broker had no client and no subscribers anyone had seen, so the fresh
\* list and queue upset nothing.
LEMMA BrokerCreated ==
  ASSUME MqttInv, NEW b \in Brokers, Init_cw_MQTTBROKER(b)
  PROVE  MqttInv'
<1> USE DEF MqttInv, setup, client, flag, outgoing, incoming
<1>1. b \notin brokers /\ ~connected[b] /\ handler[b] = "idle"
  BY NextMachine DEF Init_cw_MQTTBROKER, Creation, OneClient
<1>2. Types'
  BY DEF Init_cw_MQTTBROKER, Types
<1>3. Creation'
  BY NextMachine DEF Init_cw_MQTTBROKER, Creation
<1>4. Walks'
  <2>1. \A c \in Brokers : c # b => subscribers'[c] = subscribers[c]
    BY DEF Init_cw_MQTTBROKER, Types
  <2>2. \A s \in early : BrokerOf[s] # b /\ BrokerOf[s] \in Brokers
    BY <1>1 DEF Creation, Types
  <2> QED  BY <1>1, <2>1, <2>2 DEF Init_cw_MQTTBROKER, Walks, Ahead
<1>5. Outgoing'
  BY DEF Init_cw_MQTTBROKER, Outgoing
<1>6. InOrder'
  BY DEF Init_cw_MQTTBROKER, InOrder, Made, Before, Different, Increasing
<1> QED
  BY <1>2, <1>3, <1>4, <1>5, <1>6, Undisturbed DEF Init_cw_MQTTBROKER

\* A list that grows behind a walk keeps what the walk has before it.
LEMMA SubscriberRegistered ==
  ASSUME MqttInv, NEW s \in Subscribers, register_subscriber(s)
  PROVE  MqttInv'
<1> USE DEF MqttInv, setup, client, flag, outgoing, incoming
<1> DEFINE b == BrokerOf[s]
<1>1. b \in Brokers /\ subscribers \in [Brokers -> Seq(Subscribers)]
  BY MachinesAssumption DEF Types
<1>2. /\ subscribers' \in [Brokers -> Seq(Subscribers)]
      /\ \A c \in Brokers : c # b => subscribers'[c] = subscribers[c]
      /\ DOMAIN subscribers'[b] = DOMAIN subscribers[b] \cup {Len(subscribers[b]) + 1}
      /\ \A i \in DOMAIN subscribers[b] : subscribers'[b][i] = subscribers[b][i]
      /\ subscribers'[b][Len(subscribers[b]) + 1] = s
  BY <1>1, AppendOf DEF register_subscriber
<1> HIDE DEF b
<1>3. Types'
  <2>1. \A c \in Brokers : \A i \in DOMAIN subscribers'[c] :
          BrokerOf[subscribers'[c][i]] = c
    <3>1. \A c \in Brokers : c # b =>
            \A i \in DOMAIN subscribers'[c] : BrokerOf[subscribers'[c][i]] = c
      BY <1>2 DEF Types
    <3>2. \A i \in DOMAIN subscribers[b] : BrokerOf[subscribers[b][i]] = b
      BY <1>1 DEF Types
    <3>3. \A i \in DOMAIN subscribers'[b] : BrokerOf[subscribers'[b][i]] = b
      BY <1>2, <3>2 DEF b
    <3> QED  BY <3>1, <3>3
  <2> QED  BY <1>2, <2>1 DEF register_subscriber, Types
<1>4. Creation'
  BY NextMachine DEF register_subscriber, Creation
<1>5. Walks'
  <2>1. \A c \in Brokers : \A i \in DOMAIN subscribers[c] :
          i \in DOMAIN subscribers'[c] /\ subscribers'[c][i] = subscribers[c][i]
    BY <1>1, <1>2
  <2>2. \A x \in early : BrokerOf[x] \in Brokers
    BY MachinesAssumption DEF Types
  <2> QED  BY <2>1, <2>2 DEF register_subscriber, Walks, Ahead
<1> QED
  BY <1>3, <1>4, <1>5, Undisturbed DEF register_subscriber

-----------------------------------------------------------------------------
(***************************************************************************)
(* The event handler.                                                      *)
(***************************************************************************)
LEMMA ConnectedStep ==
  ASSUME MqttInv, NEW b \in Brokers, Connected(b)
  PROVE  MqttInv'
<1> USE DEF MqttInv, setup, client, flag, outgoing, incoming
<1>1. Types'
  BY DEF Connected, Types
<1>2. \A s \in early' : s \in early \/ BrokerOf[s] = b
  BY DEF Connected, Types
<1>3. Creation'
  BY <1>2 DEF Connected, Creation, Types
<1>4. OneClient'
  <2>1. ~racing /\ mqtt_is_connected => system_client # b
    BY DEF Connected, OneClient
  <2> QED  BY <2>1 DEF Connected, OneClient, Types
<1>5. Walks'
  <2>1. \A s \in early' : s \in early \/ \E i \in DOMAIN subscribers[b] : subscribers[b][i] = s
    BY DEF Connected
  <2>2. \A s \in early' : BrokerOf[s] \in Brokers
    BY <1>1, MachinesAssumption DEF Types
  <2> QED  BY <1>2, <2>1, <2>2 DEF Connected, Walks, Ahead, Types
<1> QED
  BY <1>1, <1>3, <1>4, <1>5, Undisturbed DEF Connected

LEMMA DisconnectedStep ==
  ASSUME MqttInv, NEW b \in Brokers, Disconnected(b)
  PROVE  MqttInv'
<1> USE DEF MqttInv, setup, client, flag, outgoing, incoming
<1>1. Types'
  BY DEF Disconnected, Types
<1>2. Creation'
  BY DEF Disconnected, Creation, Types
<1>3. OneClient'
  BY DEF Disconnected, OneClient, Types
<1>4. Walks'
  <2>2. \A s \in early : BrokerOf[s] \in Brokers
    BY MachinesAssumption DEF Types
  <2> QED  BY <2>2 DEF Disconnected, Walks, Ahead, Types
<1> QED
  BY <1>1, <1>2, <1>3, <1>4, Undisturbed DEF Disconnected

\* A walk begins with every registered subscriber before it.
LEMMA WalkBegins ==
  ASSUME MqttInv, NEW b \in Brokers, BeginWalk(b), connected[b],
         subscribed' \in [Brokers -> SUBSET ({Topic[s] : s \in Subscribers} \cup {Command})],
         \A c \in Brokers : c # b => subscribed'[c] = subscribed[c],
         UNCHANGED <<brokers, subscribers, connected, events, early>>
  PROVE  /\ item' \in [Brokers -> Nat] /\ next' \in [Brokers -> Nat]
         /\ handler' = [handler EXCEPT ![b] = "walk"]
         /\ Walks'
<1> USE DEF MqttInv
<1>1. subscribers[b] \in Seq(Subscribers)
  BY DEF Types
<1> DEFINE first == IF subscribers[b] = <<>> THEN 0 ELSE 1
           second == Following(b, first)
<1>2. /\ first \in Nat /\ second \in Nat
      /\ first # 0 => first \in DOMAIN subscribers[b]
      /\ second # 0 => second \in DOMAIN subscribers[b] /\ second = first + 1
      /\ \A i \in DOMAIN subscribers[b] :
           first # 0 /\ first <= i /\ (first < i => second = first + 1)
  BY <1>1 DEF Following
<1>3. /\ handler' = [handler EXCEPT ![b] = "walk"]
      /\ item' = [item EXCEPT ![b] = first] /\ next' = [next EXCEPT ![b] = second]
  BY DEF BeginWalk
<1> HIDE DEF first, second
<1>4. item' \in [Brokers -> Nat] /\ next' \in [Brokers -> Nat]
  BY <1>2, <1>3 DEF Types
<1>5. /\ handler'[b] = "walk" /\ item'[b] = first /\ next'[b] = second
      /\ \A c \in Brokers : c # b => handler'[c] = handler[c] /\ item'[c] = item[c]
                                     /\ next'[c] = next[c]
  BY <1>3 DEF Types
<1>6. Walks'
  <2>1. \A s \in early : BrokerOf[s] \in Brokers
    BY MachinesAssumption DEF Types
  <2>2. \A c \in Brokers : handler'[c] = "walk" =>
          /\ item'[c] # 0 => item'[c] \in DOMAIN subscribers[c]
          /\ next'[c] # 0 => next'[c] \in DOMAIN subscribers[c] /\ next'[c] = item'[c] + 1
    BY <1>2, <1>5 DEF Walks
  <2>3. \A s \in early : BrokerOf[s] = b => Ahead(b, s)'
    BY <1>2, <1>5 DEF Walks, Ahead
  <2>4. \A s \in early : BrokerOf[s] # b =>
          (Ahead(BrokerOf[s], s) => Ahead(BrokerOf[s], s)')
    BY <1>5, <2>1 DEF Ahead
  <2> QED  BY <1>5, <2>1, <2>2, <2>3, <2>4 DEF Walks
<1> QED  BY <1>3, <1>4, <1>6

LEMMA TestHaveStep ==
  ASSUME MqttInv, NEW b \in Brokers, TestHave(b)
  PROVE  MqttInv'
<1> USE DEF MqttInv, setup, client, flag, outgoing, incoming
<1>c. connected[b]
  BY DEF TestHave, OneClient
<1>1. CASE mqtt_is_connected /\ BeginWalk(b) /\ UNCHANGED racing
  <2>1. /\ item' \in [Brokers -> Nat] /\ next' \in [Brokers -> Nat]
        /\ handler' = [handler EXCEPT ![b] = "walk"]
        /\ Walks'
    BY <1>1, <1>c, WalkBegins DEF TestHave, Types
  <2>2. Types'
    BY <1>1, <2>1 DEF TestHave, Types
  <2>3. OneClient'
    BY <1>1, <2>1 DEF TestHave, OneClient, Types
  <2> QED  BY <1>1, <2>1, <2>2, <2>3, Undisturbed DEF TestHave
<1>2. CASE /\ ~mqtt_is_connected
           /\ handler' = [handler EXCEPT ![b] = "client"]
           /\ racing' = (racing \/ \E c \in Brokers : handler[c] \in {"client", "state"})
           /\ UNCHANGED <<item, next>>
  <2>0. ~racing' => ~racing /\ \A c \in Brokers : handler[c] \notin {"client", "state"}
    BY <1>2
  <2>1. Types'
    <3>1. racing' \in BOOLEAN
      BY <1>2 DEF Types
    <3> QED  BY <1>2, <3>1 DEF TestHave, Types
  <2>2. OneClient'
    BY <1>2, <2>0 DEF TestHave, OneClient, Types
  <2>3. Walks'
    <3>1. \A s \in early : BrokerOf[s] \in Brokers
      BY MachinesAssumption DEF Types
    <3> QED  BY <1>2, <3>1 DEF TestHave, Walks, Ahead, Types
  <2> QED  BY <1>2, <2>1, <2>2, <2>3, Undisturbed DEF TestHave
<1> QED  BY <1>1, <1>2 DEF TestHave

LEMMA setMQTTclientStep ==
  ASSUME MqttInv, NEW b \in Brokers, setMQTTclient(b)
  PROVE  MqttInv'
<1> USE DEF MqttInv, setup, client, flag, outgoing, incoming
<1>1. Types'
  BY DEF setMQTTclient, Types
<1>2. OneClient'
  <2>1. system_client' = b /\ system_client' # NoBroker
    BY MachinesAssumption DEF setMQTTclient
  <2>2. ~racing => ~mqtt_is_connected /\ \A c \in Brokers : c # b => handler[c] # "state"
    BY DEF setMQTTclient, OneClient
  <2> QED  BY <2>1, <2>2 DEF setMQTTclient, OneClient, Types
<1>3. Walks'
  <2>1. \A s \in early : BrokerOf[s] \in Brokers
    BY MachinesAssumption DEF Types
  <2> QED  BY <2>1 DEF setMQTTclient, Walks, Ahead, Types
<1>4. Outgoing'
  BY MachinesAssumption DEF setMQTTclient, Outgoing
<1> QED
  BY <1>1, <1>2, <1>3, <1>4, Undisturbed DEF setMQTTclient

\* The only step that sets the flag: its handler has made its client the system
\* client, and no other handler is about to.
LEMMA setMQTTstateStep ==
  ASSUME MqttInv, NEW b \in Brokers, setMQTTstate(b)
  PROVE  MqttInv'
<1> USE DEF MqttInv, setup, client, flag, outgoing, incoming
<1>1. Types'
  BY DEF setMQTTstate, Types
<1>2. OneClient'
  BY DEF setMQTTstate, OneClient, Types
<1>3. Walks'
  <2>1. \A s \in early : BrokerOf[s] \in Brokers
    BY MachinesAssumption DEF Types
  <2> QED  BY <2>1 DEF setMQTTstate, Walks, Ahead, Types
<1> QED
  BY <1>1, <1>2, <1>3, Undisturbed DEF setMQTTstate

LEMMA SubscribeCommandStep ==
  ASSUME MqttInv, NEW b \in Brokers, SubscribeCommand(b)
  PROVE  MqttInv'
<1> USE DEF MqttInv, setup, client, flag, outgoing, incoming
<1>1. /\ subscribed' \in [Brokers -> SUBSET ({Topic[s] : s \in Subscribers} \cup {Command})]
      /\ \A c \in Brokers : c # b => subscribed'[c] = subscribed[c]
      /\ Command \in subscribed'[b]
  BY DEF SubscribeCommand, Types
<1>2. connected[b]
  BY DEF SubscribeCommand, OneClient
<1>3. /\ item' \in [Brokers -> Nat] /\ next' \in [Brokers -> Nat]
      /\ handler' = [handler EXCEPT ![b] = "walk"]
      /\ Walks'
  BY <1>1, <1>2, WalkBegins DEF SubscribeCommand
<1>4. Types'
  BY <1>1, <1>3 DEF SubscribeCommand, Types
<1>5. OneClient'
  BY <1>1, <1>3 DEF SubscribeCommand, OneClient, Types
<1> QED
  BY <1>3, <1>4, <1>5, Undisturbed DEF SubscribeCommand

\* The walk leaves an item only when its topic is subscribed.
LEMMA SubscribeItemStep ==
  ASSUME MqttInv, NEW b \in Brokers, SubscribeItem(b)
  PROVE  MqttInv'
<1> USE DEF MqttInv, setup, client, flag, outgoing, incoming
<1> DEFINE i0 == item[b]
           n0 == next[b]
           n1 == Following(b, n0)
<1>1. /\ subscribers[b] \in Seq(Subscribers)
      /\ i0 \in DOMAIN subscribers[b]
      /\ n0 # 0 => n0 \in DOMAIN subscribers[b] /\ n0 = i0 + 1
      /\ n0 \in Nat /\ i0 \in Nat
  BY DEF SubscribeItem, Walks, Types
<1>2. /\ n1 \in Nat
      /\ n1 # 0 => n1 \in DOMAIN subscribers[b] /\ n1 = n0 + 1
      /\ \A i \in DOMAIN subscribers[b] : n0 # 0 /\ n0 < i => n1 = n0 + 1
  BY <1>1 DEF Following
<1>3. /\ subscribed' \in [Brokers -> SUBSET ({Topic[s] : s \in Subscribers} \cup {Command})]
      /\ \A c \in Brokers : c # b => subscribed'[c] = subscribed[c]
      /\ \A c \in Brokers : subscribed[c] \subseteq subscribed'[c]
      /\ Topic[subscribers[b][i0]] \in subscribed'[b]
  BY <1>1 DEF SubscribeItem, Types
<1>4. /\ item' \in [Brokers -> Nat] /\ next' \in [Brokers -> Nat]
      /\ item'[b] = n0 /\ next'[b] = n1
      /\ \A c \in Brokers : c # b => item'[c] = item[c] /\ next'[c] = next[c]
  BY <1>1, <1>2 DEF SubscribeItem, Types
<1> HIDE DEF n1
<1>5. Types'
  BY <1>3, <1>4 DEF SubscribeItem, Types
<1>6. OneClient'
  BY <1>3 DEF SubscribeItem, OneClient, Types
<1>7. Walks'
  <2>1. \A s \in early : BrokerOf[s] \in Brokers
    BY MachinesAssumption DEF Types
  <2>2. \A c \in Brokers : handler'[c] = "walk" =>
          /\ item'[c] # 0 => item'[c] \in DOMAIN subscribers[c]
          /\ next'[c] # 0 => next'[c] \in DOMAIN subscribers[c] /\ next'[c] = item'[c] + 1
    BY <1>1, <1>2, <1>4 DEF SubscribeItem, Walks
  <2>3. ASSUME NEW s \in early, BrokerOf[s] = b, Ahead(b, s)
        PROVE  Topic[s] \in subscribed'[b] \/ Ahead(b, s)'
    <3>1. PICK i \in DOMAIN subscribers[b] :
            subscribers[b][i] = s /\ i0 <= i /\ (i0 < i => n0 = i0 + 1)
      BY <2>3 DEF SubscribeItem, Ahead
    <3>2. CASE i = i0
      BY <1>3, <3>1, <3>2
    <3>3. CASE i0 < i
      <4>1. n0 # 0 /\ n0 <= i /\ (n0 < i => n1 = n0 + 1)
        BY <1>1, <1>2, <3>1, <3>3
      <4> QED  BY <1>4, <3>1, <4>1 DEF SubscribeItem, Ahead
    <3> QED  BY <1>1, <3>1, <3>2, <3>3
  <2>4. ASSUME NEW s \in early, BrokerOf[s] # b, Ahead(BrokerOf[s], s)
        PROVE  Ahead(BrokerOf[s], s)'
    BY <1>4, <2>1, <2>4 DEF SubscribeItem, Ahead
  <2> QED  BY <1>3, <2>1, <2>2, <2>3, <2>4 DEF SubscribeItem, Walks
<1> QED
  BY <1>5, <1>6, <1>7, Undisturbed DEF SubscribeItem

LEMMA EventDoneStep ==
  ASSUME MqttInv, NEW b \in Brokers, EventDone(b)
  PROVE  MqttInv'
<1> USE DEF MqttInv, setup, client, flag, outgoing, incoming
<1>1. Types'
  BY DEF EventDone, Types
<1>2. OneClient'
  BY DEF EventDone, OneClient, Types
<1>3. Walks'
  <2>1. \A s \in early : BrokerOf[s] \in Brokers
    BY MachinesAssumption DEF Types
  <2>2. \A s \in early : BrokerOf[s] = b => ~Ahead(b, s)
    BY DEF EventDone, Ahead
  <2> QED  BY <2>1, <2>2 DEF EventDone, Walks, Ahead, Types
<1> QED
  BY <1>1, <1>2, <1>3, Undisturbed DEF EventDone

-----------------------------------------------------------------------------
(***************************************************************************)
(* Publishing.                                                             *)
(***************************************************************************)
\* The messages of one publication follow each other and all that went before.
LEMMA PublishesStep ==
  ASSUME MqttInv, NEW to \in Seq(Brokers \cup {NoBroker}), Publishes(to),
         commands' \in 0..commands
  PROVE  MqttInv'
<1> USE DEF MqttInv, setup, client, flag, outgoing, incoming
<1>1. /\ Len(to) \in Nat /\ DOMAIN to = 1..Len(to)
      /\ \A k \in DOMAIN to : to[k] \in Brokers \cup {NoBroker}
  OBVIOUS
<1>2. published \in Nat /\ published' = published + Len(to)
  BY DEF Publishes, Outgoing
<1>3. /\ DOMAIN publishing' = 1..Len(to)
      /\ \A k \in 1..Len(to) :
           publishing'[k] = [id |-> published + k, broker |-> to[k]]
      /\ publishing' \in Seq(Messages)
  <2>1. publishing' = [k \in 1..Len(to) |-> [id |-> published + k, broker |-> to[k]]]
    BY <1>1 DEF Publishes
  <2>2. \A k \in 1..Len(to) : [id |-> published + k, broker |-> to[k]] \in Messages
    BY <1>1, <1>2 DEF Messages
  <2>3. publishing' \in [1..Len(to) -> Messages]
    BY <2>1, <2>2
  <2> QED  BY <1>1, <2>1, <2>3
<1>4. \A k \in DOMAIN publishing' : publishing'[k].id = published + k /\ k \in 1..Len(to)
  BY <1>3
<1>5. Outgoing'
  BY <1>1, <1>2, <1>3 DEF Publishes, Outgoing
<1>6. InOrder'
  <2>1. 1..published \subseteq 1..published'
    BY <1>1, <1>2
  <2>2. Made(publishing)' /\ Increasing(publishing)'
    BY <1>1, <1>2, <1>4 DEF Made, Increasing
  <2>3. Made(mqtt_messages)' /\ Made(log)' /\ \A b \in Brokers : Made(sending[b])'
    BY <2>1 DEF Publishes, InOrder, Made
  <2>4. /\ Before(mqtt_messages, publishing)' /\ Before(log, publishing)'
        /\ \A b \in Brokers : Before(sending[b], publishing)'
    BY <1>2, <1>4 DEF Publishes, InOrder, Made, Before
  <2>5. /\ Increasing(mqtt_messages)' /\ Before(log, mqtt_messages)'
        /\ \A b \in Brokers : /\ Before(sending[b], mqtt_messages)'
                              /\ Different(sending[b], log)'
        /\ \A b, c \in Brokers : b # c => Different(sending[b], sending[c])'
    BY DEF Publishes, InOrder, Increasing, Before, Different
  <2> QED  BY <2>2, <2>3, <2>4, <2>5 DEF Publishes, InOrder
<1>7. Incoming'
  <2>1. commands' \in 0..received
    BY DEF Incoming
  <2> QED  BY <2>1 DEF Publishes, Incoming
<1> QED
  BY <1>5, <1>6, <1>7, Undisturbed DEF Publishes

LEMMA sendMQTTStep ==
  ASSUME MqttInv, sendMQTT
  PROVE  MqttInv'
<1> USE DEF MqttInv, setup, client, flag, outgoing, incoming
<1> DEFINE m == Head(publishing)
           n == Len(mqtt_messages) + 1
<1>1. /\ publishing' \in Seq(Messages) /\ m = publishing[1] /\ m \in Messages
      /\ 1 \in DOMAIN publishing
      /\ \A i \in DOMAIN publishing' :
           i \in Nat /\ i + 1 \in DOMAIN publishing /\ publishing'[i] = publishing[i + 1]
  BY TailOf DEF sendMQTT, Outgoing
<1>2. /\ mqtt_messages' \in Seq(Messages)
      /\ DOMAIN mqtt_messages' = DOMAIN mqtt_messages \cup {n}
      /\ \A i \in DOMAIN mqtt_messages : mqtt_messages'[i] = mqtt_messages[i] /\ i < n
                                          /\ i \in Nat
      /\ mqtt_messages'[n] = m /\ n \in Nat
  BY <1>1, AppendOf DEF sendMQTT, push_mqtt_message, Outgoing
<1> HIDE DEF m, n
<1>3. Outgoing'
  BY <1>1, <1>2 DEF sendMQTT, Outgoing, OneClient
<1>4. InOrder'
  <2>1. Made(publishing)' /\ Increasing(publishing)'
    BY <1>1 DEF sendMQTT, InOrder, Made, Increasing
  <2>2. Made(mqtt_messages)'
    BY <1>1, <1>2 DEF sendMQTT, InOrder, Made
  <2>3. Increasing(mqtt_messages)'
    BY <1>1, <1>2 DEF InOrder, Increasing, Before
  <2>4. Before(mqtt_messages, publishing)'
    <3>1. \A j \in DOMAIN publishing' : m.id < publishing'[j].id
      BY <1>1 DEF InOrder, Increasing
    <3>2. \A i \in DOMAIN mqtt_messages, j \in DOMAIN publishing' :
            mqtt_messages[i].id < publishing'[j].id
      BY <1>1 DEF InOrder, Before
    <3> QED  BY <1>2, <3>1, <3>2 DEF Before
  <2>5. Before(log, mqtt_messages)' /\ Before(log, publishing)'
    BY <1>1, <1>2 DEF sendMQTT, InOrder, Before
  <2>6. ASSUME NEW b \in Brokers
        PROVE  Before(sending[b], mqtt_messages)' /\ Before(sending[b], publishing)'
    <3>1. Before(sending[b], mqtt_messages) /\ Before(sending[b], publishing)
          /\ sending'[b] = sending[b]
      BY DEF sendMQTT, InOrder
    <3> QED  BY <1>1, <1>2, <3>1 DEF Before
  <2>7. /\ Made(log)' /\ \A b \in Brokers : Made(sending[b])' /\ Different(sending[b], log)'
        /\ \A b, c \in Brokers : b # c => Different(sending[b], sending[c])'
    BY DEF sendMQTT, InOrder, Made, Different
  <2> QED  BY <2>1, <2>2, <2>3, <2>4, <2>5, <2>6, <2>7 DEF sendMQTT, InOrder
<1> QED
  BY <1>3, <1>4, Undisturbed DEF sendMQTT

LEMMA PublishDroppedStep ==
  ASSUME MqttInv, PublishDropped
  PROVE  MqttInv'
<1> USE DEF MqttInv, setup, client, flag, outgoing, incoming
<1>1. /\ publishing' \in Seq(Messages)
      /\ \A i \in DOMAIN publishing' :
           i \in Nat /\ i + 1 \in DOMAIN publishing /\ publishing'[i] = publishing[i + 1]
  BY TailOf DEF PublishDropped, Outgoing
<1>2. Outgoing'
  BY <1>1 DEF PublishDropped, Outgoing
<1>3. InOrder'
  <2>1. Made(publishing)' /\ Increasing(publishing)'
    <3>1. Made(Tail(publishing)) /\ Increasing(Tail(publishing))
      BY TailIncreasing DEF PublishDropped, Outgoing, InOrder
    <3> QED  BY <3>1 DEF PublishDropped, Made, Increasing
  <2>2. Before(mqtt_messages, publishing)' /\ Before(log, publishing)'
    <3>1. Before(mqtt_messages, publishing) /\ Before(log, publishing)
          /\ UNCHANGED <<mqtt_messages, log>>
      BY DEF PublishDropped, InOrder
    <3> QED  BY <1>1, <3>1 DEF Before
  <2>4. ASSUME NEW b \in Brokers
        PROVE  Before(sending[b], publishing)'
    <3>1. Before(sending[b], publishing) /\ sending'[b] = sending[b]
      BY DEF PublishDropped, InOrder
    <3> QED  BY <1>1, <3>1 DEF Before
  <2>3. /\ Made(mqtt_messages)' /\ Made(log)' /\ Increasing(mqtt_messages)'
        /\ Before(log, mqtt_messages)'
        /\ \A b \in Brokers : /\ Made(sending[b])' /\ Before(sending[b], mqtt_messages)'
                              /\ Different(sending[b], log)'
        /\ \A b, c \in Brokers : b # c => Different(sending[b], sending[c])'
    BY DEF PublishDropped, InOrder, Made, Increasing, Before, Different
  <2> QED  BY <2>1, <2>2, <2>3, <2>4 DEF PublishDropped, InOrder
<1> QED
  BY <1>2, <1>3, Undisturbed DEF PublishDropped

\* The oldest message goes to the task; what stays is newer, what is with the
\* other tasks or the clients is older.
LEMMA PopStep ==
  ASSUME MqttInv, NEW b \in Brokers, pop_mqtt_message(b)
  PROVE  MqttInv'
<1> USE DEF MqttInv, setup, client, flag, outgoing, incoming
<1> DEFINE m == Head(mqtt_messages)
<1>1. /\ mqtt_messages' \in Seq(Messages) /\ m = mqtt_messages[1] /\ m \in Messages
      /\ 1 \in DOMAIN mqtt_messages
      /\ \A i \in DOMAIN mqtt_messages' :
           i \in Nat /\ i + 1 \in DOMAIN mqtt_messages /\ mqtt_messages'[i] = mqtt_messages[i + 1]
  BY TailOf DEF pop_mqtt_message, Outgoing
<1> HIDE DEF m
<1>2. /\ sending' \in [Brokers -> Seq(Messages)]
      /\ sending'[b] = <<m>> /\ DOMAIN sending'[b] = {1} /\ sending'[b][1] = m
      /\ \A c \in Brokers : c # b => sending'[c] = sending[c]
  <2>1. sending' = [sending EXCEPT ![b] = <<m>>] /\ sending \in [Brokers -> Seq(Messages)]
    BY DEF pop_mqtt_message, Outgoing, m
  <2> QED  BY <1>1, <2>1
<1>3. sending[b] = <<>> /\ DOMAIN sending[b] = {}
  BY DEF pop_mqtt_message
<1>4. UNCHANGED <<publishing, log, published, system_client>> /\ log \in Seq(Given)
  BY DEF pop_mqtt_message, Outgoing
<1>5. Outgoing'
  <2>1. mqtt_messages # <<>> /\ system_client # NoBroker
    BY DEF pop_mqtt_message, Outgoing
  <2>2. Len(sending'[b]) = 1
    BY <1>2
  <2>3. \A c \in Brokers : Len(sending'[c]) <= 1
    <3>1. \A c \in Brokers : Len(sending[c]) <= 1
      BY DEF Outgoing
    <3>2. 1 <= 1
      OBVIOUS
    <3> QED  BY <1>2, <2>2, <3>1, <3>2
  <2>4. published \in Nat /\ publishing \in Seq(Messages)
    BY DEF Outgoing
  <2>5. /\ mqtt_messages' \in Seq(Messages) /\ sending' \in [Brokers -> Seq(Messages)]
        /\ system_client' # NoBroker
    BY <1>1, <1>2, <1>4, <2>1
  <2> QED  BY ONLY <1>4, <2>3, <2>4, <2>5 DEF Outgoing
<1>6. InOrder'
  <2>1. Made(mqtt_messages)' /\ Increasing(mqtt_messages)'
    <3>1. Made(Tail(mqtt_messages)) /\ Increasing(Tail(mqtt_messages))
      BY TailIncreasing DEF pop_mqtt_message, Outgoing, InOrder
    <3> QED  BY <3>1 DEF pop_mqtt_message, Made, Increasing
  <2>2. Before(mqtt_messages, publishing)' /\ Before(log, mqtt_messages)'
    <3>1. Before(mqtt_messages, publishing) /\ Before(log, mqtt_messages)
      BY DEF InOrder
    <3> QED  BY <1>1, <1>4, <3>1 DEF Before
  <2>3. Made(publishing)' /\ Made(log)' /\ Increasing(publishing)' /\ Before(log, publishing)'
    BY <1>4 DEF InOrder, Made, Increasing, Before
  <2>4. /\ Made(sending[b])' /\ Before(sending[b], mqtt_messages)'
        /\ Before(sending[b], publishing)' /\ Different(sending[b], log)'
    <3>1. m.id \in 1..published
      BY <1>1 DEF InOrder, Made
    <3>2. \A j \in DOMAIN mqtt_messages' : m.id < mqtt_messages'[j].id
      BY <1>1 DEF InOrder, Increasing
    <3>3. \A j \in DOMAIN publishing : m.id < publishing[j].id
      BY <1>1 DEF InOrder, Before
    <3>4. \A j \in DOMAIN log : m.id # log[j].id
      <4>1. \A j \in DOMAIN log : log[j].id < m.id /\ log[j].id \in Nat
        BY <1>1 DEF InOrder, Before, Made
      <4> QED  BY <3>1, <4>1
    <3> QED  BY <1>2, <1>4, <3>1, <3>2, <3>3, <3>4 DEF Made, Before, Different
  <2>5. ASSUME NEW c \in Brokers, c # b
        PROVE  /\ Made(sending[c])' /\ Before(sending[c], mqtt_messages)'
               /\ Before(sending[c], publishing)' /\ Different(sending[c], log)'
               /\ Different(sending[b], sending[c])' /\ Different(sending[c], sending[b])'
    <3>1. /\ Made(sending[c]) /\ Before(sending[c], mqtt_messages)
          /\ Before(sending[c], publishing) /\ Different(sending[c], log)
          /\ sending'[c] = sending[c]
      BY <1>2, <2>5 DEF InOrder
    <3>2. Made(sending[c])' /\ Before(sending[c], publishing)' /\ Different(sending[c], log)'
      BY <1>4, <3>1 DEF Made, Before, Different
    <3>3. Before(sending[c], mqtt_messages)'
      BY <1>1, <3>1 DEF Before
    <3>4. \A i \in DOMAIN sending[c] : sending[c][i].id # m.id
      <4>1. \A i \in DOMAIN sending[c] : sending[c][i].id < m.id /\ sending[c][i].id \in Nat
        BY <1>1, <3>1 DEF Before, Made
      <4> QED  BY <1>1, <4>1 DEF Messages
    <3> QED  BY <1>2, <3>1, <3>2, <3>3, <3>4 DEF Different
  <2>6. \A c, d \in Brokers : c # d => Different(sending[c], sending[d])'
    <3> SUFFICES ASSUME NEW c \in Brokers, NEW d \in Brokers, c # d
                 PROVE  Different(sending[c], sending[d])'
      OBVIOUS
    <3>1. CASE c = b \/ d = b
      BY <2>5, <3>1
    <3>2. CASE c # b /\ d # b
      <4>1. Different(sending[c], sending[d])
        BY DEF InOrder
      <4> QED  BY <1>2, <3>2, <4>1
    <3> QED  BY <3>1, <3>2
  <2>7. \A i \in DOMAIN log : \A j \in DOMAIN sending'[log[i].task] :
          log[i].id < sending'[log[i].task][j].id
    <3> SUFFICES ASSUME NEW i \in DOMAIN log, NEW j \in DOMAIN sending'[log[i].task]
                 PROVE  log[i].id < sending'[log[i].task][j].id
      OBVIOUS
    <3>1. log[i].task \in Brokers
      <4>1. log[i] \in Given
        BY <1>4
      <4> QED  BY <4>1 DEF Given
    <3>2. CASE log[i].task = b
      BY <1>1, <1>2, <3>2 DEF InOrder, Before
    <3>3. CASE log[i].task # b
      BY <1>2, <3>1, <3>3 DEF InOrder
    <3> QED  BY <3>2, <3>3
  <2>8. \A i, j \in DOMAIN log :
          i < j => log[i].id # log[j].id /\ (log[i].task = log[j].task => log[i].id < log[j].id)
    BY DEF InOrder
  <2> QED  BY <1>4, <2>1, <2>2, <2>3, <2>4, <2>5, <2>6, <2>7, <2>8 DEF InOrder
<1> QED
  BY <1>5, <1>6, Undisturbed DEF pop_mqtt_message

\* What a task gives to a client is newer than all it gave before, and older
\* than what waits; to "0" it goes to the system client, which there is.
LEMMA SendMessageStep ==
  ASSUME MqttInv, NEW b \in Brokers, SendMessage(b)
  PROVE  MqttInv'
<1> USE DEF MqttInv, setup, client, flag, outgoing, incoming
<1> DEFINE m == sending[b][1]
           n == Len(log) + 1
           clt == IF m.broker # NoBroker THEN m.broker ELSE system_client
           entry == [id |-> m.id, task |-> b, client |-> clt, sent |-> connected[clt]]
<1>1. /\ sending[b] \in Seq(Messages) /\ Head(sending[b]) = m /\ m \in Messages
      /\ 1 \in DOMAIN sending[b] /\ DOMAIN sending[b] = {1}
  <2>1. sending[b] \in Seq(Messages) /\ Len(sending[b]) <= 1 /\ sending[b] # <<>>
    BY DEF SendMessage, Outgoing
  <2> QED  BY <2>1, TailOf
<1>2. clt \in Brokers
  BY <1>1 DEF SendMessage, Messages, Outgoing, Types
<1>3. entry \in Given /\ entry.id = m.id /\ entry.task = b
  <2>1. m.id \in Nat /\ connected[clt] \in BOOLEAN
    BY <1>1, <1>2 DEF Messages, Types
  <2> HIDE DEF m, clt
  <2> QED  BY <1>2, <2>1 DEF Given
<1>4. log' = Append(log, entry)
  BY <1>1 DEF SendMessage
<1> HIDE DEF m, clt, entry, n
<1>5. /\ log' \in Seq(Given)
      /\ DOMAIN log' = DOMAIN log \cup {n} /\ n \in Nat
      /\ \A i \in DOMAIN log : log'[i] = log[i] /\ i < n /\ i \in Nat
      /\ log'[n] = entry
  <2>1. log \in Seq(Given)
    BY DEF Outgoing
  <2> QED  BY <1>3, <1>4, <2>1, AppendOf DEF n
<1>6. /\ sending' \in [Brokers -> Seq(Messages)]
      /\ sending'[b] = <<>> /\ DOMAIN sending'[b] = {}
      /\ \A c \in Brokers : c # b => sending'[c] = sending[c]
  BY DEF SendMessage, Outgoing
<1>7. UNCHANGED <<mqtt_messages, publishing, published, system_client>>
  BY DEF SendMessage
<1>8. Outgoing'
  <2>1. \A c \in Brokers : Len(sending'[c]) <= 1
    <3>1. \A c \in Brokers : Len(sending[c]) <= 1
      BY DEF Outgoing
    <3>2. Len(sending'[b]) = 0
      BY <1>6
    <3>3. 0 <= 1
      OBVIOUS
    <3> QED  BY <1>6, <3>1, <3>2, <3>3
  <2>2. \A c \in Brokers : sending'[c] # <<>> => system_client # NoBroker
    BY <1>6 DEF Outgoing
  <2> QED  BY <1>5, <1>6, <1>7, <2>1, <2>2 DEF Outgoing
<1>9. InOrder'
  <2>1. /\ m.id \in 1..published
        /\ \A j \in DOMAIN mqtt_messages : m.id < mqtt_messages[j].id
        /\ \A j \in DOMAIN publishing : m.id < publishing[j].id
        /\ \A j \in DOMAIN log : m.id # log[j].id
    BY <1>1 DEF InOrder, Made, Before, Different, m
  <2>2. \A i \in DOMAIN log : log[i].task = b => log[i].id < m.id
    BY <1>1 DEF InOrder, m
  <2>3. \A c \in Brokers : c # b =>
          \A i \in DOMAIN sending[c] : sending[c][i].id # m.id
    BY <1>1 DEF InOrder, Different, m
  <2>4. /\ Made(publishing)' /\ Made(mqtt_messages)' /\ Increasing(publishing)'
        /\ Increasing(mqtt_messages)' /\ Before(mqtt_messages, publishing)'
    BY <1>7 DEF InOrder, Made, Increasing, Before
  <2>5. Made(log)' /\ Before(log, mqtt_messages)' /\ Before(log, publishing)'
    <3>1. Made(log) /\ Before(log, mqtt_messages) /\ Before(log, publishing)
      BY DEF InOrder
    <3> QED  BY <1>3, <1>5, <1>7, <2>1, <3>1 DEF Made, Before
  <2>6. ASSUME NEW c \in Brokers
        PROVE  /\ Made(sending[c])' /\ Before(sending[c], mqtt_messages)'
               /\ Before(sending[c], publishing)' /\ Different(sending[c], log)'
    <3>1. CASE c = b
      BY <1>6, <3>1 DEF Made, Before, Different
    <3>2. CASE c # b
      <4>1. /\ Made(sending[c]) /\ Before(sending[c], mqtt_messages)
            /\ Before(sending[c], publishing) /\ Different(sending[c], log)
            /\ sending'[c] = sending[c]
        BY <1>6, <3>2 DEF InOrder
      <4> QED  BY <1>3, <1>5, <1>7, <2>3, <3>2, <4>1 DEF Made, Before, Different
    <3> QED  BY <3>1, <3>2
  <2>7. ASSUME NEW c \in Brokers, NEW d \in Brokers, c # d
        PROVE  Different(sending[c], sending[d])'
    <3>1. Different(sending[c], sending[d])
      BY <2>7 DEF InOrder
    <3> QED  BY <1>6, <3>1 DEF Different
  <2>8. ASSUME NEW i \in DOMAIN log', NEW j \in DOMAIN log', i < j
        PROVE  log'[i].id # log'[j].id /\ (log'[i].task = log'[j].task => log'[i].id < log'[j].id)
    <3>1. i \in DOMAIN log
      BY <1>5, <2>8
    <3>2. CASE j = n
      BY <1>3, <1>5, <2>1, <2>2, <3>1, <3>2
    <3>3. CASE j \in DOMAIN log
      BY <1>5, <2>8, <3>1, <3>3 DEF InOrder
    <3> QED  BY <1>5, <3>2, <3>3
  <2>9. ASSUME NEW i \in DOMAIN log', NEW j \in DOMAIN sending'[log'[i].task]
        PROVE  log'[i].id < sending'[log'[i].task][j].id
    <3>1. log'[i].task \in Brokers /\ log'[i].task # b
      <4>1. log'[i] \in Given
        BY <1>5
      <4> QED  BY <1>6, <2>9, <4>1 DEF Given
    <3>2. i \in DOMAIN log /\ log'[i] = log[i]
      BY <1>3, <1>5, <3>1
    <3>3. sending'[log[i].task] = sending[log[i].task]
      BY <1>6, <3>1, <3>2
    <3> QED  BY <2>9, <3>2, <3>3 DEF InOrder
  <2> QED  BY <2>4, <2>5, <2>6, <2>7, <2>8, <2>9 DEF InOrder
<1> QED
  BY <1>8, <1>9, Undisturbed DEF SendMessage

-----------------------------------------------------------------------------
(***************************************************************************)
(* Receiving.                                                              *)
(***************************************************************************)
LEMMA WaitingValues ==
  ASSUME Incoming
  PROVE  \A i \in DOMAIN external_messages : external_messages[i].value \in Nat \ {0}
<1>1. \A i \in DOMAIN external_messages : external_messages[i] \in Values
  BY DEF Incoming
<1> QED  BY <1>1 DEF Values

\* A value is newer than all that are on their way.
LEMMA ReceiveStep ==
  ASSUME MqttInv, NEW b \in Brokers, NEW t, receiveMQTT(b, t)
  PROVE  MqttInv'
<1> USE DEF MqttInv, setup, client, flag, outgoing, incoming
<1>1. /\ received \in Nat /\ received' = received + 1
      /\ commands' \in 0..received'
      /\ UNCHANGED <<popped, message>>
  BY DEF receiveMQTT, Incoming
<1>2. message \in [Subscribers -> 0..received]
  BY DEF Incoming
<1>3. message' \in [Subscribers -> 0..received'] /\ popped.value \in Nat
  BY <1>1, <1>2 DEF Incoming, Values, NoItem
<1>4. CASE UNCHANGED external_messages
  <2>1. \A i \in DOMAIN external_messages : external_messages[i].value \in Nat
    BY WaitingValues
  <2> QED  BY <1>1, <1>3, <1>4, <2>1, Undisturbed DEF receiveMQTT, Incoming
<1>5. ASSUME NEW s \in Subscribers,
             external_messages' = Append(external_messages, [s |-> s, value |-> received'])
      PROVE  MqttInv'
  <2> DEFINE new == [s |-> s, value |-> received']
             n == Len(external_messages) + 1
  <2>1. new \in Values /\ new.value = received'
    BY <1>1 DEF Values
  <2> HIDE DEF new
  <2>2. external_messages \in Seq(Values)
    BY DEF Incoming
  <2>3. /\ external_messages' \in Seq(Values)
        /\ DOMAIN external_messages' = DOMAIN external_messages \cup {n} /\ n \in Nat
        /\ \A i \in DOMAIN external_messages :
             external_messages'[i] = external_messages[i] /\ i < n /\ i \in Nat
        /\ external_messages'[n] = new
    BY <1>5, <2>1, <2>2, AppendOf DEF new
  <2> HIDE DEF n
  <2>4. \A i \in DOMAIN external_messages : external_messages[i].value \in Nat
    BY WaitingValues
  <2>5. \A x \in Subscribers : message[x] <= received /\ message[x] \in Nat
    BY <1>2
  <2>6. popped \in Values \cup {NoItem} /\ popped.value <= received
    BY DEF Incoming
  <2>7. \A i \in DOMAIN external_messages' :
          popped.value < external_messages'[i].value /\ external_messages'[i].value <= received'
    BY <1>1, <1>3, <2>1, <2>3, <2>4, <2>6 DEF Incoming
  <2>8. \A i, j \in DOMAIN external_messages' :
          i < j => external_messages'[i].value < external_messages'[j].value
    BY <1>1, <2>1, <2>3, <2>4 DEF Incoming
  <2>9. \A x \in Subscribers :
          /\ popped # NoItem => message[x] <= popped.value
          /\ \A i \in DOMAIN external_messages' : message[x] <= external_messages'[i].value
    BY <1>1, <2>1, <2>3, <2>5 DEF Incoming
  <2>10. Incoming'
    BY <1>1, <1>3, <2>3, <2>6, <2>7, <2>8, <2>9 DEF Incoming
  <2> QED  BY <2>10, Undisturbed DEF receiveMQTT
<1>6. \A s \in Receiver(b, t) : s \in Subscribers
  <2> SUFFICES ASSUME NEW s \in Receiver(b, t) PROVE s \in Subscribers
    OBVIOUS
  <2>1. PICK i \in DOMAIN subscribers[b] : s = subscribers[b][i]
    BY DEF Receiver
  <2> QED  BY <2>1 DEF Types
<1> QED  BY <1>4, <1>5, <1>6 DEF receiveMQTT, push_message

LEMMA PopExternalStep ==
  ASSUME MqttInv, PopExternal
  PROVE  MqttInv' /\ message' = message
<1> USE DEF MqttInv, setup, client, flag, outgoing, incoming
<1>1. external_messages \in Seq(Values) /\ external_messages # <<>>
  BY DEF PopExternal, Incoming
<1>2. /\ external_messages' \in Seq(Values) /\ popped' = external_messages[1]
      /\ 1 \in DOMAIN external_messages /\ popped' \in Values
      /\ \A i \in DOMAIN external_messages' :
           /\ i \in Nat /\ i + 1 \in DOMAIN external_messages /\ 1 < i + 1
           /\ external_messages'[i] = external_messages[i + 1]
  <2>1. external_messages' = Tail(external_messages) /\ popped' = Head(external_messages)
    BY DEF PopExternal
  <2> QED  BY <1>1, <2>1, TailOf
<1>3. \A i \in DOMAIN external_messages' :
        popped'.value < external_messages'[i].value /\ external_messages'[i].value <= received
  BY <1>2 DEF Incoming
<1>4. \A i, j \in DOMAIN external_messages' :
        i < j => external_messages'[i].value < external_messages'[j].value
  <2> SUFFICES ASSUME NEW i \in DOMAIN external_messages', NEW j \in DOMAIN external_messages',
                      i < j
               PROVE  external_messages'[i].value < external_messages'[j].value
    OBVIOUS
  <2>1. i + 1 < j + 1
    BY <1>2
  <2> QED  BY <1>2, <2>1 DEF Incoming
<1>5. \A s \in Subscribers :
        /\ message[s] <= popped'.value
        /\ \A i \in DOMAIN external_messages' : message[s] <= external_messages'[i].value
  BY <1>2 DEF Incoming
<1>6. popped'.value <= received
  BY <1>2 DEF Incoming
<1>7. Incoming'
  BY <1>2, <1>3, <1>4, <1>5, <1>6 DEF PopExternal, Incoming
<1> QED  BY <1>7, Undisturbed DEF PopExternal

\* The value that is set is not older than the message.
LEMMA SetMessageStep ==
  ASSUME MqttInv, SetMessage
  PROVE  MqttInv' /\ \A s \in Subscribers : message'[s] >= message[s]
<1> USE DEF MqttInv, setup, client, flag, outgoing, incoming
<1>1. /\ popped \in Values /\ popped.s \in Subscribers /\ popped.value \in 1..received
      /\ received \in Nat /\ message \in [Subscribers -> 0..received]
  BY DEF SetMessage, Incoming, Values
<1>2. /\ message' \in [Subscribers -> 0..received]
      /\ \A s \in Subscribers : message'[s] = message[s] \/ message'[s] = popped.value
  BY <1>1 DEF SetMessage
<1>3. \A s \in Subscribers : message[s] <= popped.value
  BY DEF SetMessage, Incoming
<1>4. \A s \in Subscribers : message'[s] >= message[s]
  BY <1>1, <1>2, <1>3
<1>5. /\ popped' = NoItem /\ NoItem.value = 0
      /\ UNCHANGED <<external_messages, received, commands>>
  BY DEF SetMessage, NoItem
<1>6. Incoming'
  <2>1. \A i \in DOMAIN external_messages : external_messages[i].value \in Nat \ {0}
    BY WaitingValues
  <2>2. ASSUME NEW s \in Subscribers, NEW i \in DOMAIN external_messages
        PROVE  message'[s] <= external_messages[i].value
    <3>1. /\ popped.value < external_messages[i].value
          /\ message[s] <= external_messages[i].value
      BY DEF Incoming
    <3> QED  BY <1>1, <1>2, <2>1, <3>1
  <2> QED  BY <1>1, <1>2, <1>5, <2>1, <2>2 DEF Incoming
<1> QED  BY <1>4, <1>6, Undisturbed DEF SetMessage

-----------------------------------------------------------------------------
\* Every step keeps the invariant, whichever tasks it is of.
THEOREM NextMqttInv == MqttInv /\ [Next]_vars => MqttInv'
<1> SUFFICES ASSUME MqttInv, [Next]_vars PROVE MqttInv'
  OBVIOUS
<1>1. CASE cwrt_setup
  BY <1>1, BrokerCreated DEF cwrt_setup
<1>2. CASE MakeSubscribers
  BY <1>2, SubscriberRegistered DEF MakeSubscribers
<1>3. CASE Network
  BY <1>3, ConnectedStep, DisconnectedStep, ReceiveStep DEF Network
<1>4. ASSUME NEW b \in Brokers, HandleEvent(b)
      PROVE  MqttInv'
  BY <1>4, TestHaveStep, setMQTTclientStep, setMQTTstateStep, SubscribeCommandStep,
     SubscribeItemStep, EventDoneStep DEF HandleEvent
<1>5. ASSUME NEW b \in Brokers, cwMQTTTask(b)
      PROVE  MqttInv'
  BY <1>5, PopStep, SendMessageStep DEF cwMQTTTask
<1>6. ASSUME NEW p \in Publishers, cw_MQTTPUBLISHER_set_value(p)
      PROVE  MqttInv'
  <2>1. <<BrokerOf[p], NoBroker>> \in Seq(Brokers \cup {NoBroker})
    BY MachinesAssumption
  <2>2. commands' \in 0..commands
    BY <1>6 DEF cw_MQTTPUBLISHER_set_value, MqttInv, Incoming
  <2> QED  BY <1>6, <2>1, <2>2, PublishesStep DEF cw_MQTTPUBLISHER_set_value
<1>7. CASE changeMachineState
  <2>1. <<NoBroker>> \in Seq(Brokers \cup {NoBroker})
    OBVIOUS
  <2>2. commands' \in 0..commands
    BY <1>7 DEF changeMachineState, MqttInv, Incoming
  <2> QED  BY <1>7, <2>1, <2>2, PublishesStep DEF changeMachineState
<1>8. CASE cwrt_process
  <2>1. PICK answer \in {default_describe, <<NoBroker>>, <<>>} : Publishes(answer)
    BY <1>8 DEF cwrt_process
  <2>2. answer \in Seq(Brokers \cup {NoBroker})
    <3>1. /\ <<NoBroker, NoBroker>> \in Seq(Brokers \cup {NoBroker})
          /\ <<NoBroker>> \in Seq(Brokers \cup {NoBroker})
          /\ <<>> \in Seq(Brokers \cup {NoBroker})
      OBVIOUS
    <3> QED  BY <3>1 DEF default_describe
  <2>3. commands' \in 0..commands
    BY <1>8 DEF cwrt_process, MqttInv, Incoming
  <2> QED  BY <2>1, <2>2, <2>3, PublishesStep
<1>9. CASE Publish
  BY <1>9, sendMQTTStep, PublishDroppedStep DEF Publish
<1>10. CASE PopExternal \/ SetMessage
  BY <1>10, PopExternalStep, SetMessageStep
<1>11. CASE UNCHANGED vars
  BY <1>11, Undisturbed DEF vars, setup, client, flag, outgoing, incoming, MqttInv
<1> QED
  BY <1>1, <1>2, <1>3, <1>4, <1>5, <1>6, <1>7, <1>8, <1>9, <1>10, <1>11 DEF Next

THEOREM AlwaysMqttInv == Spec => []MqttInv
<1> QED  BY InitMqttInv, NextMqttInv, PTL DEF Spec

\* Types; what is sent to "0" has a client.
THEOREM MqttTypes == Spec => []TypeOK
<1>1. MqttInv => TypeOK
  <2> SUFFICES ASSUME MqttInv PROVE TypeOK
    OBVIOUS
  <2>1. popped.s \in Subscribers \cup {NoBroker}
    BY DEF MqttInv, Incoming, Values, NoItem
  <2>2. \A b \in Brokers : sending[b] \in Seq(Messages) /\ Len(sending[b]) <= 1
    BY DEF MqttInv, Outgoing
  <2> QED  BY <2>1, <2>2 DEF MqttInv, Types, OneClient, Outgoing, Incoming, TypeOK
<1> QED  BY <1>1, AlwaysMqttInv, PTL

\* While the flag says connected, the system client is connected and hears
\* commands, for any number of brokers, unless two of them raced for the flag.
THEOREM FlagMeansConnected == Spec => []SystemClientConnected
<1>1. MqttInv => SystemClientConnected
  BY DEF MqttInv, OneClient, SystemClientConnected
<1> QED  BY <1>1, AlwaysMqttInv, PTL

\* The walk of the event handler reaches every subscriber that was registered
\* when the client connected, whoever registers meanwhile.
THEOREM EarlyOnesHear == Spec => []EarlySubscribersHear
<1>1. MqttInv => EarlySubscribersHear
  BY DEF MqttInv, Walks, EarlySubscribersHear
<1> QED  BY <1>1, AlwaysMqttInv, PTL

\* No id is in two places: each message is in the queue, with one task or given
\* to one client.
LEMMA InOnePlace ==
  ASSUME MqttInv
  PROVE  SentOnce
<1> USE DEF MqttInv
<1> DEFINE queued == {<<"queue", i>> : i \in DOMAIN mqtt_messages}
           held == {<<"task", b>> : b \in {x \in Brokers : sending[x] # <<>>}}
           done == {<<"log", i>> : i \in DOMAIN log}
           Id(place) == CASE place[1] = "queue" -> mqtt_messages[place[2]].id
                          [] place[1] = "task" -> Head(sending[place[2]]).id
                          [] OTHER -> log[place[2]].id
<1>1. ASSUME NEW i \in DOMAIN mqtt_messages
      PROVE  Id(<<"queue", i>>) = mqtt_messages[i].id
  OBVIOUS
<1>2. ASSUME NEW b \in Brokers, sending[b] # <<>>
      PROVE  /\ Id(<<"task", b>>) = sending[b][1].id /\ 1 \in DOMAIN sending[b]
  <2>1. sending[b] \in Seq(Messages)
    BY DEF Outgoing
  <2>2. Head(sending[b]) = sending[b][1] /\ 1 \in DOMAIN sending[b]
    BY <1>2, <2>1, TailOf
  <2> QED  BY <2>2
<1>3. ASSUME NEW i \in DOMAIN log
      PROVE  Id(<<"log", i>>) = log[i].id
  OBVIOUS
<1> HIDE DEF Id
<1>4. ASSUME NEW i \in DOMAIN mqtt_messages, NEW j \in DOMAIN mqtt_messages,
             mqtt_messages[i].id = mqtt_messages[j].id
      PROVE  i = j
  <2>1. i \in Nat /\ j \in Nat /\ mqtt_messages[i].id \in Nat /\ mqtt_messages[j].id \in Nat
    BY DEF Outgoing, InOrder, Made
  <2> QED  BY <1>4, <2>1 DEF InOrder, Increasing
<1>5. ASSUME NEW i \in DOMAIN log, NEW j \in DOMAIN log, log[i].id = log[j].id
      PROVE  i = j
  <2>1. i \in Nat /\ j \in Nat
    BY DEF Outgoing
  <2> QED  BY <1>5, <2>1 DEF InOrder
<1>6. ASSUME NEW i \in DOMAIN mqtt_messages, NEW b \in Brokers, sending[b] # <<>>
      PROVE  sending[b][1].id # mqtt_messages[i].id
  <2>1. 1 \in DOMAIN sending[b] /\ Before(sending[b], mqtt_messages) /\ Made(sending[b])
    BY <1>2, <1>6 DEF InOrder
  <2>2. sending[b][1].id < mqtt_messages[i].id /\ sending[b][1].id \in Nat
    BY <2>1 DEF Before, Made
  <2> QED  BY <2>2 DEF InOrder, Made
<1>7. ASSUME NEW i \in DOMAIN mqtt_messages, NEW j \in DOMAIN log
      PROVE  log[j].id # mqtt_messages[i].id
  <2>1. log[j].id < mqtt_messages[i].id /\ log[j].id \in Nat /\ mqtt_messages[i].id \in Nat
    BY DEF InOrder, Before, Made
  <2> QED  BY <2>1
<1>8. ASSUME NEW b \in Brokers, sending[b] # <<>>, NEW j \in DOMAIN log
      PROVE  sending[b][1].id # log[j].id
  BY <1>2, <1>8 DEF InOrder, Different
<1>9. ASSUME NEW b \in Brokers, sending[b] # <<>>, NEW c \in Brokers, sending[c] # <<>>,
             sending[b][1].id = sending[c][1].id
      PROVE  b = c
  <2>1. 1 \in DOMAIN sending[b] /\ 1 \in DOMAIN sending[c]
    BY <1>2, <1>9
  <2>2. b # c => Different(sending[b], sending[c])
    BY DEF InOrder
  <2> QED  BY <1>9, <2>1, <2>2 DEF Different
<1>10. ASSUME NEW x \in queued \cup held \cup done, NEW y \in queued \cup held \cup done,
              Id(x) = Id(y)
       PROVE  x = y
  <2>1. CASE x \in queued
    BY <1>1, <1>2, <1>3, <1>4, <1>6, <1>7, <1>10, <2>1
  <2>2. CASE x \in held
    BY <1>1, <1>2, <1>3, <1>6, <1>8, <1>9, <1>10, <2>2
  <2>3. CASE x \in done
    BY <1>1, <1>2, <1>3, <1>5, <1>7, <1>8, <1>10, <2>3
  <2> QED  BY <2>1, <2>2, <2>3
<1> QED  BY <1>10 DEF SentOnce, Id

\* However the sending tasks interleave, no message is sent twice, each task
\* sends in the order of publication, and what waits is newer than what was sent.
THEOREM SendingKeepsOrder == Spec => []SentInOrder
<1>1. MqttInv => SentInOrder
  <2> SUFFICES ASSUME MqttInv PROVE SentInOrder
    OBVIOUS
  <2>1. TasksKeepOrder
    BY DEF MqttInv, InOrder, Before, TasksKeepOrder
  <2> QED  BY <2>1, InOnePlace DEF SentInOrder
<1> QED  BY <1>1, AlwaysMqttInv, PTL

\* The message of a subscriber never goes back to an earlier value.
THEOREM MessagesNeverGoBack == Spec => NeverBack
<1>1. MqttInv /\ [Next]_vars => [\A s \in Subscribers : message'[s] >= message[s]]_vars
  <2> SUFFICES ASSUME MqttInv, Next
               PROVE  \A s \in Subscribers : message'[s] >= message[s]
    OBVIOUS
  <2>1. CASE SetMessage
    BY <2>1, SetMessageStep
  <2>2. CASE message' = message
    <3>1. \A s \in Subscribers : message[s] \in Nat
      BY DEF MqttInv, Incoming
    <3> QED  BY <2>2, <3>1
  <2>3. SetMessage \/ message' = message
    BY DEF Next, cwrt_setup, MakeSubscribers, Network, HandleEvent, cwMQTTTask, Publish,
       Init_cw_MQTTBROKER, register_subscriber, Connected, Disconnected, receiveMQTT, TestHave,
       setMQTTclient, setMQTTstate, SubscribeCommand, SubscribeItem, EventDone,
       pop_mqtt_message, SendMessage, cw_MQTTPUBLISHER_set_value, changeMachineState,
       cwrt_process, Publishes, sendMQTT, PublishDropped, PopExternal, incoming
  <2> QED  BY <2>1, <2>2, <2>3
<1> QED  BY <1>1, AlwaysMqttInv, PTL DEF Spec, NeverBack
=============================================================================
