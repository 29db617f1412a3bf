SPECIFICATION FairSpec
CONSTANTS
    b1 = b1
    b2 = b2
    pub = pub
    sub1 = sub1
    sub2 = sub2
    NoBroker = NoBroker
    Brokers = {b1, b2}
    Publishers = {pub}
    Subscribers = {sub1, sub2}
    BrokerOf <- Owners
    Topic <- Topics
    Prefixes <- TopicPrefixes
    Setup <- Order
    Command = "/command"
    MaxPublished = 2
    MaxReceived = 2
    MaxEvents = 2
INVARIANTS
    TypeOK
    SentInOrder
    SystemClientConnected
    EarlySubscribersHear
PROPERTIES
    NeverBack
    QueueDrains
CHECK_DEADLOCK FALSE
