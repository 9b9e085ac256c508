SPECIFICATION FairSpec
CONSTANTS
    a = a
    b = b
    c1 = c1
    c2 = c2
    None = None
    Channels = {a, b}
    Clients = {c1, c2}
    ArgLists <- MCArgs
    MaxPublish = 2
INVARIANTS RecordsAgree BrokerTidy ConfirmedFirst
PROPERTIES Delivery MessagesArrive
CHECK_DEADLOCK FALSE
