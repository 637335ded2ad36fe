CONSTANTS
    Instances = {i1, i2}
    MaxConns = 2
    Ids = {n1, n2}
    MaxEvents = 2
    MaxEpoch = 2
SPECIFICATION HubSpec
INVARIANTS HubTypeOK EveryoneOnce LinksStayUp SenderIsFound QueryOwed
CHECK_DEADLOCK FALSE
