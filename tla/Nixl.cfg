SPECIFICATION Spec
CONSTANTS
    Peers = {p1, p2}
    SendRing = 2
    RecvRing = 1
    PostWorkers = 2
    MaxSends = 4
INVARIANTS SlotsOwned ReceivedIntact
PROPERTIES ImplementsLink DispatcherGoesOn
CHECK_DEADLOCK FALSE
