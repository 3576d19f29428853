SPECIFICATION UcxSpec
CONSTANTS
    Sender = {s1, s2}
    None = None
    Item <- Message
    Capacity = 4
    Spins = 2
    Windows = {1, 2}
    MaxMsgs = 3
    MaxErrors = 1
INVARIANTS
    FirstInFirstOut
    SenderOrder
    NoOverflow
PROPERTIES
    SentIsTaken
CHECK_DEADLOCK FALSE
