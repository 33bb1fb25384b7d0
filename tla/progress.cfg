CONSTANTS
    Req = {r1, r2}
    NoReq = NoReq
    MaxLen = 2
    Faults = {"release", "stop"}
SPECIFICATION FairSpec
INVARIANTS
    TypeOK
    MessagesIncrease
    MessagesTrue
    LastMessageIsFinal
PROPERTIES
    GoroutineEnds
