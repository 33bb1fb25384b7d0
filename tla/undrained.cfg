CONSTANTS
    r1 = r1
    r2 = r2
    u1 = u1
    NoReq = NoReq
    NoUpload = NoUpload
    Req = {r1, r2}
    Upload = {u1}
    MaxLen = 1
    Lengths <- AllLengths
    MaxSize = 0
    Ops = {"POST", "DELETE", "HEAD"}
    Features = {"terminater"}
    Notify = {"created", "complete", "terminated"}
    Drained = {"created", "complete"}
    Faults = {}
SPECIFICATION FairSpec
PROPERTIES
    RequestsAnswered
CHECK_DEADLOCK FALSE
