CONSTANTS
    r1 = r1
    u1 = u1
    NoReq = NoReq
    NoUpload = NoUpload
    Req = {r1}
    Upload = {u1}
    MaxLen = 2
    Lengths <- AllLengths
    MaxSize = 1
    Ops = {"POST", "PATCH"}
    Features = {"lengthDeferrer"}
    Notify = {}
    Drained = {}
    Faults = {}
SPECIFICATION Spec
INVARIANTS
    WithinMaxSize
