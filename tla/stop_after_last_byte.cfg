CONSTANTS
    r1 = r1
    u1 = u1
    NoReq = NoReq
    NoUpload = NoUpload
    Req = {r1}
    Upload = {u1}
    MaxLen = 1
    Lengths <- AllLengths
    MaxSize = 0
    Ops = {"POST", "PATCH"}
    Features = {"terminater", "stopHook"}
    Notify = {"complete"}
    Drained = {"complete"}
    Faults = {}
SPECIFICATION Spec
PROPERTIES
    NoCompletionAfterTermination
