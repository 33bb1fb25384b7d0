CONSTANTS
    r1 = r1
    r2 = r2
    u1 = u1
    NoReq = NoReq
    NoUpload = NoUpload
    Req = {r1, r2}
    Upload = {u1}
    MaxLen = 2
    Lengths <- FewLengths
    MaxSize = 0
    Ops = {"POST", "POST2", "PATCH", "HEAD", "DELETE"}
    Features = {"terminater", "lengthDeferrer", "stopHook"}
    Notify = {"created", "complete", "terminated"}
    Drained = {"created", "complete", "terminated"}
    Faults = {}
SPECIFICATION FairSpec
INVARIANTS
    SuccessMeansLive
PROPERTIES
    RequestsAnswered
    AckedCompleteIsFinished
    FilledIsFinished
