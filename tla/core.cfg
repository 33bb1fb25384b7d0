CONSTANTS
    r1 = r1
    r2 = r2
    u1 = u1
    NoReq = NoReq
    NoUpload = NoUpload
    Req = {r1, r2}
    Upload = {u1}
    MaxLen = 2
    Lengths <- AllLengths
    MaxSize = 0
    Ops = {"POST", "POST2", "PATCH", "HEAD", "GET", "DELETE"}
    Features = {"terminater", "lengthDeferrer"}
    Notify = {"created", "complete", "terminated"}
    Drained = {"created", "complete", "terminated"}
    Faults = {"store", "callback", "crash"}
SPECIFICATION Spec
SYMMETRY ReqSymmetry
INVARIANTS
    TypeOK
    ExclusiveAccess
    StopCallbackOwned
    SnapshotCurrent
    OffsetWithinSize
    AckedNeverLost
    CompletionOnce
    FinishedMeansComplete
PROPERTIES
    AppendsOnly
    LengthDeclaredOnce
    NoCompletionAfterTermination
    KeepsPromise
