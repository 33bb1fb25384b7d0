CONSTANTS
    r1 = r1
    r2 = r2
    u1 = u1
    NoReq = NoReq
    NoUpload = NoUpload
    Req = {r1, r2}
    Upload = {u1}
    MaxLen = 2
    Lengths <- AllLengths
    MaxSize = 0
    Ops = {"POST", "PATCH"}
    Features = {}
    Notify = {}
    Drained = {}
    Faults = {"earlyIds"}
SPECIFICATION Spec
SYMMETRY ReqSymmetry
PROPERTIES
    AppendsOnly
