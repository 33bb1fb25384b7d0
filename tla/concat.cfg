CONSTANTS
    u1 = u1
    u2 = u2
    u3 = u3
    r1 = r1
    r2 = r2
    Upload = {u1, u2, u3}
    Req = {r1, r2}
    NoReq = NoReq
    NoUpload = NoUpload
    MaxLen = 2
    MaxParts = 2
    MaxSize = 2
    Faults = {"store", "callback", "crash"}

SPECIFICATION Spec
SYMMETRY Symmetry

INVARIANTS
    TypeOK
    FinalIsConcatenation
    FinalIsFilled
    FinalHoldsOnlyParts
    FinalWithinMaxSize
    AnnouncedOnce
