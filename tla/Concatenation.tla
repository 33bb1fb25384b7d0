--------------------------- MODULE Concatenation ---------------------------
(***************************************************************************)
(* The concatenation extension (PostFile with Upload-Concat, sizeOfUploads *)
(* in unrouted.go).  A POST of a final upload checks the partial uploads   *)
(* one by one, creates the final upload and has the store join them, all   *)
(* without their locks, while PATCH and DELETE go on under the lock of one *)
(* upload at a time.                                                       *)
(*                                                                         *)
(* Locked handlers are taken as the steps in which somebody without the    *)
(* lock sees the store change; UploadHandler has their details.            *)
(***************************************************************************)
EXTENDS Integers, Sequences

CONSTANTS
    Upload,     \* upload ids the store may hand out; an id is never reused
    Req,        \* slots for requests being served at the same time
    NoReq,      \* no request
    NoUpload,   \* no upload; as the source of bytes, a client
    MaxLen,     \* bound: the largest length of an upload clients fill
    MaxParts,   \* bound: the longest list of partial uploads
    MaxSize,    \* Config.MaxSize, 0 = no limit
    Faults      \* what may go wrong, see FaultKinds

FaultKinds == {"store",     \* a call to the store fails
               "callback",  \* a pre-finish callback rejects
               "crash"}     \* the server process restarts

ASSUME ConstantsAssumption ==
    /\ NoReq \notin Req
    /\ NoUpload \notin Upload
    /\ MaxLen \in Nat
    /\ MaxParts \in Nat \ {0}
    /\ MaxSize \in Nat
    /\ Faults \subseteq FaultKinds

Deferred == -1      \* the size of an upload that has not declared it

VARIABLES
    status,     \* status[u]: has the store an upload u
    file,       \* file[u]: what the store keeps, or kept, for u
    holder,     \* holder[u]: the PATCH that holds the lock of u
    pc,         \* pc[r]: the next call of the handler serving r
    job,        \* job[r]: its local variables
    finished    \* finished[u]: times the final u was announced (history)

vars == <<status, file, holder, pc, job, finished>>

PartList == UNION {[1 .. n -> Upload] : n \in 1 .. MaxParts}

(* pieces: where the bytes of an upload came from, in order.                 *)
Piece == [from : Upload \cup {NoUpload}, len : Nat]
File  == [final : BOOLEAN, size : Int, offset : Nat,
          parts : PartList \cup {<<>>}, pieces : Seq(Piece)]
NoFile == [final |-> FALSE, size |-> 0, offset |-> 0, parts |-> <<>>, pieces |-> <<>>]

(* next: index of the part at hand; total: sum of the sizes so far.          *)
Job   == [id : Upload \cup {NoUpload}, parts : PartList \cup {<<>>},
          next : Nat, total : Nat]
NoJob == [id |-> NoUpload, parts |-> <<>>, next |-> 1, total |-> 0]

Stage == {"idle", "patch", "sizes", "create", "copy", "announce", "empty"}

Init ==
    /\ status = [u \in Upload |-> "free"]
    /\ file = [u \in Upload |-> NoFile]
    /\ holder = [u \in Upload |-> NoReq]
    /\ pc = [r \in Req |-> "idle"]
    /\ job = [r \in Req |-> NoJob]
    /\ finished = [u \in Upload |-> 0]

Goto(r, stage) == pc' = [pc EXCEPT ![r] = stage]

(* The handler answers and returns.                                          *)
Leave(r) ==
    /\ job' = [job EXCEPT ![r] = NoJob]
    /\ Goto(r, "idle")

StoreMayFail == "store" \in Faults
CallbackMayReject == "callback" \in Faults

IsComplete(f) == f.size # Deferred /\ f.offset = f.size

(* len bytes of `part`, or of a client, are added at the end.                *)
Joined(f, part, len) ==
    [f EXCEPT !.offset = @ + len, !.pieces = Append(@, [from |-> part, len |-> len])]

(* Mutant: the size is not compared with the limit. *)
WithinLimit_Unchecked(size) == TRUE

WithinLimit(size) == MaxSize > 0 => size <= MaxSize

(* Clients know an id once the POST that created it has been answered.       *)
Addressable(u) ==
    /\ status[u] # "free"
    /\ \A r \in Req : job[r].id = u => pc[r] = "patch"

-----------------------------------------------------------------------------
(* Plain and partial uploads. *)

(* A POST without a chunk.  Nothing looks at IsPartial, so plain and partial *)
(* uploads are one kind.                                                     *)
CreateUpload(u) ==
    /\ status[u] = "free"
    /\ \E size \in Deferred .. MaxLen :
         /\ WithinLimit(size)
         /\ file' = [file EXCEPT ![u] = [NoFile EXCEPT !.size = size]]
    /\ status' = [status EXCEPT ![u] = "live"]
    /\ UNCHANGED <<holder, pc, job, finished>>

(* Mutant: a final upload is written like any other. *)
AcceptsPatch_Final(f) == ~IsComplete(f)

(* PatchFile turns final uploads away and answers for complete ones.         *)
AcceptsPatch(f) == ~f.final /\ ~IsComplete(f)

(* PatchFile up to WriteChunk: the lock, the checks and the declaration of a *)
(* length that was deferred.                                                 *)
PatchBegin(r) ==
    /\ pc[r] = "idle"
    /\ \E u \in Upload, size \in Deferred .. MaxLen :
         /\ Addressable(u) /\ status[u] = "live" /\ holder[u] = NoReq
         /\ AcceptsPatch(file[u])
         /\ \/ size = file[u].size
            \/ /\ file[u].size = Deferred
               /\ size >= file[u].offset /\ WithinLimit(size)
         /\ file' = [file EXCEPT ![u] = [file[u] EXCEPT !.size = size]]
         /\ holder' = [holder EXCEPT ![u] = r]
         /\ job' = [job EXCEPT ![r] = [NoJob EXCEPT !.id = u]]
    /\ Goto(r, "patch")
    /\ UNCHANGED <<status, finished>>

(* WriteChunk adds a byte; it may end after any of them.                     *)
PatchAppend(r) ==
    LET u == job[r].id
    IN /\ pc[r] = "patch"
       /\ file[u].offset < (IF file[u].size = Deferred THEN MaxLen ELSE file[u].size)
       /\ file' = [file EXCEPT ![u] = Joined(file[u], NoUpload, 1)]
       /\ UNCHANGED <<status, holder, pc, job, finished>>

(* The deferred Unlock, whether the upload is complete by now or not.        *)
PatchFinish(r) ==
    LET u == job[r].id
    IN /\ pc[r] = "patch"
       /\ holder' = [holder EXCEPT ![u] = NoReq]
       /\ Leave(r)
       /\ UNCHANGED <<status, file, finished>>

(* DelFile: lock, Terminate, unlock.  The file is kept as a ghost.           *)
Delete(u) ==
    /\ Addressable(u) /\ status[u] = "live" /\ holder[u] = NoReq
    /\ status' = [status EXCEPT ![u] = "gone"]
    /\ UNCHANGED <<file, holder, pc, job, finished>>

-----------------------------------------------------------------------------
(* The POST of a final upload. *)

BeginConcat(r) ==
    /\ pc[r] = "idle"
    /\ \E parts \in PartList :
         /\ \A i \in DOMAIN parts : Addressable(parts[i])
         /\ job' = [job EXCEPT ![r] = [NoJob EXCEPT !.parts = parts]]
    /\ Goto(r, "sizes")
    /\ UNCHANGED <<status, file, holder, finished>>

(* Mutants: a part need not be complete, or not have declared its length;    *)
(* only the last size counts.                                                *)
PartReady_Any(f) == f.size # Deferred
PartReady_Undeclared(f) == IsComplete(f) \/ f.size = Deferred
AddSize_Last(total, f) == f.size

(* sizeOfUploads refuses a part that lacks bytes or a length.                *)
PartReady(f) == IsComplete(f)
AddSize(total, f) == total + f.size

(* One round of the loop of sizeOfUploads.  Whether the part is itself a     *)
(* partial upload is not looked at.                                          *)
SizeOfPart(r) ==
    LET part == job[r].parts[job[r].next]
        last == job[r].next = Len(job[r].parts)
    IN /\ pc[r] = "sizes"
       /\ \/ /\ status[part] = "live" /\ PartReady(file[part])
             /\ job' = [job EXCEPT ![r] =
                   [job[r] EXCEPT !.next = IF last THEN 1 ELSE @ + 1,
                                  !.total = AddSize(@, file[part])]]
             /\ Goto(r, IF last THEN "create" ELSE "sizes")
          \/ /\ status[part] # "live" \/ ~PartReady(file[part]) \/ StoreMayFail
             /\ Leave(r)
       /\ UNCHANGED <<status, file, holder, finished>>

(* NewUpload and GetInfo; when GetInfo fails the upload stays.               *)
NewFinal(r) ==
    /\ pc[r] = "create"
    /\ WithinLimit(job[r].total)
    /\ \E u \in Upload :
         /\ status[u] = "free"
         /\ status' = [status EXCEPT ![u] = "live"]
         /\ file' = [file EXCEPT ![u] =
               [NoFile EXCEPT !.final = TRUE, !.size = job[r].total,
                              !.parts = job[r].parts]]
         /\ \/ /\ job' = [job EXCEPT ![r] = [job[r] EXCEPT !.id = u]]
               /\ Goto(r, "copy")
            \/ StoreMayFail /\ Leave(r)
    /\ UNCHANGED <<holder, finished>>

RefuseFinal(r) ==
    /\ pc[r] = "create"
    /\ ~WithinLimit(job[r].total) \/ StoreMayFail \/ CallbackMayReject
    /\ Leave(r)
    /\ UNCHANGED <<status, file, holder, finished>>

(* Mutant: an error of ConcatUploads is dropped. *)
AfterMissing_Ignored(r) == Goto(r, "announce") /\ UNCHANGED job

AfterMissing(r) == Leave(r)

(* ConcatUploads in the store, part by part: it appends what the part holds  *)
(* now.  A part that is gone ends it; what was appended before stays.        *)
CopyPart(r) ==
    LET part == job[r].parts[job[r].next]
        last == job[r].next = Len(job[r].parts)
        u == job[r].id
    IN /\ pc[r] = "copy"
       /\ \/ /\ status[part] = "live"
             /\ file' = [file EXCEPT ![u] = Joined(file[u], part, file[part].offset)]
             /\ job' = [job EXCEPT ![r] = [job[r] EXCEPT !.next = @ + 1]]
             /\ Goto(r, IF last THEN "announce" ELSE "copy")
          \/ /\ status[part] # "live" \/ StoreMayFail
             /\ AfterMissing(r)
             /\ UNCHANGED file
       /\ UNCHANGED <<status, holder, finished>>

(* Mutant: every final upload is finished like an empty one as well. *)
TakenForEmpty_Any(total) == TRUE

(* PostFile's last branch is for empty uploads; an empty final takes it too. *)
TakenForEmpty(total) == total = 0

AfterAnnounced(r) ==
    IF TakenForEmpty(job[r].total)
    THEN Goto(r, "empty") /\ UNCHANGED job
    ELSE Leave(r)

(* emitFinishEvents, without FinishUpload; then the answer.                  *)
Announce(r) ==
    LET u == job[r].id
    IN /\ pc[r] = "announce"
       /\ \/ /\ finished' = [finished EXCEPT ![u] = @ + 1]
             /\ AfterAnnounced(r)
          \/ /\ CallbackMayReject
             /\ Leave(r)
             /\ UNCHANGED finished
       /\ UNCHANGED <<status, file, holder>>

(* FinishUpload and emitFinishEvents, for the second time.                   *)
FinishEmpty(r) ==
    LET u == job[r].id
    IN /\ pc[r] = "empty"
       /\ \/ finished' = [finished EXCEPT ![u] = @ + 1]
          \/ /\ StoreMayFail \/ CallbackMayReject
             /\ UNCHANGED finished
       /\ Leave(r)
       /\ UNCHANGED <<status, file, holder>>

-----------------------------------------------------------------------------
(* The process restarts: locks and handlers are lost.                        *)
Crash ==
    /\ "crash" \in Faults
    /\ \E r \in Req : pc[r] # "idle"
    /\ holder' = [u \in Upload |-> NoReq]
    /\ pc' = [r \in Req |-> "idle"]
    /\ job' = [r \in Req |-> NoJob]
    /\ UNCHANGED <<status, file, finished>>

Step(r) ==
    \/ PatchBegin(r) \/ PatchAppend(r) \/ PatchFinish(r)
    \/ BeginConcat(r) \/ SizeOfPart(r) \/ NewFinal(r) \/ RefuseFinal(r)
    \/ CopyPart(r) \/ Announce(r) \/ FinishEmpty(r)

Next ==
    \/ \E r \in Req : Step(r)
    \/ \E u \in Upload : CreateUpload(u) \/ Delete(u)
    \/ Crash

Spec == Init /\ [][Next]_vars

-----------------------------------------------------------------------------
(* Properties. *)

(* Type invariant: the shapes of the store and of the handlers' variables.   *)
TypeOK ==
    /\ status \in [Upload -> {"free", "live", "gone"}]
    /\ file \in [Upload -> File]
    /\ holder \in [Upload -> Req \cup {NoReq}]
    /\ pc \in [Req -> Stage]
    /\ job \in [Req -> Job]
    /\ finished \in [Upload -> Nat]

Announced(u) == file[u].final /\ finished[u] > 0

(* A final upload that was announced consists of its parts, all of them,     *)
(* whole and in the order of the header, although none of them was locked    *)
(* between the check, the join and the event.                                *)
FinalIsConcatenation ==
    \A u \in Upload :
        Announced(u) =>
            /\ Len(file[u].pieces) = Len(file[u].parts)
            /\ \A i \in DOMAIN file[u].parts :
                 LET part == file[u].parts[i]
                 IN /\ file[u].pieces[i] = [from |-> part, len |-> file[part].size]
                    /\ IsComplete(file[part])

(* It also has the size that was computed before the join, which is what the *)
(* completion event says of it.                                              *)
FinalIsFilled == \A u \in Upload : Announced(u) => IsComplete(file[u])

(* A final upload holds bytes of its parts only, in order, also when joining *)
(* them failed and the upload stayed behind.                                 *)
FinalHoldsOnlyParts ==
    \A u \in Upload :
        file[u].final =>
            /\ Len(file[u].pieces) <= Len(file[u].parts)
            /\ \A i \in DOMAIN file[u].pieces :
                 file[u].pieces[i].from = file[u].parts[i]

(* MaxSize bounds the final upload, not only its parts.                      *)
FinalWithinMaxSize ==
    \A u \in Upload :
        MaxSize > 0 /\ Announced(u) => file[u].offset <= MaxSize

(* A final upload is announced once, unless it is empty.                     *)
AnnouncedOnce == \A u \in Upload : file[u].size > 0 => finished[u] <= 1
=============================================================================
