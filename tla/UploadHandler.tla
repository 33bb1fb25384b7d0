--------------------------- MODULE UploadHandler ---------------------------
(***************************************************************************)
(* The request handlers of tusdfiber (unrouted.go, draft.go) together with *)
(* what they share: the data store, the per-upload lock, the registry of   *)
(* stop callbacks and the unbuffered notification channels (hooks.go).     *)
(*                                                                         *)
(* Every HTTP request being served occupies a slot r \in Req.  pc[r] names *)
(* the next call its handler makes; a step is the code between two points  *)
(* where another request, the client, the channel reader or a crash can    *)
(* interfere.  A request that is turned away before it touches the store   *)
(* changes nothing, so the guards of Begin and NewUpload leave it out.     *)
(***************************************************************************)
EXTENDS Integers, FiniteSets

CONSTANTS
    Upload,     \* upload ids the store may hand out; an id is never reused
    Req,        \* slots for requests being served at the same time
    NoReq,      \* no request
    NoUpload,   \* no upload
    MaxLen,     \* bound: the largest upload length and byte count a client uses
    Lengths,    \* bound: the Content-Lengths of the clients' requests
    MaxSize,    \* Config.MaxSize, 0 = no limit
    Ops,        \* kinds of request the clients send
    Features,   \* optional interfaces and hooks that are configured
    Notify,     \* notification channels that are enabled (Config.Notify*)
    Drained,    \* notification channels that somebody receives from
    Faults      \* what may go wrong, see FaultKinds

PostOps == {"POST", "POST2"}       \* POST2: PostFileV2, the IETF draft
AllOps == PostOps \cup {"PATCH", "HEAD", "GET", "DELETE"}
FeatureKinds == {"terminater", "lengthDeferrer", "stopHook"}
Channels == {"created", "complete", "terminated"}
FaultKinds == {"store",     \* a call to the store fails, a write is cut short
               "callback",  \* a pre-finish or pre-terminate callback rejects
               "crash",     \* the server process restarts
               "earlyIds"}  \* an id is used before its POST has answered

ASSUME ConstantsAssumption ==
    /\ NoReq \notin Req
    /\ NoUpload \notin Upload
    /\ MaxLen \in Nat
    /\ Lengths \subseteq -2 .. MaxLen
    /\ MaxSize \in Nat
    /\ Ops \subseteq AllOps
    /\ Features \subseteq FeatureKinds
    /\ Notify \subseteq Channels
    /\ Drained \subseteq Channels
    /\ Faults \subseteq FaultKinds

NoLength == -1      \* no Upload-Length header (a POST then defers its length)
Chunked  == -1      \* Transfer-Encoding: chunked
NoBody   == -2      \* RequestBodyStream() is nil

VARIABLES
    status,     \* status[u]: has the store an upload u
    store,      \* store[u]: the FileInfo the store keeps for u
    holder,     \* holder[u]: the request that holds the lock of u
    stopCb,     \* stopCb[u]: whose closure stopCallbacks holds for u
    stopping,   \* the closure the listener has loaded but not yet called
    pc,         \* pc[r]: the next call of the handler serving r
    req,        \* req[r]: the request
    info,       \* info[r]: the handler's own copy of the FileInfo
    reader,     \* reader[r]: the bodyReader, open while writeChunk runs
    failed,     \* failed[r]: the handler is going to answer with an error
    finished,   \* finished[u]: successful FinishUpload calls (history)
    acked       \* acked[u]: largest offset a client has been told (history)

storage  == <<status, store>>
registry == <<stopCb, stopping>>
history  == <<finished, acked>>
vars == <<status, store, holder, stopCb, stopping, pc, req, info, reader,
          failed, finished, acked>>

FileInfo == [size : 0 .. MaxLen, deferred : BOOLEAN, offset : 0 .. MaxLen]
NoInfo   == [size |-> 0, deferred |-> FALSE, offset |-> 0]

(* err "lastRead": the reader has been closed while a Read waits for the     *)
(* client; that Read still returns what it gets, the next one io.EOF.        *)
Reader   == [open : BOOLEAN, read : 0 .. MaxLen,
             err : {"none", "eof", "failed", "lastRead", "stopped"}]
NoReader == [open |-> FALSE, read |-> 0, err |-> "none"]

(* length: Content-Length, Chunked or NoBody; newLen: Upload-Length or       *)
(* NoLength; chunk: the POST carries a first chunk; complete: the draft's     *)
(* Upload-Complete, which only PostFileV2 looks at.                           *)
Request == [op : Ops, id : Upload, offset : 0 .. MaxLen,
            length : -2 .. MaxLen, newLen : -1 .. MaxLen,
            chunk : BOOLEAN, complete : BOOLEAN]
NoRequest == [op |-> "none", id |-> NoUpload, offset |-> 0, length |-> NoBody,
              newLen |-> NoLength, chunk |-> FALSE, complete |-> FALSE]

Stage == {"idle", "getinfo", "created", "lock", "check", "chunk", "write",
          "stopped", "finish", "completed", "unregister", "declare", "copy",
          "terminate", "terminated", "respond"}

Init ==
    /\ status = [u \in Upload |-> "free"]
    /\ store = [u \in Upload |-> NoInfo]
    /\ holder = [u \in Upload |-> NoReq]
    /\ stopCb = [u \in Upload |-> NoReq]
    /\ stopping = NoReq
    /\ pc = [r \in Req |-> "idle"]
    /\ req = [r \in Req |-> NoRequest]
    /\ info = [r \in Req |-> NoInfo]
    /\ reader = [r \in Req |-> NoReader]
    /\ failed = [r \in Req |-> FALSE]
    /\ finished = [u \in Upload |-> 0]
    /\ acked = [u \in Upload |-> 0]

Goto(r, stage) == pc' = [pc EXCEPT ![r] = stage]

(* An early "return h.writeError(...)". *)
Fail(r) ==
    /\ failed' = [failed EXCEPT ![r] = TRUE]
    /\ Goto(r, "respond")

StoreMayFail == "store" \in Faults

-----------------------------------------------------------------------------
(* Requests. *)

ContentLength(q) == IF q.length = NoBody THEN 0 ELSE q.length

(* The length a new upload gets: Upload-Length, or for the draft the         *)
(* Content-Length of a request that carries the whole upload.                *)
NewUploadLength(q) ==
    IF q.op = "POST2" /\ q.newLen = NoLength /\ q.complete /\ q.length # Chunked
      THEN ContentLength(q)
      ELSE q.newLen

(* validateNewUploadLength: a length, or none if it can be declared later.   *)
ValidNewUploadLength(q) == NewUploadLength(q) = NoLength => "lengthDeferrer" \in Features

(* Mutant: the limit is not compared with Upload-Length. *)
AcceptsNewUpload_NoMaxSize(q) == ValidNewUploadLength(q)

(* PostFile checks the length against MaxSize, PostFileV2 does not.          *)
AcceptsNewUpload(q) ==
    /\ ValidNewUploadLength(q)
    /\ q.op = "POST" /\ MaxSize > 0 => NewUploadLength(q) <= MaxSize
    /\ q.op = "POST2" /\ q.newLen # NoLength /\ q.complete /\ q.length # Chunked
         => q.newLen = ContentLength(q)

PostRequests(u) ==
    {q \in [op : PostOps \cap Ops, id : {u}, offset : {0}, length : Lengths,
            newLen : -1 .. MaxLen, chunk : BOOLEAN, complete : BOOLEAN] :
        /\ q.op = "POST" => ~q.complete
        /\ q.op = "POST" /\ ~q.chunk => q.length = NoBody
        /\ q.op = "POST2" => q.chunk
        /\ AcceptsNewUpload(q)}

(* Clients learn an id from the answer to the POST that created the upload,  *)
(* or, with "earlyIds", choose or observe it before that answer.             *)
Addressable(u) ==
    /\ status[u] # "free"
    /\ "earlyIds" \in Faults
         \/ \A r \in Req : pc[r] # "idle" /\ req[r].id = u => req[r].op \notin PostOps

(* No handler of a PATCH looks at the completion signal, so it is enumerated *)
(* only where all clients speak the draft.                                   *)
PatchRequests(u) ==
    {q \in [op : {"PATCH"} \cap Ops, id : {u}, offset : 0 .. MaxLen,
            length : Lengths, newLen : -1 .. MaxLen, chunk : {TRUE},
            complete : BOOLEAN] :
        /\ q.offset + q.length <= MaxLen
        /\ q.complete => "POST" \notin Ops}

OtherRequests(u) ==
    {[NoRequest EXCEPT !.op = op, !.id = u] :
        op \in IF "terminater" \in Features THEN Ops \cap {"HEAD", "GET", "DELETE"}
                                           ELSE Ops \cap {"HEAD", "GET"}}

(* A request for an existing upload enters its handler.  The closure the     *)
(* listener may still hold belongs to the slot's previous request.           *)
Begin(r) ==
    /\ pc[r] = "idle" /\ stopping # r
    /\ \E u \in Upload :
         /\ Addressable(u)
         /\ \E q \in PatchRequests(u) \cup OtherRequests(u) :
              req' = [req EXCEPT ![r] = q]
    /\ Goto(r, "lock")
    /\ UNCHANGED <<storage, holder, registry, info, reader, failed, history>>

(* PostFile and PostFileV2 up to NewUpload. *)
NewUpload(r) ==
    /\ pc[r] = "idle" /\ stopping # r
    /\ \E u \in Upload :
         /\ status[u] = "free"
         /\ \E q \in PostRequests(u) :
              LET size == NewUploadLength(q)
              IN /\ req' = [req EXCEPT ![r] = q]
                 /\ status' = [status EXCEPT ![u] = "live"]
                 /\ store' = [store EXCEPT ![u] =
                       [size |-> IF size = NoLength THEN 0 ELSE size,
                        deferred |-> size = NoLength, offset |-> 0]]
    /\ Goto(r, "getinfo")
    /\ UNCHANGED <<holder, registry, info, reader, failed, history>>

-----------------------------------------------------------------------------
(* Looking up the upload. *)

(* Mutants: the deferred flag is forgotten; the comparison is strict. *)
IsComplete_IgnoresDeferred(i) == i.offset = i.size
IsComplete_Strict(i) == ~i.deferred /\ i.offset > i.size

IsComplete(i) == ~i.deferred /\ i.offset = i.size

(* Where PostFile and PostFileV2 continue once the upload is announced.      *)
AfterCreated(q) ==
    CASE q.chunk -> "lock"
      [] ~q.chunk /\ NewUploadLength(q) = 0 -> "finish"
      [] OTHER -> "respond"

AfterGetInfo(q, i) ==
    CASE q.op \in PostOps -> IF "created" \in Notify THEN "created" ELSE AfterCreated(q)
      [] q.op = "PATCH"   -> "check"
      [] q.op = "HEAD"    -> "respond"
      [] q.op = "GET"     -> IF i.offset = 0 THEN "respond" ELSE "copy"
      [] q.op = "DELETE"  -> "terminate"

(* GetUpload and GetInfo.  A POST does this before it takes the lock.        *)
GetInfo(r) ==
    LET u == req[r].id
    IN /\ pc[r] = "getinfo"
       /\ \/ /\ status[u] = "live"
             /\ info' = [info EXCEPT ![r] = store[u]]
             /\ Goto(r, AfterGetInfo(req[r], store[u]))
             /\ UNCHANGED failed
          \/ /\ status[u] # "live" \/ StoreMayFail
             /\ Fail(r)
             /\ UNCHANGED info
       /\ UNCHANGED <<storage, holder, registry, req, reader, history>>

(* Mutant: the lock does not exclude. *)
LockFree_Always(u) == TRUE

LockFree(u) == holder[u] = NoReq

Acquire(r) ==
    LET u == req[r].id
    IN /\ pc[r] = "lock"
       /\ LockFree(u)
       /\ holder' = [holder EXCEPT ![u] = r]
       /\ Goto(r, IF req[r].op \in PostOps THEN "chunk" ELSE "getinfo")
       /\ UNCHANGED <<storage, registry, req, info, reader, failed, history>>

(* Mutant: a request waits for the lock without a timeout. *)
LockTimeout_Never(r) == FALSE /\ UNCHANGED vars

(* AcquireLockTimeout has passed while another request holds the lock.       *)
LockTimeout(r) ==
    /\ pc[r] = "lock"
    /\ ~LockFree(req[r].id)
    /\ Fail(r)
    /\ UNCHANGED <<storage, holder, registry, req, info, reader, history>>

-----------------------------------------------------------------------------
(* PatchFile between GetInfo and writeChunk. *)

OffsetMatches(r) == req[r].offset = info[r].offset

(* Mutant: a chunk for a complete upload is written like any other. *)
AlreadyComplete_Never(r) == FALSE

AlreadyComplete(r) == OffsetMatches(r) /\ IsComplete(info[r])

(* Mutant: a length that is already known may be declared again. *)
AcceptsLength_Again(q, i) ==
    /\ "lengthDeferrer" \in Features
    /\ q.newLen >= i.offset

AcceptsLength(q, i) ==
    /\ "lengthDeferrer" \in Features
    /\ i.deferred
    /\ q.newLen >= i.offset
    /\ MaxSize > 0 => q.newLen <= MaxSize

RejectPatch(r) ==
    /\ pc[r] = "check"
    /\ ~AlreadyComplete(r)
    /\ \/ ~OffsetMatches(r)
       \/ req[r].newLen # NoLength /\ ~AcceptsLength(req[r], info[r])
    /\ Fail(r)
    /\ UNCHANGED <<storage, holder, registry, req, info, reader, history>>

PatchOfComplete(r) ==
    /\ pc[r] = "check"
    /\ AlreadyComplete(r)
    /\ Goto(r, "respond")
    /\ UNCHANGED <<storage, holder, registry, req, info, reader, failed, history>>

AcceptPatch(r) ==
    /\ pc[r] = "check"
    /\ OffsetMatches(r) /\ ~AlreadyComplete(r)
    /\ req[r].newLen = NoLength
    /\ Goto(r, "chunk")
    /\ UNCHANGED <<storage, holder, registry, req, info, reader, failed, history>>

(* DeclareLength succeeds for the store and the handler's copy, or fails.    *)
DeclareLength(r) ==
    LET u == req[r].id
        len == req[r].newLen
    IN /\ pc[r] = "check"
       /\ OffsetMatches(r) /\ ~AlreadyComplete(r)
       /\ len # NoLength /\ AcceptsLength(req[r], info[r])
       /\ \/ /\ store' = [store EXCEPT ![u].size = len, ![u].deferred = FALSE]
             /\ info' = [info EXCEPT ![r].size = len, ![r].deferred = FALSE]
             /\ Goto(r, "chunk")
             /\ UNCHANGED failed
          \/ /\ StoreMayFail
             /\ Fail(r)
             /\ UNCHANGED <<store, info>>
       /\ UNCHANGED <<status, holder, registry, req, reader, history>>

-----------------------------------------------------------------------------
(* writeChunk and the bodyReader. *)

(* Mutant: the bytes already stored are left out of the sum. *)
Fits_WithoutOffset(q, i) == i.deferred \/ ContentLength(q) <= i.size

Fits(q, i) == i.deferred \/ i.offset + ContentLength(q) <= i.size

(* The bound of the LimitReader; "no limit" is all a client can send.        *)
BodyLimit(q, i) ==
    CASE q.length > 0 -> q.length
      [] q.length <= 0 /\ ~i.deferred -> i.size - i.offset
      [] q.length <= 0 /\ i.deferred /\ MaxSize > 0 -> MaxSize - i.offset
      [] OTHER -> MaxLen

RejectChunk(r) ==
    /\ pc[r] = "chunk"
    /\ ~Fits(req[r], info[r]) \/ req[r].length = NoBody
    /\ Fail(r)
    /\ UNCHANGED <<storage, holder, registry, req, info, reader, history>>

(* newBodyReader and RegisterStopCallback. *)
BeginChunk(r) ==
    /\ pc[r] = "chunk"
    /\ Fits(req[r], info[r]) /\ req[r].length # NoBody
    /\ reader' = [reader EXCEPT ![r] = [NoReader EXCEPT !.open = TRUE]]
    /\ stopCb' = [stopCb EXCEPT ![req[r].id] = r]
    /\ Goto(r, "write")
    /\ UNCHANGED <<storage, holder, stopping, req, info, failed, history>>

LimitReached(r) == reader[r].read >= BodyLimit(req[r], info[r])

(* A Read of the body is under way or about to be called.                    *)
Reading(r) ==
    pc[r] = "write" /\ reader[r].err \in {"none", "lastRead"} /\ ~LimitReached(r)

(* What the reader reports after a Read; it keeps the first error, and a     *)
(* Read that was under way when it was closed was the last one.              *)
ErrAfterRead(r, err) == IF reader[r].err = "lastRead" THEN "stopped" ELSE err

(* The client sends one more unit of the body.                               *)
ReadByte(r) ==
    /\ Reading(r)
    /\ req[r].length # 0
    /\ info[r].offset + reader[r].read < MaxLen
    /\ reader' = [reader EXCEPT ![r].read = @ + 1, ![r].err = ErrAfterRead(r, "none")]
    /\ UNCHANGED <<storage, holder, registry, pc, req, info, failed, history>>

(* A chunked body, or one of Content-Length 0, ends.                         *)
BodyEnds(r) ==
    /\ Reading(r)
    /\ req[r].length <= 0
    /\ reader' = [reader EXCEPT ![r].err = ErrAfterRead(r, "eof")]
    /\ UNCHANGED <<storage, holder, registry, pc, req, info, failed, history>>

(* The connection breaks: ErrUnexpectedEOF, ErrConnectionReset.              *)
BodyFails(r) ==
    /\ Reading(r)
    /\ reader' = [reader EXCEPT ![r].err = ErrAfterRead(r, "failed")]
    /\ UNCHANGED <<storage, holder, registry, pc, req, info, failed, history>>

(* Mutant: WriteChunk reports one byte too many. *)
Stored_OneMore(r) == {reader[r].read + 1}

(* The number of bytes WriteChunk may report to have stored.                 *)
Stored(r) ==
    CASE status[req[r].id] # "live" -> {0}
      [] StoreMayFail -> 0 .. reader[r].read
      [] OTHER -> {reader[r].read}

(* Mutant: the length of the chunk is taken for the new offset. *)
NewOffset_ChunkOnly(i, n) == n

NewOffset(i, n) == i.offset + n

(* Whether WriteChunk may return an error: it must when bytes are missing,   *)
(* and may although every byte is stored.                                    *)
WriteError(r, n) ==
    CASE status[req[r].id] # "live" \/ n < reader[r].read -> {TRUE}
      [] StoreMayFail -> BOOLEAN
      [] OTHER -> {FALSE}

(* bodyReader.hasError: io.EOF is none.                                      *)
BodyError(r) == IF reader[r].err = "eof" THEN "none" ELSE reader[r].err

(* Mutant: the error of the body does not become the error of the chunk. *)
ChunkFails_BodyIgnored(r, writeErr) == writeErr

ChunkFails(r, writeErr) == writeErr \/ BodyError(r) # "none"

(* WriteChunk returns; the store keeps the bytes at the offset it was given. *)
EndWrite(r) ==
    LET u == req[r].id
    IN /\ pc[r] = "write"
       /\ ~Reading(r)
       /\ \E n \in Stored(r) :
            LET end == NewOffset(info[r], n)
            IN /\ info' = [info EXCEPT ![r].offset = end]
               /\ store' = IF status[u] = "live"
                             THEN [store EXCEPT ![u].offset = end] ELSE store
               /\ \E writeErr \in WriteError(r, n) :
                    failed' = [failed EXCEPT ![r] = ChunkFails(r, writeErr)]
       /\ Goto(r, IF BodyError(r) = "stopped" /\ "terminater" \in Features
                    THEN "stopped" ELSE "finish")
       /\ UNCHANGED <<status, holder, registry, req, reader, history>>

(* terminateUpload after a stop; its error is dropped.                       *)
TerminateStopped(r) ==
    LET u == req[r].id
    IN /\ pc[r] = "stopped"
       /\ \/ /\ status' = [status EXCEPT ![u] = "gone"]
             /\ store' = [store EXCEPT ![u] = NoInfo]
          \/ /\ StoreMayFail
             /\ UNCHANGED storage
       /\ Goto(r, "finish")
       /\ UNCHANGED <<holder, registry, req, info, reader, failed, history>>

-----------------------------------------------------------------------------
(* finishUploadIfComplete and emitFinishEvents, from writeChunk (the reader  *)
(* is open), from PostFile for an empty upload and from PostFileV2.          *)

AfterFinish(r) == IF reader[r].open THEN "unregister" ELSE "respond"

FinishUpload(r) ==
    LET u == req[r].id
    IN /\ pc[r] = "finish"
       /\ \/ /\ ~IsComplete(info[r])
             /\ Goto(r, AfterFinish(r))
             /\ UNCHANGED <<finished, failed>>
          \/ /\ IsComplete(info[r])
             /\ finished' = [finished EXCEPT ![u] = @ + 1]
             /\ Goto(r, IF "complete" \in Notify THEN "completed" ELSE AfterFinish(r))
             /\ UNCHANGED failed
          \/ /\ IsComplete(info[r]) /\ StoreMayFail
             /\ failed' = [failed EXCEPT ![r] = TRUE]
             /\ Goto(r, AfterFinish(r))
             /\ UNCHANGED finished
          \/ /\ IsComplete(info[r]) /\ "callback" \in Faults
             /\ finished' = [finished EXCEPT ![u] = @ + 1]
             /\ failed' = [failed EXCEPT ![r] = TRUE]
             /\ Goto(r, AfterFinish(r))
       /\ UNCHANGED <<storage, holder, registry, req, info, reader, acked>>

(* Mutant: the callback stays registered. *)
UnregisterStopCallback_Forgotten(u) == UNCHANGED stopCb

(* Keyed by the id alone, whoever registered.                                *)
UnregisterStopCallback(u) == stopCb' = [stopCb EXCEPT ![u] = NoReq]

(* writeChunk's deferred call, and what its caller does next.                *)
EndChunk(r) ==
    /\ pc[r] = "unregister"
    /\ UnregisterStopCallback(req[r].id)
    /\ reader' = [reader EXCEPT ![r] = NoReader]
    /\ Goto(r, IF /\ req[r].op = "POST2" /\ req[r].complete
                  /\ ~failed[r] /\ info[r].deferred
                 THEN "declare" ELSE "respond")
    /\ UNCHANGED <<storage, holder, stopping, req, info, failed, history>>

(* PostFileV2, step 4: the received length becomes the upload's length.      *)
DeclareReceived(r) ==
    LET u == req[r].id
        len == store[u].offset
    IN /\ pc[r] = "declare"
       /\ \/ /\ status[u] = "live"
             /\ store' = [store EXCEPT ![u].size = len, ![u].deferred = FALSE]
             /\ info' = [info EXCEPT ![r] = store'[u]]
             /\ Goto(r, "finish")
             /\ UNCHANGED failed
          \/ /\ status[u] # "live" \/ StoreMayFail
             /\ Fail(r)
             /\ UNCHANGED <<store, info>>
       /\ UNCHANGED <<status, holder, registry, req, reader, history>>

-----------------------------------------------------------------------------
(* GetFile, DelFile, the answer. *)

(* GetReader and io.Copy. *)
Copy(r) ==
    /\ pc[r] = "copy"
    /\ \/ Goto(r, "respond") /\ UNCHANGED failed
       \/ StoreMayFail /\ Fail(r)
    /\ UNCHANGED <<storage, holder, registry, req, info, reader, history>>

Terminate(r) ==
    LET u == req[r].id
    IN /\ pc[r] = "terminate"
       /\ \/ /\ status' = [status EXCEPT ![u] = "gone"]
             /\ store' = [store EXCEPT ![u] = NoInfo]
             /\ Goto(r, IF "terminated" \in Notify THEN "terminated" ELSE "respond")
             /\ UNCHANGED failed
          \/ /\ StoreMayFail \/ "callback" \in Faults
             /\ Fail(r)
             /\ UNCHANGED storage
       /\ UNCHANGED <<holder, registry, req, info, reader, history>>

Bigger(a, b) == IF a > b THEN a ELSE b

(* The deferred Unlock and the answer, which tells the client an offset      *)
(* unless it is an error or the answer to a DELETE.                          *)
Respond(r) ==
    LET u == req[r].id
    IN /\ pc[r] = "respond"
       /\ holder' = [holder EXCEPT ![u] = IF @ = r THEN NoReq ELSE @]
       /\ acked' = IF failed[r] \/ req[r].op = "DELETE" THEN acked
                     ELSE [acked EXCEPT ![u] = Bigger(@, info[r].offset)]
       /\ req' = [req EXCEPT ![r] = NoRequest]
       /\ info' = [info EXCEPT ![r] = NoInfo]
       /\ failed' = [failed EXCEPT ![r] = FALSE]
       /\ Goto(r, "idle")
       /\ UNCHANGED <<storage, registry, reader, finished>>

-----------------------------------------------------------------------------
(* Notification channels and the listener of NewHandlerWithHooks.  The       *)
(* channels are unbuffered: a send completes only when the listener, not     *)
(* busy with a post-receive hook, receives from that channel.                *)

Received(channel) == channel \in Drained /\ stopping = NoReq

NotifyCreated(r) ==
    /\ pc[r] = "created"
    /\ Received("created")
    /\ Goto(r, AfterCreated(req[r]))
    /\ UNCHANGED <<storage, holder, registry, req, info, reader, failed, history>>

NotifyComplete(r) ==
    /\ pc[r] = "completed"
    /\ Received("complete")
    /\ Goto(r, AfterFinish(r))
    /\ UNCHANGED <<storage, holder, registry, req, info, reader, failed, history>>

NotifyTerminated(r) ==
    /\ pc[r] = "terminated"
    /\ Received("terminated")
    /\ Goto(r, "respond")
    /\ UNCHANGED <<storage, holder, registry, req, info, reader, failed, history>>

(* A post-receive hook answers StopUpload: triggerStopUpload loads the       *)
(* closure registered for the id ...                                         *)
LoadStop ==
    /\ "stopHook" \in Features
    /\ stopping = NoReq
    /\ \E u \in Upload :
         /\ stopCb[u] # NoReq
         /\ stopping' = stopCb[u]
    /\ UNCHANGED <<storage, holder, stopCb, pc, req, info, reader, failed, history>>

(* closeWithError replaces whatever error the reader has.  What it closes is *)
(* a NopCloser, so a Read that waits for the client goes on waiting.         *)
ErrWhenClosed(r) ==
    CASE ~Reading(r) -> {"stopped"}
      [] reader[r].err = "lastRead" -> {"lastRead"}
      [] OTHER -> {"stopped", "lastRead"}

(* ... and calls it. *)
FireStop ==
    /\ stopping # NoReq
    /\ \E err \in ErrWhenClosed(stopping) :
         reader' = IF reader[stopping].open
                     THEN [reader EXCEPT ![stopping].err = err] ELSE reader
    /\ stopping' = NoReq
    /\ UNCHANGED <<storage, holder, stopCb, pc, req, info, failed, history>>

WriteInProgress(u) ==
    status[u] = "live" /\ stopCb[u] # NoReq /\ pc[stopCb[u]] = "write"

(* The process dies and starts again: the store keeps its uploads, with any  *)
(* prefix of the bytes WriteChunk was storing, and the history remembers.    *)
Crash ==
    /\ "crash" \in Faults
    /\ \E r \in Req : pc[r] # "idle"
    /\ \E n \in [Upload -> 0 .. MaxLen] :
         /\ \A u \in Upload :
              n[u] # 0 => WriteInProgress(u) /\ n[u] <= reader[stopCb[u]].read
         /\ store' = [u \in Upload |->
              IF WriteInProgress(u)
                THEN [store[u] EXCEPT !.offset = info[stopCb[u]].offset + n[u]]
                ELSE store[u]]
    /\ holder' = [u \in Upload |-> NoReq]
    /\ stopCb' = [u \in Upload |-> NoReq]
    /\ stopping' = NoReq
    /\ pc' = [r \in Req |-> "idle"]
    /\ req' = [r \in Req |-> NoRequest]
    /\ info' = [r \in Req |-> NoInfo]
    /\ reader' = [r \in Req |-> NoReader]
    /\ failed' = [r \in Req |-> FALSE]
    /\ UNCHANGED <<status, history>>

-----------------------------------------------------------------------------
(* Steps the server takes on its own for request r.                          *)
ServerStep(r) ==
    \/ GetInfo(r) \/ Acquire(r) \/ LockTimeout(r)
    \/ RejectPatch(r) \/ PatchOfComplete(r) \/ AcceptPatch(r) \/ DeclareLength(r)
    \/ RejectChunk(r) \/ BeginChunk(r) \/ EndWrite(r) \/ TerminateStopped(r)
    \/ FinishUpload(r) \/ EndChunk(r) \/ DeclareReceived(r)
    \/ Copy(r) \/ Terminate(r) \/ Respond(r)

(* Steps that need the client to send, or its connection to break.           *)
ClientStep(r) == ReadByte(r) \/ BodyEnds(r) \/ BodyFails(r)

(* Steps that need the reader of a notification channel.                     *)
NotifyStep(r) == NotifyCreated(r) \/ NotifyComplete(r) \/ NotifyTerminated(r)

Next ==
    \/ \E r \in Req : \/ Begin(r) \/ NewUpload(r)
                      \/ ServerStep(r) \/ ClientStep(r) \/ NotifyStep(r)
    \/ LoadStop \/ FireStop
    \/ Crash

Spec == Init /\ [][Next]_vars

(* A handler that can move does, and so does the listener.  A sender that is *)
(* ready whenever the listener comes back is not passed over for ever: Go's  *)
(* select picks among ready channels at random and a channel queues senders. *)
ServerFairness ==
    /\ \A r \in Req : WF_vars(ServerStep(r)) /\ SF_vars(NotifyStep(r))
    /\ WF_vars(FireStop)

(* A client goes on sending its body or its connection breaks.               *)
ClientFairness == \A r \in Req : WF_vars(ClientStep(r))

ServerSpec == Spec /\ ServerFairness
FairSpec == ServerSpec /\ ClientFairness

-----------------------------------------------------------------------------
(* Properties. *)

(* Type invariant: every variable keeps the shape its Go counterpart has.    *)
TypeOK ==
    /\ status \in [Upload -> {"free", "live", "gone"}]
    /\ store \in [Upload -> FileInfo]
    /\ holder \in [Upload -> Req \cup {NoReq}]
    /\ stopCb \in [Upload -> Req \cup {NoReq}]
    /\ stopping \in Req \cup {NoReq}
    /\ pc \in [Req -> Stage]
    /\ req \in [Req -> Request \cup {NoRequest}]
    /\ info \in [Req -> FileInfo]
    /\ reader \in [Req -> Reader]
    /\ failed \in [Req -> BOOLEAN]
    /\ finished \in [Upload -> Nat]
    /\ acked \in [Upload -> 0 .. MaxLen]

Filled(u) == ~store[u].deferred /\ store[u].offset = store[u].size

(* Stages in which a handler relies on the lock of its upload; it does so    *)
(* throughout writeChunk, where its reader is open.                          *)
LockedStage == {"check", "chunk", "write", "stopped", "unregister", "declare",
                "copy", "terminate", "terminated"}
Exclusive(r) == pc[r] \in LockedStage \/ reader[r].open

(* Two requests never inspect, write, finish or terminate the same upload at *)
(* the same time (lockUpload and the deferred Unlocks).                      *)
ExclusiveAccess ==
    \A r, s \in Req :
        r # s /\ Exclusive(r) /\ Exclusive(s) => req[r].id # req[s].id

(* The closure registered for an upload is the one of the request writing it *)
(* now, and a request that writes can be stopped: the registry is keyed by   *)
(* the id alone, so a late Unregister would silence the next writer.         *)
StopCallbackOwned ==
    \A u \in Upload, r \in Req :
        stopCb[u] = r <=> reader[r].open /\ req[r].id = u

(* What a handler decides and writes with is what the store has: the         *)
(* FileInfo it read earlier is not stale while it is used.                   *)
SnapshotCurrent ==
    \A r \in Req :
        pc[r] \in {"check", "chunk", "write", "copy"} =>
            status[req[r].id] = "live" /\ info[r] = store[req[r].id]

(* No upload holds more bytes than its length, whatever sequence of chunks   *)
(* and length declarations led there.                                        *)
OffsetWithinSize ==
    \A u \in Upload :
        status[u] = "live" /\ ~store[u].deferred => store[u].offset <= store[u].size

(* An offset a client was told is never taken back: the bytes before it are  *)
(* still stored as long as the upload exists.                                *)
AckedNeverLost ==
    \A u \in Upload : status[u] = "live" => acked[u] <= store[u].offset

(* FinishUpload succeeds at most once for an upload, so its completion is    *)
(* announced at most once.                                                   *)
CompletionOnce == \A u \in Upload : finished[u] <= 1

(* An upload that was finished has a known length and all of its bytes, and  *)
(* nothing is appended to it later.                                          *)
FinishedMeansComplete ==
    \A u \in Upload :
        finished[u] > 0 /\ status[u] = "live" => Filled(u)

(* unrouted.go: "writeChunk reads the body and appends it to the upload": no *)
(* step takes back stored bytes.  Needs that no id is used before its POST   *)
(* has answered; run early_ids refutes it otherwise.                         *)
AppendsOnly ==
    [][\A u \in Upload : status[u] = "live" /\ status'[u] = "live" =>
          store'[u].offset >= store[u].offset]_vars

(* A length, once known, is the upload's length for ever.                    *)
LengthDeclaredOnce ==
    [][\A u \in Upload :
          status[u] = "live" /\ ~store[u].deferred /\ status'[u] = "live" =>
              ~store'[u].deferred /\ store'[u].size = store[u].size]_vars

(* An upload that has been terminated is not reported as completed.          *)
NoCompletionAfterTermination ==
    [][\A u \in Upload : status[u] = "gone" => finished'[u] = finished[u]]_vars

(* Config.MaxSize: "the maximum upload size in bytes (0 = no limit)".        *)
WithinMaxSize ==
    \A u \in Upload :
        MaxSize > 0 /\ status[u] = "live" =>
            store[u].offset <= MaxSize /\ store[u].size <= MaxSize

(* A success is answered only for an upload that still exists: a stop that   *)
(* terminated it, or a concurrent DELETE, makes the request fail.            *)
SuccessMeansLive ==
    \A r \in Req :
        pc[r] = "respond" /\ ~failed[r] /\ req[r].op # "DELETE" =>
            status[req[r].id] = "live"

(* What clients and hooks see of the uploads.                                *)
Promised ==
    [u \in Upload |->
        [phase |-> CASE status[u] = "free" -> "none"
                     [] status[u] = "live" -> "open"
                     [] status[u] = "gone" -> "gone",
         length |-> IF status[u] = "live" /\ ~store[u].deferred
                      THEN store[u].size ELSE NoLength,
         received |-> store[u].offset,
         completions |-> finished[u]]]

Abstract == INSTANCE ResumableUpload WITH upload <- Promised

(* The handlers, with their locks, snapshots, crashes and failing store,     *)
(* implement the promise of ResumableUpload.                                 *)
KeepsPromise == Abstract!Spec

(* Every request is answered: no handler waits for ever for the lock, a      *)
(* channel or the store.                                                     *)
RequestsAnswered == \A r \in Req : pc[r] # "idle" ~> pc[r] = "idle"

(* Bytes of a known length are missing, or PostFileV2 is about to declare    *)
(* what it received as the length: the request that completes the upload     *)
(* from here on also has to finish it.  Two uploads are never in this state, *)
(* and runs empty_upload and declared_length show what becomes of them: one  *)
(* created empty, and one whose length a PATCH declares to be what is there. *)
Owed(u) ==
    /\ status[u] = "live"
    /\ \/ ~store[u].deferred /\ store[u].offset < store[u].size
       \/ \E r \in Req : pc[r] = "declare" /\ req[r].id = u

(* Once an upload has been owed its completion and a client has been told    *)
(* an offset equal to its (positive) length, FinishUpload has been carried   *)
(* out: no answer of a handler (unrouted.go:615, draft.go:236) runs ahead.   *)
AckedCompleteIsFinished ==
    \A u \in Upload :
        [](Owed(u) =>
            [](/\ status[u] = "live" /\ Filled(u)
               /\ store[u].size > 0 /\ acked[u] = store[u].size
               => finished[u] > 0))

(* An upload that has been owed its completion and whose last byte has       *)
(* arrived is finished, or terminated first.                                 *)
FilledIsFinished ==
    \A u \in Upload :
        [](Owed(u) =>
            (status[u] = "live" /\ Filled(u) ~>
                finished[u] > 0 \/ status[u] = "gone"))

-----------------------------------------------------------------------------
(* What the documentation says of the program and the code does not do.      *)

(* README.md, hook types: HookPostFinish comes "after upload completion", so *)
(* every upload that is complete, an empty one too, gets its FinishUpload.   *)
CompletedIsFinished ==
    \A u \in Upload :
        status[u] = "live" /\ Filled(u) ~> finished[u] > 0 \/ status[u] = "gone"

(* The same claim for an upload that has bytes: one whose length the client  *)
(* declares once they are all there gets its FinishUpload too.               *)
DeclaredIsFinished ==
    \A u \in Upload :
        status[u] = "live" /\ Filled(u) /\ store[u].size > 0 ~>
            finished[u] > 0 \/ status[u] = "gone"

(* README.md, draft headers: "Upload-Complete: ?1" is the "upload completion *)
(* signal", so a client that resumes an upload of unknown length and sends    *)
(* the signal with the last chunk has fixed the length when that chunk is     *)
(* answered with a success.                                                   *)
CompleteSignalHonoured ==
    \A r \in Req :
        pc[r] = "respond" /\ ~failed[r] /\ req[r].op = "PATCH" /\ req[r].complete =>
            ~info[r].deferred
=============================================================================
