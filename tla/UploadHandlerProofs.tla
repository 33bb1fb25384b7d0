------------------------ MODULE UploadHandlerProofs ------------------------
(***************************************************************************)
(* Proofs about UploadHandler, for every value of its constants.           *)
(*                                                                         *)
(* Part 1, type correctness.  TypeOK is not inductive: a handler uses the  *)
(* id and the body of its request, and adds what it read to an offset, so  *)
(* TypeInv adds that a request being served is a real one (Serving) and    *)
(* that what is read stays below the bound on lengths (ReadBounded).       *)
(* Part 2, mutual exclusion, from the invariant LockInv.                   *)
(***************************************************************************)
EXTENDS UploadHandler, TLAPS

Serving == \A r \in Req : pc[r] # "idle" => req[r] \in Request

ReadBounded ==
    \A r \in Req : pc[r] = "write" => info[r].offset + reader[r].read <= MaxLen

TypeInv == TypeOK /\ Serving /\ ReadBounded

-----------------------------------------------------------------------------
(* The records the model is made of. *)

(* A FileInfo stays one when its offset, or its length, is set.              *)
LEMMA FileInfoUpdates ==
    ASSUME NEW i \in FileInfo, NEW n \in 0 .. MaxLen
    PROVE  /\ [i EXCEPT !.offset = n] \in FileInfo
           /\ [i EXCEPT !.size = n, !.deferred = FALSE] \in FileInfo
  BY DEF FileInfo

(* What a bodyReader may report.                                             *)
ReaderErr == {"none", "eof", "failed", "lastRead", "stopped"}

(* A bodyReader stays one when it reads or its error is set.                 *)
LEMMA ReaderUpdates ==
    ASSUME NEW b \in Reader, NEW e \in ReaderErr
    PROVE  /\ [b EXCEPT !.err = e] \in Reader
           /\ \A n \in 0 .. MaxLen : [b EXCEPT !.read = n, !.err = e] \in Reader
<1>1. [b EXCEPT !.err = e] \in Reader
  BY DEF Reader, ReaderErr
<1>2. ASSUME NEW n \in 0 .. MaxLen PROVE [b EXCEPT !.read = n, !.err = e] \in Reader
  BY DEF Reader, ReaderErr
<1> QED BY <1>1, <1>2

(* What a Read or a stop leaves in a bodyReader is an error it may report.   *)
LEMMA ErrTypes ==
    ASSUME NEW r \in Req, reader[r] \in Reader
    PROVE  /\ \A e \in ReaderErr : ErrAfterRead(r, e) \in ReaderErr
           /\ ErrWhenClosed(r) \subseteq ReaderErr
<1>1. \A e \in ReaderErr : ErrAfterRead(r, e) \in ReaderErr
  BY DEF ErrAfterRead, ReaderErr
<1>2. ErrWhenClosed(r) \subseteq ReaderErr
  BY DEF ErrWhenClosed, ReaderErr
<1> QED BY <1>1, <1>2

(* The values readers and infos are reset to have the right type.            *)
LEMMA FreshRecords ==
    /\ NoReader \in Reader /\ NoInfo \in FileInfo
    /\ [NoReader EXCEPT !.open = TRUE] \in Reader
    /\ [NoReader EXCEPT !.open = TRUE].read = 0
    /\ [NoReader EXCEPT !.open = TRUE].open
<1>1. NoReader \in Reader /\ NoInfo \in FileInfo
  BY ConstantsAssumption DEF Reader, NoReader, FileInfo, NoInfo
<1>2. ASSUME NEW b \in Reader
      PROVE  [b EXCEPT !.open = TRUE] \in Reader
  BY DEF Reader
<1>3. [NoReader EXCEPT !.open = TRUE].read = 0 /\ [NoReader EXCEPT !.open = TRUE].open
  BY DEF NoReader
<1> QED BY <1>1, <1>2, <1>3

(* Every stage a handler may be sent to is one.                              *)
LEMMA NextStages ==
    /\ \A q \in Request : AfterCreated(q) \in {"lock", "finish", "respond"}
    /\ \A q \in Request, i \in FileInfo :
         AfterGetInfo(q, i) \in {"created", "lock", "finish", "respond", "check",
                                 "copy", "terminate"}
    /\ \A r \in Req : AfterFinish(r) \in {"unregister", "respond"}
<1>1. ASSUME NEW q \in Request
      PROVE  AfterCreated(q) \in {"lock", "finish", "respond"}
  BY DEF AfterCreated, Request
<1>2. ASSUME NEW q \in Request, NEW i \in FileInfo
      PROVE  AfterGetInfo(q, i) \in {"created", "lock", "finish", "respond", "check",
                                     "copy", "terminate"}
  <2>1. q.op \in AllOps
    BY ConstantsAssumption DEF Request
  <2> QED BY <1>1, <2>1 DEF AfterGetInfo, AllOps, PostOps
<1> QED BY <1>1, <1>2 DEF AfterFinish

-----------------------------------------------------------------------------
(* Type correctness, one lemma per action or group of like actions. *)

LEMMA InitType == Init => TypeInv
  BY FreshRecords, ConstantsAssumption
     DEF Init, TypeInv, TypeOK, Serving, ReadBounded, Stage

(* Begin: a request for an existing upload is well formed.                   *)
LEMMA BeginType ==
    ASSUME TypeInv, NEW r \in Req, Begin(r)
    PROVE  TypeInv'
<1>1. PICK u \in Upload : \E q \in PatchRequests(u) \cup OtherRequests(u) :
        req' = [req EXCEPT ![r] = q]
  BY DEF Begin
<1>2. PICK q \in PatchRequests(u) \cup OtherRequests(u) :
        req' = [req EXCEPT ![r] = q]
  BY <1>1
<1>3. q \in Request
  <2>1. CASE q \in PatchRequests(u)
    <3>1. \A n \in Lengths : n \in -2 .. MaxLen
      BY ConstantsAssumption
    <3> QED BY <2>1, <3>1 DEF PatchRequests, Request
  <2>2. CASE q \in OtherRequests(u)
    <3>1. PICK op \in Ops : q = [NoRequest EXCEPT !.op = op, !.id = u]
      BY <2>2 DEF OtherRequests
    <3>2. q = [op |-> op, id |-> u, offset |-> 0, length |-> -2,
              newLen |-> -1, chunk |-> FALSE, complete |-> FALSE]
      BY <3>1 DEF NoRequest, NoBody, NoLength
    <3> QED BY <3>2, ConstantsAssumption DEF Request
  <2> QED BY <1>2, <2>1, <2>2
<1>4. pc' = [pc EXCEPT ![r] = "lock"]
  BY DEF Begin, Goto
<1> QED BY <1>2, <1>3, <1>4
        DEF Begin, Stage, storage, registry, history, TypeInv, TypeOK, Serving, ReadBounded

(* A POST is a request, and gives a length within the bound, or none.        *)
LEMMA PostRequestTypes ==
    ASSUME NEW u \in Upload, NEW q \in PostRequests(u)
    PROVE  /\ q \in Request /\ q.id = u
           /\ NewUploadLength(q) \in -1 .. MaxLen
<1>1. \A n \in Lengths : n \in -2 .. MaxLen
  BY ConstantsAssumption
<1>2. /\ q \in [op : PostOps \cap Ops, id : {u}, offset : {0}, length : Lengths,
                 newLen : -1 .. MaxLen, chunk : BOOLEAN, complete : BOOLEAN]
      /\ 0 \in 0 .. MaxLen
  BY ConstantsAssumption DEF PostRequests
<1>3. q \in Request /\ q.id = u
  BY <1>1, <1>2 DEF Request
<1>4. NewUploadLength(q) \in -1 .. MaxLen
  BY <1>3, ConstantsAssumption DEF NewUploadLength, ContentLength, Request, NoLength, NoBody, Chunked
<1> QED BY <1>3, <1>4

(* NewUpload: the request and the upload it creates are well formed.         *)
LEMMA NewUploadType ==
    ASSUME TypeInv, NEW r \in Req, NewUpload(r)
    PROVE  TypeInv'
<1> DEFINE Fresh(q) == [size |-> IF NewUploadLength(q) = NoLength THEN 0 ELSE NewUploadLength(q),
                        deferred |-> NewUploadLength(q) = NoLength, offset |-> 0]
<1>1. PICK u \in Upload : \E q \in PostRequests(u) :
        /\ req' = [req EXCEPT ![r] = q]
        /\ status' = [status EXCEPT ![u] = "live"]
        /\ store' = [store EXCEPT ![u] = Fresh(q)]
  BY DEF NewUpload
<1>2. PICK q \in PostRequests(u) :
        /\ req' = [req EXCEPT ![r] = q]
        /\ status' = [status EXCEPT ![u] = "live"]
        /\ store' = [store EXCEPT ![u] = Fresh(q)]
  BY <1>1
<1>4. q \in Request /\ NewUploadLength(q) \in -1 .. MaxLen
  BY PostRequestTypes
<1>5. Fresh(q) \in FileInfo
  BY <1>4, ConstantsAssumption DEF FileInfo, NoLength
<1>6. pc' = [pc EXCEPT ![r] = "getinfo"]
  BY DEF NewUpload, Goto
<1> HIDE DEF Fresh
<1> QED BY <1>2, <1>4, <1>5, <1>6
        DEF NewUpload, Stage, registry, history, TypeInv, TypeOK, Serving, ReadBounded

(* GetInfo, Acquire and LockTimeout.                                         *)
LEMMA LookupType ==
    ASSUME TypeInv, NEW r \in Req, GetInfo(r) \/ Acquire(r) \/ LockTimeout(r)
    PROVE  TypeInv'
<1>1. /\ req[r] \in Request /\ req[r].id \in Upload
      /\ store[req[r].id] \in FileInfo
  BY DEF TypeInv, TypeOK, Serving, GetInfo, Acquire, LockTimeout, Request
<1>2. CASE GetInfo(r)
  <2>1. CASE /\ info' = [info EXCEPT ![r] = store[req[r].id]]
             /\ Goto(r, AfterGetInfo(req[r], store[req[r].id]))
             /\ UNCHANGED failed
    <3>1. pc' = [pc EXCEPT ![r] = AfterGetInfo(req[r], store[req[r].id])]
      BY <2>1 DEF Goto
    <3>2. pc'[r] \in {"created", "lock", "finish", "respond", "check", "copy", "terminate"}
          /\ pc' \in [Req -> Stage]
      BY <1>1, <3>1, NextStages DEF TypeInv, TypeOK, Stage
    <3>3. UNCHANGED <<status, store, holder, stopCb, stopping, req, reader, finished, acked>>
      BY <1>2 DEF GetInfo, storage, registry, history
    <3> QED BY <1>1, <2>1, <3>1, <3>2, <3>3 DEF TypeInv, TypeOK, Serving, ReadBounded
  <2>2. CASE Fail(r) /\ UNCHANGED info
    BY <1>2, <2>2 DEF GetInfo, Fail, Goto, Stage, storage, registry, history,
                      TypeInv, TypeOK, Serving, ReadBounded
  <2> QED BY <1>2, <2>1, <2>2 DEF GetInfo
<1>3. CASE Acquire(r)
  <2>1. pc' \in [Req -> Stage] /\ pc'[r] # "write" /\ \A s \in Req : s # r => pc'[s] = pc[s]
    BY <1>3 DEF Acquire, Goto, Stage, TypeInv, TypeOK
  <2> QED BY <1>1, <1>3, <2>1
          DEF Acquire, storage, registry, history, TypeInv, TypeOK, Serving, ReadBounded
<1>4. CASE LockTimeout(r)
  BY <1>1, <1>4 DEF LockTimeout, Fail, Goto, Stage, storage, registry, history,
                    TypeInv, TypeOK, Serving, ReadBounded
<1> QED BY <1>2, <1>3, <1>4

(* The actions of PatchFile that leave the store alone, and RejectChunk.     *)
LEMMA PatchType ==
    ASSUME TypeInv, NEW r \in Req,
           RejectPatch(r) \/ PatchOfComplete(r) \/ AcceptPatch(r) \/ RejectChunk(r)
    PROVE  TypeInv'
<1>1. /\ pc[r] # "idle"
      /\ UNCHANGED <<status, store, holder, stopCb, stopping, req, info, reader, finished, acked>>
      /\ pc' = [pc EXCEPT ![r] = "respond"] \/ pc' = [pc EXCEPT ![r] = "chunk"]
      /\ failed' = failed \/ failed' = [failed EXCEPT ![r] = TRUE]
  BY DEF RejectPatch, PatchOfComplete, AcceptPatch, RejectChunk, Fail, Goto,
         storage, registry, history
<1> QED BY <1>1 DEF Stage, TypeInv, TypeOK, Serving, ReadBounded

(* DeclareLength: a declared length comes from the request.                  *)
LEMMA DeclareLengthType ==
    ASSUME TypeInv, NEW r \in Req, DeclareLength(r)
    PROVE  TypeInv'
<1> DEFINE u == req[r].id
           len == req[r].newLen
<1>1. /\ req[r] \in Request /\ u \in Upload
      /\ info[r] \in FileInfo /\ store[u] \in FileInfo /\ pc[r] = "check"
  BY DEF TypeInv, TypeOK, Serving, DeclareLength, Request
<1>2. len \in 0 .. MaxLen
  BY <1>1, ConstantsAssumption DEF DeclareLength, Request, NoLength
<1>3. UNCHANGED <<status, holder, stopCb, stopping, req, reader, finished, acked>>
  BY DEF DeclareLength, registry, history
<1>4. CASE /\ store' = [store EXCEPT ![u].size = len, ![u].deferred = FALSE]
           /\ info' = [info EXCEPT ![r].size = len, ![r].deferred = FALSE]
           /\ Goto(r, "chunk")
           /\ UNCHANGED failed
  <2>1. /\ store' = [store EXCEPT ![u] = [store[u] EXCEPT !.size = len, !.deferred = FALSE]]
        /\ info' = [info EXCEPT ![r] = [info[r] EXCEPT !.size = len, !.deferred = FALSE]]
    BY <1>1, <1>4 DEF TypeInv, TypeOK
  <2>2. store' \in [Upload -> FileInfo] /\ info' \in [Req -> FileInfo]
    BY <1>1, <1>2, <2>1, FileInfoUpdates DEF TypeInv, TypeOK
  <2>3. pc' = [pc EXCEPT ![r] = "chunk"] /\ \A s \in Req : s # r => info'[s] = info[s]
    BY <1>4, <2>1, <2>2 DEF Goto, TypeInv, TypeOK
  <2> QED BY <1>1, <1>3, <1>4, <2>2, <2>3 DEF Stage, TypeInv, TypeOK, Serving, ReadBounded
<1>5. CASE Fail(r) /\ UNCHANGED <<store, info>>
  BY <1>1, <1>3, <1>5 DEF Fail, Goto, Stage, TypeInv, TypeOK, Serving, ReadBounded
<1> QED BY <1>4, <1>5 DEF DeclareLength

(* BeginChunk: nothing has been read yet.                                    *)
LEMMA BeginChunkType ==
    ASSUME TypeInv, NEW r \in Req, BeginChunk(r)
    PROVE  TypeInv'
<1>1. /\ pc[r] = "chunk" /\ info[r] \in FileInfo /\ req[r] \in Request
      /\ pc' = [pc EXCEPT ![r] = "write"]
      /\ reader' = [reader EXCEPT ![r] = [NoReader EXCEPT !.open = TRUE]]
      /\ stopCb' = [stopCb EXCEPT ![req[r].id] = r]
      /\ UNCHANGED <<status, store, holder, stopping, req, info, failed, finished, acked>>
  BY DEF BeginChunk, Goto, storage, history, TypeInv, TypeOK, Serving
<1>2. reader' \in [Req -> Reader] /\ reader'[r].read = 0
  BY <1>1, FreshRecords DEF TypeInv, TypeOK
<1>3. info[r].offset + 0 <= MaxLen
  BY <1>1, ConstantsAssumption DEF FileInfo
<1>4. ReadBounded'
  BY <1>1, <1>2, <1>3 DEF TypeInv, TypeOK, ReadBounded
<1> QED BY <1>1, <1>2, <1>4 DEF Stage, TypeInv, TypeOK, Serving

(* ReadByte, BodyEnds, BodyFails.                                            *)
LEMMA ClientStepType ==
    ASSUME TypeInv, NEW r \in Req, ClientStep(r)
    PROVE  TypeInv'
<1>1. /\ pc[r] = "write" /\ reader[r] \in Reader /\ info[r] \in FileInfo
      /\ reader \in [Req -> Reader]
  BY DEF TypeInv, TypeOK, ClientStep, ReadByte, BodyEnds, BodyFails, Reading
<1>2. CASE ReadByte(r)
  <2>1. reader[r].read + 1 \in 0 .. MaxLen
    BY <1>1, <1>2, ConstantsAssumption DEF ReadByte, Reader, FileInfo
  <2>2. PICK e \in ReaderErr :
           reader' = [reader EXCEPT ![r] =
                        [reader[r] EXCEPT !.read = reader[r].read + 1, !.err = e]]
    <3>1. ErrAfterRead(r, "none") \in ReaderErr
      BY <1>1, ErrTypes DEF ReaderErr
    <3> QED BY <1>2, <3>1 DEF ReadByte
  <2>3. reader' \in [Req -> Reader]
    BY <1>1, <2>1, <2>2, ReaderUpdates
  <2>4. ReadBounded'
    BY <1>1, <1>2, <2>1, <2>2, ConstantsAssumption
       DEF ReadByte, Reader, FileInfo, TypeInv, ReadBounded
  <2> QED BY <1>2, <2>3, <2>4
          DEF ReadByte, storage, registry, history, TypeInv, TypeOK, Serving
<1>3. CASE BodyEnds(r) \/ BodyFails(r)
  <2>1. PICK e \in ReaderErr :
           reader' = [reader EXCEPT ![r] = [reader[r] EXCEPT !.err = e]]
    <3>1. ErrAfterRead(r, "eof") \in ReaderErr /\ ErrAfterRead(r, "failed") \in ReaderErr
      BY <1>1, ErrTypes DEF ReaderErr
    <3> QED BY <1>3, <3>1 DEF BodyEnds, BodyFails
  <2>2. reader' \in [Req -> Reader]
    BY <1>1, <2>1, ReaderUpdates
  <2>3. \A s \in Req : reader'[s].read = reader[s].read
    BY <1>1, <2>1 DEF Reader
  <2>4. ReadBounded'
    BY <1>3, <2>3 DEF BodyEnds, BodyFails, TypeInv, ReadBounded
  <2> QED BY <1>3, <2>2, <2>4 DEF BodyEnds, BodyFails, storage, registry, history,
                                  TypeInv, TypeOK, Serving
<1> QED BY <1>2, <1>3 DEF ClientStep

(* EndWrite: WriteChunk stores no more than was read.                        *)
LEMMA EndWriteType ==
    ASSUME TypeInv, NEW r \in Req, EndWrite(r)
    PROVE  TypeInv'
<1> DEFINE u == req[r].id
<1>1. /\ pc[r] = "write" /\ reader[r] \in Reader /\ info[r] \in FileInfo
      /\ u \in Upload
      /\ info[r].offset + reader[r].read <= MaxLen
      /\ info \in [Req -> FileInfo] /\ store \in [Upload -> FileInfo]
      /\ failed \in [Req -> BOOLEAN] /\ pc \in [Req -> Stage]
  BY DEF EndWrite, Request, TypeInv, TypeOK, Serving, ReadBounded
<1>2. PICK n \in Stored(r) :
        /\ info' = [info EXCEPT ![r] = [info[r] EXCEPT !.offset = NewOffset(info[r], n)]]
        /\ store' = IF status[u] = "live"
                      THEN [store EXCEPT ![u] = [store[u] EXCEPT !.offset = NewOffset(info[r], n)]]
                      ELSE store
        /\ \E writeErr \in WriteError(r, n) :
             failed' = [failed EXCEPT ![r] = ChunkFails(r, writeErr)]
  BY DEF EndWrite
<1>3. n \in 0 .. reader[r].read
  BY <1>1, ConstantsAssumption DEF Stored, Reader
<1>4. NewOffset(info[r], n) \in 0 .. MaxLen
  BY <1>1, <1>3, ConstantsAssumption DEF NewOffset, Reader, FileInfo
<1>5. info' \in [Req -> FileInfo] /\ store' \in [Upload -> FileInfo]
  BY <1>1, <1>2, <1>4, FileInfoUpdates
<1>6. failed' \in [Req -> BOOLEAN]
  <2>1. WriteError(r, n) \subseteq BOOLEAN
    BY DEF WriteError
  <2>2. \A writeErr \in BOOLEAN : ChunkFails(r, writeErr) \in BOOLEAN
    BY DEF ChunkFails
  <2> QED BY <1>1, <1>2, <2>1, <2>2
<1>7. pc' \in [Req -> Stage] /\ pc'[r] \in {"stopped", "finish"}
      /\ \A s \in Req : s # r => pc'[s] = pc[s] /\ info'[s] = info[s]
  BY <1>1, <1>2 DEF EndWrite, Goto, Stage
<1> QED BY <1>1, <1>5, <1>6, <1>7
        DEF EndWrite, storage, registry, history, TypeInv, TypeOK, Serving, ReadBounded

(* TerminateStopped, Terminate, Copy.                                        *)
LEMMA TerminateType ==
    ASSUME TypeInv, NEW r \in Req, TerminateStopped(r) \/ Terminate(r) \/ Copy(r)
    PROVE  TypeInv'
<1>1. /\ pc[r] \notin {"idle", "write"}
      /\ UNCHANGED <<holder, stopCb, stopping, req, info, reader, finished, acked>>
      /\ \/ UNCHANGED <<status, store>>
         \/ /\ status' = [status EXCEPT ![req[r].id] = "gone"]
            /\ store' = [store EXCEPT ![req[r].id] = NoInfo]
      /\ failed' = failed \/ failed' = [failed EXCEPT ![r] = TRUE]
  BY DEF TerminateStopped, Terminate, Copy, Fail, storage, registry, history
<1>2. \/ pc' = [pc EXCEPT ![r] = "finish"] \/ pc' = [pc EXCEPT ![r] = "respond"]
      \/ pc' = [pc EXCEPT ![r] = "terminated"]
  BY DEF TerminateStopped, Terminate, Copy, Fail, Goto
<1>3. status' \in [Upload -> {"free", "live", "gone"}] /\ store' \in [Upload -> FileInfo]
  BY <1>1, FreshRecords DEF TypeInv, TypeOK
<1> QED BY <1>1, <1>2, <1>3 DEF Stage, TypeInv, TypeOK, Serving, ReadBounded

(* FinishUpload.                                                             *)
LEMMA FinishType ==
    ASSUME TypeInv, NEW r \in Req, FinishUpload(r)
    PROVE  TypeInv'
<1>1. /\ pc[r] = "finish" /\ req[r].id \in Upload
      /\ UNCHANGED <<status, store, holder, stopCb, stopping, req, info, reader, acked>>
      /\ \/ finished' = finished
         \/ finished' = [finished EXCEPT ![req[r].id] = finished[req[r].id] + 1]
      /\ failed' = failed \/ failed' = [failed EXCEPT ![r] = TRUE]
  BY DEF FinishUpload, storage, registry, history, TypeInv, TypeOK, Serving, Request
<1>2. \/ pc' = [pc EXCEPT ![r] = AfterFinish(r)]
      \/ pc' = [pc EXCEPT ![r] = "completed"]
  BY DEF FinishUpload, Goto
<1>3. pc' \in [Req -> Stage] /\ pc'[r] # "write" /\ \A s \in Req : s # r => pc'[s] = pc[s]
  BY <1>2, NextStages DEF Stage, TypeInv, TypeOK
<1>4. finished' \in [Upload -> Nat]
  BY <1>1 DEF TypeInv, TypeOK
<1> QED BY <1>1, <1>3, <1>4 DEF TypeInv, TypeOK, Serving, ReadBounded

(* EndChunk.                                                                 *)
LEMMA EndChunkType ==
    ASSUME TypeInv, NEW r \in Req, EndChunk(r)
    PROVE  TypeInv'
<1>1. /\ pc[r] = "unregister"
      /\ stopCb' = [stopCb EXCEPT ![req[r].id] = NoReq]
      /\ reader' = [reader EXCEPT ![r] = NoReader]
      /\ pc' = [pc EXCEPT ![r] = "declare"] \/ pc' = [pc EXCEPT ![r] = "respond"]
      /\ UNCHANGED <<status, store, holder, stopping, req, info, failed, finished, acked>>
  BY DEF EndChunk, UnregisterStopCallback, Goto, storage, history
<1>2. reader' \in [Req -> Reader] /\ \A s \in Req : s # r => reader'[s] = reader[s]
  BY <1>1, FreshRecords DEF TypeInv, TypeOK
<1> QED BY <1>1, <1>2 DEF Stage, TypeInv, TypeOK, Serving, ReadBounded

(* DeclareReceived: the declared length is the offset in the store.          *)
LEMMA DeclareReceivedType ==
    ASSUME TypeInv, NEW r \in Req, DeclareReceived(r)
    PROVE  TypeInv'
<1> DEFINE u == req[r].id
           len == store[u].offset
<1>1. /\ req[r] \in Request /\ u \in Upload /\ store[u] \in FileInfo /\ pc[r] = "declare"
      /\ store \in [Upload -> FileInfo] /\ info \in [Req -> FileInfo]
  BY DEF TypeInv, TypeOK, Serving, DeclareReceived, Request
<1>2. len \in 0 .. MaxLen
  BY <1>1 DEF FileInfo
<1>3. UNCHANGED <<status, holder, stopCb, stopping, req, reader, finished, acked>>
  BY DEF DeclareReceived, registry, history
<1>4. CASE /\ store' = [store EXCEPT ![u].size = len, ![u].deferred = FALSE]
           /\ info' = [info EXCEPT ![r] = store'[u]]
           /\ Goto(r, "finish")
           /\ UNCHANGED failed
  <2>1. store' = [store EXCEPT ![u] = [store[u] EXCEPT !.size = len, !.deferred = FALSE]]
    BY <1>1, <1>4
  <2>2. store' \in [Upload -> FileInfo]
    BY <1>1, <1>2, <2>1, FileInfoUpdates
  <2>3. info' \in [Req -> FileInfo] /\ \A s \in Req : s # r => info'[s] = info[s]
    BY <1>1, <1>4, <2>2
  <2>4. pc' = [pc EXCEPT ![r] = "finish"]
    BY <1>4 DEF Goto
  <2> QED BY <1>1, <1>3, <1>4, <2>2, <2>3, <2>4
          DEF Stage, TypeInv, TypeOK, Serving, ReadBounded
<1>5. CASE Fail(r) /\ UNCHANGED <<store, info>>
  BY <1>1, <1>3, <1>5 DEF Fail, Goto, Stage, TypeInv, TypeOK, Serving, ReadBounded
<1> QED BY <1>4, <1>5 DEF DeclareReceived

(* Respond.                                                                  *)
LEMMA RespondType ==
    ASSUME TypeInv, NEW r \in Req, Respond(r)
    PROVE  TypeInv'
<1> DEFINE u == req[r].id
<1>1. /\ pc[r] = "respond" /\ u \in Upload /\ info[r].offset \in 0 .. MaxLen
      /\ acked[u] \in 0 .. MaxLen
  BY DEF Respond, TypeInv, TypeOK, Serving, Request, FileInfo
<1>2. Bigger(acked[u], info[r].offset) \in 0 .. MaxLen
  BY <1>1 DEF Bigger
<1>3. acked' \in [Upload -> 0 .. MaxLen]
  BY <1>1, <1>2 DEF Respond, TypeInv, TypeOK
<1>4. holder' \in [Upload -> Req \cup {NoReq}]
  BY DEF Respond, TypeInv, TypeOK
<1>5. /\ req' = [req EXCEPT ![r] = NoRequest] /\ info' = [info EXCEPT ![r] = NoInfo]
      /\ failed' = [failed EXCEPT ![r] = FALSE] /\ pc' = [pc EXCEPT ![r] = "idle"]
      /\ UNCHANGED <<status, store, stopCb, stopping, reader, finished>>
  BY DEF Respond, Goto, storage, registry
<1> QED BY <1>3, <1>4, <1>5, FreshRecords DEF Stage, TypeInv, TypeOK, Serving, ReadBounded

(* NotifyCreated, NotifyComplete, NotifyTerminated.                          *)
LEMMA NotifyType ==
    ASSUME TypeInv, NEW r \in Req, NotifyStep(r)
    PROVE  TypeInv'
<1>1. /\ pc[r] \notin {"idle", "write"}
      /\ UNCHANGED <<status, store, holder, stopCb, stopping, req, info, reader,
                     failed, finished, acked>>
      /\ \/ pc' = [pc EXCEPT ![r] = AfterCreated(req[r])]
         \/ pc' = [pc EXCEPT ![r] = AfterFinish(r)]
         \/ pc' = [pc EXCEPT ![r] = "respond"]
  BY DEF NotifyStep, NotifyCreated, NotifyComplete, NotifyTerminated, Goto,
         storage, registry, history
<1>2. req[r] \in Request
  BY <1>1 DEF TypeInv, Serving
<1>3. pc' \in [Req -> Stage] /\ pc'[r] # "write" /\ \A s \in Req : s # r => pc'[s] = pc[s]
  BY <1>1, <1>2, NextStages DEF Stage, TypeInv, TypeOK
<1> QED BY <1>1, <1>3 DEF TypeInv, TypeOK, Serving, ReadBounded

(* LoadStop and FireStop.                                                    *)
LEMMA StopType ==
    ASSUME TypeInv, LoadStop \/ FireStop
    PROVE  TypeInv'
<1>1. CASE LoadStop
  BY <1>1 DEF LoadStop, storage, history, TypeInv, TypeOK, Serving, ReadBounded
<1>2. CASE FireStop
  <2>1. /\ stopping \in Req /\ reader \in [Req -> Reader]
        /\ \/ reader' = reader
           \/ \E e \in ReaderErr :
                reader' = [reader EXCEPT ![stopping] = [reader[stopping] EXCEPT !.err = e]]
    <3>1. stopping \in Req /\ reader \in [Req -> Reader]
      BY <1>2 DEF FireStop, TypeInv, TypeOK
    <3> QED BY <1>2, <3>1, ErrTypes DEF FireStop
  <2>2. reader' \in [Req -> Reader]
    <3>1. \A e \in ReaderErr : [reader[stopping] EXCEPT !.err = e] \in Reader
      BY <2>1, ReaderUpdates
    <3> QED BY <2>1, <3>1
  <2>3. \A s \in Req : reader'[s].read = reader[s].read
    BY <2>1 DEF Reader
  <2> QED BY <1>2, <2>2, <2>3
          DEF FireStop, storage, history, TypeInv, TypeOK, Serving, ReadBounded
<1> QED BY <1>1, <1>2

(* A Read and a stop leave readers open or closed, and only a Read counts.   *)
LEMMA ReadersKept ==
    ASSUME TypeInv, (\E r \in Req : ClientStep(r)) \/ LoadStop \/ FireStop
    PROVE  \A s \in Req : reader'[s].open = reader[s].open
<1>1. \/ reader' = reader
      \/ \E s \in Req : \E n, e :
           \/ reader' = [reader EXCEPT ![s] = [reader[s] EXCEPT !.read = n, !.err = e]]
           \/ reader' = [reader EXCEPT ![s] = [reader[s] EXCEPT !.err = e]]
  <2>1. CASE \E r \in Req : ClientStep(r)
    <3>1. PICK r \in Req : ReadByte(r) \/ BodyEnds(r) \/ BodyFails(r)
      BY <2>1 DEF ClientStep
    <3>2. CASE ReadByte(r)
      <4>1. reader' = [reader EXCEPT ![r] =
              [reader[r] EXCEPT !.read = reader[r].read + 1, !.err = ErrAfterRead(r, "none")]]
        BY <3>2 DEF ReadByte
      <4> QED BY <4>1
    <3>3. CASE BodyEnds(r)
      BY <3>3 DEF BodyEnds
    <3>4. CASE BodyFails(r)
      BY <3>4 DEF BodyFails
    <3> QED BY <3>1, <3>2, <3>3, <3>4
  <2>2. CASE LoadStop \/ FireStop
    BY <2>2 DEF LoadStop, FireStop, TypeInv, TypeOK
  <2> QED BY <2>1, <2>2
<1>2. \A s \in Req : reader'[s].open = reader[s].open
  <2>1. CASE reader' = reader
    BY <2>1
  <2>2. ASSUME NEW t \in Req, NEW n, NEW e,
           \/ reader' = [reader EXCEPT ![t] = [reader[t] EXCEPT !.read = n, !.err = e]]
           \/ reader' = [reader EXCEPT ![t] = [reader[t] EXCEPT !.err = e]]
        PROVE  \A s \in Req : reader'[s].open = reader[s].open
    <3>1. \A s \in Req : reader[s] = [open |-> reader[s].open, read |-> reader[s].read,
                                        err |-> reader[s].err]
      BY DEF TypeInv, TypeOK, Reader
    <3>2. reader'[t].open = reader[t].open
      <4>1. reader'[t] = [reader[t] EXCEPT !.read = n, !.err = e] \/ reader'[t] = [reader[t] EXCEPT !.err = e]
        BY <2>2 DEF TypeInv, TypeOK
      <4> QED BY <3>1, <4>1
    <3>3. \A s \in Req \ {t} : reader'[s] = reader[s]
      BY <2>2 DEF TypeInv, TypeOK
    <3> QED BY <3>2, <3>3
  <2> QED BY <1>1, <2>1, <2>2
<1> QED BY <1>2

LEMMA CountsKept ==
    ASSUME TypeInv, (\E r \in Req : BodyEnds(r) \/ BodyFails(r)) \/ LoadStop \/ FireStop
    PROVE  \A s \in Req : reader'[s].read = reader[s].read
<1>1. \/ reader' = reader
      \/ \E t \in Req : \E e : reader' = [reader EXCEPT ![t] = [reader[t] EXCEPT !.err = e]]
  BY DEF BodyEnds, BodyFails, LoadStop, FireStop, TypeInv, TypeOK
<1>2. ASSUME NEW t \in Req, NEW e,
             reader' = [reader EXCEPT ![t] = [reader[t] EXCEPT !.err = e]]
      PROVE  \A s \in Req : reader'[s].read = reader[s].read
  BY <1>2 DEF TypeInv, TypeOK, Reader
<1> QED BY <1>1, <1>2

LEMMA ReadCounts ==
    ASSUME TypeInv, NEW r \in Req, ReadByte(r)
    PROVE  /\ reader'[r].read = reader[r].read + 1
           /\ reader'[r].err = ErrAfterRead(r, "none")
           /\ \A s \in Req : s # r => reader'[s] = reader[s]
<1>1. reader' = [reader EXCEPT ![r] =
        [reader[r] EXCEPT !.read = reader[r].read + 1, !.err = ErrAfterRead(r, "none")]]
  BY DEF ReadByte
<1> QED BY <1>1 DEF TypeInv, TypeOK, Reader

(* Crash: a write in progress leaves an offset within what was read.         *)
LEMMA CrashType ==
    ASSUME TypeInv, Crash
    PROVE  TypeInv'
<1> DEFINE New(n, u) == IF WriteInProgress(u)
                          THEN [store[u] EXCEPT !.offset = info[stopCb[u]].offset + n[u]]
                          ELSE store[u]
<1>1. PICK n \in [Upload -> 0 .. MaxLen] :
        /\ \A u \in Upload :
             n[u] # 0 => WriteInProgress(u) /\ n[u] <= reader[stopCb[u]].read
        /\ store' = [u \in Upload |-> New(n, u)]
  BY DEF Crash
<1>2. ASSUME NEW u \in Upload PROVE New(n, u) \in FileInfo
  <2>1. CASE WriteInProgress(u)
    <3>1. /\ stopCb[u] \in Req /\ store[u] \in FileInfo
          /\ info[stopCb[u]] \in FileInfo /\ reader[stopCb[u]] \in Reader
          /\ info[stopCb[u]].offset + reader[stopCb[u]].read <= MaxLen
      BY <2>1 DEF WriteInProgress, TypeInv, TypeOK, ReadBounded
    <3>2. n[u] \in 0 .. MaxLen /\ n[u] <= reader[stopCb[u]].read
      BY <1>1, <3>1, ConstantsAssumption DEF Reader
    <3>3. info[stopCb[u]].offset + n[u] \in 0 .. MaxLen
      BY <3>1, <3>2, ConstantsAssumption DEF FileInfo, Reader
    <3> QED BY <2>1, <3>1, <3>3, FileInfoUpdates
  <2>2. CASE ~WriteInProgress(u)
    BY <2>2 DEF TypeInv, TypeOK
  <2> QED BY <2>1, <2>2
<1>3. store' \in [Upload -> FileInfo]
  <2> HIDE DEF New
  <2> QED BY <1>1, <1>2
<1> QED BY <1>3, FreshRecords DEF Crash, history, Stage, TypeInv, TypeOK, Serving, ReadBounded

(* Every step keeps TypeInv.                                                 *)
LEMMA StepType == TypeInv /\ [Next]_vars => TypeInv'
<1> SUFFICES ASSUME TypeInv, [Next]_vars PROVE TypeInv'
  OBVIOUS
<1>1. ASSUME NEW r \in Req, Begin(r) \/ NewUpload(r) \/ ClientStep(r) \/ NotifyStep(r)
      PROVE  TypeInv'
  BY <1>1, BeginType, NewUploadType, ClientStepType, NotifyType
<1>2. ASSUME NEW r \in Req, ServerStep(r)
      PROVE  TypeInv'
  BY <1>2, LookupType, PatchType, DeclareLengthType, BeginChunkType, EndWriteType,
     TerminateType, FinishType, EndChunkType, DeclareReceivedType, RespondType
     DEF ServerStep
<1>3. CASE LoadStop \/ FireStop
  BY <1>3, StopType
<1>4. CASE Crash
  BY <1>4, CrashType
<1>5. CASE UNCHANGED vars
  BY <1>5 DEF vars, TypeInv, TypeOK, Serving, ReadBounded
<1> QED BY <1>1, <1>2, <1>3, <1>4, <1>5 DEF Next

(* TypeInv holds throughout: the inductive form of TypeOK.                   *)
THEOREM TypeInvariant == Spec => []TypeInv
  BY InitType, StepType, PTL DEF Spec

(* The type invariant of every run, for every value of the constants: each   *)
(* variable keeps the shape its Go counterpart has.                          *)
THEOREM TypeCorrect == Spec => []TypeOK
  BY TypeInvariant, PTL DEF TypeInv

-----------------------------------------------------------------------------
(***************************************************************************)
(* Part 2, mutual exclusion.  A request relies on the lock of its upload   *)
(* in the stages ExclusiveAccess names and, when it is not a POST, while   *)
(* it reads the upload's info.  LockInv says that it then holds the lock,  *)
(* in which stages a body reader is open, and whose closure is registered. *)
(***************************************************************************)
Relies(r) ==
    \/ Exclusive(r)
    \/ pc[r] = "getinfo" /\ req[r].op \notin PostOps

OwnsLock == \A r \in Req : Relies(r) => holder[req[r].id] = r

ReaderOpen ==
    \A r \in Req :
        /\ pc[r] \in {"write", "stopped", "unregister"} => reader[r].open
        /\ reader[r].open =>
             pc[r] \in {"write", "stopped", "finish", "completed", "unregister"}

LockInv == OwnsLock /\ ReaderOpen /\ StopCallbackOwned

(* When a request relies on its lock, and that it then has it.               *)
LEMMA ReliesFacts ==
    ASSUME LockInv, NEW r \in Req
    PROVE  /\ pc[r] \in LockedStage => Relies(r)
           /\ reader[r].open => Relies(r)
           /\ Relies(r) => holder[req[r].id] = r
<1>1. Exclusive(r) => Relies(r)
  BY DEF Relies
<1>2. pc[r] \in LockedStage => Exclusive(r)
  BY DEF Exclusive
<1>3. reader[r].open => Exclusive(r)
  BY DEF Exclusive
<1>4. Relies(r) => holder[req[r].id] = r
  BY DEF LockInv, OwnsLock
<1> QED BY <1>1, <1>2, <1>3, <1>4

(* The initial state: nobody holds a lock, reads a body or is registered.    *)
LEMMA InitLock == Init => LockInv
  BY ConstantsAssumption DEF Init, LockedStage, LockInv, OwnsLock, Relies, Exclusive, ReaderOpen,
     StopCallbackOwned, NoReader

(* A step that only moves request r from one stage to another: it may go to  *)
(* a stage that relies on the lock only while it holds the lock, and to one  *)
(* of writeChunk's only while its reader is open.                            *)
LEMMA MoveLock ==
    ASSUME TypeInv, LockInv, NEW r \in Req, NEW stage,
           pc' = [pc EXCEPT ![r] = stage],
           UNCHANGED <<holder, req, stopCb>>,
           \A s \in Req : reader'[s].open = reader[s].open,
           \/ /\ stage \in {"idle", "created", "lock", "respond"}
              /\ ~reader[r].open
           \/ /\ stage \in {"finish", "completed"}
              /\ reader[r].open => Relies(r)
           \/ /\ stage \in {"check", "chunk", "declare", "copy", "terminate", "terminated"}
              /\ Relies(r) /\ ~reader[r].open
           \/ /\ stage \in {"write", "stopped", "unregister"}
              /\ Relies(r) /\ reader[r].open
    PROVE  LockInv'
<1>1. /\ pc'[r] = stage /\ \A s \in Req : s # r => pc'[s] = pc[s]
      /\ \A s \in Req : req'[s] = req[s] /\ \A u : holder'[u] = holder[u]
  BY DEF TypeInv, TypeOK
<1>2. OwnsLock'
  BY <1>1 DEF LockedStage, LockInv, OwnsLock, Relies, Exclusive
<1>3. ReaderOpen'
  BY <1>1 DEF LockInv, ReaderOpen
<1>4. StopCallbackOwned'
  BY <1>1 DEF LockInv, StopCallbackOwned
<1> QED BY <1>2, <1>3, <1>4 DEF LockInv

(* A step that leaves the lock, the readers and every stage alone.           *)
LEMMA StutterLock ==
    ASSUME LockInv, UNCHANGED <<holder, req, stopCb, pc>>,
           \A s \in Req : reader'[s].open = reader[s].open
    PROVE  LockInv'
  BY DEF LockInv, OwnsLock, Relies, Exclusive, LockedStage, ReaderOpen, StopCallbackOwned

(* Begin and NewUpload fill an idle slot: its reader is closed.              *)
LEMMA BeginLock ==
    ASSUME TypeInv, LockInv, NEW r \in Req, Begin(r) \/ NewUpload(r)
    PROVE  LockInv'
<1>1. pc[r] = "idle" /\ ~reader[r].open
  BY DEF Begin, NewUpload, LockInv, ReaderOpen
<1>2. UNCHANGED <<holder, stopCb, reader>>
  BY DEF Begin, NewUpload, registry
<1>3. \E q : /\ req' = [req EXCEPT ![r] = q]
              /\ \/ pc' = [pc EXCEPT ![r] = "lock"]
                 \/ pc' = [pc EXCEPT ![r] = "getinfo"] /\ q.op \in PostOps
  BY DEF Begin, NewUpload, Goto, PostRequests
<1>4. PICK q : /\ req' = [req EXCEPT ![r] = q]
               /\ \/ pc' = [pc EXCEPT ![r] = "lock"]
                  \/ pc' = [pc EXCEPT ![r] = "getinfo"] /\ q.op \in PostOps
  BY <1>3
<1>5. /\ \/ pc'[r] = "lock"
         \/ pc'[r] = "getinfo" /\ req'[r].op \in PostOps
      /\ \A s \in Req : s # r => pc'[s] = pc[s] /\ req'[s] = req[s]
  BY <1>4 DEF TypeInv, TypeOK
<1> QED BY <1>1, <1>2, <1>5
        DEF LockInv, OwnsLock, Relies, Exclusive, LockedStage, ReaderOpen, StopCallbackOwned

(* Acquire: nobody relied on a lock that was free.                           *)
LEMMA AcquireLock ==
    ASSUME TypeInv, LockInv, NEW r \in Req, Acquire(r)
    PROVE  LockInv'
<1>1. /\ pc[r] = "lock" /\ req[r].id \in Upload /\ holder[req[r].id] = NoReq
      /\ holder' = [holder EXCEPT ![req[r].id] = r]
      /\ pc' = [pc EXCEPT ![r] = "chunk"] \/ pc' = [pc EXCEPT ![r] = "getinfo"]
      /\ UNCHANGED <<stopCb, req, reader>>
  BY DEF Acquire, LockFree, Goto, registry, TypeInv, Serving, Request
<1>2. /\ pc'[r] \in {"chunk", "getinfo"} /\ holder'[req[r].id] = r
      /\ \A s \in Req : s # r => pc'[s] = pc[s]
      /\ \A u \in Upload : u # req[r].id => holder'[u] = holder[u]
  BY <1>1 DEF TypeInv, TypeOK
<1>3. ASSUME NEW s \in Req, s # r, Relies(s)
      PROVE  req[s].id \in Upload /\ req[s].id # req[r].id
  BY <1>1, <1>3, ConstantsAssumption
     DEF Relies, Exclusive, LockedStage, LockInv, OwnsLock, ReaderOpen, TypeInv, Serving, Request
<1>4. OwnsLock'
  BY <1>1, <1>2, <1>3 DEF LockInv, OwnsLock, Relies, Exclusive, LockedStage
<1>5. ReaderOpen' /\ StopCallbackOwned'
  BY <1>1, <1>2 DEF LockInv, ReaderOpen, StopCallbackOwned
<1> QED BY <1>4, <1>5 DEF LockInv

(* BeginChunk: whoever was registered for the upload relied on its lock,     *)
(* which r holds, so the closure that is overwritten is nobody's.            *)
LEMMA BeginChunkLock ==
    ASSUME TypeInv, LockInv, NEW r \in Req, BeginChunk(r)
    PROVE  LockInv'
<1>1. /\ pc[r] = "chunk" /\ req[r].id \in Upload
      /\ pc' = [pc EXCEPT ![r] = "write"]
      /\ reader' = [reader EXCEPT ![r] = [NoReader EXCEPT !.open = TRUE]]
      /\ stopCb' = [stopCb EXCEPT ![req[r].id] = r]
      /\ UNCHANGED <<holder, req>>
  BY DEF BeginChunk, Goto, TypeInv, Serving, Request
<1>2. /\ pc'[r] = "write" /\ reader'[r].open
      /\ \A s \in Req : s # r => pc'[s] = pc[s] /\ reader'[s] = reader[s]
      /\ stopCb'[req[r].id] = r
      /\ \A u \in Upload : u # req[r].id => stopCb'[u] = stopCb[u]
  BY <1>1, FreshRecords DEF TypeInv, TypeOK
<1>3. holder[req[r].id] = r
  BY <1>1, ReliesFacts DEF LockedStage
<1>4. \A s \in Req : s # r /\ reader[s].open => req[s].id # req[r].id
  BY <1>3, ReliesFacts
<1>5. OwnsLock' /\ ReaderOpen'
  BY <1>1, <1>2, <1>3 DEF LockInv, OwnsLock, Relies, Exclusive, LockedStage, ReaderOpen
<1>6. StopCallbackOwned'
  <2> SUFFICES ASSUME NEW u \in Upload, NEW s \in Req
               PROVE  stopCb'[u] = s <=> reader'[s].open /\ req'[s].id = u
    BY DEF StopCallbackOwned
  <2>1. stopCb[u] = s <=> reader[s].open /\ req[s].id = u
    BY DEF LockInv, StopCallbackOwned
  <2>2. ~reader[r].open
    BY <1>1 DEF LockInv, ReaderOpen
  <2>3. CASE s = r
    BY <1>1, <1>2, <2>1, <2>2, <2>3
  <2>4. CASE s # r
    BY <1>1, <1>2, <1>4, <2>1, <2>4
  <2> QED BY <2>3, <2>4
<1> QED BY <1>5, <1>6 DEF LockInv

(* EndChunk: the closure it removes from the registry is its own.            *)
LEMMA EndChunkLock ==
    ASSUME TypeInv, LockInv, NEW r \in Req, EndChunk(r)
    PROVE  LockInv'
<1>1. /\ pc[r] = "unregister" /\ req[r].id \in Upload
      /\ stopCb' = [stopCb EXCEPT ![req[r].id] = NoReq]
      /\ reader' = [reader EXCEPT ![r] = NoReader]
      /\ pc' = [pc EXCEPT ![r] = "declare"] \/ pc' = [pc EXCEPT ![r] = "respond"]
      /\ UNCHANGED <<holder, req>>
  BY DEF EndChunk, UnregisterStopCallback, Goto, TypeInv, Serving, Request
<1>2. /\ pc'[r] \in {"declare", "respond"} /\ ~reader'[r].open
      /\ \A s \in Req : s # r => pc'[s] = pc[s] /\ reader'[s] = reader[s]
      /\ stopCb'[req[r].id] = NoReq
      /\ \A u \in Upload : u # req[r].id => stopCb'[u] = stopCb[u]
  BY <1>1 DEF NoReader, TypeInv, TypeOK
<1>3. holder[req[r].id] = r
  BY <1>1, ReliesFacts DEF LockedStage
<1>4. \A s \in Req : s # r /\ reader[s].open => req[s].id # req[r].id
  BY <1>3, ReliesFacts
<1>5. OwnsLock' /\ ReaderOpen'
  BY <1>1, <1>2, <1>3 DEF LockInv, OwnsLock, Relies, Exclusive, LockedStage, ReaderOpen
<1>6. StopCallbackOwned'
  <2> SUFFICES ASSUME NEW u \in Upload, NEW s \in Req
               PROVE  stopCb'[u] = s <=> reader'[s].open /\ req'[s].id = u
    BY DEF StopCallbackOwned
  <2>1. stopCb[u] = s <=> reader[s].open /\ req[s].id = u
    BY DEF LockInv, StopCallbackOwned
  <2>2. stopCb[u] = r <=> reader[r].open /\ req[r].id = u
    BY DEF LockInv, StopCallbackOwned
  <2>3. reader[r].open /\ NoReq # s
    BY <1>1, ConstantsAssumption DEF LockInv, ReaderOpen
  <2>4. CASE s = r
    BY <1>1, <1>2, <2>2, <2>3, <2>4
  <2>5. CASE s # r
    BY <1>1, <1>2, <1>4, <2>1, <2>3, <2>5
  <2> QED BY <2>4, <2>5
<1> QED BY <1>5, <1>6 DEF LockInv

(* Respond gives up the lock only if the request has it.                     *)
LEMMA RespondLock ==
    ASSUME TypeInv, LockInv, NEW r \in Req, Respond(r)
    PROVE  LockInv'
<1>1. /\ pc[r] = "respond" /\ ~reader[r].open
      /\ pc' = [pc EXCEPT ![r] = "idle"] /\ req' = [req EXCEPT ![r] = NoRequest]
      /\ holder' = [holder EXCEPT ![req[r].id] = IF @ = r THEN NoReq ELSE @]
      /\ UNCHANGED <<stopCb, reader>>
  BY DEF Respond, Goto, registry, LockInv, ReaderOpen
<1>2. /\ pc'[r] = "idle"
      /\ \A s \in Req : s # r => pc'[s] = pc[s] /\ req'[s] = req[s]
      /\ \A u \in Upload : holder'[u] = holder[u] \/ holder[u] = r
  BY <1>1 DEF TypeInv, TypeOK
<1>3. \A s \in Req : Relies(s) => req[s].id \in Upload
  BY DEF Relies, Exclusive, LockedStage, LockInv, ReaderOpen, TypeInv, Serving, Request
<1>4. OwnsLock'
  BY <1>1, <1>2, <1>3 DEF LockInv, OwnsLock, Relies, Exclusive, LockedStage
<1>5. ReaderOpen' /\ StopCallbackOwned'
  BY <1>1, <1>2 DEF LockInv, ReaderOpen, StopCallbackOwned
<1> QED BY <1>4, <1>5 DEF LockInv

(* Crash forgets the locks, the readers and the registry together.           *)
LEMMA CrashLock ==
    ASSUME Crash
    PROVE  LockInv'
<1>1. /\ pc' = [r \in Req |-> "idle"] /\ reader' = [r \in Req |-> NoReader]
      /\ stopCb' = [u \in Upload |-> NoReq]
  BY DEF Crash
<1> QED BY <1>1, ConstantsAssumption
        DEF LockInv, OwnsLock, Relies, Exclusive, LockedStage, ReaderOpen, StopCallbackOwned, NoReader

(* The steps of PatchFile, DelFile, GetFile, writeChunk and the callbacks    *)
(* that keep the lock: each goes from a stage that relies on it to another,  *)
(* or to the answer.                                                         *)
LEMMA LookupLock ==
    ASSUME TypeInv, LockInv, NEW r \in Req, GetInfo(r) \/ LockTimeout(r)
    PROVE  LockInv'
<1>1. /\ pc[r] \in {"getinfo", "lock"} /\ ~reader[r].open
      /\ req[r] \in Request /\ req[r].op \in AllOps
      /\ UNCHANGED <<holder, req, stopCb, reader>>
  BY ConstantsAssumption DEF GetInfo, LockTimeout, registry, LockInv, ReaderOpen, TypeInv, Serving, Request
<1>2. CASE Fail(r)
  BY <1>1, <1>2, MoveLock DEF Fail, Goto
<1>3. CASE pc[r] = "getinfo" /\ Goto(r, AfterGetInfo(req[r], store[req[r].id]))
  <2>1. CASE req[r].op \in PostOps
    <3>1. AfterGetInfo(req[r], store[req[r].id]) \in {"created", "lock", "finish", "respond"}
      BY <1>1, <2>1, NextStages DEF AfterGetInfo, PostOps
    <3> QED BY <1>1, <1>3, <3>1, MoveLock DEF Goto
  <2>2. CASE req[r].op \notin PostOps
    <3>1. AfterGetInfo(req[r], store[req[r].id]) \in {"respond", "check", "copy", "terminate"}
      BY <1>1, <2>2 DEF AfterGetInfo, AllOps, PostOps
    <3>2. Relies(r)
      BY <1>3, <2>2 DEF Relies
    <3> QED BY <1>1, <1>3, <3>1, <3>2, MoveLock DEF Goto
  <2> QED BY <2>1, <2>2
<1> QED BY <1>2, <1>3 DEF GetInfo, LockTimeout

(* The steps between GetInfo and the answer that stay under the lock, or     *)
(* leave it for the answer.                                                  *)
LEMMA KeepLock ==
    ASSUME TypeInv, LockInv, NEW r \in Req,
           \/ RejectPatch(r) \/ PatchOfComplete(r) \/ AcceptPatch(r) \/ DeclareLength(r)
           \/ RejectChunk(r) \/ EndWrite(r) \/ TerminateStopped(r)
           \/ DeclareReceived(r) \/ Copy(r) \/ Terminate(r)
    PROVE  LockInv'
<1>0. pc[r] \in LockedStage
  BY DEF LockedStage, RejectPatch, PatchOfComplete, AcceptPatch, DeclareLength,
         RejectChunk, EndWrite, TerminateStopped, DeclareReceived, Copy, Terminate
<1>1. Relies(r) /\ UNCHANGED <<holder, req, stopCb, reader>>
  BY <1>0, ReliesFacts DEF registry, RejectPatch, PatchOfComplete, AcceptPatch, DeclareLength,
         RejectChunk, EndWrite, TerminateStopped, DeclareReceived, Copy, Terminate
<1>2. CASE EndWrite(r) \/ TerminateStopped(r)
  <2>1. reader[r].open
    BY <1>2 DEF EndWrite, TerminateStopped, LockInv, ReaderOpen
  <2>2. pc' = [pc EXCEPT ![r] = "stopped"] \/ pc' = [pc EXCEPT ![r] = "finish"]
    BY <1>2 DEF EndWrite, TerminateStopped, Goto
  <2> QED BY <1>1, <2>1, <2>2, MoveLock
<1>3. CASE ~(EndWrite(r) \/ TerminateStopped(r))
  <2>1. ~reader[r].open
    BY <1>3 DEF RejectPatch, PatchOfComplete, AcceptPatch, DeclareLength, RejectChunk,
                DeclareReceived, Copy, Terminate, LockInv, ReaderOpen
  <2>2. PICK stage \in {"respond", "chunk", "finish", "terminated"} :
           pc' = [pc EXCEPT ![r] = stage]
    BY <1>3 DEF RejectPatch, PatchOfComplete, AcceptPatch, DeclareLength, RejectChunk,
                DeclareReceived, Copy, Terminate, Fail, Goto
  <2> QED BY <1>1, <2>1, <2>2, MoveLock
<1> QED BY <1>2, <1>3

(* FinishUpload and the notifications: an open reader goes with the lock.    *)
LEMMA FinishLock ==
    ASSUME TypeInv, LockInv, NEW r \in Req, FinishUpload(r) \/ NotifyStep(r)
    PROVE  LockInv'
<1>1. /\ UNCHANGED <<holder, req, stopCb, reader>>
      /\ pc[r] \in {"finish", "created", "completed", "terminated"}
  BY DEF FinishUpload, NotifyStep, NotifyCreated, NotifyComplete, NotifyTerminated, registry
<1>2. CASE FinishUpload(r) \/ NotifyComplete(r)
  <2>1. pc' = [pc EXCEPT ![r] = AfterFinish(r)] \/ pc' = [pc EXCEPT ![r] = "completed"]
    BY <1>2 DEF FinishUpload, NotifyComplete, Goto
  <2>2. reader[r].open => Relies(r)
    BY ReliesFacts
  <2>3. AfterFinish(r) = IF reader[r].open THEN "unregister" ELSE "respond"
    BY DEF AfterFinish
  <2> QED BY <1>1, <2>1, <2>2, <2>3, MoveLock
<1>3. CASE NotifyCreated(r)
  <2>1. ~reader[r].open /\ req[r] \in Request
    BY <1>3 DEF NotifyCreated, LockInv, ReaderOpen, TypeInv, Serving
  <2>2. PICK stage \in {"lock", "finish", "respond"} : pc' = [pc EXCEPT ![r] = stage]
    BY <1>3, <2>1, NextStages DEF NotifyCreated, Goto
  <2> QED BY <1>1, <2>1, <2>2, MoveLock
<1>4. CASE NotifyTerminated(r)
  <2>1. ~reader[r].open
    BY <1>4 DEF NotifyTerminated, LockInv, ReaderOpen
  <2> QED BY <1>1, <1>4, <2>1, MoveLock DEF NotifyTerminated, Goto
<1> QED BY <1>2, <1>3, <1>4 DEF NotifyStep

(* Reading the body and stopping it leave locks, stages and the registry.    *)
LEMMA ReadLock ==
    ASSUME TypeInv, LockInv, (\E r \in Req : ClientStep(r)) \/ LoadStop \/ FireStop
    PROVE  LockInv'
<1>1. UNCHANGED <<holder, req, stopCb, pc>>
  BY DEF ClientStep, ReadByte, BodyEnds, BodyFails, LoadStop, FireStop, registry
<1>2. \A s \in Req : reader'[s].open = reader[s].open
  BY ReadersKept
<1> QED BY <1>1, <1>2, StutterLock

(* Every step keeps LockInv.                                                 *)
LEMMA StepLock == TypeInv /\ LockInv /\ [Next]_vars => LockInv'
<1> SUFFICES ASSUME TypeInv, LockInv, [Next]_vars PROVE LockInv'
  OBVIOUS
<1>1. ASSUME NEW r \in Req, Begin(r) \/ NewUpload(r) \/ NotifyStep(r)
      PROVE  LockInv'
  BY <1>1, BeginLock, FinishLock
<1>2. ASSUME NEW r \in Req, ServerStep(r)
      PROVE  LockInv'
  BY <1>2, LookupLock, AcquireLock, BeginChunkLock, EndChunkLock, RespondLock, KeepLock,
     FinishLock DEF ServerStep
<1>3. CASE (\E r \in Req : ClientStep(r)) \/ LoadStop \/ FireStop
  BY <1>3, ReadLock
<1>4. CASE Crash
  BY <1>4, CrashLock
<1>5. CASE UNCHANGED vars
  BY <1>5, StutterLock DEF vars
<1> QED BY <1>1, <1>2, <1>3, <1>4, <1>5 DEF Next

(* LockInv holds throughout: whoever relies on a lock has it.                *)
THEOREM LockInvariant == Spec => []LockInv
<1>1. Init => TypeInv /\ LockInv
  BY InitType, InitLock
<1>2. TypeInv /\ LockInv /\ [Next]_vars => TypeInv' /\ LockInv'
  BY StepType, StepLock
<1> QED BY <1>1, <1>2, PTL DEF Spec

(* Two requests never inspect, write, finish or terminate the same upload at *)
(* the same time: both would hold its lock.                                  *)
THEOREM ExclusiveAccessHolds == Spec => []ExclusiveAccess
<1>1. ASSUME LockInv PROVE ExclusiveAccess
  <2>1. \A r \in Req : Exclusive(r) => holder[req[r].id] = r
    BY <1>1 DEF LockInv, OwnsLock, Relies
  <2> QED BY <2>1 DEF ExclusiveAccess
<1> QED BY <1>1, LockInvariant, PTL

(* The registry of stop callbacks names exactly the request that is writing  *)
(* the upload, although entries are stored and deleted by id alone.          *)
THEOREM StopCallbackOwnedHolds == Spec => []StopCallbackOwned
<1>1. LockInv => StopCallbackOwned
  BY DEF LockInv
<1> QED BY <1>1, LockInvariant, PTL
=============================================================================
