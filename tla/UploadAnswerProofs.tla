------------------------- MODULE UploadAnswerProofs -------------------------
(***************************************************************************)
(* Proofs about what answers of UploadHandler tell a client: that the      *)
(* upload exists, that its size is within the limit, that an upload which  *)
(* is full has been finished.                                              *)
(***************************************************************************)
EXTENDS UploadFinishProofs

-----------------------------------------------------------------------------
(* Part 1, a success is answered for an upload that exists. *)

(* A handler past its work on the upload that will answer a success, if      *)
(* nothing more goes wrong.                                                  *)
Unscathed(r) ==
    /\ pc[r] \in {"finish", "completed", "unregister", "declare", "respond"}
    /\ ~failed[r] /\ req[r].op # "DELETE"

Answers(r) ==
    /\ Unscathed(r) => status[req[r].id] = "live"
    /\ pc[r] = "respond" /\ ~failed[r] /\ req[r].op \notin PostOps => holder[req[r].id] = r
    /\ pc[r] = "stopped" => failed[r]
    /\ pc[r] \in {"terminate", "terminated"} => req[r].op = "DELETE"

AnswerInv == \A r \in Req : Answers(r)

LEMMA InitAnswer == Init => AnswerInv
  BY DEF Init, AnswerInv, Answers, Unscathed

(* Requests a step leaves alone: it may neither terminate their upload nor   *)
(* take their lock away.                                                     *)
LEMMA KeepAnswer ==
    ASSUME NEW s \in Req, Answers(s), pc'[s] = pc[s], req'[s] = req[s],
           failed'[s] = failed[s],
           Unscathed(s) /\ status[req[s].id] = "live" => status'[req[s].id] = "live",
           holder[req[s].id] = s => holder'[req[s].id] = s
    PROVE  Answers(s)'
  BY DEF Answers, Unscathed

(* A step of r that terminates nothing and leaves the locks alone.           *)
LEMMA MoveAnswer ==
    ASSUME AnswerInv, NEW r \in Req, UNCHANGED <<status, holder>>,
           \A s \in Req : s # r => pc'[s] = pc[s] /\ req'[s] = req[s] /\ failed'[s] = failed[s],
           Answers(r)'
    PROVE  AnswerInv'
<1>1. ASSUME NEW s \in Req PROVE Answers(s)'
  <2>1. CASE s # r
    BY <2>1, KeepAnswer DEF AnswerInv
  <2> QED BY <2>1
<1> QED BY <1>1 DEF AnswerInv

(* While r has the lock and will terminate its upload, nobody else is about  *)
(* to answer a success for it.                                               *)
LEMMA NobodyElseUnscathed ==
    ASSUME LockInv, DataInv, FinishInv, AnswerInv, NEW r \in Req, NEW s \in Req, r # s,
           pc[r] \in {"stopped", "terminate"}, Unscathed(s)
    PROVE  req[s].id # req[r].id
<1> SUFFICES ASSUME req[s].id = req[r].id PROVE FALSE
  OBVIOUS
<1>1. pc[r] # "idle" /\ pc[s] # "idle"
  BY DEF Unscathed
<1>2. req[s].op \notin PostOps
  BY <1>1 DEF DataInv, Alone, Serves
<1>3. holder[req[r].id] = r
  BY ReliesFacts DEF LockedStage
<1>4. CASE pc[s] = "respond"
  BY <1>2, <1>3, <1>4 DEF AnswerInv, Answers, Unscathed
<1>5. CASE pc[s] # "respond"
  <2>1. pc[s] \in LockedStage \/ reader[s].open
    BY <1>2, <1>5 DEF Unscathed, FinishInv, Ready, LockedStage
  <2> QED BY <1>3, <2>1, ReliesFacts
<1> QED BY <1>4, <1>5

(* A new request: no upload that others answer for is free.                  *)
LEMMA BeginAnswer ==
    ASSUME TypeInv, DataInv, AnswerInv, NEW r \in Req, Begin(r) \/ NewUpload(r)
    PROVE  AnswerInv'
<1>1. /\ pc'[r] \in {"lock", "getinfo"} /\ UNCHANGED <<holder, failed>>
      /\ \A s \in Req : s # r => pc'[s] = pc[s] /\ req'[s] = req[s]
  BY DEF Begin, NewUpload, Goto, TypeInv, TypeOK
<1>2. \A u \in Upload : status[u] = "live" => status'[u] = "live"
  BY DEF Begin, NewUpload, storage, TypeInv, TypeOK
<1>3. Answers(r)'
  BY <1>1 DEF Answers, Unscathed
<1>4. ASSUME NEW s \in Req, s # r PROVE Answers(s)'
  <2>1. Unscathed(s) => req[s].id \in Upload
    BY DEF Unscathed, TypeInv, Serving, Request
  <2> QED BY <1>1, <1>2, <1>4, <2>1, KeepAnswer DEF AnswerInv
<1> QED BY <1>3, <1>4 DEF AnswerInv

(* The steps to the answer.                                                  *)
LEMMA LookupAnswer ==
    ASSUME TypeInv, LockInv, AnswerInv, NEW r \in Req, GetInfo(r) \/ LockTimeout(r)
    PROVE  AnswerInv'
<1>1. /\ UNCHANGED <<status, holder, req>> /\ req[r] \in Request /\ req[r].op \in AllOps
      /\ \A s \in Req : s # r => pc'[s] = pc[s] /\ failed'[s] = failed[s]
  <2>1. req[r] \in Request
    BY DEF GetInfo, LockTimeout, TypeInv, Serving
  <2> QED BY <2>1, ConstantsAssumption
          DEF GetInfo, LockTimeout, Fail, Goto, storage, TypeInv, TypeOK, Request
<1>2. CASE Fail(r)
  <2>1. pc'[r] = "respond" /\ failed'[r]
    BY <1>2 DEF Fail, Goto, TypeInv, TypeOK
  <2>2. Answers(r)'
    BY <2>1 DEF Answers, Unscathed
  <2> QED BY <1>1, <2>2, MoveAnswer
<1>3. CASE GetInfo(r) /\ ~Fail(r)
  <2>1. /\ status[req[r].id] = "live" /\ pc[r] = "getinfo"
        /\ pc' = [pc EXCEPT ![r] = AfterGetInfo(req[r], store[req[r].id])]
    BY <1>3 DEF GetInfo, Goto
  <2>2. pc'[r] = AfterGetInfo(req[r], store[req[r].id])
    BY <2>1 DEF TypeInv, TypeOK
  <2>3. req[r].op \notin PostOps => holder[req[r].id] = r
    BY <2>1, ReliesFacts DEF Relies
  <2>4. /\ pc'[r] # "stopped"
        /\ pc'[r] \in {"terminate", "terminated"} => req[r].op = "DELETE"
    <3>1. AfterCreated(req[r]) \in {"lock", "finish", "respond"}
      BY <1>1, NextStages
    <3> QED BY <1>1, <2>2, <3>1 DEF AfterGetInfo, AllOps, PostOps
  <2>5. Answers(r)'
    BY <1>1, <2>1, <2>3, <2>4 DEF Answers
  <2> QED BY <1>1, <2>5, MoveAnswer
<1> QED BY <1>2, <1>3 DEF LockTimeout

LEMMA AcquireAnswer ==
    ASSUME TypeInv, AnswerInv, NEW r \in Req, Acquire(r)
    PROVE  AnswerInv'
<1>1. /\ holder[req[r].id] = NoReq /\ holder' = [holder EXCEPT ![req[r].id] = r]
      /\ UNCHANGED <<status, req, failed>> /\ pc'[r] \in {"chunk", "getinfo"}
      /\ \A s \in Req : s # r => pc'[s] = pc[s]
  BY DEF Acquire, LockFree, Goto, storage, TypeInv, TypeOK
<1>2. Answers(r)'
  BY <1>1 DEF Answers, Unscathed
<1>3. ASSUME NEW s \in Req, s # r PROVE Answers(s)'
  <2>1. holder[req[s].id] = s => holder'[req[s].id] = s
    BY <1>1, ConstantsAssumption DEF TypeInv, TypeOK
  <2> QED BY <1>1, <1>3, <2>1, KeepAnswer DEF AnswerInv
<1> QED BY <1>2, <1>3 DEF AnswerInv

(* A refusal, or a stage in which the upload is still worked on.             *)
LEMMA PatchAnswer ==
    ASSUME TypeInv, LockInv, DataInv, AnswerInv, NEW r \in Req,
           \/ RejectPatch(r) \/ PatchOfComplete(r) \/ AcceptPatch(r) \/ DeclareLength(r)
           \/ RejectChunk(r) \/ BeginChunk(r) \/ Copy(r)
    PROVE  AnswerInv'
<1>1. /\ UNCHANGED <<status, holder, req>> /\ pc[r] \in {"check", "chunk", "copy"}
      /\ \A s \in Req : s # r => pc'[s] = pc[s] /\ failed'[s] = failed[s]
  BY DEF RejectPatch, PatchOfComplete, AcceptPatch, DeclareLength, RejectChunk, BeginChunk,
         Copy, Fail, Goto, storage, TypeInv, TypeOK
<1>2. status[req[r].id] = "live" /\ holder[req[r].id] = r
  <2>1. status[req[r].id] = "live"
    BY <1>1 DEF DataInv, Snapshot, Holds
  <2> QED BY <1>1, <2>1, ReliesFacts DEF LockedStage
<1>3. pc'[r] \in {"chunk", "write", "respond"}
  BY DEF RejectPatch, PatchOfComplete, AcceptPatch, DeclareLength, RejectChunk, BeginChunk,
         Copy, Fail, Goto, TypeInv, TypeOK
<1>4. Answers(r)'
  BY <1>1, <1>2, <1>3 DEF Answers
<1> QED BY <1>1, <1>4, MoveAnswer

(* A stop, and a write to an upload that is gone, make the answer an error.  *)
LEMMA EndWriteAnswer ==
    ASSUME TypeInv, DataInv, AnswerInv, NEW r \in Req, EndWrite(r)
    PROVE  AnswerInv'
<1>1. /\ UNCHANGED <<status, holder, req>> /\ pc[r] = "write"
      /\ \A s \in Req : s # r => pc'[s] = pc[s] /\ failed'[s] = failed[s]
  BY DEF EndWrite, Goto, TypeInv, TypeOK
<1>2. status[req[r].id] = "live"
  BY <1>1 DEF DataInv, Snapshot, Holds
<1>3. pc'[r] \in {"stopped", "finish"}
  BY DEF EndWrite, Goto, TypeInv, TypeOK
<1>4. ASSUME pc'[r] = "stopped" PROVE failed'[r]
  <2>1. BodyError(r) = "stopped"
    BY <1>4 DEF EndWrite, Goto, TypeInv, TypeOK
  <2>2. \A writeErr : ChunkFails(r, writeErr)
    BY <2>1 DEF ChunkFails
  <2>3. \E writeErr : failed' = [failed EXCEPT ![r] = ChunkFails(r, writeErr)]
    BY DEF EndWrite
  <2> QED BY <2>2, <2>3 DEF TypeInv, TypeOK
<1>5. Answers(r)'
  BY <1>1, <1>2, <1>3, <1>4 DEF Answers
<1> QED BY <1>1, <1>5, MoveAnswer

(* From the last byte to the answer.                                         *)
LEMMA FinishAnswer ==
    ASSUME TypeInv, LockInv, FinishInv, AnswerInv, NEW r \in Req,
           FinishUpload(r) \/ EndChunk(r) \/ NotifyComplete(r)
    PROVE  AnswerInv'
<1>1. /\ UNCHANGED <<status, holder, req>> /\ pc[r] \in {"finish", "unregister", "completed"}
      /\ \A s \in Req : s # r => pc'[s] = pc[s] /\ failed'[s] = failed[s]
      /\ pc'[r] \in {"completed", "unregister", "declare", "respond"}
  BY DEF FinishUpload, AfterFinish, EndChunk, NotifyComplete, Goto, storage, TypeInv, TypeOK
<1>2. failed'[r] = failed[r] \/ failed'[r] = TRUE
  BY DEF FinishUpload, EndChunk, NotifyComplete, TypeInv, TypeOK
<1>3. pc'[r] = "respond" /\ req[r].op \notin PostOps => holder[req[r].id] = r
  <2> SUFFICES ASSUME pc'[r] = "respond", req[r].op \notin PostOps
               PROVE  holder[req[r].id] = r
    OBVIOUS
  <2>1. CASE EndChunk(r)
    BY <2>1, ReliesFacts DEF EndChunk, LockedStage
  <2>2. CASE FinishUpload(r) \/ NotifyComplete(r)
    <3>1. pc[r] \in {"finish", "completed"}
      BY <2>2 DEF FinishUpload, NotifyComplete
    <3>2. reader[r].open
      BY <3>1 DEF FinishInv, Ready
    <3> QED BY <3>2, ReliesFacts
  <2> QED BY <2>1, <2>2
<1>4. Answers(r)'
  BY <1>1, <1>2, <1>3 DEF Answers, Unscathed, AnswerInv
<1> QED BY <1>1, <1>4, MoveAnswer

LEMMA DeclareReceivedAnswer ==
    ASSUME TypeInv, FinishInv, AnswerInv, NEW r \in Req, DeclareReceived(r)
    PROVE  AnswerInv'
<1>1. /\ UNCHANGED <<status, holder, req>> /\ pc[r] = "declare"
      /\ \A s \in Req : s # r => pc'[s] = pc[s] /\ failed'[s] = failed[s]
  BY DEF DeclareReceived, Fail, Goto, TypeInv, TypeOK
<1>2. req[r].op \in PostOps
  BY <1>1 DEF FinishInv, Ready
<1>3. \/ pc'[r] = "finish" /\ status[req[r].id] = "live"
      \/ pc'[r] = "respond" /\ failed'[r]
  BY DEF DeclareReceived, Fail, Goto, TypeInv, TypeOK
<1>4. Answers(r)'
  BY <1>1, <1>2, <1>3 DEF Answers, Unscathed
<1> QED BY <1>1, <1>4, MoveAnswer

LEMMA NotifyAnswer ==
    ASSUME TypeInv, LockInv, DataInv, FinishInv, AnswerInv, NEW r \in Req,
           NotifyCreated(r) \/ NotifyTerminated(r)
    PROVE  AnswerInv'
<1>1. /\ UNCHANGED <<status, holder, req, failed>>
      /\ \A s \in Req : s # r => pc'[s] = pc[s]
  BY DEF NotifyCreated, NotifyTerminated, Goto, storage, TypeInv, TypeOK
<1>2. CASE NotifyCreated(r)
  <2>1. /\ pc[r] = "created" /\ pc'[r] = AfterCreated(req[r]) /\ req[r] \in Request
    BY <1>2 DEF NotifyCreated, Goto, TypeInv, TypeOK, Serving
  <2>2. req[r].op \in PostOps
    BY <2>1 DEF FinishInv, Ready
  <2>3. status[req[r].id] = "live"
    BY <2>1, <2>2 DEF DataInv, Snapshot, Holds
  <2>4. pc'[r] \in {"lock", "finish", "respond"}
    BY <2>1, NextStages
  <2>5. Answers(r)'
    BY <1>1, <2>2, <2>3, <2>4 DEF Answers
  <2> QED BY <1>1, <2>5, MoveAnswer
<1>3. CASE NotifyTerminated(r)
  <2>1. /\ pc[r] = "terminated" /\ pc'[r] = "respond"
    BY <1>3 DEF NotifyTerminated, Goto, TypeInv, TypeOK
  <2>2. req[r].op = "DELETE" /\ holder[req[r].id] = r
    BY <2>1, ReliesFacts DEF AnswerInv, Answers, LockedStage
  <2>3. Answers(r)'
    BY <1>1, <2>1, <2>2 DEF Answers, Unscathed
  <2> QED BY <1>1, <2>3, MoveAnswer
<1> QED BY <1>2, <1>3

(* DELETE and a stop: the only steps after which an upload is gone.          *)
LEMMA TerminateAnswer ==
    ASSUME TypeInv, LockInv, DataInv, FinishInv, AnswerInv, NEW r \in Req,
           Terminate(r) \/ TerminateStopped(r)
    PROVE  AnswerInv'
<1>1. /\ UNCHANGED <<holder, req>> /\ pc[r] \in {"terminate", "stopped"}
      /\ \A s \in Req : s # r => pc'[s] = pc[s] /\ failed'[s] = failed[s]
      /\ \A u : u # req[r].id /\ u \in Upload => status'[u] = status[u]
  BY DEF Terminate, TerminateStopped, Fail, Goto, storage, TypeInv, TypeOK
<1>2. holder[req[r].id] = r
  BY <1>1, ReliesFacts DEF LockedStage
<1>3. Answers(r)'
  <2>1. CASE Terminate(r)
    <3>1. req[r].op = "DELETE" /\ pc'[r] \in {"terminated", "respond"}
      BY <2>1 DEF Terminate, Fail, Goto, AnswerInv, Answers, TypeInv, TypeOK
    <3> QED BY <1>1, <1>2, <3>1 DEF Answers, Unscathed
  <2>2. CASE TerminateStopped(r)
    <3>1. pc'[r] = "finish" /\ failed'[r] = failed[r] /\ failed[r]
      BY <2>2 DEF TerminateStopped, Goto, AnswerInv, Answers, TypeInv, TypeOK
    <3> QED BY <3>1 DEF Answers, Unscathed
  <2> QED BY <2>1, <2>2
<1>4. ASSUME NEW s \in Req, s # r PROVE Answers(s)'
  <2>1. ASSUME Unscathed(s) PROVE status'[req[s].id] = status[req[s].id]
    <3>1. req[s].id \in Upload
      BY <2>1 DEF Unscathed, TypeInv, Serving, Request
    <3>2. req[s].id # req[r].id
      BY <1>1, <1>4, <2>1, NobodyElseUnscathed
    <3> QED BY <1>1, <3>1, <3>2
  <2> QED BY <1>1, <1>4, <2>1, KeepAnswer DEF AnswerInv
<1> QED BY <1>3, <1>4 DEF AnswerInv

LEMMA RespondAnswer ==
    ASSUME TypeInv, AnswerInv, NEW r \in Req, Respond(r)
    PROVE  AnswerInv'
<1>1. /\ UNCHANGED status /\ pc'[r] = "idle"
      /\ \A s \in Req : s # r => pc'[s] = pc[s] /\ req'[s] = req[s] /\ failed'[s] = failed[s]
      /\ \A s \in Req, u \in Upload : s # r /\ holder[u] = s => holder'[u] = s
  BY DEF Respond, Goto, storage, TypeInv, TypeOK
<1>2. Answers(r)'
  BY <1>1 DEF Answers, Unscathed
<1>3. ASSUME NEW s \in Req, s # r PROVE Answers(s)'
  <2>1. CASE pc[s] = "idle"
    BY <1>1, <1>3, <2>1 DEF Answers, Unscathed
  <2>2. CASE pc[s] # "idle"
    <3>1. req[s].id \in Upload
      BY <2>2 DEF TypeInv, Serving, Request
    <3> QED BY <1>1, <1>3, <3>1, KeepAnswer DEF AnswerInv
  <2> QED BY <2>1, <2>2
<1> QED BY <1>2, <1>3 DEF AnswerInv

LEMMA StepAnswer ==
    TypeInv /\ LockInv /\ DataInv /\ FinishInv /\ AnswerInv /\ [Next]_vars => AnswerInv'
<1> SUFFICES ASSUME TypeInv, LockInv, DataInv, FinishInv, AnswerInv, [Next]_vars
             PROVE  AnswerInv'
  OBVIOUS
<1>1. ASSUME NEW r \in Req, Begin(r) \/ NewUpload(r) \/ ServerStep(r) \/ NotifyStep(r)
      PROVE  AnswerInv'
  BY <1>1, BeginAnswer, LookupAnswer, AcquireAnswer, PatchAnswer, EndWriteAnswer,
     FinishAnswer, DeclareReceivedAnswer, NotifyAnswer, TerminateAnswer, RespondAnswer
     DEF ServerStep, NotifyStep
<1>2. CASE (\E r \in Req : ClientStep(r)) \/ LoadStop \/ FireStop \/ UNCHANGED vars
  <2>1. UNCHANGED <<status, holder, pc, req, failed>>
    BY <1>2 DEF ClientStep, ReadByte, BodyEnds, BodyFails, LoadStop, FireStop, vars, storage
  <2> QED BY <2>1 DEF AnswerInv, Answers, Unscathed
<1>3. CASE Crash
  BY <1>3 DEF Crash, AnswerInv, Answers, Unscathed
<1> QED BY <1>1, <1>2, <1>3 DEF Next

(* The invariant behind it: who answers a success has the lock of an upload  *)
(* that exists, or is the POST that created it.                              *)
THEOREM AnswerInvariant ==
    ASSUME "earlyIds" \notin Faults
    PROVE  Spec => []AnswerInv
<1>1. Spec => [](TypeInv /\ LockInv /\ DataInv /\ FinishInv)
  BY TypeInvariant, LockInvariant, DataInvariant, FinishInvariant, PTL
<1> QED BY <1>1, InitAnswer, StepAnswer, PTL DEF Spec

(* A success is answered only for an upload that still exists, whatever      *)
(* stops, concurrent DELETEs, failing store calls and restarts there are.    *)
THEOREM SuccessMeansLiveHolds ==
    ASSUME "earlyIds" \notin Faults
    PROVE  Spec => []SuccessMeansLive
<1>1. AnswerInv => SuccessMeansLive
  BY DEF AnswerInv, Answers, Unscathed, SuccessMeansLive
<1> QED BY <1>1, AnswerInvariant, PTL

-----------------------------------------------------------------------------
(* Part 2, the size limit where no length can be declared later. *)

(* An upload gets its length from the PostFile that creates it.              *)
SizeInv ==
    /\ \A r \in Req : pc[r] # "declare"
    /\ \A u \in Upload :
         status[u] = "live" =>
             ~store[u].deferred /\ (MaxSize > 0 => store[u].size <= MaxSize)

(* A step that leaves the lengths of uploads alone.                          *)
LEMMA KeepSize ==
    ASSUME SizeInv, \A r \in Req : pc'[r] # "declare",
           \A u \in Upload :
             status'[u] = "live" => /\ status[u] = "live"
                                    /\ store'[u].size = store[u].size
                                    /\ store'[u].deferred = store[u].deferred
    PROVE  SizeInv'
  BY DEF SizeInv

LEMMA NewUploadSize ==
    ASSUME "lengthDeferrer" \notin Features, "POST2" \notin Ops,
           TypeInv, SizeInv, NEW r \in Req, NewUpload(r)
    PROVE  SizeInv'
<1> DEFINE Created(u, q) ==
               /\ status' = [status EXCEPT ![u] = "live"]
               /\ store' = [store EXCEPT ![u] =
                    [size |-> IF NewUploadLength(q) = NoLength THEN 0 ELSE NewUploadLength(q),
                     deferred |-> NewUploadLength(q) = NoLength, offset |-> 0]]
<1>0. PICK u \in Upload : \E q \in PostRequests(u) : Created(u, q)
  BY DEF NewUpload
<1>1. PICK q \in PostRequests(u) : Created(u, q)
  BY <1>0
<1>2. q.op = "POST" /\ AcceptsNewUpload(q)
  BY DEF PostRequests, PostOps
<1>3. NewUploadLength(q) # NoLength /\ (MaxSize > 0 => NewUploadLength(q) <= MaxSize)
  BY <1>2 DEF AcceptsNewUpload, ValidNewUploadLength
<1>4. ~store'[u].deferred /\ (MaxSize > 0 => store'[u].size <= MaxSize)
  <2>1. store'[u] = [size |-> NewUploadLength(q), deferred |-> FALSE, offset |-> 0]
    BY <1>1, <1>3 DEF TypeInv, TypeOK
  <2> QED BY <1>3, <2>1
<1>5. /\ \A s \in Req : pc'[s] # "declare"
      /\ \A v \in Upload : v # u => status'[v] = status[v] /\ store'[v] = store[v]
  BY <1>1 DEF NewUpload, Goto, SizeInv, TypeInv, TypeOK
<1> QED BY <1>4, <1>5 DEF SizeInv

LEMMA StepSize ==
    ASSUME "lengthDeferrer" \notin Features, "POST2" \notin Ops, TypeInv, SizeInv, [Next]_vars
    PROVE  SizeInv'
<1>1. ASSUME NEW r \in Req,
             \/ Begin(r) \/ Acquire(r) \/ LockTimeout(r) \/ RejectPatch(r)
             \/ PatchOfComplete(r) \/ AcceptPatch(r) \/ RejectChunk(r) \/ BeginChunk(r)
             \/ Copy(r) \/ Respond(r) \/ ClientStep(r)
      PROVE  SizeInv'
  <2>1. UNCHANGED storage
    BY <1>1 DEF Begin, Acquire, LockTimeout, RejectPatch, PatchOfComplete, AcceptPatch,
                RejectChunk, BeginChunk, Copy, Respond, ClientStep, ReadByte, BodyEnds, BodyFails
  <2>2. \A s \in Req : pc'[s] # "declare"
    BY <1>1 DEF Begin, Acquire, LockTimeout, RejectPatch, PatchOfComplete, AcceptPatch,
                RejectChunk, BeginChunk, Copy, Respond, ClientStep, ReadByte, BodyEnds,
                BodyFails, Fail, Goto, SizeInv, TypeInv, TypeOK
  <2> QED BY <2>1, <2>2, KeepSize DEF storage
<1>2. ASSUME NEW r \in Req, GetInfo(r) \/ FinishUpload(r) \/ NotifyStep(r) PROVE SizeInv'
  <2>1. UNCHANGED storage /\ req[r] \in Request
    BY <1>2 DEF GetInfo, FinishUpload, NotifyStep, NotifyCreated, NotifyComplete,
                NotifyTerminated, TypeInv, Serving
  <2>2. AfterCreated(req[r]) # "declare" /\ AfterFinish(r) # "declare"
    BY <2>1, NextStages DEF AfterFinish
  <2>3. \A i : AfterGetInfo(req[r], i) # "declare"
    BY <2>1, <2>2, ConstantsAssumption DEF AfterGetInfo, Request, AllOps, PostOps
  <2>4. \E stage : pc' = [pc EXCEPT ![r] = stage] /\ stage # "declare"
    <3>1. CASE GetInfo(r)
      BY <2>3, <3>1 DEF GetInfo, Fail, Goto
    <3>2. CASE FinishUpload(r)
      BY <2>2, <3>2 DEF FinishUpload, Goto
    <3>3. CASE NotifyStep(r)
      BY <2>2, <3>3 DEF NotifyStep, NotifyCreated, NotifyComplete, NotifyTerminated, Goto
    <3> QED BY <1>2, <3>1, <3>2, <3>3
  <2>5. \A s \in Req : pc'[s] # "declare"
    BY <2>4 DEF SizeInv, TypeInv, TypeOK
  <2> QED BY <2>1, <2>5, KeepSize DEF storage
<1>3. ASSUME NEW r \in Req, EndChunk(r) PROVE SizeInv'
  <2>1. req[r].op # "POST2"
    BY <1>3 DEF EndChunk, TypeInv, Serving, Request
  <2>2. UNCHANGED storage /\ \A s \in Req : pc'[s] # "declare"
    BY <1>3, <2>1 DEF EndChunk, Goto, SizeInv, TypeInv, TypeOK
  <2> QED BY <2>2, KeepSize DEF storage
<1>4. ASSUME NEW r \in Req, EndWrite(r) PROVE SizeInv'
  <2>1. UNCHANGED status /\ \A s \in Req : pc'[s] # "declare"
    BY <1>4 DEF EndWrite, Goto, SizeInv, TypeInv, TypeOK
  <2>2. req[r].id \in Upload /\ store[req[r].id] \in FileInfo
    BY <1>4 DEF EndWrite, TypeInv, TypeOK, Serving, Request
  <2>3. \/ store' = store
        \/ \E n : store' = [store EXCEPT ![req[r].id] = [store[req[r].id] EXCEPT !.offset = n]]
    BY <1>4 DEF EndWrite
  <2>4. CASE store' = store
    BY <2>1, <2>4, KeepSize
  <2>5. ASSUME NEW n, store' = [store EXCEPT ![req[r].id] = [store[req[r].id] EXCEPT !.offset = n]]
        PROVE  SizeInv'
    <3>1. /\ store'[req[r].id] = [store[req[r].id] EXCEPT !.offset = n]
          /\ \A u \in Upload : u # req[r].id => store'[u] = store[u]
      BY <2>2, <2>5 DEF TypeInv, TypeOK
    <3>2. /\ store'[req[r].id].size = store[req[r].id].size
          /\ store'[req[r].id].deferred = store[req[r].id].deferred
      BY <2>2, <3>1 DEF FileInfo
    <3> QED BY <2>1, <3>1, <3>2, KeepSize
  <2> QED BY <2>3, <2>4, <2>5
<1>5. ASSUME NEW r \in Req, Terminate(r) \/ TerminateStopped(r) PROVE SizeInv'
  <2>1. \A s \in Req : pc'[s] # "declare"
    BY <1>5 DEF Terminate, TerminateStopped, Fail, Goto, SizeInv, TypeInv, TypeOK
  <2>2. \A u \in Upload : status'[u] = "live" => status[u] = "live" /\ store'[u] = store[u]
    BY <1>5 DEF Terminate, TerminateStopped, storage, TypeInv, TypeOK
  <2> QED BY <2>1, <2>2, KeepSize
<1>6. ASSUME NEW r \in Req, DeclareLength(r) \/ DeclareReceived(r) PROVE FALSE
  BY <1>6 DEF DeclareLength, AcceptsLength, DeclareReceived, SizeInv
<1>7. CASE LoadStop \/ FireStop \/ UNCHANGED vars
  <2>1. UNCHANGED <<status, store, pc>>
    BY <1>7 DEF LoadStop, FireStop, storage, vars
  <2> QED BY <2>1 DEF SizeInv
<1>8. CASE Crash
  <2>1. UNCHANGED status /\ \A s \in Req : pc'[s] # "declare"
    BY <1>8 DEF Crash
  <2>2. \A u \in Upload : \/ store'[u] = store[u]
                          \/ \E n : store'[u] = [store[u] EXCEPT !.offset = n]
    BY <1>8 DEF Crash
  <2>3. \A u \in Upload : /\ store'[u].size = store[u].size
                          /\ store'[u].deferred = store[u].deferred
    BY <2>2 DEF TypeInv, TypeOK, FileInfo
  <2> QED BY <2>1, <2>3, KeepSize
<1> QED BY <1>1, <1>2, <1>3, <1>4, <1>5, <1>6, <1>7, <1>8, NewUploadSize
        DEF Next, ServerStep

(* The invariant behind WithinMaxSize: the length of every upload is known,  *)
(* and within the limit, from its creation on.                               *)
THEOREM SizeInvariant ==
    ASSUME "lengthDeferrer" \notin Features, "POST2" \notin Ops
    PROVE  Spec => []SizeInv
<1>1. Init => SizeInv
  BY DEF Init, SizeInv
<1> QED BY <1>1, StepSize, TypeInvariant, PTL DEF Spec

(* MaxSize bounds every upload where lengths cannot be deferred and no draft *)
(* POST is served; runs max_size and early_ids show what the conditions are  *)
(* for.                                                                      *)
THEOREM WithinMaxSizeHolds ==
    ASSUME "lengthDeferrer" \notin Features, "POST2" \notin Ops, "earlyIds" \notin Faults
    PROVE  Spec => []WithinMaxSize
<1>1. TypeInv /\ SizeInv /\ OffsetWithinSize => WithinMaxSize
  <2> SUFFICES ASSUME TypeInv, SizeInv, OffsetWithinSize, NEW u \in Upload, MaxSize > 0,
                      status[u] = "live"
               PROVE  store[u].offset <= MaxSize /\ store[u].size <= MaxSize
    BY DEF WithinMaxSize
  <2>1. store[u].offset \in Int /\ store[u].size \in Int
    BY DEF TypeInv, TypeOK, FileInfo
  <2>2. store[u].size <= MaxSize /\ store[u].offset <= store[u].size
    BY DEF SizeInv, OffsetWithinSize
  <2> QED BY <2>1, <2>2, ConstantsAssumption
<1> QED BY <1>1, TypeInvariant, SizeInvariant, OffsetWithinSizeHolds, PTL

-----------------------------------------------------------------------------
(* Part 3, an upload that has been owed its completion and that a client     *)
(* knows to be full has been finished, where neither the store nor the       *)
(* process fails.  Owing(u) is what Owed(u) leads to and every step keeps.   *)

Sealed(u) == status[u] = "live" /\ Filled(u) /\ store[u].size > 0

(* A handler of u after the last byte, or after PostFileV2's declaration.    *)
Finishing(r, u) == pc[r] \in {"stopped", "finish"} /\ req[r].id = u

Declaring(r, u) == pc[r] = "declare" /\ req[r].id = u

(* What r may tell a client.                                                 *)
Told(r) ==
    LET u == req[r].id
    IN /\ pc[r] \in {"completed", "unregister", "respond"}
       /\ ~failed[r] /\ req[r].op # "DELETE"
       /\ ~store[u].deferred /\ store[u].size > 0 /\ info[r].offset = store[u].size
       => finished[u] > 0

Owing(u) ==
    /\ status[u] \in {"live", "gone"}
    /\ status[u] = "live" =>
         /\ ~store[u].deferred \/ \E r \in Req : Declaring(r, u)
         /\ Sealed(u) => finished[u] > 0 \/ \E r \in Req : Finishing(r, u)
         /\ \A r \in Req : req[r].id = u => Told(r)
         /\ Sealed(u) /\ acked[u] = store[u].size => finished[u] > 0

(* Nobody has been told an offset of an upload whose POST is in progress.    *)
Untold == \A r \in Req : pc[r] # "idle" /\ req[r].op \in PostOps => acked[req[r].id] = 0

LEMMA StepUntold ==
    TypeInv /\ DataInv /\ Untold /\ [Next]_vars => Untold'
<1> SUFFICES ASSUME TypeInv, DataInv, Untold, [Next]_vars PROVE Untold'
  OBVIOUS
<1>1. ASSUME NEW r \in Req, Begin(r) PROVE Untold'
  <2>1. /\ \A s \in Req : s # r => pc'[s] = pc[s] /\ req'[s] = req[s]
        /\ UNCHANGED acked
    BY <1>1 DEF Begin, Goto, history, TypeInv, TypeOK
  <2>2. req'[r].op \notin PostOps
    <3>1. PICK u \in Upload : \E q \in PatchRequests(u) \cup OtherRequests(u) :
             req' = [req EXCEPT ![r] = q]
      BY <1>1 DEF Begin
    <3>2. PICK q \in PatchRequests(u) \cup OtherRequests(u) : req' = [req EXCEPT ![r] = q]
      BY <3>1
    <3>3. q.op \in {"PATCH", "HEAD", "GET", "DELETE"}
      BY DEF PatchRequests, OtherRequests, NoRequest
    <3> QED BY <3>2, <3>3 DEF PostOps, TypeInv, TypeOK
  <2> QED BY <2>1, <2>2 DEF Untold
<1>2. ASSUME NEW r \in Req, NewUpload(r) PROVE Untold'
  <2>1. PICK u \in Upload : /\ status[u] = "free"
                            /\ \E q \in PostRequests(u) : req' = [req EXCEPT ![r] = q]
    BY <1>2 DEF NewUpload
  <2>2. req'[r].id = u /\ acked[u] = 0
    BY <2>1, PostRequestTypes DEF DataInv, Fresh, TypeInv, TypeOK
  <2>3. /\ \A s \in Req : s # r => pc'[s] = pc[s] /\ req'[s] = req[s]
        /\ UNCHANGED acked
    BY <1>2 DEF NewUpload, Goto, history, TypeInv, TypeOK
  <2> QED BY <2>2, <2>3 DEF Untold
<1>3. ASSUME NEW r \in Req, Respond(r) PROVE Untold'
  <2>1. /\ pc[r] # "idle" /\ req[r].id \in Upload /\ pc'[r] = "idle"
        /\ \A s \in Req : s # r => pc'[s] = pc[s] /\ req'[s] = req[s]
        /\ \A v \in Upload : v # req[r].id => acked'[v] = acked[v]
    BY <1>3 DEF Respond, Goto, TypeInv, TypeOK, Serving, Request
  <2>2. ASSUME NEW s \in Req, s # r, pc[s] # "idle", req[s].op \in PostOps
        PROVE  req[s].id \in Upload /\ req[s].id # req[r].id
    BY <2>1, <2>2 DEF DataInv, Alone, Serves, TypeInv, Serving, Request
  <2> QED BY <2>1, <2>2 DEF Untold
<1>4. ASSUME NEW r \in Req, ServerStep(r), ~Respond(r) PROVE Untold'
  <2>1. UNCHANGED <<req, acked>>
    BY <1>4 DEF ServerStep, GetInfo, Acquire, LockTimeout, RejectPatch, PatchOfComplete,
                AcceptPatch, DeclareLength, RejectChunk, BeginChunk, EndWrite, TerminateStopped,
                FinishUpload, EndChunk, DeclareReceived, Copy, Terminate, history
  <2>2. pc[r] # "idle" /\ \A s \in Req : s # r => pc'[s] = pc[s]
    BY <1>4 DEF ServerStep, GetInfo, Acquire, LockTimeout, RejectPatch, PatchOfComplete,
                AcceptPatch, DeclareLength, RejectChunk, BeginChunk, EndWrite, TerminateStopped,
                FinishUpload, EndChunk, DeclareReceived, Copy, Terminate, Fail, Goto,
                TypeInv, TypeOK
  <2> QED BY <2>1, <2>2 DEF Untold
<1>5. ASSUME NEW r \in Req, ClientStep(r) \/ NotifyStep(r) PROVE Untold'
  <2>1. UNCHANGED <<req, acked>> /\ pc[r] # "idle" /\ \A s \in Req : s # r => pc'[s] = pc[s]
    BY <1>5 DEF ClientStep, ReadByte, BodyEnds, BodyFails, Reading, NotifyStep, NotifyCreated,
                NotifyComplete, NotifyTerminated, Goto, history, TypeInv, TypeOK
  <2> QED BY <2>1 DEF Untold
<1>6. CASE LoadStop \/ FireStop \/ UNCHANGED vars
  BY <1>6 DEF LoadStop, FireStop, history, vars, Untold
<1>7. CASE Crash
  BY <1>7 DEF Crash, Untold
<1> QED BY <1>1, <1>2, <1>3, <1>4, <1>5, <1>6, <1>7 DEF Next

(* An upload becomes owed: it is not full, and no copy of its info is ahead. *)
LEMMA OwedIsOwing ==
    ASSUME TypeInv, DataInv, FinishInv, NEW u \in Upload, Owed(u)
    PROVE  Owing(u)
<1>1. CASE ~store[u].deferred /\ store[u].offset < store[u].size
  <2>1. store[u].offset \in Int /\ store[u].size \in Int
    BY DEF TypeInv, TypeOK, FileInfo
  <2>2. ~Sealed(u)
    BY <1>1, <2>1 DEF Sealed, Filled
  <2>3. ASSUME NEW r \in Req, req[r].id = u PROVE Told(r)
    <3>1. CASE pc[r] = "idle"
      BY <3>1 DEF Told
    <3>2. CASE pc[r] # "idle"
      <4>1. info[r].offset <= store[u].offset /\ info[r].offset \in Int
        BY <2>3, <3>2 DEF Owed, DataInv, Behind, TypeInv, TypeOK, FileInfo
      <4> QED BY <1>1, <2>1, <2>3, <4>1 DEF Told
    <3> QED BY <3>1, <3>2
  <2> QED BY <1>1, <2>2, <2>3 DEF Owed, Owing
<1>2. ASSUME NEW r \in Req, Declaring(r, u) PROVE Owing(u)
  <2>1. req[r].op \in PostOps /\ store[u].deferred
    BY <1>2 DEF Declaring, Owed, FinishInv, Ready, Wrote
  <2>2. ASSUME NEW s \in Req, req[s].id = u PROVE Told(s)
    BY <2>1, <2>2 DEF Told
  <2> QED BY <1>2, <2>1, <2>2 DEF Owed, Owing, Sealed, Filled
<1> QED BY <1>1, <1>2 DEF Owed, Declaring

(* The length of such an upload is known to every request for it but the one *)
(* that declares it.                                                         *)
LEMMA LengthKnown ==
    ASSUME DataInv, FinishInv, NEW u \in Upload, Owing(u), status[u] = "live",
           NEW r \in Req, pc[r] \notin {"idle", "declare"}, req[r].id = u
    PROVE  ~store[u].deferred
<1> SUFFICES ASSUME NEW s \in Req, Declaring(s, u) PROVE FALSE
  BY DEF Owing
<1>1. req[s].op \in PostOps /\ pc[s] # "idle" /\ s # r /\ req[s].id = u
  BY DEF Declaring, FinishInv, Ready
<1> QED BY <1>1 DEF DataInv, Alone, Serves

(* Whoever has a full upload to himself, before or after WriteChunk, finds   *)
(* it finished.                                                              *)
LEMMA SealedIsFinished ==
    ASSUME LockInv, DataInv, FinishInv, NEW u \in Upload, Owing(u), Sealed(u),
           NEW r \in Req, req[r].id = u, pc[r] \notin {"idle", "stopped", "finish"},
           Relies(r) \/ req[r].op \in PostOps
    PROVE  finished[u] > 0
<1> SUFFICES ASSUME NEW s \in Req, Finishing(s, u) PROVE FALSE
  BY DEF Owing, Sealed
<1>1. s # r /\ pc[s] \in {"stopped", "finish"} /\ req[s].id = u
  BY DEF Finishing
<1>2. req[r].op \notin PostOps /\ req[s].op \notin PostOps
  BY <1>1 DEF DataInv, Alone, Serves
<1>3. Relies(s)
  <2>1. CASE pc[s] = "stopped"
    BY <2>1, ReliesFacts DEF LockedStage
  <2>2. CASE pc[s] = "finish"
    BY <1>2, <2>2, ReliesFacts DEF FinishInv, Ready
  <2> QED BY <1>1, <2>1, <2>2
<1> QED BY <1>1, <1>2, <1>3, ReliesFacts

(* A step that leaves u alone.                                               *)
LEMMA KeepOwing ==
    ASSUME NEW u \in Upload, Owing(u), status'[u] = status[u], store'[u] = store[u],
           finished'[u] = finished[u], acked'[u] = acked[u],
           \A s \in Req : Finishing(s, u) => Finishing(s, u)',
           \A s \in Req : Declaring(s, u) => Declaring(s, u)',
           status[u] = "live" => \A s \in Req : req'[s].id = u => Told(s)'
    PROVE  Owing(u)'
<1>1. Sealed(u)' <=> Sealed(u)
  BY DEF Sealed, Filled
<1> QED BY <1>1 DEF Owing

(* A step of r that leaves the uploads alone, and leads to an answer only if *)
(* Told allows it.                                                           *)
LEMMA MoveOwing ==
    ASSUME NEW u \in Upload, Owing(u), NEW r \in Req,
           UNCHANGED <<status, store, finished, acked>>,
           \A s \in Req : s # r => /\ pc'[s] = pc[s] /\ req'[s] = req[s]
                                   /\ info'[s] = info[s] /\ failed'[s] = failed[s],
           pc[r] \notin {"stopped", "finish", "declare"},
           status[u] = "live" /\ req'[r].id = u => Told(r)'
    PROVE  Owing(u)'
<1>1. ASSUME NEW s \in Req
      PROVE  (Finishing(s, u) => Finishing(s, u)') /\ (Declaring(s, u) => Declaring(s, u)')
  BY DEF Finishing, Declaring
<1>2. ASSUME status[u] = "live", NEW s \in Req, req'[s].id = u PROVE Told(s)'
  BY <1>2 DEF Owing, Told
<1> QED BY <1>1, <1>2, KeepOwing

(* A step of a request for another upload.                                   *)
LEMMA OtherOwing ==
    ASSUME NEW u \in Upload, Owing(u), NEW r \in Req,
           status'[u] = status[u], store'[u] = store[u],
           finished'[u] = finished[u], acked'[u] = acked[u],
           \A s \in Req : s # r => /\ pc'[s] = pc[s] /\ req'[s] = req[s]
                                   /\ info'[s] = info[s] /\ failed'[s] = failed[s],
           pc[r] = "idle" \/ req[r].id # u, req'[r].id # u
    PROVE  Owing(u)'
<1>1. ASSUME NEW s \in Req
      PROVE  (Finishing(s, u) => Finishing(s, u)') /\ (Declaring(s, u) => Declaring(s, u)')
  BY DEF Finishing, Declaring
<1>2. ASSUME status[u] = "live", NEW s \in Req, req'[s].id = u PROVE Told(s)'
  BY <1>2 DEF Owing, Told
<1> QED BY <1>1, <1>2, KeepOwing

(* Answers from a current copy.                                              *)
LEMMA AnswerOwing ==
    ASSUME TypeInv, LockInv, DataInv, FinishInv, NEW u \in Upload, Owing(u), NEW r \in Req,
           GetInfo(r) \/ PatchOfComplete(r) \/ Copy(r) \/ NotifyCreated(r)
    PROVE  Owing(u)'
<1>1. /\ UNCHANGED <<status, store, req, finished, acked>>
      /\ \A s \in Req : s # r => pc'[s] = pc[s] /\ info'[s] = info[s] /\ failed'[s] = failed[s]
      /\ pc[r] \in {"getinfo", "check", "copy", "created"}
  BY DEF GetInfo, PatchOfComplete, Copy, NotifyCreated, Fail, Goto, storage, history,
         TypeInv, TypeOK
<1>2. ASSUME status[u] = "live", req[r].id = u PROVE Told(r)'
  <2>1. CASE Fail(r)
    <3>1. failed'[r]
      BY <2>1 DEF Fail, TypeInv, TypeOK
    <3> QED BY <3>1 DEF Told
  <2>2. CASE ~Fail(r)
    <3>1. info'[r] = store[u]
      <4>1. CASE GetInfo(r)
        BY <1>2, <2>2, <4>1 DEF GetInfo, TypeInv, TypeOK
      <4>2. CASE ~GetInfo(r)
        <5>1. Holds(r) /\ info' = info
          BY <2>2, <4>2 DEF PatchOfComplete, Copy, NotifyCreated, FinishInv, Ready, Holds
        <5> QED BY <1>2, <5>1 DEF DataInv, Snapshot
      <4> QED BY <4>1, <4>2
    <3>2. Relies(r) \/ req[r].op \in PostOps
      <4>1. CASE pc[r] \in {"getinfo", "check", "copy"}
        BY <4>1, ReliesFacts DEF Relies, LockedStage
      <4>2. CASE pc[r] = "created"
        BY <4>2 DEF FinishInv, Ready
      <4> QED BY <1>1, <4>1, <4>2
    <3>3. ASSUME ~store[u].deferred, store[u].size > 0, store[u].offset = store[u].size
          PROVE  finished[u] > 0
      <4>1. Sealed(u)
        BY <1>2, <3>3 DEF Sealed, Filled
      <4> QED BY <1>1, <1>2, <3>2, <4>1, SealedIsFinished
    <3> QED BY <1>1, <1>2, <3>1, <3>3 DEF Told
  <2> QED BY <2>1, <2>2
<1> QED BY <1>1, <1>2, MoveOwing

(* Steps that answer nothing but errors and DELETEs.                         *)
LEMMA QuietOwing ==
    ASSUME TypeInv, DataInv, AnswerInv, NEW u \in Upload, Owing(u), NEW r \in Req,
           \/ Begin(r) \/ Acquire(r) \/ LockTimeout(r) \/ RejectPatch(r) \/ AcceptPatch(r)
           \/ RejectChunk(r) \/ BeginChunk(r) \/ EndChunk(r) \/ ClientStep(r)
           \/ NotifyComplete(r) \/ NotifyTerminated(r)
    PROVE  Owing(u)'
<1>1. /\ UNCHANGED <<status, store, info, finished, acked>>
      /\ \A s \in Req : s # r => pc'[s] = pc[s] /\ req'[s] = req[s] /\ failed'[s] = failed[s]
      /\ pc[r] \notin {"stopped", "finish", "declare"}
  BY DEF Begin, Acquire, LockTimeout, RejectPatch, AcceptPatch, RejectChunk, BeginChunk,
         EndChunk, ClientStep, ReadByte, BodyEnds, BodyFails, Reading, NotifyComplete,
         NotifyTerminated, Fail, Goto, storage, history, TypeInv, TypeOK
<1>2. ASSUME status[u] = "live", req'[r].id = u PROVE Told(r)'
  <2>1. CASE EndChunk(r) \/ NotifyComplete(r)
    <3>1. /\ pc[r] \in {"unregister", "completed"} /\ UNCHANGED <<req, failed>>
      BY <2>1 DEF EndChunk, NotifyComplete
    <3>2. Told(r)
      BY <1>2, <3>1 DEF Owing
    <3> QED BY <1>1, <3>1, <3>2 DEF Told
  <2>2. CASE NotifyTerminated(r)
    <3>1. req'[r].op = "DELETE"
      BY <2>2 DEF NotifyTerminated, AnswerInv, Answers
    <3> QED BY <3>1 DEF Told
  <2>3. CASE LockTimeout(r) \/ RejectPatch(r) \/ RejectChunk(r)
    <3>1. failed'[r]
      BY <2>3 DEF LockTimeout, RejectPatch, RejectChunk, Fail, TypeInv, TypeOK
    <3> QED BY <3>1 DEF Told
  <2>4. CASE Begin(r) \/ Acquire(r) \/ AcceptPatch(r) \/ BeginChunk(r) \/ ClientStep(r)
    <3>1. pc'[r] \in {"lock", "chunk", "getinfo", "write"}
      BY <2>4 DEF Begin, Acquire, AcceptPatch, BeginChunk, ClientStep, ReadByte, BodyEnds,
                  BodyFails, Reading, Goto, TypeInv, TypeOK
    <3> QED BY <3>1 DEF Told
  <2> QED BY <2>1, <2>2, <2>3, <2>4
<1> QED BY <1>1, <1>2, MoveOwing

(* A new upload is another one.                                              *)
LEMMA NewUploadOwing ==
    ASSUME TypeInv, NEW u \in Upload, Owing(u), NEW r \in Req, NewUpload(r)
    PROVE  Owing(u)'
<1>1. PICK v \in Upload :
        /\ status[v] = "free"
        /\ \E q \in PostRequests(v) :
             LET size == NewUploadLength(q)
             IN /\ req' = [req EXCEPT ![r] = q]
                /\ status' = [status EXCEPT ![v] = "live"]
                /\ store' = [store EXCEPT ![v] =
                      [size |-> IF size = NoLength THEN 0 ELSE size,
                       deferred |-> size = NoLength, offset |-> 0]]
  BY DEF NewUpload
<1>2. v # u /\ status'[u] = status[u] /\ store'[u] = store[u] /\ req'[r].id = v
  BY <1>1, PostRequestTypes DEF Owing, TypeInv, TypeOK
<1>3. /\ pc[r] = "idle" /\ UNCHANGED <<info, failed, finished, acked>>
      /\ \A s \in Req : s # r => pc'[s] = pc[s] /\ req'[s] = req[s]
  BY DEF NewUpload, Goto, history, TypeInv, TypeOK
<1> QED BY <1>2, <1>3, OtherOwing

(* The last byte makes its writer the one who will finish the upload; no     *)
(* client can have been told of it before.                                   *)
LEMMA EndWriteOwing ==
    ASSUME TypeInv, LockInv, DataInv, FinishInv, NEW u \in Upload, Owing(u), NEW r \in Req,
           EndWrite(r)
    PROVE  Owing(u)'
<1>1. /\ pc[r] = "write" /\ pc'[r] \in {"stopped", "finish"} /\ req[r].id \in Upload
      /\ UNCHANGED <<status, req, finished, acked>>
      /\ \A s \in Req : s # r => /\ pc'[s] = pc[s] /\ info'[s] = info[s]
                                 /\ failed'[s] = failed[s]
      /\ \A v \in Upload : v # req[r].id => store'[v] = store[v]
  BY DEF EndWrite, Goto, history, TypeInv, TypeOK, Serving, Request
<1>2. CASE req[r].id # u
  BY <1>1, <1>2, OtherOwing
<1>3. CASE req[r].id = u
  <2>1. status[u] = "live" /\ ~store[u].deferred
    BY <1>1, <1>3, LengthKnown DEF DataInv, Snapshot, Holds
  <2>2. store'[u].size = store[u].size /\ store'[u].deferred = store[u].deferred
    <3>1. PICK n \in Stored(r) :
            store' = [store EXCEPT ![u] = [store[u] EXCEPT !.offset = NewOffset(info[r], n)]]
      BY <1>3, <2>1 DEF EndWrite
    <3>2. store[u] \in FileInfo /\ store'[u] = [store[u] EXCEPT !.offset = NewOffset(info[r], n)]
      BY <3>1 DEF TypeInv, TypeOK
    <3> QED BY <3>2 DEF FileInfo
  <2>3. Finishing(r, u)'
    BY <1>1, <1>3 DEF Finishing
  <2>4. ASSUME NEW s \in Req, req'[s].id = u PROVE Told(s)'
    <3>1. CASE s = r
      BY <1>1, <3>1 DEF Told
    <3>2. CASE s # r
      BY <1>1, <2>1, <2>2, <2>4, <3>2 DEF Owing, Told
    <3> QED BY <3>1, <3>2
  <2>5. ASSUME Sealed(u)', acked'[u] = store'[u].size PROVE finished'[u] > 0
    <3>1. store[u].size > 0 /\ acked[u] = store[u].size
      BY <1>1, <2>2, <2>5 DEF Sealed
    <3>2. acked[u] <= store[u].offset /\ store[u].offset <= store[u].size
      BY <2>1 DEF DataInv, AckedNeverLost, OffsetWithinSize
    <3>3. store[u].offset \in Int /\ store[u].size \in Int
      BY DEF TypeInv, TypeOK, FileInfo
    <3>4. Sealed(u)
      BY <2>1, <3>1, <3>2, <3>3 DEF Sealed, Filled
    <3> QED BY <1>1, <2>1, <3>1, <3>4 DEF Owing
  <2> QED BY <1>1, <2>1, <2>2, <2>3, <2>4, <2>5 DEF Owing
<1> QED BY <1>2, <1>3

(* FinishUpload succeeds.                                                    *)
LEMMA FinishOwing ==
    ASSUME "store" \notin Faults, TypeInv, FinishInv, NEW u \in Upload, Owing(u), NEW r \in Req,
           FinishUpload(r)
    PROVE  Owing(u)'
<1>1. /\ pc[r] = "finish" /\ req[r].id \in Upload
      /\ UNCHANGED <<status, store, req, info, acked>>
      /\ \A s \in Req : s # r => pc'[s] = pc[s] /\ failed'[s] = failed[s]
      /\ \A v \in Upload : v # req[r].id => finished'[v] = finished[v]
      /\ finished[u] > 0 => finished'[u] > 0
  BY DEF FinishUpload, Goto, storage, TypeInv, TypeOK, Serving, Request
<1>2. CASE req[r].id # u
  BY <1>1, <1>2, OtherOwing
<1>3. CASE req[r].id = u /\ status[u] = "live"
  <2>1. \/ finished'[u] > 0
        \/ ~IsComplete(info[r]) /\ UNCHANGED failed
    BY <1>3 DEF FinishUpload, StoreMayFail, TypeInv, TypeOK
  <2>2. info[r] = store[u]
    BY <1>1, <1>3 DEF FinishInv, Ready, Wrote
  <2>3. Sealed(u)' => finished'[u] > 0
    BY <1>1, <2>1, <2>2 DEF Sealed, Filled, IsComplete
  <2>4. ASSUME NEW s \in Req, req'[s].id = u PROVE Told(s)'
    <3>1. CASE s # r
      BY <1>1, <1>3, <2>4, <3>1 DEF Owing, Told
    <3>2. CASE s = r
      BY <1>1, <1>3, <2>1, <2>2, <3>2 DEF Told, IsComplete
    <3> QED BY <3>1, <3>2
  <2>5. ~store'[u].deferred \/ \E s \in Req : Declaring(s, u)'
    BY <1>1, <1>3 DEF Owing, Declaring
  <2> QED BY <1>1, <1>3, <2>3, <2>4, <2>5 DEF Owing
<1>4. CASE req[r].id = u /\ status[u] = "gone"
  BY <1>1, <1>4 DEF Owing
<1> QED BY <1>2, <1>3, <1>4 DEF Owing

(* What is terminated owes nothing; a rejected DELETE changes nothing.       *)
LEMMA TerminateOwing ==
    ASSUME "store" \notin Faults, TypeInv, NEW u \in Upload, Owing(u), NEW r \in Req,
           Terminate(r) \/ TerminateStopped(r)
    PROVE  Owing(u)'
<1>1. /\ pc[r] \in {"terminate", "stopped"} /\ req[r].id \in Upload
      /\ UNCHANGED <<req, info, finished, acked>>
      /\ \A s \in Req : s # r => pc'[s] = pc[s] /\ failed'[s] = failed[s]
      /\ \A v \in Upload : v # req[r].id => status'[v] = status[v] /\ store'[v] = store[v]
  BY DEF Terminate, TerminateStopped, Fail, Goto, storage, history, TypeInv, TypeOK,
         Serving, Request
<1>2. \/ status'[req[r].id] = "gone"
      \/ pc[r] = "terminate" /\ UNCHANGED <<status, store>> /\ failed'[r]
  BY <1>1 DEF Terminate, TerminateStopped, StoreMayFail, Fail, storage, TypeInv, TypeOK
<1>3. CASE req[r].id # u
  BY <1>1, <1>3, OtherOwing
<1>4. CASE status'[u] = "gone"
  BY <1>4 DEF Owing
<1>5. CASE pc[r] = "terminate" /\ UNCHANGED <<status, store>> /\ failed'[r]
  <2>1. Told(r)'
    BY <1>5 DEF Told
  <2> QED BY <1>1, <1>5, <2>1, MoveOwing
<1> QED BY <1>2, <1>3, <1>4, <1>5

(* The answer tells the client what Told allows.                             *)
LEMMA RespondOwing ==
    ASSUME TypeInv, NEW u \in Upload, Owing(u), NEW r \in Req, Respond(r)
    PROVE  Owing(u)'
<1>1. /\ pc[r] = "respond" /\ pc'[r] = "idle" /\ req[r].id \in Upload
      /\ UNCHANGED <<status, store, finished>>
      /\ \A s \in Req : s # r => /\ pc'[s] = pc[s] /\ req'[s] = req[s]
                                 /\ info'[s] = info[s] /\ failed'[s] = failed[s]
      /\ \/ acked'[u] = acked[u]
         \/ /\ req[r].id = u /\ acked'[u] = info[r].offset
            /\ ~failed[r] /\ req[r].op # "DELETE"
  BY DEF Respond, Bigger, Goto, storage, TypeInv, TypeOK, Serving, Request
<1>2. CASE status[u] # "live"
  BY <1>1, <1>2 DEF Owing
<1>3. CASE status[u] = "live"
  <2>1. Sealed(u)' <=> Sealed(u)
    BY <1>1 DEF Sealed, Filled
  <2>2. ASSUME NEW s \in Req
        PROVE  (Finishing(s, u) => Finishing(s, u)') /\ (Declaring(s, u) => Declaring(s, u)')
    BY <1>1 DEF Finishing, Declaring
  <2>3. ASSUME NEW s \in Req, req'[s].id = u PROVE Told(s)'
    BY <1>1, <1>3, <2>3 DEF Owing, Told
  <2>4. ASSUME Sealed(u), acked'[u] = store[u].size PROVE finished[u] > 0
    <3>1. CASE acked'[u] = acked[u]
      BY <1>3, <2>4, <3>1 DEF Owing
    <3>2. CASE acked'[u] # acked[u]
      <4>1. Told(r)
        BY <1>1, <1>3, <3>2 DEF Owing
      <4> QED BY <1>1, <2>4, <3>2, <4>1 DEF Told, Sealed, Filled
    <3> QED BY <3>1, <3>2
  <2> QED BY <1>1, <1>3, <2>1, <2>2, <2>3, <2>4 DEF Owing
<1> QED BY <1>2, <1>3

(* A PATCH finds the length known; PostFileV2 declares it as the only        *)
(* request for the upload, and goes on to finish it.                         *)
LEMMA DeclareOwing ==
    ASSUME "store" \notin Faults, TypeInv, DataInv, FinishInv, Untold,
           NEW u \in Upload, Owing(u), NEW r \in Req, DeclareLength(r) \/ DeclareReceived(r)
    PROVE  Owing(u)'
<1>1. /\ pc[r] \in {"check", "declare"} /\ req[r].id \in Upload
      /\ UNCHANGED <<status, req, finished, acked>>
      /\ \A s \in Req : s # r => /\ pc'[s] = pc[s] /\ info'[s] = info[s]
                                 /\ failed'[s] = failed[s]
      /\ \A v \in Upload : v # req[r].id => store'[v] = store[v]
  BY DEF DeclareLength, DeclareReceived, Fail, Goto, history, TypeInv, TypeOK, Serving, Request
<1>2. CASE req[r].id # u
  BY <1>1, <1>2, OtherOwing
<1>3. CASE status[u] # "live"
  BY <1>1, <1>3 DEF Owing
<1>4. CASE req[r].id = u /\ status[u] = "live" /\ DeclareLength(r)
  <2>1. pc[r] = "check" /\ info[r].deferred
    BY <1>4 DEF DeclareLength, AcceptsLength
  <2>2. info[r] = store[u]
    BY <1>4, <2>1 DEF DataInv, Snapshot, Holds
  <2> QED BY <1>4, <2>1, <2>2, LengthKnown
<1>5. CASE req[r].id = u /\ status[u] = "live" /\ DeclareReceived(r)
  <2>1. /\ pc[r] = "declare" /\ pc'[r] = "finish"
        /\ store' = [store EXCEPT ![u] =
             [store[u] EXCEPT !.size = store[u].offset, !.deferred = FALSE]]
    BY <1>5 DEF DeclareReceived, StoreMayFail, Goto, TypeInv, TypeOK
  <2>2. ~store'[u].deferred
    BY <2>1 DEF TypeInv, TypeOK, FileInfo
  <2>3. Finishing(r, u)'
    BY <1>1, <1>5, <2>1 DEF Finishing
  <2>4. req[r].op \in PostOps /\ acked[u] = 0
    BY <1>5, <2>1 DEF FinishInv, Ready, Untold
  <2>5. ASSUME NEW s \in Req, req'[s].id = u PROVE Told(s)'
    <3>1. CASE s = r
      BY <2>1, <3>1 DEF Told
    <3>2. CASE s # r
      <4>1. pc[s] = "idle"
        BY <1>1, <1>5, <2>1, <2>4, <2>5, <3>2 DEF DataInv, Alone, Serves
      <4> QED BY <1>1, <3>2, <4>1 DEF Told
    <3> QED BY <3>1, <3>2
  <2>6. Sealed(u)' => acked'[u] # store'[u].size
    BY <1>1, <2>4 DEF Sealed
  <2> QED BY <1>1, <1>5, <2>2, <2>3, <2>5, <2>6 DEF Owing
<1> QED BY <1>2, <1>3, <1>4, <1>5

LEMMA StepOwing ==
    ASSUME "store" \notin Faults, "crash" \notin Faults,
           TypeInv, LockInv, DataInv, FinishInv, AnswerInv, Untold,
           NEW u \in Upload, Owing(u), [Next]_vars
    PROVE  Owing(u)'
<1>1. ASSUME NEW r \in Req,
             \/ Begin(r) \/ NewUpload(r) \/ ServerStep(r) \/ ClientStep(r) \/ NotifyStep(r)
      PROVE  Owing(u)'
  BY <1>1, NewUploadOwing, AnswerOwing, QuietOwing, EndWriteOwing, FinishOwing,
     TerminateOwing, RespondOwing, DeclareOwing DEF ServerStep, NotifyStep
<1>2. CASE LoadStop \/ FireStop \/ UNCHANGED vars
  <2>1. UNCHANGED <<status, store, pc, req, info, failed, finished, acked>>
    BY <1>2 DEF LoadStop, FireStop, storage, history, vars
  <2> QED BY <2>1 DEF Owing, Sealed, Filled, Finishing, Declaring, Told
<1>3. ~Crash
  BY DEF Crash
<1> QED BY <1>1, <1>2, <1>3 DEF Next

(* Once an upload is owed its completion, a client that was told an offset   *)
(* equal to the length can rely on FinishUpload having been carried out, for *)
(* any number of requests of either protocol, declared lengths, stops and    *)
(* rejecting callbacks.  A store that fails, or a restart, between the last  *)
(* byte and FinishUpload leaves a full upload that is never finished.        *)
THEOREM AckedCompleteIsFinishedHolds ==
    ASSUME "earlyIds" \notin Faults, "store" \notin Faults, "crash" \notin Faults
    PROVE  Spec => AckedCompleteIsFinished
<1> DEFINE Inv == TypeInv /\ LockInv /\ DataInv /\ FinishInv /\ AnswerInv /\ Untold
           Delivered(u) == /\ status[u] = "live" /\ Filled(u)
                           /\ store[u].size > 0 /\ acked[u] = store[u].size
                           => finished[u] > 0
<1>1. Spec => []Inv
  <2>1. Init => Untold
    BY DEF Init, Untold
  <2> QED BY <2>1, StepUntold, TypeInvariant, LockInvariant, DataInvariant, FinishInvariant,
             AnswerInvariant, PTL DEF Spec
<1>2. ASSUME NEW u \in Upload PROVE Spec => [](Owed(u) => []Delivered(u))
  <2>1. Inv /\ Owed(u) => Owing(u)
    BY OwedIsOwing
  <2>2. Inv /\ Owing(u) /\ [Next]_vars => Owing(u)'
    BY StepOwing
  <2>3. Owing(u) => Delivered(u)
    BY DEF Owing, Sealed
  <2> HIDE DEF Inv, Delivered
  <2> QED BY <1>1, <2>1, <2>2, <2>3, PTL DEF Spec
<1> QED BY <1>2 DEF AckedCompleteIsFinished
=============================================================================
