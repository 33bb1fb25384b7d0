------------------------- MODULE UploadFinishProofs -------------------------
(***************************************************************************)
(* Proofs about completion in UploadHandler, from DataInv of               *)
(* UploadDataProofs and therefore under its assumption.                    *)
(*                                                                         *)
(* A request that may still call FinishUpload (ToFinish) is one for an     *)
(* upload that was not finished, and decides on a current copy: Ready says *)
(* so of each request, FinishInv adds what it means for the uploads.       *)
(***************************************************************************)
EXTENDS UploadDataProofs

ToFinish(r) ==
    \/ pc[r] \in {"chunk", "write", "stopped", "finish", "declare"}
    \/ pc[r] \in {"getinfo", "created", "lock"} /\ req[r].op \in PostOps
    \/ pc[r] = "unregister" /\ info[r].deferred

(* Stages after WriteChunk, where the handler still uses its copy.           *)
Wrote(r) == pc[r] \in {"stopped", "finish", "completed", "unregister", "declare"}

Busy(r) == ToFinish(r) \/ Wrote(r)

Ready(r) ==
    /\ ToFinish(r) => finished[req[r].id] = 0
    /\ Wrote(r) /\ status[req[r].id] = "live" => info[r] = store[req[r].id]
    /\ pc[r] \in {"finish", "completed"} /\ ~reader[r].open => req[r].op \in PostOps
    /\ pc[r] = "created" => req[r].op \in PostOps
    /\ pc[r] = "declare" => req[r].op \in PostOps /\ info[r].deferred
    /\ pc[r] = "completed" => ~info[r].deferred

FreshFinish == \A u \in Upload : status[u] = "free" => finished[u] = 0

FinishInv ==
    /\ \A r \in Req : Ready(r)
    /\ FreshFinish /\ FinishedMeansComplete /\ CompletionOnce

(* The initial state: nothing is served or finished.                         *)
LEMMA InitFinish == Init => FinishInv
  BY DEF Init, FinishInv, Ready, ToFinish, Wrote, FreshFinish, FinishedMeansComplete,
         CompletionOnce

(* While r has the lock, or is a POST, no other request is about to finish   *)
(* its upload or uses a copy of its info.                                    *)
LEMMA NobodyElseBusy ==
    ASSUME LockInv, DataInv, FinishInv, NEW r \in Req, NEW s \in Req, r # s,
           pc[r] # "idle", Relies(r) \/ req[r].op \in PostOps, Busy(s)
    PROVE  req[s].id # req[r].id
<1> SUFFICES ASSUME req[s].id = req[r].id PROVE FALSE
  OBVIOUS
<1>1. pc[s] # "idle"
  BY DEF Busy, ToFinish, Wrote
<1>2. req[r].op \notin PostOps /\ req[s].op \notin PostOps
  BY <1>1 DEF DataInv, Alone, Serves
<1>3. Ready(s)
  BY DEF FinishInv
<1>4. pc[s] \in LockedStage \/ reader[s].open
  BY <1>2, <1>3 DEF Busy, ToFinish, Wrote, Ready, LockedStage
<1>5. Relies(s)
  BY <1>4, ReliesFacts
<1> QED BY <1>2, <1>5, ReliesFacts

(* A step leaves a request Ready if it leaves it, and its upload, alone.     *)
LEMMA KeepReady ==
    ASSUME NEW s \in Req, Ready(s), pc'[s] = pc[s], req'[s] = req[s], info'[s] = info[s],
           reader'[s].open = reader[s].open,
           Busy(s) => /\ status'[req[s].id] = status[req[s].id]
                      /\ store'[req[s].id] = store[req[s].id]
                      /\ finished'[req[s].id] = finished[req[s].id]
    PROVE  Ready(s)'
  BY DEF Ready, Busy, ToFinish, Wrote

(* A step of r that leaves the uploads alone.                                *)
LEMMA MoveFinish ==
    ASSUME FinishInv, NEW r \in Req, UNCHANGED <<status, store, finished>>,
           \A s \in Req : s # r => /\ pc'[s] = pc[s] /\ req'[s] = req[s]
                                   /\ info'[s] = info[s] /\ reader'[s] = reader[s],
           Ready(r)'
    PROVE  FinishInv'
<1>1. ASSUME NEW s \in Req PROVE Ready(s)'
  <2>1. CASE s # r
    BY <2>1, KeepReady DEF FinishInv
  <2> QED BY <2>1
<1>2. FreshFinish' /\ FinishedMeansComplete' /\ CompletionOnce'
  BY DEF FinishInv, FreshFinish, FinishedMeansComplete, Filled, CompletionOnce
<1> QED BY <1>1, <1>2 DEF FinishInv

(* A step of r that changes upload u, which nobody else is busy with.        *)
LEMMA ChangeFinish ==
    ASSUME FinishInv, NEW r \in Req, NEW u \in Upload,
           \A v \in Upload : v # u => /\ status'[v] = status[v] /\ store'[v] = store[v]
                                      /\ finished'[v] = finished[v],
           \A s \in Req : s # r => /\ pc'[s] = pc[s] /\ req'[s] = req[s]
                                   /\ info'[s] = info[s] /\ reader'[s] = reader[s],
           \A s \in Req : s # r /\ Busy(s) => req[s].id \in Upload /\ req[s].id # u,
           Ready(r)',
           status'[u] # "free", finished'[u] <= 1,
           finished'[u] > 0 /\ status'[u] = "live" => Filled(u)'
    PROVE  FinishInv'
<1>1. ASSUME NEW s \in Req PROVE Ready(s)'
  <2>1. CASE s # r
    BY <2>1, KeepReady DEF FinishInv
  <2> QED BY <2>1
<1>2. FreshFinish' /\ FinishedMeansComplete' /\ CompletionOnce'
  BY DEF FinishInv, FreshFinish, FinishedMeansComplete, Filled, CompletionOnce
<1> QED BY <1>1, <1>2 DEF FinishInv

(* Requests that are busy are for uploads of the model.                      *)
LEMMA BusyUpload ==
    ASSUME TypeInv, NEW s \in Req, Busy(s)
    PROVE  req[s].id \in Upload
  BY DEF Busy, ToFinish, Wrote, TypeInv, Serving, Request

(* Begin and NewUpload: a new upload was never finished.                     *)
LEMMA BeginFinish ==
    ASSUME TypeInv, DataInv, FinishInv, NEW r \in Req, Begin(r) \/ NewUpload(r)
    PROVE  FinishInv'
<1>1. UNCHANGED <<info, reader, finished>> /\ pc[r] = "idle"
  BY DEF Begin, NewUpload, history
<1>2. CASE Begin(r)
  <2>1. UNCHANGED <<status, store>> /\ pc' = [pc EXCEPT ![r] = "lock"]
    BY <1>2 DEF Begin, storage, Goto
  <2>2. \E q : req' = [req EXCEPT ![r] = q] /\ q.op \notin PostOps
    BY <1>2 DEF Begin, PatchRequests, OtherRequests, NoRequest, PostOps
  <2>3. /\ pc'[r] = "lock" /\ req'[r].op \notin PostOps
        /\ \A s \in Req : s # r => pc'[s] = pc[s] /\ req'[s] = req[s]
    BY <2>1, <2>2 DEF TypeInv, TypeOK
  <2>4. Ready(r)'
    BY <2>3 DEF Ready, ToFinish, Wrote
  <2> QED BY <1>1, <2>1, <2>3, <2>4, MoveFinish
<1>3. CASE NewUpload(r)
  <2>1. PICK u \in Upload :
          /\ status[u] = "free"
          /\ \E q \in PostRequests(u) :
               /\ req' = [req EXCEPT ![r] = q]
               /\ status' = [status EXCEPT ![u] = "live"]
               /\ \E i : store' = [store EXCEPT ![u] = i]
    BY <1>3 DEF NewUpload
  <2>2. PICK q \in PostRequests(u) :
          /\ req' = [req EXCEPT ![r] = q]
          /\ status' = [status EXCEPT ![u] = "live"]
          /\ \E i : store' = [store EXCEPT ![u] = i]
    BY <2>1
  <2>3. /\ pc'[r] = "getinfo" /\ req'[r] = q /\ status'[u] = "live"
        /\ \A s \in Req : s # r => pc'[s] = pc[s] /\ req'[s] = req[s]
        /\ \A v \in Upload : v # u => status'[v] = status[v] /\ store'[v] = store[v]
    BY <1>3, <2>2 DEF NewUpload, Goto, TypeInv, TypeOK
  <2>4. finished[u] = 0 /\ q.id = u /\ q.op \in PostOps
    BY <2>1 DEF PostRequests, FinishInv, FreshFinish
  <2>5. Ready(r)'
    BY <1>1, <2>3, <2>4 DEF Ready, ToFinish, Wrote
  <2>6. \A s \in Req : s # r /\ Busy(s) => req[s].id \in Upload /\ req[s].id # u
    BY <2>1, BusyUpload DEF Busy, ToFinish, Wrote, DataInv, Known
  <2> QED BY <1>1, <2>3, <2>4, <2>5, <2>6, ChangeFinish
<1> QED BY <1>2, <1>3

(* GetInfo: a POST takes a current copy of an upload it has just created.    *)
LEMMA GetInfoFinish ==
    ASSUME TypeInv, DataInv, FinishInv, NEW r \in Req, GetInfo(r)
    PROVE  FinishInv'
<1> DEFINE u == req[r].id
<1>1. /\ pc[r] = "getinfo" /\ req[r] \in Request /\ Ready(r)
      /\ UNCHANGED <<status, store, req, reader, finished>>
  BY DEF GetInfo, storage, history, TypeInv, Serving, FinishInv
<1>2. CASE Fail(r) /\ UNCHANGED info
  <2>1. /\ pc'[r] = "respond"
        /\ \A s \in Req : s # r => pc'[s] = pc[s]
    BY <1>2 DEF Fail, Goto, TypeInv, TypeOK
  <2>2. Ready(r)'
    BY <2>1 DEF Ready, ToFinish, Wrote
  <2> QED BY <1>1, <1>2, <2>1, <2>2, MoveFinish
<1>3. CASE /\ status[u] = "live"
           /\ info' = [info EXCEPT ![r] = store[u]]
           /\ Goto(r, AfterGetInfo(req[r], store[u]))
  <2>1. /\ pc'[r] = AfterGetInfo(req[r], store[u]) /\ info'[r] = store[u]
        /\ \A s \in Req : s # r => pc'[s] = pc[s] /\ info'[s] = info[s]
    BY <1>3 DEF Goto, TypeInv, TypeOK
  <2>2. Ready(r)'
    <3>1. CASE req[r].op \in PostOps
      <4>1. pc'[r] \in {"created", "lock", "finish", "respond"}
        BY <1>1, <2>1, <3>1, NextStages DEF AfterGetInfo, PostOps
      <4>2. finished[u] = 0
        BY <1>1, <3>1 DEF Ready, ToFinish
      <4> QED BY <1>1, <2>1, <3>1, <4>1, <4>2 DEF Ready, ToFinish, Wrote
    <3>2. CASE req[r].op \notin PostOps
      <4>1. pc'[r] \in {"check", "respond", "copy", "terminate"}
        BY <1>1, <2>1, <3>2, ConstantsAssumption DEF AfterGetInfo, Request, AllOps, PostOps
      <4> QED BY <4>1 DEF Ready, ToFinish, Wrote
    <3> QED BY <3>1, <3>2
  <2> QED BY <1>1, <2>1, <2>2, MoveFinish
<1> QED BY <1>2, <1>3 DEF GetInfo

(* The steps up to writeChunk, and those that end in an answer.  A chunk is  *)
(* accepted for an upload that is not complete, so it was not finished.      *)
LEMMA StageFinish ==
    ASSUME TypeInv, DataInv, FinishInv, NEW r \in Req,
           \/ Acquire(r) \/ LockTimeout(r) \/ RejectPatch(r) \/ PatchOfComplete(r)
           \/ AcceptPatch(r) \/ RejectChunk(r) \/ BeginChunk(r) \/ Copy(r)
    PROVE  FinishInv'
<1> DEFINE u == req[r].id
<1>1. /\ UNCHANGED <<status, store, req, info, finished>>
      /\ Ready(r) /\ u \in Upload
  BY DEF Acquire, LockTimeout, RejectPatch, PatchOfComplete, AcceptPatch, RejectChunk,
         BeginChunk, Copy, storage, history, FinishInv, TypeInv, Serving, Request
<1>2. \A s \in Req : s # r => pc'[s] = pc[s] /\ reader'[s] = reader[s]
  BY DEF Acquire, LockTimeout, RejectPatch, PatchOfComplete, AcceptPatch, RejectChunk,
         BeginChunk, Copy, Fail, Goto, TypeInv, TypeOK
<1>3. CASE Acquire(r)
  <2>1. /\ req[r].op \in PostOps => pc'[r] = "chunk"
        /\ req[r].op \notin PostOps => pc'[r] = "getinfo"
    BY <1>3 DEF Acquire, Goto, TypeInv, TypeOK
  <2>2. req[r].op \in PostOps => finished[u] = 0
    BY <1>1, <1>3 DEF Acquire, Ready, ToFinish
  <2>3. Ready(r)'
    BY <1>1, <2>1, <2>2 DEF Ready, ToFinish, Wrote
  <2> QED BY <1>1, <1>2, <2>3, MoveFinish
<1>4. CASE LockTimeout(r) \/ RejectPatch(r) \/ PatchOfComplete(r) \/ RejectChunk(r) \/ Copy(r)
  <2>1. pc'[r] = "respond"
    BY <1>4 DEF LockTimeout, RejectPatch, PatchOfComplete, RejectChunk, Copy, Fail, Goto,
                TypeInv, TypeOK
  <2>2. Ready(r)'
    BY <2>1 DEF Ready, ToFinish, Wrote
  <2> QED BY <1>1, <1>2, <2>2, MoveFinish
<1>5. CASE AcceptPatch(r)
  <2>1. pc[r] = "check" /\ pc'[r] = "chunk" /\ ~IsComplete(info[r])
    BY <1>5 DEF AcceptPatch, AlreadyComplete, Goto, TypeInv, TypeOK
  <2>2. status[u] = "live" /\ info[r] = store[u]
    BY <2>1 DEF DataInv, Snapshot, Holds
  <2>3. finished[u] = 0
    <3>1. ~Filled(u)
      BY <2>1, <2>2 DEF IsComplete, Filled
    <3> QED BY <1>1, <2>2, <3>1 DEF FinishInv, FinishedMeansComplete, TypeInv, TypeOK
  <2>4. Ready(r)'
    BY <1>1, <2>1, <2>3 DEF Ready, ToFinish, Wrote
  <2> QED BY <1>1, <1>2, <2>4, MoveFinish
<1>6. CASE BeginChunk(r)
  <2>1. pc[r] = "chunk" /\ pc'[r] = "write"
    BY <1>6 DEF BeginChunk, Goto, TypeInv, TypeOK
  <2>2. Ready(r)'
    BY <1>1, <2>1 DEF Ready, ToFinish, Wrote
  <2> QED BY <1>1, <1>2, <2>2, MoveFinish
<1> QED BY <1>3, <1>4, <1>5, <1>6

(* The steps after WriteChunk.                                               *)
LEMMA EndFinish ==
    ASSUME TypeInv, DataInv, FinishInv, NEW r \in Req, EndChunk(r) \/ NotifyStep(r)
    PROVE  FinishInv'
<1> DEFINE u == req[r].id
<1>1. UNCHANGED <<status, store, req, info, finished>> /\ Ready(r)
  BY DEF EndChunk, NotifyStep, NotifyCreated, NotifyComplete, NotifyTerminated,
         storage, history, FinishInv
<1>2. \A s \in Req : s # r => pc'[s] = pc[s] /\ reader'[s] = reader[s]
  BY DEF EndChunk, NotifyStep, NotifyCreated, NotifyComplete, NotifyTerminated,
         Goto, TypeInv, TypeOK
<1>3. CASE EndChunk(r)
  <2>1. /\ pc[r] = "unregister"
        /\ \/ pc'[r] = "respond"
           \/ pc'[r] = "declare" /\ req[r].op \in PostOps /\ info[r].deferred
    BY <1>3 DEF EndChunk, Goto, PostOps, TypeInv, TypeOK
  <2>2. Ready(r)'
    BY <1>1, <2>1 DEF Ready, ToFinish, Wrote
  <2> QED BY <1>1, <1>2, <2>2, MoveFinish
<1>4. CASE NotifyCreated(r)
  <2>1. pc[r] = "created" /\ pc'[r] = AfterCreated(req[r]) /\ req[r] \in Request
    BY <1>4 DEF NotifyCreated, Goto, TypeInv, TypeOK, Serving
  <2>2. pc'[r] \in {"lock", "finish", "respond"}
    BY <2>1, NextStages
  <2>3. req[r].op \in PostOps /\ info[r] = store[u] /\ finished[u] = 0
    BY <1>1, <2>1 DEF Ready, ToFinish, DataInv, Snapshot, Holds
  <2>4. Ready(r)'
    BY <1>1, <2>2, <2>3 DEF Ready, ToFinish, Wrote
  <2> QED BY <1>1, <1>2, <2>4, MoveFinish
<1>5. CASE NotifyComplete(r)
  <2>1. /\ pc[r] = "completed" /\ pc'[r] \in {"respond", "unregister"}
        /\ UNCHANGED reader
    BY <1>5 DEF NotifyComplete, AfterFinish, Goto, TypeInv, TypeOK
  <2>2. Ready(r)'
    BY <1>1, <2>1 DEF Ready, ToFinish, Wrote
  <2> QED BY <1>1, <1>2, <2>2, MoveFinish
<1>6. CASE NotifyTerminated(r)
  <2>1. pc'[r] = "respond"
    BY <1>6 DEF NotifyTerminated, Goto, TypeInv, TypeOK
  <2>2. Ready(r)'
    BY <2>1 DEF Ready, ToFinish, Wrote
  <2> QED BY <1>1, <1>2, <2>2, MoveFinish
<1> QED BY <1>3, <1>4, <1>5, <1>6 DEF NotifyStep

(* FinishUpload: it succeeds for an upload that has all its bytes and was    *)
(* not finished before.                                                      *)
LEMMA FinishUploadFinish ==
    ASSUME TypeInv, LockInv, DataInv, FinishInv, NEW r \in Req, FinishUpload(r)
    PROVE  FinishInv'
<1> DEFINE u == req[r].id
<1>1. /\ pc[r] = "finish" /\ u \in Upload /\ Ready(r)
      /\ UNCHANGED <<status, store, req, info, reader>>
  BY DEF FinishUpload, storage, FinishInv, TypeInv, Serving, Request
<1>2. /\ finished[u] = 0
      /\ status[u] = "live" => info[r] = store[u]
      /\ ~reader[r].open => req[r].op \in PostOps
  BY <1>1 DEF Ready, ToFinish, Wrote
<1>3. /\ \A s \in Req : s # r => pc'[s] = pc[s]
      /\ AfterFinish(r) \in {"unregister", "respond"}
  BY DEF FinishUpload, AfterFinish, Goto, TypeInv, TypeOK
<1>4. CASE UNCHANGED finished /\ Goto(r, AfterFinish(r))
  <2>1. pc'[r] = AfterFinish(r)
    BY <1>4 DEF Goto, TypeInv, TypeOK
  <2>2. Ready(r)'
    BY <1>1, <1>2, <1>3, <1>4, <2>1 DEF Ready, ToFinish, Wrote
  <2> QED BY <1>1, <1>3, <1>4, <2>2, MoveFinish
<1>5. CASE /\ IsComplete(info[r])
           /\ finished' = [finished EXCEPT ![u] = @ + 1]
           /\ \/ Goto(r, AfterFinish(r))
              \/ Goto(r, "completed")
  <2>1. /\ finished'[u] = 1
        /\ \A v \in Upload : v # u => finished'[v] = finished[v]
        /\ pc'[r] \in {"completed", "unregister", "respond"}
    BY <1>1, <1>2, <1>3, <1>5 DEF Goto, TypeInv, TypeOK
  <2>2. ~info[r].deferred /\ (status[u] = "live" => Filled(u))
    BY <1>2, <1>5 DEF IsComplete, Filled
  <2>3. Ready(r)'
    BY <1>1, <1>2, <2>1, <2>2 DEF Ready, ToFinish, Wrote
  <2>4. reader[r].open => Relies(r)
    BY ReliesFacts
  <2>5. \A s \in Req : s # r /\ Busy(s) => req[s].id \in Upload /\ req[s].id # u
    BY <1>1, <1>2, <2>4, BusyUpload, NobodyElseBusy
  <2>6. status[u] # "free"
    BY <1>1 DEF DataInv, Known
  <2>7. status[u] = "live" => Filled(u)'
    BY <1>1, <2>2 DEF Filled
  <2> QED BY <1>1, <1>3, <2>1, <2>3, <2>5, <2>6, <2>7, ChangeFinish
<1> QED BY <1>4, <1>5 DEF FinishUpload

(* DeclareLength: a length that is still open belongs to an unfinished       *)
(* upload.                                                                   *)
LEMMA DeclareLengthFinish ==
    ASSUME TypeInv, LockInv, DataInv, FinishInv, NEW r \in Req, DeclareLength(r)
    PROVE  FinishInv'
<1> DEFINE u == req[r].id
<1>1. /\ pc[r] = "check" /\ u \in Upload /\ Ready(r)
      /\ AcceptsLength(req[r], info[r])
      /\ UNCHANGED <<status, req, reader, finished>>
      /\ \A s \in Req : s # r => pc'[s] = pc[s] /\ info'[s] = info[s]
      /\ \A v \in Upload : v # u => store'[v] = store[v]
  BY DEF DeclareLength, Fail, Goto, history, FinishInv, TypeInv, TypeOK, Serving, Request
<1>2. status[u] = "live" /\ info[r] = store[u]
  BY <1>1 DEF DataInv, Snapshot, Holds
<1>3. finished[u] = 0
  <2>1. ~Filled(u)
    BY <1>1, <1>2 DEF AcceptsLength, Filled
  <2> QED BY <1>1, <1>2, <2>1 DEF FinishInv, FinishedMeansComplete, TypeInv, TypeOK
<1>4. pc'[r] \in {"chunk", "respond"}
  BY DEF DeclareLength, Fail, Goto, TypeInv, TypeOK
<1>5. Ready(r)'
  BY <1>1, <1>3, <1>4 DEF Ready, ToFinish, Wrote
<1>6. Relies(r)
  BY <1>1, ReliesFacts DEF LockedStage
<1>7. \A s \in Req : s # r /\ Busy(s) => req[s].id \in Upload /\ req[s].id # u
  BY <1>1, <1>6, BusyUpload, NobodyElseBusy
<1> QED BY <1>1, <1>2, <1>3, <1>5, <1>7, ChangeFinish

(* EndWrite: the copy and the store get the same offset.                     *)
LEMMA EndWriteFinish ==
    ASSUME TypeInv, LockInv, DataInv, FinishInv, NEW r \in Req, EndWrite(r)
    PROVE  FinishInv'
<1> DEFINE u == req[r].id
<1>1. /\ pc[r] = "write" /\ u \in Upload /\ Ready(r)
      /\ UNCHANGED <<status, req, reader, finished>>
      /\ \A s \in Req : s # r => pc'[s] = pc[s] /\ info'[s] = info[s]
      /\ \A v \in Upload : v # u => store'[v] = store[v]
  BY DEF EndWrite, Goto, history, FinishInv, TypeInv, TypeOK, Serving, Request
<1>2. status[u] = "live" /\ info[r] = store[u]
  BY <1>1 DEF DataInv, Snapshot, Holds
<1>3. info'[r] = store'[u]
  <2>1. PICK n \in Stored(r) :
          /\ info' = [info EXCEPT ![r].offset = NewOffset(info[r], n)]
          /\ store' = IF status[u] = "live"
                        THEN [store EXCEPT ![u].offset = NewOffset(info[r], n)] ELSE store
    BY DEF EndWrite
  <2> DEFINE i == [info[r] EXCEPT !.offset = NewOffset(info[r], n)]
  <2>2. store' = [store EXCEPT ![u] = i] /\ info' = [info EXCEPT ![r] = i]
    BY <1>1, <1>2, <2>1 DEF TypeInv, TypeOK
  <2> QED BY <1>1, <2>2 DEF TypeInv, TypeOK
<1>4. finished[u] = 0
  BY <1>1 DEF Ready, ToFinish
<1>5. pc'[r] \in {"stopped", "finish"} /\ reader[r].open
  BY <1>1 DEF EndWrite, Goto, LockInv, ReaderOpen, TypeInv, TypeOK
<1>6. Ready(r)'
  BY <1>1, <1>3, <1>4, <1>5 DEF Ready, ToFinish, Wrote
<1>7. Relies(r)
  BY <1>1, ReliesFacts DEF LockedStage
<1>8. \A s \in Req : s # r /\ Busy(s) => req[s].id \in Upload /\ req[s].id # u
  BY <1>1, <1>7, BusyUpload, NobodyElseBusy
<1> QED BY <1>1, <1>2, <1>4, <1>6, <1>8, ChangeFinish

(* DeclareReceived: the upload was not finished as its length was open.      *)
LEMMA DeclareReceivedFinish ==
    ASSUME TypeInv, LockInv, DataInv, FinishInv, NEW r \in Req, DeclareReceived(r)
    PROVE  FinishInv'
<1> DEFINE u == req[r].id
<1>1. /\ pc[r] = "declare" /\ u \in Upload /\ Ready(r)
      /\ UNCHANGED <<status, req, reader, finished>>
      /\ \A s \in Req : s # r => pc'[s] = pc[s] /\ info'[s] = info[s]
      /\ \A v \in Upload : v # u => store'[v] = store[v]
  BY DEF DeclareReceived, Fail, Goto, history, FinishInv, TypeInv, TypeOK, Serving, Request
<1>2. finished[u] = 0 /\ req[r].op \in PostOps /\ status[u] # "free"
  BY <1>1 DEF Ready, ToFinish, DataInv, Known
<1>3. \/ pc'[r] = "respond"
      \/ pc'[r] = "finish" /\ info'[r] = store'[u]
  BY DEF DeclareReceived, Fail, Goto, TypeInv, TypeOK
<1>4. Ready(r)'
  BY <1>1, <1>2, <1>3 DEF Ready, ToFinish, Wrote
<1>5. \A s \in Req : s # r /\ Busy(s) => req[s].id \in Upload /\ req[s].id # u
  BY <1>1, <1>2, BusyUpload, NobodyElseBusy
<1> QED BY <1>1, <1>2, <1>4, <1>5, ChangeFinish

(* Terminate and TerminateStopped: what is gone is not live.                 *)
LEMMA TerminateFinish ==
    ASSUME TypeInv, LockInv, DataInv, FinishInv, NEW r \in Req,
           Terminate(r) \/ TerminateStopped(r)
    PROVE  FinishInv'
<1> DEFINE u == req[r].id
<1>1. /\ pc[r] \in {"terminate", "stopped"} /\ u \in Upload /\ Ready(r)
      /\ UNCHANGED <<req, info, reader, finished>>
      /\ \A s \in Req : s # r => pc'[s] = pc[s]
  BY DEF Terminate, TerminateStopped, Fail, Goto, history, FinishInv,
         TypeInv, TypeOK, Serving, Request
<1>2. \/ UNCHANGED storage
      \/ /\ status' = [status EXCEPT ![u] = "gone"]
         /\ store' = [store EXCEPT ![u] = NoInfo]
  BY DEF Terminate, TerminateStopped
<1>3. \/ UNCHANGED <<status, store>>
      \/ status'[u] = "gone"
  BY <1>1, <1>2 DEF storage, TypeInv, TypeOK
<1>4. Ready(r)'
  <2>1. \/ pc'[r] \in {"terminated", "respond"}
        \/ pc'[r] = "finish" /\ pc[r] = "stopped"
    BY DEF Terminate, TerminateStopped, Fail, Goto, TypeInv, TypeOK
  <2>2. pc[r] = "stopped" => reader[r].open
    BY DEF LockInv, ReaderOpen
  <2> QED BY <1>1, <1>3, <2>1, <2>2 DEF Ready, ToFinish, Wrote
<1>5. CASE UNCHANGED <<status, store>>
  BY <1>1, <1>4, <1>5, MoveFinish
<1>6. CASE status'[u] = "gone" /\ ~UNCHANGED <<status, store>>
  <2>1. \A v \in Upload : v # u => status'[v] = status[v] /\ store'[v] = store[v]
    BY <1>1, <1>2, <1>6 DEF storage, TypeInv, TypeOK
  <2>2. Relies(r)
    BY <1>1, ReliesFacts DEF LockedStage
  <2>3. \A s \in Req : s # r /\ Busy(s) => req[s].id \in Upload /\ req[s].id # u
    BY <1>1, <2>2, BusyUpload, NobodyElseBusy
  <2>4. finished[u] <= 1
    BY <1>1 DEF FinishInv, CompletionOnce
  <2> QED BY <1>1, <1>4, <1>6, <2>1, <2>3, <2>4, ChangeFinish
<1> QED BY <1>3, <1>5, <1>6

(* Respond: an idle slot is not busy.                                        *)
LEMMA RespondFinish ==
    ASSUME TypeInv, FinishInv, NEW r \in Req, Respond(r)
    PROVE  FinishInv'
<1>1. /\ pc'[r] = "idle"
      /\ UNCHANGED <<status, store, reader, finished>>
      /\ \A s \in Req : s # r => pc'[s] = pc[s] /\ req'[s] = req[s] /\ info'[s] = info[s]
  BY DEF Respond, Goto, storage, TypeInv, TypeOK
<1>2. Ready(r)'
  BY <1>1 DEF Ready, ToFinish, Wrote
<1> QED BY <1>1, <1>2, MoveFinish

(* Reading a body and stopping it move nobody.                               *)
LEMMA ReadFinish ==
    ASSUME TypeInv, FinishInv,
           \/ LoadStop \/ FireStop
           \/ \E r \in Req : ClientStep(r)
    PROVE  FinishInv'
<1>1. UNCHANGED <<pc, status, store, req, info, finished>>
  BY DEF LoadStop, FireStop, ClientStep, ReadByte, BodyEnds, BodyFails, storage, history
<1>3. \A s \in Req : reader'[s].open = reader[s].open
  BY ReadersKept
<1>4. ASSUME NEW s \in Req PROVE Ready(s)'
  BY <1>1, <1>3, KeepReady DEF FinishInv
<1>5. FreshFinish' /\ FinishedMeansComplete' /\ CompletionOnce'
  BY <1>1 DEF FinishInv, FreshFinish, FinishedMeansComplete, Filled, CompletionOnce
<1> QED BY <1>4, <1>5 DEF FinishInv

(* Crash: the upload of a write in progress was not finished.                *)
LEMMA CrashFinish ==
    ASSUME TypeInv, LockInv, FinishInv, Crash
    PROVE  FinishInv'
<1>1. /\ \A r \in Req : pc'[r] = "idle"
      /\ UNCHANGED <<status, finished>>
  BY DEF Crash, history
<1>2. ASSUME NEW r \in Req PROVE Ready(r)'
  BY <1>1 DEF Ready, ToFinish, Wrote
<1>3. ASSUME NEW u \in Upload, finished[u] > 0
      PROVE  store'[u] = store[u]
  <2>1. ~WriteInProgress(u)
    <3> SUFFICES ASSUME WriteInProgress(u) PROVE FALSE
      OBVIOUS
    <3>1. stopCb[u] \in Req /\ pc[stopCb[u]] = "write"
      BY DEF WriteInProgress, TypeInv, TypeOK
    <3>2. req[stopCb[u]].id = u
      BY <3>1 DEF LockInv, StopCallbackOwned
    <3>3. finished[u] = 0
      BY <3>1, <3>2 DEF FinishInv, Ready, ToFinish
    <3> QED BY <1>3, <3>3
  <2> QED BY <2>1 DEF Crash
<1>4. FreshFinish' /\ FinishedMeansComplete' /\ CompletionOnce'
  BY <1>1, <1>3 DEF FinishInv, FreshFinish, FinishedMeansComplete, Filled, CompletionOnce
<1> QED BY <1>2, <1>4 DEF FinishInv

(* Every step keeps FinishInv.                                               *)
LEMMA StepFinish ==
    TypeInv /\ LockInv /\ DataInv /\ FinishInv /\ [Next]_vars => FinishInv'
<1> SUFFICES ASSUME TypeInv, LockInv, DataInv, FinishInv, [Next]_vars PROVE FinishInv'
  OBVIOUS
<1>1. ASSUME NEW r \in Req, Begin(r) \/ NewUpload(r) PROVE FinishInv'
  BY <1>1, BeginFinish
<1>2. ASSUME NEW r \in Req, ServerStep(r) PROVE FinishInv'
  BY <1>2, GetInfoFinish, StageFinish, EndFinish, FinishUploadFinish, DeclareLengthFinish,
     EndWriteFinish, DeclareReceivedFinish, TerminateFinish, RespondFinish DEF ServerStep
<1>3. ASSUME NEW r \in Req, ClientStep(r) \/ NotifyStep(r) PROVE FinishInv'
  BY <1>3, ReadFinish, EndFinish
<1>4. CASE LoadStop \/ FireStop
  BY <1>4, ReadFinish
<1>5. CASE Crash
  BY <1>5, CrashFinish
<1>6. CASE UNCHANGED vars
  BY <1>6, KeepReady
     DEF vars, FinishInv, FreshFinish, FinishedMeansComplete, Filled, CompletionOnce
<1> QED BY <1>1, <1>2, <1>3, <1>4, <1>5, <1>6 DEF Next

(* FinishInv holds throughout.                                               *)
THEOREM FinishInvariant ==
    ASSUME "earlyIds" \notin Faults
    PROVE  Spec => []FinishInv
<1>1. Spec => [](TypeInv /\ LockInv /\ DataInv)
  BY TypeInvariant, LockInvariant, DataInvariant, PTL
<1> QED BY InitFinish, StepFinish, <1>1, PTL DEF Spec

(* FinishUpload succeeds at most once for an upload, whatever chunks and     *)
(* lengths are sent again (finishUploadIfComplete and its three callers).    *)
THEOREM CompletionOnceHolds ==
    ASSUME "earlyIds" \notin Faults
    PROVE  Spec => []CompletionOnce
<1>1. FinishInv => CompletionOnce
  BY DEF FinishInv
<1> QED BY <1>1, FinishInvariant, PTL

(* A finished upload has a known length and all of its bytes, and nothing is *)
(* appended later (PatchFile's early return for a complete upload).          *)
THEOREM FinishedMeansCompleteHolds ==
    ASSUME "earlyIds" \notin Faults
    PROVE  Spec => []FinishedMeansComplete
<1>1. FinishInv => FinishedMeansComplete
  BY DEF FinishInv
<1> QED BY <1>1, FinishInvariant, PTL

-----------------------------------------------------------------------------
(* Action properties. *)

(* The steps that leave every FileInfo's length alone.                       *)
LengthKept ==
    \A u \in Upload :
        status'[u] = "live" /\ status[u] = "live" =>
            /\ store'[u].deferred = store[u].deferred
            /\ store'[u].size = store[u].size

(* Only DeclareLength and DeclareReceived set a length.                      *)
LEMMA LengthSteps ==
    ASSUME TypeInv, [Next]_vars,
           \A r \in Req : ~DeclareLength(r) /\ ~DeclareReceived(r)
    PROVE  LengthKept
<1>1. ASSUME NEW r \in Req, Begin(r) PROVE LengthKept
  BY <1>1 DEF Begin, storage, LengthKept
<1>2. ASSUME NEW r \in Req, NewUpload(r) PROVE LengthKept
  <2>1. PICK u \in Upload : /\ status[u] = "free"
                            /\ \E i : store' = [store EXCEPT ![u] = i]
    BY <1>2 DEF NewUpload
  <2> QED BY <2>1 DEF LengthKept, TypeInv, TypeOK
<1>3. ASSUME NEW r \in Req, ServerStep(r) PROVE LengthKept
  <2>1. CASE EndWrite(r)
    BY <2>1 DEF EndWrite, LengthKept, TypeInv, TypeOK, FileInfo
  <2>2. CASE Terminate(r) \/ TerminateStopped(r)
    BY <2>2 DEF Terminate, TerminateStopped, storage, LengthKept, TypeInv, TypeOK
  <2>3. CASE UNCHANGED store
    BY <2>3 DEF LengthKept
  <2> QED BY <1>3, <2>1, <2>2, <2>3
          DEF ServerStep, GetInfo, Acquire, LockTimeout, RejectPatch, PatchOfComplete,
              AcceptPatch, RejectChunk, BeginChunk, FinishUpload, EndChunk, Copy, Respond,
              storage
<1>4. ASSUME NEW r \in Req, ClientStep(r) \/ NotifyStep(r) PROVE LengthKept
  BY <1>4 DEF ClientStep, ReadByte, BodyEnds, BodyFails, NotifyStep, NotifyCreated,
              NotifyComplete, NotifyTerminated, storage, LengthKept
<1>5. CASE LoadStop \/ FireStop \/ UNCHANGED vars
  BY <1>5 DEF LoadStop, FireStop, vars, storage, LengthKept
<1>6. CASE Crash
  <2> SUFFICES ASSUME NEW u \in Upload
               PROVE  /\ store'[u].deferred = store[u].deferred
                      /\ store'[u].size = store[u].size
    BY DEF LengthKept
  <2>1. \/ store'[u] = store[u]
        \/ \E n : store'[u] = [store[u] EXCEPT !.offset = n]
    BY <1>6 DEF Crash
  <2>2. store[u] \in FileInfo
    BY DEF TypeInv, TypeOK
  <2> QED BY <2>1, <2>2 DEF FileInfo
<1> QED BY <1>1, <1>2, <1>3, <1>4, <1>5, <1>6 DEF Next

(* A length, once known, stays (PatchFile's and PostFileV2's declarations    *)
(* are for uploads whose length is still deferred in the store).             *)
THEOREM LengthDeclaredOnceHolds ==
    ASSUME "earlyIds" \notin Faults
    PROVE  Spec => LengthDeclaredOnce
<1> DEFINE Kept == \A u \in Upload :
               status[u] = "live" /\ ~store[u].deferred /\ status'[u] = "live" =>
                   ~store'[u].deferred /\ store'[u].size = store[u].size
<1>1. ASSUME TypeInv, DataInv, FinishInv, [Next]_vars PROVE Kept
  <2>1. ASSUME NEW r \in Req, DeclareLength(r) \/ DeclareReceived(r) PROVE Kept
    <3>1. req[r].id \in Upload /\ Ready(r)
      BY <1>1, <2>1 DEF DeclareLength, DeclareReceived, FinishInv, TypeInv, Serving, Request
    <3>2. \A v \in Upload : v # req[r].id => store'[v] = store[v]
      BY <1>1, <2>1 DEF DeclareLength, DeclareReceived, Fail, TypeInv, TypeOK
    <3>3. CASE DeclareLength(r)
      <4>1. info[r] = store[req[r].id] /\ info[r].deferred
        BY <1>1, <3>3 DEF DeclareLength, AcceptsLength, DataInv, Snapshot, Holds
      <4> QED BY <3>2, <4>1
    <3>4. CASE DeclareReceived(r)
      <4>1. status[req[r].id] = "live" => store[req[r].id].deferred
        BY <3>1, <3>4 DEF DeclareReceived, Ready, Wrote
      <4> QED BY <3>2, <4>1
    <3> QED BY <2>1, <3>3, <3>4
  <2>2. CASE \A r \in Req : ~DeclareLength(r) /\ ~DeclareReceived(r)
    BY <1>1, <2>2, LengthSteps DEF LengthKept
  <2> QED BY <2>1, <2>2
<1>2. Spec => [](TypeInv /\ DataInv /\ FinishInv)
  BY TypeInvariant, DataInvariant, FinishInvariant, PTL
<1>3. TypeInv /\ DataInv /\ FinishInv /\ [Next]_vars => [Kept]_vars
  BY <1>1
<1> QED BY <1>2, <1>3, PTL DEF Spec, LengthDeclaredOnce

(* Without stop hooks: nobody is stopped ...                                 *)
StopFree ==
    /\ stopping = NoReq
    /\ \A r \in Req : reader[r].err \notin {"lastRead", "stopped"} /\ pc[r] # "stopped"

(* ... and an upload about to be finished still exists.                      *)
FinishLive == \A r \in Req : pc[r] = "finish" => status[req[r].id] = "live"

(* Only EndWrite leads to the termination of a stopped upload.               *)
LEMMA StepStopFree ==
    ASSUME "stopHook" \notin Features, TypeInv, StopFree, [Next]_vars
    PROVE  StopFree'
<1>1. ASSUME NEW r \in Req, Begin(r) \/ NewUpload(r) PROVE StopFree'
  BY <1>1 DEF Begin, NewUpload, Goto, registry, StopFree, TypeInv, TypeOK
<1>2. ASSUME NEW r \in Req, GetInfo(r) \/ NotifyStep(r) PROVE StopFree'
  <2>1. /\ UNCHANGED <<stopping, reader>> /\ req[r] \in Request
        /\ \E stage : pc' = [pc EXCEPT ![r] = stage] /\ stage # "stopped"
    <3>1. req[r] \in Request
      BY <1>2 DEF GetInfo, NotifyStep, NotifyCreated, NotifyComplete, NotifyTerminated,
                  TypeInv, Serving
    <3>2. AfterCreated(req[r]) # "stopped" /\ AfterFinish(r) # "stopped"
      BY <3>1, NextStages DEF AfterFinish
    <3>3. CASE GetInfo(r)
      <4>1. \A i : AfterGetInfo(req[r], i) # "stopped"
        BY <3>1, <3>2, ConstantsAssumption DEF AfterGetInfo, Request, AllOps, PostOps
      <4> QED BY <3>1, <3>3, <4>1 DEF GetInfo, Fail, Goto, registry
    <3>4. CASE NotifyStep(r)
      BY <3>1, <3>2, <3>4 DEF NotifyStep, NotifyCreated, NotifyComplete, NotifyTerminated,
                              Goto, registry
    <3> QED BY <1>2, <3>3, <3>4
  <2> QED BY <2>1 DEF StopFree, TypeInv, TypeOK
<1>3. ASSUME NEW r \in Req,
             \/ Acquire(r) \/ LockTimeout(r) \/ RejectPatch(r) \/ PatchOfComplete(r)
             \/ AcceptPatch(r) \/ DeclareLength(r) \/ RejectChunk(r) \/ DeclareReceived(r)
             \/ Copy(r) \/ Terminate(r) \/ Respond(r)
      PROVE  StopFree'
  BY <1>3 DEF Acquire, LockTimeout, RejectPatch, PatchOfComplete, AcceptPatch, DeclareLength,
              RejectChunk, DeclareReceived, Copy, Terminate, Respond, Fail, Goto, registry,
              StopFree, TypeInv, TypeOK
<1>4. ASSUME NEW r \in Req, BeginChunk(r) \/ EndChunk(r) PROVE StopFree'
  <2>1. /\ reader' = [reader EXCEPT ![r] = reader'[r]]
        /\ reader'[r].err = "none"
    BY <1>4 DEF BeginChunk, EndChunk, NoReader, TypeInv, TypeOK
  <2>2. \E stage \in {"write", "declare", "respond"} : pc' = [pc EXCEPT ![r] = stage]
    BY <1>4 DEF BeginChunk, EndChunk, Goto
  <2>3. UNCHANGED stopping
    BY <1>4 DEF BeginChunk, EndChunk
  <2> QED BY <2>1, <2>2, <2>3 DEF StopFree, TypeInv, TypeOK
<1>5. ASSUME NEW r \in Req, EndWrite(r) \/ FinishUpload(r) PROVE StopFree'
  <2>1. /\ UNCHANGED <<stopping, reader>>
        /\ \E stage \in {"finish", "completed", "unregister", "respond"} :
             pc' = [pc EXCEPT ![r] = stage]
    <3>1. BodyError(r) # "stopped"
      BY DEF BodyError, StopFree
    <3> QED BY <1>5, <3>1 DEF EndWrite, FinishUpload, AfterFinish, Goto, registry
  <2> QED BY <2>1 DEF StopFree, TypeInv, TypeOK
<1>6. ASSUME NEW r \in Req, TerminateStopped(r) PROVE StopFree'
  BY <1>6 DEF TerminateStopped, StopFree
<1>7. ASSUME NEW r \in Req, ClientStep(r) PROVE StopFree'
  <2>1. /\ UNCHANGED <<stopping, pc>>
        /\ reader \in [Req -> Reader] /\ reader[r].err # "lastRead"
    BY <1>7 DEF ClientStep, ReadByte, BodyEnds, BodyFails, registry, StopFree, TypeInv, TypeOK
  <2>2. CASE ReadByte(r)
    <3>1. reader'[r].err = "none" /\ \A s \in Req : s # r => reader'[s] = reader[s]
      BY <2>1, <2>2, ReadCounts DEF ErrAfterRead
    <3> QED BY <2>1, <3>1 DEF StopFree
  <2>3. CASE BodyEnds(r) \/ BodyFails(r)
    <3>1. \E e \in {"eof", "failed"} : reader' = [reader EXCEPT ![r].err = e]
      BY <2>1, <2>3 DEF BodyEnds, BodyFails, ErrAfterRead
    <3> QED BY <2>1, <3>1 DEF StopFree, Reader
  <2> QED BY <1>7, <2>2, <2>3 DEF ClientStep
<1>8. CASE LoadStop \/ FireStop
  BY <1>8 DEF LoadStop, FireStop, StopFree
<1>9. CASE Crash
  BY <1>9 DEF Crash, StopFree, NoReader
<1>10. CASE UNCHANGED vars
  BY <1>10 DEF vars, StopFree
<1> QED BY <1>1, <1>2, <1>3, <1>4, <1>5, <1>6, <1>7, <1>8, <1>9, <1>10
        DEF Next, ServerStep

(* Uploads are finished by whoever has them to itself, before a DELETE.      *)
LEMMA StepFinishLive ==
    ASSUME TypeInv, LockInv, DataInv, FinishInv, StopFree, FinishLive, [Next]_vars
    PROVE  FinishLive'
<1>1. ASSUME NEW r \in Req, Begin(r) \/ NewUpload(r) PROVE FinishLive'
  <2>1. /\ pc'[r] # "finish"
        /\ \A s \in Req : s # r => pc'[s] = pc[s] /\ req'[s] = req[s]
    BY <1>1 DEF Begin, NewUpload, Goto, TypeInv, TypeOK
  <2>2. \A u \in Upload : status[u] = "live" => status'[u] = "live"
    BY <1>1 DEF Begin, NewUpload, storage, TypeInv, TypeOK
  <2>3. \A s \in Req : pc[s] = "finish" => req[s].id \in Upload
    BY BusyUpload DEF Busy, Wrote
  <2> QED BY <2>1, <2>2, <2>3 DEF FinishLive
<1>2. ASSUME NEW r \in Req, ServerStep(r) \/ NotifyStep(r), ~Terminate(r)
      PROVE  FinishLive'
  <2>1. UNCHANGED status
    BY <1>2 DEF ServerStep, GetInfo, Acquire, LockTimeout, RejectPatch, PatchOfComplete,
                AcceptPatch, DeclareLength, RejectChunk, BeginChunk, EndWrite,
                TerminateStopped, FinishUpload, EndChunk, DeclareReceived, Copy, Respond,
                NotifyStep, NotifyCreated, NotifyComplete, NotifyTerminated, storage, StopFree
  <2>2. /\ \A s \in Req : s # r => pc'[s] = pc[s] /\ req'[s] = req[s]
        /\ pc'[r] = "finish" => req'[r] = req[r]
    BY <1>2 DEF ServerStep, GetInfo, Acquire, LockTimeout, RejectPatch, PatchOfComplete,
                AcceptPatch, DeclareLength, RejectChunk, BeginChunk, EndWrite,
                TerminateStopped, FinishUpload, EndChunk, DeclareReceived, Copy, Respond,
                NotifyStep, NotifyCreated, NotifyComplete, NotifyTerminated,
                Fail, Goto, TypeInv, TypeOK
  <2>3. pc'[r] = "finish" => status[req[r].id] = "live"
    <3>1. CASE GetInfo(r) \/ DeclareReceived(r)
      BY <3>1 DEF GetInfo, DeclareReceived, Fail, Goto, TypeInv, TypeOK
    <3>2. CASE NotifyCreated(r) \/ EndWrite(r)
      <4>1. Holds(r)
        BY <3>2 DEF NotifyCreated, EndWrite, FinishInv, Ready, Holds
      <4> QED BY <4>1 DEF DataInv, Snapshot
    <3>3. CASE pc'[r] # "finish"
      BY <3>3
    <3> QED
      BY <1>2, <3>1, <3>2, <3>3
         DEF ServerStep, Acquire, LockTimeout, RejectPatch, PatchOfComplete,
             AcceptPatch, DeclareLength, RejectChunk, BeginChunk, TerminateStopped,
             FinishUpload, AfterFinish, EndChunk, Copy, Respond, NotifyStep,
             NotifyComplete, NotifyTerminated, Fail, Goto, StopFree, TypeInv, TypeOK
  <2> QED BY <2>1, <2>2, <2>3 DEF FinishLive
<1>3. ASSUME NEW r \in Req, Terminate(r) PROVE FinishLive'
  <2>1. /\ pc[r] = "terminate" /\ req[r].id \in Upload
        /\ pc'[r] # "finish" /\ UNCHANGED req
        /\ \A s \in Req : s # r => pc'[s] = pc[s]
        /\ \A u \in Upload : u # req[r].id => status'[u] = status[u]
    BY <1>3 DEF Terminate, Fail, Goto, storage, TypeInv, TypeOK, Serving, Request
  <2>2. Relies(r)
    BY <2>1, ReliesFacts DEF LockedStage
  <2>3. \A s \in Req : s # r /\ pc[s] = "finish" => req[s].id \in Upload /\ req[s].id # req[r].id
    BY <2>1, <2>2, BusyUpload, NobodyElseBusy DEF Busy, Wrote
  <2> QED BY <2>1, <2>3 DEF FinishLive
<1>4. ASSUME NEW r \in Req, ClientStep(r) PROVE FinishLive'
  BY <1>4 DEF ClientStep, ReadByte, BodyEnds, BodyFails, storage, FinishLive
<1>5. CASE LoadStop \/ FireStop \/ UNCHANGED vars
  BY <1>5 DEF LoadStop, FireStop, vars, storage, FinishLive
<1>6. CASE Crash
  BY <1>6 DEF Crash, FinishLive
<1> QED BY <1>1, <1>2, <1>3, <1>4, <1>5, <1>6 DEF Next, ServerStep

(* Where no stop hook is configured, an upload that was terminated is not    *)
(* reported as completed; with one, run stop_after_last_byte refutes it.     *)
THEOREM NoCompletionAfterTerminationHolds ==
    ASSUME "earlyIds" \notin Faults, "stopHook" \notin Features
    PROVE  Spec => NoCompletionAfterTermination
<1> DEFINE Kept == \A u \in Upload : status[u] = "gone" => finished'[u] = finished[u]
<1>1. Init => StopFree /\ FinishLive
  BY DEF Init, StopFree, FinishLive, NoReader
<1>2. Spec => [](TypeInv /\ LockInv /\ DataInv /\ FinishInv)
  BY TypeInvariant, LockInvariant, DataInvariant, FinishInvariant, PTL
<1>3. TypeInv /\ LockInv /\ DataInv /\ FinishInv /\ StopFree /\ FinishLive /\ [Next]_vars
        => StopFree' /\ FinishLive'
  BY StepStopFree, StepFinishLive
<1>4. ASSUME TypeInv, FinishLive, [Next]_vars PROVE Kept
  <2>1. ASSUME NEW r \in Req, FinishUpload(r) PROVE Kept
    BY <1>4, <2>1 DEF FinishUpload, FinishLive, TypeInv, TypeOK
  <2>2. CASE \A r \in Req : ~FinishUpload(r)
    <3>1. UNCHANGED finished
      BY <1>4, <2>2
         DEF Next, Begin, NewUpload, ServerStep, GetInfo, Acquire, LockTimeout, RejectPatch,
             PatchOfComplete, AcceptPatch, DeclareLength, RejectChunk, BeginChunk, EndWrite,
             TerminateStopped, EndChunk, DeclareReceived, Copy, Terminate, Respond,
             ClientStep, ReadByte, BodyEnds, BodyFails, NotifyStep, NotifyCreated,
             NotifyComplete, NotifyTerminated, LoadStop, FireStop, Crash, vars, history
    <3> QED BY <3>1
  <2> QED BY <2>1, <2>2
<1>5. TypeInv /\ FinishLive /\ [Next]_vars => [Kept]_vars
  BY <1>4
<1> QED BY <1>1, <1>2, <1>3, <1>5, PTL DEF Spec, NoCompletionAfterTermination

=============================================================================
