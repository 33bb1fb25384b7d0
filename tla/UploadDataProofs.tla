-------------------------- MODULE UploadDataProofs --------------------------
(***************************************************************************)
(* Proofs about the data of UploadHandler: offsets, snapshots, completion. *)
(* They assume that no id is used before its POST has answered, without    *)
(* which run early_ids refutes them.                                       *)
(*                                                                         *)
(* Part 1 proves DataInv: a request that will write, or decide, on a copy  *)
(* of the FileInfo (Holds) has a current one, because it has the lock or   *)
(* is a POST, which is alone on its upload.  Part 2 adds FinishInv.        *)
(***************************************************************************)
EXTENDS UploadHandlerProofs

Serves(r, u) == pc[r] # "idle" /\ req[r].id = u

(* A request in service is for an upload that was created. *)
Known == \A r \in Req : pc[r] # "idle" => status[req[r].id] # "free"

(* A POST in progress is the only request for its upload. *)
Alone ==
    \A r, s \in Req :
        r # s /\ pc[r] # "idle" /\ Serves(s, req[r].id) => req[r].op \notin PostOps

Fresh == \A u \in Upload : status[u] = "free" => acked[u] = 0

Holds(r) ==
    \/ pc[r] \in {"check", "chunk", "write", "copy"}
    \/ pc[r] \in {"created", "lock"} /\ req[r].op \in PostOps

Snapshot ==
    \A r \in Req :
        Holds(r) => status[req[r].id] = "live" /\ info[r] = store[req[r].id]

(* A copy that is not used any more may be old, but is not ahead. *)
Behind ==
    \A r \in Req :
        /\ pc[r] = "idle" => info[r].offset = 0
        /\ pc[r] # "idle" /\ status[req[r].id] = "live" =>
             info[r].offset <= store[req[r].id].offset

(* What a writer reads, and may still read, fits. *)
WriteFits ==
    \A r \in Req :
        pc[r] = "write" /\ ~info[r].deferred =>
            /\ info[r].offset + reader[r].read <= info[r].size
            /\ info[r].offset + req[r].length <= info[r].size

DataInv ==
    /\ Known /\ Alone /\ Fresh /\ Snapshot /\ Behind /\ WriteFits
    /\ OffsetWithinSize /\ AckedNeverLost

(* The initial state: every upload is free and every slot idle.              *)
LEMMA InitData == Init => DataInv
  BY DEF Init, NoInfo, DataInv, Known, Alone, Fresh, Snapshot, Holds, Behind, WriteFits,
         OffsetWithinSize, AckedNeverLost

(* While r has the lock, or is a POST, nobody else holds a copy it will use. *)
LEMMA NobodyElseHolds ==
    ASSUME LockInv, DataInv, NEW r \in Req, NEW s \in Req, r # s,
           pc[r] # "idle", Relies(r) \/ req[r].op \in PostOps, Holds(s)
    PROVE  req[s].id # req[r].id
<1> SUFFICES ASSUME req[s].id = req[r].id PROVE FALSE
  OBVIOUS
<1>1. pc[s] # "idle"
  BY DEF Holds
<1>2. req[r].op \notin PostOps /\ req[s].op \notin PostOps
  BY <1>1 DEF DataInv, Alone, Serves
<1>3. pc[s] \in LockedStage
  BY <1>2 DEF Holds, LockedStage
<1>4. Relies(s)
  BY <1>3, ReliesFacts
<1> QED BY <1>2, <1>4, ReliesFacts

(* A step that moves r on, reading or stopping bodies perhaps, and leaves    *)
(* the data alone: it may not enter a stage that uses the copy if it was not *)
(* in one.                                                                   *)
LEMMA MoveData ==
    ASSUME TypeInv, DataInv, NEW r \in Req, NEW stage \in Stage \ {"idle"},
           pc[r] # "idle", pc' = [pc EXCEPT ![r] = stage],
           UNCHANGED <<status, store, req, info, acked>>,
           stage \in {"check", "chunk", "write", "copy"} => Holds(r),
           stage \in {"created", "lock"} /\ req[r].op \in PostOps => Holds(r),
           \A s \in Req : s # r => reader'[s].read = reader[s].read,
           stage = "write" /\ ~info[r].deferred =>
               /\ info[r].offset + reader'[r].read <= info[r].size
               /\ info[r].offset + req[r].length <= info[r].size
    PROVE  DataInv'
<1>1. /\ pc'[r] = stage /\ stage # "idle"
      /\ \A s \in Req : s # r => pc'[s] = pc[s]
  BY DEF TypeInv, TypeOK
<1>2. \A s \in Req : pc'[s] # "idle" <=> pc[s] # "idle"
  BY <1>1
<1>3. Known' /\ Alone' /\ Fresh' /\ Behind'
  BY <1>2 DEF DataInv, Known, Alone, Serves, Fresh, Behind
<1>4. Snapshot'
  BY <1>1 DEF DataInv, Snapshot, Holds
<1>5. WriteFits'
  BY <1>1 DEF DataInv, WriteFits
<1>6. OffsetWithinSize' /\ AckedNeverLost'
  BY DEF DataInv, OffsetWithinSize, AckedNeverLost
<1> QED BY <1>3, <1>4, <1>5, <1>6 DEF DataInv

(* A step that moves nobody: the body reader's error, the registry.          *)
LEMMA StutterData ==
    ASSUME DataInv, UNCHANGED <<pc, status, store, req, info, acked>>,
           \A s \in Req : reader'[s].read = reader[s].read
    PROVE  DataInv'
  BY DEF DataInv, Known, Alone, Serves, Fresh, Snapshot, Holds, Behind, WriteFits,
         OffsetWithinSize, AckedNeverLost

(* A step in which r, under the lock, gives the store and its copy the same  *)
(* new value: bytes are only added, and they fit.                            *)
LEMMA UpdateData ==
    ASSUME TypeInv, LockInv, DataInv, NEW r \in Req, NEW stage \in Stage, NEW i \in FileInfo,
           pc[r] # "idle", Relies(r), status[req[r].id] = "live",
           stage \in {"chunk", "stopped", "finish"}, pc' = [pc EXCEPT ![r] = stage],
           store' = [store EXCEPT ![req[r].id] = i], info' = [info EXCEPT ![r] = i],
           UNCHANGED <<status, req, reader, acked>>,
           i.offset >= store[req[r].id].offset,
           ~i.deferred => i.offset <= i.size
    PROVE  DataInv'
<1> DEFINE u == req[r].id
<1>1. /\ u \in Upload /\ pc'[r] = stage /\ stage \notin {"idle", "write"}
      /\ info'[r] = i /\ store'[u] = i
      /\ \A s \in Req : s # r => pc'[s] = pc[s] /\ info'[s] = info[s]
      /\ \A v \in Upload : v # u => store'[v] = store[v]
  BY DEF TypeInv, TypeOK, Serving, Request
<1>2. \A s \in Req : pc'[s] # "idle" => pc[s] # "idle" /\ req[s].id \in Upload
  BY <1>1 DEF TypeInv, Serving, Request
<1>3. \A s \in Req : s # r /\ Holds(s) => req[s].id # u
  BY NobodyElseHolds
<1>4. Known' /\ Alone' /\ Fresh'
  BY <1>2 DEF DataInv, Known, Alone, Serves, Fresh
<1>5. Snapshot'
  <2> SUFFICES ASSUME NEW s \in Req, Holds(s)'
               PROVE  status[req[s].id] = "live" /\ info'[s] = store'[req[s].id]
    BY DEF Snapshot
  <2>1. CASE s = r
    BY <1>1, <2>1
  <2>2. CASE s # r
    <3>1. Holds(s) /\ pc'[s] # "idle"
      BY <1>1, <2>2 DEF Holds
    <3>2. req[s].id \in Upload /\ req[s].id # u
      BY <1>2, <1>3, <2>2, <3>1
    <3> QED BY <1>1, <2>2, <3>1, <3>2 DEF DataInv, Snapshot
  <2> QED BY <2>1, <2>2
<1>6. Behind'
  <2> SUFFICES ASSUME NEW s \in Req
               PROVE  /\ pc'[s] = "idle" => info'[s].offset = 0
                      /\ pc'[s] # "idle" /\ status[req[s].id] = "live" =>
                           info'[s].offset <= store'[req[s].id].offset
    BY DEF Behind
  <2>1. i.offset \in Nat /\ store[u].offset \in Nat /\ info[s].offset \in Nat
    BY <1>1, ConstantsAssumption DEF TypeInv, TypeOK, FileInfo
  <2>2. CASE s = r
    BY <1>1, <2>1, <2>2
  <2>3. CASE s # r /\ req[s].id = u
    BY <1>1, <2>1, <2>3 DEF DataInv, Behind
  <2>4. CASE s # r /\ req[s].id # u
    BY <1>1, <1>2, <2>4 DEF DataInv, Behind
  <2> QED BY <2>2, <2>3, <2>4
<1>7. WriteFits'
  BY <1>1 DEF DataInv, WriteFits
<1>8. OffsetWithinSize'
  BY <1>1 DEF DataInv, OffsetWithinSize
<1>9. AckedNeverLost'
  <2> SUFFICES ASSUME NEW v \in Upload, status[v] = "live" PROVE acked[v] <= store'[v].offset
    BY DEF AckedNeverLost
  <2>1. acked[v] <= store[v].offset
    BY DEF DataInv, AckedNeverLost
  <2>2. acked[v] \in Nat /\ store[v].offset \in Nat /\ i.offset \in Nat
    BY ConstantsAssumption DEF TypeInv, TypeOK, FileInfo
  <2> QED BY <1>1, <2>1, <2>2
<1> QED BY <1>4, <1>5, <1>6, <1>7, <1>8, <1>9 DEF DataInv

(* Begin: the request is not a POST, and its upload has no POST in progress. *)
LEMMA BeginData ==
    ASSUME "earlyIds" \notin Faults, TypeInv, DataInv, NEW r \in Req, Begin(r)
    PROVE  DataInv'
<1>1. PICK u \in Upload : /\ Addressable(u)
                          /\ \E q \in PatchRequests(u) \cup OtherRequests(u) :
                               req' = [req EXCEPT ![r] = q]
  BY DEF Begin
<1>2. \E q : req' = [req EXCEPT ![r] = q] /\ q.id = u /\ q.op \notin PostOps
  BY <1>1 DEF PatchRequests, OtherRequests, NoRequest, PostOps
<1>3. /\ req'[r].id = u /\ req'[r].op \notin PostOps
      /\ \A s \in Req : s # r => req'[s] = req[s]
  BY <1>2 DEF TypeInv, TypeOK
<1>4. /\ pc[r] = "idle" /\ pc'[r] = "lock"
      /\ \A s \in Req : s # r => pc'[s] = pc[s]
      /\ UNCHANGED <<status, store, info, reader, acked>>
  BY DEF Begin, Goto, storage, history, TypeInv, TypeOK
<1>5. /\ status[u] # "free"
      /\ \A s \in Req : pc[s] # "idle" /\ req[s].id = u => req[s].op \notin PostOps
  BY <1>1 DEF Addressable
<1>6. Known' /\ Fresh'
  BY <1>3, <1>4, <1>5 DEF DataInv, Known, Fresh
<1>7. Alone'
  BY <1>3, <1>4, <1>5 DEF DataInv, Alone, Serves
<1>8. Snapshot' /\ WriteFits'
  BY <1>3, <1>4 DEF DataInv, Snapshot, Holds, WriteFits
<1>9. Behind'
  <2>1. info[r].offset = 0 /\ store[u].offset >= 0
    BY <1>4, ConstantsAssumption DEF DataInv, Behind, TypeInv, TypeOK, FileInfo
  <2> QED BY <1>3, <1>4, <2>1 DEF DataInv, Behind
<1>10. OffsetWithinSize' /\ AckedNeverLost'
  BY <1>4 DEF DataInv, OffsetWithinSize, AckedNeverLost
<1> QED BY <1>6, <1>7, <1>8, <1>9, <1>10 DEF DataInv

(* NewUpload: nobody serves an upload that does not exist yet.               *)
LEMMA NewUploadData ==
    ASSUME TypeInv, DataInv, NEW r \in Req, NewUpload(r)
    PROVE  DataInv'
<1>1. PICK u \in Upload :
        /\ status[u] = "free"
        /\ \E q \in PostRequests(u) :
             LET size == NewUploadLength(q)
             IN /\ req' = [req EXCEPT ![r] = q]
                /\ status' = [status EXCEPT ![u] = "live"]
                /\ store' = [store EXCEPT ![u] =
                      [size |-> IF size = NoLength THEN 0 ELSE size,
                       deferred |-> size = NoLength, offset |-> 0]]
  BY DEF NewUpload
<1>2. PICK q \in PostRequests(u) :
        LET size == NewUploadLength(q)
        IN /\ req' = [req EXCEPT ![r] = q]
           /\ status' = [status EXCEPT ![u] = "live"]
           /\ store' = [store EXCEPT ![u] =
                 [size |-> IF size = NoLength THEN 0 ELSE size,
                  deferred |-> size = NoLength, offset |-> 0]]
  BY <1>1
<1>3. /\ q.id = u
      /\ NewUploadLength(q) \in -1 .. MaxLen
  BY PostRequestTypes
<1>4. /\ req'[r].id = u
      /\ \A s \in Req : s # r => req'[s] = req[s]
      /\ status'[u] = "live"
      /\ store'[u].offset = 0
      /\ ~store'[u].deferred => store'[u].size >= 0
      /\ \A v \in Upload : v # u => status'[v] = status[v] /\ store'[v] = store[v]
  BY <1>2, <1>3 DEF NoLength, TypeInv, TypeOK
<1>5. /\ pc[r] = "idle" /\ pc'[r] = "getinfo"
      /\ \A s \in Req : s # r => pc'[s] = pc[s]
      /\ UNCHANGED <<info, reader, acked>>
  BY DEF NewUpload, Goto, history, TypeInv, TypeOK
<1>6. \A s \in Req : pc[s] # "idle" => req[s].id \in Upload /\ req[s].id # u
  BY <1>1 DEF DataInv, Known, TypeInv, Serving, Request
<1>7. Known' /\ Fresh'
  BY <1>4, <1>5, <1>6 DEF DataInv, Known, Fresh
<1>8. Alone'
  BY <1>4, <1>5, <1>6 DEF DataInv, Alone, Serves
<1>9. Snapshot'
  BY <1>4, <1>5, <1>6 DEF DataInv, Snapshot, Holds
<1>10. Behind'
  <2>1. info[r].offset = 0
    BY <1>5 DEF DataInv, Behind
  <2> QED BY <1>4, <1>5, <1>6, <2>1 DEF DataInv, Behind
<1>11. WriteFits'
  BY <1>4, <1>5 DEF DataInv, WriteFits
<1>12. OffsetWithinSize'
  BY <1>4 DEF DataInv, OffsetWithinSize
<1>13. AckedNeverLost'
  BY <1>1, <1>4, <1>5 DEF DataInv, Fresh, AckedNeverLost
<1> QED BY <1>7, <1>8, <1>9, <1>10, <1>11, <1>12, <1>13 DEF DataInv

(* GetInfo: the copy is made now.                                            *)
LEMMA GetInfoData ==
    ASSUME TypeInv, DataInv, NEW r \in Req, GetInfo(r)
    PROVE  DataInv'
<1> DEFINE u == req[r].id
<1>1. /\ pc[r] = "getinfo" /\ u \in Upload /\ req[r] \in Request
      /\ UNCHANGED <<status, store, req, reader, acked>>
  BY DEF GetInfo, storage, history, TypeInv, Serving, Request
<1>2. CASE Fail(r) /\ UNCHANGED info
  BY <1>1, <1>2, MoveData DEF Fail, Goto, Stage
<1>3. CASE /\ status[u] = "live"
           /\ info' = [info EXCEPT ![r] = store[u]]
           /\ Goto(r, AfterGetInfo(req[r], store[u]))
  <2>1. /\ AfterGetInfo(req[r], store[u]) \notin {"idle", "write"}
        /\ AfterGetInfo(req[r], store[u]) \in Stage
    <3>1. store[u] \in FileInfo
      BY <1>1 DEF TypeInv, TypeOK
    <3>2. AfterGetInfo(req[r], store[u])
            \in {"created", "lock", "finish", "respond", "check", "copy", "terminate"}
      BY <1>1, <3>1, NextStages
    <3> QED BY <3>2 DEF Stage
  <2>2. /\ pc'[r] \notin {"idle", "write"}
        /\ info'[r] = store[u]
        /\ \A s \in Req : s # r => pc'[s] = pc[s] /\ info'[s] = info[s]
    BY <1>3, <2>1 DEF Goto, TypeInv, TypeOK
  <2>3. Known' /\ Alone' /\ Fresh'
    BY <1>1, <2>2 DEF DataInv, Known, Alone, Serves, Fresh
  <2>4. Snapshot'
    BY <1>1, <1>3, <2>2 DEF DataInv, Snapshot, Holds
  <2>5. Behind'
    <3>1. store[u].offset <= store[u].offset
      BY <1>1, ConstantsAssumption DEF TypeInv, TypeOK, FileInfo
    <3> QED BY <1>1, <2>2, <3>1 DEF DataInv, Behind
  <2>6. WriteFits'
    BY <1>1, <2>2 DEF DataInv, WriteFits
  <2>7. OffsetWithinSize' /\ AckedNeverLost'
    BY <1>1 DEF DataInv, OffsetWithinSize, AckedNeverLost
  <2> QED BY <2>3, <2>4, <2>5, <2>6, <2>7 DEF DataInv
<1> QED BY <1>2, <1>3 DEF GetInfo

(* The steps that only move r from one stage to another.                     *)
LEMMA StageData ==
    ASSUME TypeInv, DataInv, NEW r \in Req,
           \/ Acquire(r) \/ LockTimeout(r) \/ RejectPatch(r) \/ PatchOfComplete(r)
           \/ AcceptPatch(r) \/ RejectChunk(r) \/ FinishUpload(r) \/ EndChunk(r)
           \/ Copy(r) \/ NotifyStep(r)
    PROVE  DataInv'
<1>1. UNCHANGED <<status, store, req, info, acked>>
  BY DEF Acquire, LockTimeout, RejectPatch, PatchOfComplete, AcceptPatch, RejectChunk,
         FinishUpload, EndChunk, Copy, NotifyStep, NotifyCreated, NotifyComplete,
         NotifyTerminated, storage, history
<1>2. \A s \in Req : s # r => reader'[s] = reader[s]
  BY DEF Acquire, LockTimeout, RejectPatch, PatchOfComplete, AcceptPatch, RejectChunk,
         FinishUpload, EndChunk, Copy, NotifyStep, NotifyCreated, NotifyComplete,
         NotifyTerminated, TypeInv, TypeOK
<1>3. CASE Acquire(r)
  <2>1. CASE req[r].op \in PostOps
    BY <1>1, <1>2, <1>3, <2>1, MoveData DEF Acquire, Goto, Holds, Stage
  <2>2. CASE req[r].op \notin PostOps
    BY <1>1, <1>2, <1>3, <2>2, MoveData DEF Acquire, Goto, Stage
  <2> QED BY <2>1, <2>2
<1>4. CASE LockTimeout(r) \/ RejectPatch(r) \/ PatchOfComplete(r) \/ RejectChunk(r) \/ Copy(r)
  <2>1. pc' = [pc EXCEPT ![r] = "respond"] /\ pc[r] # "idle"
    BY <1>4 DEF LockTimeout, RejectPatch, PatchOfComplete, RejectChunk, Copy, Fail, Goto
  <2> QED BY <1>1, <1>2, <2>1, MoveData DEF Stage
<1>5. CASE AcceptPatch(r)
  BY <1>1, <1>2, <1>5, MoveData DEF AcceptPatch, Goto, Holds, Stage
<1>6. CASE \/ FinishUpload(r) \/ EndChunk(r) \/ NotifyComplete(r) \/ NotifyTerminated(r)
  <2>1. /\ pc[r] # "idle"
        /\ \E stage \in {"respond", "unregister", "completed", "declare"} :
             pc' = [pc EXCEPT ![r] = stage]
    BY <1>6 DEF FinishUpload, EndChunk, NotifyComplete, NotifyTerminated, AfterFinish, Goto
  <2>2. PICK stage \in {"respond", "unregister", "completed", "declare"} :
          pc' = [pc EXCEPT ![r] = stage]
    BY <2>1
  <2> QED BY <1>1, <1>2, <2>1, <2>2, MoveData DEF Stage
<1>7. CASE NotifyCreated(r)
  <2>1. pc[r] = "created" /\ pc' = [pc EXCEPT ![r] = AfterCreated(req[r])]
    BY <1>7 DEF NotifyCreated, Goto
  <2>2. AfterCreated(req[r]) \in {"lock", "finish", "respond"}
    BY <2>1, NextStages DEF TypeInv, Serving
  <2> QED BY <1>1, <1>2, <2>1, <2>2, MoveData DEF Holds, Stage
<1> QED BY <1>3, <1>4, <1>5, <1>6, <1>7 DEF NotifyStep

(* BeginChunk: a chunk is accepted only if it fits.                          *)
LEMMA BeginChunkData ==
    ASSUME TypeInv, DataInv, NEW r \in Req, BeginChunk(r)
    PROVE  DataInv'
<1>1. /\ pc[r] = "chunk" /\ pc' = [pc EXCEPT ![r] = "write"]
      /\ Fits(req[r], info[r]) /\ req[r].length # NoBody
      /\ reader' = [reader EXCEPT ![r] = [NoReader EXCEPT !.open = TRUE]]
      /\ UNCHANGED <<status, store, req, info, acked>>
  BY DEF BeginChunk, Goto, storage, history
<1>2. /\ reader'[r].read = 0
      /\ \A s \in Req : s # r => reader'[s] = reader[s]
  BY <1>1, FreshRecords DEF TypeInv, TypeOK
<1>3. /\ info[r] = store[req[r].id] /\ status[req[r].id] = "live"
      /\ req[r].id \in Upload /\ req[r].length \in Int
  BY <1>1, ConstantsAssumption
     DEF DataInv, Snapshot, Holds, TypeInv, Serving, Request
<1>4. ~info[r].deferred => info[r].offset <= info[r].size
  BY <1>3 DEF DataInv, OffsetWithinSize
<1>5. ~info[r].deferred => info[r].offset + req[r].length <= info[r].size
  BY <1>1, <1>3 DEF Fits, ContentLength
<1>6. info[r].offset \in Nat
  BY ConstantsAssumption DEF TypeInv, TypeOK, FileInfo
<1>7. ~info[r].deferred => info[r].offset + reader'[r].read <= info[r].size
  BY <1>2, <1>4, <1>6
<1> QED BY <1>1, <1>2, <1>5, <1>7, MoveData DEF Holds, Stage

(* ReadByte stays below the limit; the other client steps read nothing.      *)
LEMMA ClientStepData ==
    ASSUME TypeInv, DataInv, NEW r \in Req, ClientStep(r)
    PROVE  DataInv'
<1>1. /\ pc[r] = "write" /\ req[r] \in Request /\ reader[r] \in Reader
      /\ UNCHANGED <<pc, status, store, req, info, acked>>
  BY DEF ClientStep, ReadByte, BodyEnds, BodyFails, Reading, storage, history,
         TypeInv, TypeOK, Serving
<1>2. CASE BodyEnds(r) \/ BodyFails(r)
  <2>1. \A s \in Req : reader'[s].read = reader[s].read
    BY <1>2, CountsKept
  <2> QED BY <1>1, <2>1, StutterData
<1>3. CASE ReadByte(r)
  <2>1. reader[r].read < BodyLimit(req[r], info[r])
    <3>1. reader[r].read \in Int /\ BodyLimit(req[r], info[r]) \in Int
      BY <1>1, ConstantsAssumption
         DEF Reader, BodyLimit, Request, TypeInv, TypeOK, FileInfo
    <3> QED BY <1>3, <3>1 DEF ReadByte, Reading, LimitReached
  <2>2. /\ reader'[r].read = reader[r].read + 1
        /\ \A s \in Req : s # r => reader'[s] = reader[s]
    BY <1>3, ReadCounts
  <2>3. /\ info[r].offset \in Nat /\ info[r].size \in Nat /\ reader[r].read \in Nat
        /\ req[r].length \in Int
    BY <1>1, ConstantsAssumption DEF TypeInv, TypeOK, FileInfo, Reader, Request
  <2>4. ~info[r].deferred => info[r].offset + req[r].length <= info[r].size
    BY <1>1 DEF DataInv, WriteFits
  <2>5. ~info[r].deferred => info[r].offset + reader'[r].read <= info[r].size
    <3>1. CASE req[r].length > 0
      <4>1. BodyLimit(req[r], info[r]) = req[r].length
        BY <2>3, <3>1 DEF BodyLimit
      <4> QED BY <2>1, <2>2, <2>3, <2>4, <4>1
    <3>2. CASE ~(req[r].length > 0)
      <4>1. ~info[r].deferred => BodyLimit(req[r], info[r]) = info[r].size - info[r].offset
        BY <2>3, <3>2 DEF BodyLimit
      <4> QED BY <2>1, <2>2, <2>3, <4>1
    <3> QED BY <3>1, <3>2
  <2>6. pc' = [pc EXCEPT ![r] = "write"]
    BY <1>1 DEF TypeInv, TypeOK
  <2> QED BY <1>1, <2>2, <2>4, <2>5, <2>6, MoveData DEF Holds, Stage
<1> QED BY <1>2, <1>3 DEF ClientStep

(* DeclareLength: a length below the stored bytes is refused.                *)
LEMMA DeclareLengthData ==
    ASSUME TypeInv, LockInv, DataInv, NEW r \in Req, DeclareLength(r)
    PROVE  DataInv'
<1> DEFINE u == req[r].id
           len == req[r].newLen
           i == [info[r] EXCEPT !.size = len, !.deferred = FALSE]
<1>1. /\ pc[r] = "check" /\ req[r] \in Request /\ u \in Upload
      /\ len # NoLength /\ AcceptsLength(req[r], info[r])
      /\ UNCHANGED <<status, req, reader, acked>>
  BY DEF DeclareLength, history, TypeInv, Serving, Request
<1>2. status[u] = "live" /\ info[r] = store[u]
  BY <1>1 DEF DataInv, Snapshot, Holds
<1>3. CASE Fail(r) /\ UNCHANGED <<store, info>>
  BY <1>1, <1>3, MoveData DEF Fail, Goto, Stage
<1>4. CASE /\ store' = [store EXCEPT ![u].size = len, ![u].deferred = FALSE]
           /\ info' = [info EXCEPT ![r].size = len, ![r].deferred = FALSE]
           /\ Goto(r, "chunk")
  <2>1. store' = [store EXCEPT ![u] = i] /\ info' = [info EXCEPT ![r] = i]
    BY <1>1, <1>2, <1>4 DEF TypeInv, TypeOK
  <2>2. len \in 0 .. MaxLen
    BY <1>1, ConstantsAssumption DEF NoLength, Request
  <2>3. i \in FileInfo
    BY <2>2, FileInfoUpdates DEF TypeInv, TypeOK
  <2>4. i.offset = info[r].offset /\ i.size = len
    BY DEF TypeInv, TypeOK, FileInfo
  <2>5. i.offset <= i.size /\ i.offset >= store[u].offset
    BY <1>1, <1>2, <2>2, <2>4, ConstantsAssumption DEF AcceptsLength, TypeInv, TypeOK, FileInfo
  <2>6. Relies(r)
    BY <1>1, ReliesFacts DEF LockedStage
  <2> QED BY <1>1, <1>2, <1>4, <2>1, <2>3, <2>5, <2>6, UpdateData DEF Goto, Stage
<1> QED BY <1>3, <1>4 DEF DeclareLength

(* EndWrite: no more is stored than was read, after the bytes stored before. *)
LEMMA EndWriteData ==
    ASSUME TypeInv, LockInv, DataInv, NEW r \in Req, EndWrite(r)
    PROVE  DataInv'
<1> DEFINE u == req[r].id
<1>1. /\ pc[r] = "write" /\ req[r] \in Request /\ u \in Upload
      /\ UNCHANGED <<status, req, reader, acked>>
  BY DEF EndWrite, history, TypeInv, Serving, Request
<1>2. status[u] = "live" /\ info[r] = store[u]
  BY <1>1 DEF DataInv, Snapshot, Holds
<1>3. PICK n \in Stored(r) :
        /\ info' = [info EXCEPT ![r].offset = NewOffset(info[r], n)]
        /\ store' = IF status[u] = "live"
                      THEN [store EXCEPT ![u].offset = NewOffset(info[r], n)] ELSE store
  BY DEF EndWrite
<1> DEFINE i == [info[r] EXCEPT !.offset = info[r].offset + n]
<1>4. store' = [store EXCEPT ![u] = i] /\ info' = [info EXCEPT ![r] = i]
  BY <1>1, <1>2, <1>3 DEF NewOffset, TypeInv, TypeOK
<1>5. /\ n \in Nat /\ n <= reader[r].read /\ reader[r].read \in Nat
      /\ info[r].offset \in Nat /\ info[r].size \in Nat
  BY <1>2, ConstantsAssumption DEF Stored, TypeInv, TypeOK, Reader, FileInfo
<1>6. info[r].offset + n \in 0 .. MaxLen
  BY <1>1, <1>5, ConstantsAssumption DEF TypeInv, ReadBounded
<1>7. i \in FileInfo
  BY <1>6, FileInfoUpdates DEF TypeInv, TypeOK
<1>8. /\ i.offset = info[r].offset + n /\ i.size = info[r].size
      /\ i.deferred = info[r].deferred
  BY DEF TypeInv, TypeOK, FileInfo
<1>9. ~info[r].deferred => info[r].offset + reader[r].read <= info[r].size
  BY <1>1 DEF DataInv, WriteFits
<1>10. i.offset >= store[u].offset /\ (~i.deferred => i.offset <= i.size)
  BY <1>2, <1>5, <1>8, <1>9
<1>11. Relies(r)
  BY <1>1, ReliesFacts DEF LockedStage
<1>12. PICK stage \in {"stopped", "finish"} : pc' = [pc EXCEPT ![r] = stage]
  BY DEF EndWrite, Goto
<1> QED BY <1>1, <1>2, <1>4, <1>7, <1>10, <1>11, <1>12, UpdateData DEF Stage

(* DeclareReceived: the length becomes what is stored.                       *)
LEMMA DeclareReceivedData ==
    ASSUME TypeInv, LockInv, DataInv, NEW r \in Req, DeclareReceived(r)
    PROVE  DataInv'
<1> DEFINE u == req[r].id
           len == store[u].offset
           i == [store[u] EXCEPT !.size = len, !.deferred = FALSE]
<1>1. /\ pc[r] = "declare" /\ u \in Upload
      /\ UNCHANGED <<status, req, reader, acked>>
  BY DEF DeclareReceived, history, TypeInv, Serving, Request
<1>2. CASE Fail(r) /\ UNCHANGED <<store, info>>
  BY <1>1, <1>2, MoveData DEF Fail, Goto, Stage
<1>3. CASE /\ status[u] = "live"
           /\ store' = [store EXCEPT ![u].size = len, ![u].deferred = FALSE]
           /\ info' = [info EXCEPT ![r] = store'[u]]
           /\ Goto(r, "finish")
  <2>1. store' = [store EXCEPT ![u] = i]
    BY <1>1, <1>3 DEF TypeInv, TypeOK
  <2>2. info' = [info EXCEPT ![r] = i]
    BY <1>1, <1>3, <2>1 DEF TypeInv, TypeOK
  <2>3. store[u] \in FileInfo
    BY <1>1 DEF TypeInv, TypeOK
  <2>4. len \in 0 .. MaxLen
    BY <2>3 DEF FileInfo
  <2>5. i \in FileInfo
    BY <2>3, <2>4, FileInfoUpdates
  <2>6. i.offset = len /\ i.size = len
    BY <2>3 DEF FileInfo
  <2>7. i.offset >= len /\ i.offset <= i.size
    BY <2>4, <2>6, ConstantsAssumption
  <2>8. Relies(r)
    BY <1>1, ReliesFacts DEF LockedStage
  <2> QED BY <1>1, <1>3, <2>1, <2>2, <2>5, <2>7, <2>8, UpdateData DEF Goto, Stage
<1> QED BY <1>2, <1>3 DEF DeclareReceived

(* Terminate and TerminateStopped: nobody else holds a copy of what is gone. *)
LEMMA TerminateData ==
    ASSUME TypeInv, LockInv, DataInv, NEW r \in Req, Terminate(r) \/ TerminateStopped(r)
    PROVE  DataInv'
<1> DEFINE u == req[r].id
<1>1. /\ pc[r] \in {"terminate", "stopped"} /\ u \in Upload
      /\ UNCHANGED <<req, info, reader, acked>>
  BY DEF Terminate, TerminateStopped, history, TypeInv, Serving, Request
<1>2. PICK stage \in {"terminated", "respond", "finish"} : pc' = [pc EXCEPT ![r] = stage]
  BY DEF Terminate, TerminateStopped, Fail, Goto
<1>3. CASE UNCHANGED storage
  BY <1>1, <1>2, <1>3, MoveData DEF storage, Stage
<1>4. CASE /\ status' = [status EXCEPT ![u] = "gone"]
           /\ store' = [store EXCEPT ![u] = NoInfo]
  <2>1. /\ pc'[r] = stage /\ status'[u] = "gone"
        /\ \A s \in Req : s # r => pc'[s] = pc[s]
        /\ \A v \in Upload : v # u => status'[v] = status[v] /\ store'[v] = store[v]
    BY <1>1, <1>2, <1>4 DEF TypeInv, TypeOK
  <2>2. \A s \in Req : pc'[s] # "idle" => pc[s] # "idle" /\ req[s].id \in Upload
    BY <1>1, <2>1 DEF TypeInv, Serving, Request
  <2>3. Relies(r)
    BY <1>1, ReliesFacts DEF LockedStage
  <2>4. \A s \in Req : s # r /\ Holds(s) => req[s].id # u
    BY <1>1, <2>3, NobodyElseHolds
  <2>5. Known' /\ Alone' /\ Fresh'
    BY <1>1, <2>1, <2>2 DEF DataInv, Known, Alone, Serves, Fresh
  <2>6. Snapshot'
    <3> SUFFICES ASSUME NEW s \in Req, Holds(s)'
                 PROVE  status'[req[s].id] = "live" /\ info[s] = store'[req[s].id]
      BY <1>1 DEF Snapshot
    <3>1. s # r /\ Holds(s) /\ pc'[s] # "idle"
      BY <1>1, <2>1 DEF Holds
    <3>2. req[s].id \in Upload /\ req[s].id # u
      BY <2>2, <2>4, <3>1
    <3> QED BY <2>1, <3>1, <3>2 DEF DataInv, Snapshot
  <2>7. Behind'
    <3> SUFFICES ASSUME NEW s \in Req
                 PROVE  /\ pc'[s] = "idle" => info[s].offset = 0
                        /\ pc'[s] # "idle" /\ status'[req[s].id] = "live" =>
                             info[s].offset <= store'[req[s].id].offset
      BY <1>1 DEF Behind
    <3>1. CASE pc'[s] = "idle"
      BY <2>1, <3>1 DEF DataInv, Behind
    <3>2. CASE pc'[s] # "idle" /\ status'[req[s].id] = "live"
      <4>1. req[s].id \in Upload /\ req[s].id # u
        BY <2>1, <2>2, <3>2
      <4> QED BY <2>1, <2>2, <3>2, <4>1 DEF DataInv, Behind
    <3> QED BY <3>1, <3>2
  <2>8. WriteFits'
    BY <1>1, <2>1 DEF DataInv, WriteFits
  <2>9. OffsetWithinSize' /\ AckedNeverLost'
    BY <1>1, <2>1 DEF DataInv, OffsetWithinSize, AckedNeverLost
  <2> QED BY <2>5, <2>6, <2>7, <2>8, <2>9 DEF DataInv
<1> QED BY <1>3, <1>4 DEF Terminate, TerminateStopped

(* Respond: the client is told an offset that the store has.                 *)
LEMMA RespondData ==
    ASSUME TypeInv, DataInv, NEW r \in Req, Respond(r)
    PROVE  DataInv'
<1> DEFINE u == req[r].id
<1>1. /\ pc[r] = "respond" /\ u \in Upload
      /\ UNCHANGED <<status, store, reader>>
  BY DEF Respond, storage, TypeInv, Serving, Request
<1>2. /\ pc'[r] = "idle" /\ info'[r].offset = 0
      /\ \A s \in Req : s # r => /\ pc'[s] = pc[s] /\ req'[s] = req[s]
                                 /\ info'[s] = info[s]
  BY DEF Respond, Goto, NoInfo, TypeInv, TypeOK
<1>3. /\ \A v \in Upload : v # u => acked'[v] = acked[v]
      /\ acked'[u] = acked[u] \/ acked'[u] = info[r].offset
  BY <1>1 DEF Respond, Bigger, TypeInv, TypeOK
<1>4. Known' /\ Alone'
  BY <1>1, <1>2 DEF DataInv, Known, Alone, Serves
<1>5. Fresh'
  <2>1. status[u] # "free"
    BY <1>1 DEF DataInv, Known
  <2> QED BY <1>1, <1>3, <2>1 DEF DataInv, Fresh
<1>6. Snapshot' /\ Behind' /\ WriteFits'
  BY <1>1, <1>2 DEF DataInv, Snapshot, Holds, Behind, WriteFits
<1>7. OffsetWithinSize'
  BY <1>1 DEF DataInv, OffsetWithinSize
<1>8. AckedNeverLost'
  <2>1. status[u] = "live" => info[r].offset <= store[u].offset
    BY <1>1 DEF DataInv, Behind
  <2> QED BY <1>1, <1>3, <2>1 DEF DataInv, AckedNeverLost
<1> QED BY <1>4, <1>5, <1>6, <1>7, <1>8 DEF DataInv

(* LoadStop and FireStop: a stop sets the reader's error only.               *)
LEMMA StopData ==
    ASSUME TypeInv, DataInv, LoadStop \/ FireStop
    PROVE  DataInv'
<1>1. UNCHANGED <<pc, status, store, req, info, acked>>
  BY DEF LoadStop, FireStop, storage, history
<1>2. \A s \in Req : reader'[s].read = reader[s].read
  BY CountsKept
<1> QED BY <1>1, <1>2, StutterData

(* Crash: the bytes a write leaves behind follow the stored ones and fit.    *)
LEMMA CrashAppends ==
    ASSUME TypeInv, LockInv, DataInv, Crash, NEW u \in Upload
    PROVE  /\ status[u] = "live" => store'[u].offset >= store[u].offset
           /\ status[u] = "live" /\ ~store'[u].deferred => store'[u].offset <= store'[u].size
<1>1. PICK n \in [Upload -> 0 .. MaxLen] :
        /\ \A v \in Upload :
             n[v] # 0 => WriteInProgress(v) /\ n[v] <= reader[stopCb[v]].read
        /\ store' = [v \in Upload |->
             IF WriteInProgress(v)
               THEN [store[v] EXCEPT !.offset = info[stopCb[v]].offset + n[v]]
               ELSE store[v]]
  BY DEF Crash
<1>2. CASE ~WriteInProgress(u)
  <2>1. store'[u] = store[u]
    BY <1>1, <1>2
  <2>2. store[u].offset >= store[u].offset
    BY ConstantsAssumption DEF TypeInv, TypeOK, FileInfo
  <2> QED BY <2>1, <2>2 DEF DataInv, OffsetWithinSize
<1>3. CASE WriteInProgress(u)
  <2> DEFINE w == stopCb[u]
  <2>1. w \in Req /\ pc[w] = "write"
    BY <1>3 DEF WriteInProgress, TypeInv, TypeOK
  <2>2. store'[u] = [store[u] EXCEPT !.offset = info[w].offset + n[u]]
    BY <1>1, <1>3
  <2>3. req[w].id = u
    BY <2>1 DEF LockInv, StopCallbackOwned
  <2>4. info[w] = store[u]
    BY <2>1, <2>3 DEF DataInv, Snapshot, Holds
  <2>5. /\ store'[u].offset = store[u].offset + n[u]
        /\ store'[u].deferred = store[u].deferred /\ store'[u].size = store[u].size
    BY <2>2, <2>4 DEF TypeInv, TypeOK, FileInfo
  <2>6. /\ n[u] \in Nat /\ reader[w].read \in Nat
        /\ store[u].offset \in Nat /\ store[u].size \in Nat
    BY <1>1, <2>1, ConstantsAssumption DEF TypeInv, TypeOK, FileInfo, Reader
  <2>7. n[u] <= reader[w].read
    BY <1>1, <2>6
  <2>8. ~store[u].deferred => store[u].offset + reader[w].read <= store[u].size
    BY <2>1, <2>4 DEF DataInv, WriteFits
  <2> QED BY <2>5, <2>6, <2>7, <2>8
<1> QED BY <1>2, <1>3

LEMMA CrashData ==
    ASSUME TypeInv, LockInv, DataInv, Crash
    PROVE  DataInv'
<1>1. /\ \A r \in Req : pc'[r] = "idle" /\ info'[r].offset = 0
      /\ UNCHANGED <<status, acked>>
  BY DEF Crash, history, NoInfo
<1>2. \A u \in Upload :
        /\ status[u] = "live" => store'[u].offset >= store[u].offset
        /\ status[u] = "live" /\ ~store'[u].deferred => store'[u].offset <= store'[u].size
  BY CrashAppends
<1>3. Known' /\ Alone' /\ Fresh' /\ Snapshot' /\ Behind' /\ WriteFits'
  BY <1>1 DEF DataInv, Known, Alone, Serves, Fresh, Snapshot, Holds, Behind, WriteFits
<1>4. OffsetWithinSize'
  BY <1>1, <1>2 DEF OffsetWithinSize
<1>5. AckedNeverLost'
  <2> SUFFICES ASSUME NEW u \in Upload, status[u] = "live" PROVE acked[u] <= store'[u].offset
    BY <1>1 DEF AckedNeverLost
  <2>1. acked[u] <= store[u].offset /\ store[u].offset <= store'[u].offset
    BY <1>2 DEF DataInv, AckedNeverLost
  <2>2. acked[u] \in Nat /\ store[u].offset \in Nat /\ store'[u].offset \in Nat
    BY ConstantsAssumption, CrashType DEF TypeInv, TypeOK, FileInfo
  <2> QED BY <2>1, <2>2
<1> QED BY <1>3, <1>4, <1>5 DEF DataInv

(* Every step keeps DataInv.                                                 *)
LEMMA StepData ==
    ASSUME "earlyIds" \notin Faults
    PROVE  TypeInv /\ LockInv /\ DataInv /\ [Next]_vars => DataInv'
<1> SUFFICES ASSUME TypeInv, LockInv, DataInv, [Next]_vars PROVE DataInv'
  OBVIOUS
<1>1. ASSUME NEW r \in Req, Begin(r) \/ NewUpload(r) PROVE DataInv'
  BY <1>1, BeginData, NewUploadData
<1>2. ASSUME NEW r \in Req, ServerStep(r) PROVE DataInv'
  BY <1>2, GetInfoData, StageData, DeclareLengthData, BeginChunkData, EndWriteData,
     DeclareReceivedData, TerminateData, RespondData DEF ServerStep
<1>3. ASSUME NEW r \in Req, ClientStep(r) \/ NotifyStep(r) PROVE DataInv'
  BY <1>3, ClientStepData, StageData
<1>4. CASE LoadStop \/ FireStop
  BY <1>4, StopData
<1>5. CASE Crash
  BY <1>5, CrashData
<1>6. CASE UNCHANGED vars
  BY <1>6, StutterData DEF vars
<1> QED BY <1>1, <1>2, <1>3, <1>4, <1>5, <1>6 DEF Next

(* DataInv holds throughout: every copy that will be used is current, and    *)
(* nobody else is around while a POST works on its upload.                   *)
THEOREM DataInvariant ==
    ASSUME "earlyIds" \notin Faults
    PROVE  Spec => []DataInv
<1>1. Spec => [](TypeInv /\ LockInv)
  BY TypeInvariant, LockInvariant, PTL
<1>2. TypeInv /\ LockInv /\ DataInv /\ [Next]_vars => DataInv'
  BY StepData
<1> QED BY InitData, <1>1, <1>2, PTL DEF Spec

(* What a handler decides and writes with is what the store has, although a  *)
(* POST takes its copy before the lock (PostFile, PatchFile, writeChunk).    *)
THEOREM SnapshotCurrentHolds ==
    ASSUME "earlyIds" \notin Faults
    PROVE  Spec => []SnapshotCurrent
<1>1. DataInv => SnapshotCurrent
  BY DEF DataInv, Snapshot, Holds, SnapshotCurrent
<1> QED BY <1>1, DataInvariant, PTL

(* No upload holds more bytes than its length (writeChunk's limit and        *)
(* PatchFile's check of a declared length).                                  *)
THEOREM OffsetWithinSizeHolds ==
    ASSUME "earlyIds" \notin Faults
    PROVE  Spec => []OffsetWithinSize
<1>1. DataInv => OffsetWithinSize
  BY DEF DataInv
<1> QED BY <1>1, DataInvariant, PTL

(* No acknowledged byte is lost, by concurrent requests, failing store calls *)
(* or restarts.                                                              *)
THEOREM AckedNeverLostHolds ==
    ASSUME "earlyIds" \notin Faults
    PROVE  Spec => []AckedNeverLost
<1>1. DataInv => AckedNeverLost
  BY DEF DataInv
<1> QED BY <1>1, DataInvariant, PTL

-----------------------------------------------------------------------------
(* An action property. *)

Appended == \A u \in Upload :
    status[u] = "live" /\ status'[u] = "live" => store'[u].offset >= store[u].offset

(* The bytes that WriteChunk stores follow those of a current copy.          *)
LEMMA EndWriteAppends ==
    ASSUME TypeInv, DataInv, NEW r \in Req, EndWrite(r)
    PROVE  Appended
<1> SUFFICES ASSUME NEW u \in Upload, status[u] = "live"
             PROVE  store'[u].offset >= store[u].offset
  BY DEF Appended
<1>1. store[u] \in FileInfo /\ store[u].offset \in Nat
  BY ConstantsAssumption DEF TypeInv, TypeOK, FileInfo
<1>2. CASE req[r].id = u
  <2>1. pc[r] = "write" /\ info[r] = store[u]
    BY <1>2 DEF EndWrite, DataInv, Snapshot, Holds
  <2>2. PICK n \in Stored(r) : store' = [store EXCEPT ![u].offset = NewOffset(info[r], n)]
    BY <1>2 DEF EndWrite
  <2>3. n \in Nat
    BY <1>2, ConstantsAssumption DEF Stored, TypeInv, TypeOK, Reader
  <2>4. store'[u].offset = store[u].offset + n
    BY <1>1, <2>1, <2>2 DEF NewOffset, TypeInv, TypeOK, FileInfo
  <2> QED BY <1>1, <2>3, <2>4
<1>3. CASE req[r].id # u
  <2>1. store'[u] = store[u]
    BY <1>3 DEF EndWrite
  <2> QED BY <1>1, <2>1
<1> QED BY <1>2, <1>3

(* The steps that leave an upload's offset alone, or give it another upload. *)
LEMMA OtherStepsAppend ==
    ASSUME TypeInv, [Next]_vars, ~Crash, \A r \in Req : ~EndWrite(r)
    PROVE  Appended
<1> SUFFICES ASSUME NEW u \in Upload, status[u] = "live", status'[u] = "live"
             PROVE  store'[u].offset = store[u].offset
  BY ConstantsAssumption DEF Appended, TypeInv, TypeOK, FileInfo
<1>1. ASSUME NEW r \in Req, NewUpload(r) PROVE store'[u].offset = store[u].offset
  <2>1. PICK v \in Upload : /\ status[v] = "free"
                            /\ \E i : store' = [store EXCEPT ![v] = i]
    BY <1>1 DEF NewUpload
  <2> QED BY <2>1 DEF TypeInv, TypeOK
<1>2. ASSUME NEW r \in Req, ServerStep(r) PROVE store'[u].offset = store[u].offset
  <2>1. CASE DeclareLength(r) \/ DeclareReceived(r)
    <3>1. store[u] \in FileInfo
      BY DEF TypeInv, TypeOK
    <3>2. \/ store' = store
          \/ \E len : store' = [store EXCEPT ![req[r].id].size = len,
                                           ![req[r].id].deferred = FALSE]
      BY <2>1 DEF DeclareLength, DeclareReceived
    <3>3. \/ store'[u] = store[u]
          \/ \E len : store'[u] = [store[u] EXCEPT !.size = len, !.deferred = FALSE]
      <4>1. CASE store' = store
        BY <4>1
      <4>2. ASSUME NEW len, store' = [store EXCEPT ![req[r].id].size = len,
                                                   ![req[r].id].deferred = FALSE]
            PROVE  \/ store'[u] = store[u]
                   \/ store'[u] = [store[u] EXCEPT !.size = len, !.deferred = FALSE]
        BY <4>2 DEF TypeInv, TypeOK
      <4> QED BY <3>2, <4>1, <4>2
    <3> QED BY <3>1, <3>3 DEF FileInfo
  <2>2. CASE Terminate(r) \/ TerminateStopped(r)
    BY <2>2 DEF Terminate, TerminateStopped, storage, TypeInv, TypeOK
  <2>3. CASE UNCHANGED store
    BY <2>3
  <2> QED BY <1>2, <2>1, <2>2, <2>3
          DEF ServerStep, GetInfo, Acquire, LockTimeout, RejectPatch, PatchOfComplete,
              AcceptPatch, RejectChunk, BeginChunk, FinishUpload, EndChunk, Copy, Respond,
              storage
<1>3. CASE \E r \in Req : Begin(r) \/ ClientStep(r) \/ NotifyStep(r)
  BY <1>3 DEF Begin, ClientStep, ReadByte, BodyEnds, BodyFails, NotifyStep, NotifyCreated,
              NotifyComplete, NotifyTerminated, storage
<1>4. CASE LoadStop \/ FireStop \/ UNCHANGED vars
  BY <1>4 DEF LoadStop, FireStop, vars, storage
<1> QED BY <1>1, <1>2, <1>3, <1>4 DEF Next

(* writeChunk appends: no request, failing store call or restart takes back  *)
(* bytes of an upload, whether a client was told of them or not.             *)
THEOREM AppendsOnlyHolds ==
    ASSUME "earlyIds" \notin Faults
    PROVE  Spec => AppendsOnly
<1>1. ASSUME TypeInv, LockInv, DataInv, [Next]_vars PROVE Appended
  <2>1. CASE Crash
    BY <1>1, <2>1, CrashAppends DEF Appended
  <2>2. ASSUME NEW r \in Req, EndWrite(r) PROVE Appended
    BY <1>1, <2>2, EndWriteAppends
  <2>3. CASE ~Crash /\ \A r \in Req : ~EndWrite(r)
    BY <1>1, <2>3, OtherStepsAppend
  <2> QED BY <2>1, <2>2, <2>3
<1>2. Spec => [](TypeInv /\ LockInv /\ DataInv)
  BY TypeInvariant, LockInvariant, DataInvariant, PTL
<1>3. TypeInv /\ LockInv /\ DataInv /\ [Next]_vars => [Appended]_vars
  BY <1>1
<1>4. AppendsOnly <=> [][Appended]_vars
  BY DEF AppendsOnly, Appended
<1> QED BY <1>2, <1>3, <1>4, PTL DEF Spec

=============================================================================
