---------------------- MODULE UploadRefinementProofs ----------------------
(***************************************************************************)
(* UploadHandler implements ResumableUpload: seen through Promised, every  *)
(* step of the handlers lets each upload take a step of the promise or     *)
(* leaves it alone.  The assumptions are those without which runs          *)
(* early_ids and stop_after_last_byte refute parts of the promise.         *)
(***************************************************************************)
EXTENDS UploadFinishProofs

(* The store keeps nothing of an upload that does not exist.                 *)
Blank == \A u \in Upload : status[u] # "live" => store[u] = NoInfo

Kept(u) == Abstract!Step(u) \/ Promised'[u] = Promised[u]

(* What is shown of an upload, before and after a step.                      *)
LEMMA PromisedOf ==
    ASSUME TypeInv, NEW u \in Upload
    PROVE  /\ status[u] = "free" =>
                Promised[u] = [phase |-> "none", length |-> -1,
                               received |-> store[u].offset, completions |-> finished[u]]
           /\ status[u] = "live" =>
                Promised[u] = [phase |-> "open",
                               length |-> IF store[u].deferred THEN -1 ELSE store[u].size,
                               received |-> store[u].offset, completions |-> finished[u]]
           /\ status[u] = "gone" =>
                Promised[u] = [phase |-> "gone", length |-> -1,
                               received |-> store[u].offset, completions |-> finished[u]]
<1>1. CASE status[u] = "free"
  BY <1>1 DEF Promised, NoLength
<1>2. CASE status[u] = "live"
  BY <1>2 DEF Promised, NoLength
<1>3. CASE status[u] = "gone"
  BY <1>3 DEF Promised, NoLength
<1> QED BY <1>1, <1>2, <1>3 DEF TypeInv, TypeOK

LEMMA PromisedNext ==
    ASSUME TypeInv', NEW u \in Upload
    PROVE  /\ status'[u] = "free" =>
                Promised'[u] = [phase |-> "none", length |-> -1,
                                received |-> store'[u].offset, completions |-> finished'[u]]
           /\ status'[u] = "live" =>
                Promised'[u] = [phase |-> "open",
                                length |-> IF store'[u].deferred THEN -1 ELSE store'[u].size,
                                received |-> store'[u].offset, completions |-> finished'[u]]
           /\ status'[u] = "gone" =>
                Promised'[u] = [phase |-> "gone", length |-> -1,
                                received |-> store'[u].offset, completions |-> finished'[u]]
<1>1. CASE status'[u] = "free"
  BY <1>1 DEF Promised, NoLength
<1>2. CASE status'[u] = "live"
  BY <1>2 DEF Promised, NoLength
<1>3. CASE status'[u] = "gone"
  BY <1>3 DEF Promised, NoLength
<1> QED BY <1>1, <1>2, <1>3 DEF TypeInv, TypeOK

(* What is shown has the shape of a promise.                                 *)
LEMMA PromisedType ==
    ASSUME TypeInv'
    PROVE  Promised' \in [Upload -> Abstract!Promise]
<1>1. ASSUME NEW u \in Upload PROVE Promised'[u] \in Abstract!Promise
  <2>1. store'[u] \in FileInfo /\ finished'[u] \in Nat /\ MaxLen \in Nat
        /\ status'[u] \in {"free", "live", "gone"}
    BY ConstantsAssumption DEF TypeInv, TypeOK
  <2>2. /\ store'[u].offset \in 0 .. MaxLen
        /\ (IF store'[u].deferred THEN -1 ELSE store'[u].size) \in -1 .. MaxLen
    BY <2>1 DEF FileInfo
  <2> DEFINE len == IF store'[u].deferred THEN -1 ELSE store'[u].size
  <2>3. \E phase \in {"none", "open", "gone"}, n \in {-1, len} :
          Promised'[u] = [phase |-> phase, length |-> n,
                          received |-> store'[u].offset, completions |-> finished'[u]]
    BY <2>1, PromisedNext
  <2>4. -1 \in -1 .. MaxLen
    BY <2>1
  <2> HIDE DEF len
  <2> QED BY <2>1, <2>2, <2>3, <2>4 DEF Abstract!Promise, Abstract!Unknown, len
<1>2. Promised' = [u \in Upload |-> Promised'[u]]
  BY DEF Promised
<1> QED BY <1>1, <1>2

(* A step that leaves an upload alone.                                       *)
LEMMA Untouched ==
    ASSUME NEW u \in Upload, status'[u] = status[u], store'[u] = store[u],
           finished'[u] = finished[u]
    PROVE  Kept(u)
  BY DEF Kept, Promised

(* The steps of an existing upload, in terms of the store.                   *)
LEMMA AppendKept ==
    ASSUME TypeInv, TypeInv', NEW u \in Upload, status[u] = "live", status'[u] = "live",
           finished[u] = 0, finished'[u] = 0,
           store'[u].offset >= store[u].offset,
           store'[u].size = store[u].size, store'[u].deferred = store[u].deferred,
           ~store[u].deferred => store'[u].offset <= store[u].size
    PROVE  Abstract!Append(u)
<1>1. store[u] \in FileInfo /\ store'[u] \in FileInfo
  BY DEF TypeInv, TypeOK
<1>2. /\ store[u].offset \in 0 .. MaxLen /\ store'[u].offset \in 0 .. MaxLen
      /\ store[u].size \in 0 .. MaxLen /\ MaxLen \in Nat
  BY <1>1, ConstantsAssumption DEF FileInfo
<1>3. Promised[u] = [phase |-> "open",
                     length |-> IF store[u].deferred THEN -1 ELSE store[u].size,
                     received |-> store[u].offset, completions |-> 0]
  BY PromisedOf
<1>4. Promised'[u] = [phase |-> "open",
                      length |-> IF store[u].deferred THEN -1 ELSE store[u].size,
                      received |-> store'[u].offset, completions |-> 0]
  BY PromisedNext
<1>5. store'[u].offset \in Promised[u].received .. MaxLen
  BY <1>2, <1>3
<1>6. Promised[u].length # -1 => store'[u].offset <= Promised[u].length
  BY <1>3
<1>7. Promised[u].phase = "open" /\ Promised[u].completions = 0
  BY <1>3
<1> QED BY <1>3, <1>4, <1>5, <1>6, <1>7 DEF Abstract!Append, Abstract!Unknown

LEMMA DeclareKept ==
    ASSUME TypeInv, TypeInv', NEW u \in Upload, status[u] = "live", status'[u] = "live",
           finished'[u] = finished[u], store[u].deferred, ~store'[u].deferred,
           store'[u].offset = store[u].offset, store'[u].size >= store[u].offset
    PROVE  Abstract!Declare(u)
<1>1. store[u] \in FileInfo /\ store'[u] \in FileInfo
  BY DEF TypeInv, TypeOK
<1>2. /\ store[u].offset \in 0 .. MaxLen
      /\ store'[u].size \in 0 .. MaxLen /\ MaxLen \in Nat
  BY <1>1, ConstantsAssumption DEF FileInfo
<1>3. Promised[u] = [phase |-> "open", length |-> -1,
                     received |-> store[u].offset, completions |-> finished[u]]
  BY PromisedOf
<1>4. Promised'[u] = [phase |-> "open", length |-> store'[u].size,
                      received |-> store[u].offset, completions |-> finished[u]]
  BY PromisedNext
<1>5. store'[u].size \in Promised[u].received .. MaxLen
  BY <1>2, <1>3
<1>6. Promised[u].phase = "open" /\ Promised[u].length = -1
  BY <1>3
<1> QED BY <1>3, <1>4, <1>5, <1>6 DEF Abstract!Declare, Abstract!Unknown

LEMMA CompleteKept ==
    ASSUME TypeInv, TypeInv', NEW u \in Upload, status[u] = "live", status'[u] = "live",
           store'[u] = store[u], Filled(u), finished[u] = 0, finished'[u] = 1
    PROVE  Abstract!Complete(u)
<1>1. Promised[u] = [phase |-> "open", length |-> store[u].size,
                     received |-> store[u].offset, completions |-> 0]
  BY PromisedOf DEF Filled
<1>2. Promised'[u] = [phase |-> "open", length |-> store[u].size,
                      received |-> store[u].offset, completions |-> 1]
  BY PromisedNext DEF Filled
<1> QED BY <1>1, <1>2 DEF Abstract!Complete, Filled

LEMMA TerminateKept ==
    ASSUME TypeInv, TypeInv', NEW u \in Upload, status[u] = "live", status'[u] = "gone",
           store'[u] = NoInfo, finished'[u] = finished[u]
    PROVE  Abstract!Terminate(u)
<1> DEFINE len == IF store[u].deferred THEN -1 ELSE store[u].size
<1>1. Promised[u] = [phase |-> "open", length |-> len,
                     received |-> store[u].offset, completions |-> finished[u]]
  BY PromisedOf
<1>2. store'[u].offset = 0
  BY DEF NoInfo
<1>3. Promised'[u] = [phase |-> "gone", length |-> -1,
                      received |-> 0, completions |-> finished[u]]
  BY <1>2, PromisedNext
<1> HIDE DEF len
<1> QED BY <1>1, <1>3 DEF Abstract!Terminate, Abstract!Unknown

LEMMA CreateKept ==
    ASSUME TypeInv, TypeInv', NEW u \in Upload, status[u] = "free", status'[u] = "live",
           store[u] = NoInfo, store'[u].offset = 0, finished[u] = 0, finished'[u] = 0
    PROVE  Abstract!Create(u)
<1> DEFINE len == IF store'[u].deferred THEN -1 ELSE store'[u].size
<1>1. Promised[u] = [phase |-> "none", length |-> -1,
                     received |-> store[u].offset, completions |-> finished[u]]
  BY PromisedOf
<1>2. Promised'[u] = [phase |-> "open", length |-> len, received |-> 0, completions |-> 0]
  BY PromisedNext
<1>3. len \in -1 .. MaxLen
  <2>1. store'[u] \in FileInfo /\ MaxLen \in Nat
    BY ConstantsAssumption DEF TypeInv, TypeOK
  <2> QED BY <2>1 DEF FileInfo
<1> HIDE DEF len
<1> QED BY <1>1, <1>2, <1>3 DEF Abstract!Create, Abstract!Unknown

-----------------------------------------------------------------------------
(* One step of the handlers, seen by each upload. *)

AllKept == \A u \in Upload : Kept(u)

(* A step that changes one upload.                                           *)
LEMMA OneKept ==
    ASSUME NEW u \in Upload, Kept(u),
           \A v \in Upload : v # u => /\ status'[v] = status[v] /\ store'[v] = store[v]
                                      /\ finished'[v] = finished[v]
    PROVE  AllKept
  BY Untouched DEF AllKept

LEMMA NewUploadKept ==
    ASSUME TypeInv, TypeInv', FinishInv, Blank, NEW r \in Req, NewUpload(r)
    PROVE  AllKept
<1>1. PICK u \in Upload :
        /\ status[u] = "free"
        /\ \E q \in PostRequests(u) :
             /\ status' = [status EXCEPT ![u] = "live"]
             /\ store' = [store EXCEPT ![u] =
                  [size |-> IF NewUploadLength(q) = NoLength THEN 0 ELSE NewUploadLength(q),
                   deferred |-> NewUploadLength(q) = NoLength, offset |-> 0]]
  BY DEF NewUpload
<1>2. /\ status'[u] = "live" /\ store'[u].offset = 0
      /\ \A v \in Upload : v # u => status'[v] = status[v] /\ store'[v] = store[v]
  BY <1>1 DEF TypeInv, TypeOK
<1>3. UNCHANGED finished /\ finished[u] = 0 /\ store[u] = NoInfo
  BY <1>1 DEF NewUpload, history, FinishInv, FreshFinish, Blank
<1>4. Abstract!Create(u)
  BY <1>1, <1>2, <1>3, CreateKept
<1> QED BY <1>2, <1>3, <1>4, OneKept DEF Kept, Abstract!Step

LEMMA DeclareLengthKept ==
    ASSUME TypeInv, TypeInv', DataInv, NEW r \in Req, DeclareLength(r)
    PROVE  AllKept
<1> DEFINE u == req[r].id
           len == req[r].newLen
<1>1. /\ pc[r] = "check" /\ u \in Upload /\ len \in Int /\ UNCHANGED <<status, finished>>
      /\ AcceptsLength(req[r], info[r])
  BY ConstantsAssumption DEF DeclareLength, history, TypeInv, Serving, Request
<1>2. status[u] = "live" /\ info[r] = store[u] /\ store[u] \in FileInfo
  BY <1>1 DEF DataInv, Snapshot, Holds, TypeInv, TypeOK
<1>3. CASE UNCHANGED store
  BY <1>1, <1>3, Untouched DEF AllKept
<1>4. CASE store' = [store EXCEPT ![u].size = len, ![u].deferred = FALSE]
  <2>1. store' = [store EXCEPT ![u] = [store[u] EXCEPT !.size = len, !.deferred = FALSE]]
    BY <1>1, <1>4 DEF TypeInv, TypeOK
  <2>2. /\ store'[u] = [store[u] EXCEPT !.size = len, !.deferred = FALSE]
        /\ \A v \in Upload : v # u => store'[v] = store[v]
    BY <1>1, <2>1 DEF TypeInv, TypeOK
  <2>3. /\ store'[u].size = len /\ store'[u].offset = store[u].offset
    BY <1>2, <2>2 DEF FileInfo
  <2>4. ~store'[u].deferred
    BY <1>2, <2>2 DEF FileInfo
  <2>5. store[u].deferred /\ len >= store[u].offset
    BY <1>1, <1>2 DEF AcceptsLength
  <2>6. Abstract!Declare(u)
    BY <1>1, <1>2, <2>3, <2>4, <2>5, DeclareKept
  <2> QED BY <1>1, <2>2, <2>6, OneKept DEF Kept, Abstract!Step
<1> QED BY <1>3, <1>4 DEF DeclareLength

LEMMA DeclareReceivedKept ==
    ASSUME TypeInv, TypeInv', FinishInv, NEW r \in Req, DeclareReceived(r)
    PROVE  AllKept
<1> DEFINE u == req[r].id
           len == store[u].offset
<1>1. /\ pc[r] = "declare" /\ u \in Upload /\ UNCHANGED <<status, finished>> /\ Ready(r)
  BY DEF DeclareReceived, history, FinishInv, TypeInv, Serving, Request
<1>2. CASE UNCHANGED store
  BY <1>1, <1>2, Untouched DEF AllKept
<1>3. CASE /\ status[u] = "live"
           /\ store' = [store EXCEPT ![u].size = len, ![u].deferred = FALSE]
  <2>1. store[u] \in FileInfo /\ store[u].deferred
    BY <1>1, <1>3 DEF Ready, Wrote, TypeInv, TypeOK
  <2>2. store' = [store EXCEPT ![u] = [store[u] EXCEPT !.size = len, !.deferred = FALSE]]
    BY <1>1, <1>3 DEF TypeInv, TypeOK
  <2>3. /\ store'[u] = [store[u] EXCEPT !.size = len, !.deferred = FALSE]
        /\ \A v \in Upload : v # u => store'[v] = store[v]
    BY <1>1, <2>2 DEF TypeInv, TypeOK
  <2>4. store'[u].size = len /\ store'[u].offset = len
    BY <2>1, <2>3 DEF FileInfo
  <2>5. ~store'[u].deferred
    BY <2>1, <2>3 DEF FileInfo
  <2>6. len >= len
    BY <2>1, ConstantsAssumption DEF FileInfo
  <2>7. Abstract!Declare(u)
    BY <1>1, <1>3, <2>1, <2>4, <2>5, <2>6, DeclareKept
  <2> QED BY <1>1, <2>3, <2>7, OneKept DEF Kept, Abstract!Step
<1> QED BY <1>2, <1>3 DEF DeclareReceived

LEMMA EndWriteKept ==
    ASSUME TypeInv, TypeInv', DataInv, OffsetWithinSize', FinishInv,
           NEW r \in Req, EndWrite(r)
    PROVE  AllKept
<1> DEFINE u == req[r].id
<1>1. /\ pc[r] = "write" /\ u \in Upload /\ UNCHANGED <<status, finished>> /\ Ready(r)
  BY DEF EndWrite, history, FinishInv, TypeInv, Serving, Request
<1>2. status[u] = "live" /\ info[r] = store[u] /\ store[u] \in FileInfo /\ finished[u] = 0
  BY <1>1 DEF DataInv, Snapshot, Holds, Ready, ToFinish, TypeInv, TypeOK
<1>3. PICK n \in Stored(r) :
        store' = [store EXCEPT ![u].offset = store[u].offset + n]
  BY <1>2 DEF EndWrite, NewOffset
<1>4. n \in Nat
  BY <1>2, ConstantsAssumption DEF Stored, TypeInv, TypeOK, Reader
<1>5. /\ store'[u] = [store[u] EXCEPT !.offset = store[u].offset + n]
      /\ \A v \in Upload : v # u => store'[v] = store[v]
  BY <1>1, <1>3 DEF TypeInv, TypeOK
<1>6. /\ store'[u].offset = store[u].offset + n
      /\ store'[u].size = store[u].size /\ store'[u].deferred = store[u].deferred
  BY <1>2, <1>5 DEF FileInfo
<1>7. store'[u].offset >= store[u].offset
  BY <1>2, <1>4, <1>6, ConstantsAssumption DEF FileInfo
<1>8. ~store[u].deferred => store'[u].offset <= store[u].size
  BY <1>1, <1>2, <1>6 DEF OffsetWithinSize
<1>9. Abstract!Append(u)
  BY <1>1, <1>2, <1>6, <1>7, <1>8, AppendKept
<1> QED BY <1>1, <1>5, <1>9, OneKept DEF Kept, Abstract!Step

LEMMA FinishUploadKept ==
    ASSUME TypeInv, TypeInv', FinishInv, FinishLive, NEW r \in Req, FinishUpload(r)
    PROVE  AllKept
<1> DEFINE u == req[r].id
<1>1. /\ pc[r] = "finish" /\ u \in Upload /\ UNCHANGED <<status, store>> /\ Ready(r)
      /\ status[u] = "live"
  BY DEF FinishUpload, storage, FinishInv, FinishLive, TypeInv, Serving, Request
<1>2. CASE UNCHANGED finished
  BY <1>1, <1>2, Untouched DEF AllKept
<1>3. CASE IsComplete(info[r]) /\ finished' = [finished EXCEPT ![u] = @ + 1]
  <2>1. info[r] = store[u] /\ finished[u] = 0
    BY <1>1 DEF Ready, Wrote, ToFinish
  <2>2. Filled(u)
    BY <1>3, <2>1 DEF IsComplete, Filled
  <2>3. finished'[u] = 1 /\ \A v \in Upload : v # u => finished'[v] = finished[v]
    BY <1>1, <1>3, <2>1 DEF TypeInv, TypeOK
  <2>4. Abstract!Complete(u)
    BY <1>1, <2>1, <2>2, <2>3, CompleteKept
  <2> QED BY <1>1, <2>3, <2>4, OneKept DEF Kept, Abstract!Step
<1> QED BY <1>2, <1>3 DEF FinishUpload

LEMMA TerminatedKept ==
    ASSUME TypeInv, TypeInv', DataInv, Blank, NEW r \in Req,
           Terminate(r) \/ TerminateStopped(r)
    PROVE  AllKept
<1> DEFINE u == req[r].id
<1>1. /\ u \in Upload /\ status[u] # "free" /\ UNCHANGED finished
  BY DEF Terminate, TerminateStopped, history, DataInv, Known, TypeInv, Serving, Request
<1>2. CASE UNCHANGED storage
  BY <1>1, <1>2, Untouched DEF storage, AllKept
<1>3. CASE /\ status' = [status EXCEPT ![u] = "gone"]
           /\ store' = [store EXCEPT ![u] = NoInfo]
  <2>1. /\ status'[u] = "gone" /\ store'[u] = NoInfo
        /\ \A v \in Upload : v # u => status'[v] = status[v] /\ store'[v] = store[v]
    BY <1>1, <1>3 DEF TypeInv, TypeOK
  <2>2. CASE status[u] = "live"
    <3>1. Abstract!Terminate(u)
      BY <1>1, <2>1, <2>2, TerminateKept
    <3> QED BY <1>1, <2>1, <3>1, OneKept DEF Kept, Abstract!Step
  <2>3. CASE status[u] = "gone"
    <3>1. Kept(u)
      BY <1>1, <2>1, <2>3, Untouched DEF Blank
    <3> QED BY <1>1, <2>1, <3>1, OneKept
  <2> QED BY <1>1, <2>2, <2>3 DEF TypeInv, TypeOK
<1> QED BY <1>2, <1>3 DEF Terminate, TerminateStopped

(* Crash: several uploads may keep bytes of the writes that were under way.  *)
LEMMA CrashKept ==
    ASSUME TypeInv, TypeInv', LockInv, DataInv, OffsetWithinSize', FinishInv, Crash
    PROVE  AllKept
<1> SUFFICES ASSUME NEW u \in Upload PROVE Kept(u)
  BY DEF AllKept
<1>1. UNCHANGED <<status, finished>>
  BY DEF Crash, history
<1>2. PICK n \in [Upload -> 0 .. MaxLen] :
        store' = [v \in Upload |->
             IF WriteInProgress(v)
               THEN [store[v] EXCEPT !.offset = info[stopCb[v]].offset + n[v]]
               ELSE store[v]]
  BY DEF Crash
<1>3. CASE ~WriteInProgress(u)
  BY <1>1, <1>2, <1>3, Untouched
<1>4. CASE WriteInProgress(u)
  <2> DEFINE w == stopCb[u]
  <2>1. w \in Req /\ pc[w] = "write" /\ status[u] = "live"
    BY <1>4 DEF WriteInProgress, TypeInv, TypeOK
  <2>2. req[w].id = u
    BY <2>1 DEF LockInv, StopCallbackOwned
  <2>3. info[w] = store[u] /\ finished[u] = 0 /\ store[u] \in FileInfo
    BY <2>1, <2>2 DEF DataInv, Snapshot, Holds, FinishInv, Ready, ToFinish, TypeInv, TypeOK
  <2>4. store'[u] = [store[u] EXCEPT !.offset = store[u].offset + n[u]]
    BY <1>2, <1>4, <2>3
  <2>5. /\ store'[u].offset = store[u].offset + n[u]
        /\ store'[u].size = store[u].size /\ store'[u].deferred = store[u].deferred
    BY <2>3, <2>4 DEF FileInfo
  <2>6. store'[u].offset >= store[u].offset
    BY <1>2, <2>3, <2>5, ConstantsAssumption DEF FileInfo
  <2>7. ~store[u].deferred => store'[u].offset <= store[u].size
    BY <1>1, <2>1, <2>5 DEF OffsetWithinSize
  <2>8. Abstract!Append(u)
    BY <1>1, <2>1, <2>3, <2>5, <2>6, <2>7, AppendKept
  <2> QED BY <2>8 DEF Kept, Abstract!Step
<1> QED BY <1>3, <1>4

(* Every step of the handlers lets each upload take a step or leaves it.     *)
LEMMA StepKept ==
    ASSUME TypeInv, TypeInv', LockInv, DataInv, DataInv', FinishInv, FinishLive, Blank,
           [Next]_vars
    PROVE  AllKept
<1>1. OffsetWithinSize'
  BY DEF DataInv
<1>2. ASSUME NEW r \in Req, NewUpload(r) PROVE AllKept
  BY <1>2, NewUploadKept
<1>3. ASSUME NEW r \in Req, ServerStep(r) PROVE AllKept
  <2>1. CASE UNCHANGED <<status, store, finished>>
    BY <2>1, Untouched DEF AllKept
  <2>2. CASE ~UNCHANGED <<status, store, finished>>
    <3>1. \/ DeclareLength(r) \/ DeclareReceived(r) \/ EndWrite(r) \/ FinishUpload(r)
          \/ Terminate(r) \/ TerminateStopped(r)
      BY <1>3, <2>2
         DEF ServerStep, GetInfo, Acquire, LockTimeout, RejectPatch, PatchOfComplete,
             AcceptPatch, RejectChunk, BeginChunk, EndChunk, Copy, Respond, storage, history
    <3> QED BY <1>1, <3>1, DeclareLengthKept, DeclareReceivedKept, EndWriteKept,
               FinishUploadKept, TerminatedKept
  <2> QED BY <2>1, <2>2
<1>4. CASE Crash
  BY <1>1, <1>4, CrashKept
<1>5. ASSUME NEW r \in Req, Begin(r) \/ ClientStep(r) \/ NotifyStep(r) PROVE AllKept
  BY <1>5, Untouched
     DEF Begin, ClientStep, ReadByte, BodyEnds, BodyFails, NotifyStep, NotifyCreated,
         NotifyComplete, NotifyTerminated, storage, history, AllKept
<1>6. CASE LoadStop \/ FireStop \/ UNCHANGED vars
  BY <1>6, Untouched DEF LoadStop, FireStop, vars, storage, history, AllKept
<1> QED BY <1>2, <1>3, <1>4, <1>5, <1>6 DEF Next

(* Bytes, lengths and uploads go together.                                   *)
LEMMA StepBlank ==
    ASSUME TypeInv, DataInv, Blank, [Next]_vars
    PROVE  Blank'
<1>1. CASE UNCHANGED <<status, store>>
  BY <1>1 DEF Blank
<1>2. ASSUME NEW r \in Req, NewUpload(r) PROVE Blank'
  <2>1. PICK u \in Upload : /\ status' = [status EXCEPT ![u] = "live"]
                            /\ \E i : store' = [store EXCEPT ![u] = i]
    BY <1>2 DEF NewUpload
  <2> QED BY <2>1 DEF Blank, TypeInv, TypeOK
<1>3. ASSUME NEW r \in Req, Terminate(r) \/ TerminateStopped(r) PROVE Blank'
  BY <1>3 DEF Terminate, TerminateStopped, storage, Blank, TypeInv, TypeOK
<1>4. ASSUME NEW r \in Req, DeclareLength(r) \/ DeclareReceived(r) \/ EndWrite(r)
      PROVE  Blank'
  <2>1. \/ UNCHANGED <<status, store>>
        \/ UNCHANGED status /\ status[req[r].id] = "live"
    BY <1>4 DEF DeclareLength, DeclareReceived, EndWrite, DataInv, Snapshot, Holds
  <2>2. \A v \in Upload : v # req[r].id => store'[v] = store[v]
    BY <1>4 DEF DeclareLength, DeclareReceived, EndWrite, Fail, TypeInv, TypeOK
  <2> QED BY <2>1, <2>2 DEF Blank
<1>5. CASE Crash
  BY <1>5 DEF Crash, WriteInProgress, Blank
<1>6. CASE /\ ~UNCHANGED <<status, store>> /\ ~Crash
           /\ \A r \in Req : ~NewUpload(r)
    <2>1. \E r \in Req : \/ DeclareLength(r) \/ DeclareReceived(r) \/ EndWrite(r)
                         \/ Terminate(r) \/ TerminateStopped(r)
      BY <1>6
         DEF Next, Begin, ServerStep, GetInfo, Acquire, LockTimeout, RejectPatch,
             PatchOfComplete, AcceptPatch, RejectChunk, BeginChunk, FinishUpload, EndChunk,
             Copy, Respond, ClientStep, ReadByte, BodyEnds, BodyFails, NotifyStep,
             NotifyCreated, NotifyComplete, NotifyTerminated, LoadStop, FireStop, vars,
             storage
    <2> QED BY <1>3, <1>4, <2>1
<1> QED BY <1>1, <1>2, <1>5, <1>6

(* The handlers, with their locks, copies, restarts and failing store, keep  *)
(* the promise of ResumableUpload.                                           *)
THEOREM KeepsPromiseHolds ==
    ASSUME "earlyIds" \notin Faults, "stopHook" \notin Features
    PROVE  Spec => KeepsPromise
<1>1. Init => Abstract!Init
  BY DEF Init, Abstract!Init, Promised, Abstract!NoPromise, Abstract!Unknown, NoInfo, NoLength
<1>2. Init => Blank /\ StopFree /\ FinishLive
  BY DEF Init, Blank, StopFree, FinishLive, NoReader
<1>3. Spec => [](TypeInv /\ LockInv /\ DataInv /\ FinishInv)
  BY TypeInvariant, LockInvariant, DataInvariant, FinishInvariant, PTL
<1>4. TypeInv /\ LockInv /\ DataInv /\ FinishInv /\ Blank /\ StopFree /\ FinishLive
        /\ [Next]_vars => Blank' /\ StopFree' /\ FinishLive'
  BY StepBlank, StepStopFree, StepFinishLive
<1>5. TypeInv /\ LockInv /\ DataInv /\ FinishInv /\ Blank /\ FinishLive
        /\ [Next]_vars /\ TypeInv' /\ DataInv' => [Abstract!Next]_Promised
  <2> SUFFICES ASSUME TypeInv, LockInv, DataInv, FinishInv, Blank, FinishLive,
                      [Next]_vars, TypeInv', DataInv'
               PROVE  Abstract!Next
    OBVIOUS
  <2>1. AllKept
    BY StepKept
  <2>2. Promised' \in [Upload -> Abstract!Promise]
    BY PromisedType
  <2> QED BY <2>1, <2>2 DEF AllKept, Kept, Abstract!Next
<1> QED BY <1>1, <1>2, <1>3, <1>4, <1>5, PTL DEF Spec, KeepsPromise, Abstract!Spec

=============================================================================
