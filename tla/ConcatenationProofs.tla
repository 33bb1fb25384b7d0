------------------------ MODULE ConcatenationProofs ------------------------
(***************************************************************************)
(* Proofs about Concatenation: types (part 1), what an announced final     *)
(* upload consists of (part 2), and its size (part 3).                     *)
(*                                                                         *)
(* The parts of a final upload are not locked.  They need not be: a part   *)
(* that sizeOfUploads has accepted is Settled, nobody writes to it any     *)
(* more (PatchFile answers for a complete upload without touching it), so  *)
(* what ConcatUploads copies later is what was counted.  A part that is    *)
(* deleted in between ends the copy, and the upload is not announced.      *)
(***************************************************************************)
EXTENDS Concatenation, TLAPS

-----------------------------------------------------------------------------
(* Part 1, types. *)

Concatenating == {"sizes", "create", "copy", "announce", "empty"}

(* What the local variables of a handler are in each stage.                  *)
Serving(r) ==
    /\ pc[r] \in Concatenating => job[r].parts \in PartList
    /\ pc[r] \in {"sizes", "create", "copy"} => job[r].next \in 1 .. Len(job[r].parts)
    /\ pc[r] \in {"patch", "copy", "announce", "empty"} => job[r].id \in Upload

TypeInv == TypeOK /\ \A r \in Req : Serving(r)

(* A list of partial uploads is a sequence.                                  *)
LEMMA PartLists ==
    ASSUME NEW parts \in PartList
    PROVE  /\ parts \in Seq(Upload) /\ Len(parts) \in Nat \ {0}
           /\ DOMAIN parts = 1 .. Len(parts)
           /\ \A i \in 1 .. Len(parts) : parts[i] \in Upload
<1>1. PICK n \in 1 .. MaxParts : parts \in [1 .. n -> Upload]
  BY DEF PartList
<1>2. n \in Nat \ {0}
  BY <1>1, ConstantsAssumption
<1>3. parts \in Seq(Upload) /\ Len(parts) = n
  BY <1>1, <1>2
<1> QED BY <1>1, <1>2, <1>3

(* The changes of a file.                                                    *)
LEMMA SizeSet ==
    ASSUME NEW f \in File, NEW n \in Int
    PROVE  /\ [f EXCEPT !.size = n] \in File
           /\ [f EXCEPT !.size = n].final = f.final
  BY DEF File

LEMMA FinalFile ==
    ASSUME NEW n \in Int, NEW p \in PartList
    PROVE  LET f == [NoFile EXCEPT !.final = TRUE, !.size = n, !.parts = p]
           IN  f \in File /\ f.final /\ f.size = n /\ f.offset = 0 /\ f.parts = p
               /\ f.pieces = <<>>
<1>1. NoFile \in File /\ NoFile.offset = 0 /\ NoFile.pieces = <<>>
  BY DEF NoFile, File
<1>2. ASSUME NEW f \in File
      PROVE  LET g == [f EXCEPT !.final = TRUE, !.size = n, !.parts = p]
             IN  g \in File /\ g.final /\ g.size = n /\ g.offset = f.offset /\ g.parts = p
                 /\ g.pieces = f.pieces
  BY DEF File
<1> QED BY <1>1, <1>2

LEMMA JoinedFile ==
    ASSUME NEW f \in File, NEW part \in Upload \cup {NoUpload}, NEW len \in Nat
    PROVE  LET g == Joined(f, part, len)
           IN  /\ g \in File /\ g.final = f.final /\ g.size = f.size /\ g.parts = f.parts
               /\ g.offset = f.offset + len
               /\ g.pieces = Append(f.pieces, [from |-> part, len |-> len])
<1> DEFINE piece  == [from |-> part, len |-> len]
           offset == f.offset + len
           pieces == Append(f.pieces, piece)
<1>1. piece \in Piece
  BY DEF Piece
<1>2. f.pieces \in Seq(Piece) /\ f.offset \in Nat
  BY DEF File
<1>3. pieces \in Seq(Piece) /\ offset \in Nat
  BY <1>1, <1>2
<1>4. Joined(f, part, len) = [f EXCEPT !.offset = offset, !.pieces = pieces]
  BY DEF Joined
<1> HIDE DEF offset, pieces
<1>5. LET g == [f EXCEPT !.offset = offset, !.pieces = pieces]
      IN  /\ g \in File /\ g.final = f.final /\ g.size = f.size /\ g.parts = f.parts
          /\ g.offset = offset /\ g.pieces = pieces
  BY <1>3 DEF File
<1> QED BY <1>4, <1>5 DEF offset, pieces

(* The jobs handlers start with, and their changes.                          *)
LEMMA Jobs ==
    /\ NoJob \in Job /\ NoJob.id = NoUpload
    /\ \A u \in Upload : /\ [NoJob EXCEPT !.id = u] \in Job
                         /\ [NoJob EXCEPT !.id = u].id = u
    /\ \A p \in PartList : LET j == [NoJob EXCEPT !.parts = p]
                           IN  j \in Job /\ j.parts = p /\ j.next = 1 /\ j.total = 0
                               /\ j.id = NoUpload
<1>1. NoJob \in Job /\ NoJob.id = NoUpload /\ NoJob.next = 1 /\ NoJob.total = 0
  BY DEF NoJob, Job
<1>2. ASSUME NEW j \in Job, NEW u \in Upload
      PROVE  [j EXCEPT !.id = u] \in Job /\ [j EXCEPT !.id = u].id = u
  BY DEF Job
<1>3. ASSUME NEW j \in Job, NEW p \in PartList
      PROVE  LET k == [j EXCEPT !.parts = p]
             IN  k \in Job /\ k.parts = p /\ k.next = j.next /\ k.total = j.total
                 /\ k.id = j.id
  BY DEF Job
<1> QED BY <1>1, <1>2, <1>3

LEMMA JobUpdates ==
    ASSUME NEW j \in Job
    PROVE  /\ \A n \in Nat :
                LET k == [j EXCEPT !.next = n]
                IN  k \in Job /\ k.id = j.id /\ k.parts = j.parts /\ k.next = n
                    /\ k.total = j.total
           /\ \A u \in Upload :
                LET k == [j EXCEPT !.id = u]
                IN  k \in Job /\ k.id = u /\ k.parts = j.parts /\ k.next = j.next
                    /\ k.total = j.total
  BY DEF Job

(* The initial state: nothing is stored and every slot is idle.              *)
LEMMA InitType == Init => TypeInv
<1>1. NoFile \in File
  BY DEF NoFile, File
<1>2. NoJob \in Job
  BY Jobs
<1> QED BY <1>1, <1>2 DEF Init, TypeInv, TypeOK, Serving, Stage, Concatenating

(* A step that moves r and changes one file keeps the types.                 *)
LEMMA MoveType ==
    ASSUME TypeInv, NEW r \in Req, NEW stage \in Stage, NEW j \in Job,
           pc' = [pc EXCEPT ![r] = stage], job' = [job EXCEPT ![r] = j],
           status' \in [Upload -> {"free", "live", "gone"}], file' \in [Upload -> File],
           holder' \in [Upload -> Req \cup {NoReq}], finished' \in [Upload -> Nat],
           stage \in Concatenating => j.parts \in PartList,
           stage \in {"sizes", "create", "copy"} => j.next \in 1 .. Len(j.parts),
           stage \in {"patch", "copy", "announce", "empty"} => j.id \in Upload
    PROVE  TypeInv'
<1>1. TypeOK'
  BY DEF TypeInv, TypeOK
<1>2. ASSUME NEW s \in Req PROVE Serving(s)'
  BY DEF TypeInv, TypeOK, Serving
<1> QED BY <1>1, <1>2 DEF TypeInv

(* The handler answers and returns.                                          *)
LEMMA LeaveType ==
    ASSUME TypeInv, NEW r \in Req, Leave(r),
           status' \in [Upload -> {"free", "live", "gone"}], file' \in [Upload -> File],
           holder' \in [Upload -> Req \cup {NoReq}], finished' \in [Upload -> Nat]
    PROVE  TypeInv'
  BY Jobs, MoveType DEF Leave, Goto, Stage, Concatenating

LEMMA PlainType ==
    ASSUME TypeInv, NEW u \in Upload, CreateUpload(u) \/ Delete(u)
    PROVE  TypeInv'
<1>1. NoFile \in File
  BY DEF NoFile, File
<1>2. \A size \in Deferred .. MaxLen : [NoFile EXCEPT !.size = size] \in File
  BY <1>1, SizeSet DEF Deferred
<1>3. /\ UNCHANGED <<holder, pc, job, finished>>
      /\ \E st \in {"live", "gone"} : status' = [status EXCEPT ![u] = st]
      /\ \/ file' = file
         \/ \E size \in Deferred .. MaxLen :
              file' = [file EXCEPT ![u] = [NoFile EXCEPT !.size = size]]
  BY DEF CreateUpload, Delete
<1> QED BY <1>2, <1>3 DEF TypeInv, TypeOK, Serving

LEMMA PatchType ==
    ASSUME TypeInv, NEW r \in Req, PatchBegin(r) \/ PatchAppend(r) \/ PatchFinish(r)
    PROVE  TypeInv'
<1>1. CASE PatchBegin(r)
  <2>1. PICK u \in Upload, size \in Deferred .. MaxLen :
          /\ file' = [file EXCEPT ![u] = [file[u] EXCEPT !.size = size]]
          /\ holder' = [holder EXCEPT ![u] = r]
          /\ job' = [job EXCEPT ![r] = [NoJob EXCEPT !.id = u]]
    BY <1>1 DEF PatchBegin
  <2>2. size \in Int
    BY ConstantsAssumption DEF Deferred
  <2>3. file' \in [Upload -> File] /\ holder' \in [Upload -> Req \cup {NoReq}]
    BY <2>1, <2>2, SizeSet DEF TypeInv, TypeOK
  <2>4. UNCHANGED <<status, finished>> /\ pc' = [pc EXCEPT ![r] = "patch"]
    BY <1>1 DEF PatchBegin, Goto
  <2> QED BY <2>1, <2>3, <2>4, Jobs, MoveType DEF TypeInv, TypeOK, Stage, Concatenating
<1>2. CASE PatchAppend(r)
  <2>1. job[r].id \in Upload
    BY <1>2 DEF PatchAppend, TypeInv, Serving
  <2>2. file' \in [Upload -> File]
    BY <1>2, <2>1, JoinedFile DEF PatchAppend, TypeInv, TypeOK
  <2> QED BY <1>2, <2>2 DEF PatchAppend, TypeInv, TypeOK, Serving
<1>3. CASE PatchFinish(r)
  <2>1. holder' \in [Upload -> Req \cup {NoReq}]
    BY <1>3 DEF PatchFinish, TypeInv, TypeOK
  <2> QED BY <1>3, <2>1, LeaveType DEF PatchFinish, TypeInv, TypeOK
<1> QED BY <1>1, <1>2, <1>3

LEMMA CheckType ==
    ASSUME TypeInv, NEW r \in Req, BeginConcat(r) \/ SizeOfPart(r) \/ RefuseFinal(r)
    PROVE  TypeInv'
<1>1. UNCHANGED <<status, file, holder, finished>>
  BY DEF BeginConcat, SizeOfPart, RefuseFinal
<1>2. CASE BeginConcat(r)
  <2>1. PICK parts \in PartList : job' = [job EXCEPT ![r] = [NoJob EXCEPT !.parts = parts]]
    BY <1>2 DEF BeginConcat
  <2> DEFINE k == [NoJob EXCEPT !.parts = parts]
  <2>2. k \in Job /\ k.parts = parts /\ k.next = 1
    BY Jobs
  <2>3. 1 \in 1 .. Len(parts)
    BY PartLists
  <2>4. pc' = [pc EXCEPT ![r] = "sizes"]
    BY <1>2 DEF BeginConcat, Goto
  <2>5. job' = [job EXCEPT ![r] = k]
    BY <2>1
  <2> HIDE DEF k
  <2> QED BY <1>1, <2>2, <2>3, <2>4, <2>5, MoveType DEF TypeInv, TypeOK, Stage
<1>3. CASE SizeOfPart(r) /\ ~Leave(r)
  <2> DEFINE j == job[r]
             part == j.parts[j.next]
             last == j.next = Len(j.parts)
             next == IF last THEN 1 ELSE j.next + 1
             total == AddSize(j.total, file[part])
             k == [j EXCEPT !.next = next, !.total = total]
  <2>1. /\ job' = [job EXCEPT ![r] = k]
        /\ pc' = [pc EXCEPT ![r] = IF last THEN "create" ELSE "sizes"]
        /\ PartReady(file[part]) /\ pc[r] = "sizes"
    BY <1>3 DEF SizeOfPart, Goto
  <2>2. /\ j \in Job /\ j.parts \in PartList /\ j.next \in 1 .. Len(j.parts)
        /\ j.total \in Nat
    BY <2>1 DEF TypeInv, TypeOK, Serving, Concatenating, Job
  <2>3. Len(j.parts) \in Nat /\ part \in Upload
    BY <2>2, PartLists
  <2>4. total \in Nat
    BY <2>1, <2>2, <2>3 DEF AddSize, PartReady, IsComplete, TypeInv, TypeOK, File
  <2>5. next \in Nat /\ next \in 1 .. Len(j.parts)
    BY <2>2, <2>3
  <2> HIDE DEF next, total
  <2>6. k \in Job /\ k.parts = j.parts /\ k.next = next
    <3> HIDE DEF j, part, last
    <3> QED BY <2>2, <2>4, <2>5 DEF Job
  <2> HIDE DEF k, last
  <2>7. PICK stage \in {"create", "sizes"} : pc' = [pc EXCEPT ![r] = stage]
    BY <2>1
  <2> QED BY <1>1, <2>1, <2>2, <2>5, <2>6, <2>7, MoveType DEF TypeInv, TypeOK, Stage
<1>4. CASE Leave(r)
  BY <1>1, <1>4, LeaveType DEF TypeInv, TypeOK
<1> QED BY <1>2, <1>3, <1>4 DEF RefuseFinal

LEMMA NewFinalType ==
    ASSUME TypeInv, NEW r \in Req, NewFinal(r)
    PROVE  TypeInv'
<1> DEFINE j == job[r]
           f == [NoFile EXCEPT !.final = TRUE, !.size = j.total, !.parts = j.parts]
<1>1. PICK u \in Upload :
        /\ status' = [status EXCEPT ![u] = "live"]
        /\ file' = [file EXCEPT ![u] = f]
        /\ \/ /\ job' = [job EXCEPT ![r] = [j EXCEPT !.id = u]]
              /\ Goto(r, "copy")
           \/ Leave(r)
  BY DEF NewFinal
<1>2. /\ j \in Job /\ j.parts \in PartList /\ j.total \in Nat /\ j.next \in Nat
      /\ UNCHANGED <<holder, finished>>
  BY DEF NewFinal, TypeInv, TypeOK, Serving, Concatenating, Job
<1>3. f \in File
  <2>1. j.total \in Int
    BY <1>2
  <2> HIDE DEF j
  <2> QED BY <1>2, <2>1, FinalFile
<1> HIDE DEF f
<1>4. file' \in [Upload -> File] /\ status' \in [Upload -> {"free", "live", "gone"}]
  BY <1>1, <1>3 DEF TypeInv, TypeOK
<1>5. CASE Leave(r)
  BY <1>2, <1>4, <1>5, LeaveType DEF TypeInv, TypeOK
<1>6. CASE /\ job' = [job EXCEPT ![r] = [j EXCEPT !.id = u]]
           /\ Goto(r, "copy")
  <2> DEFINE k == [j EXCEPT !.id = u]
  <2>1. k \in Job /\ k.parts = j.parts /\ k.next = j.next /\ k.id = u
    BY <1>2, JobUpdates
  <2>2. j.next \in 1 .. Len(j.parts)
    BY DEF NewFinal, TypeInv, Serving
  <2>3. job' = [job EXCEPT ![r] = k] /\ pc' = [pc EXCEPT ![r] = "copy"]
    BY <1>6 DEF Goto
  <2> HIDE DEF k, j
  <2> QED BY <1>2, <1>4, <2>1, <2>2, <2>3, MoveType DEF TypeInv, TypeOK, Stage
<1> QED BY <1>1, <1>5, <1>6

LEMMA CopyType ==
    ASSUME TypeInv, NEW r \in Req, CopyPart(r)
    PROVE  TypeInv'
<1> DEFINE j == job[r]
           part == j.parts[j.next]
           u == j.id
           k == [j EXCEPT !.next = j.next + 1]
<1>1. /\ j \in Job /\ j.parts \in PartList /\ j.next \in 1 .. Len(j.parts) /\ u \in Upload
      /\ UNCHANGED <<status, holder, finished>>
  BY DEF CopyPart, TypeInv, TypeOK, Serving, Concatenating
<1>2. Len(j.parts) \in Nat /\ part \in Upload /\ j.next + 1 \in Nat
  BY <1>1, PartLists
<1>3. CASE Leave(r) /\ UNCHANGED file
  BY <1>1, <1>3, LeaveType DEF TypeInv, TypeOK
<1>4. CASE /\ file' = [file EXCEPT ![u] = Joined(file[u], part, file[part].offset)]
           /\ job' = [job EXCEPT ![r] = k]
           /\ Goto(r, IF j.next = Len(j.parts) THEN "announce" ELSE "copy")
  <2>1. file' \in [Upload -> File]
    <3>1. file[u] \in File /\ file[part].offset \in Nat
      BY <1>1, <1>2 DEF TypeInv, TypeOK, File
    <3> HIDE DEF part, u
    <3> QED BY <1>2, <1>4, <3>1, JoinedFile DEF TypeInv, TypeOK
  <2>2. k \in Job /\ k.parts = j.parts /\ k.next = j.next + 1 /\ k.id = u
    BY <1>1, <1>2, JobUpdates
  <2> HIDE DEF k, part
  <2>3. CASE j.next = Len(j.parts)
    BY <1>1, <1>4, <2>1, <2>2, <2>3, MoveType DEF Goto, TypeInv, TypeOK, Stage
  <2>4. CASE j.next # Len(j.parts)
    <3>1. k.next \in 1 .. Len(k.parts)
      BY <1>1, <1>2, <2>2, <2>4
    <3> QED BY <1>1, <1>4, <2>1, <2>2, <2>4, <3>1, MoveType
            DEF Goto, TypeInv, TypeOK, Stage
  <2> QED BY <2>3, <2>4
<1> QED BY <1>3, <1>4 DEF CopyPart, AfterMissing

LEMMA AnnounceType ==
    ASSUME TypeInv, NEW r \in Req, Announce(r) \/ FinishEmpty(r)
    PROVE  TypeInv'
<1>1. /\ job[r].id \in Upload /\ job[r].parts \in PartList /\ job[r] \in Job
      /\ UNCHANGED <<status, file, holder>>
  BY DEF Announce, FinishEmpty, TypeInv, TypeOK, Serving, Concatenating
<1>2. finished' \in [Upload -> Nat]
  BY <1>1 DEF Announce, FinishEmpty, TypeInv, TypeOK
<1>3. CASE Leave(r)
  BY <1>1, <1>2, <1>3, LeaveType DEF TypeInv, TypeOK
<1>4. CASE Goto(r, "empty") /\ UNCHANGED job
  <2>1. /\ job' = [job EXCEPT ![r] = job[r]]
        /\ pc' = [pc EXCEPT ![r] = "empty"]
    BY <1>4 DEF Goto, TypeInv, TypeOK
  <2> QED BY <1>1, <1>2, <2>1, MoveType DEF TypeInv, TypeOK, Stage
<1> QED BY <1>3, <1>4 DEF Announce, AfterAnnounced, FinishEmpty

(* Every step keeps the types.                                               *)
LEMMA StepType == TypeInv /\ [Next]_vars => TypeInv'
<1> SUFFICES ASSUME TypeInv, [Next]_vars PROVE TypeInv'
  OBVIOUS
<1>1. ASSUME NEW r \in Req, Step(r) PROVE TypeInv'
  BY <1>1, PatchType, CheckType, NewFinalType, CopyType, AnnounceType DEF Step
<1>2. ASSUME NEW u \in Upload, CreateUpload(u) \/ Delete(u) PROVE TypeInv'
  BY <1>2, PlainType
<1>3. CASE Crash
  BY <1>3, Jobs DEF Crash, TypeInv, TypeOK, Serving, Stage, Concatenating
<1>4. CASE UNCHANGED vars
  BY <1>4 DEF vars, TypeInv, TypeOK, Serving
<1> QED BY <1>1, <1>2, <1>3, <1>4 DEF Next

(* The variables keep the shapes of what the store and the handlers keep.    *)
THEOREM TypeInvariant == Spec => []TypeInv
  BY InitType, StepType, PTL DEF Spec

(* TypeOK for every value of the constants.                                  *)
THEOREM TypeCorrect == Spec => []TypeOK
  BY TypeInvariant, PTL DEF TypeInv

-----------------------------------------------------------------------------
(* Part 2, what final uploads consist of. *)

(* The stages of a POST after NewUpload.                                     *)
Building == {"copy", "announce", "empty"}

(* An upload clients know: whoever built it has answered.                    *)
Known(p) == status[p] # "free" /\ \A r \in Req : pc[r] \in Building => job[r].id # p

(* Nobody writes to it any more.                                             *)
Settled(p) == Known(p) /\ IsComplete(file[p])

Checked(r, i) == pc[r] # "sizes" \/ i < job[r].next

PartsInv(r) ==
    pc[r] \in Concatenating =>
        \A i \in 1 .. Len(job[r].parts) :
            /\ Known(job[r].parts[i])
            /\ Checked(r, i) => Settled(job[r].parts[i])

JobInv(r) ==
    LET u == job[r].id
    IN /\ pc[r] \notin Building /\ pc[r] # "patch" => u = NoUpload
       /\ pc[r] \in Building \/ pc[r] = "patch" => status[u] # "free"
       /\ pc[r] = "patch" => ~file[u].final
       /\ pc[r] \in Building =>
            /\ file[u].final /\ file[u].parts = job[r].parts
            /\ file[u].size = job[r].total
       /\ pc[r] = "create" => job[r].next = 1
       /\ pc[r] = "copy" => Len(file[u].pieces) = job[r].next - 1
       /\ pc[r] \in {"announce", "empty"} => Len(file[u].pieces) = Len(job[r].parts)
       /\ pc[r] \in {"copy", "announce"} => finished[u] = 0
       /\ pc[r] = "empty" => job[r].total = 0

Alone ==
    \A r, s \in Req :
        r # s /\ pc[r] \in Building /\ pc[s] \in Building => job[r].id # job[s].id

FinalInv(u) ==
    LET f == file[u]
    IN f.final =>
        /\ f.parts \in PartList /\ Len(f.pieces) <= Len(f.parts)
        /\ \A i \in 1 .. Len(f.parts) : Settled(f.parts[i])
        /\ \A i \in 1 .. Len(f.pieces) :
             f.pieces[i] = [from |-> f.parts[i], len |-> file[f.parts[i]].size]
        /\ finished[u] > 0 => Len(f.pieces) = Len(f.parts)
        /\ f.size > 0 => finished[u] <= 1

PlainInv(u) ==
    /\ status[u] = "free" => ~file[u].final
    /\ ~file[u].final => finished[u] = 0

ConcatInv ==
    /\ \A r \in Req : PartsInv(r) /\ JobInv(r)
    /\ \A u \in Upload : FinalInv(u) /\ PlainInv(u)
    /\ Alone

(* What a step must not do to the parts of anybody.                          *)
Stays ==
    \A p \in Upload : /\ Known(p) => Known(p)'
                      /\ Settled(p) => file'[p] = file[p]

LEMMA InitConcat == Init => ConcatInv
<1> SUFFICES ASSUME Init PROVE ConcatInv
  OBVIOUS
<1>1. ASSUME NEW r \in Req PROVE PartsInv(r) /\ JobInv(r)
  BY DEF Init, PartsInv, JobInv, Concatenating, Building, NoJob
<1>2. ASSUME NEW u \in Upload PROVE FinalInv(u) /\ PlainInv(u)
  BY DEF Init, FinalInv, PlainInv, NoFile
<1>3. Alone
  BY DEF Init, Alone, Building
<1> QED BY <1>1, <1>2, <1>3 DEF ConcatInv

(* An id clients know is that of an upload that nobody is building.          *)
LEMMA AddressableKnown ==
    ASSUME NEW u \in Upload, Addressable(u)
    PROVE  Known(u)
  BY DEF Addressable, Known, Building

(* Nobody enters Building with an upload that was known before.              *)
LEMMA StaysKnown ==
    ASSUME \A v \in Upload : status[v] # "free" => status'[v] # "free",
           \A v \in Upload : Settled(v) => file'[v] = file[v],
           \A s \in Req : \/ pc'[s] \notin Building
                          \/ pc[s] \in Building /\ job'[s].id = job[s].id
                          \/ status[job'[s].id] = "free"
    PROVE  Stays
  BY DEF Stays, Known

(* A settled part stays settled.                                             *)
LEMMA StaysSettled ==
    ASSUME Stays, NEW p \in Upload, Settled(p)
    PROVE  Settled(p)' /\ file'[p] = file[p]
  BY DEF Stays, Settled

(* Requests and uploads a step leaves alone.                                 *)
LEMMA KeepParts ==
    ASSUME TypeInv, Stays, NEW s \in Req, PartsInv(s), pc'[s] = pc[s], job'[s] = job[s]
    PROVE  PartsInv(s)'
<1> SUFFICES ASSUME pc[s] \in Concatenating, NEW i \in 1 .. Len(job[s].parts)
             PROVE  /\ Known(job[s].parts[i])'
                    /\ Checked(s, i) => Settled(job[s].parts[i])'
  BY DEF PartsInv, Checked
<1>1. job[s].parts[i] \in Upload
  BY PartLists DEF TypeInv, Serving
<1>2. Known(job[s].parts[i]) /\ (Checked(s, i) => Settled(job[s].parts[i]))
  BY DEF PartsInv
<1>3. Known(job[s].parts[i])'
  BY <1>1, <1>2 DEF Stays, Known
<1>4. ASSUME Settled(job[s].parts[i]) PROVE Settled(job[s].parts[i])'
  BY <1>1, <1>4, StaysSettled DEF Settled, Known
<1> QED BY <1>2, <1>3, <1>4

LEMMA KeepFinal ==
    ASSUME TypeInv, Stays, NEW u \in Upload, FinalInv(u),
           file'[u] = file[u], finished'[u] = finished[u]
    PROVE  FinalInv(u)'
<1> DEFINE f == file[u]
<1> SUFFICES ASSUME f.final PROVE FinalInv(u)'
  BY DEF FinalInv
<1>1. f.parts \in PartList /\ Len(f.pieces) <= Len(f.parts) /\ f.pieces \in Seq(Piece)
  BY DEF FinalInv, TypeInv, TypeOK, File
<1>2. Len(f.parts) \in Nat /\ Len(f.pieces) \in Nat
  BY <1>1, PartLists
<1>3. ASSUME NEW i \in 1 .. Len(f.parts)
      PROVE  Settled(f.parts[i])' /\ file'[f.parts[i]] = file[f.parts[i]]
  <2>1. f.parts[i] \in Upload /\ Settled(f.parts[i])
    BY <1>1, PartLists DEF FinalInv
  <2> HIDE DEF f
  <2>2. file'[f.parts[i]] = file[f.parts[i]]
    BY <2>1, StaysSettled
  <2>3. Known(f.parts[i])' /\ IsComplete(file[f.parts[i]])
    BY <2>1 DEF Stays, Known, Settled, f
  <2> QED BY <2>2, <2>3 DEF Settled, Known, f
<1>4. \A i \in 1 .. Len(f.pieces) : i \in 1 .. Len(f.parts)
  BY <1>1, <1>2
<1> QED BY <1>1, <1>3, <1>4 DEF FinalInv

LEMMA KeepConcat ==
    ASSUME TypeInv, ConcatInv, Stays, Alone',
           \A s \in Req :
             \/ PartsInv(s)' /\ JobInv(s)'
             \/ /\ pc'[s] = pc[s] /\ job'[s] = job[s]
                /\ pc[s] \in Building => /\ file'[job[s].id] = file[job[s].id]
                                         /\ finished'[job[s].id] = finished[job[s].id]
                /\ pc[s] \in Building \/ pc[s] = "patch" => status'[job[s].id] # "free"
                /\ pc[s] = "patch" => ~file'[job[s].id].final,
           \A v \in Upload :
             \/ FinalInv(v)' /\ PlainInv(v)'
             \/ /\ file'[v] = file[v] /\ finished'[v] = finished[v]
                /\ status'[v] = "free" => status[v] = "free"
    PROVE  ConcatInv'
<1>1. ASSUME NEW s \in Req PROVE PartsInv(s)' /\ JobInv(s)'
  <2> SUFFICES ASSUME ~(PartsInv(s)' /\ JobInv(s)') PROVE PartsInv(s)' /\ JobInv(s)'
    OBVIOUS
  <2>1. PartsInv(s)'
    BY KeepParts DEF ConcatInv
  <2>2. JobInv(s)'
    BY DEF ConcatInv, JobInv, Building
  <2> QED BY <2>1, <2>2
<1>2. ASSUME NEW v \in Upload PROVE FinalInv(v)' /\ PlainInv(v)'
  <2> SUFFICES ASSUME ~(FinalInv(v)' /\ PlainInv(v)') PROVE FinalInv(v)' /\ PlainInv(v)'
    OBVIOUS
  <2>1. FinalInv(v)'
    BY KeepFinal DEF ConcatInv
  <2>2. PlainInv(v)'
    BY DEF ConcatInv, PlainInv
  <2> QED BY <2>1, <2>2
<1> QED BY <1>1, <1>2 DEF ConcatInv

(* An answer leaves nothing to say about its slot.                           *)
LEMMA LeaveConcat ==
    ASSUME TypeInv, NEW r \in Req, Leave(r)
    PROVE  /\ pc'[r] = "idle" /\ PartsInv(r)' /\ JobInv(r)'
           /\ \A s \in Req : s # r => pc'[s] = pc[s] /\ job'[s] = job[s]
<1>1. /\ pc'[r] = "idle" /\ job'[r] = NoJob
      /\ \A s \in Req : s # r => pc'[s] = pc[s] /\ job'[s] = job[s]
  BY DEF Leave, Goto, TypeInv, TypeOK
<1>2. PartsInv(r)' /\ JobInv(r)'
  BY <1>1, Jobs DEF PartsInv, JobInv, Concatenating, Building
<1> QED BY <1>1, <1>2

(* CreateUpload, Delete: plain uploads come, all uploads may go.             *)
LEMMA PlainConcat ==
    ASSUME TypeInv, ConcatInv, NEW u \in Upload, CreateUpload(u) \/ Delete(u)
    PROVE  ConcatInv'
<1>1. /\ UNCHANGED <<pc, job, finished>>
      /\ \A v \in Upload : status[v] # "free" => status'[v] # "free"
      /\ status'[u] # "free"
      /\ \A v \in Upload : v # u => status'[v] = status[v] /\ file'[v] = file[v]
  BY DEF CreateUpload, Delete, TypeInv, TypeOK
<1>2. CASE CreateUpload(u)
  <2>1. status[u] = "free" /\ ~file'[u].final
    <3>1. PICK size \in Deferred .. MaxLen :
            file' = [file EXCEPT ![u] = [NoFile EXCEPT !.size = size]]
      BY <1>2 DEF CreateUpload
    <3>2. file'[u] = [NoFile EXCEPT !.size = size]
      BY <3>1 DEF TypeInv, TypeOK
    <3> QED BY <1>2, <3>2 DEF CreateUpload, NoFile
  <2>2. FinalInv(u)' /\ PlainInv(u)'
    BY <1>1, <2>1 DEF ConcatInv, FinalInv, PlainInv
  <2>3. Stays
    BY <1>1, <2>1, StaysKnown DEF Settled, Known
  <2>4. Alone'
    BY <1>1 DEF ConcatInv, Alone
  <2>5. ASSUME NEW s \in Req, pc[s] \in Building \/ pc[s] = "patch"
        PROVE  /\ job[s].id \in Upload /\ job[s].id # u /\ status[job[s].id] # "free"
               /\ pc[s] = "patch" => ~file[job[s].id].final
    BY <2>1, <2>5 DEF ConcatInv, JobInv, Building, TypeInv, Serving
  <2> QED BY <1>1, <2>2, <2>3, <2>4, <2>5, KeepConcat
<1>3. CASE Delete(u)
  <2>1. UNCHANGED file
    BY <1>3 DEF Delete
  <2>2. Stays
    BY <1>1, <2>1, StaysKnown
  <2>3. Alone'
    BY <1>1 DEF ConcatInv, Alone
  <2>4. ASSUME NEW s \in Req, pc[s] \in Building \/ pc[s] = "patch"
        PROVE  /\ job[s].id \in Upload /\ status[job[s].id] # "free"
               /\ pc[s] = "patch" => ~file[job[s].id].final
    BY <2>4 DEF ConcatInv, JobInv, Building, TypeInv, Serving
  <2> QED BY <1>1, <2>1, <2>2, <2>3, <2>4, KeepConcat
<1> QED BY <1>2, <1>3

(* A PATCH changes only an upload that is neither complete nor final.        *)
LEMMA PatchConcat ==
    ASSUME TypeInv, ConcatInv, NEW r \in Req,
           PatchBegin(r) \/ PatchAppend(r) \/ PatchFinish(r)
    PROVE  ConcatInv'
<1>1. UNCHANGED <<status, finished>>
  BY DEF PatchBegin, PatchAppend, PatchFinish
<1>2. CASE PatchFinish(r)
  <2>1. UNCHANGED file /\ Leave(r)
    BY <1>2 DEF PatchFinish
  <2>2. Stays
    BY <1>1, <2>1, LeaveConcat, StaysKnown DEF Building
  <2>3. Alone'
    BY <2>1, LeaveConcat DEF ConcatInv, Alone, Building
  <2>4. ASSUME NEW s \in Req, pc[s] \in Building \/ pc[s] = "patch"
        PROVE  /\ status[job[s].id] # "free"
               /\ pc[s] = "patch" => ~file[job[s].id].final
    BY <2>4 DEF ConcatInv, JobInv, Building
  <2> QED BY <1>1, <2>1, <2>2, <2>3, <2>4, LeaveConcat, KeepConcat
<1>3. CASE PatchBegin(r) \/ PatchAppend(r)
  <2>1. PICK u \in Upload :
          /\ status[u] # "free" /\ ~file[u].final /\ ~IsComplete(file[u])
          /\ ~file'[u].final
          /\ \A v \in Upload : v # u => file'[v] = file[v]
          /\ pc'[r] = "patch" /\ job'[r].id = u
          /\ \A s \in Req : s # r => pc'[s] = pc[s] /\ job'[s] = job[s]
    <3>1. CASE PatchBegin(r)
      <4>1. PICK u \in Upload, size \in Deferred .. MaxLen :
              /\ status[u] = "live" /\ AcceptsPatch(file[u])
              /\ file' = [file EXCEPT ![u] = [file[u] EXCEPT !.size = size]]
              /\ job' = [job EXCEPT ![r] = [NoJob EXCEPT !.id = u]]
              /\ pc' = [pc EXCEPT ![r] = "patch"]
        BY <3>1 DEF PatchBegin, Goto
      <4>2. size \in Int
        BY ConstantsAssumption DEF Deferred
      <4>3. /\ file'[u].final = file[u].final
            /\ \A v \in Upload : v # u => file'[v] = file[v]
        BY <4>1, <4>2, SizeSet DEF TypeInv, TypeOK
      <4>4. /\ pc'[r] = "patch" /\ job'[r].id = u
            /\ \A s \in Req : s # r => pc'[s] = pc[s] /\ job'[s] = job[s]
        BY <4>1, Jobs DEF TypeInv, TypeOK
      <4> QED BY <4>1, <4>3, <4>4 DEF AcceptsPatch
    <3>2. CASE PatchAppend(r)
      <4> DEFINE u == job[r].id
      <4>1. u \in Upload /\ pc[r] = "patch" /\ UNCHANGED <<pc, job>>
        BY <3>2 DEF PatchAppend, TypeInv, Serving
      <4>2. status[u] # "free" /\ ~file[u].final
        BY <4>1 DEF ConcatInv, JobInv
      <4>3. file[u] \in File
        BY <4>1 DEF TypeInv, TypeOK
      <4>4. ~IsComplete(file[u])
        BY <3>2, <4>3, ConstantsAssumption DEF PatchAppend, IsComplete, File
      <4>5. /\ file'[u] = Joined(file[u], NoUpload, 1)
            /\ \A v \in Upload : v # u => file'[v] = file[v]
        BY <3>2, <4>1 DEF PatchAppend, TypeInv, TypeOK
      <4>6. ~file'[u].final
        <5>1. Joined(file[u], NoUpload, 1).final = file[u].final
          BY <4>3 DEF Joined, File
        <5> QED BY <4>2, <4>5, <5>1
      <4> QED BY <4>1, <4>2, <4>4, <4>5, <4>6
    <3> QED BY <1>3, <3>1, <3>2
  <2>2. Stays
    <3>1. \A v \in Upload : Settled(v) => file'[v] = file[v]
      BY <2>1 DEF Settled
    <3>2. \A s \in Req : pc'[s] \in Building => pc[s] \in Building /\ job'[s].id = job[s].id
      BY <2>1 DEF Building
    <3> QED BY <1>1, <3>1, <3>2, StaysKnown
  <2>3. Alone'
    BY <2>1 DEF ConcatInv, Alone, Building
  <2>4. PartsInv(r)' /\ JobInv(r)'
    BY <1>1, <2>1 DEF PartsInv, JobInv, Concatenating, Building
  <2>5. FinalInv(u)' /\ PlainInv(u)'
    BY <1>1, <2>1 DEF ConcatInv, FinalInv, PlainInv
  <2>6. ASSUME NEW s \in Req, s # r, pc[s] \in Building
        PROVE  job[s].id \in Upload /\ job[s].id # u /\ status[job[s].id] # "free"
    BY <2>1, <2>6 DEF ConcatInv, JobInv, Building, TypeInv, Serving
  <2>7. ASSUME NEW s \in Req, s # r, pc[s] = "patch"
        PROVE  status[job[s].id] # "free" /\ ~file'[job[s].id].final
    <3>1. job[s].id \in Upload /\ status[job[s].id] # "free" /\ ~file[job[s].id].final
      BY <2>7 DEF ConcatInv, JobInv, TypeInv, Serving
    <3>2. CASE job[s].id = u
      BY <2>1, <3>1, <3>2
    <3>3. CASE job[s].id # u
      BY <2>1, <3>1, <3>3
    <3> QED BY <3>2, <3>3
  <2> QED BY <1>1, <2>1, <2>2, <2>3, <2>4, <2>5, <2>6, <2>7, KeepConcat
<1> QED BY <1>2, <1>3

(* Requests that are building something, or writing to a plain upload.       *)
LEMMA Others ==
    ASSUME TypeInv, ConcatInv, NEW s \in Req, pc[s] \in Building \/ pc[s] = "patch"
    PROVE  /\ job[s].id \in Upload /\ status[job[s].id] # "free"
           /\ pc[s] = "patch" => ~file[job[s].id].final
           /\ pc[s] \in Building => ~Known(job[s].id)
  BY DEF ConcatInv, JobInv, Building, Known, TypeInv, Serving

(* BeginConcat, SizeOfPart, RefuseFinal: only a handler's variables change.  *)
LEMMA CheckConcat ==
    ASSUME TypeInv, ConcatInv, NEW r \in Req,
           BeginConcat(r) \/ SizeOfPart(r) \/ RefuseFinal(r)
    PROVE  ConcatInv'
<1>1. UNCHANGED <<status, file, holder, finished>>
  BY DEF BeginConcat, SizeOfPart, RefuseFinal
<1>2. /\ pc'[r] \notin Building /\ pc[r] \notin Building
      /\ \A s \in Req : s # r => pc'[s] = pc[s] /\ job'[s] = job[s]
  BY DEF BeginConcat, SizeOfPart, RefuseFinal, Leave, Goto, Building, TypeInv, TypeOK
<1>3. Stays
  BY <1>1, <1>2, StaysKnown
<1>4. Alone'
  BY <1>2 DEF ConcatInv, Alone
<1>5. PartsInv(r)' /\ JobInv(r)'
  <2>1. CASE Leave(r)
    BY <2>1, LeaveConcat
  <2>2. CASE BeginConcat(r)
    <3>1. PICK parts \in PartList :
            /\ \A i \in DOMAIN parts : Addressable(parts[i])
            /\ job' = [job EXCEPT ![r] = [NoJob EXCEPT !.parts = parts]]
            /\ pc' = [pc EXCEPT ![r] = "sizes"]
      BY <2>2 DEF BeginConcat, Goto
    <3>2. /\ job'[r] = [NoJob EXCEPT !.parts = parts] /\ pc'[r] = "sizes"
          /\ [NoJob EXCEPT !.parts = parts].parts = parts
          /\ [NoJob EXCEPT !.parts = parts].next = 1
          /\ [NoJob EXCEPT !.parts = parts].id = NoUpload
      BY <3>1, Jobs DEF TypeInv, TypeOK
    <3>3. job'[r].parts = parts /\ job'[r].next = 1 /\ job'[r].id = NoUpload
      BY <3>2
    <3>4. ASSUME NEW i \in 1 .. Len(parts) PROVE Known(parts[i])'
      <4>1. parts[i] \in Upload /\ i \in DOMAIN parts
        BY PartLists
      <4>2. Known(parts[i])
        BY <3>1, <4>1, AddressableKnown
      <4> QED BY <1>3, <4>1, <4>2 DEF Stays, Known
    <3>5. \A i \in 1 .. Len(parts) : ~(i < 1)
      BY PartLists
    <3>6. PartsInv(r)'
      BY <3>2, <3>3, <3>4, <3>5 DEF PartsInv, Checked, Known
    <3> QED BY <3>2, <3>3, <3>6 DEF JobInv, Building
  <2>3. CASE SizeOfPart(r) /\ ~Leave(r)
    <3> DEFINE j == job[r]
               part == j.parts[j.next]
               last == j.next = Len(j.parts)
    <3>1. /\ job'[r].parts = j.parts /\ job'[r].id = j.id
          /\ job'[r].next = IF last THEN 1 ELSE j.next + 1
      <4>1. job'[r] = [j EXCEPT !.next = IF last THEN 1 ELSE j.next + 1,
                                !.total = AddSize(j.total, file[part])]
        BY <2>3 DEF SizeOfPart, TypeInv, TypeOK
      <4>2. j \in Job
        BY DEF TypeInv, TypeOK
      <4> HIDE DEF j, last, part
      <4> QED BY <4>1, <4>2 DEF Job
    <3>2. /\ pc[r] = "sizes" /\ pc'[r] = IF last THEN "create" ELSE "sizes"
          /\ IsComplete(file[part])
      BY <2>3 DEF SizeOfPart, Goto, PartReady, TypeInv, TypeOK
    <3>3. j.parts \in PartList /\ j.next \in 1 .. Len(j.parts) /\ Len(j.parts) \in Nat
      BY <3>2, PartLists DEF TypeInv, Serving, Concatenating
    <3>4. ASSUME NEW i \in 1 .. Len(j.parts), NEW p \in Upload, p = j.parts[i]
          PROVE  Known(p)' /\ (Checked(r, i)' => Settled(p)')
      <4>1. Known(p) /\ (i < j.next => Settled(p))
        BY <3>2, <3>4 DEF ConcatInv, PartsInv, Checked, Concatenating
      <4>2. Known(p)'
        BY <1>3, <4>1 DEF Stays
      <4>3. ASSUME Checked(r, i)' PROVE i < j.next \/ i = j.next
        <5>1. CASE last
          BY <3>3, <5>1
        <5>2. CASE ~last
          BY <3>1, <3>2, <3>3, <4>3, <5>2 DEF Checked
        <5> QED BY <5>1, <5>2
      <4>4. ASSUME Checked(r, i)' PROVE IsComplete(file[p])
        BY <3>2, <3>4, <4>1, <4>3, <4>4 DEF Settled
      <4> QED BY <1>1, <4>2, <4>4 DEF Settled
    <3>5. j.id = NoUpload
      BY <3>2 DEF ConcatInv, JobInv, Building
    <3>6. PartsInv(r)'
      <4>1. \A i \in 1 .. Len(j.parts) : j.parts[i] \in Upload
        BY <3>3, PartLists
      <4> HIDE DEF j
      <4> QED BY <3>1, <3>4, <4>1 DEF PartsInv
    <3>7. JobInv(r)'
      <4> HIDE DEF j
      <4> QED BY <3>1, <3>2, <3>5 DEF JobInv, Building
    <3> QED BY <3>6, <3>7
  <2> QED BY <2>1, <2>2, <2>3 DEF RefuseFinal
<1> QED BY <1>1, <1>2, <1>3, <1>4, <1>5, Others, KeepConcat

(* NewFinal: the parts were all checked; nothing has been joined yet.        *)
LEMMA NewFinalConcat ==
    ASSUME TypeInv, ConcatInv, NEW r \in Req, NewFinal(r)
    PROVE  ConcatInv'
<1> DEFINE j == job[r]
<1>1. PICK u \in Upload :
        /\ status[u] = "free"
        /\ status' = [status EXCEPT ![u] = "live"]
        /\ file' = [file EXCEPT ![u] =
             [NoFile EXCEPT !.final = TRUE, !.size = j.total, !.parts = j.parts]]
        /\ \/ /\ job' = [job EXCEPT ![r] = [j EXCEPT !.id = u]]
              /\ Goto(r, "copy")
           \/ Leave(r)
  BY DEF NewFinal
<1>2. /\ pc[r] = "create" /\ UNCHANGED finished
      /\ j \in Job /\ j.parts \in PartList /\ j.total \in Nat
      /\ j.next \in 1 .. Len(j.parts)
  BY DEF NewFinal, TypeInv, TypeOK, Serving, Concatenating, Job
<1>3. /\ status'[u] # "free" /\ finished[u] = 0
      /\ \A v \in Upload : v # u => status'[v] = status[v] /\ file'[v] = file[v]
  BY <1>1 DEF ConcatInv, PlainInv, TypeInv, TypeOK
<1>4. /\ file'[u].final /\ file'[u].size = j.total
      /\ file'[u].parts = j.parts /\ file'[u].pieces = <<>>
  <2>1. file'[u] = [NoFile EXCEPT !.final = TRUE, !.size = j.total, !.parts = j.parts]
    BY <1>1 DEF TypeInv, TypeOK
  <2> HIDE DEF j
  <2> QED BY <2>1 DEF NoFile
<1>5. \/ Leave(r)
      \/ /\ pc'[r] = "copy" /\ job'[r].id = u
         /\ job'[r].parts = j.parts /\ job'[r].next = j.next /\ job'[r].total = j.total
         /\ \A s \in Req : s # r => pc'[s] = pc[s] /\ job'[s] = job[s]
  <2> SUFFICES ASSUME /\ job' = [job EXCEPT ![r] = [j EXCEPT !.id = u]]
                      /\ Goto(r, "copy")
               PROVE  /\ pc'[r] = "copy" /\ job'[r].id = u
                      /\ job'[r].parts = j.parts /\ job'[r].next = j.next
                      /\ job'[r].total = j.total
                      /\ \A s \in Req : s # r => pc'[s] = pc[s] /\ job'[s] = job[s]
    BY <1>1
  <2>1. /\ pc'[r] = "copy" /\ job'[r] = [j EXCEPT !.id = u]
        /\ \A s \in Req : s # r => pc'[s] = pc[s] /\ job'[s] = job[s]
    BY DEF Goto, TypeInv, TypeOK
  <2> HIDE DEF j
  <2> QED BY <1>2, <2>1 DEF Job
<1>6. \A s \in Req : s # r => pc'[s] = pc[s] /\ job'[s] = job[s]
  BY <1>5, LeaveConcat
<1>7. Stays
  <2>1. \A v \in Upload : Settled(v) => file'[v] = file[v]
    BY <1>1, <1>3 DEF Settled, Known
  <2>2. \A v \in Upload : status[v] # "free" => status'[v] # "free"
    BY <1>1, <1>3
  <2>3. \A s \in Req : \/ pc'[s] \notin Building
                       \/ pc[s] \in Building /\ job'[s].id = job[s].id
                       \/ status[job'[s].id] = "free"
    BY <1>1, <1>5, <1>6, LeaveConcat DEF Building
  <2> QED BY <2>1, <2>2, <2>3, StaysKnown
<1>8. Alone'
  <2>1. \A s \in Req : s # r /\ pc[s] \in Building => job[s].id # u
    BY <1>1, Others
  <2> QED BY <1>5, <1>6, <2>1, LeaveConcat DEF ConcatInv, Alone, Building
<1>9. ASSUME NEW i \in 1 .. Len(j.parts), NEW p \in Upload, p = j.parts[i]
      PROVE  Known(p)' /\ Settled(p)'
  <2>1. Settled(p)
    BY <1>2, <1>9 DEF ConcatInv, PartsInv, Checked, Concatenating
  <2> QED BY <1>7, <2>1, StaysSettled DEF Settled
<1>10. \A i \in 1 .. Len(j.parts) : j.parts[i] \in Upload
  BY <1>2, PartLists
<1>11. PartsInv(r)' /\ JobInv(r)'
  <2>1. CASE Leave(r)
    BY <2>1, LeaveConcat
  <2>2. CASE ~Leave(r)
    <3>1. j.next = 1
      BY <1>2 DEF ConcatInv, JobInv
    <3> HIDE DEF j
    <3>2. PartsInv(r)'
      BY <1>5, <1>9, <1>10, <2>2 DEF PartsInv
    <3>3. JobInv(r)'
      BY <1>2, <1>3, <1>4, <1>5, <2>2, <3>1 DEF JobInv, Building
    <3> QED BY <3>2, <3>3
  <2> QED BY <2>1, <2>2
<1>12. FinalInv(u)' /\ PlainInv(u)'
  <2>1. Len(file'[u].pieces) = 0 /\ Len(file'[u].pieces) <= Len(j.parts)
    BY <1>2, <1>4, PartLists
  <2> HIDE DEF j
  <2>2. PlainInv(u)'
    BY <1>3, <1>4 DEF PlainInv
  <2>3. FinalInv(u)'
    BY <1>2, <1>3, <1>4, <1>9, <1>10, <2>1 DEF FinalInv
  <2> QED BY <2>2, <2>3
<1>13. \A s \in Req : s # r /\ (pc[s] \in Building \/ pc[s] = "patch") =>
         /\ job[s].id \in Upload /\ job[s].id # u /\ status[job[s].id] # "free"
         /\ pc[s] = "patch" => ~file[job[s].id].final
  BY <1>1, Others
<1> QED BY <1>2, <1>3, <1>6, <1>7, <1>8, <1>11, <1>12, <1>13, KeepConcat

(* CopyPart: the part still is what was counted.                             *)
LEMMA CopyConcat ==
    ASSUME TypeInv, ConcatInv, NEW r \in Req, CopyPart(r),
           NEW u \in Upload, u = job[r].id
    PROVE  ConcatInv'
<1> DEFINE j == job[r]
           part == j.parts[j.next]
           f == file[u]
<1>1. /\ pc[r] = "copy" /\ UNCHANGED <<status, finished>>
      /\ j \in Job /\ j.parts \in PartList /\ j.next \in 1 .. Len(j.parts) /\ u \in Upload
      /\ j.total \in Nat /\ f \in File
  BY DEF CopyPart, TypeInv, TypeOK, Serving, Concatenating, Job
<1>2. Len(j.parts) \in Nat /\ part \in Upload
  BY <1>1, PartLists
<1>3. /\ f.final /\ f.parts = j.parts /\ f.size = j.total /\ status[u] # "free"
      /\ Len(f.pieces) = j.next - 1 /\ finished[u] = 0
  BY <1>1 DEF ConcatInv, JobInv, Building
<1>4. ~Known(u)
  BY <1>1, Others DEF Building
<1>5. \A s \in Req : s # r /\ (pc[s] \in Building \/ pc[s] = "patch") =>
         /\ job[s].id \in Upload /\ job[s].id # u /\ status[job[s].id] # "free"
         /\ pc[s] = "patch" => ~file[job[s].id].final
  BY <1>1, <1>3, Others DEF ConcatInv, Alone, Building
<1>6. CASE Leave(r) /\ UNCHANGED file
  <2>1. Stays
    BY <1>1, <1>6, LeaveConcat, StaysKnown DEF Building
  <2>2. Alone'
    BY <1>6, LeaveConcat DEF ConcatInv, Alone, Building
  <2> QED BY <1>1, <1>5, <1>6, <2>1, <2>2, LeaveConcat, KeepConcat
<1>7. CASE /\ file' = [file EXCEPT ![u] = Joined(f, part, file[part].offset)]
           /\ job' = [job EXCEPT ![r] = [j EXCEPT !.next = j.next + 1]]
           /\ Goto(r, IF j.next = Len(j.parts) THEN "announce" ELSE "copy")
  <2> DEFINE piece == [from |-> part, len |-> file[part].offset]
  <2>1. /\ file'[u] = Joined(f, part, file[part].offset)
        /\ \A v \in Upload : v # u => file'[v] = file[v]
    BY <1>1, <1>7 DEF TypeInv, TypeOK
  <2>2. /\ file'[u].final /\ file'[u].parts = j.parts /\ file'[u].size = j.total
        /\ file'[u].pieces = Append(f.pieces, piece)
    <3>1. f.pieces \in Seq(Piece)
      BY <1>1 DEF File
    <3> HIDE DEF f, part
    <3>2. file'[u].final
      BY <1>1, <1>3, <2>1 DEF Joined, File
    <3>3. /\ file'[u].parts = j.parts /\ file'[u].size = j.total
          /\ file'[u].pieces = Append(f.pieces, piece)
      BY <1>1, <1>3, <2>1 DEF Joined, File
    <3> QED BY <3>2, <3>3
  <2>3. /\ pc'[r] = IF j.next = Len(j.parts) THEN "announce" ELSE "copy"
        /\ job'[r].id = u /\ job'[r].parts = j.parts /\ job'[r].next = j.next + 1
        /\ job'[r].total = j.total
        /\ \A s \in Req : s # r => pc'[s] = pc[s] /\ job'[s] = job[s]
    <3>1. /\ job'[r] = [j EXCEPT !.next = j.next + 1]
          /\ \A s \in Req : s # r => pc'[s] = pc[s] /\ job'[s] = job[s]
          /\ pc'[r] = IF j.next = Len(j.parts) THEN "announce" ELSE "copy"
      BY <1>7 DEF Goto, TypeInv, TypeOK
    <3>2. j.id = u
      OBVIOUS
    <3> HIDE DEF j
    <3> QED BY <1>1, <3>1, <3>2 DEF Job
  <2>4. Stays
    <3>1. \A v \in Upload : Settled(v) => file'[v] = file[v]
      BY <1>4, <2>1 DEF Settled
    <3>2. \A s \in Req : pc'[s] \in Building => pc[s] \in Building /\ job'[s].id = job[s].id
      BY <1>1, <2>3 DEF Building
    <3> QED BY <1>1, <3>1, <3>2, StaysKnown
  <2>5. Alone'
    BY <1>1, <2>3 DEF ConcatInv, Alone, Building
  <2>6. \A i \in 1 .. Len(j.parts) : Settled(j.parts[i]) /\ j.parts[i] \in Upload
    BY <1>1, PartLists DEF ConcatInv, PartsInv, Checked, Concatenating
  <2>7. ASSUME NEW i \in 1 .. Len(j.parts), NEW p \in Upload, p = j.parts[i]
        PROVE  Known(p)' /\ Settled(p)' /\ file'[p] = file[p]
    <3>1. Settled(p)
      BY <2>6, <2>7
    <3> QED BY <2>4, <3>1, StaysSettled DEF Settled
  <2>8. /\ Len(file'[u].pieces) = j.next
        /\ file'[u].pieces[j.next] = piece
        /\ \A i \in 1 .. j.next : i # j.next => file'[u].pieces[i] = f.pieces[i]
    <3>1. f.pieces \in Seq(Piece) /\ piece \in Piece
      <4>1. file[part].offset \in Nat
        BY <1>2 DEF TypeInv, TypeOK, File
      <4> QED BY <1>1, <1>2, <4>1 DEF File, Piece
    <3> HIDE DEF f, piece, part, j
    <3> QED BY <1>1, <1>2, <1>3, <2>2, <3>1
  <2>9. PartsInv(r)' /\ JobInv(r)'
    <3>1. PartsInv(r)'
      <4> HIDE DEF j
      <4> QED BY <2>3, <2>6, <2>7 DEF PartsInv
    <3>2. JobInv(r)'
      <4> HIDE DEF j, piece, part, f
      <4> QED BY <1>1, <1>2, <1>3, <2>2, <2>3, <2>8 DEF JobInv, Building
    <3> QED BY <3>1, <3>2
  <2>10. FinalInv(u)' /\ PlainInv(u)'
    <3>1. piece = [from |-> part, len |-> file'[part].size]
      BY <1>1, <2>6, <2>7 DEF Settled, IsComplete
    <3>2. ASSUME NEW i \in 1 .. j.next
          PROVE  file'[u].pieces[i] = [from |-> j.parts[i], len |-> file'[j.parts[i]].size]
      <4>1. CASE i = j.next
        BY <2>8, <3>1, <4>1
      <4>2. CASE i # j.next
        <5>1. i \in 1 .. Len(f.pieces) /\ i \in 1 .. Len(j.parts)
          BY <1>1, <1>2, <1>3, <4>2
        <5>2. f.pieces[i] = [from |-> j.parts[i], len |-> file[j.parts[i]].size]
          BY <1>1, <1>3, <5>1 DEF ConcatInv, FinalInv
        <5>3. file'[j.parts[i]] = file[j.parts[i]]
          BY <2>6, <2>7, <5>1
        <5> QED BY <2>8, <4>2, <5>2, <5>3
      <4> QED BY <4>1, <4>2
    <3>3. PlainInv(u)'
      <4> HIDE DEF j, f
      <4> QED BY <1>1, <1>3, <2>2 DEF PlainInv
    <3>4. FinalInv(u)'
      <4> HIDE DEF j, f, piece, part
      <4> QED BY <1>1, <1>2, <1>3, <2>2, <2>6, <2>7, <2>8, <3>2 DEF FinalInv
    <3> QED BY <3>3, <3>4
  <2> HIDE DEF j, f, part, piece
  <2> QED BY <1>1, <1>5, <2>1, <2>3, <2>4, <2>5, <2>9, <2>10, KeepConcat
<1> QED BY <1>6, <1>7 DEF CopyPart, AfterMissing

(* Announce, FinishEmpty: only the first is for an upload that is not empty. *)
LEMMA AnnounceConcat ==
    ASSUME TypeInv, ConcatInv, NEW r \in Req, Announce(r) \/ FinishEmpty(r),
           NEW u \in Upload, u = job[r].id
    PROVE  ConcatInv'
<1> DEFINE j == job[r]
<1>1. /\ pc[r] \in {"announce", "empty"} /\ UNCHANGED <<status, file>> /\ u \in Upload
      /\ finished[u] \in Nat /\ j.total \in Nat
  BY DEF Announce, FinishEmpty, TypeInv, TypeOK, Serving, Job
<1>2. /\ file[u].final /\ file[u].parts = j.parts /\ file[u].size = j.total
      /\ status[u] # "free" /\ Len(file[u].pieces) = Len(j.parts)
      /\ pc[r] = "announce" => finished[u] = 0
      /\ pc[r] = "empty" => j.total = 0
  BY <1>1 DEF ConcatInv, JobInv, Building
<1>3. /\ \A v \in Upload : v # u => finished'[v] = finished[v]
      /\ finished'[u] \in {finished[u], finished[u] + 1}
  BY <1>1 DEF Announce, FinishEmpty, TypeInv, TypeOK
<1>4. \/ Leave(r)
      \/ /\ pc[r] = "announce" /\ pc'[r] = "empty" /\ j.total = 0 /\ UNCHANGED job
         /\ \A s \in Req : s # r => pc'[s] = pc[s]
  BY DEF Announce, AfterAnnounced, TakenForEmpty, FinishEmpty, Goto, TypeInv, TypeOK
<1>5. \A s \in Req : s # r => pc'[s] = pc[s] /\ job'[s] = job[s]
  BY <1>4, LeaveConcat
<1>6. \A s \in Req : pc'[s] \in Building => pc[s] \in Building /\ job'[s].id = job[s].id
  BY <1>1, <1>4, <1>5, LeaveConcat DEF Building
<1>7. Stays
  BY <1>1, <1>6, StaysKnown
<1>8. Alone'
  BY <1>6 DEF ConcatInv, Alone
<1>9. \A s \in Req : s # r /\ (pc[s] \in Building \/ pc[s] = "patch") =>
         /\ job[s].id \in Upload /\ job[s].id # u /\ status[job[s].id] # "free"
         /\ pc[s] = "patch" => ~file[job[s].id].final
  BY <1>1, <1>2, Others DEF ConcatInv, Alone, Building
<1>10. PartsInv(r)' /\ JobInv(r)'
  <2>1. CASE Leave(r)
    BY <2>1, LeaveConcat
  <2>2. CASE ~Leave(r)
    <3>1. \A i \in 1 .. Len(j.parts) : Settled(j.parts[i]) /\ j.parts[i] \in Upload
      BY <1>1, PartLists DEF ConcatInv, PartsInv, Checked, Concatenating, TypeInv, Serving
    <3>2. ASSUME NEW i \in 1 .. Len(j.parts), NEW p \in Upload, p = j.parts[i]
          PROVE  Known(p)' /\ Settled(p)'
      BY <1>7, <3>1, <3>2, StaysSettled DEF Settled
    <3>3. PartsInv(r)'
      BY <1>4, <2>2, <3>1, <3>2 DEF PartsInv
    <3>4. JobInv(r)'
      BY <1>1, <1>2, <1>4, <2>2 DEF JobInv, Building
    <3> QED BY <3>3, <3>4
  <2> QED BY <2>1, <2>2
<1>11. FinalInv(u)' /\ PlainInv(u)'
  <2>1. finished'[u] \in Nat /\ (file[u].size > 0 => finished'[u] <= 1)
    BY <1>1, <1>2, <1>3 DEF ConcatInv, FinalInv
  <2>2. file[u].parts \in PartList
    BY <1>1, <1>2 DEF ConcatInv, FinalInv
  <2>3. \A i \in 1 .. Len(file[u].parts) :
           Settled(file[u].parts[i]) /\ file[u].parts[i] \in Upload
    BY <1>1, <1>2, <2>2, PartLists DEF ConcatInv, FinalInv
  <2>4. ASSUME NEW i \in 1 .. Len(file[u].parts), NEW p \in Upload, p = file[u].parts[i]
        PROVE  Settled(p)'
    BY <1>7, <2>3, <2>4, StaysSettled
  <2>5. \A i \in 1 .. Len(file[u].pieces) :
          file[u].pieces[i] = [from |-> file[u].parts[i], len |-> file[file[u].parts[i]].size]
    BY <1>1, <1>2 DEF ConcatInv, FinalInv
  <2>6. Len(file[u].pieces) <= Len(file[u].parts)
    BY <1>1, <1>2 DEF ConcatInv, FinalInv
  <2> HIDE DEF j
  <2> QED BY <1>1, <1>2, <2>1, <2>2, <2>3, <2>4, <2>5, <2>6 DEF FinalInv, PlainInv
<1> HIDE DEF j
<1> QED BY <1>1, <1>3, <1>5, <1>7, <1>8, <1>9, <1>10, <1>11, KeepConcat

(* Every step keeps ConcatInv.                                               *)
LEMMA StepConcat == TypeInv /\ ConcatInv /\ [Next]_vars => ConcatInv'
<1> SUFFICES ASSUME TypeInv, ConcatInv, [Next]_vars PROVE ConcatInv'
  OBVIOUS
<1>1. ASSUME NEW r \in Req, Step(r) PROVE ConcatInv'
  <2>1. CASE CopyPart(r) \/ Announce(r) \/ FinishEmpty(r)
    <3>1. job[r].id \in Upload
      BY <2>1 DEF CopyPart, Announce, FinishEmpty, TypeInv, Serving
    <3> QED BY <2>1, <3>1, CopyConcat, AnnounceConcat
  <2> QED BY <1>1, <2>1, PatchConcat, CheckConcat, NewFinalConcat DEF Step
<1>2. ASSUME NEW u \in Upload, CreateUpload(u) \/ Delete(u) PROVE ConcatInv'
  BY <1>2, PlainConcat
<1>3. CASE Crash
  <2>1. /\ \A s \in Req : pc'[s] = "idle" /\ job'[s] = NoJob
        /\ UNCHANGED <<status, file, finished>>
    BY <1>3 DEF Crash
  <2>2. Stays
    BY <2>1, StaysKnown DEF Building
  <2>3. Alone'
    BY <2>1 DEF Alone, Building
  <2>4. \A s \in Req : PartsInv(s)' /\ JobInv(s)'
    BY <2>1, Jobs DEF PartsInv, JobInv, Concatenating, Building
  <2> QED BY <2>1, <2>2, <2>3, <2>4, KeepConcat
<1>4. CASE UNCHANGED vars
  <2>1. UNCHANGED <<status, file, finished, pc, job>>
    BY <1>4 DEF vars
  <2>2. Stays
    BY <2>1, StaysKnown
  <2>3. Alone'
    BY <2>1 DEF ConcatInv, Alone
  <2> QED BY <2>1, <2>2, <2>3, Others, KeepConcat
<1> QED BY <1>1, <1>2, <1>3, <1>4 DEF Next

(* Handlers rely on parts nobody writes to any more, a final upload has one  *)
(* builder, and its pieces are its parts as far as they have been joined.    *)
THEOREM ConcatInvariant == Spec => []ConcatInv
<1>1. Spec => []TypeInv
  BY TypeInvariant
<1> QED BY InitConcat, StepConcat, <1>1, PTL DEF Spec

(* An announced final upload is the concatenation of its parts, whole, in    *)
(* order and complete, although sizeOfUploads and ConcatUploads lock none.   *)
THEOREM FinalIsConcatenationHolds == Spec => []FinalIsConcatenation
<1>1. ASSUME TypeInv, ConcatInv PROVE FinalIsConcatenation
  <2> SUFFICES ASSUME NEW u \in Upload, Announced(u)
               PROVE  /\ Len(file[u].pieces) = Len(file[u].parts)
                      /\ \A i \in DOMAIN file[u].parts :
                           LET part == file[u].parts[i]
                           IN /\ file[u].pieces[i] = [from |-> part, len |-> file[part].size]
                              /\ IsComplete(file[part])
    BY DEF FinalIsConcatenation
  <2>1. file[u].parts \in PartList /\ FinalInv(u) /\ file[u].final /\ finished[u] > 0
    BY <1>1 DEF Announced, ConcatInv, FinalInv
  <2>2. DOMAIN file[u].parts = 1 .. Len(file[u].parts)
    BY <2>1, PartLists
  <2> QED BY <2>1, <2>2 DEF FinalInv, Settled
<1> QED BY <1>1, TypeInvariant, ConcatInvariant, PTL

(* A final upload holds bytes of its parts only, in order, also when         *)
(* ConcatUploads failed and the upload stayed behind.                        *)
THEOREM FinalHoldsOnlyPartsHolds == Spec => []FinalHoldsOnlyParts
<1>1. ASSUME TypeInv, ConcatInv PROVE FinalHoldsOnlyParts
  <2> SUFFICES ASSUME NEW u \in Upload, file[u].final
               PROVE  /\ Len(file[u].pieces) <= Len(file[u].parts)
                      /\ \A i \in DOMAIN file[u].pieces :
                           file[u].pieces[i].from = file[u].parts[i]
    BY DEF FinalHoldsOnlyParts
  <2>1. FinalInv(u) /\ file[u].pieces \in Seq(Piece)
    BY <1>1 DEF ConcatInv, TypeInv, TypeOK, File
  <2>2. DOMAIN file[u].pieces = 1 .. Len(file[u].pieces)
    BY <2>1
  <2>3. Len(file[u].pieces) <= Len(file[u].parts)
    BY <2>1 DEF FinalInv
  <2>4. ASSUME NEW i \in 1 .. Len(file[u].pieces)
        PROVE  file[u].pieces[i].from = file[u].parts[i]
    <3>1. file[u].pieces[i] = [from |-> file[u].parts[i], len |-> file[file[u].parts[i]].size]
      BY <2>1 DEF FinalInv
    <3> QED BY <3>1
  <2> QED BY <2>2, <2>3, <2>4
<1> QED BY <1>1, TypeInvariant, ConcatInvariant, PTL

(* Completion of a final upload is announced once, unless it is empty        *)
(* (PostFile's last branch takes an empty one a second time).                *)
THEOREM AnnouncedOnceHolds == Spec => []AnnouncedOnce
<1>1. ASSUME ConcatInv, NEW u \in Upload, file[u].size > 0 PROVE finished[u] <= 1
  BY <1>1 DEF ConcatInv, FinalInv, PlainInv
<1>2. ConcatInv => AnnouncedOnce
  BY <1>1 DEF AnnouncedOnce
<1> QED BY <1>2, ConcatInvariant, PTL

-----------------------------------------------------------------------------
(* Part 3, the size of final uploads: what sizeOfUploads adds up, before     *)
(* the join, is what ConcatUploads appends.  The sum so far is stated by a   *)
(* function s of the number of parts: s[n] is the size of the first n of     *)
(* them, as the store f keeps them.                                          *)

SumsUp(f, s, parts, n) ==
    /\ s \in [Nat -> Nat] /\ s[0] = 0
    /\ \A i \in 1 .. n : s[i] = s[i - 1] + f[parts[i]].size

(* How far the sum and the join of a request agree, stage by stage.          *)
JobSum(r) ==
    LET j == job[r]
    IN /\ pc[r] = "sizes" =>
            \E s : SumsUp(file, s, j.parts, j.next - 1) /\ j.total = s[j.next - 1]
       /\ pc[r] = "create" =>
            \E s : SumsUp(file, s, j.parts, Len(j.parts)) /\ j.total = s[Len(j.parts)]
       /\ pc[r] = "copy" =>
            \E s : /\ SumsUp(file, s, j.parts, Len(j.parts)) /\ j.total = s[Len(j.parts)]
                   /\ file[j.id].offset = s[j.next - 1]
       /\ pc[r] \in {"announce", "empty"} => file[j.id].offset = j.total
       /\ pc[r] \in Building => WithinLimit(j.total)

FinalSum(u) == Announced(u) => IsComplete(file[u]) /\ WithinLimit(file[u].size)

SumInv == /\ \A r \in Req : JobSum(r)
          /\ \A u \in Upload : FinalSum(u)

LEMMA InitSum == Init => SumInv
  BY DEF Init, SumInv, JobSum, FinalSum, Announced, NoFile, Building

(* A settled upload is not written to.                                       *)
LEMMA SettledKept ==
    ASSUME TypeInv, ConcatInv, [Next]_vars, NEW p \in Upload, Settled(p)
    PROVE  file'[p] = file[p]
<1>1. status[p] # "free" /\ IsComplete(file[p])
  BY DEF Settled, Known
<1>2. ASSUME NEW u \in Upload, CreateUpload(u) PROVE file'[p] = file[p]
  BY <1>1, <1>2 DEF CreateUpload, TypeInv, TypeOK
<1>3. ASSUME NEW r \in Req, PatchBegin(r) PROVE file'[p] = file[p]
  <2>1. PICK u \in Upload : /\ ~IsComplete(file[u])
                            /\ \E f : file' = [file EXCEPT ![u] = f]
    BY <1>3 DEF PatchBegin, AcceptsPatch
  <2> QED BY <1>1, <2>1 DEF TypeInv, TypeOK
<1>4. ASSUME NEW r \in Req, PatchAppend(r) PROVE file'[p] = file[p]
  <2>1. job[r].id \in Upload /\ file[job[r].id] \in File
    BY <1>4 DEF PatchAppend, TypeInv, TypeOK, Serving
  <2>2. ~IsComplete(file[job[r].id])
    BY <1>4, <2>1, ConstantsAssumption DEF PatchAppend, IsComplete, File
  <2> QED BY <1>1, <1>4, <2>1, <2>2 DEF PatchAppend, TypeInv, TypeOK
<1>5. ASSUME NEW r \in Req, NewFinal(r) PROVE file'[p] = file[p]
  BY <1>1, <1>5 DEF NewFinal, TypeInv, TypeOK
<1>6. ASSUME NEW r \in Req, CopyPart(r) PROVE file'[p] = file[p]
  <2>1. job[r].id # p
    BY <1>6 DEF CopyPart, Settled, Known, Building
  <2> QED BY <1>6, <2>1 DEF CopyPart, TypeInv, TypeOK
<1>7. CASE UNCHANGED file
  BY <1>7
<1> QED BY <1>2, <1>3, <1>4, <1>5, <1>6, <1>7
        DEF Next, Step, PatchFinish, BeginConcat, SizeOfPart, RefuseFinal, Announce,
            FinishEmpty, Delete, Crash, vars

(* Nor is a final upload, but by the request that builds it.                 *)
LEMMA FinalKept ==
    ASSUME TypeInv, ConcatInv, [Next]_vars, NEW u \in Upload, file[u].final,
           \A r \in Req : pc[r] = "copy" /\ CopyPart(r) => job[r].id # u
    PROVE  file'[u] = file[u]
<1>1. status[u] # "free"
  BY DEF ConcatInv, PlainInv
<1>2. ASSUME NEW v \in Upload, CreateUpload(v) PROVE file'[u] = file[u]
  BY <1>1, <1>2 DEF CreateUpload, TypeInv, TypeOK
<1>3. ASSUME NEW r \in Req, PatchBegin(r) PROVE file'[u] = file[u]
  <2>1. PICK v \in Upload : /\ ~file[v].final
                            /\ \E f : file' = [file EXCEPT ![v] = f]
    BY <1>3 DEF PatchBegin, AcceptsPatch
  <2> QED BY <2>1 DEF TypeInv, TypeOK
<1>4. ASSUME NEW r \in Req, PatchAppend(r) PROVE file'[u] = file[u]
  <2>1. ~file[job[r].id].final /\ job[r].id \in Upload
    BY <1>4 DEF PatchAppend, ConcatInv, JobInv, TypeInv, Serving
  <2> QED BY <1>4, <2>1 DEF PatchAppend, TypeInv, TypeOK
<1>5. ASSUME NEW r \in Req, NewFinal(r) PROVE file'[u] = file[u]
  BY <1>1, <1>5 DEF NewFinal, TypeInv, TypeOK
<1>6. ASSUME NEW r \in Req, CopyPart(r) PROVE file'[u] = file[u]
  BY <1>6 DEF CopyPart, TypeInv, TypeOK
<1>7. CASE UNCHANGED file
  BY <1>7
<1> QED BY <1>2, <1>3, <1>4, <1>5, <1>6, <1>7
        DEF Next, Step, PatchFinish, BeginConcat, SizeOfPart, RefuseFinal, Announce,
            FinishEmpty, Delete, Crash, vars

(* A checked part stays what it is, and so does the sum of all of them.      *)
LEMMA PartKept ==
    ASSUME TypeInv, ConcatInv, [Next]_vars, NEW r \in Req, pc[r] \in Concatenating,
           NEW i \in 1 .. Len(job[r].parts), Checked(r, i)
    PROVE  file'[job[r].parts[i]] = file[job[r].parts[i]]
<1>1. job[r].parts[i] \in Upload
  BY PartLists DEF TypeInv, Serving
<1>2. Settled(job[r].parts[i])
  BY DEF ConcatInv, PartsInv
<1> QED BY <1>1, <1>2, SettledKept

LEMMA WholeKept ==
    ASSUME TypeInv, ConcatInv, [Next]_vars, NEW r \in Req, pc[r] \in {"create", "copy"},
           NEW s, SumsUp(file, s, job[r].parts, Len(job[r].parts))
    PROVE  SumsUp(file', s, job[r].parts, Len(job[r].parts))
<1>1. pc[r] \in Concatenating /\ \A i \in 1 .. Len(job[r].parts) : Checked(r, i)
  BY DEF Concatenating, Checked
<1>2. \A i \in 1 .. Len(job[r].parts) : file'[job[r].parts[i]] = file[job[r].parts[i]]
  BY <1>1, PartKept
<1> QED BY <1>2 DEF SumsUp

(* Copying moves the request that copies.                                    *)
LEMMA CopyMoves ==
    ASSUME TypeInv, NEW r \in Req, CopyPart(r)
    PROVE  job'[r] # job[r]
<1>1. /\ job[r] \in Job /\ job[r].id \in Upload /\ job[r].next \in Nat
  BY DEF CopyPart, TypeInv, TypeOK, Serving, Job
<1>2. CASE Leave(r)
  <2>1. job'[r] = NoJob
    BY <1>2 DEF Leave, TypeInv, TypeOK
  <2> QED BY <1>1, <2>1, Jobs, ConstantsAssumption
<1>3. CASE job' = [job EXCEPT ![r] = [job[r] EXCEPT !.next = @ + 1]]
  <2>1. job'[r] = [job[r] EXCEPT !.next = job[r].next + 1]
    BY <1>3 DEF TypeInv, TypeOK
  <2>2. job'[r].next = job[r].next + 1
    BY <1>1, <2>1, JobUpdates
  <2> QED BY <1>1, <2>2
<1> QED BY <1>2, <1>3 DEF CopyPart, AfterMissing

(* Requests and uploads a step leaves alone.                                 *)
LEMMA JobSumKept ==
    ASSUME TypeInv, ConcatInv, [Next]_vars, NEW r \in Req, JobSum(r),
           pc'[r] = pc[r], job'[r] = job[r]
    PROVE  JobSum(r)'
<1> DEFINE parts == job[r].parts
           n == job[r].next
           u == job[r].id
<1>1. ASSUME pc[r] \in Concatenating
      PROVE  /\ parts \in PartList /\ Len(parts) \in Nat
             /\ \A i \in 1 .. Len(parts) : parts[i] \in Upload
  BY <1>1, PartLists DEF TypeInv, Serving
<1>2. ASSUME pc[r] \in Building
      PROVE  file'[u] = file[u]
  <2>1. u \in Upload /\ file[u].final
    BY <1>2 DEF ConcatInv, JobInv, TypeInv, Serving, Building
  <2>2. ASSUME NEW s \in Req, pc[s] = "copy", CopyPart(s) PROVE job[s].id # u
    BY <1>2, <2>2, CopyMoves DEF ConcatInv, Alone, Building
  <2> QED BY <2>1, <2>2, FinalKept
<1>3. ASSUME pc[r] = "sizes"
      PROVE  \E s : SumsUp(file', s, parts, n - 1) /\ job'[r].total = s[n - 1]
  <2>1. n \in 1 .. Len(parts) /\ n - 1 \in Nat /\ n - 1 <= Len(parts)
    BY <1>1, <1>3 DEF TypeInv, Serving, Concatenating
  <2>2. PICK s : SumsUp(file, s, parts, n - 1) /\ job[r].total = s[n - 1]
    BY <1>3 DEF JobSum
  <2>3. ASSUME NEW i \in 1 .. n - 1 PROVE file'[parts[i]] = file[parts[i]]
    <3>1. i \in 1 .. Len(parts) /\ Checked(r, i) /\ pc[r] \in Concatenating
      BY <1>1, <1>3, <2>1 DEF Checked, Concatenating
    <3> QED BY <3>1, PartKept
  <2>4. SumsUp(file', s, parts, n - 1)
    BY <2>2, <2>3 DEF SumsUp
  <2> QED BY <1>3, <2>2, <2>4
<1>4. ASSUME pc[r] \in {"create", "copy"}, NEW s, SumsUp(file, s, parts, Len(parts))
      PROVE  SumsUp(file', s, parts, Len(parts))
  BY <1>4, WholeKept
<1>5. pc[r] = "sizes" =>
        (\E s : SumsUp(file, s, job[r].parts, job[r].next - 1)
               /\ job[r].total = s[job[r].next - 1])'
  BY <1>3
<1>6. pc[r] = "create" =>
        (\E s : SumsUp(file, s, job[r].parts, Len(job[r].parts))
               /\ job[r].total = s[Len(job[r].parts)])'
  <2> SUFFICES ASSUME pc[r] = "create"
               PROVE  (\E s : SumsUp(file, s, job[r].parts, Len(job[r].parts))
                             /\ job[r].total = s[Len(job[r].parts)])'
    OBVIOUS
  <2>1. PICK s : SumsUp(file, s, parts, Len(parts)) /\ job[r].total = s[Len(parts)]
    BY DEF JobSum
  <2> QED BY <1>4, <2>1
<1>7. pc[r] = "copy" =>
        (\E s : /\ SumsUp(file, s, job[r].parts, Len(job[r].parts))
                /\ job[r].total = s[Len(job[r].parts)]
                /\ file[job[r].id].offset = s[job[r].next - 1])'
  <2> SUFFICES ASSUME pc[r] = "copy"
               PROVE  (\E s : /\ SumsUp(file, s, job[r].parts, Len(job[r].parts))
                              /\ job[r].total = s[Len(job[r].parts)]
                              /\ file[job[r].id].offset = s[job[r].next - 1])'
    OBVIOUS
  <2>1. PICK s : /\ SumsUp(file, s, parts, Len(parts)) /\ job[r].total = s[Len(parts)]
                 /\ file[u].offset = s[n - 1]
    BY DEF JobSum
  <2> QED BY <1>2, <1>4, <2>1 DEF Building
<1>8. pc[r] \in {"announce", "empty"} => (file[job[r].id].offset = job[r].total)'
  BY <1>2 DEF JobSum, Building
<1>9. pc[r] \in Building => WithinLimit(job[r].total)'
  BY DEF JobSum, WithinLimit
<1> QED BY <1>5, <1>6, <1>7, <1>8, <1>9 DEF JobSum

(* What was announced stays as it is.                                        *)
LEMMA FinalSumKept ==
    ASSUME TypeInv, ConcatInv, [Next]_vars, NEW u \in Upload, FinalSum(u),
           finished'[u] = finished[u]
    PROVE  FinalSum(u)'
<1> SUFFICES ASSUME finished[u] > 0 PROVE FinalSum(u)'
  BY DEF FinalSum, Announced
<1>1. file[u].final
  BY DEF ConcatInv, PlainInv, TypeInv, TypeOK
<1>2. ASSUME NEW r \in Req, pc[r] = "copy" PROVE job[r].id # u
  BY <1>2 DEF ConcatInv, JobInv
<1>3. file'[u] = file[u]
  BY <1>1, <1>2, FinalKept
<1> QED BY <1>1, <1>3 DEF FinalSum, Announced, IsComplete, WithinLimit

(* A step of r that announces nothing.                                       *)
LEMMA MoveSum ==
    ASSUME TypeInv, ConcatInv, SumInv, [Next]_vars, NEW r \in Req, JobSum(r)',
           UNCHANGED finished,
           \A s \in Req : s # r => pc'[s] = pc[s] /\ job'[s] = job[s]
    PROVE  SumInv'
  BY CopyMoves, JobSumKept, FinalSumKept DEF SumInv

(* An answer.                                                                *)
LEMMA LeaveSum ==
    ASSUME TypeInv, NEW r \in Req, Leave(r)
    PROVE  JobSum(r)'
  BY LeaveConcat DEF JobSum, Building

(* The POST begins with the sum of no parts.                                 *)
LEMMA BeginSum ==
    ASSUME TypeInv, NEW r \in Req, BeginConcat(r)
    PROVE  JobSum(r)'
<1> DEFINE s == [n \in Nat |-> 0]
<1>1. PICK parts \in PartList : job' = [job EXCEPT ![r] = [NoJob EXCEPT !.parts = parts]]
  BY DEF BeginConcat
<1> DEFINE k == [NoJob EXCEPT !.parts = parts]
<1>2. k.parts = parts /\ k.next = 1 /\ k.total = 0
  BY Jobs
<1>3. job'[r] = k /\ pc'[r] = "sizes"
  BY <1>1 DEF BeginConcat, Goto, TypeInv, TypeOK
<1> HIDE DEF k
<1>4. s \in [Nat -> Nat] /\ s[0] = 0
  OBVIOUS
<1> HIDE DEF s
<1>5. SumsUp(file', s, parts, 0)
  BY <1>4 DEF SumsUp
<1>6. job'[r].next - 1 = 0 /\ job'[r].total = s[0] /\ job'[r].parts = parts
  BY <1>2, <1>3, <1>4
<1>7. (SumsUp(file, s, job[r].parts, job[r].next - 1) /\ job[r].total = s[job[r].next - 1])'
  BY <1>5, <1>6
<1> QED BY <1>3, <1>7 DEF JobSum, Building

(* sizeOfUploads adds the size of the part at hand.                          *)
LEMMA AddSum ==
    ASSUME TypeInv, NEW r \in Req, JobSum(r), SizeOfPart(r), ~Leave(r)
    PROVE  JobSum(r)'
<1> DEFINE j == job[r]
           n == j.next
           f == file[j.parts[n]]
           last == n = Len(j.parts)
           k == [j EXCEPT !.next = IF last THEN 1 ELSE n + 1, !.total = j.total + f.size]
<1>1. /\ job' = [job EXCEPT ![r] = k]
      /\ pc' = [pc EXCEPT ![r] = IF last THEN "create" ELSE "sizes"]
      /\ IsComplete(f) /\ pc[r] = "sizes" /\ UNCHANGED file
  BY DEF SizeOfPart, Goto, AddSize, PartReady
<1>2. /\ j \in Job /\ j.parts \in PartList /\ n \in 1 .. Len(j.parts)
  BY <1>1 DEF TypeInv, TypeOK, Serving, Concatenating
<1>3. Len(j.parts) \in Nat /\ j.parts[n] \in Upload /\ n \in Nat \ {0}
  BY <1>2, PartLists
<1>4. f.size \in Nat
  BY <1>1, <1>3 DEF IsComplete, TypeInv, TypeOK, File
<1>5. PICK s : SumsUp(file, s, j.parts, n - 1) /\ j.total = s[n - 1]
  BY <1>1 DEF JobSum
<1>6. PICK t : SumsUp(file, t, j.parts, n) /\ t[n] = j.total + f.size
  <2> DEFINE t == [s EXCEPT ![n] = j.total + f.size]
  <2>1. s \in [Nat -> Nat] /\ s[0] = 0
    BY <1>5 DEF SumsUp
  <2>2. j.total \in Nat /\ j.total + f.size \in Nat
    BY <1>2, <1>4 DEF Job
  <2>3. t \in [Nat -> Nat] /\ t[0] = 0 /\ t[n] = j.total + f.size
    BY <1>3, <2>1, <2>2
  <2>4. ASSUME NEW i \in 1 .. n PROVE t[i] = t[i - 1] + file[j.parts[i]].size
    <3>1. CASE i = n
      <4>1. n \in Nat /\ n - 1 \in Nat /\ n - 1 # n
        BY <1>3
      <4>2. t[n - 1] = s[n - 1]
        BY <2>1, <4>1
      <4> QED BY <1>5, <2>3, <3>1, <4>2
    <3>2. CASE i # n
      <4>1. i \in 1 .. n - 1 /\ i \in Nat /\ i - 1 \in Nat /\ i # n /\ i - 1 # n
        BY <1>3, <3>2
      <4>2. t[i] = s[i] /\ t[i - 1] = s[i - 1]
        BY <2>1, <4>1
      <4> QED BY <1>5, <4>1, <4>2 DEF SumsUp
    <3> QED BY <3>1, <3>2
  <2>5. SumsUp(file, t, j.parts, n)
    BY <2>3, <2>4 DEF SumsUp
  <2> HIDE DEF t
  <2> QED BY <2>3, <2>5
<1>7. SumsUp(file', t, j.parts, n)
  BY <1>1, <1>6 DEF SumsUp
<1>8. /\ job'[r] = k /\ k.parts = j.parts /\ k.total = j.total + f.size
      /\ k.next = IF last THEN 1 ELSE n + 1
  <2>1. job'[r] = k
    BY <1>1 DEF TypeInv, TypeOK
  <2>2. ASSUME NEW a, NEW b
        PROVE  LET g == [j EXCEPT !.next = a, !.total = b]
               IN  g.parts = j.parts /\ g.total = b /\ g.next = a
    <3> HIDE DEF j
    <3> QED BY <1>2 DEF Job
  <2> QED BY <2>1, <2>2
<1>9. pc'[r] = IF last THEN "create" ELSE "sizes"
  BY <1>1 DEF TypeInv, TypeOK
<1> HIDE DEF k, f
<1>10. CASE last
  <2>1. pc'[r] = "create" /\ job'[r].parts = j.parts /\ job'[r].total = t[Len(j.parts)]
    BY <1>6, <1>8, <1>9, <1>10
  <2>2. SumsUp(file', t, j.parts, Len(j.parts))
    BY <1>7, <1>10
  <2>3. (SumsUp(file, t, job[r].parts, Len(job[r].parts)) /\ job[r].total = t[Len(job[r].parts)])'
    BY <2>1, <2>2 DEF SumsUp
  <2> QED BY <2>1, <2>3 DEF JobSum, Building
<1>11. CASE ~last
  <2>1. /\ pc'[r] = "sizes" /\ job'[r].parts = j.parts /\ job'[r].total = t[n]
        /\ job'[r].next - 1 = n
    BY <1>3, <1>6, <1>8, <1>9, <1>11
  <2>2. (SumsUp(file, t, job[r].parts, job[r].next - 1) /\ job[r].total = t[job[r].next - 1])'
    BY <1>7, <2>1 DEF SumsUp
  <2> QED BY <2>1, <2>2 DEF JobSum, Building
<1> QED BY <1>10, <1>11

(* NewUpload: the final upload is empty, the store has joined no part.       *)
LEMMA NewFinalSum ==
    ASSUME TypeInv, ConcatInv, NEW r \in Req, JobSum(r), NewFinal(r), [Next]_vars,
           ~Leave(r)
    PROVE  JobSum(r)'
<1> DEFINE j == job[r]
           f == [NoFile EXCEPT !.final = TRUE, !.size = j.total, !.parts = j.parts]
<1>1. PICK u \in Upload :
        /\ file' = [file EXCEPT ![u] = f]
        /\ job' = [job EXCEPT ![r] = [j EXCEPT !.id = u]]
        /\ Goto(r, "copy")
  BY DEF NewFinal
<1>2. /\ j \in Job /\ j.parts \in PartList /\ j.total \in Int /\ Len(j.parts) \in Nat
      /\ pc[r] = "create" /\ WithinLimit(j.total)
  BY PartLists DEF NewFinal, TypeInv, TypeOK, Serving, Concatenating, Job
<1>3. file'[u].offset = 0 /\ pc'[r] = "copy"
  <2>1. f.offset = 0
    <3> HIDE DEF j
    <3> QED BY <1>2, FinalFile
  <2> QED BY <1>1, <2>1 DEF Goto, TypeInv, TypeOK
<1>4. /\ job'[r].id = u /\ job'[r].parts = j.parts /\ job'[r].total = j.total
      /\ job'[r].next = 1
  <2>1. job'[r] = [j EXCEPT !.id = u] /\ j.next = 1
    BY <1>1, <1>2 DEF ConcatInv, JobInv, TypeInv, TypeOK
  <2> QED BY <1>2, <2>1, JobUpdates
<1>5. PICK s : SumsUp(file, s, j.parts, Len(j.parts)) /\ j.total = s[Len(j.parts)]
  BY <1>2 DEF JobSum
<1>6. SumsUp(file', s, j.parts, Len(j.parts))
  BY <1>2, <1>5, WholeKept
<1>7. (/\ SumsUp(file, s, job[r].parts, Len(job[r].parts))
       /\ job[r].total = s[Len(job[r].parts)]
       /\ file[job[r].id].offset = s[job[r].next - 1])'
  <2>1. s[0] = 0 /\ job'[r].next - 1 = 0
    BY <1>4, <1>5 DEF SumsUp
  <2> QED BY <1>3, <1>4, <1>5, <1>6, <2>1
<1>8. WithinLimit(job[r].total)'
  BY <1>2, <1>4 DEF WithinLimit
<1> QED BY <1>3, <1>7, <1>8 DEF JobSum, Building

(* ConcatUploads: as many bytes are appended as were counted.                *)
LEMMA CopySum ==
    ASSUME TypeInv, ConcatInv, NEW r \in Req, JobSum(r), CopyPart(r), [Next]_vars,
           ~Leave(r)
    PROVE  JobSum(r)'
<1> DEFINE j == job[r]
           n == j.next
           part == j.parts[n]
           u == j.id
           k == [j EXCEPT !.next = n + 1]
           last == n = Len(j.parts)
<1>1. /\ file' = [file EXCEPT ![u] = Joined(file[u], part, file[part].offset)]
      /\ job' = [job EXCEPT ![r] = k]
      /\ pc' = [pc EXCEPT ![r] = IF last THEN "announce" ELSE "copy"]
      /\ pc[r] = "copy"
  BY DEF CopyPart, AfterMissing, Goto
<1>2. /\ j \in Job /\ j.parts \in PartList /\ n \in 1 .. Len(j.parts) /\ u \in Upload
  BY <1>1 DEF TypeInv, TypeOK, Serving, Concatenating
<1>3. Len(j.parts) \in Nat /\ part \in Upload /\ n \in Nat \ {0}
  BY <1>2, PartLists
<1>4. PICK s : /\ SumsUp(file, s, j.parts, Len(j.parts)) /\ j.total = s[Len(j.parts)]
               /\ file[u].offset = s[n - 1]
  BY <1>1 DEF JobSum
<1>5. /\ job'[r].id = u /\ job'[r].parts = j.parts /\ job'[r].total = j.total
      /\ job'[r].next = n + 1
  <2>1. job'[r] = k
    BY <1>1 DEF TypeInv, TypeOK
  <2> QED BY <1>2, <1>3, <2>1, JobUpdates
<1>6. file'[u].offset = s[n]
  <2>1. IsComplete(file[part])
    <3>1. pc[r] \in Concatenating /\ Checked(r, n)
      BY <1>1 DEF Concatenating, Checked
    <3> QED BY <1>2, <3>1 DEF ConcatInv, PartsInv, Settled
  <2>2. file'[u].offset = file[u].offset + file[part].offset
    <3>1. file[u] \in File /\ file[part].offset \in Nat
      BY <1>2, <1>3 DEF TypeInv, TypeOK, File
    <3>2. file'[u] = Joined(file[u], part, file[part].offset)
      BY <1>1, <1>2 DEF TypeInv, TypeOK
    <3> DEFINE len == file[part].offset
               g == file[u]
    <3>3. g \in File /\ len \in Nat /\ part \in Upload
      BY <1>3, <3>1
    <3> HIDE DEF part, u, len, g
    <3>4. Joined(g, part, len).offset = g.offset + len
      BY <3>3, JoinedFile
    <3> QED BY <3>2, <3>4 DEF len, g
  <2>3. s[n] = s[n - 1] + file[part].size
    BY <1>2, <1>4 DEF SumsUp
  <2> QED BY <1>4, <2>1, <2>2, <2>3 DEF IsComplete
<1>7. SumsUp(file', s, j.parts, Len(j.parts))
  BY <1>1, <1>4, WholeKept
<1>8. WithinLimit(job[r].total)'
  BY <1>1, <1>5 DEF JobSum, Building, WithinLimit
<1>9. pc'[r] = IF last THEN "announce" ELSE "copy"
  BY <1>1 DEF TypeInv, TypeOK
<1>10. CASE last
  <2>1. (file[job[r].id].offset = job[r].total)'
    BY <1>4, <1>5, <1>6, <1>10
  <2> QED BY <1>8, <1>9, <1>10, <2>1 DEF JobSum, Building
<1>11. CASE ~last
  <2>1. (/\ SumsUp(file, s, job[r].parts, Len(job[r].parts))
         /\ job[r].total = s[Len(job[r].parts)]
         /\ file[job[r].id].offset = s[job[r].next - 1])'
    <3>1. job'[r].next - 1 = n
      BY <1>3, <1>5
    <3> HIDE DEF j, n, part, u, k, last
    <3> QED BY <1>4, <1>5, <1>6, <1>7, <3>1
  <2> QED BY <1>8, <1>9, <1>11, <2>1 DEF JobSum, Building
<1> QED BY <1>10, <1>11

(* emitFinishEvents: what is announced has the size that was counted.        *)
LEMMA AnnounceSum ==
    ASSUME TypeInv, ConcatInv, SumInv, NEW r \in Req, Announce(r) \/ FinishEmpty(r),
           [Next]_vars
    PROVE  SumInv'
<1> DEFINE j == job[r]
           u == j.id
<1>1. /\ UNCHANGED file /\ pc[r] \in {"announce", "empty"} /\ j \in Job /\ u \in Upload
      /\ finished' = finished \/ finished' = [finished EXCEPT ![u] = finished[u] + 1]
  BY DEF Announce, FinishEmpty, TypeInv, TypeOK, Serving
<1>2. /\ file[u].offset = j.total /\ file[u].size = j.total /\ WithinLimit(j.total)
      /\ j.total \in Nat
  BY <1>1 DEF SumInv, JobSum, ConcatInv, JobInv, Building, Job
<1>3. ASSUME NEW s \in Req, s # r
      PROVE  pc'[s] = pc[s] /\ job'[s] = job[s]
  <2>1. Leave(r) \/ (Goto(r, "empty") /\ UNCHANGED job)
    BY DEF Announce, AfterAnnounced, FinishEmpty
  <2> QED BY <1>3, <2>1, LeaveConcat DEF Goto, TypeInv, TypeOK
<1>4. JobSum(r)'
  <2>1. CASE Leave(r)
    BY <2>1, LeaveSum
  <2>2. CASE Goto(r, "empty") /\ UNCHANGED job
    <3>1. pc'[r] = "empty" /\ job'[r] = j
      BY <2>2 DEF Goto, TypeInv, TypeOK
    <3> QED BY <1>1, <1>2, <3>1 DEF JobSum, Building, WithinLimit
  <2> QED BY <2>1, <2>2 DEF Announce, AfterAnnounced, FinishEmpty
<1>5. ASSUME NEW v \in Upload PROVE FinalSum(v)'
  <2>1. CASE finished'[v] = finished[v]
    BY <2>1, FinalSumKept DEF SumInv
  <2>2. CASE finished'[v] # finished[v]
    <3>1. v = u
      BY <1>1, <2>2 DEF TypeInv, TypeOK
    <3> QED BY <1>1, <1>2, <3>1 DEF FinalSum, IsComplete, WithinLimit, Deferred
  <2> QED BY <2>1, <2>2
<1> QED BY <1>3, <1>4, <1>5, JobSumKept DEF SumInv

LEMMA StepSum == TypeInv /\ ConcatInv /\ SumInv /\ [Next]_vars => SumInv'
<1> SUFFICES ASSUME TypeInv, ConcatInv, SumInv, [Next]_vars PROVE SumInv'
  OBVIOUS
<1> DEFINE Same(r) == pc'[r] = pc[r] /\ job'[r] = job[r]
<1>1. ASSUME NEW r \in Req, Step(r) PROVE SumInv'
  <2>1. CASE Announce(r) \/ FinishEmpty(r)
    BY <2>1, AnnounceSum
  <2>2. CASE ~Announce(r) /\ ~FinishEmpty(r)
    <3>1. UNCHANGED finished /\ JobSum(r)
      BY <1>1, <2>2 DEF SumInv, Step, PatchBegin, PatchAppend, PatchFinish, BeginConcat,
            SizeOfPart, NewFinal, RefuseFinal, CopyPart, AfterMissing
    <3>2. ASSUME NEW s \in Req, s # r PROVE Same(s)
      BY <1>1, <2>2, <3>2, LeaveConcat
         DEF Step, PatchBegin, PatchAppend, PatchFinish, BeginConcat, SizeOfPart,
             NewFinal, RefuseFinal, CopyPart, AfterMissing, Goto, TypeInv, TypeOK
    <3>3. JobSum(r)'
      <4>1. CASE Leave(r)
        BY <4>1, LeaveSum
      <4>2. CASE PatchBegin(r) \/ PatchAppend(r)
        <5>1. pc'[r] = "patch"
          BY <4>2 DEF PatchBegin, PatchAppend, Goto, TypeInv, TypeOK
        <5> QED BY <5>1 DEF JobSum, Building
      <4> QED BY <1>1, <2>2, <3>1, <4>1, <4>2, BeginSum, AddSum, NewFinalSum, CopySum
              DEF Step, PatchFinish, RefuseFinal
    <3> QED BY <3>1, <3>2, <3>3, MoveSum
  <2> QED BY <2>1, <2>2
<1>2. ASSUME UNCHANGED <<pc, job, finished>> PROVE SumInv'
  <2>1. \A r \in Req : Same(r)
    BY <1>2
  <2>2. \A u \in Upload : finished'[u] = finished[u]
    BY <1>2
  <2> QED BY <2>1, <2>2, JobSumKept, FinalSumKept DEF SumInv
<1>3. CASE Crash
  <2>1. UNCHANGED finished /\ \A r \in Req : pc'[r] = "idle"
    BY <1>3 DEF Crash
  <2>2. \A r \in Req : JobSum(r)'
    BY <2>1 DEF JobSum, Building
  <2> QED BY <2>1, <2>2, FinalSumKept DEF SumInv
<1> QED BY <1>1, <1>2, <1>3 DEF Next, CreateUpload, Delete, vars

(* Sums and offsets agree at all times: what sizeOfUploads has added is the  *)
(* size of the parts it has seen, what ConcatUploads has appended is the     *)
(* size of the parts it has copied, and an announced final upload has the    *)
(* size that was counted.                                                    *)
THEOREM SumInvariant == Spec => []SumInv
<1>1. Spec => [](TypeInv /\ ConcatInv)
  BY TypeInvariant, ConcatInvariant, PTL
<1> QED BY <1>1, InitSum, StepSum, PTL DEF Spec

(* An announced final upload has the size that was computed before the join. *)
THEOREM FinalIsFilledHolds == Spec => []FinalIsFilled
<1>1. SumInv => FinalIsFilled
  BY DEF SumInv, FinalSum, FinalIsFilled
<1> QED BY <1>1, SumInvariant, PTL

(* MaxSize bounds an announced final upload.                                 *)
THEOREM FinalWithinMaxSizeHolds == Spec => []FinalWithinMaxSize
<1>1. SumInv => FinalWithinMaxSize
  BY DEF SumInv, FinalSum, FinalWithinMaxSize, WithinLimit, IsComplete
<1> QED BY <1>1, SumInvariant, PTL
=============================================================================
