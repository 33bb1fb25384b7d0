--------------------------- MODULE ProgressProofs ---------------------------
(***************************************************************************)
(* The messages of sendProgressMessages, for any number of requests and    *)
(* any body: they increase, they are true, and the last one is final.      *)
(***************************************************************************)
EXTENDS Progress, TLAPS

(* A request holds the lock exactly while it writes, and its goroutine       *)
(* exists from then on.                                                      *)
Stages ==
    \A r \in Req :
        /\ pc[r] = "new" => /\ sender[r] = "none" /\ read[r] = 0
                            /\ context[r] = "open"
        /\ pc[r] \in {"writing", "reading"} <=> holder = r
        /\ pc[r] = "reading" => read[r] < MaxLen
        /\ message[r] # NoOffset <=> sender[r] \in {"sending", "sendingLast"}
        /\ sender[r] = "none" => prev[r] = NoOffset
        /\ pc[r] # "new" => sender[r] # "none"

(* What the goroutine remembers is what the listener got, and neither is     *)
(* ahead of the body reader.                                                 *)
Remembered ==
    \A r \in Req :
        /\ sender[r] # "over" => seen[r] = prev[r]
        /\ prev[r] # NoOffset => start[r] <= prev[r] /\ prev[r] <= start[r] + read[r]
        /\ message[r] # NoOffset =>
             /\ message[r] > prev[r]
             /\ start[r] <= message[r] /\ message[r] <= start[r] + read[r]

(* Unless it was cancelled early, the context ends when the body reader has  *)
(* come to rest.                                                             *)
Settled ==
    \A r \in Req :
        ~early[r] =>
            /\ context[r] # "open" => pc[r] = "returned"
            /\ sender[r] \in {"sendingLast", "over"} => context[r] = "done"
            /\ sender[r] = "sendingLast" => message[r] = start[r] + read[r]
            /\ sender[r] = "over" => seen[r] = start[r] + read[r]

ProgressInv == TypeOK /\ Stages /\ Remembered /\ Settled

LEMMA InitProgress == Init => ProgressInv
<1> SUFFICES ASSUME Init PROVE ProgressInv
  OBVIOUS
<1> USE ConstantsAssumption DEF Init, NoOffset
<1>1. TypeOK
  BY DEF TypeOK
<1>2. Stages
  BY DEF Stages
<1>3. Remembered
  BY DEF Remembered
<1>4. Settled
  BY DEF Settled
<1> QED BY <1>1, <1>2, <1>3, <1>4 DEF ProgressInv

(* Cancelling moves the context of one request and never back to "open".     *)
LEMMA Cancelling ==
    ASSUME TypeOK, NEW r \in Req
    PROVE  /\ Cancelled(r) \in [Req -> {"open", "cancelled", "done"}]
           /\ \A s \in Req : s # r => Cancelled(r)[s] = context[s]
           /\ \A s \in Req : context[s] = "done" => Cancelled(r)[s] = "done"
  BY DEF Cancelled, TypeOK

LEMMA HandlerStep ==
    ASSUME ProgressInv, NEW r \in Req, Handler(r)
    PROVE  ProgressInv'
<1> USE DEF ProgressInv, request, goroutine, NoOffset
<1>1. CASE Begin(r)
  <2>1. TypeOK'
    BY <1>1 DEF Begin, TypeOK
  <2>2. Stages'
    BY <1>1, ConstantsAssumption DEF Begin, TypeOK, Stages
  <2>3. Remembered'
    BY <1>1 DEF Begin, TypeOK, Stages, Remembered
  <2>4. Settled'
    BY <1>1 DEF Begin, TypeOK, Stages, Settled
  <2> QED BY <2>1, <2>2, <2>3, <2>4
<1>2. CASE Read(r)
  <2>1. TypeOK'
    BY <1>2 DEF Read, TypeOK
  <2>2. Stages'
    BY <1>2 DEF Read, TypeOK, Stages
  <2>3. Remembered'
    BY <1>2 DEF Read, TypeOK, Remembered
  <2>4. Settled'
    BY <1>2 DEF Read, TypeOK, Settled
  <2> QED BY <2>1, <2>2, <2>3, <2>4
<1>3. CASE ReadReturns(r)
  <2>1. TypeOK'
    BY <1>3, ConstantsAssumption DEF ReadReturns, TypeOK, Stages
  <2>2. Stages'
    BY <1>3 DEF ReadReturns, TypeOK, Stages
  <2>3. Remembered'
    BY <1>3 DEF ReadReturns, TypeOK, Remembered
  <2>4. Settled'
    BY <1>3 DEF ReadReturns, TypeOK, Settled
  <2> QED BY <2>1, <2>2, <2>3, <2>4
<1>4. CASE EndWrite(r)
  <2>1. TypeOK'
    BY <1>4, ConstantsAssumption DEF EndWrite, TypeOK
  <2>2. Stages'
    BY <1>4, ConstantsAssumption DEF EndWrite, TypeOK, Stages
  <2>3. Remembered'
    BY <1>4 DEF EndWrite, TypeOK, Remembered
  <2>4. Settled'
    BY <1>4 DEF EndWrite, TypeOK, Settled
  <2> QED BY <2>1, <2>2, <2>3, <2>4
<1>5. CASE Return(r)
  <2>1. TypeOK'
    BY <1>5, Cancelling DEF Return, TypeOK
  <2>2. Stages'
    BY <1>5, Cancelling DEF Return, TypeOK, Stages
  <2>3. Remembered'
    BY <1>5 DEF Return, TypeOK, Remembered
  <2>4. Settled'
    BY <1>5, Cancelling DEF Return, TypeOK, Settled
  <2> QED BY <2>1, <2>2, <2>3, <2>4
<1> QED BY <1>1, <1>2, <1>3, <1>4, <1>5 DEF Handler

(* A step of the goroutine, the timer or the listener for request r.         *)
LEMMA SenderStep ==
    ASSUME ProgressInv, NEW r \in Req, GracePeriodEnds(r) \/ Sender(r) \/ Receive(r)
    PROVE  ProgressInv'
<1> USE DEF ProgressInv, request, goroutine, NoOffset
<1>1. /\ Current(r) \in Nat /\ start[r] \in Nat /\ read[r] \in Nat
      /\ prev[r] \in Nat \cup {NoOffset}
      /\ Current(r) = start[r] + read[r]
  BY ConstantsAssumption DEF TypeOK, Current
<1>2. CASE GracePeriodEnds(r)
  <2>1. TypeOK'
    BY <1>2 DEF GracePeriodEnds, Expired, TypeOK
  <2>2. Stages'
    BY <1>2 DEF GracePeriodEnds, Expired, TypeOK, Stages
  <2>3. Remembered'
    BY <1>2 DEF GracePeriodEnds, TypeOK, Remembered
  <2>4. Settled'
    BY <1>2 DEF GracePeriodEnds, Expired, TypeOK, Settled
  <2> QED BY <2>1, <2>2, <2>3, <2>4
<1>3. CASE Tick(r)
  <2>1. TypeOK'
    BY <1>1, <1>3 DEF Tick, TypeOK
  <2>2. Stages'
    BY <1>1, <1>3 DEF Tick, TypeOK, Stages
  <2>3. Remembered'
    <3>1. Current(r) > prev[r]
      BY <1>1, <1>3 DEF Tick, WorthSending, Remembered
    <3> QED BY <1>1, <1>3, <3>1 DEF Tick, TypeOK, Remembered
  <2>4. Settled'
    BY <1>3 DEF Tick, TypeOK, Settled
  <2> QED BY <2>1, <2>2, <2>3, <2>4
<1>4. CASE Done(r) /\ WorthSending(r)
  <2>1. /\ message' = [message EXCEPT ![r] = Current(r)]
        /\ sender' = [sender EXCEPT ![r] = "sendingLast"]
        /\ sender[r] = "select" /\ context[r] = "done"
        /\ UNCHANGED <<stored, holder, request, context, early, prev, seen, listener>>
    BY <1>4 DEF Done
  <2>2. TypeOK'
    BY <1>1, <2>1 DEF TypeOK
  <2>3. Stages'
    BY <1>1, <2>1 DEF TypeOK, Stages
  <2>4. Remembered'
    <3>1. Current(r) > prev[r]
      BY <1>1, <1>4 DEF WorthSending, Remembered
    <3> QED BY <1>1, <2>1, <3>1 DEF TypeOK, Remembered
  <2>5. Settled'
    BY <1>1, <2>1 DEF TypeOK, Settled
  <2> QED BY <2>2, <2>3, <2>4, <2>5
<1>5. CASE Done(r) /\ ~WorthSending(r)
  <2>1. /\ sender' = [sender EXCEPT ![r] = "over"]
        /\ sender[r] = "select" /\ context[r] = "done"
        /\ prev[r] = Current(r)
        /\ UNCHANGED <<stored, holder, request, context, early, prev, message, seen, listener>>
    BY <1>5 DEF Done, WorthSending
  <2>2. TypeOK'
    BY <2>1 DEF TypeOK
  <2>3. Stages'
    BY <2>1 DEF TypeOK, Stages
  <2>4. Remembered'
    BY <2>1 DEF TypeOK, Remembered
  <2>5. Settled'
    BY <1>1, <2>1 DEF TypeOK, Settled, Remembered
  <2> QED BY <2>2, <2>3, <2>4, <2>5
<1>6. CASE Receive(r)
  <2>1. TypeOK'
    BY <1>6 DEF Receive, TypeOK
  <2>2. Stages'
    BY <1>6 DEF Receive, TypeOK, Stages
  <2>3. Remembered'
    BY <1>6 DEF Receive, TypeOK, Stages, Remembered
  <2>4. Settled'
    BY <1>6 DEF Receive, TypeOK, Settled
  <2> QED BY <2>1, <2>2, <2>3, <2>4
<1> QED BY <1>2, <1>3, <1>4, <1>5, <1>6 DEF Sender

(* A stop or a release request of the holder of the lock, who is writing.    *)
LEMMA HolderCancelled ==
    ASSUME ProgressInv, Release \/ HookReturns
    PROVE  ProgressInv'
<1> USE DEF ProgressInv, request, goroutine, NoOffset
<1>1. CASE Release
  <2>1. holder \in Req
    BY <1>1 DEF Release, TypeOK
  <2>2. TypeOK'
    BY <1>1, <2>1, Cancelling DEF Release, TypeOK
  <2>3. Stages'
    BY <1>1, <2>1, Cancelling DEF Release, TypeOK, Stages
  <2>4. Remembered'
    BY <1>1 DEF Release, TypeOK, Remembered
  <2>5. Settled'
    BY <1>1, <2>1, Cancelling DEF Release, TypeOK, Settled
  <2> QED BY <2>2, <2>3, <2>4, <2>5
<1>2. CASE HookReturns /\ UNCHANGED <<closed, context, early>>
  BY <1>2 DEF HookReturns, TypeOK, Stages, Remembered, Settled
<1>3. CASE HookReturns /\ ~UNCHANGED <<closed, context, early>>
  <2>1. /\ holder \in Req
        /\ closed' = [closed EXCEPT ![holder] = TRUE]
        /\ context' = Cancelled(holder)
        /\ early' = [early EXCEPT ![holder] = TRUE]
        /\ UNCHANGED <<stored, holder, pc, start, read, goroutine, seen>>
        /\ listener' = "select"
    BY <1>3 DEF HookReturns, TypeOK
  <2>2. TypeOK'
    BY <2>1, Cancelling DEF TypeOK
  <2>3. Stages'
    BY <2>1, Cancelling DEF TypeOK, Stages
  <2>4. Remembered'
    BY <2>1 DEF TypeOK, Remembered
  <2>5. Settled'
    BY <2>1, Cancelling DEF TypeOK, Settled
  <2> QED BY <2>2, <2>3, <2>4, <2>5
<1> QED BY <1>1, <1>2, <1>3

LEMMA NextProgress == ProgressInv /\ [Next]_vars => ProgressInv'
<1> SUFFICES ASSUME ProgressInv, [Next]_vars PROVE ProgressInv'
  OBVIOUS
<1>1. CASE UNCHANGED vars
  BY <1>1 DEF vars, request, goroutine, ProgressInv, TypeOK, Stages, Remembered, Settled
<1>2. CASE Next
  BY <1>1, <1>2, HandlerStep, SenderStep, HolderCancelled DEF Next, Quiet
<1> QED BY <1>1, <1>2

THEOREM ProgressInvHolds == Spec => []ProgressInv
  BY InitProgress, NextProgress, PTL DEF Spec

(* Every variable keeps its type.                                            *)
THEOREM ProgressTypeCorrect == Spec => []TypeOK
<1>1. ProgressInv => TypeOK
  BY DEF ProgressInv
<1> QED BY <1>1, ProgressInvHolds, PTL

(* Each message of a request reports more bytes than the one before.         *)
THEOREM MessagesIncreaseHolds == Spec => []MessagesIncrease
<1>1. ProgressInv => MessagesIncrease
  BY DEF ProgressInv, Stages, Remembered, MessagesIncrease
<1> QED BY <1>1, ProgressInvHolds, PTL

(* A message claims no byte that the request has not read.                   *)
THEOREM MessagesTrueHolds == Spec => []MessagesTrue
<1>1. ProgressInv => MessagesTrue
  BY DEF ProgressInv, Remembered, MessagesTrue
<1> QED BY <1>1, ProgressInvHolds, PTL

(* The last message of a request that was not cancelled early is the offset  *)
(* it came to.                                                               *)
THEOREM LastMessageIsFinalHolds == Spec => []LastMessageIsFinal
<1>1. ProgressInv => LastMessageIsFinal
  BY DEF ProgressInv, Settled, LastMessageIsFinal
<1> QED BY <1>1, ProgressInvHolds, PTL
=============================================================================
