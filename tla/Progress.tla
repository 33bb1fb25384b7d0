------------------------------ MODULE Progress ------------------------------
(***************************************************************************)
(* Progress notifications of one upload (sendProgressMessages and          *)
(* writeChunk in unrouted.go) and the request context whose end stops them *)
(* (context.go).  Every request that writes a chunk starts a goroutine     *)
(* that reports the bytes read so far on an unbuffered channel; it lives   *)
(* until the context of the request ends, which is a grace period after    *)
(* the handler returned.  By then the next request may be writing.  The    *)
(* listener (hooks.go) runs post-receive hooks, which may stop the upload. *)
(***************************************************************************)
EXTENDS Integers

CONSTANTS
    Req,        \* requests that write to the upload, one after the other
    NoReq,      \* no request
    MaxLen,     \* bound: bytes a request sends
    Faults      \* what may go wrong, see FaultKinds

FaultKinds == {"release",  \* a waiting request asks the holder of the lock to let go
               "stop"}     \* a post-receive hook stops the upload

ASSUME ConstantsAssumption ==
    /\ NoReq \notin Req
    /\ MaxLen \in Nat
    /\ Faults \subseteq FaultKinds

VARIABLES
    stored,     \* offset of the upload in the store
    holder,     \* the request that holds the lock and has its stop callback registered
    pc,         \* pc[r]: where the handler of r is
    start,      \* start[r]: offset at which r writes
    read,       \* read[r]: bytesCounter of its body reader
    closed,     \* closed[r]: its body reader was closed by a stop
    context,    \* context[r]: "open", "cancelled", or "done" after the grace period
    early,      \* early[r]: the context was cancelled before r returned (history)
    sender,     \* sender[r]: where its goroutine is
    prev,       \* prev[r]: offset of its last message
    message,    \* message[r]: the offset it is about to send
    seen,       \* seen[r]: the offset the listener has received from it last (history)
    listener    \* "select", or "hook" while a post-receive hook runs

request == <<pc, start, read, closed>>
goroutine == <<sender, prev, message>>
vars == <<stored, holder, request, context, early, goroutine, seen, listener>>

NoOffset == -1

Init ==
    /\ stored = 0
    /\ holder = NoReq
    /\ pc = [r \in Req |-> "new"]
    /\ start = [r \in Req |-> 0]
    /\ read = [r \in Req |-> 0]
    /\ closed = [r \in Req |-> FALSE]
    /\ context = [r \in Req |-> "open"]
    /\ early = [r \in Req |-> FALSE]
    /\ sender = [r \in Req |-> "none"]
    /\ prev = [r \in Req |-> NoOffset]
    /\ message = [r \in Req |-> NoOffset]
    /\ seen = [r \in Req |-> NoOffset]
    /\ listener = "select"

Cancelled(r) == IF context[r] = "open" THEN [context EXCEPT ![r] = "cancelled"] ELSE context

-----------------------------------------------------------------------------
(* The handler. *)

(* GetInfo under the lock, and the first half of writeChunk.                 *)
Begin(r) ==
    /\ pc[r] = "new" /\ holder = NoReq
    /\ holder' = r
    /\ pc' = [pc EXCEPT ![r] = "writing"]
    /\ start' = [start EXCEPT ![r] = stored]
    /\ sender' = [sender EXCEPT ![r] = "select"]
    /\ UNCHANGED <<stored, read, closed, context, early, prev, message, seen, listener>>

(* WriteChunk calls Read, which waits for the client.                        *)
Read(r) ==
    /\ pc[r] = "writing" /\ ~closed[r] /\ read[r] < MaxLen
    /\ pc' = [pc EXCEPT ![r] = "reading"]
    /\ UNCHANGED <<stored, holder, start, read, closed, context, early, goroutine, seen, listener>>

(* The byte is counted, also when the reader was closed meanwhile.           *)
ReadReturns(r) ==
    /\ pc[r] = "reading"
    /\ read' = [read EXCEPT ![r] = @ + 1]
    /\ pc' = [pc EXCEPT ![r] = "writing"]
    /\ UNCHANGED <<stored, holder, start, closed, context, early, goroutine, seen, listener>>

(* WriteChunk has kept what it read; the rest of the handler, and Unlock: it *)
(* was deferred after cancel and so runs before it.                          *)
EndWrite(r) ==
    /\ pc[r] = "writing"
    /\ stored' = start[r] + read[r]
    /\ holder' = NoReq
    /\ pc' = [pc EXCEPT ![r] = "unlocked"]
    /\ UNCHANGED <<start, read, closed, context, early, goroutine, seen, listener>>

Return(r) ==
    /\ pc[r] = "unlocked"
    /\ pc' = [pc EXCEPT ![r] = "returned"]
    /\ context' = Cancelled(r)
    /\ UNCHANGED <<stored, holder, start, read, closed, early, goroutine, seen, listener>>

(* lockUpload of another request: the locker calls releaseLock of the        *)
(* holder.  Nothing but the context takes notice.                            *)
Release ==
    /\ "release" \in Faults /\ holder # NoReq
    /\ context' = Cancelled(holder)
    /\ early' = [early EXCEPT ![holder] = TRUE]
    /\ UNCHANGED <<stored, holder, request, goroutine, seen, listener>>

(* Mutant: nobody cancels the delayed context.                               *)
Expired_Never(r) == context

Expired(r) == [context EXCEPT ![r] = "done"]

(* newDelayedContext: the grace period is over.                              *)
GracePeriodEnds(r) ==
    /\ context[r] = "cancelled"
    /\ context' = Expired(r)
    /\ UNCHANGED <<stored, holder, request, early, goroutine, seen, listener>>

-----------------------------------------------------------------------------
(* sendProgressMessages. *)

(* Mutants: the offset is read from an info that moves with the upload; the  *)
(* bytes are taken off.                                                      *)
Current_Live(r) == stored + read[r]

Current_Backwards(r) == start[r] - read[r]

Current(r) == start[r] + read[r]

(* Mutants: an interval without new bytes is reported too; or the last bytes *)
(* are not.                                                                  *)
WorthSending_Always(r) == TRUE
WorthSending_First(r) == prev[r] = NoOffset

WorthSending(r) == Current(r) # prev[r]

Tick(r) ==
    /\ sender[r] = "select" /\ WorthSending(r)
    /\ message' = [message EXCEPT ![r] = Current(r)]
    /\ sender' = [sender EXCEPT ![r] = "sending"]
    /\ UNCHANGED <<stored, holder, request, context, early, prev, seen, listener>>

Done(r) ==
    /\ sender[r] = "select" /\ context[r] = "done"
    /\ \/ /\ WorthSending(r)
          /\ message' = [message EXCEPT ![r] = Current(r)]
          /\ sender' = [sender EXCEPT ![r] = "sendingLast"]
       \/ /\ ~WorthSending(r)
          /\ sender' = [sender EXCEPT ![r] = "over"]
          /\ UNCHANGED message
    /\ UNCHANGED <<stored, holder, request, context, early, prev, seen, listener>>

(* The listener takes the message, and the goroutine goes on.                *)
Receive(r) ==
    /\ sender[r] \in {"sending", "sendingLast"} /\ listener = "select"
    /\ seen' = [seen EXCEPT ![r] = message[r]]
    /\ listener' = "hook"
    /\ \/ /\ sender[r] = "sending"
          /\ prev' = [prev EXCEPT ![r] = message[r]]
          /\ sender' = [sender EXCEPT ![r] = "select"]
       \/ /\ sender[r] = "sendingLast"
          /\ sender' = [sender EXCEPT ![r] = "over"]
          /\ UNCHANGED prev
    /\ message' = [message EXCEPT ![r] = NoOffset]
    /\ UNCHANGED <<stored, holder, request, context, early>>

(* postReceiveHook returns; a stop goes to whoever is registered by now.     *)
HookReturns ==
    /\ listener = "hook"
    /\ listener' = "select"
    /\ \/ UNCHANGED <<closed, context, early>>
       \/ /\ "stop" \in Faults /\ holder # NoReq
          /\ closed' = [closed EXCEPT ![holder] = TRUE]
          /\ context' = Cancelled(holder)
          /\ early' = [early EXCEPT ![holder] = TRUE]
    /\ UNCHANGED <<stored, holder, pc, start, read, goroutine, seen>>

-----------------------------------------------------------------------------
Handler(r) == Begin(r) \/ Read(r) \/ ReadReturns(r) \/ EndWrite(r) \/ Return(r)
Sender(r) == Tick(r) \/ Done(r)

(* Every request has returned and every goroutine is over.                   *)
Quiet ==
    /\ \A r \in Req : pc[r] = "returned" /\ sender[r] = "over"
    /\ listener = "select"
    /\ UNCHANGED vars

Next ==
    \/ \E r \in Req : Handler(r) \/ GracePeriodEnds(r) \/ Sender(r) \/ Receive(r)
    \/ Release \/ HookReturns
    \/ Quiet

(* Handlers end (clients and stores answer), timers fire, the runtime runs   *)
(* every goroutine, hooks return.                                            *)
Fairness ==
    /\ \A r \in Req : /\ WF_vars(ReadReturns(r)) /\ WF_vars(EndWrite(r)) /\ WF_vars(Return(r))
                      /\ WF_vars(GracePeriodEnds(r)) /\ WF_vars(Done(r)) /\ WF_vars(Receive(r))
    /\ WF_vars(HookReturns)

Spec == Init /\ [][Next]_vars
FairSpec == Spec /\ Fairness

-----------------------------------------------------------------------------
(* Properties. *)

(* Type invariant: the stages of handler, context and goroutine.             *)
TypeOK ==
    /\ stored \in Nat
    /\ holder \in Req \cup {NoReq}
    /\ pc \in [Req -> {"new", "writing", "reading", "unlocked", "returned"}]
    /\ start \in [Req -> Nat]
    /\ read \in [Req -> 0 .. MaxLen]
    /\ closed \in [Req -> BOOLEAN]
    /\ context \in [Req -> {"open", "cancelled", "done"}]
    /\ early \in [Req -> BOOLEAN]
    /\ sender \in [Req -> {"none", "select", "sending", "sendingLast", "over"}]
    /\ prev \in [Req -> Nat \cup {NoOffset}]
    /\ message \in [Req -> Nat \cup {NoOffset}]
    /\ seen \in [Req -> Nat \cup {NoOffset}]
    /\ listener \in {"select", "hook"}

(* Each message of a request reports more bytes than the one before, although *)
(* two branches of a select send them while the body is being read.          *)
MessagesIncrease ==
    \A r \in Req : message[r] # NoOffset => message[r] > seen[r]

(* A message never claims bytes the request has not read, nor bytes that     *)
(* were written by the next one while it was late.                           *)
MessagesTrue ==
    \A r \in Req :
        message[r] # NoOffset =>
            start[r] <= message[r] /\ message[r] <= start[r] + read[r]

(* The last message of a request is the offset it came to, unless its        *)
(* context was cancelled while it was still writing.                         *)
LastMessageIsFinal ==
    \A r \in Req :
        sender[r] = "over" /\ ~early[r] => seen[r] = start[r] + read[r]

(* No goroutine outlives its request for ever.                               *)
GoroutineEnds == \A r \in Req : sender[r] # "none" ~> sender[r] = "over"
=============================================================================
