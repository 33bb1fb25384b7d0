# tusdfiber in TLA+

tusdfiber serves resumable uploads (tus 1.0 and the IETF draft) as a Fiber
handler over tusd's data stores and lockers. This directory models it in TLA+,
checks the model with TLC and proves the safety properties of the passing runs
with TLAPS.

| File | What it is |
| --- | --- |
| `UploadHandler.tla` | the request handlers, the upload lock, the body reader, the stop registry and the notification channels |
| `ResumableUpload.tla` | the promise of one upload, which `UploadHandler` implements |
| `Concatenation.tla` | final uploads: checked, created and joined without locks while their parts change |
| `Progress.tla` | progress goroutines, request contexts and the listener that reads them |
| `Protocol.tla` | base paths, routers, middleware, and the ids, URLs and extension names in headers |
| `MCUploadHandler.tla`, `MCConcatenation.tla`, `MCProtocol.tla` | instances for TLC: symmetry sets, Content-Lengths, deployments |
| `*.cfg` | one instance per question, see *Runs* |
| `UploadHandlerProofs.tla` | theorems: typing, mutual exclusion, the stop registry |
| `UploadDataProofs.tla` | theorems: snapshots, offsets, acknowledged bytes, appending only |
| `UploadFinishProofs.tla` | theorems: completion, lengths, nothing after termination |
| `UploadAnswerProofs.tla` | theorems: what an answer may say, the size limit, uploads owed a completion |
| `UploadRefinementProofs.tla` | theorem: `UploadHandler` implements `ResumableUpload` |
| `ConcatenationProofs.tla` | theorems: contents, announcement and size of final uploads |
| `ProgressProofs.tla` | theorems: progress messages |
| `ProtocolProofs.tla` | theorems: URLs, references, routers, announced extensions |
| `PROJECT.json` | components, runs, mutants, source map, findings, hazards, theorems |

## The system

Line numbers are those of the repository at the modelled commit.

### Components

| Component | State | Operations | Modelled in |
| --- | --- | --- | --- |
| Request handlers (`unrouted.go`) | none across requests; each handler has its own copy of the upload's `FileInfo` | `PostFile`, `HeadFile`, `PatchFile`, `GetFile`, `DelFile`, `writeChunk`, `finishUploadIfComplete`, `emitFinishEvents`, `lockUpload` | `UploadHandler`, `ResumableUpload` |
| IETF draft (`draft.go`) | none | `PostFileV2`, `getDraftUploadLength`, draft use of `PatchFile` and `HeadFile` | `UploadHandler` (not the draft headers of answers) |
| Body reader (`body_reader.go`) | first error, byte count | `Read`, `hasError`, `bytesRead`, `closeWithError` | `UploadHandler`, `Progress` |
| Stop registry and listener (`hooks.go`) | `stopCallbacks`, a map from upload id to closure; one listener goroutine | `RegisterStopCallback`, `UnregisterStopCallback`, `triggerStopUpload`, the select loop of `NewHandlerWithHooks`, `postReceiveHook` | `UploadHandler`, `Progress` |
| Data store and locker (external) | the uploads, one lock per id | `NewUpload`, `GetInfo`, `WriteChunk`, `DeclareLength`, `FinishUpload`, `Terminate`; `ConcatUploads`; `Lock`, `Unlock` | `UploadHandler` and `Concatenation`, as the handlers use them |
| Concatenation (`unrouted.go`) | partial and final uploads | `parseConcat`, `sizeOfUploads`, the `isFinal` branch of `PostFile` | `Concatenation`; header and ids in `Protocol` |
| Progress and request context (`context.go`, `http.go`, `unrouted.go`) | cancellation state, a progress goroutine per chunk | `newHookContext`, `cancel`, `newDelayedContext`, `sendProgressMessages` | `Progress` |
| Header parsing (`unrouted.go`, `draft.go`) | none | length, offset, metadata and concat parsing, id validation | `Protocol` (ids, concat), `UploadHandler` (lengths), not metadata |
| Routing and middleware (`handler.go`, `middleware.go`) | none | `Register`, `Middleware`, version check, CORS, method override | `Protocol` (not the override) |
| Configuration (`config.go`) | the `Config` | `validate`, path normalisation | `Protocol`; other fields are constants |
| Metrics (`metrics.go`) | counters | registration; the handlers increment none of them | not modelled |
| Errors and adapters (`errors.go`, `http.go`, `fhttp.go`) | one shared error object per kind | `MergeWith` | not modelled, see hazards |
| Example server (`example/main.go`) | - | channel set-up | instance of run `undrained` |

### How they interact

A request is one goroutine running one handler from start to end. Handlers of
one upload meet in four places:

* **the lock**: every handler but the first part of a POST takes the upload's
  lock and keeps it until it returns (deferred `Unlock`); waiting ends when the
  lock is free or `AcquireLockTimeout` has passed;
* **the store**: it is called under the lock, except by a POST, which creates
  the upload and reads its info before it takes the lock
  (`unrouted.go:154-159`);
* **the stop registry**: `writeChunk` registers a closure under the upload's id
  and removes the id when it returns; the listener may load the closure, then
  call it at any later time;
* **the notification channels**: they are unbuffered, and a handler sends to
  them in the middle of its work, some of it under the lock. A single
  listener receives from all of them and runs post-receive hooks itself.

The POST of a final upload meets the handlers of its parts without any lock:
it looks at each part, creates the final upload, and has the store read the
parts again. A progress goroutine meets its own handler at the byte counter of
the body reader and at the request context, and the goroutines of other
requests at the listener. Configuration meets requests twice: `config.validate`
normalises the copy that answers are built from, while the routers work on the
original.

### What is hard about it

* Interleavings of handlers of one upload, and of handlers with the listener:
  nearly every decision is taken on a copy of the `FileInfo` that must still
  agree with the store when it is used.
* A stop can land before, during or after the last byte, and the closure that
  is called may belong to a request that has returned.
* Store calls fail half way (a short write), connections break, callbacks
  reject; the code then continues in different places.
* The process may die between any two store calls.
* Completion depends on the order of length declaration, chunks, re-sent chunks
  and empty bodies, in two protocols.
* A handler waits for three things it does not control: the lock, the receiver
  of a channel, the client.
* Between the check of the parts of a final upload and the join, anything may
  happen to the parts; the join itself may fail half way.
* A progress goroutine outlives its request, so two of the same upload overlap,
  and a stop meant for one request arrives during the next.
* A URL is built in one place and taken apart in three others (two routers and
  `extractIDFromURL`), from two versions of the base path.

`PROJECT.json` lists these hazards line by line together with the properties
that cover them; those without a property say why.

### What makes it correct

* Handlers, lock and store: mutual exclusion, current snapshots, offsets that
  never pass the length nor fall behind what a client was told, a length that is
  fixed once, exactly one completion, nothing after termination, the size limit.
* Stop registry: the entry of an upload is that of its current writer, and a
  stopped upload is not answered as a success.
* Listener and channels: every request is answered; an upload that a write
  fills is finished.
* Concatenation: what is announced as a final upload is the concatenation of
  complete partial uploads, in order, within the size limit, announced once.
* Progress: messages of one request increase, claim no byte it has not read, and
  end with the offset it came to; the goroutine ends.
* Routing, configuration, headers: the `Location` of an upload leads back to it,
  references name the uploads they were meant for, what is announced is served,
  both routers agree.

## The model: `UploadHandler`

### Requests and stages

`Req` is a set of slots; a slot serves one request at a time, and `pc[r]` names
the next call of the handler in it. A step is everything between two calls at
which somebody else can interfere.

| Stage | Next call | Action |
| --- | --- | --- |
| `idle` | a request arrives | `Begin`, `NewUpload` |
| `getinfo` | `GetUpload`, `GetInfo` | `GetInfo` |
| `created` | send on `CreatedUploads` | `NotifyCreated` |
| `lock` | `lockUpload` | `Acquire`, `LockTimeout` |
| `check` | the checks of `PatchFile`, `DeclareLength` | `RejectPatch`, `PatchOfComplete`, `AcceptPatch`, `DeclareLength` |
| `chunk` | the head of `writeChunk` | `RejectChunk`, `BeginChunk` |
| `write` | `WriteChunk` reading the body | `ReadByte`, `BodyEnds`, `BodyFails`, `EndWrite` |
| `stopped` | `terminateUpload` | `TerminateStopped` |
| `finish` | `finishUploadIfComplete` | `FinishUpload` |
| `completed` | send on `CompleteUploads` | `NotifyComplete` |
| `unregister` | the deferred `UnregisterStopCallback` | `EndChunk` |
| `declare` | step 4 of `PostFileV2` | `DeclareReceived` |
| `copy` | `GetReader`, `io.Copy` | `Copy` |
| `terminate` | the pre-terminate callback, `Terminate` | `Terminate` |
| `terminated` | send on `TerminatedUploads` | `NotifyTerminated` |
| `respond` | the answer, the deferred `Unlock` | `Respond` |

The other variables: `status` and `store` are the data store (`free`, `live`,
`gone`, and the `FileInfo`), `holder` the locker, `stopCb` the registry,
`stopping` the closure the listener has loaded and not yet called, `req` the
parsed request, `info` the handler's local `FileInfo`, `reader` the
`bodyReader` (open while `writeChunk` runs), `failed` whether the answer is an
error. `finished` and `acked` are history: successful `FinishUpload` calls and
the largest offset any client was told.

### Abstractions

* A byte is a unit; contents are not modelled, only offsets. Lengths range over
  `0 .. MaxLen`. Header values are already parsed; `NoLength` is an absent
  `Upload-Length`, `Chunked` and `NoBody` are the two special body lengths.
  `Lengths` are the Content-Lengths that clients send.
* A stop sets the error of the body reader, but what it closes is a `NopCloser`:
  a `Read` that waits for the client goes on waiting, and what it returns still
  counts (`body_reader.go:25`, `37`, `81`). `FireStop` therefore finds a reader
  between two reads (`stopped`) or inside one (`lastRead`), which then ends with
  the client's next step. `WriteChunk` may also fail with all bytes stored
  (`WriteError`).
* A request that is turned away before it touches the store (bad headers, length
  above `MaxSize`, unsupported extension, a callback that rejects the
  creation) changes nothing, and is left out by the guards of `Begin` and
  `NewUpload`.
* The store keeps what `WriteChunk` reports at the offset it was given, like
  tusd's file store and the tests' `memStore`: a write at a stale offset
  overwrites. A terminated upload accepts no calls.
* A locker is configured. Its `releaseLock` callback only cancels the holder's
  context, which stops no read; `Progress` models contexts.
* A post-receive hook that asks for a stop may come at any time while a closure
  is registered (`LoadStop`): progress messages are not modelled, so this
  allows every moment at which one might be handled, and more. `Progress`
  has the messages themselves.
* `Faults` chooses what can go wrong: `store` (any call fails, a write stores
  only part), `callback` (pre-finish and pre-terminate callbacks reject),
  `crash`, and `earlyIds` (an id is used before its POST has answered, which
  `PreUploadCreateCallback` and the `CreatedUploads` event make possible).

### The promise: `ResumableUpload`

`ResumableUpload` says what a client and a hook may rely on for one upload: it
is created, gets bytes within a length that is declared once, is completed once
when it has them all, may be terminated. It has no requests, locks, snapshots or
restarts. `Promised` in `UploadHandler` is the refinement mapping (`phase` from
`status`, `length` and `received` from `store`, `completions` from `finished`),
and `KeepsPromise` says that every step of the handlers is a step of the promise
or none. A restart shows as at most an `Append`. The promise is kept without stop
hooks and early ids; findings 1 and 3 are the two ways it breaks otherwise.

## The model: `Concatenation`

Uploads are plain, partial or final; nothing in the code looks at `IsPartial`,
so the first two are one kind. Handlers under a lock (`PatchFile`, `DelFile`)
are reduced to the steps others can see, because the POST of a final upload
takes no lock:

| Stage | Next call | Action |
| --- | --- | --- |
| `idle` | a request arrives | `BeginConcat`, `PatchBegin`; `CreateUpload` and `Delete` are one step |
| `patch` | `WriteChunk` of a PATCH | `PatchAppend`, `PatchFinish` |
| `sizes` | `GetInfo` of the next part | `SizeOfPart` |
| `create` | the size limit, callbacks, `NewUpload`, `GetInfo` | `NewFinal`, `RefuseFinal` |
| `copy` | `ConcatUploads` reading the next part | `CopyPart` |
| `announce` | `emitFinishEvents` | `Announce` |
| `empty` | `finishUploadIfComplete` at line 200 | `FinishEmpty` |

`file[u]` is what the store keeps; its `pieces` say where the bytes came from and
its `parts` are the list of the header. A terminated upload keeps its `file` as a
ghost, so that the final upload can be compared with parts deleted later.
`Crash` loses locks and handlers at any point. A part may be listed twice, and
a final upload may itself be a part: nothing forbids either.

Bounds: three uploads (two parts and a final, or a part, a final and a final of
it), lists of at most two, lengths of at most two, `MaxSize` 2, which a sum can
exceed while no part does; two requests, so that two finals, or a final and a
PATCH, overlap.

## The model: `Progress`

The requests that write to one upload follow each other under its lock
(`holder`); the stop registry always names the holder
(`StopCallbackOwned` of `UploadHandler`), so no variable of its own is needed.
Each request has a handler, a context (`open`, `cancelled`, and `done` after the
grace period) and a goroutine.

| Goroutine | Code | Action |
| --- | --- | --- |
| `select` | the select of `sendProgressMessages` | `Tick`, `Done` |
| `sending` | the send in the branch of the ticker | `Receive` |
| `sendingLast` | the send in the branch of `ctx.Done()` | `Receive` |
| `over` | it has returned | |

`Read` and `ReadReturns` are the two ends of one `Read` of the body, between
which a stop can close the reader; `EndWrite` is the end of `WriteChunk` with
everything up to `Unlock`, which runs before the deferred `cancel` (`Return`).
`Release` is a waiting request asking for the lock (`lockUpload`), `HookReturns`
the end of a post-receive hook, which may stop whoever is registered by then.
A tick may come at any time: the interval is not modelled.

Bounds: two requests, bodies of at most two bytes; two so that a late message of
one meets the writes of the next. The theorems hold for any number of both.

## The model: `Protocol`

Text is a sequence of pieces, `/` and what stands between slashes; that is
enough to trim, prefix-match and cut the way the code does. `config` is a
deployment: router, base path as configured, and switches. `uploads` says which
ids exist, `last` remembers the last request: the upload the client meant, the
handler and id the router came up with, the extension it relied on and whether
it got it. An action is one request: `Create` and `CreateFinal` (POST),
`Discover` (OPTIONS), `Access` (any other method at a `Location`), `TurnedAway`
(refused by the middleware stack). What handlers do to an upload is reduced to
whether it exists.

Fiber's part is external: patterns get a leading slash, a slash at the end of a
path is ignored, a parameter is one segment.

Bounds: four deployments (`MCProtocol`), two with `Register` (one of them
configured without a leading slash) and two with `Middleware` (one with a
nested base path), every combination of six switches, two ids, of which one
looks like the base path and one has several segments and the whole base path
inside, lists of at most two references, each the full `Location` or only its
path. The middleware stack is modelled by what gets past it (`Passes`); which
headers its parts set on an answer, and in which order, is not modelled.

### Bounds of `UploadHandler`

`MaxLen` bounds lengths and what a client sends (1 or 2): 2 is the smallest
value with a partial upload between empty and full. `Upload` ids are not reused,
so their number bounds the number of uploads. Two request slots are enough for
every pairwise race; requests follow each other in a slot without limit, so
histories are unbounded although slots are few. One upload suffices because the
properties are about one upload. `MaxSize` is one below `MaxLen` where it is
set, so that it can be exceeded. `Lengths` are all Content-Lengths up to `MaxLen`
(`AllLengths`), except in `service`, whose liveness checks are the longest:
there bodies are chunked or absent (`FewLengths`). A chunked body may end after
any number of bytes, so that every chunk a Content-Length allows is still sent;
what it leaves out is the early answer 413, and `core` has that. GET is left to
`core` too: it waits for the lock like HEAD, and for nothing else.

## Runs

| Run | What it checks | Instance |
| --- | --- | --- |
| `core` | `TypeOK` `ExclusiveAccess` `StopCallbackOwned` `SnapshotCurrent` `OffsetWithinSize` `AckedNeverLost` `CompletionOnce` `FinishedMeansComplete` `AppendsOnly` `LengthDeclaredOnce` `NoCompletionAfterTermination` `KeepsPromise` | 2 requests of all kinds, both protocols, 1 upload, deferred lengths, failing store and callbacks, restarts anywhere, all channels |
| `service` | `SuccessMeansLive` `RequestsAnswered` `AckedCompleteIsFinished` `FilledIsFinished` | 2 requests of every kind but GET, both protocols, 1 upload, deferred lengths, stop hooks, fairness, no faults, all channels drained |
| `concat` | `TypeOK` `FinalIsConcatenation` `FinalIsFilled` `FinalHoldsOnlyParts` `FinalWithinMaxSize` `AnnouncedOnce` | 2 requests, 3 uploads, failing store and callbacks, restarts |
| `progress` | `TypeOK` `MessagesIncrease` `MessagesTrue` `LastMessageIsFinal` `GoroutineEnds` | 2 writing requests, stops and release requests, fairness |
| `protocol` | `TypeOK` `LocationServed` `FinalNamesItsParts` `AdvertisedServed` `RoutersAgree` | 4 deployments, all switches, 2 ids |
| `stop_after_last_byte` | violates `NoCompletionAfterTermination` | 1 request, stop hook |
| `max_size` | violates `WithinMaxSize` | 1 request, deferred length, `MaxSize` 1 |
| `early_ids` | violates `AppendsOnly` | 2 requests, `earlyIds` |
| `empty_upload` | violates `CompletedIsFinished` | 1 request, fairness |
| `undrained` | violates `RequestsAnswered` | `TerminatedUploads` enabled, nobody receives |
| `upload_complete` | violates `CompleteSignalHonoured` | 1 request, draft only |
| `declared_length` | violates `DeclaredIsFinished` | 1 request, deferred length, fairness |

What the passing runs show:

* **The lock does its work.** Within one upload, every decision `PatchFile`,
  `writeChunk` and `GetFile` take is taken on what the store has
  (`SnapshotCurrent`), although a POST reads the info before it locks. That
  holds because no client knows the id before the POST answers; `early_ids` is
  the same system without that assumption.
* **Acknowledged bytes stay** (`AckedNeverLost`), also when writes are cut short
  and when the process dies while writing, and so do all other stored bytes
  (`AppendsOnly`); an upload never grows past its length (`OffsetWithinSize`) and
  a length is fixed once (`LengthDeclaredOnce`).
* **Completion** happens at most once (`CompletionOnce`), only for complete
  uploads (`FinishedMeansComplete`), and never after a DELETE
  (`NoCompletionAfterTermination`). An upload is *owed* its completion
  (`Owed`) once bytes of a known length are missing, or once `PostFileV2` is about
  to declare what it has received as the length. As long as store and process do
  not fail, an owed upload is finished or terminated when it is full
  (`FilledIsFinished`), and before any client learns that it is full
  (`AckedCompleteIsFinished`). Two kinds of upload are never owed it: those
  created empty, and those whose length a PATCH declares to be the offset they
  have. Both can stay unfinished for ever, see findings 4 and 7.
* **The registry** keyed by id alone is sound, because the lock allows one
  writer (`StopCallbackOwned`); a stopped upload is never answered as a success
  (`SuccessMeansLive`).
* **The handlers implement the promise** (`KeepsPromise`), crashes and failing
  stores included.
* **Every request is answered** when the channels are drained and clients send
  or disconnect (`RequestsAnswered`).
* **A final upload is what it is announced to be** although no part is locked:
  a complete upload is never written again (`PatchFile` returns early,
  `AcceptsPatch`), so what was checked is what is joined; a part that was
  deleted meanwhile fails the join before anything is announced
  (`FinalIsConcatenation`, `FinalIsFilled`), and what stays behind holds only a
  prefix (`FinalHoldsOnlyParts`). Without the early return, or without the check
  of `sizeOfUploads`, the mutants break it.
* **Progress messages** of a request increase and are true, also those sent after
  the next request has started; the last one is final unless the context was
  cancelled while the request was still writing, which a stop and a release
  request do. Every goroutine ends (`GoroutineEnds`).
* **URLs come back**: for base paths with and without slashes at the ends the
  `Location` names the same upload and is served, unless `Register` is asked for
  an id of several segments, which it answers 404 (`LocationServed`); references
  find their parts, also when an id contains the base path
  (`FinalNamesItsParts`), the two routers agree (`RoutersAgree`), and
  `Tus-Extension` tells what the handlers do (`AdvertisedServed`).

`WithinMaxSize` holds for `PostFile` with a length known at creation: that is
proved (`WithinMaxSizeHolds`: no length deferrer, no draft). Run `max_size`
refutes it for a deferred length; for the draft it fails at once, since
`PostFileV2` (`draft.go:130`) never compares the length with `MaxSize`.

Every property of a passing run has a mutant: a definition of the model changed
the way a plausible bug would change the code (the operator
`Definition_Change` before the definition), under which the property fails.

### Fairness

`ServerFairness` says that a handler that can take a step takes it, which is
what the Go scheduler gives a goroutine. Taking a free lock is part of it: with
weak fairness a request that always finds the lock taken again may not get it,
but then the wait is ended by `LockTimeout`. Sends on channels have strong
fairness: the listener is busy now and then, but Go's `select` picks at random
among ready channels and senders to one channel queue, so a sender is not passed
over for ever. The listener calls the closure it has loaded (`FireStop`).
`ClientFairness` says a client goes on sending or its connection breaks; no
code guarantees that: `NetworkTimeout` is never read and a stop does not end a
`Read` that is waiting, so a client that stalls keeps its request and the lock,
and `RequestsAnswered` would fail without the assumption. Nothing is assumed about arrivals, stops or crashes.

In `Progress`, `Fairness` says that reads return and handlers end (the client
assumption again), that timers fire (`GracePeriodEnds`), that the runtime runs
a goroutine whose context is done (`Done`), that a sender is received from
(`Receive`; weak fairness is enough, because the others send only finitely many
different offsets), and that hooks return. No fairness is put on ticks, releases, stops or new requests.
Run `undrained` disables the deadlock check: its handlers really do stop.

### Findings

1. **A stop after the last byte** (`stop_after_last_byte`, `unrouted.go:615`):
   `writeChunk` terminates the upload and then still calls
   `finishUploadIfComplete` with the full offset, so `FinishUpload` and the
   completion event follow the termination.
2. **MaxSize and deferred lengths** (`max_size`, `unrouted.go:568`): the limit
   `MaxSize - offset` is replaced by the `Content-Length`.
3. **A stale offset in POST** (`early_ids`, `unrouted.go:195`): the chunk of a
   POST is written at the offset read before the lock was taken.
4. **Empty uploads** (`empty_upload`, `unrouted.go:573`): a POST of length 0 with
   a chunk content type and no body answers 404 before
   `finishUploadIfComplete`, and later PATCHes return early.
5. **An undrained channel** (`undrained`, `unrouted.go:504`): with the set-up of
   `example/main.go` a DELETE never returns and keeps the lock.
6. **The completion signal on PATCH** (`upload_complete`, `unrouted.go:383`): a
   draft upload of unknown length that is completed by PATCH keeps its length
   open and is never finished; only `PostFileV2` reads `Upload-Complete`.
7. **Declared lengths** (`declared_length`, `unrouted.go:376`): an upload of
   deferred length has n bytes, and a PATCH at offset n says `Upload-Length: n`.
   `DeclareLength` makes the upload complete; then `writeChunk` answers 404,
   because there is no body (573), or 413, because there is one (556), both
   before `finishUploadIfComplete`, and later PATCHes return early (357). It
   needs no fault and no second request, only a store that can defer lengths.

Differences noticed and not checked by a run:

* `config.go:66` describes `NetworkTimeout` as a read deadline; no code uses it
  after `validate`.
* `middleware.go:57-60` ties draft versions to the experimental protocol being
  enabled, but the check accepts them always; `draftVersionCheck`
  (`draft.go:266`) is never called. With the protocol disabled a draft request
  is then served as tus 1.0 without its version header.
* `README.md:259` and `config.go:54` disagree on when the pre-finish hook runs
  (before or after completion); the code calls it after `FinishUpload`. When it
  fails, the client gets an error, the upload is complete, and its completion
  is never announced.
* When `FinishUpload` fails, or the process ends between the last `WriteChunk` and
  `FinishUpload`, the upload is full and not finished, and no later request
  finishes it: `PatchFile` answers a PATCH of a full upload early
  (`unrouted.go:357`). `HEAD` then reports a complete upload whose completion
  was never announced.
* OPTIONS on the URL of an upload reaches no handler under either router
  (`handler.go:48`, `129`), while `middleware.go:10-11` says that `CORSMiddleware`
  "handles preflight OPTIONS requests according to the TUS protocol"; it leaves
  them to what follows (`middleware.go:47`).
* A final upload of total size 0 is announced twice (`unrouted.go:181` and `:200`).
* `ErrUploadNotFinished` is described as "one of the partial uploads is not
  finished" (`errors.go:46`), but `sizeOfUploads` compares offset and size: a part
  may be joined before its own `FinishUpload`, and need not be partial.
* A failed join leaves the final upload in the store, incomplete, and
  `PatchFile` refuses to fill it.
* A release request cancels the holder's context only; the holder goes on
  writing while its progress messages end a grace period later.
* A stop that answers a late message of one request hits the next request of the
  upload.
* `stopFn` merges each hook's answer into the shared `ErrUploadStoppedByServer`
  (`unrouted.go:581`, `errors.go:52`).
* The progress goroutine reads the fiber context (`unrouted.go:664`), which may
  have been recycled by then.
* Post-create, post-finish and post-terminate hooks run in goroutines of their
  own, in no fixed order (`hooks.go:233`).
* `Middleware` takes `/filesX` for upload `X` under the base path `/files`, and
  serves no base path without a leading slash (in the model, whose texts are
  pieces, `/filesX` is one piece and has no route); `Register` serves no id with a
  slash inside; absolute base paths and the base path `/` do not lead back
  through `extractIDFromURL` or the routers.
* `extractIDFromURL` cuts at the first occurrence of the base path
  (`unrouted.go:913-919`). With a base path that begins like the host, as
  `/host/` on `http://host`, that is inside the URL's authority, so a full URL in
  Upload-Concat names a wrong id.
* `MethodOverrideMiddleware` changes the header of the request after Fiber has
  cached the method, so `c.Method()` still says POST.
* The counters of `metrics.go` are never incremented by the handlers.

## Proofs

The theorems hold for every value of the constants that satisfies
`ConstantsAssumption`: any numbers of requests and uploads, any lengths and
limits, all features and channels, all faults unless said otherwise, crashes
included.

**`UploadHandlerProofs`.**

* `TypeCorrect`: `Spec => []TypeOK`. `TypeOK` alone is not inductive. A handler
  indexes the store with the id in its request, so the request of a busy slot
  must be a real one (`Serving`); it adds what it has read to its offset, so
  the sum must stay in range while it writes (`ReadBounded`). `TypeInv` is the
  conjunction of the three, and has one lemma per action.
* `ExclusiveAccessHolds` and `StopCallbackOwnedHolds` follow from `LockInv`: a
  request that relies on the lock holds it (`OwnsLock`), a reader is open only
  in the stages of `writeChunk` (`ReaderOpen`), and the registry names the open
  reader (`StopCallbackOwned` itself). They need each other: removing an entry
  by id is harmless because nobody else has a reader open on that id, which is
  because an open reader means owning the lock. Most actions only move a request
  between stages, which `MoveLock` settles once; `Acquire`, `BeginChunk`,
  `EndChunk`, `Respond` and `Crash` have their own lemmas.

**`UploadDataProofs`**, for `"earlyIds" \notin Faults` (run `early_ids` shows that
the assumption is needed). `SnapshotCurrentHolds`, `OffsetWithinSizeHolds` and
`AckedNeverLostHolds` follow from `DataInv`. Its centre is `Snapshot`: a request
in a stage that will use its copy of the `FileInfo` (`Holds`) has a current
one. This is kept because a step that changes the store is made by a request
that has the lock, and then no other request holds a copy it will use
(`NobodyElseHolds`): it would have the lock too, or be a POST, and a POST is
alone on its upload until it answers (`Alone`). The same argument gives the
action property `AppendsOnlyHolds`: a write, and what a restart leaves of one,
starts at the stored offset. `WriteFits` carries the check
made before a write to its end, and `Behind` says that an answer never names an
offset beyond the stored one. Steps that change an upload share one lemma,
`UpdateData`.

**`UploadFinishProofs`**, under the same assumption. `CompletionOnceHolds` and
`FinishedMeansCompleteHolds` follow from `FinishInv`: each request is `Ready`,
that is, in every stage from which `FinishUpload` can be reached the upload was
not finished before, and the copy the decision is taken on is current. The
`FileInfo` of a complete upload turns a PATCH away, and a deferred length means
not finished: this is how both ways into `writeChunk` establish it.
`LengthDeclaredOnceHolds` is an action property: only two steps set a length,
and both are taken while it is deferred in the store.
`NoCompletionAfterTerminationHolds` assumes besides that no stop hook is
configured: then nobody can terminate an upload between its last byte and
`FinishUpload`. With a hook it is false, see the first finding.

**`UploadAnswerProofs`**, under the same assumption.

* `SuccessMeansLiveHolds` follows from `AnswerInv`: whoever is on the way to
  answering a success has the lock of an upload that exists, or is the POST that
  created it (`Unscathed`). A DELETE needs the same lock, and the one step that
  terminates under the lock of its own request, a stop, marks the answer an
  error first.
* `WithinMaxSizeHolds` assumes besides that lengths are known at creation (no
  length deferrer, no draft POST; run `max_size` shows why). `SizeInv` says that
  every length is then known and within the limit from creation on;
  `OffsetWithinSize` does the rest.
* `AckedCompleteIsFinishedHolds` assumes besides that neither store nor process
  fails, and nothing about features, protocols, hooks or callbacks. It speaks of
  uploads from the moment they are owed their completion (`Owed`). What stays
  true from then on is `Owing`: the length is known, or a POST is about to
  declare it (`Declaring`); if the upload is full it is finished, or a request is
  about to finish it (`Finishing`), as the end of a write does also when the
  body has broken or a stop has come; and neither the answers given nor those on
  their way (`Told`) name the full length before that. `OwedIsOwing` is the start of
  it, each action has a lemma that keeps it, and two facts carry these lemmas:
  no request finds the length of such an upload open, so that no PATCH can
  declare it and then be refused (`LengthKnown`); and a request that has the lock
  of a full one finds it finished, unless it is the one that finishes it
  (`SealedIsFinished`). A store failure or a restart between the last byte and
  `FinishUpload` leaves a full upload which nobody finishes, see the differences
  above.

**`UploadRefinementProofs`**. `KeepsPromiseHolds`: without stop hooks and early
ids every step of the handlers is, for every upload, a step of `ResumableUpload`
or none. Besides `TypeInv`, `LockInv`, `DataInv` and `FinishInv` it needs that
the store keeps nothing of an upload that does not exist (`Blank`), that no stop
is ever under way (`StopFree`), and that a request about to finish an upload
finds it live (`FinishLive`).

**`ConcatenationProofs`**, without assumptions beyond those on the constants,
for lists of any length. `FinalIsConcatenationHolds`,
`FinalHoldsOnlyPartsHolds` and `AnnouncedOnceHolds` follow from `ConcatInv`. The
argument that replaces the missing locks is `Settled`: a part that
`sizeOfUploads` has accepted is complete, and a complete upload is never written
again. The rest says what a POST has done at each of its stages: the parts it
has seen are settled, the final upload it fills is known to nobody else
(`Alone`) and holds exactly the parts it has copied.

Part 3 of the module adds the arithmetic. The size of a final upload is
a sum over its list, which no prover here can do induction on; `SumsUp` states
instead that there is a function on the naturals that starts with 0 and grows by
the size of one part at a time, up to `n`. A step of the loop extends that
function by one point, and since the parts are settled it stays the sum while
others work on the store. `SumInv` relates the counted size, the copied bytes and the announced
file in this way, and gives `FinalIsFilledHolds` and `FinalWithinMaxSizeHolds`.

**`ProgressProofs`**, for any number of requests and any body length.
`MessagesIncreaseHolds`, `MessagesTrueHolds` and `LastMessageIsFinalHolds` follow
from `ProgressInv`: the stages of handler, lock and goroutine fit together
(`Stages`), what the goroutine remembers is what the listener got and not ahead
of the reader (`Remembered`), and a context that was not cancelled early ends
after the handler has returned, when the reader has come to rest (`Settled`).
The properties alone are not inductive: they say nothing of `prev`, against
which the next message is compared.

**`ProtocolProofs`**, for base paths, ids and lists of any length, all switches
and both routers. Deployments are assumed to be `Mounted`: the base path is
relative, has something between its slashes, ends in at most one of them, does
not begin like the host, and starts with a slash if `Middleware` is to serve it.
Outside of that URLs do not come back in general, see the differences above. TLC
evaluates the assumption on the instance of `protocol`. Ids may have several
segments; `OneSegment`, which is all that Fiber's `:id` matches, stands in the
properties, not among the assumptions.

* The argument is about texts. Whatever slashes the configuration has, both copies
  of the base path are one text, `Root`, with and without a slash behind it
  (`BaseShape`, `Paths`), so a `Location` is the server, `Root`, a slash and the id.
  Cutting a path after its prefix gives back what was appended (`AfterPrefix`),
  which is what both routers do (`RegisterServes`, `MiddlewareServes`), whether a
  slash follows or not. `extractIDFromURL` looks for the first occurrence of the
  base path; `Cut` shows that there is none in what precedes it, and
  `ReferenceNames` that the id comes out, also if the id contains the base path.
* `LocationServedHolds`, `FinalNamesItsPartsHolds` and `AdvertisedServedHolds`
  follow from the invariant `TypeInv /\ Outcome`. `Outcome`
  says what the last request has left behind; for `AdvertisedServed` it says that
  an extension is granted exactly if it is in `Extensions`, whatever the client
  was told, and `TypeInv` that it can have been told nothing else.
  `RoutersAgreeHolds` needs the types and the lemmas on the routers only.

`TypeInv`, `LockInv`, `DataInv`, `FinishInv`, `AnswerInv` and `Untold` were also
model-checked on the instance of `core`, `ConcatInv` on that of `concat`, `ProgressInv` on that of `progress`,
`TypeInv` and `Outcome` of `ProtocolProofs` on that of `protocol`.

**Only model-checked.** Every invariant and safety property of the passing runs is
proved. What TLC alone shows:

* liveness: `RequestsAnswered`, `FilledIsFinished`, `GoroutineEnds`, which rest on
  fairness and are out of the prover's reach;
* the counterexamples of the findings.

## Not modelled

* Contents and formatting of answers, metadata and its encoding, number
  formats, content types: data that no property here tells apart. The limits of
  `int64` are out of reach of HTTP requests, whose Content-Length fasthttp
  limits to 18 digits; draft lengths below zero are accepted by
  `getDraftUploadLength` and left to the store.
* The asynchronous invocation of post-hooks and the hook handlers (user code).
* Metrics: counters nobody reads. Errors and adapters: data without state.
* The method override, see the differences above; `X-Forwarded-*`, which
  `RespectForwardedHeaders` names and no code reads.
* Data store internals, Fiber and fasthttp, except for what is marked external.

## Plan

Done, in this order: the handlers with lock, store, reader, stop registry and
channels; their invariants and proofs; the promise they implement, checked and
proved; concatenation without locks, checked and proved; progress and contexts,
checked and proved; base paths, routers, middleware and references, checked and
proved.

Left, in the order of what it would add:

1. post-hook goroutines as actors, if the code or its documents come to promise
   an order of their invocations;
2. the method override, if a router comes to see it.
