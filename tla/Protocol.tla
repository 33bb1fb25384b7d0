------------------------------ MODULE Protocol ------------------------------
(***************************************************************************)
(* What a client sees of a deployment: the base path and its two copies    *)
(* (config.go, handler.go), the middleware stack (middleware.go), the two  *)
(* routers (handler.go), and the ids, URLs and extension names that        *)
(* unrouted.go and draft.go write into answers and read from requests.     *)
(*                                                                         *)
(* Text is a sequence of pieces: "/" and what stands between the slashes.  *)
(* What the handlers do to the bytes of an upload is in UploadHandler.     *)
(***************************************************************************)
EXTENDS Naturals, Sequences, SequencesExt

CONSTANTS
    Setups,     \* deployments: [router, base], base as in Config.BasePath
    Flags,      \* switches of Config and StoreComposer that vary, see Flag
    Ids,        \* ids that uploads get, as text
    MaxRefs     \* bound: the longest list of an Upload-Concat header

Flag == {"disableDownload", "disableTermination",
         "disableConcatenation",                     \* fields of Config
         "terminater", "concater", "lengthDeferrer"} \* what the store can do

(* validateUploadID; ids that stores choose have no slash at all.            *)
ValidId(id) == Head(id) # "/" /\ Last(id) # "/"

ASSUME ConstantsAssumption ==
    /\ \A s \in Setups : s.router \in {"register", "middleware"} /\ s.base \in Seq(STRING)
    /\ Flags \subseteq Flag
    /\ Ids \subseteq Seq(STRING) \ {<<>>} /\ \A id \in Ids : ValidId(id)
    /\ MaxRefs \in Nat

VARIABLES
    config,     \* the deployment; it never changes
    uploads,    \* uploads[id]: whether id is in the store, and its PartialUploads
    advertised, \* the extensions the client was told, Unasked before
    last        \* the request served last

vars == <<config, uploads, advertised, last>>

Slash == <<"/">>
Server == <<"http:", "/", "/", "host">>

Extension == {"creation", "creation-with-upload", "termination",
              "concatenation", "creation-defer-length"}
Unasked == {"unasked"}
None == "none"
NoId == <<>>

On(flag) == flag \in config.flags

(* target: the upload the client means; handler, id: what the router made of *)
(* the request; extension, granted: the extension it relies on, if it got it *)
Nothing == [method |-> "HEAD", target |-> NoId, handler |-> None, id |-> NoId,
            extension |-> None, granted |-> FALSE, meant |-> <<>>]

-----------------------------------------------------------------------------
(* Configuration and URLs. *)

IsAbs(base) == base # <<>> /\ Head(base) = "http:"

(* Mutant: the trailing slash is not added. *)
WithTrailingSlash_Not(base) == base

WithTrailingSlash(base) ==
    IF base = <<>> \/ Last(base) = "/" THEN base ELSE base \o Slash

WithLeadingSlash(base) ==
    IF base # <<>> /\ Head(base) = "/" THEN base ELSE Slash \o base

(* Config.validate, on the copy of UnroutedHandler; Handler keeps the other. *)
Normalised(base) ==
    LET b == WithTrailingSlash(base)
    IN IF IsAbs(base) \/ b = <<>> THEN b ELSE WithLeadingSlash(b)

(* absFileURL: the Location of an upload.                                    *)
Location(id) ==
    (IF IsAbs(config.base) THEN <<>> ELSE Server) \o Normalised(config.base) \o id

(* Mutant: what Config disables is still announced. *)
Extensions_NotDisabled ==
    {"creation", "creation-with-upload"}
    \cup {e \in {"termination"} : On("terminater")}
    \cup {e \in {"concatenation"} : On("concater")}
    \cup {e \in {"creation-defer-length"} : On("lengthDeferrer")}

(* Tus-Extension, put together by NewUnroutedHandler.                        *)
Extensions ==
    {"creation", "creation-with-upload"}
    \cup {e \in {"termination"} : On("terminater") /\ ~On("disableTermination")}
    \cup {e \in {"concatenation"} : On("concater") /\ ~On("disableConcatenation")}
    \cup {e \in {"creation-defer-length"} : On("lengthDeferrer")}

(* TrimPrefix and TrimSuffix of one slash, as Handler.Middleware does it.    *)
Trimmed(text) ==
    IF text = <<>> THEN text
    ELSE LET t == IF Head(text) = "/" THEN Tail(text) ELSE text
         IN IF t # <<>> /\ Last(t) = "/" THEN Front(t) ELSE t

(* Mutant: a reference has to begin with the base path. *)
ExtractID_OfPath(url) ==
    LET base == Normalised(config.base)
    IN IF IsPrefix(base, url) THEN SubSeq(url, Len(base) + 1, Len(url)) ELSE NoId

(* Deployments whose URLs come back: a relative base path that has something *)
(* between its slashes, ends in at most one, does not begin like the host    *)
(* (extractIDFromURL cuts there) and starts with a slash for Middleware.     *)
Mounted ==
    \A s \in Setups :
        LET core == Trimmed(s.base)
        IN /\ ~IsAbs(s.base) /\ core # <<>>
           /\ Head(core) \notin {"/", "host"} /\ Last(core) # "/"
           /\ s.router = "middleware" => Head(s.base) = "/"

(* strings.Trim(text, "/")                                                   *)
TrimmedOfSlashes(text) ==
    LET others == {i \in DOMAIN text : text[i] # "/"}
    IN IF others = {} THEN <<>> ELSE SubSeq(text, Min(others), Max(others))

(* extractIDFromURL: what follows the first occurrence of the base path.     *)
ExtractID(url) ==
    LET base == Normalised(config.base)
        Here == {i \in 1 .. Len(url) : IsPrefix(base, SubSeq(url, i, Len(url)))}
    IN IF Here = {} THEN NoId
       ELSE LET first == CHOOSE i \in Here : \A j \in Here : i <= j
            IN TrimmedOfSlashes(SubSeq(url, first + Len(base), Len(url)))

(* parseConcat of a final upload; the list of a HEAD answer is its inverse.  *)
ParseConcat(refs) == [i \in DOMAIN refs |-> ExtractID(refs[i])]
ConcatHeader(parts) == [i \in DOMAIN parts |-> Location(parts[i])]

-----------------------------------------------------------------------------
(* From a request to a handler. *)

(* A request without Origin passes like one of an allowed origin.            *)
Methods == {"POST", "HEAD", "PATCH", "GET", "DELETE", "OPTIONS"}
Request == [method : Methods, version : {"tus", "draft", None},
            origin : {"allowed", "denied"}]

(* TusResumableMiddleware; a draft version will do, also when the draft      *)
(* protocol is switched off.                                                 *)
VersionGiven(q) == q.method \in {"POST", "PATCH", "DELETE"} => q.version # None

(* CORSMiddleware turns an origin away that is not allowed, and leaves the   *)
(* answer, a preflight's too, to what follows.                               *)
Passes(q) == q.origin # "denied" /\ VersionGiven(q)

(* Methods that get past the middleware; nothing after it depends here on    *)
(* the version or the origin.                                                *)
Served == {q.method : q \in {r \in Request : Passes(r)}}

BaseHandler(method) ==
    CASE method = "POST" -> "PostFile"
      [] method = "OPTIONS" -> "Options"
      [] OTHER -> None

ResourceHandler(method) ==
    CASE method = "HEAD" -> "HeadFile"
      [] method = "PATCH" -> "PatchFile"
      [] method = "GET" /\ ~On("disableDownload") -> "GetFile"
      [] method = "DELETE" /\ ~On("disableTermination") /\ On("terminater") -> "DelFile"
      [] OTHER -> None

NoRoute == [handler |-> None, id |-> NoId]
BaseRoute(method) == [handler |-> BaseHandler(method), id |-> NoId]
ResourceRoute(method, id) == [handler |-> ResourceHandler(method), id |-> id]

TrimmedBase == LET bp == config.base
               IN IF Len(bp) > 1 /\ Last(bp) = "/" THEN Front(bp) ELSE bp

(* Fiber: a pattern starts with a slash, a slash at the end of a path is     *)
(* ignored, a parameter is one segment.                                      *)
FiberPath(path) == IF Len(path) > 1 /\ Last(path) = "/" THEN Front(path) ELSE path
FiberParam(pattern, path) ==
    LET p == FiberPath(path)
        rest == SubSeq(p, Len(pattern) + 1, Len(p))
    IN IF IsPrefix(pattern, p) /\ ~Contains(rest, "/") THEN rest ELSE NoId

(* Handler.Register *)
RegisterRoute(method, path) ==
    LET id == FiberParam(WithLeadingSlash(TrimmedBase \o Slash), path)
    IN IF FiberPath(path) = WithLeadingSlash(TrimmedBase) THEN BaseRoute(method)
       ELSE IF id # NoId THEN ResourceRoute(method, id)
       ELSE NoRoute

(* Mutant: the slash after the id is kept. *)
MiddlewareRoute_KeepsSlash(method, path) ==
    LET rest == SubSeq(path, Len(TrimmedBase) + 1, Len(path))
    IN IF ~IsPrefix(TrimmedBase, path) THEN NoRoute
       ELSE IF rest \in {<<>>, Slash} THEN BaseRoute(method)
       ELSE ResourceRoute(method, IF Head(rest) = "/" THEN Tail(rest) ELSE rest)

(* Handler.Middleware.  The prefix is compared piece by piece: the code      *)
(* compares text, and takes /filesX, which has no route here, for upload X.  *)
MiddlewareRoute(method, path) ==
    LET rest == SubSeq(path, Len(TrimmedBase) + 1, Len(path))
    IN IF ~IsPrefix(TrimmedBase, path) THEN NoRoute
       ELSE IF rest \in {<<>>, Slash} THEN BaseRoute(method)
       ELSE IF Trimmed(rest) # NoId THEN ResourceRoute(method, Trimmed(rest))
       ELSE NoRoute

(* A request to url; other hosts are not this server.                        *)
Route(method, url) ==
    LET path == SubSeq(url, Len(Server) + 1, Len(url))
    IN IF ~IsPrefix(Server \o Slash, url) THEN NoRoute
       ELSE IF config.router = "register" THEN RegisterRoute(method, path)
       ELSE MiddlewareRoute(method, path)

-----------------------------------------------------------------------------
Absent == [state |-> "free", parts |-> <<>>]

(* NewHandler, mounted with Register or Middleware.                          *)
Init ==
    /\ config \in [router : {"register", "middleware"}, base : {s.base : s \in Setups},
                   flags : SUBSET Flags]
    /\ [router |-> config.router, base |-> config.base] \in Setups
    /\ uploads = [id \in Ids |-> Absent]
    /\ advertised = Unasked
    /\ last = Nothing

(* The creation URL, with or without the slash.                              *)
Endpoints == {Server \o Normalised(config.base),
              Server \o Front(Normalised(config.base))}

TurnedAway ==
    /\ \E q \in Request :
         /\ ~Passes(q)
         /\ last' = [Nothing EXCEPT !.method = q.method]
    /\ UNCHANGED <<config, uploads, advertised>>

Discover ==
    /\ "OPTIONS" \in Served
    /\ \E url \in Endpoints :
         LET handler == Route("OPTIONS", url).handler
         IN /\ last' = [Nothing EXCEPT !.method = "OPTIONS", !.handler = handler]
            /\ advertised' = IF handler = "Options" THEN Extensions ELSE advertised
    /\ UNCHANGED <<config, uploads>>

(* validateNewUploadLength, and its counterpart in PostFileV2.               *)
AcceptsDeferred == On("lengthDeferrer")

(* PostFile or PostFileV2 of an upload of its own, with or without a length. *)
Create ==
    /\ "POST" \in Served
    /\ \E url \in Endpoints, deferred \in BOOLEAN, id \in Ids :
         LET handler == Route("POST", url).handler
             served == handler = "PostFile" /\ (deferred => AcceptsDeferred)
         IN /\ uploads[id].state = "free"
            /\ uploads' = IF served THEN [uploads EXCEPT ![id].state = "live"] ELSE uploads
            /\ last' = [Nothing EXCEPT !.method = "POST", !.handler = handler,
                          !.extension = IF deferred THEN "creation-defer-length" ELSE None,
                          !.granted = served]
    /\ UNCHANGED <<config, advertised>>

(* PostFile with Upload-Concat: final.  Without a Concater the header is not *)
(* read, and the length it lacks is missed.  A reference is the Location of  *)
(* a part or its path.                                                       *)
CreateFinal ==
    /\ "POST" \in Served
    /\ \E n \in 1 .. MaxRefs, id \in Ids :
       \E meant \in [1 .. n -> {u \in Ids : uploads[u].state = "live"}], short \in BOOLEAN :
         LET Reference(u) == IF short THEN Normalised(config.base) \o u ELSE Location(u)
             parts == ParseConcat([i \in 1 .. n |-> Reference(meant[i])])
             handler == Route("POST", Server \o Normalised(config.base)).handler
             served == /\ handler = "PostFile"
                       /\ On("concater") /\ ~On("disableConcatenation")
                       /\ \A i \in 1 .. n : parts[i] \in Ids /\ uploads[parts[i]].state = "live"
         IN /\ uploads[id].state = "free"
            /\ uploads' = IF served
                          THEN [uploads EXCEPT ![id] = [state |-> "live", parts |-> parts]]
                          ELSE uploads
            /\ last' = [Nothing EXCEPT !.method = "POST", !.handler = handler,
                          !.id = IF served THEN id ELSE NoId,
                          !.extension = "concatenation", !.granted = served,
                          !.meant = meant]
    /\ UNCHANGED <<config, advertised>>

(* A request to the Location a POST has answered with.  DelFile terminates.  *)
Access ==
    /\ \E method \in Served \ {"POST"}, target \in Ids, slash \in {<<>>, Slash} :
         LET route == Route(method, Location(target) \o slash)
             deleted == /\ route.handler = "DelFile" /\ route.id \in Ids
                        /\ uploads[route.id].state = "live"
         IN /\ uploads[target].state # "free"
            /\ uploads' = IF deleted THEN [uploads EXCEPT ![route.id].state = "gone"]
                          ELSE uploads
            /\ last' = [Nothing EXCEPT !.method = method, !.target = target,
                          !.handler = route.handler, !.id = route.id,
                          !.extension = IF method = "DELETE" THEN "termination" ELSE None,
                          !.granted = route.handler = "DelFile"]
    /\ UNCHANGED <<config, advertised>>

Next == TurnedAway \/ Discover \/ Create \/ CreateFinal \/ Access

Spec == Init /\ [][Next]_vars

-----------------------------------------------------------------------------
(* Properties. *)

(* Type invariant: the store keeps ids, the client remembers an answer.      *)
TypeOK ==
    /\ [router |-> config.router, base |-> config.base] \in Setups
    /\ config.flags \subseteq Flags
    /\ \A id \in Ids : /\ uploads[id].state \in {"free", "live", "gone"}
                       /\ \A i \in DOMAIN uploads[id].parts : uploads[id].parts[i] \in Ids
    /\ advertised \in (SUBSET Extension) \cup {Unasked}
    /\ last.method \in Methods /\ last.target \in Ids \cup {NoId} /\ last.id \in Ids \cup {NoId}

(* Fiber gives Register ids of one segment only.                             *)
OneSegment(id) == ~Contains(id, "/")
Routable(id) == config.router = "middleware" \/ OneSegment(id)

(* The Location that a POST answers with, built from the normalised base     *)
(* path, never leads through the router, which uses the base path as it was  *)
(* configured, to another upload, and it leads to the handlers of its own    *)
(* unless the id has several segments under Register.                        *)
LocationServed ==
    last.target # NoId =>
        /\ last.handler # None => last.id = last.target
        /\ last.method \in {"HEAD", "PATCH"} => (last.handler # None <=> Routable(last.target))
        /\ last.method = "GET" =>
             (last.handler # None <=> Routable(last.target) /\ ~On("disableDownload"))

(* A final upload is made of the uploads whose Locations the client listed,  *)
(* and a client that is shown the list again understands the same.           *)
FinalNamesItsParts ==
    /\ last.extension = "concatenation" /\ last.granted =>
         uploads[last.id].parts = last.meant
    /\ \A id \in Ids :
         ParseConcat(ConcatHeader(uploads[id].parts)) = uploads[id].parts

(* What Tus-Extension announces is what the handlers do, although neither    *)
(* the routes nor the handlers ask Extensions.                               *)
AdvertisedServed ==
    advertised # Unasked /\ last.extension # None
        /\ (last.target = NoId \/ Routable(last.target)) =>
    (last.granted <=> last.extension \in advertised)

(* Register and Middleware send a request to the same handler, for a base    *)
(* path that starts with a slash (Middleware serves no other) and paths that *)
(* go on after it with a slash (Middleware takes /filesX for upload X) and   *)
(* an id of one segment.                                                     *)
RoutersAgree ==
    Head(config.base) = "/" /\ (last.target # NoId => OneSegment(last.target)) =>
        LET path == TrimmedBase \o
                    (IF last.target = NoId THEN <<>> ELSE Slash \o last.target)
        IN \A p \in {path, path \o Slash} :
             RegisterRoute(last.method, p) = MiddlewareRoute(last.method, p)
=============================================================================
