-------------------------- MODULE ResumableUpload --------------------------
(***************************************************************************)
(* What tusdfiber promises about every upload, whoever serves it, in the   *)
(* terms its clients and hooks see: an upload is created, receives bytes   *)
(* up to a length that is fixed once, is completed once when it has all of *)
(* them, and may be terminated.  A restart of the server is no event here: *)
(* at most it makes bytes appear that nobody was told of yet.              *)
(***************************************************************************)
EXTENDS Integers

CONSTANTS
    Upload,     \* upload ids
    MaxLen      \* bound: the largest length

VARIABLE upload \* upload[u]: what is known of u

Unknown == -1   \* the length of an upload that has not declared it

Promise == [phase : {"none", "open", "gone"}, length : Unknown .. MaxLen,
            received : 0 .. MaxLen, completions : Nat]

NoPromise == [phase |-> "none", length |-> Unknown, received |-> 0, completions |-> 0]

Init == upload = [u \in Upload |-> NoPromise]

(* README.md, "Create upload": with a length, or without one for now.        *)
Create(u) ==
    /\ upload[u].phase = "none"
    /\ \E len \in Unknown .. MaxLen :
         upload'[u] = [phase |-> "open", length |-> len,
                       received |-> 0, completions |-> 0]

(* The length is declared once, and never below what has been received.      *)
Declare(u) ==
    /\ upload[u].phase = "open" /\ upload[u].length = Unknown
    /\ \E len \in upload[u].received .. MaxLen :
         upload'[u] = [upload[u] EXCEPT !.length = len]

(* "Upload chunk": bytes are only added, within the length.                  *)
Append(u) ==
    /\ upload[u].phase = "open" /\ upload[u].completions = 0
    /\ \E n \in upload[u].received .. MaxLen :
         /\ upload[u].length # Unknown => n <= upload[u].length
         /\ upload'[u] = [upload[u] EXCEPT !.received = n]

(* HookPostFinish, "after upload completion".                                *)
Complete(u) ==
    /\ upload[u].phase = "open" /\ upload[u].completions = 0
    /\ upload[u].received = upload[u].length
    /\ upload'[u] = [upload[u] EXCEPT !.completions = 1]

(* HookPostTerminate, "after upload termination".                            *)
Terminate(u) ==
    /\ upload[u].phase = "open"
    /\ upload'[u] = [phase |-> "gone", length |-> Unknown,
                     received |-> 0, completions |-> upload[u].completions]

Step(u) == Create(u) \/ Declare(u) \/ Append(u) \/ Complete(u) \/ Terminate(u)

(* Several uploads may take a step at once: a restart stores what each of    *)
(* them was receiving.                                                       *)
Next ==
    /\ upload' \in [Upload -> Promise]
    /\ \A u \in Upload : Step(u) \/ upload'[u] = upload[u]

Spec == Init /\ [][Next]_upload
=============================================================================
