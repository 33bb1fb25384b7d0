----------------------------- MODULE MCProtocol -----------------------------
(* Deployments and ids for TLC. *)
EXTENDS Protocol

Deployments ==
    {[router |-> "register", base |-> <<"/", "files">>],
     [router |-> "register", base |-> <<"files", "/">>],
     [router |-> "middleware", base |-> <<"/", "files", "/">>],
     [router |-> "middleware", base |-> <<"/", "api", "/", "files">>]}

(* One id looks like the base path, one has the whole of it inside. *)
SomeIds == {<<"files">>, <<"a", "/", "files", "/", "b">>}

(* What the theorems of ProtocolProofs assume holds of this instance.        *)
ASSUME InstanceAssumption == Mounted
=============================================================================
