-------------------------- MODULE MCUploadHandler --------------------------
(* UploadHandler on small instances, for TLC. *)
EXTENDS UploadHandler, TLC

(* All Content-Lengths up to the bound, and fewer where the run is long.     *)
AllLengths == {NoBody, Chunked} \cup 0 .. MaxLen
FewLengths == {NoBody, Chunked}

(* Slots, and ids where there are several, are interchangeable; used by the  *)
(* runs that check no liveness.                                              *)
ReqSymmetry == Permutations(Req)
Symmetry == Permutations(Req) \cup Permutations(Upload)
=============================================================================
