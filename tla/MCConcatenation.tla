-------------------------- MODULE MCConcatenation --------------------------
(* Concatenation for TLC: uploads and requests are interchangeable. *)
EXTENDS Concatenation, TLC

CONSTANTS u1, u2, u3, r1, r2

Symmetry == Permutations(Upload) \cup Permutations(Req)
=============================================================================
