---------------------------- MODULE MCHttpHandle ----------------------------
(* The requests to the HTTP server as TLC runs them. *)
EXTENDS HttpHandle, TLC
IdSymmetry == Permutations(Ids)
=============================================================================
