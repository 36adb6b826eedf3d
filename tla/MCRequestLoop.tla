--------------------------- MODULE MCRequestLoop ---------------------------
(* Instances of RequestLoop for TLC. *)
EXTENDS RequestLoop, TLC

ReqSymmetry == Permutations(Req)
=============================================================================
