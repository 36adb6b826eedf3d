----------------------------- MODULE MCPollLoop -----------------------------
(* Instances of PollLoop for TLC. *)
EXTENDS PollLoop, TLC

ReqSymmetry == Permutations(Req)
=============================================================================
