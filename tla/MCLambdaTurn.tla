---------------------------- MODULE MCLambdaTurn ----------------------------
(* A small instance of LambdaTurn for TLC: one turn, of either kind. *)
EXTENDS LambdaTurn

CONSTANTS t1

BothKinds == {"chat", "command"}
=============================================================================
