---------------------------- MODULE MCLoopRunner ----------------------------
(* A small instance of LoopRunner for TLC. *)
EXTENDS LoopRunner, TLC

CONSTANTS a, b, bad

\* Only the first message may come back early.
MCMaxOverdue == a :> 1 @@ b :> 0 @@ bad :> 0

=============================================================================
