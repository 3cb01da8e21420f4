------------------------ MODULE MCSessionScheduler ------------------------
(* Small instances of SessionScheduler for TLC. *)
EXTENDS SessionScheduler, TLC

\* Events 1 and 2 belong to one conversation, event 3 to another.
TwoThreads == [e \in Events |-> IF e = 3 THEN "t2" ELSE "t1"]

\* Every event belongs to the same conversation.
OneThread == [e \in Events |-> "t1"]

=============================================================================
