---------------------------- MODULE MCWorkerHub ----------------------------
(* A small instance of WorkerHub for TLC. *)
EXTENDS WorkerHub

CONSTANTS w1, c1, c2

\* Two connections of one worker.
Reconnects == [c \in {c1, c2} |-> w1]
=============================================================================
