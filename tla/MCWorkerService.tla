-------------------------- MODULE MCWorkerService --------------------------
(* WorkerService with a record of the executions that were superseded. *)
EXTENDS WorkerService

CONSTANT j1

VARIABLE superseded  \* executions under way when a newer dispatch arrived

\* Executions whose job is dispatched again, by the message taken in this step.
NowSuperseded ==
  {d \in running : \E m \in wire :
     HandleDispatch(m) /\ m.job = d[1] /\ m.token > d[2]}

WatchedInit == Init /\ superseded = {}
WatchedNext == Next /\ superseded' = superseded \cup NowSuperseded
WatchedSpec == WatchedInit /\ [][WatchedNext]_<<vars, superseded>>

\* The comment above WorkerService: "the worker records the token per job and
\* discards the result if the token has been superseded".  An execution that is
\* under way when the worker is sent a newer dispatch of its job does not end in
\* a job.result.
SupersededIsDiscarded == superseded \cap delivered = {}
=============================================================================
