---------------------------- MODULE LeaseService ----------------------------
(***************************************************************************)
(* The contract between the coordinators and one worker: what the worker   *)
(* may rely on (Lease, SkipToken, Succeed, Ackable) and what they rely on  *)
(* of the worker (Deliver, Refuse).  WorkerService keeps it with the       *)
(* coordinators as its environment, and JobLeases keeps it for each of its *)
(* workers.                                                                *)
(***************************************************************************)
EXTENDS Naturals

CONSTANT Jobs

VARIABLES
  seq,        \* last token taken from the sequence
  leases,     \* <<job, token>> of the dispatches leased to this worker
  newest,     \* the newest token of each job, 0 if none
  delivered,  \* those of its leases that it answered by a job.result
  refused,    \* those that it answered by a job.failed
  done        \* jobs that have succeeded

vars == <<seq, leases, newest, delivered, refused, done>>

Init ==
  /\ seq = 0
  /\ leases = {} /\ delivered = {} /\ refused = {}
  /\ newest = [j \in Jobs |-> 0]
  /\ done = {}

\* A job that is not done is leased under the next token: to this worker
\* (mine), or to another.
Lease(j, mine) ==
  /\ j \notin done
  /\ seq' = seq + 1
  /\ newest' = [newest EXCEPT ![j] = seq + 1]
  /\ leases' = IF mine THEN leases \cup {<<j, seq + 1>>} ELSE leases
  /\ UNCHANGED <<delivered, refused, done>>

\* A transaction that is rolled back loses its token.
SkipToken ==
  /\ seq' = seq + 1
  /\ UNCHANGED <<leases, newest, delivered, refused, done>>

\* The result under the newest token is committed, this worker's or another's.
Succeed(j) ==
  /\ newest[j] # 0
  /\ j \notin done
  /\ <<j, newest[j]>> \in leases => <<j, newest[j]>> \in delivered
  /\ done' = done \cup {j}
  /\ UNCHANGED <<seq, leases, newest, delivered, refused>>

\* The jobs for which this worker may get an ack.
Ackable == {d[1] : d \in delivered} \cap done

\* The worker answers a dispatch by results, or by one failure, not by both.
Deliver(d) ==
  /\ d \in leases \ refused
  /\ delivered' = delivered \cup {d}
  /\ UNCHANGED <<seq, leases, newest, refused, done>>

Refuse(d) ==
  /\ d \in leases \ (delivered \cup refused)
  /\ refused' = refused \cup {d}
  /\ UNCHANGED <<seq, leases, newest, delivered, done>>

Next ==
  \/ \E j \in Jobs : Succeed(j) \/ \E mine \in BOOLEAN : Lease(j, mine)
  \/ SkipToken
  \/ \E d \in leases : Deliver(d) \/ Refuse(d)

Spec == Init /\ [][Next]_vars
=============================================================================
