----------------------------- MODULE FencedJobs -----------------------------
(***************************************************************************)
(* What the dispatcher promises about one set of jobs, without leases,     *)
(* handlers, messages or workers: every dispatch gets a token larger than  *)
(* any before it, and a job succeeds at most once, with the newest token   *)
(* issued for it, while it is dispatched.                                  *)
(*                                                                         *)
(* Cancellation is the weak point of the promise the code keeps: it can    *)
(* overtake any state that the job reached after it was read as pending.   *)
(***************************************************************************)
EXTENDS Naturals

CONSTANT Jobs

VARIABLES
  status,    \* the job's state
  last,      \* last token taken from the sequence
  issued,    \* the tokens issued for a job
  accepted   \* the token of its accepted commit, 0 if there is none

vars == <<status, last, issued, accepted>>

Init ==
  /\ status = [j \in Jobs |-> "none"]
  /\ last = 0
  /\ issued = [j \in Jobs |-> {}]
  /\ accepted = [j \in Jobs |-> 0]

Create(j) ==
  /\ status[j] = "none"
  /\ status' = [status EXCEPT ![j] = "pending"]
  /\ UNCHANGED <<last, issued, accepted>>

Grant(j) ==
  /\ status[j] = "pending"
  /\ status' = [status EXCEPT ![j] = "dispatched"]
  /\ last' = last + 1
  /\ issued' = [issued EXCEPT ![j] = @ \cup {last + 1}]
  /\ UNCHANGED accepted

\* A token may be lost, never handed out twice.
SkipToken ==
  /\ last' = last + 1
  /\ UNCHANGED <<status, issued, accepted>>

Accept(j) ==
  /\ status[j] = "dispatched"
  /\ accepted[j] = 0
  /\ status' = [status EXCEPT ![j] = "succeeded"]
  /\ \E t \in issued[j] :
       /\ \A u \in issued[j] : u <= t
       /\ accepted' = [accepted EXCEPT ![j] = t]
  /\ UNCHANGED <<last, issued>>

Requeue(J) ==
  /\ \A j \in J : status[j] = "dispatched"
  /\ status' = [j \in Jobs |-> IF j \in J THEN "pending" ELSE status[j]]
  /\ UNCHANGED <<last, issued, accepted>>

Fail(j) ==
  /\ status[j] = "dispatched"
  /\ status' = [status EXCEPT ![j] = "failed"]
  /\ UNCHANGED <<last, issued, accepted>>

Cancel(j) ==
  /\ status[j] # "none"
  /\ status' = [status EXCEPT ![j] = "cancelled"]
  /\ UNCHANGED <<last, issued, accepted>>

Next ==
  \/ \E j \in Jobs : Create(j) \/ Grant(j) \/ Accept(j) \/ Fail(j) \/ Cancel(j)
  \/ \E J \in SUBSET Jobs : Requeue(J)
  \/ SkipToken

Spec == Init /\ [][Next]_vars
=============================================================================
