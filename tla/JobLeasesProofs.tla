-------------------------- MODULE JobLeasesProofs --------------------------
(***************************************************************************)
(* The safety of JobLeases for any sets of jobs, workers, handlers and     *)
(* clients and any bound on the fencing sequence.                          *)
(*                                                                         *)
(* The safety properties are proved together: IInv is their conjunction    *)
(* with two facts that tie the tables to the sequence and to the requests. *)
(* Each action of the model has a lemma that it preserves IInv.            *)
(***************************************************************************)
EXTENDS JobLeases, TLAPS

\* No token on record is ahead of the sequence, so the next one is the largest.
HistoryBounded == \A h \in leaseHistory : h.fence <= fencingSeq

\* A DELETE /jobs/:id under way has read a job that exists.
CancelsExisting == \A c \in Clients : cancelling[c] # NoJob => status[cancelling[c]] # "none"

IInv ==
  /\ TypeOK
  /\ HistoryBounded
  /\ CancelsExisting
  /\ DispatchedIsRecoverable
  /\ LeaseIsNewest
  /\ CommittedOnce
  /\ CommitIsNewest
  /\ OpenHistoryIsCurrent
  /\ AckedIsCommitted
  /\ AuditFollowsStatus

-----------------------------------------------------------------------------
(* Helpers *)

\* The UPDATE that terminates history rows keeps every row's job, worker and
\* token, adds no row, and leaves open only the open rows of other jobs.
LEMMA TerminateHistoryRows ==
  ASSUME leaseHistory \in SUBSET HistoryRow, NEW J
  PROVE  /\ TerminateHistory(J) \in SUBSET HistoryRow
         /\ \A g \in TerminateHistory(J) : \E h \in leaseHistory :
              /\ g.job = h.job /\ g.worker = h.worker /\ g.fence = h.fence
              /\ g.open => h.open /\ h.job \notin J
         /\ \A h \in leaseHistory : \E g \in TerminateHistory(J) :
              g.job = h.job /\ g.worker = h.worker /\ g.fence = h.fence
<1>1. ASSUME NEW h \in leaseHistory
      PROVE  LET g == [h EXCEPT !.open = h.open /\ h.job \notin J]
             IN  /\ g \in HistoryRow
                 /\ g.job = h.job /\ g.worker = h.worker /\ g.fence = h.fence
                 /\ g.open = (h.open /\ h.job \notin J)
  BY <1>1 DEF HistoryRow
<1> QED
  BY <1>1 DEF TerminateHistory

\* A message's fields have the types of the row it answers.
LEMMA AnswerType ==
  ASSUME NEW h \in HistoryRow, NEW type \in {"result", "reject", "failure"}
  PROVE  AnswerTo(h, type) \in Message
BY DEF AnswerTo, HistoryRow, Message

\* A slot that is not idle holds a handler of a message.
LEMMA HandlerMessage ==
  ASSUME TypeOK, NEW s \in Slots, handler[s] # Idle
  PROVE  /\ handler[s] \in Handler
         /\ handler[s].msg \in Message
         /\ handler[s].msg.job \in Jobs
         /\ handler[s].msg.worker \in Workers
         /\ handler[s].msg.token \in Tokens
BY DEF TypeOK, Handler, Message

-----------------------------------------------------------------------------
(* Every action preserves the invariant *)

THEOREM InitIInv == Init => IInv
<1> SUFFICES ASSUME Init PROVE IInv
  OBVIOUS
<1> USE BoundAssumption, NullAssumption
<1>1. TypeOK
  BY DEF Init, TypeOK, Statuses, Tokens
<1> QED
  BY <1>1 DEF Init, IInv, HistoryBounded, CancelsExisting, DispatchedIsRecoverable,
              LeaseIsNewest, CommittedOnce, CommitIsNewest, OpenHistoryIsCurrent,
              AckedIsCommitted, AuditFollowsStatus

LEMMA CreateJobIInv ==
  ASSUME IInv, NEW j \in Jobs, CreateJob(j)
  PROVE  IInv'
<1> USE DEF CreateJob, SetStatus
<1>1. TypeOK'
  BY DEF IInv, TypeOK, Statuses
<1>2. HistoryBounded' /\ LeaseIsNewest' /\ CommitIsNewest' /\ AckedIsCommitted'
  BY DEF IInv, HistoryBounded, LeaseIsNewest, CommitIsNewest, AckedIsCommitted
<1>3. CancelsExisting' /\ DispatchedIsRecoverable' /\ CommittedOnce' /\ AuditFollowsStatus'
  BY DEF IInv, TypeOK, CancelsExisting, DispatchedIsRecoverable, CommittedOnce,
         AuditFollowsStatus
<1>4. OpenHistoryIsCurrent'
  BY DEF IInv, TypeOK, OpenHistoryIsCurrent, HistoryRow
<1> QED
  BY <1>1, <1>2, <1>3, <1>4 DEF IInv

\* The new token is above every token on record, so the new lease is the newest.
LEMMA DispatchIInv ==
  ASSUME IInv, NEW j \in Jobs, NEW w \in Workers, Dispatch(j, w)
  PROVE  IInv'
<1> DEFINE t == fencingSeq + 1
           row == [job |-> j, worker |-> w, fence |-> t, open |-> TRUE]
           new == [worker |-> w, token |-> t, expired |-> FALSE]
<1>1. /\ status[j] = "pending" /\ lease[j] = NoLease
      /\ status' = [status EXCEPT ![j] = "dispatched"]
      /\ audited' = [audited EXCEPT ![j] = "dispatched"]
      /\ lease' = [lease EXCEPT ![j] = new]
      /\ leaseHistory' = leaseHistory \cup {row}
      /\ fencingSeq' = t
      /\ UNCHANGED <<commits, handler, cancelling, answer, acked>>
  BY DEF Dispatch, DispatchWith, SetStatus
<1>2. t \in Tokens /\ t \in 0..MaxToken /\ \A h \in leaseHistory : h.fence < t
  BY BoundAssumption
     DEF IInv, TypeOK, HistoryBounded, HistoryRow, Tokens, Dispatch, DispatchWith
<1>3. row \in HistoryRow /\ row.job = j /\ row.worker = w /\ row.fence = t /\ row.open
  BY <1>2 DEF HistoryRow
<1>4. new \in Lease /\ new.worker = w /\ new.token = t /\ new # NoLease
  <2>1. new \in Lease
    BY <1>2 DEF Lease
  <2> QED
    BY <2>1, NullAssumption
<1>5. leaseHistory \in SUBSET HistoryRow /\ \A h \in leaseHistory : h.fence \in Nat
  BY BoundAssumption DEF IInv, TypeOK, HistoryRow, Tokens
<1>6. t \in Nat
  BY <1>2, BoundAssumption DEF Tokens
<1> HIDE DEF t, row, new
<1>7. TypeOK'
  BY <1>1, <1>2, <1>3, <1>4 DEF IInv, TypeOK, Statuses
<1>8. HistoryBounded'
  BY <1>1, <1>2, <1>3, <1>5, <1>6 DEF HistoryBounded
<1>9. CancelsExisting' /\ DispatchedIsRecoverable' /\ AuditFollowsStatus'
  BY <1>1, <1>4 DEF IInv, TypeOK, CancelsExisting, DispatchedIsRecoverable, AuditFollowsStatus
<1>10. LeaseIsNewest'
  <2> SUFFICES ASSUME NEW k \in Jobs, lease'[k] # NoLease
               PROVE  /\ \E h \in leaseHistory' : /\ h.job = k
                                                  /\ h.worker = lease'[k].worker
                                                  /\ h.fence = lease'[k].token
                      /\ \A h \in leaseHistory' : h.job = k => h.fence <= lease'[k].token
    BY DEF LeaseIsNewest
  <2>1. CASE k = j
    <3>1. lease'[k] = new
      BY <1>1, <2>1 DEF IInv, TypeOK
    <3>2. \A h \in leaseHistory' : h.fence <= t
      BY <1>1, <1>2, <1>3, <1>5, <1>6
    <3> QED
      BY <1>1, <1>3, <1>4, <2>1, <3>1, <3>2
  <2>2. CASE k # j
    BY <1>1, <1>3, <2>2 DEF IInv, TypeOK, LeaseIsNewest
  <2> QED
    BY <2>1, <2>2
<1>11. commits[j] = << >>
  BY <1>1 DEF IInv, TypeOK, CommittedOnce
<1>12. CommittedOnce'
  BY <1>1, <1>11 DEF IInv, TypeOK, CommittedOnce
<1>13. CommitIsNewest'
  BY <1>1, <1>3, <1>11 DEF IInv, CommitIsNewest
<1>14. OpenHistoryIsCurrent'
  <2> SUFFICES ASSUME NEW h \in leaseHistory', h.open
               PROVE  \/ status'[h.job] = "cancelled"
                      \/ /\ status'[h.job] = "dispatched"
                         /\ lease'[h.job] # NoLease
                         /\ lease'[h.job].token = h.fence
    BY DEF OpenHistoryIsCurrent
  <2>1. CASE h = row
    BY <1>1, <1>3, <1>4, <2>1 DEF IInv, TypeOK
  <2>2. CASE h \in leaseHistory
    <3>1. h.job \in Jobs /\ h.job # j
      BY <1>1, <1>5, <2>2 DEF IInv, OpenHistoryIsCurrent, HistoryRow
    <3> QED
      BY <1>1, <2>2, <3>1 DEF IInv, TypeOK, OpenHistoryIsCurrent
  <2> QED
    BY <1>1, <2>1, <2>2
<1>15. AckedIsCommitted'
  BY <1>1 DEF IInv, AckedIsCommitted
<1> QED
  BY <1>7, <1>8, <1>9, <1>10, <1>12, <1>13, <1>14, <1>15 DEF IInv

LEMMA DispatchConflictIInv ==
  ASSUME IInv, NEW j \in Jobs, DispatchConflict(j)
  PROVE  IInv'
<1> USE BoundAssumption DEF DispatchConflict
<1>1. TypeOK'
  BY DEF IInv, TypeOK
<1>2. HistoryBounded'
  BY DEF IInv, TypeOK, HistoryBounded, HistoryRow, Tokens
<1>3. CancelsExisting' /\ DispatchedIsRecoverable' /\ LeaseIsNewest' /\ CommittedOnce'
      /\ CommitIsNewest' /\ OpenHistoryIsCurrent' /\ AckedIsCommitted' /\ AuditFollowsStatus'
  BY DEF IInv, CancelsExisting, DispatchedIsRecoverable, LeaseIsNewest, CommittedOnce,
         CommitIsNewest, OpenHistoryIsCurrent, AckedIsCommitted, AuditFollowsStatus
<1> QED
  BY <1>1, <1>2, <1>3 DEF IInv

\* Expiry and heartbeat change only whether the lease has expired.
LEMMA ExpiryIInv ==
  ASSUME IInv, NEW j \in Jobs, NEW e \in BOOLEAN, lease[j] # NoLease,
         lease' = [lease EXCEPT ![j].expired = e],
         UNCHANGED <<status, fencingSeq, leaseHistory, commits, audited,
                     handler, cancelling, answer, acked>>
  PROVE  IInv'
<1>1. lease[j] \in Lease /\ [lease[j] EXCEPT !.expired = e] \in Lease
  BY DEF IInv, TypeOK, Lease
<1>2. TypeOK'
  BY <1>1 DEF IInv, TypeOK
<1>3. \A k \in Jobs : /\ lease'[k] # NoLease <=> lease[k] # NoLease
                      /\ lease[k] # NoLease => /\ lease'[k].worker = lease[k].worker
                                               /\ lease'[k].token = lease[k].token
  <2> DEFINE new == [lease[j] EXCEPT !.expired = e]
  <2>1. new # NoLease
    BY <1>1, NullAssumption
  <2>2. new.worker = lease[j].worker /\ new.token = lease[j].token
    BY <1>1 DEF Lease
  <2>3. lease'[j] = new /\ \A k \in Jobs \ {j} : lease'[k] = lease[k]
    BY DEF IInv, TypeOK
  <2> HIDE DEF new
  <2> QED
    BY <2>1, <2>2, <2>3
<1>4. /\ HistoryBounded' /\ CancelsExisting' /\ CommittedOnce' /\ CommitIsNewest'
      /\ AckedIsCommitted' /\ AuditFollowsStatus'
  BY DEF IInv, HistoryBounded, CancelsExisting, CommittedOnce, CommitIsNewest,
         AckedIsCommitted, AuditFollowsStatus
<1>5. DispatchedIsRecoverable' /\ LeaseIsNewest'
  BY <1>3 DEF IInv, DispatchedIsRecoverable, LeaseIsNewest
<1>6. OpenHistoryIsCurrent'
  BY <1>3 DEF IInv, TypeOK, OpenHistoryIsCurrent, HistoryRow
<1> QED
  BY <1>2, <1>4, <1>5, <1>6 DEF IInv

LEMMA LeaseExpiresIInv ==
  ASSUME IInv, NEW j \in Jobs, LeaseExpires(j)
  PROVE  IInv'
BY ExpiryIInv DEF LeaseExpires

LEMMA HeartbeatIInv ==
  ASSUME IInv, NEW h \in leaseHistory, Heartbeat(h)
  PROVE  IInv'
<1>1. h.job \in Jobs /\ lease[h.job] # NoLease
  BY DEF IInv, TypeOK, HistoryRow, Heartbeat, HoldsLease
<1> QED
  BY <1>1, ExpiryIInv DEF Heartbeat

\* A step that terminates the history of the jobs in J, ends leases of J only
\* and touches no other job keeps what relates leases and history.
LEMMA TerminatedHistory ==
  ASSUME IInv, NEW J,
         leaseHistory' = TerminateHistory(J),
         fencingSeq' = fencingSeq,
         \A k \in Jobs : lease'[k] = lease[k] \/ lease'[k] = NoLease,
         \A k \in Jobs \ J : status'[k] = status[k] /\ lease'[k] = lease[k]
  PROVE  /\ leaseHistory' \in SUBSET HistoryRow
         /\ HistoryBounded' /\ LeaseIsNewest' /\ OpenHistoryIsCurrent'
         /\ commits' = commits => CommitIsNewest'
<1>1. leaseHistory \in SUBSET HistoryRow
  BY DEF IInv, TypeOK
<1>2. /\ leaseHistory' \in SUBSET HistoryRow
      /\ \A g \in leaseHistory' : \E h \in leaseHistory :
           /\ g.job = h.job /\ g.worker = h.worker /\ g.fence = h.fence
           /\ g.open => h.open /\ h.job \notin J
      /\ \A h \in leaseHistory : \E g \in leaseHistory' :
           g.job = h.job /\ g.worker = h.worker /\ g.fence = h.fence
  BY <1>1, TerminateHistoryRows
<1>3. HistoryBounded'
  BY <1>2 DEF IInv, HistoryBounded
<1>4. LeaseIsNewest'
  BY <1>2 DEF IInv, LeaseIsNewest
<1>5. OpenHistoryIsCurrent'
  <2> SUFFICES ASSUME NEW g \in leaseHistory', g.open
               PROVE  \/ status'[g.job] = "cancelled"
                      \/ /\ status'[g.job] = "dispatched"
                         /\ lease'[g.job] # NoLease
                         /\ lease'[g.job].token = g.fence
    BY DEF OpenHistoryIsCurrent
  <2>1. PICK h \in leaseHistory : /\ g.job = h.job /\ g.fence = h.fence
                                  /\ h.open /\ h.job \notin J
    BY <1>2
  <2>2. h.job \in Jobs \ J
    BY <1>1, <2>1 DEF HistoryRow
  <2> QED
    BY <2>1, <2>2 DEF IInv, OpenHistoryIsCurrent
<1>6. commits' = commits => CommitIsNewest'
  BY <1>2 DEF IInv, CommitIsNewest
<1> QED
  BY <1>2, <1>3, <1>4, <1>5, <1>6

LEMMA ReapIInv ==
  ASSUME IInv, NEW J \in SUBSET Jobs, Reap(J)
  PROVE  IInv'
<1> USE DEF Reap
<1>1. \A j \in J : status[j] = "dispatched"
  BY DEF Reapable
<1>2. /\ leaseHistory' \in SUBSET HistoryRow
      /\ HistoryBounded' /\ LeaseIsNewest' /\ OpenHistoryIsCurrent' /\ CommitIsNewest'
  BY TerminatedHistory
<1>3. TypeOK'
  BY <1>2 DEF IInv, TypeOK, Statuses
<1>4. CancelsExisting' /\ DispatchedIsRecoverable'
  BY DEF IInv, TypeOK, CancelsExisting, DispatchedIsRecoverable
<1>5. CommittedOnce' /\ AuditFollowsStatus'
  BY <1>1 DEF IInv, CommittedOnce, AuditFollowsStatus
<1>6. AckedIsCommitted'
  BY DEF IInv, AckedIsCommitted
<1> QED
  BY <1>2, <1>3, <1>4, <1>5, <1>6 DEF IInv

\* Steps that leave the tables and the cancellations alone.
LEMMA HandlerOnlyIInv ==
  ASSUME IInv, TypeOK', AckedIsCommitted', UNCHANGED <<tables, cancelling>>
  PROVE  IInv'
BY DEF IInv, tables, HistoryBounded, CancelsExisting, DispatchedIsRecoverable,
       LeaseIsNewest, CommittedOnce, CommitIsNewest, OpenHistoryIsCurrent, AuditFollowsStatus

LEMMA OnResultIInv ==
  ASSUME IInv, NEW s \in Slots, NEW h \in leaseHistory, OnResult(s, h)
  PROVE  IInv'
<1> DEFINE m == AnswerTo(h, "result")
<1>1. h \in HistoryRow /\ h.fence \in Tokens /\ m \in Message
  BY AnswerType DEF IInv, TypeOK, HistoryRow
<1> HIDE DEF m
<1>2. PICK pc \in {"commit", "recheck"} :
        handler' = [handler EXCEPT ![s] = [pc |-> pc, msg |-> m]]
  BY DEF OnResult, m
<1>3. [pc |-> pc, msg |-> m] \in Handler
  BY <1>1 DEF Handler
<1>4. TypeOK'
  BY <1>1, <1>2, <1>3 DEF IInv, TypeOK, OnResult, tables
<1>5. AckedIsCommitted'
  BY DEF IInv, AckedIsCommitted, OnResult, tables
<1> QED
  BY <1>4, <1>5, HandlerOnlyIInv DEF OnResult

LEMMA OnResultRecheckIInv ==
  ASSUME IInv, NEW s \in Slots, OnResultRecheck(s)
  PROVE  IInv'
<1> DEFINE m == handler[s].msg
<1>1. m.job \in Jobs /\ m.worker \in Workers
  BY HandlerMessage DEF IInv, OnResultRecheck
<1>2. TypeOK'
  BY <1>1 DEF IInv, TypeOK, OnResultRecheck, tables
<1>3. status[m.job] = "succeeded" => commits[m.job] # << >>
  BY <1>1 DEF IInv, CommittedOnce
<1>4. AckedIsCommitted'
  BY <1>1, <1>3 DEF IInv, AckedIsCommitted, OnResultRecheck, tables
<1> QED
  BY <1>2, <1>4, HandlerOnlyIInv DEF OnResultRecheck

LEMMA AbortIInv ==
  ASSUME IInv, NEW s \in Slots, Abort(s)
  PROVE  IInv'
<1>1. TypeOK' /\ AckedIsCommitted'
  BY DEF IInv, TypeOK, AckedIsCommitted, Abort, tables
<1> QED
  BY <1>1, HandlerOnlyIInv DEF Abort

LEMMA CancelReadIInv ==
  ASSUME IInv, NEW c \in Clients, NEW j \in Jobs, CancelRead(c, j)
  PROVE  IInv'
<1> USE DEF CancelRead, tables
<1>1. TypeOK' /\ CancelsExisting'
  BY DEF IInv, TypeOK, CancelsExisting
<1> QED
  BY <1>1 DEF IInv, HistoryBounded, DispatchedIsRecoverable, LeaseIsNewest, CommittedOnce,
              CommitIsNewest, OpenHistoryIsCurrent, AckedIsCommitted, AuditFollowsStatus

LEMMA AbortCancelIInv ==
  ASSUME IInv, NEW c \in Clients, AbortCancel(c)
  PROVE  IInv'
<1> USE DEF AbortCancel, tables
<1>1. TypeOK' /\ CancelsExisting'
  BY DEF IInv, TypeOK, CancelsExisting
<1> QED
  BY <1>1 DEF IInv, HistoryBounded, DispatchedIsRecoverable, LeaseIsNewest, CommittedOnce,
              CommitIsNewest, OpenHistoryIsCurrent, AckedIsCommitted, AuditFollowsStatus

LEMMA CancelCommitIInv ==
  ASSUME IInv, NEW c \in Clients, CancelCommit(c)
  PROVE  IInv'
<1> DEFINE j == cancelling[c]
<1> USE DEF CancelCommit, SetStatus
<1>1. j \in Jobs
  BY DEF IInv, TypeOK
<1>2. TypeOK' /\ CancelsExisting'
  BY <1>1 DEF IInv, TypeOK, Statuses, CancelsExisting
<1>3. HistoryBounded' /\ LeaseIsNewest' /\ CommitIsNewest' /\ AckedIsCommitted'
  BY DEF IInv, HistoryBounded, LeaseIsNewest, CommitIsNewest, AckedIsCommitted
<1>4. DispatchedIsRecoverable' /\ CommittedOnce' /\ AuditFollowsStatus'
  BY <1>1 DEF IInv, TypeOK, DispatchedIsRecoverable, CommittedOnce, AuditFollowsStatus
<1>5. OpenHistoryIsCurrent'
  BY <1>1 DEF IInv, TypeOK, OpenHistoryIsCurrent, HistoryRow
<1> QED
  BY <1>2, <1>3, <1>4, <1>5 DEF IInv

\* Fencing: the row the DELETE hits is the job's newest dispatch, so the
\* accepted commit carries the largest token on record for the job.
LEMMA OnResultCommitIInv ==
  ASSUME IInv, NEW s \in Slots, OnResultCommit(s)
  PROVE  IInv'
<1> DEFINE m == handler[s].msg
           row == [fence |-> m.token, worker |-> m.worker]
<1>1. m.job \in Jobs /\ m.worker \in Workers /\ m.token \in Tokens /\ handler[s] \in Handler
  BY HandlerMessage DEF IInv, OnResultCommit
<1>2. CASE ~HoldsLease(m)
  <2>1. /\ UNCHANGED <<tables, cancelling, answer, acked>>
        /\ handler' = [handler EXCEPT ![s].pc = "recheck"]
    BY <1>2 DEF OnResultCommit, CommitWith
  <2>2. TypeOK' /\ AckedIsCommitted'
    BY <1>1, <2>1 DEF IInv, TypeOK, AckedIsCommitted, Handler, tables
  <2> QED
    BY <2>1, <2>2, HandlerOnlyIInv
<1>3. CASE HoldsLease(m) /\ status[m.job] # "dispatched"
  <2>1. /\ lease' = [lease EXCEPT ![m.job] = NoLease]
        /\ handler' = [handler EXCEPT ![s].pc = "recheck"]
        /\ UNCHANGED <<status, fencingSeq, leaseHistory, commits, audited,
                       cancelling, answer, acked>>
    BY <1>3 DEF OnResultCommit, CommitWith
  <2>2. TypeOK'
    BY <1>1, <2>1 DEF IInv, TypeOK, Handler
  <2>3. DispatchedIsRecoverable' /\ LeaseIsNewest'
    BY <1>1, <1>3, <2>1 DEF IInv, TypeOK, DispatchedIsRecoverable, LeaseIsNewest
  <2>4. OpenHistoryIsCurrent'
    BY <1>1, <1>3, <2>1 DEF IInv, TypeOK, OpenHistoryIsCurrent, HistoryRow
  <2> QED
    BY <2>1, <2>2, <2>3, <2>4
       DEF IInv, HistoryBounded, CancelsExisting, CommittedOnce, CommitIsNewest,
           AckedIsCommitted, AuditFollowsStatus
<1>4. CASE HoldsLease(m) /\ status[m.job] = "dispatched"
  <2>1. /\ lease' = [lease EXCEPT ![m.job] = NoLease]
        /\ status' = [status EXCEPT ![m.job] = "succeeded"]
        /\ audited' = [audited EXCEPT ![m.job] = "succeeded"]
        /\ commits' = [commits EXCEPT ![m.job] = Append(@, row)]
        /\ leaseHistory' = TerminateHistory({m.job})
        /\ handler' = [handler EXCEPT ![s] = Idle]
        /\ acked' = acked \cup {<<m.worker, m.job>>} \/ acked' = acked
        /\ UNCHANGED <<fencingSeq, cancelling, answer>>
    BY <1>4 DEF OnResultCommit, CommitWith, SetStatus
  <2>2. row \in Commit /\ row.fence = m.token
    BY <1>1 DEF Commit
  <2> HIDE DEF row
  <2>3. /\ commits[m.job] = << >>
        /\ commits'[m.job] = << row >>
        /\ \A k \in Jobs \ {m.job} : commits'[k] = commits[k]
    <3>1. commits \in [Jobs -> Seq(Commit)]
      BY DEF IInv, TypeOK
    <3>2. commits[m.job] = << >>
      BY <1>1, <1>4 DEF IInv, CommittedOnce
    <3>3. Append(<< >>, row) = << row >>
      BY <2>2
    <3> QED
      BY <1>1, <2>1, <3>1, <3>2, <3>3
  <2>4. /\ leaseHistory' \in SUBSET HistoryRow
        /\ HistoryBounded' /\ LeaseIsNewest' /\ OpenHistoryIsCurrent'
    <3>1. /\ \A k \in Jobs : lease'[k] = lease[k] \/ lease'[k] = NoLease
          /\ \A k \in Jobs \ {m.job} : status'[k] = status[k] /\ lease'[k] = lease[k]
      BY <1>1, <2>1 DEF IInv, TypeOK
    <3> QED
      BY <2>1, <3>1, TerminatedHistory
  <2>5. TypeOK'
    <3>1. commits' \in [Jobs -> Seq(Commit)]
      BY <1>1, <2>1, <2>2 DEF IInv, TypeOK
    <3>2. acked' \in SUBSET (Workers \X Jobs)
      BY <1>1, <2>1 DEF IInv, TypeOK
    <3>3. /\ lease' \in [Jobs -> Lease \cup {NoLease}]
          /\ status' \in [Jobs -> Statuses] /\ audited' \in [Jobs -> Statuses]
          /\ handler' \in [Slots -> Handler \cup {Idle}]
      BY <1>1, <2>1 DEF IInv, TypeOK, Statuses
    <3> QED
      BY <2>1, <2>4, <3>1, <3>2, <3>3 DEF IInv, TypeOK
  <2>6. CancelsExisting' /\ DispatchedIsRecoverable' /\ AuditFollowsStatus'
    BY <1>1, <2>1 DEF IInv, TypeOK, CancelsExisting, DispatchedIsRecoverable, AuditFollowsStatus
  <2>7. CommittedOnce'
    BY <1>1, <2>1, <2>3 DEF IInv, TypeOK, CommittedOnce
  <2>8. CommitIsNewest'
    <3> SUFFICES ASSUME NEW k \in Jobs, NEW i \in 1..Len(commits'[k]),
                        NEW g \in leaseHistory', g.job = k
                 PROVE  g.fence <= commits'[k][i].fence
      BY DEF CommitIsNewest
    <3>1. PICK h \in leaseHistory : h.job = k /\ h.fence = g.fence
      <4>1. leaseHistory \in SUBSET HistoryRow /\ g \in TerminateHistory({m.job})
        BY <2>1 DEF IInv, TypeOK
      <4>2. \E h \in leaseHistory : g.job = h.job /\ g.fence = h.fence
        BY <4>1, TerminateHistoryRows
      <4> QED
        BY <4>2
    <3>2. CASE k = m.job
      <4>1. commits'[k][i] = row
        BY <2>3, <3>2
      <4>2. h.fence <= lease[k].token /\ lease[k].token = m.token
        BY <1>4, <3>1, <3>2 DEF IInv, LeaseIsNewest, HoldsLease
      <4> QED
        BY <2>2, <3>1, <4>1, <4>2
    <3>3. CASE k # m.job
      BY <2>3, <3>1, <3>3 DEF IInv, CommitIsNewest
    <3> QED
      BY <3>2, <3>3
  <2>9. AckedIsCommitted'
    BY <1>1, <2>1, <2>3 DEF IInv, TypeOK, AckedIsCommitted
  <2> QED
    BY <2>4, <2>5, <2>6, <2>7, <2>8, <2>9 DEF IInv
<1> QED
  BY <1>2, <1>3, <1>4

\* What job.failed may do to the tables, whichever of its statements matched.
LEMMA FailedTablesIInv ==
  ASSUME IInv, NEW m \in Message,
         TypeOK',
         leaseHistory' = TerminateHistory({m.job}),
         lease' = lease \/ lease' = [lease EXCEPT ![m.job] = NoLease],
         lease' # lease => status'[m.job] # "dispatched",
         status' = status \/ /\ status[m.job] = "dispatched"
                             /\ status' = [status EXCEPT ![m.job] = FailedStatus(m)],
         FailedAudit(m),
         UNCHANGED <<fencingSeq, commits, cancelling, acked>>
  PROVE  IInv'
<1>1. m.job \in Jobs /\ FailedStatus(m) \in {"pending", "failed"}
  BY DEF Message, FailedStatus
<1>2. /\ HistoryBounded' /\ LeaseIsNewest' /\ OpenHistoryIsCurrent' /\ CommitIsNewest'
  <2>1. /\ \A k \in Jobs : lease'[k] = lease[k] \/ lease'[k] = NoLease
        /\ \A k \in Jobs \ {m.job} : status'[k] = status[k] /\ lease'[k] = lease[k]
    BY <1>1 DEF IInv, TypeOK
  <2> QED
    BY <2>1, TerminatedHistory
<1>3. CancelsExisting' /\ DispatchedIsRecoverable'
  BY <1>1 DEF IInv, TypeOK, CancelsExisting, DispatchedIsRecoverable
<1>4. CommittedOnce'
  BY <1>1 DEF IInv, TypeOK, CommittedOnce
<1>5. AckedIsCommitted'
  BY DEF IInv, AckedIsCommitted
<1>6. AuditFollowsStatus'
  BY <1>1 DEF IInv, TypeOK, AuditFollowsStatus, FailedAudit, FailedStatus
<1> QED
  BY <1>2, <1>3, <1>4, <1>5, <1>6 DEF IInv

LEMMA OnFailedIInv ==
  ASSUME IInv, NEW s \in Slots, NEW h \in leaseHistory, NEW type \in {"reject", "failure"},
         OnFailed(s, h, type)
  PROVE  IInv'
<1> DEFINE m == AnswerTo(h, type)
<1>1. h \in HistoryRow /\ h.fence \in Tokens /\ m \in Message /\ m.job \in Jobs
  BY AnswerType DEF IInv, TypeOK, HistoryRow, Message
<1>2. answer' = [answer EXCEPT ![h.fence] = "failed"]
      /\ UNCHANGED <<fencingSeq, commits, cancelling, acked>>
  BY DEF OnFailed
<1>3. CASE lease[m.job] # NoLease
  <2>1. /\ lease' = [lease EXCEPT ![m.job] = NoLease]
        /\ status' = [status EXCEPT ![m.job] =
                        IF @ = "dispatched" THEN FailedStatus(m) ELSE @]
        /\ leaseHistory' = TerminateHistory({m.job})
        /\ FailedAudit(m)
        /\ UNCHANGED handler
    BY <1>3 DEF OnFailed
  <2> HIDE DEF m
  <2>2. leaseHistory' \in SUBSET HistoryRow
    BY <2>1, TerminateHistoryRows DEF IInv, TypeOK
  <2>3. FailedStatus(m) \in {"pending", "failed"}
    BY DEF FailedStatus
  <2>4. audited' \in [Jobs -> Statuses] /\ status' \in [Jobs -> Statuses]
    BY <1>1, <2>1, <2>3 DEF IInv, TypeOK, FailedAudit, Statuses
  <2>5. TypeOK'
    BY <1>1, <1>2, <2>1, <2>2, <2>4 DEF IInv, TypeOK
  <2>6. status'[m.job] # "dispatched"
    BY <1>1, <2>1, <2>3 DEF IInv, TypeOK
  <2>7. status' = status \/ /\ status[m.job] = "dispatched"
                            /\ status' = [status EXCEPT ![m.job] = FailedStatus(m)]
    BY <1>1, <2>1 DEF IInv, TypeOK
  <2> QED
    BY <1>1, <1>2, <2>1, <2>5, <2>6, <2>7, FailedTablesIInv
<1>4. CASE lease[m.job] = NoLease
  <2>1. /\ handler' = [handler EXCEPT ![s] = [pc |-> "update", msg |-> m]]
        /\ UNCHANGED <<status, lease, leaseHistory, audited>>
    BY <1>4 DEF OnFailed
  <2> HIDE DEF m
  <2>2. [pc |-> "update", msg |-> m] \in Handler
    BY <1>1 DEF Handler
  <2>3. TypeOK' /\ AckedIsCommitted'
    BY <1>1, <1>2, <2>1, <2>2 DEF IInv, TypeOK, AckedIsCommitted
  <2> QED
    BY <1>2, <2>1, <2>3, HandlerOnlyIInv DEF tables
<1> QED
  BY <1>3, <1>4

LEMMA OnFailedUpdateIInv ==
  ASSUME IInv, NEW s \in Slots, OnFailedUpdate(s)
  PROVE  IInv'
<1> DEFINE m == handler[s].msg
<1>1. m \in Message /\ m.job \in Jobs /\ handler[s] \in Handler
  BY HandlerMessage DEF IInv, OnFailedUpdate
<1>2. UNCHANGED <<lease, fencingSeq, commits, cancelling, answer, acked>>
  BY DEF OnFailedUpdate
<1>3. CASE status[m.job] = "dispatched"
  <2>1. /\ status' = [status EXCEPT ![m.job] = FailedStatus(m)]
        /\ leaseHistory' = TerminateHistory({m.job})
        /\ FailedAudit(m)
        /\ handler' = [handler EXCEPT ![s] = Idle]
    BY <1>3 DEF OnFailedUpdate
  <2> HIDE DEF m
  <2>2. leaseHistory' \in SUBSET HistoryRow
    BY <2>1, TerminateHistoryRows DEF IInv, TypeOK
  <2>3. audited' \in [Jobs -> Statuses] /\ status' \in [Jobs -> Statuses]
    BY <1>1, <2>1 DEF IInv, TypeOK, FailedAudit, FailedStatus, Statuses
  <2>4. TypeOK'
    BY <1>1, <1>2, <2>1, <2>2, <2>3 DEF IInv, TypeOK
  <2> QED
    BY <1>1, <1>2, <1>3, <2>1, <2>4, FailedTablesIInv
<1>4. CASE status[m.job] # "dispatched"
  <2>1. /\ handler' = [handler EXCEPT ![s].pc = "history"]
        /\ UNCHANGED <<status, leaseHistory, audited>>
    BY <1>4 DEF OnFailedUpdate
  <2>2. TypeOK' /\ AckedIsCommitted'
    BY <1>1, <1>2, <2>1 DEF IInv, TypeOK, Handler, AckedIsCommitted
  <2> QED
    BY <1>2, <2>1, <2>2, HandlerOnlyIInv DEF tables
<1> QED
  BY <1>3, <1>4

LEMMA OnFailedHistoryIInv ==
  ASSUME IInv, NEW s \in Slots, OnFailedHistory(s)
  PROVE  IInv'
<1> DEFINE m == handler[s].msg
<1>1. m \in Message /\ m.job \in Jobs /\ handler[s] \in Handler
  BY HandlerMessage DEF IInv, OnFailedHistory
<1>2. UNCHANGED <<status, lease, fencingSeq, commits, cancelling, answer, acked>>
  BY DEF OnFailedHistory
<1>3. CASE \E h \in leaseHistory : h.job = m.job /\ h.open
  <2>1. /\ leaseHistory' = TerminateHistory({m.job})
        /\ FailedAudit(m)
        /\ handler' = [handler EXCEPT ![s] = Idle]
    BY <1>3 DEF OnFailedHistory
  <2> HIDE DEF m
  <2>2. leaseHistory' \in SUBSET HistoryRow
    BY <2>1, TerminateHistoryRows DEF IInv, TypeOK
  <2>3. audited' \in [Jobs -> Statuses]
    BY <1>1, <2>1 DEF IInv, TypeOK, FailedAudit, Statuses
  <2>4. TypeOK'
    BY <1>1, <1>2, <2>1, <2>2, <2>3 DEF IInv, TypeOK
  <2> QED
    BY <1>1, <1>2, <2>1, <2>4, FailedTablesIInv
<1>4. CASE ~\E h \in leaseHistory : h.job = m.job /\ h.open
  <2>1. /\ handler' = [handler EXCEPT ![s].pc = "transition"]
        /\ UNCHANGED <<leaseHistory, audited>>
    BY <1>4 DEF OnFailedHistory
  <2>2. TypeOK' /\ AckedIsCommitted'
    BY <1>1, <1>2, <2>1 DEF IInv, TypeOK, Handler, AckedIsCommitted
  <2> QED
    BY <1>2, <2>1, <2>2, HandlerOnlyIInv DEF tables
<1> QED
  BY <1>3, <1>4

LEMMA OnFailedTransitionIInv ==
  ASSUME IInv, NEW s \in Slots, OnFailedTransition(s)
  PROVE  IInv'
<1> DEFINE m == handler[s].msg
<1>1. m \in Message /\ m.job \in Jobs
  BY HandlerMessage DEF IInv, OnFailedTransition
<1>2. /\ FailedAudit(m)
      /\ handler' = [handler EXCEPT ![s] = Idle]
      /\ UNCHANGED <<status, lease, fencingSeq, leaseHistory, commits, cancelling, answer, acked>>
  BY DEF OnFailedTransition
<1> HIDE DEF m
<1>3. TypeOK'
  <2>1. audited' \in [Jobs -> Statuses]
    BY <1>1, <1>2 DEF IInv, TypeOK, FailedAudit, Statuses
  <2> QED
    BY <1>2, <2>1 DEF IInv, TypeOK
<1>4. AuditFollowsStatus'
  BY <1>1, <1>2 DEF IInv, TypeOK, AuditFollowsStatus, FailedAudit
<1> QED
  BY <1>2, <1>3, <1>4
     DEF IInv, HistoryBounded, CancelsExisting, DispatchedIsRecoverable, LeaseIsNewest,
         CommittedOnce, CommitIsNewest, OpenHistoryIsCurrent, AckedIsCommitted

LEMMA NextIInv == IInv /\ [Next]_vars => IInv'
<1> SUFFICES ASSUME IInv, [Next]_vars PROVE IInv'
  OBVIOUS
<1>1. ASSUME NEW j \in Jobs, JobStep(j) PROVE IInv'
  BY <1>1, CreateJobIInv, DispatchIInv, DispatchConflictIInv, LeaseExpiresIInv, CancelReadIInv
     DEF JobStep
<1>2. ASSUME NEW s \in Slots, HandlerStep(s) PROVE IInv'
  BY <1>2, OnResultIInv, OnResultCommitIInv, OnResultRecheckIInv, OnFailedIInv,
     OnFailedUpdateIInv, OnFailedHistoryIInv, OnFailedTransitionIInv, AbortIInv
     DEF HandlerStep
<1>3. ASSUME NEW c \in Clients, CancelCommit(c) \/ AbortCancel(c) PROVE IInv'
  BY <1>3, CancelCommitIInv, AbortCancelIInv
<1>4. ASSUME UNCHANGED vars PROVE IInv'
  <2>1. TypeOK' /\ AckedIsCommitted'
    BY <1>4 DEF IInv, TypeOK, AckedIsCommitted, vars, tables
  <2> QED
    BY <1>4, <2>1, HandlerOnlyIInv DEF vars
<1> QED
  BY <1>1, <1>2, <1>3, <1>4, HeartbeatIInv, ReapIInv DEF Next

-----------------------------------------------------------------------------
(* Theorems *)

\* The inductive invariant holds in every reachable state, for every choice of
\* the constants that the assumptions of JobLeases allow.
THEOREM Invariance == Spec => []IInv
BY InitIInv, NextIInv, PTL DEF Spec

\* Every variable keeps its type; in particular no token outgrows the sequence.
THEOREM TypeCorrectness == Spec => []TypeOK
<1>1. IInv => TypeOK
  BY DEF IInv
<1> QED
  BY <1>1, Invariance, PTL

\* No job is lost in "dispatched": it always has the lease the reaper looks for.
THEOREM Recoverability == Spec => []DispatchedIsRecoverable
<1>1. IInv => DispatchedIsRecoverable
  BY DEF IInv
<1> QED
  BY <1>1, Invariance, PTL

\* Fencing: the lease in the table is always the job's newest dispatch.
THEOREM Fencing == Spec => []LeaseIsNewest
<1>1. IInv => LeaseIsNewest
  BY DEF IInv
<1> QED
  BY <1>1, Invariance, PTL

\* Exactly-once commit: at most one accepted commit per job, and it is there
\* if and only if the job succeeded (or was cancelled over its success).
THEOREM SingleCommit == Spec => []CommittedOnce
<1>1. IInv => CommittedOnce
  BY DEF IInv
<1> QED
  BY <1>1, Invariance, PTL

\* A stale worker never commits: the accepted token is the largest of the job.
THEOREM NoStaleCommit == Spec => []CommitIsNewest
<1>1. IInv => CommitIsNewest
  BY DEF IInv
<1> QED
  BY <1>1, Invariance, PTL

\* The lease history that GET /audit reports has no interval left open but the
\* current lease's, or a cancelled job's.
THEOREM HistoryClosure == Spec => []OpenHistoryIsCurrent
<1>1. IInv => OpenHistoryIsCurrent
  BY DEF IInv
<1> QED
  BY <1>1, Invariance, PTL

\* job.ack is never sent for a result the database does not hold.
THEOREM AckSafety == Spec => []AckedIsCommitted
<1>1. IInv => AckedIsCommitted
  BY DEF IInv
<1> QED
  BY <1>1, Invariance, PTL

\* The audit trail ends in the job's status, but for a capacity rejection and
\* for a failure that arrives late.
THEOREM AuditTrail == Spec => []AuditFollowsStatus
<1>1. IInv => AuditFollowsStatus
  BY DEF IInv
<1> QED
  BY <1>1, Invariance, PTL
=============================================================================
