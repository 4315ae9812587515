----------------------------- MODULE JobLeases -----------------------------
(***************************************************************************)
(* The life of a job in the shared Postgres tables: creation, dispatch     *)
(* under a fenced lease, heartbeat, result commit, job.failed, reaping and *)
(* cancellation.  Coordinators are leaderless peers that share nothing but *)
(* these tables, so a coordinator appears here only as the asynchronous    *)
(* handlers it runs: a handler is a slot, and its steps are the database   *)
(* statements between two awaits.                                          *)
(*                                                                         *)
(* A transaction whose statements all hit rows it has locked is one step.  *)
(* onFailed is different: a statement of it that matches no row locks      *)
(* nothing, and under READ COMMITTED any other transaction may commit      *)
(* before its next statement, so those are steps of their own.             *)
(*                                                                         *)
(* The workers are abstracted to what they may answer to a dispatch:       *)
(* any number of job.result (retries) or one job.failed, arbitrarily late. *)
(* ExpiresAt is abstracted to whether it has passed.                       *)
(***************************************************************************)
EXTENDS Naturals, Sequences

CONSTANTS
  Jobs,         \* JobIDs
  Workers,      \* WorkerIDs
  Slots,        \* concurrent job.result / job.failed handlers, all coordinators
  Clients,      \* concurrent DELETE /jobs/:id requests
  AnswerTypes,  \* what a worker answers: "result", "reject", "failure"
  MaxToken,     \* bound on the fencing sequence
  NoLease,      \* no row in Leases
  Idle,         \* a slot with no handler
  NoJob         \* a client with no cancellation under way

Tokens == 1..MaxToken

\* JOB_STATUS_ENUM; "none" is a job that has no row yet.
Statuses == {"none", "pending", "dispatched", "succeeded", "failed", "cancelled"}

\* A row of Leases.  JobID is the primary key: at most one row per job.
Lease == [worker : Workers, token : Tokens, expired : BOOLEAN]

\* A row of LeaseHistory; open stands for TerminatedAtMs IS NULL.
HistoryRow == [job : Jobs, worker : Workers, fence : Tokens, open : BOOLEAN]

\* A row of CommitAttempts.
Commit == [fence : Tokens, worker : Workers]

\* job.result ("result"), job.failed with temporary ("reject") or without.
Message == [type : {"result", "reject", "failure"},
            job : Jobs, worker : Workers, token : Tokens]

\* The statement at which a handler of a message waits.
Handler == [pc : {"commit", "recheck", "update", "history", "transition"}, msg : Message]

ASSUME BoundAssumption == MaxToken \in Nat
ASSUME AnswerAssumption == AnswerTypes \subseteq {"result", "reject", "failure"}
ASSUME NullAssumption == NoLease \notin Lease /\ Idle \notin Handler /\ NoJob \notin Jobs

VARIABLES
  status,        \* Jobs.Status
  lease,         \* Leases, by JobID
  fencingSeq,    \* last value taken from fencing_seq
  leaseHistory,  \* LeaseHistory
  commits,       \* CommitAttempts per job, in insertion order
  audited,       \* ToStatus of the job's last row in JobTransitions
  handler,       \* the message handlers under way
  cancelling,    \* the job a client's DELETE has read as pending
  answer,        \* what was answered to the dispatch with this token
  acked          \* <<worker, job>> pairs for which job.ack was sent

tables == <<status, lease, fencingSeq, leaseHistory, commits, audited>>
vars == <<tables, handler, cancelling, answer, acked>>

TypeOK ==
  /\ status \in [Jobs -> Statuses]
  /\ lease \in [Jobs -> Lease \cup {NoLease}]
  /\ fencingSeq \in 0..MaxToken
  /\ leaseHistory \in SUBSET HistoryRow
  /\ commits \in [Jobs -> Seq(Commit)]
  /\ audited \in [Jobs -> Statuses]
  /\ handler \in [Slots -> Handler \cup {Idle}]
  /\ cancelling \in [Clients -> Jobs \cup {NoJob}]
  /\ answer \in [Tokens -> {"none", "result", "failed"}]
  /\ acked \in SUBSET (Workers \X Jobs)

Init ==
  /\ status = [j \in Jobs |-> "none"]
  /\ lease = [j \in Jobs |-> NoLease]
  /\ fencingSeq = 0
  /\ leaseHistory = {}
  /\ commits = [j \in Jobs |-> << >>]
  /\ audited = [j \in Jobs |-> "none"]
  /\ handler = [s \in Slots |-> Idle]
  /\ cancelling = [c \in Clients |-> NoJob]
  /\ answer = [t \in Tokens |-> "none"]
  /\ acked = {}

-----------------------------------------------------------------------------
(* Tables *)

\* The Leases row that {JobID, WorkerID, Token} selects exists.
HoldsLease(m) ==
  /\ lease[m.job] # NoLease
  /\ lease[m.job].worker = m.worker
  /\ lease[m.job].token = m.token

\* UPDATE LeaseHistory SET TerminatedAtMs WHERE JobID AND TerminatedAtMs IS NULL.
TerminateHistory(J) ==
  {[h EXCEPT !.open = h.open /\ h.job \notin J] : h \in leaseHistory}

\* Write a job's status together with its JobTransitions row.
SetStatus(j, to) ==
  /\ status' = [status EXCEPT ![j] = to]
  /\ audited' = [audited EXCEPT ![j] = to]

-----------------------------------------------------------------------------
(* POST /jobs: the insert of a new job (module JobSubmission has the rest) *)

CreateJob(j) ==
  /\ status[j] = "none"
  /\ SetStatus(j, "pending")
  /\ UNCHANGED <<lease, fencingSeq, leaseHistory, commits,
                 handler, cancelling, answer, acked>>

-----------------------------------------------------------------------------
(* DispatchService.tryDispatchOne *)

\* SELECT ... FOR UPDATE SKIP LOCKED picks a pending job (any of them: the
\* older ones may be locked), nextval gives its token, and the lease, the
\* status and the history are written in the same transaction.
DispatchWith(j, w, token) ==
  /\ status[j] = "pending"
  /\ lease[j] = NoLease
  /\ fencingSeq < MaxToken
  /\ fencingSeq' = fencingSeq + 1
  /\ lease' = [lease EXCEPT ![j] = [worker |-> w, token |-> token, expired |-> FALSE]]
  /\ leaseHistory' = leaseHistory \cup
       {[job |-> j, worker |-> w, fence |-> token, open |-> TRUE]}
  /\ SetStatus(j, "dispatched")
  /\ UNCHANGED <<commits, handler, cancelling, answer, acked>>

\* Mutant: the token is the sequence's current value, not its next one.
DispatchCurrval(j, w) == DispatchWith(j, w, fencingSeq)

Dispatch(j, w) == DispatchWith(j, w, fencingSeq + 1)

\* The pending job still has a row in Leases: the insert violates PK_Leases
\* and the transaction rolls back, but nextval is never rolled back.
DispatchConflict(j) ==
  /\ status[j] = "pending"
  /\ lease[j] # NoLease
  /\ fencingSeq < MaxToken
  /\ fencingSeq' = fencingSeq + 1
  /\ UNCHANGED <<status, lease, leaseHistory, commits, audited,
                 handler, cancelling, answer, acked>>

-----------------------------------------------------------------------------
(* Lease expiry, heartbeat and reaper *)

\* Time passes ExpiresAt.  Skewed coordinator clocks are covered: they move
\* the instant, and here every instant is possible.
LeaseExpires(j) ==
  /\ lease[j] # NoLease
  /\ ~lease[j].expired
  /\ lease' = [lease EXCEPT ![j].expired = TRUE]
  /\ UNCHANGED <<status, fencingSeq, leaseHistory, commits, audited,
                 handler, cancelling, answer, acked>>

\* Mutant: the heartbeat upserts its lease instead of updating a row that matches.
HeartbeatUpsert(h) ==
  /\ h \in leaseHistory
  /\ lease' = [lease EXCEPT ![h.job] =
                 [worker |-> h.worker, token |-> h.fence, expired |-> FALSE]]
  /\ UNCHANGED <<status, fencingSeq, leaseHistory, commits, audited,
                 handler, cancelling, answer, acked>>

\* onHeartbeat for the dispatch recorded in h: ExpiresAt moves only in the
\* row that has its job, worker and token.
Heartbeat(h) ==
  /\ h \in leaseHistory
  /\ HoldsLease([job |-> h.job, worker |-> h.worker, token |-> h.fence])
  /\ lease' = [lease EXCEPT ![h.job].expired = FALSE]
  /\ UNCHANGED <<status, fencingSeq, leaseHistory, commits, audited,
                 handler, cancelling, answer, acked>>

\* Jobs the reaper's query selects: lease expired and Status = dispatched.
Reapable == {j \in Jobs : /\ lease[j] # NoLease
                          /\ lease[j].expired
                          /\ status[j] = "dispatched"}

\* Mutant: the history rows of the reaped leases are left open.
ReapKeepsHistory(J) ==
  /\ J # {} /\ J \subseteq Reapable
  /\ lease' = [j \in Jobs |-> IF j \in J THEN NoLease ELSE lease[j]]
  /\ status' = [j \in Jobs |-> IF j \in J THEN "pending" ELSE status[j]]
  /\ audited' = [j \in Jobs |-> IF j \in J THEN "pending" ELSE audited[j]]
  /\ UNCHANGED <<fencingSeq, leaseHistory, commits,
                 handler, cancelling, answer, acked>>

\* LeaseReaperService.tick.  SKIP LOCKED leaves out jobs whose rows another
\* transaction holds, so J may be any of the selected jobs.
Reap(J) ==
  /\ J # {} /\ J \subseteq Reapable
  /\ lease' = [j \in Jobs |-> IF j \in J THEN NoLease ELSE lease[j]]
  /\ status' = [j \in Jobs |-> IF j \in J THEN "pending" ELSE status[j]]
  /\ audited' = [j \in Jobs |-> IF j \in J THEN "pending" ELSE audited[j]]
  /\ leaseHistory' = TerminateHistory(J)
  /\ UNCHANGED <<fencingSeq, commits, handler, cancelling, answer, acked>>

-----------------------------------------------------------------------------
(* WorkerHubService.onResult *)

\* A worker's answer to the dispatch recorded in h.
AnswerTo(h, type) ==
  [type |-> type, job |-> h.job, worker |-> h.worker, token |-> h.fence]

\* A job.result arrives (the first or a retry) and its lease is read.  A read
\* that fails is answered like one that finds no lease.
OnResult(s, h) ==
  /\ "result" \in AnswerTypes
  /\ h \in leaseHistory
  /\ handler[s] = Idle
  /\ answer[h.fence] \in {"none", "result"}
  /\ answer' = [answer EXCEPT ![h.fence] = "result"]
  /\ LET m == AnswerTo(h, "result") IN
     \E pc \in {"commit", "recheck"} :
       /\ pc = "commit" => HoldsLease(m)
       /\ handler' = [handler EXCEPT ![s] = [pc |-> pc, msg |-> m]]
  /\ UNCHANGED <<tables, cancelling, acked>>

\* The commit transaction: match is whether its DELETE hits the row of Leases,
\* live whether its UPDATE then hits the row of Jobs.
CommitWith(s, match, live) ==
  LET m == handler[s].msg IN
  /\ handler[s] # Idle
  /\ handler[s].pc = "commit"
  /\ \/ /\ ~match                                 \* reaped or superseded
        /\ handler' = [handler EXCEPT ![s].pc = "recheck"]
        /\ UNCHANGED <<tables, acked>>
     \/ /\ match                                  \* no longer dispatched: the
        /\ ~live                                  \* DELETE alone is committed
        /\ lease' = [lease EXCEPT ![m.job] = NoLease]
        /\ handler' = [handler EXCEPT ![s].pc = "recheck"]
        /\ UNCHANGED <<status, fencingSeq, leaseHistory, commits, audited, acked>>
     \/ /\ match /\ live                          \* accepted
        /\ lease' = [lease EXCEPT ![m.job] = NoLease]
        /\ SetStatus(m.job, "succeeded")
        /\ commits' = [commits EXCEPT ![m.job] =
                         Append(@, [fence |-> m.token, worker |-> m.worker])]
        /\ leaseHistory' = TerminateHistory({m.job})
        /\ handler' = [handler EXCEPT ![s] = Idle]
        /\ \/ acked' = acked \cup {<<m.worker, m.job>>}
           \/ UNCHANGED acked                     \* drop_acks, or a crash
        /\ UNCHANGED fencingSeq
  /\ UNCHANGED <<cancelling, answer>>

\* Mutant: the DELETE selects the lease by job and worker, without the token.
CommitAnyToken(s) ==
  LET m == handler[s].msg IN
  /\ handler[s] # Idle
  /\ CommitWith(s, lease[m.job] # NoLease /\ lease[m.job].worker = m.worker,
                status[m.job] = "dispatched")

\* Mutant: the affected-row counts are ignored, the lease read before the await trusted.
CommitUnguarded(s) == handler[s] # Idle /\ CommitWith(s, TRUE, TRUE)

\* Mutant: the job row is not updated together with the DELETE of the lease.
CommitKeepsStatus(s) ==
  LET m == handler[s].msg IN
  /\ handler[s] # Idle
  /\ handler[s].pc = "commit"
  /\ HoldsLease(m)
  /\ lease' = [lease EXCEPT ![m.job] = NoLease]
  /\ handler' = [handler EXCEPT ![s] = Idle]
  /\ UNCHANGED <<status, fencingSeq, leaseHistory, commits, audited,
                 cancelling, answer, acked>>

OnResultCommit(s) ==
  /\ handler[s] # Idle
  /\ CommitWith(s, HoldsLease(handler[s].msg), status[handler[s].msg.job] = "dispatched")

\* Mutant: a result that was not accepted is acknowledged anyway.
RecheckAcksAlways(s) ==
  LET m == handler[s].msg IN
  /\ handler[s] # Idle
  /\ handler[s].pc = "recheck"
  /\ acked' = acked \cup {<<m.worker, m.job>>}
  /\ handler' = [handler EXCEPT ![s] = Idle]
  /\ UNCHANGED <<tables, cancelling, answer>>

\* The result was not accepted: read the job, acknowledge if it succeeded.
OnResultRecheck(s) ==
  LET m == handler[s].msg IN
  /\ handler[s] # Idle
  /\ handler[s].pc = "recheck"
  /\ acked' = acked \cup
       (IF status[m.job] = "succeeded" THEN {<<m.worker, m.job>>} ELSE {})
  /\ handler' = [handler EXCEPT ![s] = Idle]
  /\ UNCHANGED <<tables, cancelling, answer>>

-----------------------------------------------------------------------------
(* WorkerHubService.onFailed *)

\* Where job.failed puts a job that is still dispatched.  Only an execution
\* failure inserts a JobTransitions row; a capacity rejection does not.
FailedStatus(m) == IF m.type = "reject" THEN "pending" ELSE "failed"

FailedAudit(m) ==
  audited' = [audited EXCEPT ![m.job] = IF m.type = "reject" THEN @ ELSE "failed"]

\* A job.failed arrives.  Its DELETE names the job only.  If it removes a row
\* the rest of the transaction runs under that row's lock; if not, the
\* transaction holds no lock when it goes on to the next statement.
OnFailed(s, h, type) ==
  LET m == AnswerTo(h, type) IN
  /\ type \in AnswerTypes \ {"result"}
  /\ h \in leaseHistory
  /\ handler[s] = Idle
  /\ answer[h.fence] = "none"
  /\ answer' = [answer EXCEPT ![h.fence] = "failed"]
  /\ \/ /\ lease[m.job] # NoLease
        /\ lease' = [lease EXCEPT ![m.job] = NoLease]
        /\ status' = [status EXCEPT ![m.job] =
                        IF @ = "dispatched" THEN FailedStatus(m) ELSE @]
        /\ leaseHistory' = TerminateHistory({m.job})
        /\ FailedAudit(m)
        /\ UNCHANGED handler
     \/ /\ lease[m.job] = NoLease
        /\ handler' = [handler EXCEPT ![s] = [pc |-> "update", msg |-> m]]
        /\ UNCHANGED <<status, lease, leaseHistory, audited>>
  /\ UNCHANGED <<fencingSeq, commits, cancelling, acked>>

\* Mutant: the job is updated without the Status = dispatched condition.
FailedUpdateAnyStatus(s) ==
  LET m == handler[s].msg IN
  /\ handler[s] # Idle
  /\ handler[s].pc = "update"
  /\ status' = [status EXCEPT ![m.job] = FailedStatus(m)]
  /\ leaseHistory' = TerminateHistory({m.job})
  /\ FailedAudit(m)
  /\ handler' = [handler EXCEPT ![s] = Idle]
  /\ UNCHANGED <<lease, fencingSeq, commits, cancelling, answer, acked>>

\* UPDATE Jobs WHERE Status = dispatched: either it locks the job's row, and
\* the transaction completes, or it matches nothing and goes on unlocked.
OnFailedUpdate(s) ==
  LET m == handler[s].msg IN
  /\ handler[s] # Idle
  /\ handler[s].pc = "update"
  /\ \/ /\ status[m.job] = "dispatched"
        /\ status' = [status EXCEPT ![m.job] = FailedStatus(m)]
        /\ leaseHistory' = TerminateHistory({m.job})
        /\ FailedAudit(m)
        /\ handler' = [handler EXCEPT ![s] = Idle]
     \/ /\ status[m.job] # "dispatched"
        /\ handler' = [handler EXCEPT ![s].pc = "history"]
        /\ UNCHANGED <<status, leaseHistory, audited>>
  /\ UNCHANGED <<lease, fencingSeq, commits, cancelling, answer, acked>>

\* UPDATE LeaseHistory, after an UPDATE Jobs that matched nothing: it locks the
\* job's open rows, or there is none and the transaction still holds no lock.
OnFailedHistory(s) ==
  LET m == handler[s].msg IN
  /\ handler[s] # Idle
  /\ handler[s].pc = "history"
  /\ \/ /\ \E h \in leaseHistory : h.job = m.job /\ h.open
        /\ leaseHistory' = TerminateHistory({m.job})
        /\ FailedAudit(m)
        /\ handler' = [handler EXCEPT ![s] = Idle]
     \/ /\ \A h \in leaseHistory : h.job = m.job => ~h.open
        /\ handler' = [handler EXCEPT ![s].pc = "transition"]
        /\ UNCHANGED <<leaseHistory, audited>>
  /\ UNCHANGED <<status, lease, fencingSeq, commits, cancelling, answer, acked>>

\* The INSERT into JobTransitions of a failure that matched no row at all.
OnFailedTransition(s) ==
  LET m == handler[s].msg IN
  /\ handler[s] # Idle
  /\ handler[s].pc = "transition"
  /\ FailedAudit(m)
  /\ handler' = [handler EXCEPT ![s] = Idle]
  /\ UNCHANGED <<status, lease, fencingSeq, leaseHistory, commits, cancelling, answer, acked>>

-----------------------------------------------------------------------------
(* DELETE /jobs/:id *)

\* The status is read outside the transaction; anything but pending is a 409.
CancelRead(c, j) ==
  /\ cancelling[c] = NoJob
  /\ status[j] = "pending"
  /\ cancelling' = [cancelling EXCEPT ![c] = j]
  /\ UNCHANGED <<tables, handler, answer, acked>>

\* Mutant: the cancellation inserts no JobTransitions row.
CancelUnaudited(c) ==
  /\ cancelling[c] # NoJob
  /\ status' = [status EXCEPT ![cancelling[c]] = "cancelled"]
  /\ cancelling' = [cancelling EXCEPT ![c] = NoJob]
  /\ UNCHANGED <<lease, fencingSeq, leaseHistory, commits, audited, handler, answer, acked>>

\* UPDATE Jobs SET Status = cancelled WHERE JobID: no condition on the status.
CancelCommit(c) ==
  /\ cancelling[c] # NoJob
  /\ SetStatus(cancelling[c], "cancelled")
  /\ cancelling' = [cancelling EXCEPT ![c] = NoJob]
  /\ UNCHANGED <<lease, fencingSeq, leaseHistory, commits, handler, answer, acked>>

-----------------------------------------------------------------------------
\* The coordinator is killed, or its database is partitioned, before the
\* handler's next query.  A handler between two statements of an open
\* transaction has changed no row, so its rollback leaves the tables alone.
Abort(s) ==
  /\ handler[s] # Idle
  /\ handler' = [handler EXCEPT ![s] = Idle]
  /\ UNCHANGED <<tables, cancelling, answer, acked>>

AbortCancel(c) ==
  /\ cancelling[c] # NoJob
  /\ cancelling' = [cancelling EXCEPT ![c] = NoJob]
  /\ UNCHANGED <<tables, handler, answer, acked>>

JobStep(j) ==
  \/ CreateJob(j)
  \/ \E w \in Workers : Dispatch(j, w)
  \/ DispatchConflict(j)
  \/ LeaseExpires(j)
  \/ \E c \in Clients : CancelRead(c, j)

HandlerStep(s) ==
  \/ \E h \in leaseHistory : OnResult(s, h)
  \/ OnResultCommit(s)
  \/ OnResultRecheck(s)
  \/ \E h \in leaseHistory, type \in {"reject", "failure"} : OnFailed(s, h, type)
  \/ OnFailedUpdate(s)
  \/ OnFailedHistory(s)
  \/ OnFailedTransition(s)
  \/ Abort(s)

Next ==
  \/ \E j \in Jobs : JobStep(j)
  \/ \E s \in Slots : HandlerStep(s)
  \/ \E h \in leaseHistory : Heartbeat(h)
  \/ \E J \in SUBSET Jobs : Reap(J)
  \/ \E c \in Clients : CancelCommit(c) \/ AbortCancel(c)

Spec == Init /\ [][Next]_vars

-----------------------------------------------------------------------------
(* Properties *)

\* A dispatched job always has its row in Leases, so that the reaper's join of
\* Leases and Jobs can find it when its worker is gone: no interleaving of
\* commit, failure, reaping and cancellation loses a job in "dispatched".
DispatchedIsRecoverable ==
  \A j \in Jobs : status[j] = "dispatched" => lease[j] # NoLease

\* The row of Leases is always the job's latest dispatch: its token is on
\* record in LeaseHistory for the same worker and none of the job's tokens is
\* larger.  This is what makes the token comparison of onResult a fence.
LeaseIsNewest ==
  \A j \in Jobs : lease[j] # NoLease =>
    /\ \E h \in leaseHistory : /\ h.job = j
                                /\ h.worker = lease[j].worker
                                /\ h.fence = lease[j].token
    /\ \A h \in leaseHistory : h.job = j => h.fence <= lease[j].token

\* No double commit: concurrent results, retries and stale workers together
\* insert at most one accepted commit per job, and a job has succeeded exactly
\* when it has one (a late cancellation may overwrite the status).
CommittedOnce ==
  \A j \in Jobs :
    /\ Len(commits[j]) <= 1
    /\ status[j] = "succeeded" => commits[j] # << >>
    /\ commits[j] # << >> => status[j] \in {"succeeded", "cancelled"}

\* No stale commit: the accepted commit carries the largest token ever issued
\* for the job, and no larger one is issued after it.
CommitIsNewest ==
  \A j \in Jobs : \A i \in 1..Len(commits[j]) : \A h \in leaseHistory :
    h.job = j => h.fence <= commits[j][i].fence

\* A LeaseHistory row without TerminatedAtMs belongs to the lease that is
\* current; only a cancelled job may leave one behind.  Every path that ends a
\* lease of a job that goes on (reap, reject, failure, commit) closes its row.
OpenHistoryIsCurrent ==
  \A h \in leaseHistory : h.open =>
    \/ status[h.job] = "cancelled"
    \/ /\ status[h.job] = "dispatched"
       /\ lease[h.job] # NoLease
       /\ lease[h.job].token = h.fence

\* A worker drops its result when it is acknowledged, so job.ack is sent only
\* for a job whose accepted commit is in the database, whoever committed it.
AckedIsCommitted ==
  \A p \in acked : commits[p[2]] # << >>

\* The trail that GET /audit returns ends in the status the job has, with two
\* exceptions: a capacity rejection requeues a job without a JobTransitions
\* row, and a late job.failed adds "failed" to the trail of a job it no longer
\* changes.
AuditFollowsStatus ==
  \A j \in Jobs :
    \/ audited[j] = status[j]
    \/ status[j] = "pending" /\ audited[j] = "dispatched"
    \/ audited[j] = "failed"

\* A finished job is never dispatched or requeued again: a failure, reap or
\* result that was decided earlier cannot reopen it.  Only a cancellation that
\* was read as pending may still replace succeeded or failed.
FinishedStaysFinished ==
  [][\A j \in Jobs :
       /\ status[j] = "cancelled" => status'[j] = "cancelled"
       /\ status[j] \in {"succeeded", "failed"} =>
            status'[j] \in {status[j], "cancelled"}]_vars

\* The tables implement the abstract promise of FencedJobs: the tokens issued
\* for a job are those of LeaseHistory, the accepted one is that of CommitAttempts.
Fences(j) == {h.fence : h \in {g \in leaseHistory : g.job = j}}

Issued == [j \in Jobs |-> Fences(j)]

Accepted == [j \in Jobs |->
               IF commits[j] = << >> THEN 0 ELSE commits[j][Len(commits[j])].fence]

Promise == INSTANCE FencedJobs WITH
  status <- status, last <- fencingSeq, issued <- Issued, accepted <- Accepted

\* Every step of the handlers on the tables is a step of the abstract job
\* machine, or changes nothing it can see.
KeepsPromise == Promise!Spec

\* The coordinators keep their side of LeaseService for each worker: what it
\* is leased is in LeaseHistory, what it answered in answer.
LeasesOf(w) == {<<h.job, h.fence>> : h \in {g \in leaseHistory : g.worker = w}}

AnsweredBy(w, type) == {d \in LeasesOf(w) : answer[d[2]] = type}

Largest(T) == IF T = {} THEN 0 ELSE CHOOSE t \in T : \A u \in T : u <= t

Newest == [j \in Jobs |-> Largest(Fences(j))]

Service(w) == INSTANCE LeaseService WITH
  seq <- fencingSeq, leases <- LeasesOf(w), newest <- Newest,
  delivered <- AnsweredBy(w, "result"), refused <- AnsweredBy(w, "failed"),
  done <- {j \in Jobs : commits[j] # << >>}

\* What WorkerService assumes of the coordinators' leases: a job is leased again
\* only while no commit is accepted, always under a fresh token, and a commit
\* is accepted only if the worker that holds the newest token has answered it.
\* (For each worker Service(w)!Spec; a step that writes none of the tables the
\* mapping reads is set apart as the stutter it is.)
ServesWorkers ==
  /\ \A w \in Workers : Service(w)!Init
  /\ [][\/ UNCHANGED <<fencingSeq, leaseHistory, commits, answer>>
        \/ \A w \in Workers : [Service(w)!Next]_(Service(w)!vars)]_vars

-----------------------------------------------------------------------------
(* Statements of the repository that the code does not keep *)

\* jobs.ts: a job that has been dispatched cannot be recalled, DELETE rejects it.
CancelOnlyUnstarted ==
  [][\A j \in Jobs :
       status'[j] = "cancelled" /\ status[j] # "cancelled" =>
         status[j] = "pending"]_vars

\* worker-hub: a rejected job's lease is deleted and it returns to pending, so
\* that it can be dispatched again (an insert that a leftover row refuses).
PendingHasNoLease ==
  \A j \in Jobs : status[j] = "pending" => lease[j] = NoLease

\* DECISIONS D3: stale workers are rejected by their token, so a lease that has
\* not expired ends only by an answer to the dispatch it was issued for.
LiveLeaseIsFenced ==
  [][\A j \in Jobs :
       /\ lease[j] # NoLease
       /\ ~lease[j].expired
       /\ lease'[j] = NoLease
       => answer'[lease[j].token] # "none"]_vars
=============================================================================
