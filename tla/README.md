# Verification of the distributed job dispatcher

TLA+ models, TLC runs and TLAPS proofs for the dispatcher in `src/`: three
leaderless coordinators that share one Postgres database, hand jobs to workers
over WebSockets under fenced leases, and accept one result per job.

Source paths below are relative to the repository (`src/coordinator/...`).

## 1. Inventory

| Component | State | Operations |
|---|---|---|
| Job and lease tables (`db/migrations`, `coordinator/db/entities`) | `Jobs`, `Leases` (one row per job), `fencing_seq`, and the audit tables `LeaseHistory`, `CommitAttempts`, `JobTransitions` | written by everything below |
| Dispatch (`dispatch.service.ts`) | a 200 ms loop; during a tick, a snapshot of registrations | `tryDispatchOne`: pick a pending job with SKIP LOCKED, draw a token, write lease, status and history in one transaction, then send |
| Lease reaper (`lease-reaper.service.ts`) | a 5 s loop | requeue dispatched jobs whose lease has expired |
| Worker hub (`worker-hub.service.ts`) | registrations by worker, with socket, limit and an `inFlight` counter | `onHello`, `onResult`, `onFailed`, `onHeartbeat`, `onPong`, `pingAll`, `deregister`, `setConcurrency` |
| Job API (`routes/jobs.ts`) | none | submit (idempotent), read, cancel, stream |
| Worker (`worker/worker.ts`) | in-flight map with retry and heartbeat timers, concurrency limit, socket | execute, send and retry results, heartbeat, reject at capacity, reconnect |
| Chaos faults (`chaos.service.ts`, `data-source.ts`) | fault deadlines and counters | pause dispatch, drop acks, refuse queries, skew the clock |
| Audit, statistics, bootstrap, repositories | none | read and format |

**Interaction.** Coordinators never talk to each other; they meet in the
database. A worker holds one connection to some coordinator and may come back
on another one, so two handlers of the same worker's messages can run on two
coordinators. Handlers are asynchronous functions: everything between two
`await`s is atomic within a process, everything else interleaves.

**What is hard.** A handler decides on rows read before an `await` (`onResult`,
`DELETE`); `onFailed` runs statements that may match and lock nothing; leases
expire while the worker is alive; results are retried after dropped acks;
coordinators are killed between a commit and the message that should follow;
tokens and timestamps are drawn concurrently; two coordinators insert the same
idempotency key; a worker's connection is replaced while a hello, an answer or a
dispatch tick that has seen the old one is still under way; leases are set and
judged by coordinators whose clocks differ. `PROJECT.json` lists each of these at its line under
"hazards".

**What makes it correct.** Tokens of a job only grow and the lease always has
the newest; at most one commit is accepted, with that token; a dispatched job
can always be recovered; an ack means a commit; the audit tables agree with
what happened; a key has one job and all answers name it; a worker executes an
unfinished job once at a time and frees every slot; a worker whose connection
lasts is registered, its limit agreed and its capacity given back; a lost lease
is recovered in bounded time, and a live one is lost only by a silence.

## 2. Modules

| Module | Models | State and actions |
|---|---|---|
| `FencedJobs` | the abstract promise: `Create`, `Grant`, `Accept`, `Requeue`, `Fail`, `Cancel`, `SkipToken` | `status`, `last`, `issued`, `accepted` |
| `LeaseService` | the contract between the coordinators and one worker: `Lease`, `SkipToken`, `Succeed` and who may be acknowledged (`Ackable`) on one side, `Deliver` and `Refuse` on the other | tokens, leases of the worker, what it answered, jobs done |
| `TokenSource` | what a dispatch needs of its token: `Issue`, `Skip` | the last token, the committed rows with their issue times |
| `JobRegister` | what `POST /jobs` promises: `Make`, `Repeat` | the job of each key, the answers |
| `JobLeases` | the tables and every transaction on them | one variable per table; a *slot* is one message handler under way on any coordinator, its `pc` the statement it waits at |
| `FencingClock` | the token statement inside the dispatch transaction | advisory lock, sequence, clock, the values a session has drawn |
| `JobSubmission` | `POST /jobs` | committed rows, requests with the query they are at, successful answers |
| `WorkerService` | one worker process, with the coordinators as its environment | in-flight map, executions, heartbeat intervals, the wire |
| `WorkerHub` | one coordinator's registrations and its dispatch loop | each end's view of a connection, the stage of its hello, the registration of a worker, counters and limits per connection, the tick's snapshot |
| `LeaseTiming` | one lease in seconds | time it has left, time since the worker's heartbeat and each reaper's round, the coordinators' skews |
| `MCJobLeases`, `MCFencingClock`, `MCWorkerHub`, `MCLeaseTiming` | symmetry sets and instances for TLC | |
| `MCWorkerService` | an instance of `WorkerService` that records which executions were superseded | |
| `*Proofs`, `JobLeasesRefinement` | the theorems | |

The modules meet in two places. `JobLeases` takes a token and commits its
lease in one step; that `tryDispatchOne` may be seen so is what `FencingClock`
shows by implementing `TokenSource`. `WorkerService` sees the coordinators, and
`JobLeases` the workers, only through `LeaseService`; each is shown to keep its
side for any behaviour of the other that keeps the contract. That the two sides
fit together is an argument and not a theorem: an answer counts for the worker
when it is sent and for the tables when a handler takes it up, which is later, and
what was taken up was sent.

### Choices in `JobLeases`

* **Steps.** A transaction whose first effective statement locks the row that
  decides its outcome is one action: dispatch (`FOR UPDATE SKIP LOCKED` on the
  job), reaping (locks lease and job), the commit of a result (its `DELETE`
  locks the lease). `onFailed` is not: if its `DELETE` matches no row nothing is
  locked, and under READ COMMITTED another transaction may commit before the
  `UPDATE`, and again before the history statement. Those are the actions
  `OnFailed`, `OnFailedUpdate`, `OnFailedHistory` and `OnFailedTransition`; from
  the first statement that does match a row, the rest is one step. A lookup
  before a transaction is an action of its own (`OnResult`, `CancelRead`). The
  lookup of a lease that fails reads as no lease, so `OnResult` may take the
  re-ack branch although the lease is held.
* **Workers** are reduced to what they may answer to a dispatch that is on
  record: any number of `job.result`, or one `job.failed`, at any time. `answer`
  remembers which, because `worker.ts` never sends both for one token.
* **Time** is reduced to `expired`. `LeaseExpires` may happen at any instant,
  which covers skewed clocks, missed heartbeats and the 60 s and 15 s leases.
* **Crashes and refused queries** end a handler before its next query
  (`Abort`, `AbortCancel`); a crash or a dropped ack after the commit is the
  branch of `CommitWith` that does not acknowledge. A coordinator that dies
  between the commit of a dispatch and its send is a dispatch that is never
  answered.
* **`JobTransitions`** is kept as the last `ToStatus` of the job (`audited`), in
  the order of the inserts. `GET /audit` sorts by `AtMs`, the clock of whichever
  coordinator wrote the row, which may differ from it.
* **Timestamps, payloads and results** are left out.
* **A dispatch may pick any pending job.** The code takes the oldest that is
  not locked by another session. The model has more behaviours than the code
  here, which is safe for the invariants.

### `FencingClock`

`nextval` and `clock_timestamp()` are two steps that may come in either order,
as the comment in `tryDispatchOne` says. The lock is transaction-scoped: only
`Commit` and `Rollback` release it, and a rolled-back token is gone. The
server's clock is assumed not to be set back. `ReadClock` keeps the conversion
of the code (microseconds) and `Terminate` keeps its own (milliseconds).

### `JobSubmission`

The unique index is modelled by what it does: an `INSERT` waits while another
transaction holds an uncommitted row with the key, then inserts or fails with
23505. `jobRepo.get(..., false)` returns "no row" for a failed query, so both
lookups have a failing variant. A client whose answer was lost submits again.

### `WorkerService`

The coordinators appear as the environment that `LeaseService` allows: a job
that is not done may be leased again with a larger token, to anyone; a token may
be lost; a job is done once the holder of its newest token has delivered; a
delivered result of a done job may be acknowledged. `ServesWorkers` shows the
tables to be such an environment. No environment step is fair, so a dispatch or
an ack may be lost for ever. The wire may also reorder messages, which is more
than a WebSocket does. An answer counts when it is sent (`delivered`,
`refused`), unless it is lost; the tables count it when its handler runs
(`answer`).
`Restart` stands for SIGKILL and for `stop()` and exit.

### `WorkerHub`

* **Registrations are objects.** `onHello` creates one `WorkerState` per
  connection and a connection says hello once, so a `WorkerState` is identified
  with its connection. `workers` maps a worker to the one registered; the others
  live on in the tick's snapshot and in handlers that looked theirs up before an
  `await`. `Uncount` has both outcomes for those.
* **Two ends.** `link` is what the worker takes for its connection, `socket`
  what the coordinator sees of it. A worker may be on its next connection, or on
  a peer (`ConnectElsewhere`), while the old one still looks open here. `closing`
  is a socket that is no longer open and whose close event is still to run.
* **Awaits.** `OnHello` and `Register` are the two sides of the upsert.
  `TickStart`, `CommitLease` (or `NoJob`) and `SendJob` are a tick between its
  awaits. The rest of a handler is one action.
* **Refusals.** `refusing` is a spell in which no transaction of the loop
  commits, and `TurnRefusing` begins or ends one at any time: the dispatcher is
  paused, the database is partitioned, peers hold the locks, or the oldest
  pending job still has a lease and its insert fails at every tick (the state of
  `requeue_race`). The last may go on for ever.
* **Answers.** A dispatch that reaches the worker is owed one answer.
  `AnswerLost` is a transaction that is refused, or a duplicate dispatch the
  worker ignores; `StrayAnswer` is any message that counts without settling a
  dispatch of this connection, such as a retried result.
* The queue is a number. A rejected job does not come back to it, which only
  shortens ticks. `WorkerReg` is written and never read by the protocol and is
  left out; so are ping and pong but for what `pingAll` removes.

### `LeaseTiming`

`left` is `ExpiresAt` less the wall clock, so that times stay bounded; a skewed
coordinator adds its skew when it sets the lease and when it judges it. `Tick`
passes a second unless a timer is due. A heartbeat that does not reach the table
is `MissBeat`, as often in a row as it likes: a silence ends by a heartbeat, by
the end of the work, or by the reaper. `lost` covers every worker that will not
answer. The queries
themselves take no time. The coordinators are those that are up: one that is
down or partitioned is not counted on, and at least one is up.

## 3. Runs

| Run | Expect | Bounds | Distinct states |
|---|---|---|---|
| `job_leases` | pass | 2 jobs, 2 workers, 2 handlers, 1 cancelling client, 3 tokens | about 1,155,000 (with symmetry) |
| `cancel_race`, `requeue_race`, `stale_failure` | violation | 1 job, the same otherwise | |
| `fencing_clock` | pass | 3 sessions, 4 tokens, clock to 4 | about 74,000 (with symmetry) |
| `job_submission` | pass | 4 requests on 1 key, 3 ids | about 6,500 |
| `null_winner` | violation | the same | |
| `worker_service` | pass | 2 jobs, 3 tokens, 2 retries, limits 1 and 2 | about 191,000 |
| `superseded_result` | violation | 1 job, the same otherwise | |
| `worker_hub` | pass | 1 worker with 2 connections to the coordinator and any number to peers, 2 jobs, limits 1 and 2, 1 control message on its way | about 252,000 |
| `stale_snapshot` | violation | the same | |
| `lease_timing` | pass | the code's 60, 15, 5, 5 and 30 s, 2 coordinators, skews of -6, 0 and 6 s | about 616,000 (with symmetry) |

**Why the bounds are enough to be interesting.** Three tokens on two jobs allow
a job to be leased, lost, leased again and superseded once more while another
job is under way; two slots let a result race a retry, a late failure or a
result of another dispatch; one client suffices because two cancellations of a
job only repeat each other. Three sessions are a lock holder, one waiting and one
that has just committed. Four requests on a key are a holder of the key, one
waiting on it, one that lost and one at the lookup; requests on different keys
share nothing. Two retries stand for the five of the worker: the counter matters
at its first and last value. In `worker_hub`, connections of different workers
meet only in the order of a pass, and a connection matters to another one only
as the registered one or as one that has been replaced: two of one worker show
every race of a hello, a close, a ping and a tick between the old and the new.
Each connection is used once, so the coordinator sees one reconnect; a third
connection would replace the second as the second replaced the first. Two jobs
are a dispatch that is out and one whose transaction runs. In `lease_timing` the
durations are the real ones; two coordinators are one that sets the lease and one
that judges it; with skews of 6 s, set and judged with opposite signs, a worker
that sends every heartbeat can lose its lease, with equal ones it cannot, so both
sides of the bound occur. Silences and outages are not bounded: the reaper ends
them. The chaos service may set any skew, and `chaos_harness.py` uses -300 to
120 s; the theorems are for any. Tokens, clock and ids are bounded by the
constants `MaxToken`, `MaxClock` and `Ids`.

**Deadlock.** `JobLeases` may stop: all jobs are finished and no handler is
running. Its runs say `CHECK_DEADLOCK FALSE`. The other runs check deadlock.

**Fairness.** `JobLeases` and `FencingClock` are checked for safety only.
In `JobSubmission` each query that was sent is answered (weak fairness); an
INSERT waiting for a key that others take and give back is served eventually
(strong fairness), because Postgres queues the waiters of a row lock. In
`WorkerService` an execution settles, since `executeJob` waits for a timer, and
the retry timer of a waiting result fires. Nothing is assumed of the network,
the coordinators or the process staying up. In `WorkerHub` events that are due
are handled: messages and the query of an open connection (`OnHello`,
`Register`, `Answer`), close events, the ping and dispatch timers, which Node
fires again and again, and a send after its commit. A dispatch transaction
settles (`CommitLease` or `NoJob`, weak fairness), but nothing says that it ever
commits: a leftover lease of the oldest pending job makes it fail at every tick.
`JobsAreLeased` therefore has the end of the refusals as a premise. Connections,
closes, limit changes, lost answers and refusals are not fair. `LeaseTiming` needs none: its bounds are invariants, because time does
not pass a timer that is due.

### What the passing runs show

* `job_leases`: `DispatchedIsRecoverable`, `LeaseIsNewest`, `CommittedOnce`,
  `CommitIsNewest`, `OpenHistoryIsCurrent`, `AckedIsCommitted`,
  `AuditFollowsStatus`, `FinishedStaysFinished`, that the tables implement
  `FencedJobs` (`KeepsPromise`) and the coordinators' side of `LeaseService` for
  each worker (`ServesWorkers`). `ServesWorkers` sets apart the steps that write no table the mapping
  reads; it is `Service(w)!Spec` for every `w`, in a form TLC can evaluate.
* `fencing_clock`: token order is time order (`IssueOrder`) and the order in
  which leases become visible (`VisibleInOrder`); to the other sessions the
  token, its time and the row are one step (`TakesTokensAtomically`). A token
  that is drawn counts as taken when its transaction ends.
* `job_submission`: `OneJobPerKey`, `AnswersAgree`, that no request waits for
  ever (`EveryRequestEnds`), and that each is one atomic step to the clients
  (`IsAtomic`): "created" is said at most by the step that makes the key's job,
  "duplicate", even with null, only when there is one, and ids of different keys
  differ.
* `worker_service`: an unfinished job is executed at most once at a time
  (`OneExecution`), intervals are cleared with their entries
  (`HeartbeatIsOwned`), every in-flight entry leaves the map (`EntryLeaves`), the
  worker answers no dispatch both by a result and by a failure (`KeepsContract`),
  and it does not go on with one it refused (`RefusedIsOver`). How it keeps to
  one execution, by ignoring the newer dispatch, is what `superseded_result`
  is about.
* `worker_hub`: the limits agree once messages have arrived (`LimitAgrees`);
  the hub never thinks a worker busier than it is, but for lost answers
  (`CountIsBacked`), and gives the capacity back (`CapacityReturns`); an open
  connection whose hello was handled is the registered one, so that a worker is
  never connected and forgotten (`OpenIsRegistered`); a
  connection that lasts ends up registered, however hellos and closes of older
  ones interleave (`LiveIsRegistered`), and one that closed during its own hello
  does not stay (`ClosedIsRemoved`); all pending jobs are leased if a
  worker keeps having room and the refusals end (`JobsAreLeased`).
* `lease_timing`: a lost lease is requeued after at most the first TTL, the two
  skews and a reaper round (`RecoveryBound`, 77 s here), or the heartbeat's TTL
  instead once there was one (`BeatenRecoveryBound`, 32 s); the lease of a worker
  at work is found expired only after a silence longer than 15 s less the skews
  of the clocks that set and judge it (`OnlySilentIsReaped`); a lost lease is
  reported as stuck in time (`LostIsReported`).

### What the violation runs show

* `cancel_race`: `DELETE /jobs/:id` checks for pending, then updates without a
  condition. A job dispatched in between is cancelled although the comment says
  409; its result is then refused, and its lease stays until the worker answers.
* `requeue_race`: a late capacity rejection whose `DELETE` found no lease can
  requeue the job's *next* dispatch. The job is pending and still has a lease, so
  every dispatch of it fails on the primary key, and the reaper looks only at
  dispatched jobs. A later answer to that dispatch that deletes the row is the
  only way out.
* `stale_failure`: `onFailed` deletes the lease by job alone, so fencing by
  token, which `DECISIONS.md` claims of every stale worker, does not cover it.
* `superseded_result`: the comment above `WorkerService` says that a superseded
  result is discarded and not sent. `handleDispatch` ignores the newer dispatch of
  a job in flight, so the entry keeps the older token, the check before the send
  finds nothing superseded, and the result goes out, and is retried, under the
  older token. The coordinators refuse it. The newer dispatch is never answered,
  heartbeats with the old token do not extend its lease, and the job waits for
  the reaper. The "token superseded" branch is reached only for jobs that are
  done, after an ack has removed their entry.
* `null_winner`: a duplicate submission can be answered 200 with
  `job_id: null`.
* `stale_snapshot`: a worker reconnects while a tick waits for a transaction. The
  tick goes on checking the counter of the replaced `WorkerState`, and `sendJob`
  increments the new one, so the tick leases jobs to the worker past its limit
  until the queue is empty, although the comment says until all workers are at
  capacity. The worker rejects what it cannot take and the rejected jobs become
  pending again under the same tick.

Two further observations are built into `AuditFollowsStatus`, as the exceptions
it names: a capacity rejection requeues a job without a `JobTransitions` row, and
a late `job.failed` inserts a `failed` transition for a job it did not change.
`OpenHistoryIsCurrent` names a third: a cancelled job can leave a history row
open for ever. A fourth needs no interleaving: `IssuedAtMs` is stored in
microseconds (`dispatch.service.ts:123`) and `TerminatedAtMs` in milliseconds,
and `GET /audit` returns them as `issued_at_ms` and `expired_at_ms`.

Observations on `WorkerHub` and `LeaseTiming`, seen while modelling:

* The same loop has no way out when the worker has only *disconnected*: its
  counter never grows because every send fails, and all pending jobs are leased
  to a worker that is gone. Each is recovered, after up to `RecoveryBound`.
* A limit that is lowered while a dispatch transaction runs does not stop its
  send, since `sendJob` does not check again; the worker rejects the job.
* The answer to a dispatch that came on an earlier connection is counted against
  the current one, whose counter may then be below the worker's load. So the hub
  can overrun a worker, which the worker's own check turns into a requeue;
  `CountIsBacked` is the direction that would starve it.
* `README.md` and `DECISIONS.md` give 20 s for the recovery of a killed worker.
  That is `BeatenRecoveryBound` without skew. Before the first heartbeat, that
  is within 5 s of a dispatch or when a send failed, it is 65 s.
* `DECISIONS.md:24` says that "a healthy worker keeps its lease alive
  indefinitely", and `README.md:105` gives 0 s of recovery "if blip < 15s". What
  the code keeps is `OnlySilentIsReaped`. With clocks that agree, the *silence*
  must stay below 15 s, which a connection that is down for a little more than
  10 s can exceed, since it can swallow three heartbeats in a row. With the skews
  of `chaos_harness.py` the bound is below zero and says nothing: a coordinator
  that is 180 s ahead finds every lease of the others expired.
* With `stuck>30s` the statistics count every lease with a heartbeat, since its
  `ExpiresAt` is at most 15 s away; `LostIsReported` is the direction they keep.

## 4. Proofs

All theorems are for arbitrary sets of jobs, workers, handlers, clients,
sessions, requests, keys, workers and connections, any durations and any bound
on the sequence. The assumptions are
the ones named in the modules: bounds are naturals, and the null values differ
from real ones.

* **`JobLeasesProofs`.** `IInv` is the conjunction of the type invariant, the
  seven safety invariants and two facts. `HistoryBounded` (no recorded token is
  ahead of the sequence) makes the next token the largest; without it
  `LeaseIsNewest` is not preserved by a dispatch. `CancelsExisting` (a
  cancellation has read a job that exists) is what the refinement needs of a
  cancellation. The invariants support each other: a commit is unique because
  it needs a dispatched job, and `CommittedOnce` says that a dispatched job has
  no commit; it is newest because it takes the token of the lease
  (`LeaseIsNewest`); a dispatch cannot overtake it because a job with a commit
  is not pending. Each action has a lemma; the reaper and `onFailed` share one
  about closing history rows. Theorems: `TypeCorrectness`, `Recoverability`,
  `Fencing`, `SingleCommit`, `NoStaleCommit`, `HistoryClosure`, `AckSafety`,
  `AuditTrail`.
* **`JobLeasesRefinement`.** Under the mapping *tokens issued* = the fences in
  `LeaseHistory`, *token accepted* = the fence in `CommitAttempts`, each step is
  a step of `FencedJobs` or changes nothing it sees (`Refinement`). The proof
  uses `IInv`; in particular the accepted token is the largest issued because
  the lease has it. `Finality` is the action property `FinishedStaysFinished`.
  The second half shows `LeaseService` for any worker (`WorkersAreServed`, and
  for all at once `ServiceRefinement`), under the mapping *leases* = the
  worker's rows of `LeaseHistory`, *delivered* and *refused* = those answered.
  It needs more than `IInv`: a token names one dispatch (`FenceIsUnique`), a
  handler of a result works for a dispatch on record that was answered so
  (`ResultIsOnRecord`), and only drawn tokens are answered (`AnsweredIsDrawn`),
  so that a fresh token is unanswered. The commit serves the worker because the
  token of the lease is the largest on record and its holder delivered. A part
  of the same invariant is the lemma `AcksGoToResults`: an ack goes to a worker
  that delivered a result of the job.
* **`FencingClockProofs`.** Only the holder of the lock has drawn anything;
  what it has drawn is the sequence's last value, above all that is committed,
  and its time is not after the clock. Hence `TokenOrderIsTimeOrder` and
  `CommitsFollowTokens`. Since at most one token is drawn and not yet taken or
  lost, the sequence less that one is a token source whose `Issue` is the
  commit and whose `Skip` is the rollback: `TokensAreTakenAtomically`.
* **`JobSubmissionProofs`.** A key is held by at most one uncommitted row, and
  only while no committed row has it. Hence `Deduplication` and `Idempotency`.
  With ids that are unique over committed and uncommitted rows (`IdIsUnique`)
  and a committed job behind every request that met a conflict
  (`WinnerIsThere`), each step is a step of `JobRegister` or changes neither the
  table nor the answers: `Atomicity`.
* **`WorkerServiceProofs`.** The worker's properties rest on facts about the wire
  and its environment: a dispatch on the wire was leased to this worker, an
  acknowledgement on it is of a job that is done, and a waiting entry has no
  execution left. An ack names only the job; that it never removes the entry of
  an unfinished job is `AckedIsDone`, and so each execution of one keeps its entry
  (`RunningIsHeld`). Hence `JobRunsOnce`, `HeartbeatsAreOwned` and `WorkerTypeCorrect`. The contract needs `AnswerInv`:
  a dispatch that was not sent, or is still on the wire, is neither running nor
  held nor answered; one that runs is not answered yet; one that was refused is
  not held. Each dispatch is sent once, and its token is fresh because the
  leases are behind the sequence (`LeasesAreDrawn`). Hence `RefusalsAreFinal` and
  `ContractIsKept`.
* **`WorkerHubProofs`.** `HubInv` adds to the three invariants that a connection
  whose hello is not through has no registration and a zero counter (`Fresh`), that
  workers hold and are registered with connections of their own (`Owned`), that
  no control message is on its way on a connection its worker does not hold
  (`Quiet`), and that a committed lease has an entry it is for (`Served`).
  `LimitsAgree` needs `Quiet` when a worker connects: the limit in its hello is
  its own and nothing is on its way. `CountsAreBacked` needs `Fresh` there: the
  counter of a new connection is zero. `HubTypeCorrect` includes that counters
  never go below zero. `OpenConnectionsAreRegistered` holds because `onHello`
  closes a replaced socket in the same stretch as it registers the new one, and
  `deregister` removes only the connection it is for.
* **`LeaseTimingProofs`.** `TimeInv` bounds `left + lostFor` from above by what
  the last renewal set (`Spent`), and `left` from below by the time since a
  reaper saw the lease unexpired (`Judged`); the two meet in
  `LossIsRecovered` and `BeatenLossIsRecovered`. `Renewed` bounds what is left to
  a worker at work by its silence, which gives `SilenceLosesTheLease`.
  `LossesAreReported` follows from `Spent`. The assumptions are that a
  coordinator is up and that the heartbeat's TTL is not above the first one; the
  skews and the outages may be anything.

Only model-checked: the liveness properties `EveryRequestEnds`, `EntryLeaves`,
`LiveIsRegistered`, `ClosedIsRemoved`, `CapacityReturns` and `JobsAreLeased`
(fairness and ENABLED are outside the prover). Every invariant, action
property and refinement of a passing run is proved.

## 5. Not modelled

* Read-only endpoints (`GET /jobs/:id`, `/audit`, `/stats` but for its count of
  stuck leases), formatting, logging, configuration, bootstrap, the harness and
  the deployment files hold no protocol state.
* The SSE stream of `routes/jobs.ts` reads a job and writes to its own response.
  Its polls may overlap and its deadline may end the response under a poll, and
  what a write to an ended response does is up to Node: a model could only
  repeat an assumption about it.
* The `WorkerReg` table, ping and pong: written, and read by the statistics only.
* The deadlines and counters of the chaos faults, except the clock skew: each
  fault's effect is a step that may happen at any time.

## 6. Plan

1. The safety part of `ClosedIsRemoved` and `CapacityReturns` (which steps may
   take a registration away, which give a slot back) as action properties with
   proofs.
2. A composition of `JobLeases` with a live worker, for liveness: a submitted job
   is eventually finished when faults stop. It stays with TLC.
