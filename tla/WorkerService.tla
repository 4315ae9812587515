--------------------------- MODULE WorkerService ---------------------------
(***************************************************************************)
(* One worker process: the in-flight map with its result retries and       *)
(* heartbeat intervals, the executions under way, and its WebSocket.       *)
(*                                                                         *)
(* The coordinators are the environment, reduced to their side of the      *)
(* contract LeaseService, which JobLeases keeps: a job that is not done    *)
(* may be leased again with a larger token, to this worker or to another;  *)
(* it is done when the holder of its newest token has delivered a result;  *)
(* a result for a done job is acknowledged.  job.dispatch is sent after    *)
(* the lease is committed, at any later time.                              *)
(*                                                                         *)
(* The wire may reorder messages, which the WebSocket does not, and loses  *)
(* them all when the connection goes.  An answer counts when it is sent,   *)
(* if it is not lost: the coordinators handle it at any later time.        *)
(***************************************************************************)
EXTENDS Naturals, FiniteSets

CONSTANTS
  Jobs,         \* JobIDs
  MaxToken,     \* bound on the fencing sequence
  MaxRetries,   \* MAX_RESULT_RETRIES
  Limits,       \* concurrency limits POST /workers/:id/concurrency may set
  ConfigLimit,  \* CONCURRENCY_LIMIT the process starts with
  NoEntry       \* no entry in the in-flight map

ASSUME RetryAssumption == MaxRetries \in Nat \ {0} /\ MaxToken \in Nat
ASSUME LimitAssumption == ConfigLimit \in Limits /\ Limits \subseteq Nat \ {0}

Tokens == 1..MaxToken

\* A dispatch of a job under a token.
Dispatches == Jobs \X Tokens

\* An InFlightJob; waiting stands for a result that is sent and its retryTimer armed.
Entry == [token : Tokens, retryCount : 0..(MaxRetries - 1), waiting : BOOLEAN]

ASSUME EntryAssumption == NoEntry \notin Entry

Message == [type : {"dispatch"}, job : Jobs, token : Tokens]
           \cup [type : {"ack"}, job : Jobs]
           \cup [type : {"limit"}, limit : Limits]

VARIABLES
  connected,         \* ws.readyState = OPEN
  concurrencyLimit,  \* the worker's limit
  inFlight,          \* the in-flight map
  running,           \* calls of executeJob that have not settled
  beating,           \* heartbeat intervals that are armed
  wire,              \* messages on their way to the worker
  seq,               \* last token issued
  leases,            \* dispatches leased to this worker
  unsent,            \* those whose job.dispatch is still to be sent
  newest,            \* the newest token of each job, 0 if none
  delivered,         \* leases this worker has answered by a job.result
  refused,           \* leases this worker has answered by a job.failed
  done               \* jobs that have succeeded

worker == <<concurrencyLimit, inFlight, running, beating>>
answers == <<delivered, refused>>
coordinators == <<seq, leases, unsent, newest, done>>
vars == <<connected, wire, answers, worker, coordinators>>

Service == INSTANCE LeaseService

TypeOK ==
  /\ connected \in BOOLEAN
  /\ concurrencyLimit \in Limits
  /\ inFlight \in [Jobs -> Entry \cup {NoEntry}]
  /\ running \subseteq Dispatches
  /\ beating \subseteq Dispatches
  /\ wire \subseteq Message
  /\ seq \in 0..MaxToken
  /\ leases \subseteq Dispatches
  /\ unsent \subseteq leases
  /\ newest \in [Jobs -> 0..MaxToken]
  /\ delivered \subseteq leases
  /\ refused \subseteq leases
  /\ done \subseteq Jobs

Init ==
  /\ connected = FALSE
  /\ concurrencyLimit = ConfigLimit
  /\ inFlight = [j \in Jobs |-> NoEntry]
  /\ running = {}
  /\ beating = {}
  /\ wire = {}
  /\ seq = 0
  /\ leases = {}
  /\ unsent = {}
  /\ newest = [j \in Jobs |-> 0]
  /\ delivered = {}
  /\ refused = {}
  /\ done = {}

-----------------------------------------------------------------------------
(* The coordinators *)

\* tryDispatchOne commits a lease of the job: to this worker, or to another.
LeaseJob(j, mine) ==
  /\ seq < MaxToken
  /\ Service!Lease(j, mine)
  /\ unsent' = IF mine THEN unsent \cup {<<j, seq + 1>>} ELSE unsent
  /\ UNCHANGED <<connected, wire, worker>>

\* tryDispatchOne fails after nextval.
SkipToken ==
  /\ seq < MaxToken
  /\ Service!SkipToken
  /\ UNCHANGED <<connected, wire, unsent, worker>>

\* sendJob, after the commit: false if the worker is not connected.
SendJob(d) ==
  /\ d \in unsent
  /\ unsent' = unsent \ {d}
  /\ wire' = IF connected
             THEN wire \cup {[type |-> "dispatch", job |-> d[1], token |-> d[2]]}
             ELSE wire
  /\ UNCHANGED <<connected, answers, worker, seq, leases, newest, done>>

\* The result under the newest token is committed, this worker's or another's.
Succeed(j) ==
  /\ Service!Succeed(j)
  /\ UNCHANGED <<connected, wire, unsent, worker>>

SendAck(j) ==
  /\ j \in Service!Ackable
  /\ connected
  /\ wire' = wire \cup {[type |-> "ack", job |-> j]}
  /\ UNCHANGED <<connected, answers, worker, coordinators>>

SetConcurrency(n) ==
  /\ connected
  /\ wire' = wire \cup {[type |-> "limit", limit |-> n]}
  /\ UNCHANGED <<connected, answers, worker, coordinators>>

-----------------------------------------------------------------------------
(* The worker *)

Held == {j \in Jobs : inFlight[j] # NoEntry}

\* inFlight.delete(jobId) together with clearInterval of the entry's heartbeat.
Remove(j) ==
  /\ inFlight' = [inFlight EXCEPT ![j] = NoEntry]
  /\ beating' = IF j \in Held THEN beating \ {<<j, inFlight[j].token>>} ELSE beating

\* this.send of a job.result: dropped if the socket is not open, and lost if
\* the connection goes before it arrives.
SendResult(j, t) ==
  /\ \/ UNCHANGED delivered
     \/ connected /\ delivered' = delivered \cup {<<j, t>>}
  /\ UNCHANGED refused

\* this.send of a job.failed, with temporary or without.
SendFailed(j, t) ==
  /\ \/ UNCHANGED refused
     \/ connected /\ refused' = refused \cup {<<j, t>>}
  /\ UNCHANGED delivered

\* The map takes the job, the heartbeat interval is armed, executeJob starts.
Accept(j, t) ==
  /\ inFlight' = [inFlight EXCEPT ![j] =
                    [token |-> t, retryCount |-> 0, waiting |-> FALSE]]
  /\ running' = running \cup {<<j, t>>}
  /\ beating' = beating \cup {<<j, t>>}
  /\ UNCHANGED concurrencyLimit

\* Mutant: a dispatch of a job that is in flight replaces its entry.
DispatchReplaces(m) ==
  /\ m \in wire /\ m.type = "dispatch"
  /\ wire' = wire \ {m}
  /\ \/ /\ Cardinality(Held) < concurrencyLimit
        /\ Accept(m.job, m.token) /\ UNCHANGED answers
     \/ /\ Cardinality(Held) >= concurrencyLimit
        /\ SendFailed(m.job, m.token) /\ UNCHANGED worker
  /\ UNCHANGED <<connected, coordinators>>

\* Mutant: a dispatch rejected at capacity is executed all the same.
RejectRuns(m) ==
  /\ m \in wire /\ m.type = "dispatch"
  /\ wire' = wire \ {m}
  /\ \/ m.job \in Held /\ UNCHANGED <<worker, answers>>
     \/ /\ m.job \notin Held
        /\ IF Cardinality(Held) < concurrencyLimit THEN UNCHANGED answers
           ELSE SendFailed(m.job, m.token)
        /\ Accept(m.job, m.token)
  /\ UNCHANGED <<connected, coordinators>>

\* handleDispatch: ignored if the job is in flight, rejected at capacity (a
\* job.failed with temporary), else executed.
HandleDispatch(m) ==
  /\ m \in wire /\ m.type = "dispatch"
  /\ wire' = wire \ {m}
  /\ \/ m.job \in Held /\ UNCHANGED <<worker, answers>>
     \/ /\ m.job \notin Held /\ Cardinality(Held) >= concurrencyLimit
        /\ SendFailed(m.job, m.token) /\ UNCHANGED worker
     \/ /\ m.job \notin Held /\ Cardinality(Held) < concurrencyLimit
        /\ Accept(m.job, m.token) /\ UNCHANGED answers
  /\ UNCHANGED <<connected, coordinators>>

\* handleAck: the ack names the job only.
HandleAck(m) ==
  /\ m \in wire /\ m.type = "ack"
  /\ wire' = wire \ {m}
  /\ Remove(m.job)
  /\ UNCHANGED <<connected, answers, concurrencyLimit, running, coordinators>>

HandleLimit(m) ==
  /\ m \in wire /\ m.type = "limit"
  /\ wire' = wire \ {m}
  /\ concurrencyLimit' = m.limit
  /\ UNCHANGED <<connected, answers, inFlight, running, beating, coordinators>>

\* executeJob resolves: the result is sent and its retry scheduled, or it is
\* discarded when the job's entry has gone or has another token; in the latter
\* case that entry is deleted too.
Finish(j, t) ==
  /\ <<j, t>> \in running
  /\ running' = running \ {<<j, t>>}
  /\ \/ /\ j \in Held /\ inFlight[j].token = t
        /\ inFlight' = [inFlight EXCEPT ![j].waiting = TRUE]
        /\ SendResult(j, t)
        /\ UNCHANGED beating
     \/ /\ ~(j \in Held /\ inFlight[j].token = t)
        /\ Remove(j)
        /\ UNCHANGED answers
  /\ UNCHANGED <<connected, wire, concurrencyLimit, coordinators>>

\* executeJob rejects: the entry is deleted and job.failed sent, once, or
\* nothing is done when the entry has gone or has another token.
Throw(j, t) ==
  /\ <<j, t>> \in running
  /\ running' = running \ {<<j, t>>}
  /\ IF j \in Held /\ inFlight[j].token = t THEN Remove(j) /\ SendFailed(j, t)
     ELSE UNCHANGED <<inFlight, beating, answers>>
  /\ UNCHANGED <<connected, wire, concurrencyLimit, coordinators>>

\* The retry timer of a job's result fires and count retries have been made.
RetryWith(j, count, giveUp) ==
  /\ j \in Held /\ inFlight[j].waiting
  /\ SendResult(j, inFlight[j].token)
  /\ \/ count < MaxRetries
        /\ inFlight' = [inFlight EXCEPT ![j].retryCount = count]
        /\ UNCHANGED beating
     \/ count >= MaxRetries /\ giveUp
  /\ UNCHANGED <<connected, wire, concurrencyLimit, running, coordinators>>

\* Mutant: the retries are not counted.
RetryForever(j) == RetryWith(j, inFlight[j].retryCount, FALSE)

\* Mutant: giving up leaves the heartbeat interval armed.
GiveUpKeepsBeat(j) ==
  RetryWith(j, inFlight[j].retryCount + 1,
            inFlight' = [inFlight EXCEPT ![j] = NoEntry] /\ UNCHANGED beating)

\* Mutant: the number of retries is not limited.
RetryUnlimited(j) ==
  RetryWith(j, inFlight[j].retryCount + 1,
            /\ inFlight' = [inFlight EXCEPT ![j].retryCount = inFlight[j].retryCount + 1]
            /\ UNCHANGED beating)

\* The timer of scheduleResultRetry: send again and, after the last retry,
\* give up at once.
Retry(j) == RetryWith(j, inFlight[j].retryCount + 1, Remove(j))

\* The socket closes (either end, or the network); connect() comes back later.
Disconnect ==
  /\ connected
  /\ connected' = FALSE
  /\ wire' = {}
  /\ UNCHANGED <<answers, worker, coordinators>>

Connect ==
  /\ ~connected
  /\ connected' = TRUE
  /\ UNCHANGED <<wire, answers, worker, coordinators>>

\* SIGKILL, or SIGTERM and stop(): the process starts again with nothing.
Restart ==
  /\ connected' = FALSE
  /\ concurrencyLimit' = ConfigLimit
  /\ inFlight' = [j \in Jobs |-> NoEntry]
  /\ running' = {}
  /\ beating' = {}
  /\ wire' = {}
  /\ UNCHANGED <<answers, coordinators>>

Coordinator ==
  \/ \E j \in Jobs, mine \in BOOLEAN : LeaseJob(j, mine)
  \/ \E d \in unsent : SendJob(d)
  \/ \E j \in Jobs : Succeed(j)
  \/ SkipToken
  \/ \E j \in Jobs : SendAck(j)
  \/ \E n \in Limits : SetConcurrency(n)

Settle(j, t) == Finish(j, t) \/ Throw(j, t)

Next ==
  \/ Coordinator
  \/ \E m \in wire : HandleDispatch(m) \/ HandleAck(m) \/ HandleLimit(m)
  \/ \E d \in running : Settle(d[1], d[2])
  \/ \E j \in Jobs : Retry(j)
  \/ Disconnect \/ Connect \/ Restart

\* executeJob settles (it waits for a timer), and timers fire.
Fairness ==
  /\ \A d \in Dispatches : WF_vars(Settle(d[1], d[2]))
  /\ \A j \in Jobs : WF_vars(Retry(j))

Spec == Init /\ [][Next]_vars /\ Fairness

-----------------------------------------------------------------------------
(* Properties *)

\* A job that is not done is executed at most once at a time on this worker,
\* however often it is dispatched to it and whatever acks are on the wire.  The
\* price is that a newer dispatch of a job in flight is ignored: the execution
\* goes on under the older token, and its result is refused (MCWorkerService).
OneExecution ==
  \A d, e \in running : d[1] = e[1] /\ d[1] \notin done => d = e

\* Every armed interval belongs to the entry of its own token, so each of the
\* ways out of the map clears its timer and intervals do not pile up.  (The
\* callback of an orphaned one would send nothing, since it looks the entry up.)
HeartbeatIsOwned ==
  \A d \in beating : d[1] \in Held /\ inFlight[d[1]].token = d[2]

\* The worker and the coordinators together keep the contract: no dispatch is
\* answered by a result and by a failure, whatever was lost, redispatched or
\* restarted in between, nor by two failures.
KeepsContract == Service!Spec

\* A dispatch that was answered by job.failed is over here too: the worker
\* neither works on it nor holds it, so what the coordinators requeue after a
\* rejection is not executed under the token that was rejected.
RefusedIsOver ==
  \A d \in refused :
    /\ d \notin running \cup beating \cup unsent
    /\ d[1] \in Held => inFlight[d[1]].token # d[2]
    /\ [type |-> "dispatch", job |-> d[1], token |-> d[2]] \notin wire

\* No capacity slot leaks: whatever happens to the connection, the acks and
\* the result messages, each entry is acknowledged, failed or given up.
EntryLeaves ==
  \A j \in Jobs : inFlight[j] # NoEntry ~> inFlight[j] = NoEntry
=============================================================================
