----------------------------- MODULE WorkerHub -----------------------------
(***************************************************************************)
(* The WorkerHubService of one coordinator and the dispatch loop that runs *)
(* over its registrations: hello, close and ping, the inFlight counters,   *)
(* the concurrency limits, and a tick that keeps its snapshot of           *)
(* WorkerState objects across its awaits.                                  *)
(*                                                                         *)
(* A WorkerState is created once per connection, so it is identified with  *)
(* the connection.  socket is the coordinator's view of a connection, link *)
(* the worker's: either end may be the first to see it go.  What happens   *)
(* to a job at the worker is WorkerService's business; here it is owed one *)
(* answer, which may be lost to a refused query, and may be repeated.      *)
(***************************************************************************)
EXTENDS Integers, Sequences

CONSTANTS
  Workers,      \* worker ids
  Conns,        \* connections they may open to this coordinator
  Owner,        \* the worker that opens a connection
  Jobs,         \* number of dispatches the queue has jobs for
  Limits,       \* concurrency limits POST /workers/:id/concurrency may set
  ConfigLimit,  \* CONCURRENCY_LIMIT a worker process starts with
  MaxControl,   \* bound on the control messages on their way
  NoConn,       \* no connection
  Elsewhere     \* a connection to another coordinator

ASSUME ConnAssumption ==
  /\ NoConn \notin Conns /\ Elsewhere \notin Conns /\ NoConn # Elsewhere
  /\ Owner \in [Conns -> Workers]
ASSUME NumberAssumption ==
  /\ Jobs \in Nat /\ MaxControl \in Nat
  /\ Limits \subseteq Nat \ {0} /\ ConfigLimit \in Limits

VARIABLES
  link,         \* the connection a worker holds
  workerLimit,  \* the limit a worker enforces
  socket,       \* readyState of a connection, and whether its close event has run
  hello,        \* how far the worker.hello of a connection has come
  workers,      \* the hub's map: the registered connection of a worker
  inFlight,     \* WorkerState.inFlight
  limit,        \* WorkerState.concurrencyLimit; before that, the one in the hello
  control,      \* control.set_concurrency messages on their way
  owed,         \* dispatches the worker got on a connection and has not answered
  unanswered,   \* dispatches on a connection whose only answer changed no counter
  queue,        \* pending jobs
  refusing,     \* dispatch transactions of this coordinator lease nothing
  available,    \* the tick's snapshot; {} between two ticks
  todo,         \* entries of it that come later in this pass
  serving,      \* the entry whose tryDispatchOne runs; NoConn between two ticks
  committed     \* its transaction has committed a lease

worker == <<link, workerLimit>>
hub == <<workers, inFlight, limit>>
answers == <<owed, unanswered>>
loop == <<queue, refusing, available, todo, serving, committed>>
vars == <<worker, socket, hello, hub, control, answers, loop>>

TypeOK ==
  /\ link \in [Workers -> Conns \cup {NoConn, Elsewhere}]
  /\ workerLimit \in [Workers -> Limits]
  /\ socket \in [Conns -> {"unused", "open", "closing", "closed"}]
  /\ hello \in [Conns -> {"none", "sent", "upserting", "done"}]
  /\ workers \in [Workers -> Conns \cup {NoConn}]
  /\ inFlight \in [Conns -> Nat]
  /\ limit \in [Conns -> Limits]
  /\ control \in [Conns -> Seq(Limits)]
  /\ owed \in [Conns -> Nat]
  /\ unanswered \in [Conns -> Nat]
  /\ queue \in 0..Jobs
  /\ refusing \in BOOLEAN
  /\ available \in SUBSET Conns
  /\ todo \in SUBSET available
  /\ serving \in available \cup {NoConn}
  /\ committed \in BOOLEAN

Init ==
  /\ link = [w \in Workers |-> NoConn]
  /\ workerLimit = [w \in Workers |-> ConfigLimit]
  /\ socket = [c \in Conns |-> "unused"]
  /\ hello = [c \in Conns |-> "none"]
  /\ workers = [w \in Workers |-> NoConn]
  /\ inFlight = [c \in Conns |-> 0]
  /\ limit = [c \in Conns |-> ConfigLimit]
  /\ control = [c \in Conns |-> << >>]
  /\ owed = [c \in Conns |-> 0]
  /\ unanswered = [c \in Conns |-> 0]
  /\ queue = Jobs
  /\ refusing = FALSE
  /\ available = {} /\ todo = {}
  /\ serving = NoConn
  /\ committed = FALSE

-----------------------------------------------------------------------------
(* The worker and the network *)

\* connect(): the socket opens and worker.hello is sent with the current limit.
Connect(c) ==
  LET w == Owner[c] IN
  /\ link[w] = NoConn
  /\ socket[c] = "unused"
  /\ link' = [link EXCEPT ![w] = c]
  /\ socket' = [socket EXCEPT ![c] = "open"]
  /\ hello' = [hello EXCEPT ![c] = "sent"]
  /\ limit' = [limit EXCEPT ![c] = workerLimit[w]]
  /\ UNCHANGED <<workerLimit, workers, inFlight, control, answers, loop>>

\* nginx routes the worker to a peer coordinator, which may change its limit.
ConnectElsewhere(w, n) ==
  /\ link[w] = NoConn
  /\ link' = [link EXCEPT ![w] = Elsewhere]
  /\ workerLimit' = [workerLimit EXCEPT ![w] = n]
  /\ UNCHANGED <<socket, hello, hub, control, answers, loop>>

\* The worker loses its connection: messages to it are gone, and what it was
\* given it answers on a later connection, if at all.
Unlink(w) ==
  LET c == link[w] IN
  /\ c # NoConn
  /\ link' = [link EXCEPT ![w] = NoConn]
  /\ IF c \in Conns
     THEN control' = [control EXCEPT ![c] = << >>] /\ owed' = [owed EXCEPT ![c] = 0]
     ELSE UNCHANGED <<control, owed>>
  /\ UNCHANGED <<socket, hello, hub, unanswered, loop>>

LoseLink(w) == Unlink(w) /\ UNCHANGED workerLimit

\* SIGKILL, or SIGTERM: the process starts again with nothing in flight.
RestartWorker(w) ==
  /\ Unlink(w)
  /\ workerLimit' = [workerLimit EXCEPT ![w] = ConfigLimit]

\* control.set_concurrency reaches the worker.
TakeLimit(w) ==
  LET c == link[w] IN
  /\ c \in Conns
  /\ control[c] # << >>
  /\ workerLimit' = [workerLimit EXCEPT ![w] = Head(control[c])]
  /\ control' = [control EXCEPT ![c] = Tail(@)]
  /\ UNCHANGED <<link, socket, hello, hub, answers, loop>>

\* The coordinator's end leaves OPEN: a reset, a close frame, an error.
SocketCloses(c) ==
  /\ socket[c] = "open"
  /\ socket' = [socket EXCEPT ![c] = "closing"]
  /\ UNCHANGED <<worker, hello, hub, control, answers, loop>>

-----------------------------------------------------------------------------
(* WorkerHubService *)

Open(c) == c # NoConn /\ socket[c] = "open"

\* onHello up to its await: setId, and the upsert of WorkerReg starts.
OnHello(c) ==
  /\ hello[c] = "sent"
  /\ socket[c] # "closed"
  /\ hello' = [hello EXCEPT ![c] = "upserting"]
  /\ UNCHANGED <<worker, socket, hub, control, answers, loop>>

\* Mutant: the registration takes over the limit of the one it replaces.
RegisterKeepsLimit(c) ==
  LET stale == workers[Owner[c]] IN
  /\ hello[c] = "upserting"
  /\ hello' = [hello EXCEPT ![c] = "done"]
  /\ socket' = IF Open(stale) /\ stale # c
               THEN [socket EXCEPT ![stale] = "closing"] ELSE socket
  /\ workers' = [workers EXCEPT ![Owner[c]] = c]
  /\ limit' = [limit EXCEPT ![c] = IF stale # NoConn THEN limit[stale] ELSE @]
  /\ UNCHANGED <<worker, inFlight, control, answers, loop>>

\* Mutant: the connection found registered is left open.
RegisterKeepsStale(c) ==
  /\ hello[c] = "upserting"
  /\ hello' = [hello EXCEPT ![c] = "done"]
  /\ workers' = [workers EXCEPT ![Owner[c]] = c]
  /\ UNCHANGED <<worker, socket, inFlight, limit, control, answers, loop>>

\* onHello after the upsert, which has an outcome even if the query failed:
\* close the connection it finds registered and register its own, open or not.
Register(c) ==
  LET stale == workers[Owner[c]] IN
  /\ hello[c] = "upserting"
  /\ hello' = [hello EXCEPT ![c] = "done"]
  /\ socket' = IF Open(stale) /\ stale # c
               THEN [socket EXCEPT ![stale] = "closing"] ELSE socket
  /\ workers' = [workers EXCEPT ![Owner[c]] = c]
  /\ UNCHANGED <<worker, inFlight, limit, control, answers, loop>>

\* Mutant: deregister by worker id, whatever connection is registered.
CloseEventAnyWs(c) ==
  /\ socket[c] = "closing"
  /\ socket' = [socket EXCEPT ![c] = "closed"]
  /\ workers' = IF hello[c] \in {"upserting", "done"}
                THEN [workers EXCEPT ![Owner[c]] = NoConn] ELSE workers
  /\ UNCHANGED <<worker, hello, inFlight, limit, control, answers, loop>>

\* The close event: deregister, if a hello has named the worker and this
\* connection is the one registered.
CloseEvent(c) ==
  /\ socket[c] = "closing"
  /\ socket' = [socket EXCEPT ![c] = "closed"]
  /\ workers' = IF hello[c] \in {"upserting", "done"} /\ workers[Owner[c]] = c
                THEN [workers EXCEPT ![Owner[c]] = NoConn] ELSE workers
  /\ UNCHANGED <<worker, hello, inFlight, limit, control, answers, loop>>

\* Mutant: pingAll pings the open sockets and leaves the others alone.
PingOnly == UNCHANGED vars

\* pingAll: registrations whose socket is not open are removed.
PingAll ==
  /\ workers' = [w \in Workers |-> IF Open(workers[w]) THEN workers[w] ELSE NoConn]
  /\ UNCHANGED <<worker, socket, hello, inFlight, limit, control, answers, loop>>

SetConcurrency(w, n) ==
  LET c == workers[w] IN
  /\ Open(c)
  /\ Len(control[c]) < MaxControl
  /\ limit' = [limit EXCEPT ![c] = n]
  /\ control' = IF link[w] = c THEN [control EXCEPT ![c] = Append(@, n)] ELSE control
  /\ UNCHANGED <<worker, socket, hello, workers, inFlight, answers, loop>>

\* Mutant: the counter is decremented without Math.max.
UncountBelowZero(c) == inFlight' = [inFlight EXCEPT ![c] = @ - 1]

\* state.inFlight = Math.max(0, state.inFlight - 1) of the sender's state.  If
\* its connection is not the registered one, the handler has a state only if it
\* looked that up before its awaits.
Uncount(c) ==
  \/ inFlight' = [inFlight EXCEPT ![c] = IF @ > 0 THEN @ - 1 ELSE 0]
  \/ workers[Owner[c]] # c /\ UNCHANGED inFlight

\* Messages the worker has sent on connection c are handled.
Hears(c) == socket[c] # "closed" /\ hello[c] = "done"

\* Mutant: a result without its lease is discarded before it is counted.
AnswerUncounted(c) ==
  /\ Hears(c)
  /\ owed[c] > 0
  /\ owed' = [owed EXCEPT ![c] = @ - 1]
  /\ \/ Uncount(c)
     \/ UNCHANGED inFlight
  /\ UNCHANGED <<worker, socket, hello, workers, limit, control, unanswered, loop>>

\* onResult or onFailed of a dispatch on this connection: every path counts it.
Answer(c) ==
  /\ Hears(c)
  /\ owed[c] > 0
  /\ owed' = [owed EXCEPT ![c] = @ - 1]
  /\ Uncount(c)
  /\ UNCHANGED <<worker, socket, hello, workers, limit, control, unanswered, loop>>

\* The transaction of the last answer is refused, or there is none because the
\* job was in flight already: the handler throws, or never runs.
AnswerLost(c) ==
  /\ link[Owner[c]] = c
  /\ owed[c] > 0
  /\ owed' = [owed EXCEPT ![c] = @ - 1]
  /\ unanswered' = [unanswered EXCEPT ![c] = @ + 1]
  /\ UNCHANGED <<worker, socket, hello, hub, control, loop>>

\* An answer that settles no dispatch of this connection: a result that is sent
\* again for want of an ack, or the answer to a dispatch that came on an earlier
\* connection or from another coordinator.
StrayAnswer(c) ==
  /\ Hears(c)
  /\ Uncount(c)
  /\ UNCHANGED <<worker, socket, hello, workers, limit, control, answers, loop>>

-----------------------------------------------------------------------------
(* DispatchService.tick *)

Idle == serving = NoConn

\* Mutant: one slot short of the limit.
SpareOneShort(S) == {c \in S : inFlight'[c] + 1 < limit[c]}

\* Entries of S with room, by the counters as they are after the step.
Spare(S) == {c \in S : inFlight'[c] < limit[c]}

\* tryDispatchOne starts for an entry of S.
Serve(S) ==
  /\ serving' \in Spare(S)
  /\ todo' = S \ {serving'}

EndTick == available' = {} /\ todo' = {} /\ serving' = NoConn

\* Dispatch transactions begin to fail, or cease to: the database is partitioned
\* from this coordinator, peers hold the locks of the pending jobs, or the oldest
\* of them still has its row in Leases (DispatchConflict of JobLeases), which
\* aborts the transaction of every tick.  A paused dispatcher leases nothing either.
TurnRefusing ==
  /\ refusing' = ~refusing
  /\ UNCHANGED <<worker, socket, hello, hub, control, answers,
                 queue, available, todo, serving, committed>>

\* getAvailableWorkers.  A tick that finds no worker ends at once.
TickStart ==
  /\ Idle
  /\ UNCHANGED <<worker, socket, hello, hub, control, answers, queue, refusing, committed>>
  /\ available' = Spare({c \in Conns : workers[Owner[c]] = c /\ Open(c)})
  /\ Serve(available')

\* tryDispatchOne commits the lease of a pending job for the entry's worker.
CommitLease ==
  /\ ~Idle /\ ~committed
  /\ queue > 0 /\ ~refusing
  /\ queue' = queue - 1
  /\ committed' = TRUE
  /\ UNCHANGED <<worker, socket, hello, hub, control, answers,
                 refusing, available, todo, serving>>

\* No pending job, or a query that failed: the tick returns.
NoJob ==
  /\ ~Idle /\ ~committed
  /\ queue = 0 \/ refusing
  /\ EndTick
  /\ UNCHANGED <<worker, socket, hello, hub, control, answers, queue, refusing, committed>>

\* sendJob to the connection that is registered by now, if it is open.  Either
\* way the loop goes on: with the next entry that has room, else with another
\* pass, which ends the tick when no entry has room.
SendJob ==
  LET w == Owner[serving]
      c == workers[w]
      rest == IF Spare(todo) # {} THEN todo ELSE available
  IN
  /\ committed
  /\ IF Open(c)
     THEN /\ inFlight' = [inFlight EXCEPT ![c] = @ + 1]
          /\ owed' = IF link[w] = c THEN [owed EXCEPT ![c] = @ + 1] ELSE owed
     ELSE UNCHANGED <<inFlight, owed>>
  /\ committed' = FALSE
  /\ IF Spare(rest) = {} THEN EndTick ELSE UNCHANGED available /\ Serve(rest)
  /\ UNCHANGED <<worker, socket, hello, workers, limit, control, unanswered,
                 queue, refusing>>

-----------------------------------------------------------------------------
WorkerStep(w) ==
  \/ LoseLink(w) \/ RestartWorker(w) \/ TakeLimit(w)
  \/ \E n \in Limits : ConnectElsewhere(w, n) \/ SetConcurrency(w, n)

ConnStep(c) ==
  \/ Connect(c) \/ SocketCloses(c)
  \/ OnHello(c) \/ Register(c) \/ CloseEvent(c)
  \/ Answer(c) \/ AnswerLost(c) \/ StrayAnswer(c)

Tick == TickStart \/ CommitLease \/ NoJob \/ SendJob

Next ==
  \/ \E w \in Workers : WorkerStep(w)
  \/ \E c \in Conns : ConnStep(c)
  \/ PingAll
  \/ Tick
  \/ TurnRefusing

\* Events that are due are handled: messages and queries of an open
\* connection, close events, the ping and dispatch timers, and the worker's
\* answers.  A dispatch transaction settles, but nothing makes it succeed:
\* TurnRefusing is as free as the losses of connections are.
Fairness ==
  /\ \A c \in Conns :
       /\ WF_vars(OnHello(c)) /\ WF_vars(Register(c)) /\ WF_vars(CloseEvent(c))
       /\ WF_vars(Answer(c))
  /\ WF_vars(PingAll)
  /\ WF_vars(TickStart) /\ WF_vars(CommitLease \/ NoJob) /\ WF_vars(SendJob)

Spec == Init /\ [][Next]_vars /\ Fairness

-----------------------------------------------------------------------------
(* Properties *)

\* Once its messages have arrived, the hub and a worker agree on the limit,
\* through reconnects, restarts and changes made by another coordinator: the
\* hub's limit is the last one on its way to the worker, or the worker's own.
LimitAgrees ==
  \A w \in Workers : link[w] \in Conns =>
    LET c == link[w] IN
    limit[c] = IF control[c] = << >> THEN workerLimit[w] ELSE control[c][Len(control[c])]

\* The hub never takes a worker for busier than it is, except for dispatches
\* whose answer was lost: those keep a slot occupied until the worker reconnects.
CountIsBacked ==
  \A c \in Conns : workers[Owner[c]] = c /\ link[Owner[c]] = c =>
                    inFlight[c] <= owed[c] + unanswered[c]

\* No worker is connected and forgotten: a connection whose hello has been
\* handled stays registered as long as it is open.  Of two connections of a
\* worker, in whatever order their hellos come out of the await, one is closed,
\* which makes that end reconnect.
OpenIsRegistered ==
  \A c \in Conns : hello[c] = "done" /\ Open(c) => workers[Owner[c]] = c

\* A worker whose connection lasts is registered with it for good: neither the
\* close event of an older connection, nor a hello of one that comes out of its
\* await late, takes the registration away.
LiveIsRegistered ==
  \A c \in Conns :
    <>[](link[Owner[c]] = c /\ socket[c] = "open") => <>[](workers[Owner[c]] = c)

\* A connection whose close event ran during its own onHello is registered
\* after it has closed; it does not stay registered.
ClosedIsRemoved ==
  \A c \in Conns :
    workers[Owner[c]] = c /\ socket[c] = "closed" ~> workers[Owner[c]] # c

\* On a connection that lasts, the capacity that dispatches have used returns,
\* all of it but what lost answers keep.
CapacityReturns ==
  \A c \in Conns :
    <>[](Hears(c) /\ link[Owner[c]] = c /\ workers[Owner[c]] = c) => <>[](inFlight[c] <= unanswered[c])

\* Once transactions are no longer refused and as long as some registered worker
\* has room, the loop leases every pending job: a tick that ended on a refusal, a
\* failed send or a snapshot of connections that are gone does not stop it.  That
\* the refusals end is a premise: a leftover lease at the head of the queue, or a
\* partition, may keep them up for ever, and then nothing is leased.
JobsAreLeased ==
  /\ <>[]~refusing
  /\ <>[](\E c \in Conns : workers[Owner[c]] = c /\ Open(c) /\ inFlight[c] < limit[c])
  => <>(queue = 0)

-----------------------------------------------------------------------------
(* A statement of the repository that the code does not keep *)

\* The comment in DispatchService.tick: the loop repeats until no more pending
\* jobs or all workers are at capacity.  It does not begin to dispatch another
\* job to a worker whose registration is at its limit by then.
StopsAtCapacity ==
  [][(Idle \/ (committed /\ ~committed')) /\ serving' # NoConn =>
       LET c == workers'[Owner[serving']] IN Open(c) => inFlight'[c] < limit'[c]]_vars
=============================================================================
