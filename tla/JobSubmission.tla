--------------------------- MODULE JobSubmission ---------------------------
(***************************************************************************)
(* POST /jobs on any of the coordinators: look the idempotency key up,     *)
(* insert the job in a transaction, and after a unique violation read the  *)
(* winner.  Each query is a step.  The INSERT takes the key in the unique  *)
(* index when it runs and publishes the row when its transaction commits;  *)
(* in between, another INSERT of the same key waits for the outcome.       *)
(*                                                                         *)
(* A query may fail (a refused or lost connection), and the coordinator or *)
(* the client's connection may go at any point; a client that got no       *)
(* answer submits again.  Requests that fail the validation of the body    *)
(* are answered 400 before any query and are left out.                     *)
(***************************************************************************)
EXTENDS Naturals, FiniteSets

CONSTANTS
  Requests,   \* concurrent requests
  Keys,       \* idempotency keys
  Ids,        \* JobIDs the database generates
  NoRequest,  \* no request under way
  NoId        \* job_id null

\* A committed row of Jobs.
Row == [key : Keys, id : Ids]

\* The query a request is about to make; id is that of its uncommitted row.
Request == [pc : {"lookup", "insert", "commit", "winner"}, key : Keys, id : Ids \cup {NoId}]

\* 201 JOB_CREATED or 200 JOB_DUPLICATE.
Answer == [key : Keys, code : {"created", "duplicate"}, id : Ids \cup {NoId}]

ASSUME NullAssumption == NoId \notin Ids /\ NoRequest \notin Request
\* A fresh id is always left: one per key for its row and one for an INSERT.
ASSUME IdAssumption == Cardinality(Ids) >= 2 * Cardinality(Keys)

VARIABLES
  jobs,     \* committed rows of Jobs
  request,  \* the requests under way
  answers   \* responses with success = true

vars == <<jobs, request, answers>>

TypeOK ==
  /\ jobs \in SUBSET Row
  /\ request \in [Requests -> Request \cup {NoRequest}]
  /\ answers \in SUBSET Answer

Init ==
  /\ jobs = {}
  /\ request = [r \in Requests |-> NoRequest]
  /\ answers = {}

-----------------------------------------------------------------------------
At(r, pc) == request[r] # NoRequest /\ request[r].pc = pc

GoTo(r, pc, id) ==
  request' = [request EXCEPT ![r] = [pc |-> pc, key |-> request[r].key, id |-> id]]

Respond(r, code, id) ==
  /\ answers' = answers \cup {[key |-> request[r].key, code |-> code, id |-> id]}
  /\ request' = [request EXCEPT ![r] = NoRequest]

\* The committed job of a request's key, as jobRepo.get finds it.
Existing(r) == {job \in jobs : job.key = request[r].key}

\* Keys and ids of rows that are inserted and not yet committed.
Uncommitted == {q \in Requests : At(q, "commit")}

Submit(r, k) ==
  /\ request[r] = NoRequest
  /\ request' = [request EXCEPT ![r] = [pc |-> "lookup", key |-> k, id |-> NoId]]
  /\ UNCHANGED <<jobs, answers>>

\* The idempotency lookup.  jobRepo.get turns a failed query into "no row".
Lookup(r) ==
  /\ At(r, "lookup")
  /\ \/ \E job \in Existing(r) : Respond(r, "duplicate", job.id)
     \/ /\ Existing(r) = {}
        /\ GoTo(r, "insert", NoId)
        /\ UNCHANGED answers
  /\ UNCHANGED jobs

LookupFails(r) ==
  /\ At(r, "lookup")
  /\ GoTo(r, "insert", NoId)
  /\ UNCHANGED <<jobs, answers>>

FreshIds == Ids \ ({job.id : job \in jobs} \cup {request[q].id : q \in Uncommitted})

\* Mutant: no UNIQUE(IdempotencyKey), the lookup alone has to find duplicates.
InsertUnchecked(r) ==
  /\ At(r, "insert")
  /\ \E id \in FreshIds : GoTo(r, "commit", id)
  /\ UNCHANGED <<jobs, answers>>

\* INSERT INTO Jobs, once no other transaction holds the key: 23505 if the
\* key is there.
Insert(r) ==
  /\ At(r, "insert")
  /\ \A q \in Uncommitted : request[q].key # request[r].key
  /\ \/ Existing(r) # {} /\ GoTo(r, "winner", NoId)
     \/ /\ Existing(r) = {}
        /\ \E id \in FreshIds : GoTo(r, "commit", id)
  /\ UNCHANGED <<jobs, answers>>

\* Mutant: the 201 is sent and the transaction is left to commit later, or not.
RespondBeforeCommit(r) ==
  /\ At(r, "commit")
  /\ Respond(r, "created", request[r].id)
  /\ \/ jobs' = jobs \cup {[key |-> request[r].key, id |-> request[r].id]}
     \/ UNCHANGED jobs

\* The transaction (the row and its first JobTransitions row) commits and 201
\* is sent, unless the coordinator or the client's connection is gone by then.
Commit(r) ==
  /\ At(r, "commit")
  /\ jobs' = jobs \cup {[key |-> request[r].key, id |-> request[r].id]}
  /\ \/ Respond(r, "created", request[r].id)
     \/ request' = [request EXCEPT ![r] = NoRequest] /\ UNCHANGED answers

\* Mutant: a conflict sends the request back to its insert.
WinnerRetries(r) ==
  /\ At(r, "winner")
  /\ GoTo(r, "insert", NoId)
  /\ UNCHANGED <<jobs, answers>>

\* After 23505: read the job that won and answer with it.
Winner(r) ==
  /\ At(r, "winner")
  /\ \E job \in Existing(r) : Respond(r, "duplicate", job.id)
  /\ UNCHANGED jobs

\* winner?.JobID ?? null
WinnerFails(r) ==
  /\ At(r, "winner")
  /\ Respond(r, "duplicate", NoId)
  /\ UNCHANGED jobs

\* The insert transaction fails and is answered 500, or the coordinator is
\* killed: an uncommitted row is rolled back.
Fail(r) ==
  /\ request[r] # NoRequest
  /\ request' = [request EXCEPT ![r] = NoRequest]
  /\ UNCHANGED <<jobs, answers>>

Step(r) ==
  \/ Lookup(r) \/ LookupFails(r)
  \/ Commit(r)
  \/ Winner(r) \/ WinnerFails(r)

Next ==
  \E r \in Requests :
    \/ \E k \in Keys : Submit(r, k)
    \/ Step(r)
    \/ Insert(r)
    \/ Fail(r)

\* A query that was sent is answered.  Postgres queues the waiters of a key,
\* so an INSERT is not overtaken for ever.
Fairness == \A r \in Requests : WF_vars(Step(r)) /\ SF_vars(Insert(r))

Spec == Init /\ [][Next]_vars /\ Fairness

-----------------------------------------------------------------------------
(* Properties *)

\* Idempotency as a client sees it: all answers for a key, from any
\* coordinator and in any interleaving of lookup and insert, name the same job,
\* and that job is committed.
AnswersAgree ==
  \A a \in answers : a.id # NoId =>
    /\ [key |-> a.key, id |-> a.id] \in jobs
    /\ \A b \in answers : b.key = a.key /\ b.id # NoId => b.id = a.id

\* A key never has two jobs, so its work is dispatched once even if every
\* answer was lost, the client submitted again elsewhere, and both lookups
\* missed the other's uncommitted row or failed.
OneJobPerKey ==
  \A x, y \in jobs : x.key = y.key => x = y

\* The job of a key in the table.
MadeFor(k) ==
  IF \E job \in jobs : job.key = k
  THEN (CHOOSE job \in jobs : job.key = k).id ELSE NoId

Register == INSTANCE JobRegister WITH made <- [k \in Keys |-> MadeFor(k)], told <- answers

\* "race with another coordinator, return the winner": lookups, inserts and
\* conflicts of concurrent requests on any coordinators are to the clients
\* one atomic step per request, "created" is said at most by the step that
\* makes the key's job, and "duplicate", even with null, only after it.
IsAtomic == Register!Spec

\* No request waits for ever, however many submit the same key: the waiter of
\* a row that is rolled back inserts it, the waiter of a committed one is told.
EveryRequestEnds ==
  \A r \in Requests : request[r] # NoRequest ~> request[r] = NoRequest

\* README: POST /jobs "Returns existing job if key seen", so that every
\* successful answer names a job.
EveryAnswerNamesJob ==
  \A a \in answers : a.id # NoId
=============================================================================
