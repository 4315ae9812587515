------------------------ MODULE JobSubmissionProofs ------------------------
(***************************************************************************)
(* Idempotent submission, for any number of concurrent requests and keys.  *)
(* IdAssumption is not used: it is what liveness needs.                    *)
(***************************************************************************)
EXTENDS JobSubmission, TLAPS

\* The unique index: a key is held by one uncommitted row, and only while no
\* committed row has it.
KeyIsHeldOnce ==
  \A q \in Requests : At(q, "commit") =>
    /\ request[q].id \in Ids
    /\ Existing(q) = {}
    /\ \A r \in Requests : At(r, "commit") /\ request[r].key = request[q].key => r = q

IInv ==
  /\ TypeOK
  /\ KeyIsHeldOnce
  /\ OneJobPerKey
  /\ AnswersAgree

\* A response whose job is committed keeps all answers for the key in agreement.
LEMMA RespondAgrees ==
  ASSUME TypeOK, AnswersAgree, OneJobPerKey',
         NEW r \in Requests, request[r] # NoRequest,
         NEW code \in {"created", "duplicate"}, NEW id \in Ids \cup {NoId},
         jobs \subseteq jobs',
         id # NoId => [key |-> request[r].key, id |-> id] \in jobs',
         Respond(r, code, id)
  PROVE  AnswersAgree' /\ answers' \in SUBSET Answer
<1> DEFINE new == [key |-> request[r].key, code |-> code, id |-> id]
<1>1. /\ new \in Answer /\ new.key = request[r].key /\ new.id = id
      /\ answers' = answers \cup {new}
  BY DEF TypeOK, Request, Answer, Respond
<1> HIDE DEF new
<1>2. \A a \in answers' : a.id # NoId => [key |-> a.key, id |-> a.id] \in jobs'
  BY <1>1 DEF AnswersAgree
<1>3. ASSUME NEW a \in answers', NEW b \in answers',
             a.id # NoId, b.id # NoId, b.key = a.key
      PROVE  b.id = a.id
  <2> DEFINE x == [key |-> a.key, id |-> a.id]
             y == [key |-> b.key, id |-> b.id]
  <2>1. x \in jobs' /\ y \in jobs' /\ x.key = y.key
    BY <1>2, <1>3
  <2>2. x = y
    BY <2>1 DEF OneJobPerKey
  <2> QED
    BY <2>2
<1> QED
  BY <1>1, <1>2, <1>3 DEF AnswersAgree, TypeOK

\* A step that publishes no row and moves at most one request, not into
\* "commit", keeps the index and the table.
LEMMA RequestMoves ==
  ASSUME IInv, jobs' = jobs,
         NEW r \in Requests, NEW new,
         request' = [request EXCEPT ![r] = new],
         new = NoRequest \/ (new \in Request /\ new.pc # "commit")
  PROVE  /\ request' \in [Requests -> Request \cup {NoRequest}]
         /\ KeyIsHeldOnce' /\ OneJobPerKey'
<1>1. request' \in [Requests -> Request \cup {NoRequest}] /\ request'[r] = new
      /\ \A q \in Requests \ {r} : request'[q] = request[q]
  BY DEF IInv, TypeOK
<1>2. \A q \in Requests : At(q, "commit")' => q # r /\ At(q, "commit")
  BY <1>1 DEF At
<1> QED
  BY <1>1, <1>2 DEF IInv, KeyIsHeldOnce, OneJobPerKey, Existing

LEMMA SubmitIInv ==
  ASSUME IInv, NEW r \in Requests, NEW k \in Keys, Submit(r, k)
  PROVE  IInv'
<1> DEFINE new == [pc |-> "lookup", key |-> k, id |-> NoId]
<1>1. new \in Request /\ new.pc # "commit"
  BY DEF Request
<1>2. request' = [request EXCEPT ![r] = new] /\ UNCHANGED <<jobs, answers>>
  BY DEF Submit
<1> HIDE DEF new
<1> QED
  BY <1>1, <1>2, RequestMoves DEF IInv, TypeOK, AnswersAgree

\* GoTo another query than the commit.
LEMMA GoToIInv ==
  ASSUME IInv, NEW r \in Requests, request[r] # NoRequest,
         NEW pc \in {"lookup", "insert", "winner"}, GoTo(r, pc, NoId),
         UNCHANGED <<jobs, answers>>
  PROVE  IInv'
<1> DEFINE new == [pc |-> pc, key |-> request[r].key, id |-> NoId]
<1>1. new \in Request /\ new.pc # "commit"
  BY DEF IInv, TypeOK, Request
<1>2. request' = [request EXCEPT ![r] = new]
  BY DEF GoTo
<1> HIDE DEF new
<1> QED
  BY <1>1, <1>2, RequestMoves DEF IInv, TypeOK, AnswersAgree

\* A response to a request that publishes no row.
LEMMA RespondIInv ==
  ASSUME IInv, NEW r \in Requests, request[r] # NoRequest,
         NEW id \in Ids \cup {NoId}, Respond(r, "duplicate", id),
         id # NoId => [key |-> request[r].key, id |-> id] \in jobs,
         UNCHANGED jobs
  PROVE  IInv'
<1>1. request' = [request EXCEPT ![r] = NoRequest]
  BY DEF Respond
<1>2. /\ request' \in [Requests -> Request \cup {NoRequest}]
      /\ KeyIsHeldOnce' /\ OneJobPerKey'
  BY <1>1, RequestMoves
<1>3. AnswersAgree' /\ answers' \in SUBSET Answer
  BY <1>2, RespondAgrees DEF IInv
<1> QED
  BY <1>2, <1>3 DEF IInv, TypeOK

\* jobRepo.get finds a row with the request's key.
LEMMA ExistingIInv ==
  ASSUME IInv, NEW r \in Requests, request[r] # NoRequest,
         NEW job \in Existing(r), Respond(r, "duplicate", job.id), UNCHANGED jobs
  PROVE  IInv'
<1>1. job \in Row /\ job \in jobs /\ job.key = request[r].key
  BY DEF IInv, TypeOK, Existing
<1>2. job.id \in Ids /\ [key |-> request[r].key, id |-> job.id] = job
  BY <1>1 DEF Row
<1> QED
  BY <1>1, <1>2, RespondIInv

LEMMA InsertIInv ==
  ASSUME IInv, NEW r \in Requests, Insert(r)
  PROVE  IInv'
<1>1. CASE Existing(r) # {}
  BY <1>1, GoToIInv DEF Insert, At
<1>2. CASE Existing(r) = {}
  <2>1. PICK id \in Ids : GoTo(r, "commit", id)
    BY <1>2 DEF Insert, FreshIds
  <2> DEFINE new == [pc |-> "commit", key |-> request[r].key, id |-> id]
  <2>2. new \in Request /\ new.key = request[r].key /\ new.id = id
    BY DEF IInv, TypeOK, Request, Insert, At
  <2>3. request' = [request EXCEPT ![r] = new] /\ UNCHANGED <<jobs, answers>>
    BY <2>1 DEF GoTo, Insert
  <2> HIDE DEF new
  <2>4. TypeOK' /\ request'[r] = new /\ \A q \in Requests \ {r} : request'[q] = request[q]
    BY <2>2, <2>3 DEF IInv, TypeOK
  <2>5. \A q \in Requests \ {r} : At(q, "commit")' =>
          At(q, "commit") /\ request[q].key # request[r].key
    BY <2>4 DEF At, Insert, Uncommitted
  <2>6. KeyIsHeldOnce'
    <3> SUFFICES ASSUME NEW q \in Requests, At(q, "commit")'
                 PROVE  /\ request'[q].id \in Ids
                        /\ Existing(q)' = {}
                        /\ \A p \in Requests :
                             At(p, "commit")' /\ request'[p].key = request'[q].key => p = q
      BY DEF KeyIsHeldOnce
    <3>1. CASE q = r
      BY <1>2, <2>2, <2>3, <2>4, <2>5, <3>1 DEF Existing
    <3>2. CASE q # r
      BY <2>2, <2>3, <2>4, <2>5, <3>2 DEF IInv, KeyIsHeldOnce, Existing
    <3> QED
      BY <3>1, <3>2
  <2> QED
    BY <2>3, <2>4, <2>6 DEF IInv, OneJobPerKey, AnswersAgree
<1> QED
  BY <1>1, <1>2

\* The row that is published is the first of its key, as the index ensures.
LEMMA CommitIInv ==
  ASSUME IInv, NEW r \in Requests, Commit(r)
  PROVE  IInv'
<1> DEFINE row == [key |-> request[r].key, id |-> request[r].id]
<1>1. /\ request[r] # NoRequest /\ request[r] \in Request
      /\ request[r].id \in Ids /\ Existing(r) = {} /\ At(r, "commit")
      /\ \A q \in Requests \ {r} : At(q, "commit") => request[q].key # request[r].key
  BY DEF IInv, TypeOK, KeyIsHeldOnce, Commit, At
<1>2. row \in Row /\ row.key = request[r].key
  BY <1>1 DEF Row, Request
<1>3. jobs' = jobs \cup {row} /\ request' = [request EXCEPT ![r] = NoRequest]
  BY DEF Commit, Respond
<1>4. \A job \in jobs : job.key # row.key
  BY <1>1, <1>2 DEF Existing
<1> HIDE DEF row
<1>5. OneJobPerKey'
  BY <1>3, <1>4 DEF IInv, OneJobPerKey
<1>6. /\ request' \in [Requests -> Request \cup {NoRequest}]
      /\ \A q \in Requests : At(q, "commit")' =>
           q # r /\ At(q, "commit") /\ request'[q] = request[q]
  BY <1>3 DEF IInv, TypeOK, At
<1>7. KeyIsHeldOnce'
  BY <1>1, <1>2, <1>3, <1>6 DEF IInv, KeyIsHeldOnce, Existing
<1>8. AnswersAgree' /\ answers' \in SUBSET Answer
  <2>1. CASE Respond(r, "created", request[r].id)
    BY <1>1, <1>3, <1>5, <2>1, RespondAgrees DEF IInv, row
  <2>2. CASE UNCHANGED answers
    BY <1>3, <2>2 DEF IInv, TypeOK, AnswersAgree
  <2> QED
    BY <2>1, <2>2 DEF Commit
<1> QED
  BY <1>2, <1>3, <1>5, <1>6, <1>7, <1>8 DEF IInv, TypeOK

LEMMA FailIInv ==
  ASSUME IInv, NEW r \in Requests, Fail(r)
  PROVE  IInv'
BY RequestMoves DEF Fail, IInv, TypeOK, AnswersAgree

LEMMA NextIInv == IInv /\ [Next]_vars => IInv'
<1> SUFFICES ASSUME IInv, [Next]_vars PROVE IInv'
  OBVIOUS
<1>1. ASSUME NEW r \in Requests, Step(r) PROVE IInv'
  <2>1. CASE Lookup(r)
    BY <2>1, ExistingIInv, GoToIInv DEF Lookup, At
  <2>2. CASE LookupFails(r)
    BY <2>2, GoToIInv DEF LookupFails, At
  <2>3. CASE Winner(r)
    BY <2>3, ExistingIInv DEF Winner, At
  <2>4. CASE WinnerFails(r)
    BY <2>4, RespondIInv DEF WinnerFails, At
  <2> QED
    BY <1>1, <2>1, <2>2, <2>3, <2>4, CommitIInv DEF Step
<1>2. CASE UNCHANGED vars
  BY <1>2 DEF vars, IInv, TypeOK, KeyIsHeldOnce, OneJobPerKey, AnswersAgree, At, Existing
<1> QED
  BY <1>1, <1>2, SubmitIInv, InsertIInv, FailIInv DEF Next

-----------------------------------------------------------------------------
\* The unique index, the table and the answers agree in every reachable state.
THEOREM Invariance == Spec => []IInv
<1>1. Init => IInv
  BY NullAssumption DEF Init, IInv, TypeOK, KeyIsHeldOnce, OneJobPerKey, AnswersAgree, At
<1> QED
  BY <1>1, NextIInv, PTL DEF Spec

\* No interleaving, failed lookup, crash or retry gives a key two jobs.
THEOREM Deduplication == Spec => []OneJobPerKey
<1>1. IInv => OneJobPerKey
  BY DEF IInv
<1> QED
  BY <1>1, Invariance, PTL

\* Whatever coordinators answer for a key, they name the same committed job.
THEOREM Idempotency == Spec => []AnswersAgree
<1>1. IInv => AnswersAgree
  BY DEF IInv
<1> QED
  BY <1>1, Invariance, PTL

-----------------------------------------------------------------------------
(* Submission is atomic *)

\* gen_random_uuid: no two rows, committed or not, have the same id.
IdIsUnique ==
  /\ \A x, y \in jobs : x.id = y.id => x = y
  /\ \A q \in Requests : At(q, "commit") =>
       /\ \A job \in jobs : job.id # request[q].id
       /\ \A r \in Requests : At(r, "commit") /\ request[r].id = request[q].id => r = q

\* After 23505 the job that won is committed and stays.
WinnerIsThere ==
  \A q \in Requests : At(q, "winner") => \E job \in jobs : job.key = request[q].key

AtomInv == IdIsUnique /\ WinnerIsThere

\* A step that publishes no row and moves one request, not into "commit", and
\* into "winner" only if its key has a job.
LEMMA RequestMovesAtom ==
  ASSUME IInv, AtomInv, jobs' = jobs,
         NEW r \in Requests, NEW new,
         request' = [request EXCEPT ![r] = new],
         new = NoRequest \/ new.pc # "commit",
         new # NoRequest /\ new.pc = "winner" => \E job \in jobs : job.key = new.key
  PROVE  AtomInv'
<1>1. request'[r] = new /\ \A q \in Requests \ {r} : request'[q] = request[q]
  BY DEF IInv, TypeOK
<1>2. \A q \in Requests : At(q, "commit")' => q # r /\ At(q, "commit")
  BY <1>1 DEF At
<1>3. IdIsUnique'
  BY <1>1, <1>2 DEF AtomInv, IdIsUnique
<1>4. WinnerIsThere'
  BY <1>1 DEF AtomInv, WinnerIsThere, At
<1> QED
  BY <1>3, <1>4 DEF AtomInv

LEMMA InsertAtom ==
  ASSUME IInv, AtomInv, NEW r \in Requests, Insert(r)
  PROVE  AtomInv'
<1>1. CASE Existing(r) # {} /\ GoTo(r, "winner", NoId)
  <2> DEFINE new == [pc |-> "winner", key |-> request[r].key, id |-> NoId]
  <2>1. new.pc = "winner" /\ \E job \in jobs : job.key = new.key
    BY <1>1 DEF Existing
  <2>2. request' = [request EXCEPT ![r] = new] /\ jobs' = jobs
    BY <1>1 DEF GoTo, Insert
  <2> HIDE DEF new
  <2> QED
    BY <2>1, <2>2, RequestMovesAtom
<1>2. ASSUME NEW id \in FreshIds, GoTo(r, "commit", id) PROVE AtomInv'
  <2> DEFINE new == [pc |-> "commit", key |-> request[r].key, id |-> id]
  <2>1. new.pc = "commit" /\ new.id = id
    OBVIOUS
  <2>2. request' = [request EXCEPT ![r] = new] /\ jobs' = jobs
    BY <1>2 DEF GoTo, Insert
  <2> HIDE DEF new
  <2>3. request'[r] = new /\ \A q \in Requests \ {r} : request'[q] = request[q]
    BY <2>2 DEF IInv, TypeOK
  <2>4. /\ \A job \in jobs : job.id # id
        /\ \A q \in Requests : At(q, "commit") => request[q].id # id
    BY <1>2 DEF FreshIds, Uncommitted
  <2>5. \A q \in Requests \ {r} : At(q, "commit")' => At(q, "commit")
    BY <2>3 DEF At
  <2>6. IdIsUnique'
    BY <2>1, <2>2, <2>3, <2>4, <2>5 DEF AtomInv, IdIsUnique
  <2>7. WinnerIsThere'
    BY <2>1, <2>2, <2>3 DEF AtomInv, WinnerIsThere, At
  <2> QED
    BY <2>6, <2>7 DEF AtomInv
<1> QED
  BY <1>1, <1>2 DEF Insert

LEMMA CommitAtom ==
  ASSUME IInv, AtomInv, NEW r \in Requests, Commit(r)
  PROVE  AtomInv'
<1> DEFINE row == [key |-> request[r].key, id |-> request[r].id]
<1>1. At(r, "commit") /\ row.id = request[r].id
  BY DEF Commit
<1>2. jobs' = jobs \cup {row} /\ request' = [request EXCEPT ![r] = NoRequest]
  BY DEF Commit, Respond
<1> HIDE DEF row
<1>3. /\ request'[r] = NoRequest
      /\ \A q \in Requests \ {r} : request'[q] = request[q]
  BY <1>2 DEF IInv, TypeOK
<1>4. \A q \in Requests : At(q, "commit")' => q # r /\ At(q, "commit")
  BY <1>3 DEF At
<1>5. IdIsUnique'
  BY <1>1, <1>2, <1>3, <1>4 DEF AtomInv, IdIsUnique
<1>6. WinnerIsThere'
  BY <1>2, <1>3 DEF AtomInv, WinnerIsThere, At
<1> QED
  BY <1>5, <1>6 DEF AtomInv

LEMMA NextAtom == IInv /\ AtomInv /\ [Next]_vars => AtomInv'
<1> SUFFICES ASSUME IInv, AtomInv, [Next]_vars PROVE AtomInv'
  OBVIOUS
<1>1. ASSUME NEW r \in Requests, request' = [request EXCEPT ![r] = NoRequest], jobs' = jobs
      PROVE  AtomInv'
  BY <1>1, RequestMovesAtom
<1>2. ASSUME NEW r \in Requests, NEW pc \in {"lookup", "insert"}, NEW k,
             request' = [request EXCEPT ![r] = [pc |-> pc, key |-> k, id |-> NoId]],
             jobs' = jobs
      PROVE  AtomInv'
  <2> DEFINE new == [pc |-> pc, key |-> k, id |-> NoId]
  <2>1. new.pc # "commit" /\ new.pc # "winner"
    OBVIOUS
  <2> HIDE DEF new
  <2> QED
    BY <1>2, <2>1, RequestMovesAtom DEF new
<1>3. ASSUME NEW r \in Requests, NEW k \in Keys, Submit(r, k) PROVE AtomInv'
  BY <1>2, <1>3 DEF Submit
<1>4. ASSUME NEW r \in Requests, Lookup(r) \/ LookupFails(r) PROVE AtomInv'
  BY <1>1, <1>2, <1>4 DEF Lookup, LookupFails, Respond, GoTo
<1>5. ASSUME NEW r \in Requests, Winner(r) \/ WinnerFails(r) \/ Fail(r) PROVE AtomInv'
  BY <1>1, <1>5 DEF Winner, WinnerFails, Fail, Respond
<1>6. CASE UNCHANGED vars
  BY <1>6 DEF vars, AtomInv, IdIsUnique, WinnerIsThere, At
<1> QED
  BY <1>3, <1>4, <1>5, <1>6, InsertAtom, CommitAtom DEF Next, Step

\* What the mapping reads of the table.
LEMMA MadeForRow ==
  ASSUME OneJobPerKey, NEW k
  PROVE  /\ \A job \in jobs : job.key = k => MadeFor(k) = job.id
         /\ (\A job \in jobs : job.key # k) => MadeFor(k) = NoId
BY DEF OneJobPerKey, MadeFor

Made == [k \in Keys |-> MadeFor(k)]

LEMMA SameJobs ==
  ASSUME jobs' = jobs
  PROVE  Made' = Made
BY DEF Made, MadeFor

\* An answer to a request whose key has a job, with that job or null.
LEMMA RespondRepeats ==
  ASSUME IInv, NEW r \in Requests, request[r] # NoRequest, jobs' = jobs,
         NEW job \in Existing(r),
         Respond(r, "duplicate", job.id) \/ Respond(r, "duplicate", NoId)
  PROVE  Register!Next
<1> DEFINE k == request[r].key
<1>1. k \in Keys /\ job \in jobs /\ job.key = k /\ job.id # NoId
  BY NullAssumption DEF IInv, TypeOK, Request, Row, Existing
<1>2. Made[k] = job.id
  BY <1>1, MadeForRow DEF IInv, Made
<1>3. Register!Repeat(k)
  BY <1>1, <1>2, SameJobs DEF Register!Repeat, Register!Tell, Respond, Made
<1> QED
  BY <1>1, <1>3 DEF Register!Next

LEMMA CommitMakes ==
  ASSUME IInv, IInv', AtomInv, NEW r \in Requests, Commit(r)
  PROVE  Register!Next
<1> DEFINE k == request[r].key
           id == request[r].id
           row == [key |-> k, id |-> id]
<1>1. /\ k \in Keys /\ id \in Ids
      /\ At(r, "commit") /\ jobs' = jobs \cup {row}
      /\ row.key = k /\ row.id = id
      /\ \A job \in jobs : job.key # k /\ job.id # id
  BY DEF Commit, At, IInv, TypeOK, Request, KeyIsHeldOnce, Existing, AtomInv, IdIsUnique
<1>2. Register!Tell(k, "created", id) \/ UNCHANGED answers
  BY DEF Commit, Respond, Register!Tell
<1> HIDE DEF k, id, row
<1>3. Made[k] = NoId
  BY <1>1, MadeForRow DEF IInv, Made
<1>4. ASSUME NEW l \in Keys PROVE Made[l] # id
  <2>1. CASE \E job \in jobs : job.key = l
    BY <1>1, <2>1, MadeForRow DEF IInv, Made
  <2>2. CASE \A job \in jobs : job.key # l
    BY <1>1, <2>2, MadeForRow, NullAssumption DEF IInv, Made
  <2> QED
    BY <2>1, <2>2
<1>5. ASSUME NEW l \in Keys PROVE MadeFor(l)' = IF l = k THEN id ELSE MadeFor(l)
  <2>1. /\ \A job \in jobs' : job.key = l => MadeFor(l)' = job.id
        /\ (\A job \in jobs' : job.key # l) => MadeFor(l)' = NoId
    BY DEF IInv, OneJobPerKey, MadeFor
  <2>2. CASE l = k
    BY <1>1, <2>1, <2>2
  <2>3. CASE l # k /\ \E job \in jobs : job.key = l
    BY <1>1, <2>1, <2>3, MadeForRow DEF IInv
  <2>4. CASE l # k /\ \A job \in jobs : job.key # l
    BY <1>1, <2>1, <2>4, MadeForRow DEF IInv
  <2> QED
    BY <2>2, <2>3, <2>4
<1>6. Made' = [Made EXCEPT ![k] = id]
  BY <1>5 DEF Made
<1>7. Register!Make(k, id)
  BY <1>2, <1>3, <1>4, <1>6 DEF Register!Make, Made
<1> QED
  BY <1>1, <1>7 DEF Register!Next

\* The lookup, the insert and the read of the winner, failing or not, on any
\* coordinators at once, are one atomic step per request to the clients.
THEOREM Atomicity == Spec => IsAtomic
<1>1. Init => AtomInv /\ Register!Init
  BY DEF Init, AtomInv, IdIsUnique, WinnerIsThere, At, Register!Init, MadeFor
<1>2. IInv /\ IInv' /\ AtomInv /\ [Next]_vars => [Register!Next]_<<Made, answers>>
  <2> SUFFICES ASSUME IInv, IInv', AtomInv, [Next]_vars
               PROVE  Register!Next \/ UNCHANGED <<Made, answers>>
    OBVIOUS
  <2>1. CASE UNCHANGED <<jobs, answers>>
    BY <2>1, SameJobs
  <2>2. ASSUME NEW r \in Requests, Lookup(r), ~UNCHANGED answers PROVE Register!Next
    BY <2>2, RespondRepeats DEF Lookup, At
  <2>3. ASSUME NEW r \in Requests, Winner(r) PROVE Register!Next
    BY <2>3, RespondRepeats DEF Winner, At
  <2>4. ASSUME NEW r \in Requests, WinnerFails(r) PROVE Register!Next
    <3>1. PICK job \in jobs : job.key = request[r].key
      BY <2>4 DEF WinnerFails, AtomInv, WinnerIsThere
    <3>2. job \in Existing(r)
      BY <3>1 DEF Existing
    <3> QED
      BY <2>4, <3>2, RespondRepeats DEF WinnerFails, At
  <2>5. ASSUME NEW r \in Requests, LookupFails(r) \/ Insert(r) \/ Fail(r)
        PROVE  UNCHANGED <<jobs, answers>>
    BY <2>5 DEF LookupFails, Insert, Fail
  <2>6. ASSUME NEW r \in Requests, NEW k \in Keys, Submit(r, k)
        PROVE  UNCHANGED <<jobs, answers>>
    BY <2>6 DEF Submit
  <2>7. ASSUME NEW r \in Requests, Lookup(r) PROVE UNCHANGED jobs
    BY <2>7 DEF Lookup
  <2> QED
    BY <2>1, <2>2, <2>3, <2>4, <2>5, <2>6, <2>7, CommitMakes DEF Next, Step, vars
<1> QED
  BY <1>1, <1>2, Invariance, NextAtom, PTL
     DEF Spec, IsAtomic, Register!Spec, Register!vars, Made
=============================================================================
