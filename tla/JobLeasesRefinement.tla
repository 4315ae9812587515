------------------------ MODULE JobLeasesRefinement ------------------------
(***************************************************************************)
(* What JobLeases implements, for every value of the constants: FencedJobs *)
(* (each step of a handler, of the reaper, of a dispatcher or of a client  *)
(* is one step of the abstract job machine or leaves it unchanged), and    *)
(* for each worker the coordinators' side of LeaseService.  The worker's   *)
(* side is in WorkerServiceProofs.                                         *)
(***************************************************************************)
EXTENDS JobLeasesProofs

\* Terminating history rows issues no token and takes none back.
LEMMA TerminatedFences ==
  ASSUME TypeOK, NEW J, leaseHistory' = TerminateHistory(J)
  PROVE  Issued' = Issued
<1>1. /\ \A g \in leaseHistory' : \E h \in leaseHistory : g.job = h.job /\ g.fence = h.fence
      /\ \A h \in leaseHistory : \E g \in leaseHistory' : g.job = h.job /\ g.fence = h.fence
  BY TerminateHistoryRows DEF TypeOK
<1>2. ASSUME NEW j \in Jobs PROVE Fences(j)' = Fences(j)
  BY <1>1 DEF Fences
<1> QED
  BY <1>2 DEF Issued

\* What the abstraction sees of the history and of the commits is a function
\* of those two tables.
LEMMA SameTables ==
  /\ leaseHistory' = leaseHistory => Issued' = Issued
  /\ commits' = commits => Accepted' = Accepted
BY DEF Issued, Fences, Accepted

THEOREM InitRefines == Init => Promise!Init
BY DEF Init, Promise!Init, Issued, Fences, Accepted

LEMMA CreateJobRefines ==
  ASSUME IInv, NEW j \in Jobs, CreateJob(j)
  PROVE  Promise!Create(j)
BY SameTables DEF CreateJob, SetStatus, Promise!Create

LEMMA DispatchRefines ==
  ASSUME IInv, NEW j \in Jobs, NEW w \in Workers, Dispatch(j, w)
  PROVE  Promise!Grant(j)
<1> DEFINE t == fencingSeq + 1
           row == [job |-> j, worker |-> w, fence |-> t, open |-> TRUE]
<1>1. /\ status[j] = "pending"
      /\ status' = [status EXCEPT ![j] = "dispatched"]
      /\ leaseHistory' = leaseHistory \cup {row}
      /\ fencingSeq' = t
      /\ UNCHANGED commits
  BY DEF Dispatch, DispatchWith, SetStatus
<1>2. row.job = j /\ row.fence = t
  OBVIOUS
<1> HIDE DEF t, row
<1>3. Fences(j)' = Fences(j) \cup {t}
  BY <1>1, <1>2 DEF Fences
<1>4. ASSUME NEW k \in Jobs \ {j} PROVE Fences(k)' = Fences(k)
  BY <1>1, <1>2 DEF Fences
<1>5. Issued' = [Issued EXCEPT ![j] = @ \cup {t}]
  BY <1>3, <1>4 DEF Issued
<1> QED
  BY <1>1, <1>5, SameTables DEF Promise!Grant, t

LEMMA ReapRefines ==
  ASSUME IInv, NEW J \in SUBSET Jobs, Reap(J)
  PROVE  Promise!Requeue(J)
<1>1. Issued' = Issued
  BY TerminatedFences DEF IInv, Reap
<1> QED
  BY <1>1, SameTables DEF Reap, Reapable, Promise!Requeue

\* The accepted commit takes the newest token: LeaseIsNewest at work.
LEMMA OnResultCommitRefines ==
  ASSUME IInv, NEW s \in Slots, OnResultCommit(s)
  PROVE  (\E j \in Jobs : Promise!Accept(j)) \/ UNCHANGED Promise!vars
<1> DEFINE m == handler[s].msg
           row == [fence |-> m.token, worker |-> m.worker]
<1>1. m.job \in Jobs
  BY HandlerMessage DEF IInv, OnResultCommit
<1>2. CASE ~(HoldsLease(m) /\ status[m.job] = "dispatched")
  <2>1. UNCHANGED <<status, fencingSeq, leaseHistory, commits>>
    BY <1>2 DEF OnResultCommit, CommitWith, tables
  <2> QED
    BY <2>1, SameTables DEF Promise!vars
<1>3. CASE HoldsLease(m) /\ status[m.job] = "dispatched"
  <2>1. /\ status' = [status EXCEPT ![m.job] = "succeeded"]
        /\ commits' = [commits EXCEPT ![m.job] = Append(@, row)]
        /\ leaseHistory' = TerminateHistory({m.job})
        /\ UNCHANGED fencingSeq
    BY <1>3 DEF OnResultCommit, CommitWith, SetStatus
  <2>2. row.fence = m.token
    OBVIOUS
  <2> HIDE DEF row
  <2>3. commits[m.job] = << >> /\ Append(<< >>, row) = << row >>
    BY <1>1, <1>3 DEF IInv, CommittedOnce
  <2>4. commits'[m.job] = << row >> /\ \A k \in Jobs \ {m.job} : commits'[k] = commits[k]
    BY <1>1, <2>1, <2>3 DEF IInv, TypeOK
  <2>5. Accepted[m.job] = 0 /\ Accepted' = [Accepted EXCEPT ![m.job] = m.token]
    <3>1. commits'[m.job] # << >> /\ commits'[m.job][Len(commits'[m.job])].fence = m.token
      BY <2>2, <2>4
    <3> QED
      BY <1>1, <2>3, <2>4, <3>1 DEF Accepted
  <2>6. /\ m.token \in Issued[m.job]
        /\ \A u \in Issued[m.job] : u <= m.token
    <3>1. Issued[m.job] = Fences(m.job)
      BY <1>1 DEF Issued
    <3>2. /\ \E h \in leaseHistory : h.job = m.job /\ h.fence = m.token
          /\ \A h \in leaseHistory : h.job = m.job => h.fence <= m.token
      BY <1>1, <1>3 DEF IInv, LeaseIsNewest, HoldsLease
    <3> QED
      BY <3>1, <3>2 DEF Fences
  <2>7. Issued' = Issued
    BY <2>1, TerminatedFences DEF IInv
  <2>8. Promise!Accept(m.job)
    BY <1>3, <2>1, <2>5, <2>6, <2>7 DEF Promise!Accept
  <2> QED
    BY <1>1, <2>8
<1> QED
  BY <1>2, <1>3

\* A job.failed requeues or fails a dispatched job, or is not seen at all.
LEMMA FailedRefines ==
  ASSUME IInv, NEW m \in Message,
         leaseHistory' = leaseHistory \/ leaseHistory' = TerminateHistory({m.job}),
         status' = status \/ /\ status[m.job] = "dispatched"
                             /\ status' = [status EXCEPT ![m.job] = FailedStatus(m)],
         UNCHANGED <<fencingSeq, commits>>
  PROVE  \/ Promise!Requeue({m.job})
         \/ Promise!Fail(m.job)
         \/ UNCHANGED Promise!vars
<1>1. m.job \in Jobs /\ FailedStatus(m) \in {"pending", "failed"}
  BY DEF Message, FailedStatus
<1>2. Issued' = Issued /\ Accepted' = Accepted
  BY TerminatedFences, SameTables DEF IInv
<1>3. status \in [Jobs -> Statuses]
  BY DEF IInv, TypeOK
<1> QED
  BY <1>1, <1>2, <1>3 DEF Promise!Requeue, Promise!Fail, Promise!vars

LEMMA CancelCommitRefines ==
  ASSUME IInv, NEW c \in Clients, CancelCommit(c)
  PROVE  \E j \in Jobs : Promise!Cancel(j)
<1>1. cancelling[c] \in Jobs /\ status[cancelling[c]] # "none"
  BY DEF IInv, TypeOK, CancelsExisting, CancelCommit
<1>2. Promise!Cancel(cancelling[c])
  BY <1>1, SameTables DEF CancelCommit, SetStatus, Promise!Cancel
<1> QED
  BY <1>1, <1>2

LEMMA JobStepRefines ==
  ASSUME IInv, NEW j \in Jobs, JobStep(j)
  PROVE  Promise!Next \/ UNCHANGED Promise!vars
<1>1. CASE CreateJob(j)
  BY <1>1, CreateJobRefines DEF Promise!Next
<1>2. ASSUME NEW w \in Workers, Dispatch(j, w)
      PROVE  Promise!Next
  BY <1>2, DispatchRefines DEF Promise!Next
<1>3. CASE DispatchConflict(j)
  <2>1. Promise!SkipToken
    BY <1>3, SameTables DEF DispatchConflict, Promise!SkipToken
  <2> QED
    BY <2>1 DEF Promise!Next
<1>4. CASE LeaseExpires(j)
  BY <1>4, SameTables DEF LeaseExpires, Promise!vars
<1>5. ASSUME NEW c \in Clients, CancelRead(c, j)
      PROVE  UNCHANGED Promise!vars
  BY <1>5, SameTables DEF CancelRead, tables, Promise!vars
<1> QED
  BY <1>1, <1>2, <1>3, <1>4, <1>5 DEF JobStep

LEMMA HandlerStepRefines ==
  ASSUME IInv, NEW s \in Slots, HandlerStep(s)
  PROVE  Promise!Next \/ UNCHANGED Promise!vars
<1>1. ASSUME NEW m \in Message,
             Promise!Requeue({m.job}) \/ Promise!Fail(m.job) \/ UNCHANGED Promise!vars
      PROVE  Promise!Next \/ UNCHANGED Promise!vars
  <2>1. m.job \in Jobs /\ {m.job} \in SUBSET Jobs
    BY DEF Message
  <2> QED
    BY <1>1, <2>1 DEF Promise!Next
<1>2. CASE UNCHANGED tables
  BY <1>2, SameTables DEF tables, Promise!vars
<1>3. CASE OnResultCommit(s)
  BY <1>3, OnResultCommitRefines DEF Promise!Next
<1>4. ASSUME NEW h \in leaseHistory, NEW type \in {"reject", "failure"}, OnFailed(s, h, type)
      PROVE  Promise!Next \/ UNCHANGED Promise!vars
  <2> DEFINE m == AnswerTo(h, type)
  <2>1. m \in Message /\ m.job \in Jobs
    BY AnswerType DEF IInv, TypeOK, Message
  <2>2. /\ leaseHistory' = leaseHistory \/ leaseHistory' = TerminateHistory({m.job})
        /\ status' = status \/ status' = [status EXCEPT ![m.job] =
                                  IF @ = "dispatched" THEN FailedStatus(m) ELSE @]
        /\ UNCHANGED <<fencingSeq, commits>>
    BY <1>4 DEF OnFailed
  <2> HIDE DEF m
  <2>3. status' = status \/ /\ status[m.job] = "dispatched"
                            /\ status' = [status EXCEPT ![m.job] = FailedStatus(m)]
    BY <2>1, <2>2 DEF IInv, TypeOK
  <2> QED
    BY <1>1, <2>1, <2>2, <2>3, FailedRefines
<1>5. CASE OnFailedUpdate(s)
  <2> DEFINE m == handler[s].msg
  <2>1. m \in Message
    BY <1>5, HandlerMessage DEF IInv, OnFailedUpdate
  <2>2. /\ leaseHistory' = leaseHistory \/ leaseHistory' = TerminateHistory({m.job})
        /\ status' = status \/ /\ status[m.job] = "dispatched"
                               /\ status' = [status EXCEPT ![m.job] = FailedStatus(m)]
        /\ UNCHANGED <<fencingSeq, commits>>
    BY <1>5 DEF OnFailedUpdate
  <2> QED
    BY <1>1, <2>1, <2>2, FailedRefines
<1>6. CASE OnFailedHistory(s)
  <2>1. Issued' = Issued
    BY <1>6, TerminatedFences, SameTables DEF IInv, OnFailedHistory
  <2> QED
    BY <1>6, <2>1, SameTables DEF OnFailedHistory, Promise!vars
<1>7. CASE OnFailedTransition(s)
  BY <1>7, SameTables DEF OnFailedTransition, Promise!vars
<1> QED
  BY <1>2, <1>3, <1>4, <1>5, <1>6, <1>7 DEF HandlerStep, OnResult, OnResultRecheck, Abort

LEMMA NextRefines == IInv /\ [Next]_vars => [Promise!Next]_Promise!vars
<1> SUFFICES ASSUME IInv, [Next]_vars
             PROVE  Promise!Next \/ UNCHANGED Promise!vars
  OBVIOUS
<1>1. ASSUME NEW h \in leaseHistory, Heartbeat(h) PROVE UNCHANGED Promise!vars
  BY <1>1, SameTables DEF Heartbeat, Promise!vars
<1>2. ASSUME NEW J \in SUBSET Jobs, Reap(J) PROVE Promise!Next
  BY <1>2, ReapRefines DEF Promise!Next
<1>3. ASSUME NEW c \in Clients, CancelCommit(c) PROVE Promise!Next
  BY <1>3, CancelCommitRefines DEF Promise!Next
<1>4. ASSUME NEW c \in Clients, AbortCancel(c) PROVE UNCHANGED Promise!vars
  BY <1>4, SameTables DEF AbortCancel, tables, Promise!vars
<1>5. ASSUME UNCHANGED vars PROVE UNCHANGED Promise!vars
  BY <1>5, SameTables DEF vars, tables, Promise!vars
<1> QED
  BY <1>1, <1>2, <1>3, <1>4, <1>5, JobStepRefines, HandlerStepRefines DEF Next

\* The dispatcher's tables keep the promise of FencedJobs: tokens are issued in
\* increasing order, and a job succeeds at most once, with its newest token.
THEOREM Refinement == Spec => KeepsPromise
<1>1. Init => Promise!Init
  BY InitRefines
<1>2. IInv /\ [Next]_vars => [Promise!Next]_Promise!vars
  BY NextRefines
<1> QED
  BY <1>1, <1>2, Invariance, PTL DEF Spec, KeepsPromise, Promise!Spec

-----------------------------------------------------------------------------
\* A finished job is never requeued or dispatched again, whatever the order in
\* which stale failures, reaps, results and cancellations are applied.
THEOREM Finality == Spec => FinishedStaysFinished
<1> DEFINE Final == \A j \in Jobs :
             /\ status[j] = "cancelled" => status'[j] = "cancelled"
             /\ status[j] \in {"succeeded", "failed"} => status'[j] \in {status[j], "cancelled"}
<1>1. IInv /\ [Next]_vars => [Final]_vars
  <2> SUFFICES ASSUME IInv, [Promise!Next]_Promise!vars PROVE Final
    BY NextRefines
  <2>1. status \in [Jobs -> Statuses]
    BY DEF IInv, TypeOK
  <2>2. CASE UNCHANGED status
    BY <2>2
  <2>3. ASSUME NEW j \in Jobs,
               Promise!Create(j) \/ Promise!Grant(j) \/ Promise!Accept(j)
               \/ Promise!Fail(j) \/ Promise!Cancel(j)
        PROVE  Final
    BY <2>1, <2>3 DEF Promise!Create, Promise!Grant, Promise!Accept, Promise!Fail, Promise!Cancel
  <2>4. ASSUME NEW J \in SUBSET Jobs, Promise!Requeue(J) PROVE Final
    BY <2>1, <2>4 DEF Promise!Requeue
  <2> QED
    BY <2>2, <2>3, <2>4 DEF Promise!Next, Promise!vars, Promise!SkipToken
<1> QED
  BY <1>1, Invariance, PTL DEF Spec, FinishedStaysFinished

-----------------------------------------------------------------------------
(* The contract with each worker *)

\* A token names one dispatch.
FenceIsUnique ==
  \A g, h \in leaseHistory : g.fence = h.fence => g.job = h.job /\ g.worker = h.worker

OnRecord(m) ==
  \E h \in leaseHistory : h.job = m.job /\ h.worker = m.worker /\ h.fence = m.token

Resolving(s) == handler[s] # Idle /\ handler[s].pc \in {"commit", "recheck"}

\* A handler of a job.result works for a dispatch that was answered by one.
ResultIsOnRecord ==
  \A s \in Slots : Resolving(s) =>
    OnRecord(handler[s].msg) /\ answer[handler[s].msg.token] = "result"

\* Only tokens that were issued are answered.
AnsweredIsDrawn == \A t \in Tokens : answer[t] # "none" => t <= fencingSeq

\* The other half of the contract: a worker is acknowledged only jobs that are
\* done and that it delivered a result for itself, though the ack does not say
\* which of its dispatches.
AcksAreDeserved ==
  \A w \in Workers, j \in Jobs : <<w, j>> \in acked => j \in Service(w)!Ackable

\* What the contract needs beyond IInv.
ServiceInv == FenceIsUnique /\ ResultIsOnRecord /\ AnsweredIsDrawn /\ AcksAreDeserved

-----------------------------------------------------------------------------
(* What the mapping sees *)

\* The history keeps its rows, whether they are open or not.
SameRows ==
  /\ \A g \in leaseHistory' : \E h \in leaseHistory :
       g.job = h.job /\ g.worker = h.worker /\ g.fence = h.fence
  /\ \A h \in leaseHistory : \E g \in leaseHistory' :
       g.job = h.job /\ g.worker = h.worker /\ g.fence = h.fence

LEMMA KeptRows ==
  ASSUME TypeOK, NEW J,
         leaseHistory' = leaseHistory \/ leaseHistory' = TerminateHistory(J)
  PROVE  SameRows
<1>1. CASE leaseHistory' = leaseHistory BY <1>1 DEF SameRows
<1>2. CASE leaseHistory' = TerminateHistory(J)
  BY <1>2, TerminateHistoryRows DEF SameRows, TypeOK
<1> QED BY <1>1, <1>2

LEMMA SameLeases ==
  ASSUME SameRows
  PROVE  /\ \A w \in Workers : LeasesOf(w)' = LeasesOf(w)
         /\ Newest' = Newest
         /\ \A m : OnRecord(m) => OnRecord(m)'
<1>1. ASSUME NEW w \in Workers PROVE LeasesOf(w)' = LeasesOf(w)
  BY DEF SameRows, LeasesOf
<1>2. ASSUME NEW j \in Jobs PROVE Fences(j)' = Fences(j)
  BY DEF SameRows, Fences
<1>3. Newest' = Newest
  <2>1. \A j \in Jobs : Largest(Fences(j))' = Largest(Fences(j)) BY <1>2
  <2> QED BY <2>1 DEF Newest
<1>4. ASSUME NEW m, OnRecord(m)
      PROVE  \E h \in leaseHistory' : h.job = m.job /\ h.worker = m.worker /\ h.fence = m.token
  BY <1>4 DEF SameRows, OnRecord
<1> QED BY <1>1, <1>3, <1>4 DEF OnRecord

LEMMA LeaseTypes ==
  ASSUME TypeOK, NEW w \in Workers, NEW d \in LeasesOf(w)
  PROVE  d \in Jobs \X Tokens /\ d = <<d[1], d[2]>>
BY DEF TypeOK, HistoryRow, LeasesOf

\* The largest element of a set is the one that no other exceeds.
LEMMA LargestIs ==
  ASSUME NEW T, T \subseteq Nat, NEW t \in T, \A u \in T : u <= t
  PROVE  Largest(T) = t
<1>1. \A u \in T : (\A v \in T : v <= u) => u = t BY SMT
<1>2. PICK u \in T : u = Largest(T) /\ \A v \in T : v <= u BY DEF Largest
<1> QED BY <1>1, <1>2

-----------------------------------------------------------------------------
(* The invariant *)

LEMMA InitService == Init => ServiceInv
BY DEF Init, ServiceInv, FenceIsUnique, ResultIsOnRecord, Resolving, AnsweredIsDrawn,
       AcksAreDeserved

\* A step that issues no lease: answers are final, a handler resolves what was
\* answered, and an ack goes to a worker that answered a job that is done.
LEMMA ServiceFrame ==
  ASSUME IInv, ServiceInv, SameRows, fencingSeq' \in {fencingSeq, fencingSeq + 1},
         \A t \in Tokens : answer[t] = "result" => answer'[t] = "result",
         \A t \in Tokens : answer'[t] # "none" =>
           answer[t] # "none" \/ \E h \in leaseHistory : h.fence = t,
         \A s \in Slots : Resolving(s)' =>
           \/ Resolving(s) /\ handler'[s].msg = handler[s].msg
           \/ OnRecord(handler'[s].msg) /\ answer'[handler'[s].msg.token] = "result",
         \A j \in Jobs : commits[j] # << >> => commits'[j] # << >>,
         \A w \in Workers, j \in Jobs : <<w, j>> \in acked' =>
           \/ <<w, j>> \in acked
           \/ commits'[j] # << >> /\ \E d \in AnsweredBy(w, "result") : d[1] = j
  PROVE  ServiceInv'
<1> USE DEF ServiceInv
<1>1. FenceIsUnique' BY DEF FenceIsUnique, SameRows
<1>2. ResultIsOnRecord'
  <2> SUFFICES ASSUME NEW s \in Slots, Resolving(s)'
               PROVE  OnRecord(handler[s].msg)' /\ answer'[handler'[s].msg.token] = "result"
    BY DEF ResultIsOnRecord
  <2>1. \A m : OnRecord(m) => \E h \in leaseHistory' :
                 h.job = m.job /\ h.worker = m.worker /\ h.fence = m.token
    BY DEF OnRecord, SameRows
  <2>2. CASE Resolving(s) /\ handler'[s].msg = handler[s].msg
    <3>1. handler[s].msg.token \in Tokens BY <2>2, HandlerMessage DEF IInv, Resolving
    <3> QED BY <2>1, <2>2, <3>1 DEF ResultIsOnRecord, OnRecord
  <2>3. CASE OnRecord(handler'[s].msg) /\ answer'[handler'[s].msg.token] = "result"
    BY <2>1, <2>3 DEF OnRecord
  <2> QED BY <2>2, <2>3
<1>3. AnsweredIsDrawn'
  <2>1. fencingSeq \in Nat /\ Tokens \subseteq Nat
    BY BoundAssumption DEF IInv, TypeOK, Tokens
  <2>2. \A h \in leaseHistory : h.fence \in Nat /\ h.fence <= fencingSeq
    BY <2>1 DEF IInv, TypeOK, HistoryBounded, HistoryRow
  <2>3. \A t \in Tokens : answer'[t] # "none" => t <= fencingSeq
    BY <2>2 DEF AnsweredIsDrawn
  <2> QED BY <2>1, <2>3 DEF AnsweredIsDrawn
<1>4. AcksAreDeserved'
  <2>1. ASSUME NEW w \in Workers, NEW d \in AnsweredBy(w, "result")
        PROVE  d \in AnsweredBy(w, "result")'
    BY SameLeases, LeaseTypes DEF AnsweredBy, IInv
  <2> SUFFICES ASSUME NEW w \in Workers, NEW j \in Jobs, <<w, j>> \in acked'
               PROVE  commits'[j] # << >> /\ \E d \in AnsweredBy(w, "result")' : d[1] = j
    BY DEF AcksAreDeserved, Service!Ackable
  <2>2. CASE <<w, j>> \in acked
    <3>1. commits[j] # << >> /\ \E d \in AnsweredBy(w, "result") : d[1] = j
      BY <2>2 DEF AcksAreDeserved, Service!Ackable
    <3> QED BY <2>1, <3>1
  <2>3. CASE commits'[j] # << >> /\ \E d \in AnsweredBy(w, "result") : d[1] = j
    BY <2>1, <2>3
  <2> QED BY <2>2, <2>3
<1> QED BY <1>1, <1>2, <1>3, <1>4

LEMMA DispatchService ==
  ASSUME IInv, ServiceInv, NEW j \in Jobs, NEW w \in Workers, Dispatch(j, w)
  PROVE  ServiceInv'
<1> DEFINE row == [job |-> j, worker |-> w, fence |-> fencingSeq + 1, open |-> TRUE]
<1> USE DEF ServiceInv
<1>1. /\ leaseHistory' = leaseHistory \cup {row} /\ fencingSeq' = fencingSeq + 1
      /\ UNCHANGED <<commits, handler, answer, acked>>
  BY DEF Dispatch, DispatchWith
<1>2. row.job = j /\ row.worker = w /\ row.fence = fencingSeq + 1 OBVIOUS
<1> HIDE DEF row
<1>3. /\ fencingSeq \in Nat /\ Tokens \subseteq Nat
      /\ \A h \in leaseHistory : h.fence \in Nat /\ h.fence <= fencingSeq
  BY BoundAssumption DEF IInv, TypeOK, HistoryBounded, HistoryRow, Tokens
<1>4. FenceIsUnique' BY <1>1, <1>2, <1>3 DEF FenceIsUnique
<1>5. ResultIsOnRecord' BY <1>1 DEF ResultIsOnRecord, Resolving, OnRecord
<1>6. AnsweredIsDrawn' BY <1>1, <1>3 DEF AnsweredIsDrawn
<1>7. AcksAreDeserved'
  <2>1. \A v \in Workers : AnsweredBy(v, "result") \subseteq AnsweredBy(v, "result")'
    BY <1>1 DEF AnsweredBy, LeasesOf
  <2> QED BY <1>1, <2>1 DEF AcksAreDeserved, Service!Ackable
<1> QED BY <1>4, <1>5, <1>6, <1>7

LEMMA OnResultService ==
  ASSUME IInv, ServiceInv, NEW s \in Slots, NEW h \in leaseHistory, OnResult(s, h)
  PROVE  ServiceInv'
<1> DEFINE m == AnswerTo(h, "result")
<1>1. m.job = h.job /\ m.worker = h.worker /\ m.token = h.fence /\ h.fence \in Tokens
  BY DEF AnswerTo, IInv, TypeOK, HistoryRow
<1>2. /\ answer' = [answer EXCEPT ![h.fence] = "result"]
      /\ \E pc : handler' = [handler EXCEPT ![s] = [pc |-> pc, msg |-> m]]
      /\ UNCHANGED <<tables, acked>>
  BY DEF OnResult
<1> HIDE DEF m
<1>3. OnRecord(m) BY <1>1 DEF OnRecord
<1>4. ASSUME NEW r \in Slots, Resolving(r)'
      PROVE  \/ Resolving(r) /\ handler'[r].msg = handler[r].msg
             \/ OnRecord(handler'[r].msg) /\ answer'[handler'[r].msg.token] = "result"
  <2>1. CASE r = s
    <3>1. handler'[s].msg = m BY <1>2 DEF IInv, TypeOK
    <3> QED BY <1>1, <1>2, <1>3, <2>1, <3>1 DEF IInv, TypeOK
  <2>2. CASE r # s BY <1>2, <1>4, <2>2 DEF Resolving, IInv, TypeOK
  <2> QED BY <2>1, <2>2
<1>5. /\ \A t \in Tokens : answer[t] = "result" => answer'[t] = "result"
      /\ \A t \in Tokens : answer'[t] # "none" =>
           answer[t] # "none" \/ \E g \in leaseHistory : g.fence = t
  BY <1>2 DEF IInv, TypeOK
<1> QED BY <1>2, <1>4, <1>5, KeptRows, ServiceFrame DEF tables, IInv

\* The accepted commit acknowledges the worker whose message it handles.
LEMMA CommitService ==
  ASSUME IInv, ServiceInv, NEW s \in Slots, OnResultCommit(s)
  PROVE  ServiceInv'
<1> DEFINE m == handler[s].msg
<1>1. m \in Message /\ m.job \in Jobs /\ m.worker \in Workers
  BY HandlerMessage DEF IInv, OnResultCommit
<1>2. <<m.job, m.token>> \in AnsweredBy(m.worker, "result")
  <2>1. Resolving(s) BY DEF OnResultCommit, CommitWith, Resolving
  <2> QED BY <2>1 DEF ServiceInv, ResultIsOnRecord, OnRecord, AnsweredBy, LeasesOf
<1>3. /\ UNCHANGED <<fencingSeq, answer>>
      /\ leaseHistory' = leaseHistory \/ leaseHistory' = TerminateHistory({m.job})
      /\ handler' = [handler EXCEPT ![s] = Idle] \/ handler' = [handler EXCEPT ![s].pc = "recheck"]
  BY DEF OnResultCommit, CommitWith, tables
<1>4. SameRows BY <1>3, KeptRows DEF IInv
<1>5. ASSUME NEW r \in Slots, Resolving(r)'
      PROVE  Resolving(r) /\ handler'[r].msg = handler[r].msg
  <2>1. handler[s] # Idle /\ handler[s].pc = "commit" BY DEF OnResultCommit, CommitWith
  <2>2. handler[s] \in Handler BY <2>1, HandlerMessage DEF IInv
  <2>3. CASE r = s BY <1>3, <1>5, <2>1, <2>2, <2>3 DEF Resolving, Handler, IInv, TypeOK
  <2>4. CASE r # s BY <1>3, <1>5, <2>4 DEF Resolving, IInv, TypeOK
  <2> QED BY <2>3, <2>4
<1>6. CASE UNCHANGED <<commits, acked>>
  BY <1>3, <1>4, <1>5, <1>6, ServiceFrame
<1>7. ASSUME NEW row, commits' = [commits EXCEPT ![m.job] = Append(@, row)], row \in Commit,
             acked' \subseteq acked \cup {<<m.worker, m.job>>}
      PROVE  ServiceInv'
  <2>1. commits[m.job] \in Seq(Commit) /\ commits'[m.job] = Append(commits[m.job], row)
    BY <1>1, <1>7 DEF IInv, TypeOK
  <2>2. commits'[m.job] # << >> BY <1>7, <2>1
  <2>3. \A j \in Jobs : commits[j] # << >> => commits'[j] # << >>
    BY <1>7, <2>2 DEF IInv, TypeOK
  <2>4. \A w \in Workers, j \in Jobs : <<w, j>> \in acked' =>
           \/ <<w, j>> \in acked
           \/ commits'[j] # << >> /\ \E d \in AnsweredBy(w, "result") : d[1] = j
    BY <1>2, <1>7, <2>2
  <2> QED BY <1>3, <1>4, <1>5, <2>3, <2>4, ServiceFrame
<1>8. [fence |-> m.token, worker |-> m.worker] \in Commit
  BY HandlerMessage DEF IInv, OnResultCommit, Commit
<1> QED BY <1>6, <1>7, <1>8 DEF OnResultCommit, CommitWith, tables

\* The worker whose result was not accepted is acknowledged if the job is done.
LEMMA RecheckService ==
  ASSUME IInv, ServiceInv, NEW s \in Slots, OnResultRecheck(s)
  PROVE  ServiceInv'
<1> DEFINE m == handler[s].msg
<1>1. m \in Message /\ m.job \in Jobs /\ m.worker \in Workers
  BY HandlerMessage DEF IInv, OnResultRecheck
<1>2. <<m.job, m.token>> \in AnsweredBy(m.worker, "result")
  <2>1. Resolving(s) BY DEF OnResultRecheck, Resolving
  <2> QED BY <2>1 DEF ServiceInv, ResultIsOnRecord, OnRecord, AnsweredBy, LeasesOf
<1>3. /\ UNCHANGED <<tables, answer>> /\ handler' = [handler EXCEPT ![s] = Idle]
      /\ acked' \subseteq acked \cup {<<m.worker, m.job>>}
      /\ acked' # acked => status[m.job] = "succeeded"
  BY DEF OnResultRecheck
<1>4. SameRows BY <1>3, KeptRows DEF IInv, tables
<1>5. \A r \in Slots : Resolving(r)' => Resolving(r) /\ handler'[r].msg = handler[r].msg
  BY <1>3 DEF Resolving, IInv, TypeOK
<1>6. \A w \in Workers, j \in Jobs : <<w, j>> \in acked' =>
        \/ <<w, j>> \in acked
        \/ commits'[j] # << >> /\ \E d \in AnsweredBy(w, "result") : d[1] = j
  <2>1. acked' # acked => commits[m.job] # << >>
    BY <1>1, <1>3 DEF IInv, CommittedOnce
  <2> QED BY <1>2, <1>3, <2>1 DEF tables
<1> QED BY <1>3, <1>4, <1>5, <1>6, ServiceFrame DEF tables

LEMMA OnFailedService ==
  ASSUME IInv, ServiceInv, NEW s \in Slots, NEW h \in leaseHistory,
         NEW type \in {"reject", "failure"}, OnFailed(s, h, type)
  PROVE  ServiceInv'
<1> DEFINE m == AnswerTo(h, type)
<1>1. /\ h.fence \in Tokens /\ answer[h.fence] = "none"
      /\ answer' = [answer EXCEPT ![h.fence] = "failed"]
      /\ UNCHANGED <<fencingSeq, commits, acked>>
      /\ leaseHistory' = leaseHistory \/ leaseHistory' = TerminateHistory({m.job})
      /\ handler' = handler \/ handler' = [handler EXCEPT ![s] = [pc |-> "update", msg |-> m]]
  BY DEF OnFailed, IInv, TypeOK, HistoryRow
<1> HIDE DEF m
<1>2. SameRows BY <1>1, KeptRows DEF IInv
<1>3. ASSUME NEW r \in Slots, Resolving(r)'
      PROVE  Resolving(r) /\ handler'[r].msg = handler[r].msg
  <2>1. CASE handler' = handler BY <1>3, <2>1 DEF Resolving
  <2>2. CASE handler' = [handler EXCEPT ![s] = [pc |-> "update", msg |-> m]]
    <3>1. r # s BY <1>3, <2>2 DEF Resolving, IInv, TypeOK
    <3> QED BY <1>3, <2>2, <3>1 DEF Resolving, IInv, TypeOK
  <2> QED BY <1>1, <2>1, <2>2
<1>4. /\ \A t \in Tokens : answer[t] = "result" => answer'[t] = "result"
      /\ \A t \in Tokens : answer'[t] # "none" =>
           answer[t] # "none" \/ \E g \in leaseHistory : g.fence = t
  BY <1>1 DEF IInv, TypeOK
<1> QED BY <1>1, <1>2, <1>3, <1>4, ServiceFrame

\* The other steps of a handler answer nothing and acknowledge nothing.
LEMMA OtherHandlerService ==
  ASSUME IInv, ServiceInv, NEW s \in Slots,
         OnFailedUpdate(s) \/ OnFailedHistory(s) \/ OnFailedTransition(s) \/ Abort(s)
  PROVE  ServiceInv'
<1>1. /\ UNCHANGED <<fencingSeq, answer, commits, acked>>
      /\ leaseHistory' = leaseHistory \/ leaseHistory' = TerminateHistory({handler[s].msg.job})
      /\ \/ handler' = [handler EXCEPT ![s] = Idle]
         \/ \E pc \in {"history", "transition"} : handler' = [handler EXCEPT ![s].pc = pc]
  BY DEF OnFailedUpdate, OnFailedHistory, OnFailedTransition, Abort, tables
<1>2. SameRows BY <1>1, KeptRows DEF IInv
<1>3. handler[s] \in Handler
  BY HandlerMessage DEF IInv, OnFailedUpdate, OnFailedHistory, OnFailedTransition, Abort
<1>4. ASSUME NEW r \in Slots, Resolving(r)'
      PROVE  Resolving(r) /\ handler'[r].msg = handler[r].msg
  <2>1. ~Resolving(s)' BY <1>1, <1>3 DEF Resolving, Handler, IInv, TypeOK
  <2>2. r # s BY <1>4, <2>1
  <2> QED BY <1>1, <1>4, <2>2 DEF Resolving, IInv, TypeOK
<1> QED BY <1>1, <1>2, <1>4, ServiceFrame

\* Steps outside the handlers that issue no lease.
LEMMA TableService ==
  ASSUME IInv, ServiceInv, NEW J,
         leaseHistory' = leaseHistory \/ leaseHistory' = TerminateHistory(J),
         fencingSeq' \in {fencingSeq, fencingSeq + 1},
         UNCHANGED <<answer, commits, acked, handler>>
  PROVE  ServiceInv'
<1>1. SameRows BY KeptRows DEF IInv
<1>2. \A r \in Slots : Resolving(r)' => Resolving(r) /\ handler'[r].msg = handler[r].msg
  BY DEF Resolving
<1> QED BY <1>1, <1>2, ServiceFrame

LEMMA NextService == IInv /\ ServiceInv /\ [Next]_vars => ServiceInv'
<1> SUFFICES ASSUME IInv, ServiceInv, [Next]_vars PROVE ServiceInv' OBVIOUS
<1>1. ASSUME NEW j \in Jobs, JobStep(j) PROVE ServiceInv'
  <2>1. CASE \E w \in Workers : Dispatch(j, w) BY <2>1, DispatchService
  <2>2. CASE CreateJob(j) \/ DispatchConflict(j) \/ LeaseExpires(j)
             \/ \E c \in Clients : CancelRead(c, j)
    BY <2>2, TableService DEF CreateJob, DispatchConflict, LeaseExpires, CancelRead, tables
  <2> QED BY <1>1, <2>1, <2>2 DEF JobStep
<1>2. ASSUME NEW s \in Slots, HandlerStep(s) PROVE ServiceInv'
  BY <1>2, OnResultService, CommitService, RecheckService, OnFailedService,
     OtherHandlerService DEF HandlerStep
<1>3. CASE \E h \in leaseHistory : Heartbeat(h) BY <1>3, TableService DEF Heartbeat
<1>4. CASE \E J \in SUBSET Jobs : Reap(J) BY <1>4, TableService DEF Reap
<1>5. CASE \E c \in Clients : CancelCommit(c) \/ AbortCancel(c)
  BY <1>5, TableService DEF CancelCommit, AbortCancel, tables
<1>6. CASE UNCHANGED vars BY <1>6, TableService DEF vars, tables
<1> QED BY <1>1, <1>2, <1>3, <1>4, <1>5, <1>6 DEF Next

LEMMA ServiceInvariant == Spec => [](IInv /\ ServiceInv)
BY InitService, NextService, Invariance, PTL DEF Spec

\* worker-hub.service.ts, onResult: whichever branch sends job.ack, it goes to
\* a worker that answered a dispatch of that job by a result, and the job is done.
LEMMA AcksGoToResults == Spec => []AcksAreDeserved
BY ServiceInvariant, PTL DEF ServiceInv

-----------------------------------------------------------------------------
(* Every step serves every worker *)

THEOREM InitServes == Init => \A w \in Workers : Service(w)!Init
BY DEF Init, Service!Init, LeasesOf, AnsweredBy, Newest, Fences, Largest

\* What Service(w) does when the tables it is mapped to do not change.
LEMMA StutterServes ==
  ASSUME SameRows, NEW w \in Workers, UNCHANGED <<fencingSeq, answer, commits>>
  PROVE  UNCHANGED Service(w)!vars
<1>1. LeasesOf(w)' = LeasesOf(w) /\ Newest' = Newest BY SameLeases
<1>2. \A type : AnsweredBy(w, type)' = AnsweredBy(w, type) BY <1>1 DEF AnsweredBy
<1> QED BY <1>1, <1>2 DEF Service!vars

LEMMA DispatchServes ==
  ASSUME IInv, ServiceInv, NEW j \in Jobs, NEW v \in Workers, Dispatch(j, v), NEW w \in Workers
  PROVE  Service(w)!Lease(j, v = w)
<1> DEFINE t == fencingSeq + 1
           row == [job |-> j, worker |-> v, fence |-> t, open |-> TRUE]
<1>1. /\ status[j] = "pending"
      /\ leaseHistory' = leaseHistory \cup {row} /\ fencingSeq' = t
      /\ UNCHANGED <<commits, answer>>
  BY DEF Dispatch, DispatchWith
<1>2. row.job = j /\ row.worker = v /\ row.fence = t OBVIOUS
<1>3. /\ t \in Tokens /\ Tokens \subseteq Nat
      /\ \A h \in leaseHistory : h.fence \in Tokens /\ h.fence < t
  BY BoundAssumption
     DEF IInv, TypeOK, HistoryBounded, HistoryRow, Tokens, Dispatch, DispatchWith
<1>4. answer[t] = "none"
  BY <1>3, BoundAssumption DEF ServiceInv, AnsweredIsDrawn, IInv, TypeOK
<1> HIDE DEF row
<1>5. commits[j] = << >> BY <1>1 DEF IInv, CommittedOnce
<1>6. Newest' = [Newest EXCEPT ![j] = t]
  <2>1. Fences(j)' = Fences(j) \cup {t} BY <1>1, <1>2 DEF Fences
  <2>2. \A k \in Jobs \ {j} : Fences(k)' = Fences(k) BY <1>1, <1>2 DEF Fences
  <2>3. \A u \in Fences(j) : u \in Nat /\ u < t BY <1>3 DEF Fences
  <2>4. Largest(Fences(j) \cup {t}) = t
    <3>1. t \in Nat /\ Fences(j) \cup {t} \subseteq Nat BY <1>3, <2>3
    <3>2. \A u \in Fences(j) \cup {t} : u <= t BY <2>3, <3>1
    <3> HIDE DEF t
    <3> QED BY <3>1, <3>2, LargestIs
  <2>5. Newest'[j] = t BY <2>1, <2>4 DEF Newest
  <2> QED BY <2>2, <2>5 DEF Newest
<1>7. LeasesOf(w)' = IF v = w THEN LeasesOf(w) \cup {<<j, t>>} ELSE LeasesOf(w)
  BY <1>1, <1>2 DEF LeasesOf
<1>8. ASSUME NEW type \in {"result", "failed"}
      PROVE  AnsweredBy(w, type)' = AnsweredBy(w, type)
  BY <1>1, <1>4, <1>7, <1>8 DEF AnsweredBy
<1>9. UNCHANGED <<AnsweredBy(w, "result"), AnsweredBy(w, "failed")>> BY <1>8
<1> QED BY <1>1, <1>5, <1>6, <1>7, <1>9 DEF Service!Lease

\* The answer to a token is the answer of the one worker that was leased it.
LEMMA AnswerServes ==
  ASSUME IInv, ServiceInv, SameRows, NEW h \in leaseHistory, NEW w \in Workers,
         NEW type \in {"result", "failed"},
         answer' = [answer EXCEPT ![h.fence] = type]
  PROVE  /\ <<h.job, h.fence>> \in LeasesOf(h.worker)
         /\ AnsweredBy(w, type)' = AnsweredBy(w, type) \cup
              (IF h.worker = w THEN {<<h.job, h.fence>>} ELSE {})
         /\ \A other \in {"result", "failed"} :
              other # type /\ answer[h.fence] # other =>
                AnsweredBy(w, other)' = AnsweredBy(w, other)
<1>1. LeasesOf(w)' = LeasesOf(w) BY SameLeases
<1>2. <<h.job, h.fence>> \in LeasesOf(h.worker) BY DEF LeasesOf
<1>3. \A d \in LeasesOf(w) : d[2] = h.fence => h.worker = w /\ d = <<h.job, h.fence>>
  BY DEF LeasesOf, ServiceInv, FenceIsUnique
<1>4. h.fence \in Tokens /\ \A d \in LeasesOf(w) : d[2] \in Tokens
  BY LeaseTypes DEF IInv, TypeOK, HistoryRow
<1>5. \A t \in Tokens : answer'[t] = IF t = h.fence THEN type ELSE answer[t]
  BY <1>4 DEF IInv, TypeOK
<1>6. AnsweredBy(w, type)' = AnsweredBy(w, type) \cup
              (IF h.worker = w THEN {<<h.job, h.fence>>} ELSE {})
  BY <1>1, <1>2, <1>3, <1>4, <1>5 DEF AnsweredBy
<1>7. ASSUME NEW other \in {"result", "failed"}, other # type, answer[h.fence] # other
      PROVE  AnsweredBy(w, other)' = AnsweredBy(w, other)
  BY <1>1, <1>4, <1>5, <1>7 DEF AnsweredBy
<1> QED BY <1>2, <1>6, <1>7

LEMMA OnResultServes ==
  ASSUME IInv, ServiceInv, NEW s \in Slots, NEW h \in leaseHistory, OnResult(s, h),
         NEW w \in Workers
  PROVE  [Service(w)!Next]_(Service(w)!vars)
<1> DEFINE d == <<h.job, h.fence>>
<1>1. /\ answer' = [answer EXCEPT ![h.fence] = "result"]
      /\ answer[h.fence] \in {"none", "result"}
      /\ UNCHANGED <<leaseHistory, fencingSeq, commits>>
  BY DEF OnResult, tables
<1>2. SameRows BY <1>1, KeptRows DEF IInv
<1>3. /\ d \in LeasesOf(h.worker)
      /\ AnsweredBy(w, "result")' = AnsweredBy(w, "result") \cup
           (IF h.worker = w THEN {d} ELSE {})
      /\ AnsweredBy(w, "failed")' = AnsweredBy(w, "failed")
  BY <1>1, <1>2, AnswerServes
<1>4. LeasesOf(w)' = LeasesOf(w) /\ Newest' = Newest BY <1>2, SameLeases
<1>5. CASE h.worker = w
  <2>1. d \notin AnsweredBy(w, "failed") BY <1>1 DEF AnsweredBy
  <2>2. Service(w)!Deliver(d) BY <1>1, <1>3, <1>4, <1>5, <2>1 DEF Service!Deliver
  <2> QED BY <1>3, <1>5, <2>2 DEF Service!Next
<1>6. CASE h.worker # w BY <1>1, <1>3, <1>4, <1>6 DEF Service!vars
<1> QED BY <1>5, <1>6

LEMMA OnFailedServes ==
  ASSUME IInv, ServiceInv, NEW s \in Slots, NEW h \in leaseHistory,
         NEW type \in {"reject", "failure"}, OnFailed(s, h, type), NEW w \in Workers
  PROVE  [Service(w)!Next]_(Service(w)!vars)
<1> DEFINE d == <<h.job, h.fence>>
<1>1. /\ answer' = [answer EXCEPT ![h.fence] = "failed"]
      /\ answer[h.fence] = "none"
      /\ leaseHistory' = leaseHistory
         \/ leaseHistory' = TerminateHistory({AnswerTo(h, type).job})
      /\ UNCHANGED <<fencingSeq, commits>>
  BY DEF OnFailed
<1>2. SameRows BY <1>1, KeptRows DEF IInv
<1>3. /\ d \in LeasesOf(h.worker)
      /\ AnsweredBy(w, "failed")' = AnsweredBy(w, "failed") \cup
           (IF h.worker = w THEN {d} ELSE {})
      /\ AnsweredBy(w, "result")' = AnsweredBy(w, "result")
  BY <1>1, <1>2, AnswerServes
<1>4. LeasesOf(w)' = LeasesOf(w) /\ Newest' = Newest BY <1>2, SameLeases
<1>5. CASE h.worker = w
  <2>1. d \notin AnsweredBy(w, "failed") \cup AnsweredBy(w, "result")
    BY <1>1 DEF AnsweredBy
  <2>2. Service(w)!Refuse(d) BY <1>1, <1>3, <1>4, <1>5, <2>1 DEF Service!Refuse
  <2> QED BY <1>3, <1>5, <2>2 DEF Service!Next
<1>6. CASE h.worker # w BY <1>1, <1>3, <1>4, <1>6 DEF Service!vars
<1> QED BY <1>5, <1>6

\* The accepted commit is the answer to the newest token: the fence at work.
LEMMA CommitServes ==
  ASSUME IInv, ServiceInv, NEW s \in Slots, OnResultCommit(s), NEW w \in Workers
  PROVE  [Service(w)!Next]_(Service(w)!vars)
<1> DEFINE m == handler[s].msg
<1>1. m.job \in Jobs /\ m.token \in Tokens /\ m \in Message
  BY HandlerMessage DEF IInv, OnResultCommit
<1>2. /\ UNCHANGED <<fencingSeq, answer>>
      /\ leaseHistory' = leaseHistory \/ leaseHistory' = TerminateHistory({m.job})
  BY DEF OnResultCommit, CommitWith, tables
<1>3. SameRows BY <1>2, KeptRows DEF IInv
<1>4. CASE UNCHANGED commits BY <1>2, <1>3, <1>4, StutterServes
<1>5. CASE ~UNCHANGED commits
  <2>1. /\ HoldsLease(m) /\ status[m.job] = "dispatched"
        /\ commits' = [commits EXCEPT ![m.job] =
                         Append(@, [fence |-> m.token, worker |-> m.worker])]
    BY <1>5 DEF OnResultCommit, CommitWith, tables
  <2>2. commits[m.job] = << >> BY <1>1, <2>1 DEF IInv, CommittedOnce
  <2>3. commits'[m.job] # << >> /\ \A k \in Jobs \ {m.job} : commits'[k] = commits[k]
    <3> DEFINE row == [fence |-> m.token, worker |-> m.worker]
    <3>1. commits' = [commits EXCEPT ![m.job] = Append(@, row)] BY <2>1
    <3>2. Append(<< >>, row) # << >>
      <4> HIDE DEF row
      <4> QED OBVIOUS
    <3> HIDE DEF row
    <3> QED BY <1>1, <2>2, <3>1, <3>2 DEF IInv, TypeOK
  <2>4. Newest[m.job] = m.token
    <3>1. /\ \E h \in leaseHistory : h.job = m.job /\ h.fence = m.token
          /\ \A h \in leaseHistory : h.job = m.job => h.fence <= m.token
      BY <1>1, <2>1 DEF IInv, LeaseIsNewest, HoldsLease
    <3>2. m.token \in Fences(m.job) /\ \A u \in Fences(m.job) : u <= m.token
      BY <3>1 DEF Fences
    <3>3. Fences(m.job) \subseteq Nat
      BY BoundAssumption DEF Fences, IInv, TypeOK, HistoryRow, Tokens
    <3> QED BY <1>1, <3>2, <3>3, LargestIs DEF Newest
  <2>5. m.token # 0 BY <1>1, BoundAssumption DEF Tokens
  <2>6. <<m.job, m.token>> \in LeasesOf(w) => <<m.job, m.token>> \in AnsweredBy(w, "result")
    <3>1. Resolving(s) BY DEF OnResultCommit, CommitWith, Resolving
    <3> QED BY <3>1 DEF ServiceInv, ResultIsOnRecord, AnsweredBy
  <2>7. /\ LeasesOf(w)' = LeasesOf(w) /\ Newest' = Newest
        /\ \A type : AnsweredBy(w, type)' = AnsweredBy(w, type)
    BY <1>2, <1>3, SameLeases DEF AnsweredBy
  <2>8. {j \in Jobs : commits[j] # << >>}' = {j \in Jobs : commits[j] # << >>} \cup {m.job}
    BY <1>1, <2>3
  <2>9. ASSUME NEW j \in Jobs, j = m.job PROVE Service(w)!Succeed(j)
    BY <1>2, <2>2, <2>4, <2>5, <2>6, <2>7, <2>8, <2>9 DEF Service!Succeed
  <2> QED BY <1>1, <2>9 DEF Service!Next
<1> QED BY <1>4, <1>5

LEMMA TableServes ==
  ASSUME IInv, NEW J, NEW w \in Workers,
         leaseHistory' = leaseHistory \/ leaseHistory' = TerminateHistory(J),
         UNCHANGED <<fencingSeq, answer, commits>>
  PROVE  [Service(w)!Next]_(Service(w)!vars)
BY KeptRows, StutterServes DEF IInv

LEMMA NextServes ==
  ASSUME IInv, ServiceInv, [Next]_vars, NEW w \in Workers
  PROVE  [Service(w)!Next]_(Service(w)!vars)
<1>1. ASSUME NEW j \in Jobs, JobStep(j) PROVE [Service(w)!Next]_(Service(w)!vars)
  <2>1. ASSUME NEW v \in Workers, Dispatch(j, v) PROVE Service(w)!Next
    BY <2>1, DispatchServes DEF Service!Next
  <2>2. CASE DispatchConflict(j)
    <3>1. Service(w)!SkipToken
      BY <2>2 DEF DispatchConflict, Service!SkipToken, LeasesOf, AnsweredBy, Newest, Fences
    <3> QED BY <3>1 DEF Service!Next
  <2>3. CASE CreateJob(j) \/ LeaseExpires(j) \/ \E c \in Clients : CancelRead(c, j)
    BY <2>3, TableServes DEF CreateJob, LeaseExpires, CancelRead, tables
  <2> QED BY <1>1, <2>1, <2>2, <2>3 DEF JobStep
<1>2. ASSUME NEW s \in Slots, HandlerStep(s) PROVE [Service(w)!Next]_(Service(w)!vars)
  <2>1. CASE \E h \in leaseHistory : OnResult(s, h) BY <2>1, OnResultServes
  <2>2. CASE OnResultCommit(s) BY <2>2, CommitServes
  <2>3. CASE \E h \in leaseHistory, type \in {"reject", "failure"} : OnFailed(s, h, type)
    BY <2>3, OnFailedServes
  <2>4. CASE \/ OnResultRecheck(s) \/ OnFailedUpdate(s) \/ OnFailedHistory(s)
             \/ OnFailedTransition(s) \/ Abort(s)
    BY <2>4, TableServes
       DEF OnResultRecheck, OnFailedUpdate, OnFailedHistory, OnFailedTransition, Abort, tables
  <2> QED BY <1>2, <2>1, <2>2, <2>3, <2>4 DEF HandlerStep
<1>3. CASE \E h \in leaseHistory : Heartbeat(h) BY <1>3, TableServes DEF Heartbeat
<1>4. CASE \E J \in SUBSET Jobs : Reap(J) BY <1>4, TableServes DEF Reap
<1>5. CASE \E c \in Clients : CancelCommit(c) \/ AbortCancel(c)
  BY <1>5, TableServes DEF CancelCommit, AbortCancel, tables
<1>6. CASE UNCHANGED vars BY <1>6, TableServes DEF vars, tables
<1> QED BY <1>1, <1>2, <1>3, <1>4, <1>5, <1>6 DEF Next

\* For each worker, the dispatcher's tables are a LeaseService: all that
\* WorkerService assumes of the coordinators is true of them.
THEOREM WorkersAreServed ==
  ASSUME NEW CONSTANT w \in Workers
  PROVE  Spec => Service(w)!Spec
<1>1. Init => Service(w)!Init BY InitServes
<1>2. IInv /\ ServiceInv /\ [Next]_vars => [Service(w)!Next]_(Service(w)!vars)
  BY NextServes
<1> QED BY <1>1, <1>2, ServiceInvariant, PTL DEF Spec, Service!Spec

\* The same for all workers at once, as one step of the tables.
THEOREM ServiceRefinement == Spec => ServesWorkers
<1> DEFINE Step == \/ UNCHANGED <<fencingSeq, leaseHistory, commits, answer>>
                   \/ \A w \in Workers : [Service(w)!Next]_(Service(w)!vars)
           Start == \A w \in Workers : Service(w)!Init
<1>1. Init => Start BY InitServes
<1>2. IInv /\ ServiceInv /\ [Next]_vars => [Step]_vars BY NextServes
<1>3. Spec => Start /\ [][Step]_vars
  <2> HIDE DEF Step, Start
  <2> QED BY <1>1, <1>2, ServiceInvariant, PTL DEF Spec
<1> QED BY <1>3 DEF ServesWorkers
=============================================================================
