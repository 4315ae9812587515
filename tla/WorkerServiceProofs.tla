------------------------ MODULE WorkerServiceProofs ------------------------
(* Proofs about WorkerService, for any jobs, tokens, retries and limits. *)
EXTENDS WorkerService, TLAPS

\* TypeOK in three parts: the worker, its messages, and the coordinators.
WorkerTypes ==
  /\ concurrencyLimit \in Limits
  /\ inFlight \in [Jobs -> Entry \cup {NoEntry}]
  /\ running \subseteq Dispatches
  /\ beating \subseteq Dispatches
WireTypes == wire \subseteq Message /\ delivered \subseteq leases /\ refused \subseteq leases
CoordinatorTypes ==
  /\ seq \in 0..MaxToken
  /\ leases \subseteq Dispatches
  /\ unsent \subseteq leases
  /\ newest \in [Jobs -> 0..MaxToken]
  /\ done \subseteq Jobs

\* What the worker got, works on or holds was leased to it.
Leased ==
  /\ running \subseteq leases
  /\ \A j \in Jobs : inFlight[j] # NoEntry => <<j, inFlight[j].token>> \in leases
  /\ \A m \in wire : m.type = "dispatch" => <<m.job, m.token>> \in leases

\* A job is done before its ack is sent.
AckedIsDone == \A m \in wire : m.type = "ack" => m.job \in done

\* An entry that waits for its ack has no execution.
WaitingIsSettled ==
  \A j \in Jobs : inFlight[j] # NoEntry /\ inFlight[j].waiting =>
    <<j, inFlight[j].token>> \notin running

\* While a job is not done, each execution of it is the one its entry stands for.
RunningIsHeld ==
  \A d \in running : d[1] \notin done =>
    d[1] \in Held /\ inFlight[d[1]].token = d[2]

\* The inductive invariant.
WorkerInv ==
  /\ connected \in BOOLEAN
  /\ WorkerTypes /\ WireTypes /\ CoordinatorTypes
  /\ Leased /\ AckedIsDone /\ WaitingIsSettled
  /\ RunningIsHeld /\ HeartbeatIsOwned

USE RetryAssumption, LimitAssumption, EntryAssumption
    DEF worker, answers, coordinators, Tokens, Dispatches

LEMMA InitWorker == Init => WorkerInv
<1> SUFFICES ASSUME Init PROVE WorkerInv OBVIOUS
<1> USE DEF Init
<1>1. connected \in BOOLEAN OBVIOUS
<1>2. WorkerTypes BY DEF WorkerTypes
<1>3. WireTypes BY DEF WireTypes
<1>4. CoordinatorTypes BY DEF CoordinatorTypes
<1>5. Leased /\ AckedIsDone BY DEF Leased, AckedIsDone
<1>6. WaitingIsSettled BY DEF WaitingIsSettled
<1>7. RunningIsHeld /\ HeartbeatIsOwned
  BY DEF RunningIsHeld, HeartbeatIsOwned
<1> QED BY <1>1, <1>2, <1>3, <1>4, <1>5, <1>6, <1>7 DEF WorkerInv

-----------------------------------------------------------------------------
(* The coordinators' steps *)

LEMMA LeaseWorker ==
  ASSUME WorkerInv, NEW j \in Jobs, NEW mine \in BOOLEAN, LeaseJob(j, mine)
  PROVE  WorkerInv'
<1> USE DEF WorkerInv, LeaseJob, Service!Lease
<1>0. leases \subseteq leases' /\ <<j, seq + 1>> \in Dispatches
  BY DEF CoordinatorTypes
<1>1. connected' \in BOOLEAN OBVIOUS
<1>2. WorkerTypes' BY DEF WorkerTypes
<1>3. WireTypes' BY <1>0 DEF WireTypes
<1>4. CoordinatorTypes' BY <1>0 DEF CoordinatorTypes
<1>5. Leased' /\ AckedIsDone' BY <1>0 DEF Leased, AckedIsDone
<1>6. WaitingIsSettled' BY DEF WaitingIsSettled
<1>7. RunningIsHeld' /\ HeartbeatIsOwned'
  BY DEF RunningIsHeld, HeartbeatIsOwned, Held
<1> QED BY <1>1, <1>2, <1>3, <1>4, <1>5, <1>6, <1>7

LEMMA SendWorker ==
  ASSUME WorkerInv, NEW d \in unsent, SendJob(d)
  PROVE  WorkerInv'
<1> USE DEF WorkerInv, SendJob
<1> DEFINE m == [type |-> "dispatch", job |-> d[1], token |-> d[2]]
<1>0. d \in leases /\ d \in Dispatches /\ d = <<d[1], d[2]>> BY DEF CoordinatorTypes
<1>1. connected' \in BOOLEAN OBVIOUS
<1>2. WorkerTypes' BY DEF WorkerTypes
<1>3. WireTypes'
  <2>1. m \in Message BY <1>0 DEF Message
  <2> QED BY <2>1 DEF WireTypes
<1>4. CoordinatorTypes' BY DEF CoordinatorTypes
<1>5. Leased' /\ AckedIsDone' BY <1>0 DEF Leased, AckedIsDone
<1>6. WaitingIsSettled' BY DEF WaitingIsSettled
<1>7. RunningIsHeld' /\ HeartbeatIsOwned'
  BY DEF RunningIsHeld, HeartbeatIsOwned, Held
<1> QED BY <1>1, <1>2, <1>3, <1>4, <1>5, <1>6, <1>7

LEMMA SucceedWorker ==
  ASSUME WorkerInv, NEW j \in Jobs, Succeed(j)
  PROVE  WorkerInv'
<1> USE DEF WorkerInv, Succeed, Service!Succeed
<1>1. connected' \in BOOLEAN OBVIOUS
<1>2. WorkerTypes' BY DEF WorkerTypes
<1>3. WireTypes' BY DEF WireTypes
<1>4. CoordinatorTypes' BY DEF CoordinatorTypes
<1>5. Leased' /\ AckedIsDone' BY DEF Leased, AckedIsDone
<1>6. WaitingIsSettled' BY DEF WaitingIsSettled
<1>7. RunningIsHeld' /\ HeartbeatIsOwned'
  BY DEF RunningIsHeld, HeartbeatIsOwned, Held
<1> QED BY <1>1, <1>2, <1>3, <1>4, <1>5, <1>6, <1>7

LEMMA SkipWorker ==
  ASSUME WorkerInv, SkipToken
  PROVE  WorkerInv'
<1> USE DEF WorkerInv, SkipToken, Service!SkipToken
<1>1. connected' \in BOOLEAN OBVIOUS
<1>2. WorkerTypes' BY DEF WorkerTypes
<1>3. WireTypes' BY DEF WireTypes
<1>4. CoordinatorTypes' BY DEF CoordinatorTypes
<1>5. Leased' /\ AckedIsDone' BY DEF Leased, AckedIsDone
<1>6. WaitingIsSettled' BY DEF WaitingIsSettled
<1>7. RunningIsHeld' /\ HeartbeatIsOwned'
  BY DEF RunningIsHeld, HeartbeatIsOwned, Held
<1> QED BY <1>1, <1>2, <1>3, <1>4, <1>5, <1>6, <1>7

LEMMA MessageWorker ==
  ASSUME WorkerInv, (\E j \in Jobs : SendAck(j)) \/ (\E n \in Limits : SetConcurrency(n))
  PROVE  WorkerInv'
<1> USE DEF WorkerInv, SendAck, SetConcurrency, Service!Ackable
<1>1. connected' \in BOOLEAN OBVIOUS
<1>2. WorkerTypes' BY DEF WorkerTypes
<1>3. WireTypes'
  <2>1. ASSUME NEW j \in Jobs PROVE [type |-> "ack", job |-> j] \in Message BY DEF Message
  <2>2. ASSUME NEW n \in Limits PROVE [type |-> "limit", limit |-> n] \in Message
    BY DEF Message
  <2> QED BY <2>1, <2>2 DEF WireTypes
<1>4. CoordinatorTypes' BY DEF CoordinatorTypes
<1>5. Leased' /\ AckedIsDone' BY DEF Leased, AckedIsDone
<1>6. WaitingIsSettled' BY DEF WaitingIsSettled
<1>7. RunningIsHeld' /\ HeartbeatIsOwned'
  BY DEF RunningIsHeld, HeartbeatIsOwned, Held
<1> QED BY <1>1, <1>2, <1>3, <1>4, <1>5, <1>6, <1>7

-----------------------------------------------------------------------------
(* The worker's steps *)

\* An entry leaves with its heartbeat interval, and no other is touched.
LEMMA RemoveEffect ==
  ASSUME WorkerInv, NEW j \in Jobs, Remove(j)
  PROVE  /\ inFlight' \in [Jobs -> Entry \cup {NoEntry}]
         /\ inFlight'[j] = NoEntry
         /\ \A k \in Jobs \ {j} : inFlight'[k] = inFlight[k]
         /\ beating' \subseteq beating
         /\ \A d \in beating' : d[1] # j
<1> USE DEF WorkerInv, WorkerTypes, Remove
<1>1. /\ inFlight' \in [Jobs -> Entry \cup {NoEntry}]
      /\ inFlight'[j] = NoEntry
      /\ \A k \in Jobs \ {j} : inFlight'[k] = inFlight[k]
      /\ beating' \subseteq beating
  OBVIOUS
<1>2. ASSUME NEW d \in beating', d[1] = j PROVE FALSE
  <2>1. d \in beating /\ d = <<d[1], d[2]>> OBVIOUS
  <2>2. j \in Held /\ inFlight[j].token = d[2] BY <1>2, <2>1 DEF HeartbeatIsOwned
  <2> QED BY <1>2, <2>1, <2>2
<1> QED BY <1>1, <1>2

\* Whoever takes an entry away must know that no execution needs it.
LEMMA RemoveKeeps ==
  ASSUME WorkerInv, NEW j \in Jobs, Remove(j), running' \subseteq running,
         \A d \in running' : d[1] = j => j \in done,
         UNCHANGED <<concurrencyLimit, coordinators>>
  PROVE  /\ WorkerTypes' /\ CoordinatorTypes' /\ WaitingIsSettled'
         /\ RunningIsHeld' /\ HeartbeatIsOwned'
         /\ running' \subseteq leases'
         /\ \A k \in Jobs : inFlight'[k] # NoEntry => <<k, inFlight'[k].token>> \in leases'
<1> USE RemoveEffect DEF WorkerInv
<1>1. WorkerTypes' BY DEF WorkerTypes
<1>2. CoordinatorTypes' BY DEF CoordinatorTypes
<1>3. WaitingIsSettled' BY DEF WaitingIsSettled
<1>4. RunningIsHeld'
  BY DEF RunningIsHeld, Held, WorkerTypes
<1>5. HeartbeatIsOwned' BY DEF HeartbeatIsOwned, Held, WorkerTypes
<1>6. /\ running' \subseteq leases'
      /\ \A k \in Jobs : inFlight'[k] # NoEntry => <<k, inFlight'[k].token>> \in leases'
  BY DEF Leased
<1> QED BY <1>1, <1>2, <1>3, <1>4, <1>5, <1>6

LEMMA DispatchWorker ==
  ASSUME WorkerInv, NEW m \in wire, HandleDispatch(m)
  PROVE  WorkerInv'
<1> USE DEF WorkerInv, HandleDispatch
<1>0. /\ m.job \in Jobs /\ m.token \in Tokens /\ <<m.job, m.token>> \in leases
      /\ wire' \subseteq wire
  BY DEF WireTypes, Message, Leased
<1>1. CASE UNCHANGED worker /\ (UNCHANGED answers \/ SendFailed(m.job, m.token))
  BY <1>0, <1>1 DEF SendFailed, WorkerTypes, WireTypes, CoordinatorTypes, Leased, AckedIsDone,
                    WaitingIsSettled, RunningIsHeld, HeartbeatIsOwned, Held
<1>2. CASE m.job \notin Held /\ Accept(m.job, m.token) /\ UNCHANGED answers
  <2> DEFINE j == m.job
             t == m.token
             e == [token |-> t, retryCount |-> 0, waiting |-> FALSE]
  <2>a. e \in Entry
    <3>1. 0 \in 0..(MaxRetries - 1) BY RetryAssumption
    <3> QED BY <1>0, <3>1 DEF Entry
  <2>b. e # NoEntry BY <2>a, EntryAssumption
  <2>c. inFlight[j] = NoEntry BY <1>0, <1>2 DEF Held
  <2>0. /\ e \in Entry /\ e # NoEntry /\ e.token = t /\ ~e.waiting
        /\ inFlight[j] = NoEntry
    BY <2>a, <2>b, <2>c
  <2> HIDE DEF e
  <2>1. /\ inFlight' = [inFlight EXCEPT ![j] = e]
        /\ running' = running \cup {<<j, t>>}
        /\ beating' = beating \cup {<<j, t>>}
        /\ UNCHANGED <<concurrencyLimit, connected, answers, coordinators>>
    BY <1>2 DEF Accept, e
  <2>2. inFlight'[j] = e /\ \A k \in Jobs \ {j} : inFlight'[k] = inFlight[k]
    BY <1>0, <2>1 DEF WorkerTypes
  <2>3. connected' \in BOOLEAN BY <2>1
  <2>4. WorkerTypes' BY <1>0, <2>0, <2>1 DEF WorkerTypes
  <2>5. WireTypes' /\ CoordinatorTypes' BY <1>0, <2>1 DEF WireTypes, CoordinatorTypes
  <2>6. Leased' /\ AckedIsDone' BY <1>0, <2>0, <2>1, <2>2 DEF Leased, AckedIsDone
  <2>7. WaitingIsSettled' BY <1>0, <2>0, <2>1, <2>2 DEF WaitingIsSettled
  <2>8. RunningIsHeld'
    BY <1>0, <2>0, <2>1, <2>2 DEF RunningIsHeld, Held, WorkerTypes
  <2>9. HeartbeatIsOwned'
    BY <1>0, <2>0, <2>1, <2>2 DEF HeartbeatIsOwned, Held, WorkerTypes
  <2> QED BY <2>3, <2>4, <2>5, <2>6, <2>7, <2>8, <2>9
<1> QED BY <1>1, <1>2

LEMMA AckWorker ==
  ASSUME WorkerInv, NEW m \in wire, HandleAck(m)
  PROVE  WorkerInv'
<1> USE DEF WorkerInv, HandleAck
<1>1. m.job \in Jobs /\ m.job \in done
  BY DEF WireTypes, Message, AckedIsDone
<1>2. /\ WorkerTypes' /\ CoordinatorTypes' /\ WaitingIsSettled'
      /\ RunningIsHeld' /\ HeartbeatIsOwned'
      /\ running' \subseteq leases'
      /\ \A k \in Jobs : inFlight'[k] # NoEntry => <<k, inFlight'[k].token>> \in leases'
  BY <1>1, RemoveKeeps
<1>3. WireTypes' BY DEF WireTypes
<1>4. Leased' /\ AckedIsDone' BY <1>2 DEF Leased, AckedIsDone
<1> QED BY <1>2, <1>3, <1>4

LEMMA LimitWorker ==
  ASSUME WorkerInv, NEW m \in wire, HandleLimit(m)
  PROVE  WorkerInv'
<1> USE DEF WorkerInv, HandleLimit
<1>1. m.limit \in Limits BY DEF WireTypes, Message
<1>2. WorkerTypes' BY <1>1 DEF WorkerTypes
<1>3. WireTypes' /\ CoordinatorTypes' BY DEF WireTypes, CoordinatorTypes
<1>4. Leased' /\ AckedIsDone' BY DEF Leased, AckedIsDone
<1>5. WaitingIsSettled' BY DEF WaitingIsSettled
<1>6. RunningIsHeld' /\ HeartbeatIsOwned'
  BY DEF RunningIsHeld, HeartbeatIsOwned, Held
<1> QED BY <1>2, <1>3, <1>4, <1>5, <1>6

LEMMA FinishWorker ==
  ASSUME WorkerInv, NEW j \in Jobs, NEW t \in Tokens, Finish(j, t)
  PROVE  WorkerInv'
<1> USE DEF WorkerInv, Finish
<1>1. CASE j \in Held /\ inFlight[j].token = t
  <2> DEFINE e == [inFlight[j] EXCEPT !.waiting = TRUE]
  <2>0. /\ e \in Entry /\ e # NoEntry /\ e.token = t /\ inFlight[j] # NoEntry
    BY <1>1 DEF Entry, Held, WorkerTypes
  <2>1. /\ inFlight' = [inFlight EXCEPT ![j] = e]
        /\ SendResult(j, t) /\ UNCHANGED beating
    BY <1>1
  <2> HIDE DEF e
  <2>2. inFlight'[j] = e /\ \A k \in Jobs \ {j} : inFlight'[k] = inFlight[k]
    BY <2>1 DEF WorkerTypes
  <2>3. <<j, t>> \in leases BY <1>1 DEF Leased
  <2>4. WorkerTypes' BY <2>0, <2>1 DEF WorkerTypes
  <2>5. WireTypes' /\ CoordinatorTypes'
    BY <2>1, <2>3 DEF WireTypes, CoordinatorTypes, SendResult
  <2>6. Leased' /\ AckedIsDone' BY <2>0, <2>2, <2>3 DEF Leased, AckedIsDone
  <2>7. WaitingIsSettled' BY <2>0, <2>2 DEF WaitingIsSettled
  <2>8. RunningIsHeld'
    BY <1>1, <2>0, <2>2 DEF RunningIsHeld, Held, WorkerTypes
  <2>9. HeartbeatIsOwned'
    BY <1>1, <2>0, <2>1, <2>2 DEF HeartbeatIsOwned, Held, WorkerTypes
  <2> QED BY <2>4, <2>5, <2>6, <2>7, <2>8, <2>9
<1>2. CASE ~(j \in Held /\ inFlight[j].token = t)
  <2>1. j \in done BY <1>2 DEF RunningIsHeld
  <2>2. Remove(j) /\ UNCHANGED answers BY <1>2
  <2>3. /\ WorkerTypes' /\ CoordinatorTypes' /\ WaitingIsSettled'
        /\ RunningIsHeld' /\ HeartbeatIsOwned'
        /\ running' \subseteq leases'
        /\ \A k \in Jobs : inFlight'[k] # NoEntry => <<k, inFlight'[k].token>> \in leases'
    BY <2>1, <2>2, RemoveKeeps
  <2>4. WireTypes' BY <2>2 DEF WireTypes
  <2>5. Leased' /\ AckedIsDone' BY <2>3 DEF Leased, AckedIsDone
  <2> QED BY <2>3, <2>4, <2>5
<1> QED BY <1>1, <1>2

LEMMA ThrowWorker ==
  ASSUME WorkerInv, NEW j \in Jobs, NEW t \in Tokens, Throw(j, t)
  PROVE  WorkerInv'
<1> USE DEF WorkerInv, Throw
<1>1. CASE j \in Held /\ inFlight[j].token = t
  <2>1. ASSUME NEW d \in running', d[1] = j PROVE j \in done
    <3>1. d \in running /\ d # <<j, t>> /\ d = <<d[1], d[2]>> BY DEF WorkerTypes
    <3> QED BY <1>1, <2>1, <3>1 DEF RunningIsHeld
  <2>0. <<j, t>> \in leases BY DEF Leased
  <2>2. Remove(j) /\ SendFailed(j, t) BY <1>1
  <2>3. /\ WorkerTypes' /\ CoordinatorTypes' /\ WaitingIsSettled'
        /\ RunningIsHeld' /\ HeartbeatIsOwned'
        /\ running' \subseteq leases'
        /\ \A k \in Jobs : inFlight'[k] # NoEntry => <<k, inFlight'[k].token>> \in leases'
    BY <2>1, <2>2, RemoveKeeps
  <2>4. WireTypes' BY <2>0, <2>2 DEF WireTypes, SendFailed
  <2>5. Leased' /\ AckedIsDone' BY <2>3 DEF Leased, AckedIsDone
  <2> QED BY <2>3, <2>4, <2>5
<1>2. CASE ~(j \in Held /\ inFlight[j].token = t)
  BY <1>2 DEF WorkerTypes, WireTypes, CoordinatorTypes, Leased, AckedIsDone,
              WaitingIsSettled, RunningIsHeld, HeartbeatIsOwned, Held
<1> QED BY <1>1, <1>2

LEMMA RetryWorker ==
  ASSUME WorkerInv, NEW j \in Jobs, Retry(j)
  PROVE  WorkerInv'
<1> USE DEF WorkerInv, Retry, RetryWith
<1> DEFINE t == inFlight[j].token
           n == inFlight[j].retryCount + 1
<1>0. /\ inFlight[j] \in Entry /\ inFlight[j] # NoEntry /\ inFlight[j].waiting
      /\ <<j, t>> \in leases /\ <<j, t>> \notin running
  BY DEF Held, WorkerTypes, Leased, WaitingIsSettled
<1>1. WireTypes' BY <1>0 DEF WireTypes, SendResult
<1>2. CASE n < MaxRetries /\ inFlight' = [inFlight EXCEPT ![j].retryCount = n] /\ UNCHANGED beating
  <2> DEFINE e == [inFlight[j] EXCEPT !.retryCount = n]
  <2>0. e \in Entry /\ e # NoEntry /\ e.token = t BY <1>0, <1>2 DEF Entry
  <2>1. inFlight' = [inFlight EXCEPT ![j] = e] BY <1>2
  <2> HIDE DEF e
  <2>2. inFlight'[j] = e /\ \A k \in Jobs \ {j} : inFlight'[k] = inFlight[k]
    BY <2>1 DEF WorkerTypes
  <2>4. WorkerTypes' BY <1>2, <2>0, <2>1 DEF WorkerTypes
  <2>5. CoordinatorTypes' BY DEF CoordinatorTypes
  <2>6. Leased' /\ AckedIsDone' BY <1>0, <2>0, <2>2 DEF Leased, AckedIsDone
  <2>7. WaitingIsSettled' BY <1>0, <2>0, <2>2 DEF WaitingIsSettled
  <2>8. RunningIsHeld'
    BY <1>0, <2>0, <2>2 DEF RunningIsHeld, Held, WorkerTypes
  <2>9. HeartbeatIsOwned'
    BY <1>0, <1>2, <2>0, <2>2 DEF HeartbeatIsOwned, Held, WorkerTypes
  <2> QED BY <1>1, <2>4, <2>5, <2>6, <2>7, <2>8, <2>9
<1>3. CASE Remove(j)
  <2>1. ASSUME NEW d \in running', d[1] = j PROVE j \in done
    <3>1. d \in running /\ d # <<j, t>> /\ d = <<d[1], d[2]>> BY <1>0 DEF WorkerTypes
    <3> QED BY <1>0, <2>1, <3>1 DEF RunningIsHeld
  <2>2. /\ WorkerTypes' /\ CoordinatorTypes' /\ WaitingIsSettled'
        /\ RunningIsHeld' /\ HeartbeatIsOwned'
        /\ running' \subseteq leases'
        /\ \A k \in Jobs : inFlight'[k] # NoEntry => <<k, inFlight'[k].token>> \in leases'
    BY <1>3, <2>1, RemoveKeeps
  <2>3. Leased' /\ AckedIsDone' BY <2>2 DEF Leased, AckedIsDone
  <2> QED BY <1>1, <2>2, <2>3
<1> QED BY <1>2, <1>3

LEMMA ConnectionWorker ==
  ASSUME WorkerInv, Disconnect \/ Connect \/ Restart
  PROVE  WorkerInv'
<1> USE DEF WorkerInv, Disconnect, Connect, Restart
<1>1. connected' \in BOOLEAN OBVIOUS
<1>2. WorkerTypes' BY DEF WorkerTypes
<1>3. WireTypes' /\ CoordinatorTypes' BY DEF WireTypes, CoordinatorTypes
<1>4. Leased' /\ AckedIsDone' BY DEF Leased, AckedIsDone
<1>5. WaitingIsSettled' BY DEF WaitingIsSettled
<1>6. RunningIsHeld' /\ HeartbeatIsOwned'
  BY DEF RunningIsHeld, HeartbeatIsOwned, Held
<1> QED BY <1>1, <1>2, <1>3, <1>4, <1>5, <1>6

LEMMA NextWorker == WorkerInv /\ [Next]_vars => WorkerInv'
<1> SUFFICES ASSUME WorkerInv, [Next]_vars PROVE WorkerInv' OBVIOUS
<1>1. CASE Coordinator
  BY <1>1, LeaseWorker, SendWorker, SucceedWorker, SkipWorker, MessageWorker
     DEF Coordinator
<1>2. CASE \E m \in wire : HandleDispatch(m) \/ HandleAck(m) \/ HandleLimit(m)
  BY <1>2, DispatchWorker, AckWorker, LimitWorker
<1>3. CASE \E d \in running : Settle(d[1], d[2])
  <2>1. PICK d \in running : Settle(d[1], d[2]) BY <1>3
  <2>2. d[1] \in Jobs /\ d[2] \in Tokens BY DEF WorkerInv, WorkerTypes
  <2> QED BY <2>1, <2>2, FinishWorker, ThrowWorker DEF Settle
<1>4. CASE \E j \in Jobs : Retry(j) BY <1>4, RetryWorker
<1>5. CASE Disconnect \/ Connect \/ Restart BY <1>5, ConnectionWorker
<1>6. CASE UNCHANGED vars
  BY <1>6 DEF vars, WorkerInv, WorkerTypes, WireTypes, CoordinatorTypes, Leased, AckedIsDone,
              WaitingIsSettled, RunningIsHeld, HeartbeatIsOwned, Held
<1> QED BY <1>1, <1>2, <1>3, <1>4, <1>5, <1>6 DEF Next

LEMMA WorkerInvariant == Spec => []WorkerInv
BY InitWorker, NextWorker, PTL DEF Spec

\* The in-flight map, the messages and the retry counts keep their types.
THEOREM WorkerTypeCorrect == Spec => []TypeOK
<1>1. WorkerInv => TypeOK
  BY DEF WorkerInv, TypeOK, WorkerTypes, WireTypes, CoordinatorTypes
<1> QED BY <1>1, WorkerInvariant, PTL

\* worker.ts, handleDispatch: the check of the in-flight map keeps a job that is
\* not done from being executed twice at a time, because its entry outlives the
\* execution: only the ack of a job that is done removes it earlier.
THEOREM JobRunsOnce == Spec => []OneExecution
<1>1. WorkerInv => OneExecution
  <2> SUFFICES ASSUME WorkerInv, NEW d \in running, NEW e \in running,
                      d[1] = e[1], d[1] \notin done
               PROVE  d = e
    BY DEF OneExecution
  <2>1. inFlight[d[1]].token = d[2] /\ inFlight[e[1]].token = e[2]
    BY DEF WorkerInv, RunningIsHeld
  <2>2. d \in Dispatches /\ e \in Dispatches BY DEF WorkerInv, WorkerTypes
  <2> QED BY <2>1, <2>2
<1> QED BY <1>1, WorkerInvariant, PTL

\* worker.ts, heartbeatTimer: each way out of the map clears the entry's timer.
THEOREM HeartbeatsAreOwned == Spec => []HeartbeatIsOwned
BY WorkerInvariant, PTL DEF WorkerInv
-----------------------------------------------------------------------------
(* The contract with the coordinators *)

DispatchOf(d) == [type |-> "dispatch", job |-> d[1], token |-> d[2]]

Holds(d) == d[1] \in Held /\ inFlight[d[1]].token = d[2]

\* The worker has not seen the dispatch.
Unseen(d) == d \notin running \cup delivered \cup refused /\ ~Holds(d)

\* A dispatch is sent once and arrives at most once; until then it is unseen.
UnsentIsUnseen == \A d \in unsent : Unseen(d) /\ DispatchOf(d) \notin wire
SentIsUnseen == \A d \in leases : DispatchOf(d) \in wire => Unseen(d)

\* An execution has not been answered for, and a refused dispatch is not held.
RunningIsOpen == \A d \in running : d \notin delivered \cup refused
RefusedIsNotHeld == \A d \in refused : ~Holds(d)

LeasesAreDrawn == \A d \in leases : d[2] <= seq

AnswerInv ==
  /\ UnsentIsUnseen /\ SentIsUnseen
  /\ RunningIsOpen /\ RefusedIsNotHeld
  /\ LeasesAreDrawn

LEMMA InitAnswers == Init => AnswerInv
BY DEF Init, AnswerInv, UnsentIsUnseen, SentIsUnseen, RunningIsOpen, RefusedIsNotHeld,
       LeasesAreDrawn

\* What the worker holds or has answered was leased before.
LEMMA SeenIsLeased ==
  ASSUME WorkerInv, NEW d \in Dispatches, d \notin leases
  PROVE  Unseen(d)
<1>1. d = <<d[1], d[2]>> /\ d[1] \in Jobs OBVIOUS
<1> QED BY <1>1 DEF Unseen, Holds, Held, WorkerInv, WorkerTypes, WireTypes, Leased

LEMMA LeaseAnswers ==
  ASSUME WorkerInv, AnswerInv, NEW j \in Jobs, NEW mine \in BOOLEAN, LeaseJob(j, mine)
  PROVE  AnswerInv'
<1> USE DEF AnswerInv, LeaseJob, Service!Lease, Held, Holds, Unseen
<1> DEFINE new == <<j, seq + 1>>
<1>1. new \notin leases /\ new \in Dispatches
  BY DEF WorkerInv, CoordinatorTypes, LeasesAreDrawn
<1>2. Unseen(new) BY <1>1, SeenIsLeased
<1>3. DispatchOf(new) \notin wire
  BY <1>1 DEF WorkerInv, Leased, DispatchOf
<1>4. UnsentIsUnseen' BY <1>2, <1>3 DEF UnsentIsUnseen, DispatchOf
<1>5. SentIsUnseen' BY <1>3 DEF SentIsUnseen, DispatchOf
<1>6. RunningIsOpen' /\ RefusedIsNotHeld' BY DEF RunningIsOpen, RefusedIsNotHeld
<1>7. LeasesAreDrawn'
  BY DEF LeasesAreDrawn, WorkerInv, CoordinatorTypes
<1> QED BY <1>4, <1>5, <1>6, <1>7

LEMMA SendAnswers ==
  ASSUME WorkerInv, AnswerInv, NEW d \in unsent, SendJob(d)
  PROVE  AnswerInv'
<1> USE DEF AnswerInv, SendJob, Held, Holds, Unseen
<1>1. \A e \in leases : DispatchOf(e) = DispatchOf(d) => e = d
  <2>1. ASSUME NEW e \in leases, DispatchOf(e) = DispatchOf(d) PROVE e = d
    <3>1. e \in Dispatches /\ d \in Dispatches BY DEF WorkerInv, CoordinatorTypes
    <3>2. e[1] = d[1] /\ e[2] = d[2] BY <2>1 DEF DispatchOf
    <3> QED BY <3>1, <3>2
  <2> QED BY <2>1
<1>2. wire' \subseteq wire \cup {DispatchOf(d)} BY DEF DispatchOf
<1>3. unsent \subseteq leases BY DEF WorkerInv, CoordinatorTypes
<1>4. UnsentIsUnseen' /\ SentIsUnseen'
  BY <1>1, <1>2, <1>3 DEF UnsentIsUnseen, SentIsUnseen, DispatchOf
<1>5. RunningIsOpen' /\ RefusedIsNotHeld' BY DEF RunningIsOpen, RefusedIsNotHeld
<1>6. LeasesAreDrawn' BY DEF LeasesAreDrawn
<1> QED BY <1>4, <1>5, <1>6

\* Steps that neither accept nor answer a dispatch.
LEMMA QuietAnswers ==
  ASSUME WorkerInv, AnswerInv,
         \A d \in leases : DispatchOf(d) \in wire' => DispatchOf(d) \in wire,
         running' \subseteq running,
         \A d \in Dispatches : Holds(d)' => Holds(d),
         UNCHANGED <<leases, unsent, answers>>, seq' \in {seq, seq + 1}
  PROVE  AnswerInv'
<1> USE DEF AnswerInv, WorkerInv, WireTypes, CoordinatorTypes
<1>1. UnsentIsUnseen' /\ SentIsUnseen'
  <2>1. \A d \in leases : Unseen(d) => Unseen(d)' BY DEF Unseen
  <2>2. \A d : DispatchOf(d)' = DispatchOf(d) BY DEF DispatchOf
  <2> QED BY <2>1, <2>2 DEF UnsentIsUnseen, SentIsUnseen
<1>2. RunningIsOpen' BY DEF RunningIsOpen
<1>3. RefusedIsNotHeld' BY DEF RefusedIsNotHeld
<1>4. LeasesAreDrawn' BY DEF LeasesAreDrawn
<1> QED BY <1>1, <1>2, <1>3, <1>4

LEMMA DispatchAnswers ==
  ASSUME WorkerInv, AnswerInv, NEW m \in wire, HandleDispatch(m)
  PROVE  AnswerInv'
<1> DEFINE d == <<m.job, m.token>>
<1> USE DEF AnswerInv, HandleDispatch
<1>0. m.job \in Jobs /\ m.token \in Tokens /\ d \in leases /\ m = DispatchOf(d)
  BY DEF WorkerInv, WireTypes, Message, Leased, DispatchOf
<1>1. Unseen(d) /\ d \notin unsent BY <1>0 DEF SentIsUnseen, UnsentIsUnseen
<1>2. /\ DispatchOf(d) \notin wire' /\ wire' \subseteq wire
      /\ \A e : DispatchOf(e)' = DispatchOf(e)
  BY <1>0 DEF DispatchOf
<1>3. LeasesAreDrawn' BY DEF LeasesAreDrawn
<1>4. CASE UNCHANGED worker /\ (UNCHANGED answers \/ SendFailed(m.job, m.token))
  <2>1. /\ UNCHANGED <<running, inFlight, delivered, leases, unsent>>
        /\ refused' \subseteq refused \cup {d}
    BY <1>4 DEF SendFailed
  <2>2. \A e : e # d /\ Unseen(e) => Unseen(e)' BY <2>1 DEF Unseen, Holds, Held
  <2>3. UnsentIsUnseen' /\ SentIsUnseen'
    BY <1>1, <1>2, <2>1, <2>2 DEF UnsentIsUnseen, SentIsUnseen
  <2>4. RunningIsOpen' /\ RefusedIsNotHeld'
    BY <1>1, <2>1 DEF RunningIsOpen, RefusedIsNotHeld, Unseen, Holds, Held
  <2> QED BY <1>3, <2>3, <2>4
<1>5. CASE m.job \notin Held /\ Accept(m.job, m.token) /\ UNCHANGED answers
  <2>1. /\ UNCHANGED <<delivered, refused, leases, unsent>>
        /\ running' = running \cup {d}
    BY <1>5 DEF Accept
  <2>2. ASSUME NEW e \in leases, Holds(e)' PROVE Holds(e) \/ e = d
    <3>1. e \in Dispatches BY DEF WorkerInv, CoordinatorTypes
    <3>2. CASE e[1] = m.job
      <4>1. inFlight'[e[1]].token = m.token
        BY <1>0, <1>5, <3>2 DEF Accept, WorkerInv, WorkerTypes
      <4> QED BY <2>2, <3>1, <3>2, <4>1 DEF Holds
    <3>3. CASE e[1] # m.job
      BY <1>5, <2>2, <3>1, <3>3 DEF Accept, Holds, Held, WorkerInv, WorkerTypes
    <3> QED BY <3>2, <3>3
  <2>3. \A e \in leases : e # d /\ Unseen(e) => Unseen(e)' BY <2>1, <2>2 DEF Unseen
  <2>4. UnsentIsUnseen' /\ SentIsUnseen'
    BY <1>1, <1>2, <2>1, <2>3 DEF UnsentIsUnseen, SentIsUnseen, WorkerInv, CoordinatorTypes
  <2>5. RunningIsOpen' BY <1>1, <2>1 DEF RunningIsOpen, Unseen
  <2>6. RefusedIsNotHeld'
    BY <1>1, <2>1, <2>2 DEF RefusedIsNotHeld, Unseen, WorkerInv, WireTypes
  <2> QED BY <1>3, <2>4, <2>5, <2>6
<1> QED BY <1>4, <1>5

LEMMA FinishAnswers ==
  ASSUME WorkerInv, AnswerInv, NEW j \in Jobs, NEW t \in Tokens, Finish(j, t)
  PROVE  AnswerInv'
<1> DEFINE d == <<j, t>>
<1> USE DEF AnswerInv, Finish
<1>0. d \in running /\ d \in leases BY DEF WorkerInv, Leased
<1>1. CASE j \in Held /\ inFlight[j].token = t
  <2>1. /\ UNCHANGED <<refused, leases, unsent, wire, seq>>
        /\ delivered' \subseteq delivered \cup {d}
        /\ running' = running \ {d}
        /\ inFlight' = [inFlight EXCEPT ![j].waiting = TRUE]
    BY <1>1 DEF SendResult
  <2>2. ASSUME NEW e \in Dispatches, Holds(e)' PROVE Holds(e)
    <3>1. CASE e[1] = j
      <4>1. inFlight'[j].token = t
        BY <1>1, <2>1 DEF WorkerInv, WorkerTypes, Held, Entry
      <4> QED BY <1>1, <2>2, <3>1, <4>1 DEF Holds
    <3>2. CASE e[1] # j
      BY <2>1, <2>2, <3>2 DEF Holds, Held, WorkerInv, WorkerTypes
    <3> QED BY <3>1, <3>2
  <2>3. \A e \in leases : Unseen(e) => e # d /\ Unseen(e)'
    BY <1>0, <2>1, <2>2 DEF Unseen, WorkerInv, CoordinatorTypes
  <2>4. UnsentIsUnseen' /\ SentIsUnseen'
    BY <2>1, <2>3 DEF UnsentIsUnseen, SentIsUnseen, WorkerInv, CoordinatorTypes, DispatchOf
  <2>5. RunningIsOpen' BY <2>1 DEF RunningIsOpen
  <2>6. RefusedIsNotHeld'
    BY <2>1, <2>2 DEF RefusedIsNotHeld, WorkerInv, WireTypes, CoordinatorTypes
  <2>7. LeasesAreDrawn' BY <2>1 DEF LeasesAreDrawn
  <2> QED BY <2>4, <2>5, <2>6, <2>7
<1>2. CASE ~(j \in Held /\ inFlight[j].token = t)
  <2>1. Remove(j) /\ UNCHANGED answers BY <1>2
  <2>2. \A e \in Dispatches : Holds(e)' => Holds(e)
    BY <2>1, RemoveEffect DEF Holds, Held
  <2> QED BY <2>1, <2>2, QuietAnswers
<1> QED BY <1>1, <1>2

LEMMA ThrowAnswers ==
  ASSUME WorkerInv, AnswerInv, NEW j \in Jobs, NEW t \in Tokens, Throw(j, t)
  PROVE  AnswerInv'
<1> DEFINE d == <<j, t>>
<1> USE DEF AnswerInv, Throw
<1>0. d \in running /\ d \in leases BY DEF WorkerInv, Leased
<1>1. CASE j \in Held /\ inFlight[j].token = t
  <2>1. /\ UNCHANGED <<delivered, leases, unsent, wire, seq>>
        /\ refused' \subseteq refused \cup {d}
        /\ running' = running \ {d}
        /\ Remove(j)
    BY <1>1 DEF SendFailed
  <2>2. \A e \in Dispatches : Holds(e)' => Holds(e) /\ e[1] # j
    BY <2>1, RemoveEffect DEF Holds, Held
  <2>3. \A e \in leases : Unseen(e) => e # d /\ Unseen(e)'
    BY <1>0, <2>1, <2>2 DEF Unseen, WorkerInv, CoordinatorTypes
  <2>4. UnsentIsUnseen' /\ SentIsUnseen'
    BY <2>1, <2>3 DEF UnsentIsUnseen, SentIsUnseen, WorkerInv, CoordinatorTypes, DispatchOf
  <2>5. RunningIsOpen' BY <2>1 DEF RunningIsOpen
  <2>6. RefusedIsNotHeld'
    BY <1>0, <2>1, <2>2 DEF RefusedIsNotHeld, WorkerInv, WireTypes, CoordinatorTypes
  <2>7. LeasesAreDrawn' BY <2>1 DEF LeasesAreDrawn
  <2> QED BY <2>4, <2>5, <2>6, <2>7
<1>2. CASE ~(j \in Held /\ inFlight[j].token = t)
  <2>1. UNCHANGED <<inFlight, beating, answers>> BY <1>2
  <2> QED BY <2>1, QuietAnswers DEF Holds, Held
<1> QED BY <1>1, <1>2

LEMMA RetryAnswers ==
  ASSUME WorkerInv, AnswerInv, NEW j \in Jobs, Retry(j)
  PROVE  AnswerInv'
<1> DEFINE d == <<j, inFlight[j].token>>
<1> USE DEF AnswerInv, Retry, RetryWith
<1>0. d \in leases /\ Holds(d) /\ d \notin running
  BY DEF WorkerInv, Leased, WaitingIsSettled, Holds, Held
<1>1. /\ UNCHANGED <<refused, leases, unsent, wire, seq, running>>
      /\ delivered' \subseteq delivered \cup {d}
  BY DEF SendResult
<1>2. ASSUME NEW e \in Dispatches, Holds(e)' PROVE Holds(e)
  <2>1. CASE Remove(j) BY <1>2, <2>1, RemoveEffect DEF Holds, Held
  <2>2. CASE inFlight' = [inFlight EXCEPT ![j].retryCount = inFlight[j].retryCount + 1]
    <3>1. inFlight[j] \in Entry /\ inFlight[j] # NoEntry
      BY DEF WorkerInv, WorkerTypes, Held
    <3>2. inFlight'[j].token = inFlight[j].token
      BY <2>2, <3>1 DEF WorkerInv, WorkerTypes, Entry
    <3>3. CASE e[1] = j BY <1>2, <3>1, <3>2, <3>3 DEF Holds, Held
    <3>4. CASE e[1] # j
      BY <1>2, <2>2, <3>4 DEF Holds, Held, WorkerInv, WorkerTypes
    <3> QED BY <3>3, <3>4
  <2> QED BY <2>1, <2>2
<1>3. \A e \in leases : Unseen(e) => e # d /\ Unseen(e)'
  BY <1>0, <1>1, <1>2 DEF Unseen, WorkerInv, CoordinatorTypes
<1>4. UnsentIsUnseen' /\ SentIsUnseen'
  BY <1>1, <1>3 DEF UnsentIsUnseen, SentIsUnseen, WorkerInv, CoordinatorTypes, DispatchOf
<1>5. RunningIsOpen' BY <1>0, <1>1 DEF RunningIsOpen
<1>6. RefusedIsNotHeld'
  BY <1>1, <1>2 DEF RefusedIsNotHeld, WorkerInv, WireTypes, CoordinatorTypes
<1>7. LeasesAreDrawn' BY <1>1 DEF LeasesAreDrawn
<1> QED BY <1>4, <1>5, <1>6, <1>7

LEMMA NextAnswers == WorkerInv /\ AnswerInv /\ [Next]_vars => AnswerInv'
<1> SUFFICES ASSUME WorkerInv, AnswerInv, [Next]_vars PROVE AnswerInv' OBVIOUS
<1>1. CASE Coordinator
  <2>1. CASE \E j \in Jobs, mine \in BOOLEAN : LeaseJob(j, mine) BY <2>1, LeaseAnswers
  <2>2. CASE \E d \in unsent : SendJob(d) BY <2>2, SendAnswers
  <2>3. CASE (\E j \in Jobs : Succeed(j)) \/ SkipToken
    BY <2>3, QuietAnswers
       DEF Succeed, SkipToken, Service!Succeed, Service!SkipToken, Holds, Held
  <2>4. CASE (\E j \in Jobs : SendAck(j)) \/ (\E n \in Limits : SetConcurrency(n))
    BY <2>4, QuietAnswers DEF SendAck, SetConcurrency, Holds, Held, DispatchOf
  <2> QED BY <1>1, <2>1, <2>2, <2>3, <2>4 DEF Coordinator
<1>2. CASE \E m \in wire : HandleDispatch(m) \/ HandleAck(m) \/ HandleLimit(m)
  <2>1. CASE \E m \in wire : HandleDispatch(m) BY <2>1, DispatchAnswers
  <2>2. ASSUME NEW m \in wire, HandleAck(m) PROVE AnswerInv'
    <3>1. m.job \in Jobs /\ Remove(m.job)
      BY <2>2 DEF HandleAck, WorkerInv, WireTypes, Message
    <3>2. \A e \in Dispatches : Holds(e)' => Holds(e)
      BY <3>1, RemoveEffect DEF Holds, Held
    <3> QED BY <2>2, <3>2, QuietAnswers DEF HandleAck
  <2>3. CASE \E m \in wire : HandleLimit(m)
    BY <2>3, QuietAnswers DEF HandleLimit, Holds, Held
  <2> QED BY <1>2, <2>1, <2>2, <2>3
<1>3. CASE \E d \in running : Settle(d[1], d[2])
  <2>1. PICK d \in running : Settle(d[1], d[2]) BY <1>3
  <2>2. d[1] \in Jobs /\ d[2] \in Tokens BY DEF WorkerInv, WorkerTypes
  <2> QED BY <2>1, <2>2, FinishAnswers, ThrowAnswers DEF Settle
<1>4. CASE \E j \in Jobs : Retry(j) BY <1>4, RetryAnswers
<1>5. CASE Disconnect \/ Connect \/ Restart
  BY <1>5, QuietAnswers DEF Disconnect, Connect, Restart, Holds, Held, WorkerInv, WorkerTypes
<1>6. CASE UNCHANGED vars BY <1>6, QuietAnswers DEF vars, Holds, Held
<1> QED BY <1>1, <1>2, <1>3, <1>4, <1>5, <1>6 DEF Next

LEMMA AnswerInvariant == Spec => [](WorkerInv /\ AnswerInv)
BY InitWorker, NextWorker, InitAnswers, NextAnswers, PTL DEF Spec

\* worker.ts, handleDispatch: a dispatch that was answered by job.failed is not
\* executed, held, heartbeat or retried afterwards.
THEOREM RefusalsAreFinal == Spec => []RefusedIsOver
<1>1. WorkerInv /\ AnswerInv => RefusedIsOver
  <2> SUFFICES ASSUME WorkerInv, AnswerInv, NEW d \in refused
               PROVE  /\ d \notin running \cup beating \cup unsent
                      /\ d[1] \in Held => inFlight[d[1]].token # d[2]
                      /\ DispatchOf(d) \notin wire
    BY DEF RefusedIsOver, DispatchOf
  <2>1. ~Holds(d) /\ d \notin running BY DEF AnswerInv, RefusedIsNotHeld, RunningIsOpen
  <2>2. d \notin beating BY <2>1 DEF WorkerInv, HeartbeatIsOwned, Holds
  <2>3. d \notin unsent /\ DispatchOf(d) \notin wire
    BY DEF AnswerInv, UnsentIsUnseen, SentIsUnseen, Unseen, WorkerInv, WireTypes
  <2> QED BY <2>1, <2>2, <2>3 DEF Holds
<1> QED BY <1>1, AnswerInvariant, PTL

-----------------------------------------------------------------------------
LEMMA InitContract == Init => Service!Init
BY DEF Init, Service!Init

LEMMA StepContract ==
  ASSUME WorkerInv, AnswerInv, Next
  PROVE  [Service!Next]_Service!vars
<1> USE DEF Service!vars
<1>1. CASE Coordinator
  BY <1>1 DEF Coordinator, LeaseJob, SkipToken, SendJob, Succeed, SendAck, SetConcurrency,
              Service!Next
<1>2. ASSUME NEW m \in wire, HandleDispatch(m) PROVE [Service!Next]_Service!vars
  <2> DEFINE d == <<m.job, m.token>>
  <2>1. CASE UNCHANGED answers BY <1>2, <2>1 DEF HandleDispatch
  <2>2. CASE SendFailed(m.job, m.token)
    <3>1. d \in leases /\ m = DispatchOf(d)
      BY <1>2 DEF HandleDispatch, WorkerInv, WireTypes, Message, Leased, DispatchOf
    <3>2. d \notin delivered \cup refused
      BY <3>1 DEF AnswerInv, SentIsUnseen, Unseen
    <3>3. Service!Refuse(d) \/ UNCHANGED answers
      BY <1>2, <2>2, <3>1, <3>2 DEF HandleDispatch, SendFailed, Service!Refuse
    <3> QED BY <1>2, <3>1, <3>3 DEF HandleDispatch, Service!Next
  <2> QED BY <1>2, <2>1, <2>2 DEF HandleDispatch
<1>3. CASE \E m \in wire : HandleAck(m) \/ HandleLimit(m)
  BY <1>3 DEF HandleAck, HandleLimit
<1>4. ASSUME NEW d \in running, Settle(d[1], d[2]) PROVE [Service!Next]_Service!vars
  <2>1. d = <<d[1], d[2]>> /\ d \in leases /\ d \notin delivered \cup refused
    BY DEF WorkerInv, WorkerTypes, Leased, AnswerInv, RunningIsOpen
  <2>2. CASE Finish(d[1], d[2])
    <3>1. Service!Deliver(d) \/ UNCHANGED Service!vars
      BY <2>1, <2>2 DEF Finish, SendResult, Service!Deliver
    <3> QED BY <2>1, <3>1 DEF Service!Next
  <2>3. CASE Throw(d[1], d[2])
    <3>1. Service!Refuse(d) \/ UNCHANGED Service!vars
      BY <2>1, <2>3 DEF Throw, SendFailed, Service!Refuse
    <3> QED BY <2>1, <3>1 DEF Service!Next
  <2> QED BY <1>4, <2>2, <2>3 DEF Settle
<1>5. ASSUME NEW j \in Jobs, Retry(j) PROVE [Service!Next]_Service!vars
  <2> DEFINE d == <<j, inFlight[j].token>>
  <2>1. d \in leases /\ d \notin refused
    BY <1>5 DEF Retry, RetryWith, WorkerInv, Leased, Held, Holds, AnswerInv, RefusedIsNotHeld
  <2>2. Service!Deliver(d) \/ UNCHANGED Service!vars
    BY <1>5, <2>1 DEF Retry, RetryWith, SendResult, Service!Deliver
  <2> QED BY <2>1, <2>2 DEF Service!Next
<1>6. CASE Disconnect \/ Connect \/ Restart
  BY <1>6 DEF Disconnect, Connect, Restart
<1> QED BY <1>1, <1>2, <1>3, <1>4, <1>5, <1>6 DEF Next

\* worker.ts: whatever is lost, redispatched or restarted, the worker answers a
\* dispatch by results or by one job.failed, as the coordinators assume.
THEOREM ContractIsKept == Spec => KeepsContract
<1>1. WorkerInv /\ AnswerInv /\ [Next]_vars => [Service!Next]_Service!vars
  BY StepContract DEF vars, Service!vars
<1> QED
  BY <1>1, InitContract, AnswerInvariant, PTL DEF Spec, KeepsContract, Service!Spec
=============================================================================
