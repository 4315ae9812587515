-------------------------- MODULE WorkerHubProofs --------------------------
(* Proofs about WorkerHub, for any workers, connections, jobs and limits. *)
EXTENDS WorkerHub, SequenceTheorems, TLAPS

\* A hello that has not been handled has registered nothing, and no dispatch
\* was sent on its connection.
Fresh ==
  \A c \in Conns :
    /\ hello[c] # "done" => inFlight[c] = 0 /\ workers[Owner[c]] # c
    /\ socket[c] = "unused" => hello[c] = "none"

\* A worker holds, and is registered with, connections of its own.
Owned ==
  \A w \in Workers :
    /\ link[w] \in Conns => Owner[link[w]] = w
    /\ workers[w] \in Conns => Owner[workers[w]] = w

\* No control message is on its way on a connection its worker does not hold.
Quiet == \A c \in Conns : link[Owner[c]] # c => control[c] = << >>

\* TypeOK in two parts: the connections, and the dispatch loop.
ConnTypes ==
  /\ link \in [Workers -> Conns \cup {NoConn, Elsewhere}]
  /\ workerLimit \in [Workers -> Limits]
  /\ socket \in [Conns -> {"unused", "open", "closing", "closed"}]
  /\ hello \in [Conns -> {"none", "sent", "upserting", "done"}]
  /\ workers \in [Workers -> Conns \cup {NoConn}]
  /\ inFlight \in [Conns -> Nat]
  /\ limit \in [Conns -> Limits]
  /\ control \in [Conns -> Seq(Limits)]
  /\ owed \in [Conns -> Nat]
  /\ unanswered \in [Conns -> Nat]
LoopTypes ==
  /\ queue \in 0..Jobs
  /\ refusing \in BOOLEAN
  /\ available \in SUBSET Conns
  /\ todo \in SUBSET available
  /\ serving \in available \cup {NoConn}
  /\ committed \in BOOLEAN

LEMMA TypeParts == TypeOK <=> ConnTypes /\ LoopTypes
BY DEF TypeOK, ConnTypes, LoopTypes

\* A lease that waits to be sent was committed for an entry of the snapshot.
Served == committed => serving # NoConn

\* The inductive invariant.
HubInv ==
  /\ ConnTypes /\ LoopTypes /\ Served
  /\ Fresh /\ Owned /\ Quiet
  /\ LimitAgrees /\ CountIsBacked /\ OpenIsRegistered

USE DEF worker, hub, answers, loop

LEMMA InitHub == Init => HubInv
<1> SUFFICES ASSUME Init PROVE HubInv OBVIOUS
<1> USE ConnAssumption, NumberAssumption DEF Init
<1>1. ConnTypes
  <2>1. control \in [Conns -> Seq(Limits)] OBVIOUS
  <2> QED BY <2>1 DEF ConnTypes
<1>2. LoopTypes /\ Served
  <2>0. Served BY DEF Served
  <2>1. queue \in 0..Jobs OBVIOUS
  <2>2. committed \in BOOLEAN /\ refusing \in BOOLEAN OBVIOUS
  <2> QED BY <2>0, <2>1, <2>2 DEF LoopTypes
<1>3. Fresh BY DEF Fresh
<1>4. Owned BY DEF Owned
<1>5. Quiet BY DEF Quiet
<1>6. LimitAgrees BY DEF LimitAgrees
<1>7. CountIsBacked BY DEF CountIsBacked
<1>8. OpenIsRegistered BY DEF OpenIsRegistered
<1> QED BY <1>1, <1>2, <1>3, <1>4, <1>5, <1>6, <1>7, <1>8 DEF HubInv

\* The limit that takes effect last does not change when a message arrives.
LEMMA LastOfTail ==
  ASSUME NEW S, NEW s \in Seq(S), s # << >>, Tail(s) # << >>
  PROVE  Tail(s)[Len(Tail(s))] = s[Len(s)]
<1>1. /\ Len(Tail(s)) = Len(s) - 1 /\ Len(s) \in Nat
      /\ \A i \in 1..Len(Tail(s)) : Tail(s)[i] = s[i + 1]
  BY HeadTailProperties
<1>2. Len(Tail(s)) \in 1..Len(Tail(s))
  <2> DEFINE t == Tail(s)
  <2>1. t \in Seq(S) BY HeadTailProperties
  <2>3. t # << >> BY Zenon
  <2> HIDE DEF t
  <2>2. Len(t) \in Nat \ {0} BY <2>1, <2>3, EmptySeq
  <2> QED BY <2>2 DEF t
<1> QED BY <1>1, <1>2

LEMMA LastOfOne ==
  ASSUME NEW S, NEW s \in Seq(S), s # << >>, Tail(s) = << >>
  PROVE  Head(s) = s[Len(s)]
<1>1. Len(Tail(s)) = Len(s) - 1 /\ Len(s) \in Nat BY HeadTailProperties
<1>2. Len(Tail(s)) = 0
  <2>1. Len(<< >>) = 0 OBVIOUS
  <2> QED BY <2>1, Zenon
<1>3. Len(s) = 1 BY <1>1, <1>2
<1> QED BY <1>3

LEMMA LastOfAppend ==
  \A s \in Seq(Limits), e \in Limits :
    Append(s, e) # << >> /\ Append(s, e)[Len(Append(s, e))] = e
BY AppendProperties

LEMMA ConnectHub ==
  ASSUME HubInv, NEW c \in Conns, Connect(c)
  PROVE  HubInv'
<1> USE ConnAssumption, NumberAssumption DEF Connect, HubInv, ConnTypes
<1>1. ConnTypes' OBVIOUS
<1>2. LoopTypes' /\ Served' BY DEF LoopTypes, Served
<1>3. Fresh' BY DEF Fresh
<1>4. Owned' BY DEF Owned
<1>5. Quiet' BY DEF Quiet
<1>6. LimitAgrees' BY DEF LimitAgrees, Quiet, Owned
<1>7. CountIsBacked' BY DEF CountIsBacked, Fresh
<1>8. OpenIsRegistered' BY DEF OpenIsRegistered, Open
<1> QED BY <1>1, <1>2, <1>3, <1>4, <1>5, <1>6, <1>7, <1>8

LEMMA ElsewhereHub ==
  ASSUME HubInv, NEW w \in Workers, NEW n \in Limits, ConnectElsewhere(w, n)
  PROVE  HubInv'
<1> USE ConnAssumption, NumberAssumption DEF ConnectElsewhere, HubInv, ConnTypes
<1>1. ConnTypes' OBVIOUS
<1>2. LoopTypes' /\ Served' BY DEF LoopTypes, Served
<1>3. Fresh' BY DEF Fresh
<1>4. Owned' BY DEF Owned
<1>5. Quiet' BY DEF Quiet, Owned
<1>6. LimitAgrees' BY DEF LimitAgrees, Owned
<1>7. CountIsBacked' BY DEF CountIsBacked
<1>8. OpenIsRegistered' BY DEF OpenIsRegistered, Open
<1> QED BY <1>1, <1>2, <1>3, <1>4, <1>5, <1>6, <1>7, <1>8

LEMMA UnlinkHub ==
  ASSUME HubInv, NEW w \in Workers, LoseLink(w) \/ RestartWorker(w)
  PROVE  HubInv'
<1> USE ConnAssumption, NumberAssumption
    DEF LoseLink, RestartWorker, Unlink, HubInv, ConnTypes
<1>0. /\ workerLimit' \in [Workers -> Limits]
      /\ \A v \in Workers \ {w} : workerLimit'[v] = workerLimit[v]
      /\ link' = [link EXCEPT ![w] = NoConn]
  <2>1. CASE LoseLink(w) BY <2>1
  <2>2. CASE RestartWorker(w) BY <2>2
  <2> QED BY <2>1, <2>2
<1>1. ConnTypes'
  <2>1. control' \in [Conns -> Seq(Limits)]
    <3>1. << >> \in Seq(Limits) OBVIOUS
    <3> QED BY <3>1
  <2>2. owed' \in [Conns -> Nat] OBVIOUS
  <2> QED BY <1>0, <2>1, <2>2
<1>2. LoopTypes' /\ Served' BY DEF LoopTypes, Served
<1>3. Fresh' BY DEF Fresh
<1>4. Owned' BY DEF Owned
<1>5. Quiet' BY DEF Quiet, Owned
<1>6. LimitAgrees'
  <2> SUFFICES ASSUME NEW v \in Workers, link'[v] \in Conns
               PROVE  LET c == link'[v] IN
                      limit'[c] = IF control'[c] = << >> THEN workerLimit'[v]
                                  ELSE control'[c][Len(control'[c])]
    BY DEF LimitAgrees
  <2>1. v # w /\ link'[v] = link[v] /\ link[v] # link[w] BY <1>0 DEF Owned
  <2>2. control'[link[v]] = control[link[v]] BY <2>1
  <2> QED BY <1>0, <2>1, <2>2 DEF LimitAgrees
<1>7. CountIsBacked'
  <2> SUFFICES ASSUME NEW c \in Conns, workers[Owner[c]] = c, link'[Owner[c]] = c
               PROVE  inFlight[c] <= owed'[c] + unanswered[c]
    BY DEF CountIsBacked
  <2>1. Owner[c] # w /\ link[Owner[c]] = c /\ link[w] # c BY <1>0 DEF Owned
  <2>2. owed'[c] = owed[c] BY <2>1
  <2> QED BY <2>1, <2>2 DEF CountIsBacked
<1>8. OpenIsRegistered' BY DEF OpenIsRegistered, Open
<1> QED BY <1>1, <1>2, <1>3, <1>4, <1>5, <1>6, <1>7, <1>8

LEMMA TakeLimitHub ==
  ASSUME HubInv, NEW w \in Workers, TakeLimit(w)
  PROVE  HubInv'
<1> USE ConnAssumption, NumberAssumption DEF TakeLimit, HubInv, ConnTypes
<1>1. ConnTypes' OBVIOUS
<1>2. LoopTypes' /\ Served' BY DEF LoopTypes, Served
<1>3. Fresh' BY DEF Fresh
<1>4. Owned' BY DEF Owned
<1>5. Quiet' BY DEF Quiet, Owned
<1>6. LimitAgrees'
  <2> DEFINE c == link[w]
  <2>1. c \in Conns /\ control[c] \in Seq(Limits) /\ control[c] # << >> OBVIOUS
  <2>2. limit[c] = control[c][Len(control[c])] BY <2>1 DEF LimitAgrees
  <2>3. /\ control'[c] = Tail(control[c])
        /\ workerLimit'[w] = Head(control[c])
    BY <2>1
  <2>4. limit'[c] = IF control'[c] = << >> THEN workerLimit'[w]
                    ELSE control'[c][Len(control'[c])]
    BY <2>1, <2>2, <2>3, LastOfTail, LastOfOne
  <2>5. ASSUME NEW v \in Workers, v # w, link'[v] \in Conns
        PROVE  /\ limit'[link[v]] = limit[link[v]]
               /\ control'[link[v]] = control[link[v]]
               /\ workerLimit'[v] = workerLimit[v]
    BY <2>5 DEF Owned
  <2> QED BY <2>4, <2>5 DEF LimitAgrees
<1>7. CountIsBacked' BY DEF CountIsBacked
<1>8. OpenIsRegistered' BY DEF OpenIsRegistered, Open
<1> QED BY <1>1, <1>2, <1>3, <1>4, <1>5, <1>6, <1>7, <1>8

LEMMA RegisterHub ==
  ASSUME HubInv, NEW c \in Conns, Register(c)
  PROVE  HubInv'
<1> USE ConnAssumption, NumberAssumption DEF Register, Open, HubInv, ConnTypes
<1>1. ConnTypes'
  <2>1. socket' \in [Conns -> {"unused", "open", "closing", "closed"}] OBVIOUS
  <2>2. hello' \in [Conns -> {"none", "sent", "upserting", "done"}] OBVIOUS
  <2>3. workers' \in [Workers -> Conns \cup {NoConn}] OBVIOUS
  <2> QED BY <2>1, <2>2, <2>3
<1>2. LoopTypes' /\ Served' BY DEF LoopTypes, Served
<1>3. Fresh'
  <2>1. \A d \in Conns : socket'[d] = "unused" => socket[d] = "unused"
    OBVIOUS
  <2> QED BY <2>1 DEF Fresh
<1>4. Owned' BY DEF Owned
<1>5. Quiet' BY DEF Quiet, Owned
<1>6. LimitAgrees' BY DEF LimitAgrees
<1>7. CountIsBacked'
  <2> SUFFICES ASSUME NEW d \in Conns, workers'[Owner[d]] = d, link[Owner[d]] = d
               PROVE  inFlight[d] <= owed[d] + unanswered[d]
    BY DEF CountIsBacked
  <2>1. CASE d = c
    <3>1. inFlight[c] = 0 /\ owed[c] \in Nat /\ unanswered[c] \in Nat BY DEF Fresh
    <3> QED BY <2>1, <3>1
  <2>2. CASE d # c
    <3>1. workers[Owner[d]] = d BY <2>2
    <3> QED BY <3>1 DEF CountIsBacked
  <2> QED BY <2>1, <2>2
<1>8. OpenIsRegistered'
  <2> SUFFICES ASSUME NEW d \in Conns, hello'[d] = "done", socket'[d] = "open"
               PROVE  workers'[Owner[d]] = d
    BY DEF OpenIsRegistered
  <2>1. CASE d = c BY <2>1
  <2>2. CASE d # c
    <3>1. hello[d] = "done" /\ socket[d] = "open" BY <2>2
    <3>2. workers[Owner[d]] = d BY <3>1 DEF OpenIsRegistered
    <3>3. CASE Owner[d] = Owner[c]
      <4>1. socket'[d] = "closing" BY <2>2, <3>1, <3>2, <3>3
      <4> QED BY <4>1
    <3>4. CASE Owner[d] # Owner[c] BY <3>2, <3>4
    <3> QED BY <3>3, <3>4
  <2> QED BY <2>1, <2>2
<1> QED BY <1>1, <1>2, <1>3, <1>4, <1>5, <1>6, <1>7, <1>8

LEMMA CloseHub ==
  ASSUME HubInv, NEW c \in Conns, SocketCloses(c) \/ OnHello(c) \/ CloseEvent(c)
  PROVE  HubInv'
<1> USE ConnAssumption, NumberAssumption
    DEF SocketCloses, OnHello, CloseEvent, HubInv, ConnTypes
<1>0. \A w \in Workers : workers'[w] \in {workers[w], NoConn} OBVIOUS
<1>1. ConnTypes' OBVIOUS
<1>2. LoopTypes' /\ Served' BY DEF LoopTypes, Served
<1>3. Fresh' BY <1>0 DEF Fresh
<1>4. Owned' BY <1>0 DEF Owned
<1>5. Quiet' BY DEF Quiet
<1>6. LimitAgrees' BY DEF LimitAgrees
<1>7. CountIsBacked' BY <1>0 DEF CountIsBacked
<1>8. OpenIsRegistered' BY DEF OpenIsRegistered, Open
<1> QED BY <1>1, <1>2, <1>3, <1>4, <1>5, <1>6, <1>7, <1>8

LEMMA PingHub ==
  ASSUME HubInv, PingAll
  PROVE  HubInv'
<1> USE ConnAssumption, NumberAssumption DEF PingAll, HubInv, ConnTypes
<1>0. \A w \in Workers : workers'[w] \in {workers[w], NoConn} OBVIOUS
<1>1. ConnTypes' BY <1>0
<1>2. LoopTypes' /\ Served' BY DEF LoopTypes, Served
<1>3. Fresh' BY <1>0 DEF Fresh
<1>4. Owned' BY <1>0 DEF Owned
<1>5. Quiet' BY DEF Quiet
<1>6. LimitAgrees' BY DEF LimitAgrees
<1>7. CountIsBacked' BY <1>0 DEF CountIsBacked
<1>8. OpenIsRegistered' BY DEF OpenIsRegistered, Open
<1> QED BY <1>1, <1>2, <1>3, <1>4, <1>5, <1>6, <1>7, <1>8

LEMMA SetConcurrencyHub ==
  ASSUME HubInv, NEW w \in Workers, NEW n \in Limits, SetConcurrency(w, n)
  PROVE  HubInv'
<1> USE ConnAssumption, NumberAssumption DEF SetConcurrency, Open, HubInv, ConnTypes
<1>1. ConnTypes'
  <2>1. limit' \in [Conns -> Limits] OBVIOUS
  <2>2. control' \in [Conns -> Seq(Limits)] OBVIOUS
  <2> QED BY <2>1, <2>2
<1>2. LoopTypes' /\ Served' BY DEF LoopTypes, Served
<1>3. Fresh' BY DEF Fresh
<1>4. Owned' BY DEF Owned
<1>5. Quiet' BY DEF Quiet, Owned
<1>6. LimitAgrees'
  <2> SUFFICES ASSUME NEW v \in Workers, link[v] \in Conns
               PROVE  limit'[link[v]] = IF control'[link[v]] = << >> THEN workerLimit[v]
                                        ELSE control'[link[v]][Len(control'[link[v]])]
    BY DEF LimitAgrees
  <2>1. CASE link[v] = workers[w]
    <3>1. v = w BY <2>1 DEF Owned
    <3>2. control'[link[v]] = Append(control[link[v]], n) /\ limit'[link[v]] = n
      BY <2>1, <3>1
    <3>3. control[link[v]] \in Seq(Limits) OBVIOUS
    <3> DEFINE sent == Append(control[link[v]], n)
    <3>4. sent # << >> /\ sent[Len(sent)] = n BY <3>3, LastOfAppend, Zenon
    <3> HIDE DEF sent
    <3> QED BY <3>2, <3>4 DEF sent
  <2>2. CASE link[v] # workers[w]
    <3>1. control'[link[v]] = control[link[v]] /\ limit'[link[v]] = limit[link[v]]
      BY <2>2
    <3> QED BY <3>1 DEF LimitAgrees
  <2> QED BY <2>1, <2>2
<1>7. CountIsBacked' BY DEF CountIsBacked
<1>8. OpenIsRegistered' BY DEF OpenIsRegistered, Open
<1> QED BY <1>1, <1>2, <1>3, <1>4, <1>5, <1>6, <1>7, <1>8

\* What an answer does to the counters, whether or not its handler has a state.
LEMMA UncountEffect ==
  ASSUME HubInv, NEW c \in Conns, Uncount(c)
  PROVE  /\ inFlight' \in [Conns -> Nat]
         /\ \A d \in Conns : inFlight'[d] <= inFlight[d]
         /\ workers[Owner[c]] = c /\ inFlight[c] > 0 => inFlight'[c] = inFlight[c] - 1
<1> USE DEF HubInv, ConnTypes
<1>1. CASE inFlight' = [inFlight EXCEPT ![c] = IF @ > 0 THEN @ - 1 ELSE 0]
  <2>1. \A d \in Conns : inFlight'[d] = IF d = c THEN IF inFlight[c] > 0 THEN inFlight[c] - 1 ELSE 0
                                       ELSE inFlight[d]
    BY <1>1
  <2>2. inFlight' \in [Conns -> Nat] BY <1>1
  <2>3. \A d \in Conns : inFlight[d] \in Nat OBVIOUS
  <2>4. ASSUME NEW d \in Conns PROVE inFlight'[d] <= inFlight[d]
    <3>1. CASE d = c /\ inFlight[c] > 0 BY <2>1, <2>3, <3>1
    <3>2. CASE d = c /\ ~(inFlight[c] > 0) BY <2>1, <2>3, <3>2
    <3>3. CASE d # c BY <2>1, <2>3, <3>3
    <3> QED BY <3>1, <3>2, <3>3
  <2> QED BY <2>1, <2>2, <2>4
<1>2. CASE workers[Owner[c]] # c /\ UNCHANGED inFlight BY <1>2
<1> QED BY <1>1, <1>2 DEF Uncount

LEMMA AnswerHub ==
  ASSUME HubInv, NEW c \in Conns, Answer(c) \/ AnswerLost(c) \/ StrayAnswer(c)
  PROVE  HubInv'
<1> USE ConnAssumption, NumberAssumption
    DEF Answer, AnswerLost, StrayAnswer, Hears, HubInv, ConnTypes
<1>0. /\ inFlight' \in [Conns -> Nat]
      /\ \A d \in Conns : inFlight'[d] <= inFlight[d]
  <2>1. CASE Uncount(c) BY <2>1, UncountEffect
  <2>2. CASE UNCHANGED inFlight BY <2>2
  <2> QED BY <2>1, <2>2
<1>1. ConnTypes'
  <2>1. CASE Answer(c) BY <1>0, <2>1
  <2>2. CASE AnswerLost(c) BY <2>2
  <2>3. CASE StrayAnswer(c) BY <1>0, <2>3
  <2> QED BY <2>1, <2>2, <2>3
<1>2. LoopTypes' /\ Served' BY DEF LoopTypes, Served
<1>3. Fresh' BY <1>0 DEF Fresh
<1>4. Owned' BY DEF Owned
<1>5. Quiet' BY DEF Quiet
<1>6. LimitAgrees' BY DEF LimitAgrees
<1>7. CountIsBacked'
  <2>1. CASE Answer(c)
    <3>1. \A d \in Conns : d # c => owed'[d] = owed[d] BY <2>1
    <3>2. owed[c] > 0 /\ owed'[c] = owed[c] - 1 BY <2>1
    <3>3. workers[Owner[c]] = c /\ inFlight[c] > 0 => inFlight'[c] = inFlight[c] - 1
      BY <2>1, UncountEffect
    <3>4. UNCHANGED <<workers, link, unanswered>> BY <2>1
    <3>5. inFlight[c] = 0 => inFlight'[c] = 0 BY <1>0
    <3> SUFFICES ASSUME NEW d \in Conns, workers[Owner[d]] = d, link[Owner[d]] = d
                 PROVE  inFlight'[d] <= owed'[d] + unanswered[d]
      BY <3>4 DEF CountIsBacked
    <3>6. inFlight[d] <= owed[d] + unanswered[d] BY DEF CountIsBacked
    <3>9. /\ inFlight'[d] \in Nat /\ inFlight[d] \in Nat
          /\ owed[d] \in Nat /\ unanswered[d] \in Nat
      BY <1>0
    <3>7. CASE d = c BY <3>2, <3>3, <3>5, <3>6, <3>7, <3>9
    <3>8. CASE d # c
      <4>1. inFlight'[d] <= inFlight[d] BY <1>0
      <4>2. owed'[d] = owed[d] BY <3>1, <3>8
      <4> QED BY <3>6, <3>9, <4>1, <4>2
    <3> QED BY <3>7, <3>8
  <2>2. CASE AnswerLost(c) BY <2>2 DEF CountIsBacked
  <2>3. CASE StrayAnswer(c) BY <1>0, <2>3 DEF CountIsBacked
  <2> QED BY <2>1, <2>2, <2>3
<1>8. OpenIsRegistered' BY DEF OpenIsRegistered, Open
<1> QED BY <1>1, <1>2, <1>3, <1>4, <1>5, <1>6, <1>7, <1>8

\* TickStart, CommitLease, NoJob and TurnRefusing touch the loop's own state only.
LEMMA LoopHub ==
  ASSUME HubInv, TickStart \/ CommitLease \/ NoJob \/ TurnRefusing
  PROVE  HubInv'
<1> USE ConnAssumption, NumberAssumption
    DEF TickStart, CommitLease, NoJob, TurnRefusing, Idle, Spare, Serve, EndTick, Open, HubInv, ConnTypes
<1>1. ConnTypes' OBVIOUS
<1>2. LoopTypes' /\ Served'
  <2>1. queue' \in 0..Jobs BY DEF LoopTypes
  <2>2. committed' \in BOOLEAN /\ refusing' \in BOOLEAN BY DEF LoopTypes
  <2>3. available' \in SUBSET Conns BY DEF LoopTypes
  <2>4. todo' \in SUBSET available' BY DEF LoopTypes
  <2>5. serving' \in available' \cup {NoConn} BY DEF LoopTypes
  <2>6. Served' BY DEF LoopTypes, Served
  <2> QED BY <2>1, <2>2, <2>3, <2>4, <2>5, <2>6 DEF LoopTypes
<1>3. Fresh' BY DEF Fresh
<1>4. Owned' BY DEF Owned
<1>5. Quiet' BY DEF Quiet
<1>6. LimitAgrees' BY DEF LimitAgrees
<1>7. CountIsBacked' BY DEF CountIsBacked
<1>8. OpenIsRegistered' BY DEF OpenIsRegistered, Open
<1> QED BY <1>1, <1>2, <1>3, <1>4, <1>5, <1>6, <1>7, <1>8

LEMMA SendJobHub ==
  ASSUME HubInv, SendJob
  PROVE  HubInv'
<1> USE ConnAssumption, NumberAssumption
    DEF SendJob, Spare, Serve, EndTick, Open, HubInv, ConnTypes
<1> DEFINE w == Owner[serving]
           c == workers[w]
<1>0. /\ w \in Workers
      /\ Open(c) => c \in Conns /\ Owner[c] = w
  BY DEF Owned, LoopTypes, Served
<1>1. ConnTypes'
  <2>1. inFlight' \in [Conns -> Nat]
    <3>1. CASE Open(c)
      <4>1. inFlight' = [inFlight EXCEPT ![c] = @ + 1] /\ c \in Conns BY <1>0, <3>1
      <4> QED BY <4>1
    <3>2. CASE ~Open(c)
      <4>1. UNCHANGED inFlight BY <3>2
      <4> QED BY <4>1
    <3> QED BY <3>1, <3>2
  <2>2. owed' \in [Conns -> Nat]
    <3>1. CASE Open(c) /\ link[w] = c
      <4>1. owed' = [owed EXCEPT ![c] = @ + 1] /\ c \in Conns BY <1>0, <3>1
      <4> QED BY <4>1
    <3>2. CASE ~(Open(c) /\ link[w] = c)
      <4>1. UNCHANGED owed BY <3>2
      <4> QED BY <4>1
    <3> QED BY <3>1, <3>2
  <2> QED BY <2>1, <2>2
<1>2. LoopTypes' /\ Served'
  <2>1. queue' \in 0..Jobs BY DEF LoopTypes
  <2>2. committed' \in BOOLEAN /\ refusing' \in BOOLEAN BY DEF LoopTypes
  <2>3. available' \in SUBSET Conns BY DEF LoopTypes
  <2>4. todo' \in SUBSET available' BY DEF LoopTypes
  <2>5. serving' \in available' \cup {NoConn} BY DEF LoopTypes
  <2>6. Served' BY DEF LoopTypes, Served
  <2> QED BY <2>1, <2>2, <2>3, <2>4, <2>5, <2>6 DEF LoopTypes
<1>3. Fresh' BY <1>0 DEF Fresh
<1>4. Owned' BY DEF Owned
<1>5. Quiet' BY DEF Quiet
<1>6. LimitAgrees' BY DEF LimitAgrees
<1>7. CountIsBacked'
  <2> SUFFICES ASSUME NEW d \in Conns, workers[Owner[d]] = d, link[Owner[d]] = d
               PROVE  inFlight'[d] <= owed'[d] + unanswered[d]
    BY DEF CountIsBacked
  <2>1. inFlight[d] <= owed[d] + unanswered[d] BY DEF CountIsBacked
  <2>2. inFlight[d] \in Nat /\ owed[d] \in Nat /\ unanswered[d] \in Nat OBVIOUS
  <2>3. \/ inFlight'[d] = inFlight[d] /\ owed'[d] = owed[d]
        \/ inFlight'[d] = inFlight[d] + 1 /\ owed'[d] = owed[d] + 1
    <3>1. CASE Open(c) /\ d = c
      <4>1. link[w] = c BY <1>0, <3>1
      <4> QED BY <1>0, <3>1, <4>1
    <3>2. CASE Open(c) /\ d # c BY <1>0, <3>2
    <3>3. CASE ~Open(c) BY <3>3
    <3> QED BY <3>1, <3>2, <3>3
  <2> QED BY <2>1, <2>2, <2>3
<1>8. OpenIsRegistered' BY DEF OpenIsRegistered, Open
<1> QED BY <1>1, <1>2, <1>3, <1>4, <1>5, <1>6, <1>7, <1>8

LEMMA NextHub == HubInv /\ [Next]_vars => HubInv'
<1> SUFFICES ASSUME HubInv, [Next]_vars PROVE HubInv' OBVIOUS
<1>1. CASE \E w \in Workers : WorkerStep(w)
  BY <1>1, ElsewhereHub, UnlinkHub, TakeLimitHub, SetConcurrencyHub, NumberAssumption DEF WorkerStep
<1>2. CASE \E c \in Conns : ConnStep(c)
  BY <1>2, ConnectHub, RegisterHub, CloseHub, AnswerHub DEF ConnStep
<1>3. CASE PingAll BY <1>3, PingHub
<1>4. CASE Tick \/ TurnRefusing BY <1>4, LoopHub, SendJobHub DEF Tick
<1>5. CASE UNCHANGED vars
  BY <1>5 DEF vars, HubInv, ConnTypes, LoopTypes, Served, Fresh, Owned, Quiet,
              LimitAgrees, CountIsBacked, OpenIsRegistered, Open
<1> QED BY <1>1, <1>2, <1>3, <1>4, <1>5 DEF Next

\* Every state of the hub satisfies the inductive invariant.
LEMMA HubInvariant == Spec => []HubInv
BY InitHub, NextHub, PTL DEF Spec

\* The registrations, counters, limits and the tick's snapshot keep their
\* types; in particular no counter goes below zero.
THEOREM HubTypeCorrect == Spec => []TypeOK
<1>1. HubInv => TypeOK BY TypeParts DEF HubInv
<1> QED BY <1>1, HubInvariant, PTL

\* worker-hub.service, onHello and setConcurrency: for any number of workers,
\* connections and changes of the limit, hub and worker agree on the limit once
\* the messages on their way have arrived.
THEOREM LimitsAgree == Spec => []LimitAgrees
BY HubInvariant, PTL DEF HubInv

\* worker-hub.service, inFlight: a registration of a connection the worker
\* still holds counts no more than the dispatches the worker owes an answer,
\* and those whose answer was lost.
THEOREM CountsAreBacked == Spec => []CountIsBacked
BY HubInvariant, PTL DEF HubInv

\* worker-hub.service, onHello: whatever the order in which hellos, closes and
\* pings are handled, an open connection whose hello was handled is registered.
THEOREM OpenConnectionsAreRegistered == Spec => []OpenIsRegistered
BY HubInvariant, PTL DEF HubInv
=============================================================================
