------------------------- MODULE FencingClockProofs -------------------------
(***************************************************************************)
(* Token order is time order, for any number of sessions, and lock,        *)
(* sequence and clock together implement TokenSource.                      *)
(***************************************************************************)
EXTENDS FencingClock, TLAPS

\* Only the holder of the advisory lock has drawn a token or read the clock.
OnlyHolderDraws ==
  \A s \in Sessions : fence[s] # 0 \/ stamp[s] # 0 => lock = s

\* A drawn token is the sequence's last, above every committed one.
DrawnIsNewest ==
  \A s \in Sessions : fence[s] # 0 =>
    fence[s] = seq /\ \A r \in history : r.fence < fence[s]

\* A timestamp that was read is not before any committed one, nor after now.
StampIsLatest ==
  \A s \in Sessions : stamp[s] # 0 =>
    stamp[s] <= clock * 1000 /\ \A r \in history : r.issuedAt <= stamp[s]

\* Committed rows are behind the sequence and the clock.
HistoryIsPast ==
  \A r \in history : r.fence <= seq /\ r.issuedAt <= clock * 1000

IInv ==
  /\ TypeOK
  /\ OnlyHolderDraws
  /\ DrawnIsNewest
  /\ StampIsLatest
  /\ HistoryIsPast
  /\ IssueOrder

LEMMA InitIInv == Init => IInv
BY ClockBounds
   DEF Init, IInv, TypeOK, OnlyHolderDraws, DrawnIsNewest, StampIsLatest, HistoryIsPast, IssueOrder

LEMMA AcquireLockIInv ==
  ASSUME IInv, NEW s \in Sessions, AcquireLock(s)
  PROVE  IInv'
<1> USE DEF AcquireLock, Start
<1>1. TypeOK' /\ OnlyHolderDraws'
  BY SessionAssumption DEF IInv, TypeOK, OnlyHolderDraws
<1> QED
  BY <1>1 DEF IInv, DrawnIsNewest, StampIsLatest, HistoryIsPast, IssueOrder

LEMMA NextvalIInv ==
  ASSUME IInv, NEW s \in Sessions, Nextval(s)
  PROVE  IInv'
<1> USE ClockBounds DEF Nextval
<1>1. TypeOK' /\ OnlyHolderDraws'
  BY DEF IInv, TypeOK, OnlyHolderDraws
<1>2. DrawnIsNewest'
  BY DEF IInv, TypeOK, Row, OnlyHolderDraws, DrawnIsNewest, HistoryIsPast
<1>3. HistoryIsPast'
  BY DEF IInv, TypeOK, Row, HistoryIsPast
<1> QED
  BY <1>1, <1>2, <1>3 DEF IInv, StampIsLatest, IssueOrder

LEMMA ReadClockIInv ==
  ASSUME IInv, NEW s \in Sessions, ReadClock(s)
  PROVE  IInv'
<1> USE ClockBounds DEF ReadClock
<1>1. TypeOK' /\ OnlyHolderDraws'
  BY DEF IInv, TypeOK, OnlyHolderDraws
<1>2. StampIsLatest'
  BY DEF IInv, TypeOK, StampIsLatest, HistoryIsPast
<1> QED
  BY <1>1, <1>2 DEF IInv, DrawnIsNewest, HistoryIsPast, IssueOrder

\* The row that becomes visible is the newest in both orders, and no other
\* session holds a token or a timestamp that it could overtake.
LEMMA CommitIInv ==
  ASSUME IInv, NEW s \in Sessions, Commit(s)
  PROVE  IInv'
<1> DEFINE row == [fence |-> fence[s], issuedAt |-> stamp[s], ended |-> 0]
<1>1. /\ lock = s /\ fence[s] # 0 /\ stamp[s] # 0
      /\ lock' = NoSession
      /\ fence' = [fence EXCEPT ![s] = 0] /\ stamp' = [stamp EXCEPT ![s] = 0]
      /\ history' = history \cup {row}
      /\ UNCHANGED <<seq, clock>>
  BY DEF IInv, OnlyHolderDraws, Commit, EndTransaction
<1>2. row \in Row /\ row.fence = fence[s] /\ row.issuedAt = stamp[s]
  BY ClockBounds DEF IInv, TypeOK, Row
<1> HIDE DEF row
<1>3. \A k \in Sessions : fence'[k] = 0 /\ stamp'[k] = 0
  BY <1>1 DEF IInv, TypeOK, OnlyHolderDraws
<1>4. TypeOK'
  BY <1>1, <1>2, ClockBounds DEF IInv, TypeOK
<1>5. HistoryIsPast'
  BY <1>1, <1>2, ClockBounds DEF IInv, TypeOK, HistoryIsPast, DrawnIsNewest, StampIsLatest
<1>6. IssueOrder'
  <2> SUFFICES ASSUME NEW a \in history', NEW b \in history', a.fence < b.fence
               PROVE  a.issuedAt <= b.issuedAt
    BY DEF IssueOrder
  <2>1. history \in SUBSET Row /\ a \in Row /\ b \in Row
    BY <1>1, <1>2 DEF IInv, TypeOK
  <2>2. CASE a \in history /\ b \in history
    BY <2>2 DEF IInv, IssueOrder
  <2>3. CASE a \in history /\ b = row
    BY <1>1, <1>2, <2>3 DEF IInv, StampIsLatest
  <2>4. CASE a = row
    <3>1. b.fence <= a.fence
      BY <1>1, <1>2, <2>1, <2>4 DEF IInv, DrawnIsNewest, Row
    <3> QED
      BY <2>1, <3>1 DEF Row
  <2> QED
    BY <1>1, <2>2, <2>3, <2>4
<1> QED
  BY <1>3, <1>4, <1>5, <1>6 DEF IInv, OnlyHolderDraws, DrawnIsNewest, StampIsLatest

LEMMA RollbackIInv ==
  ASSUME IInv, NEW s \in Sessions, Rollback(s)
  PROVE  IInv'
<1> USE DEF Rollback, EndTransaction
<1>1. TypeOK' /\ OnlyHolderDraws'
  BY ClockBounds DEF IInv, TypeOK, OnlyHolderDraws
<1>2. DrawnIsNewest' /\ StampIsLatest'
  BY DEF IInv, TypeOK, DrawnIsNewest, StampIsLatest
<1> QED
  BY <1>1, <1>2 DEF IInv, HistoryIsPast, IssueOrder

\* Ending a lease keeps its row's token and issue time.
LEMMA TerminateIInv ==
  ASSUME IInv, NEW r \in history, Terminate(r)
  PROVE  IInv'
<1> DEFINE row == [r EXCEPT !.ended = clock]
<1>1. row \in Row /\ row.fence = r.fence /\ row.issuedAt = r.issuedAt
  BY ClockBounds DEF IInv, TypeOK, Row
<1>2. history' = (history \ {r}) \cup {row} /\ UNCHANGED <<lock, fence, stamp, seq, clock>>
  BY DEF Terminate
<1> HIDE DEF row
<1>3. \A a \in history' : \E b \in history : a.fence = b.fence /\ a.issuedAt = b.issuedAt
  BY <1>1, <1>2
<1>4. TypeOK'
  BY <1>1, <1>2 DEF IInv, TypeOK
<1> QED
  BY <1>2, <1>3, <1>4
     DEF IInv, OnlyHolderDraws, DrawnIsNewest, StampIsLatest, HistoryIsPast, IssueOrder

LEMMA TickIInv ==
  ASSUME IInv, Tick
  PROVE  IInv'
<1> USE DEF Tick
<1>1. TypeOK' /\ clock * 1000 <= clock' * 1000 /\ clock * 1000 \in Nat /\ clock' * 1000 \in Nat
  BY ClockBounds DEF IInv, TypeOK
<1>2. StampIsLatest' /\ HistoryIsPast'
  BY <1>1 DEF IInv, TypeOK, Row, StampIsLatest, HistoryIsPast
<1> QED
  BY <1>1, <1>2 DEF IInv, OnlyHolderDraws, DrawnIsNewest, IssueOrder

LEMMA NextIInv == IInv /\ [Next]_vars => IInv'
<1> SUFFICES ASSUME IInv, [Next]_vars PROVE IInv'
  OBVIOUS
<1>1. CASE UNCHANGED vars
  BY <1>1 DEF vars, IInv, TypeOK, OnlyHolderDraws, DrawnIsNewest, StampIsLatest,
              HistoryIsPast, IssueOrder
<1> QED
  BY <1>1, AcquireLockIInv, NextvalIInv, ReadClockIInv, CommitIInv, RollbackIInv,
     TerminateIInv, TickIInv DEF Next

\* The inductive invariant holds for every number of sessions and every bound.
THEOREM Invariance == Spec => []IInv
BY InitIInv, NextIInv, PTL DEF Spec

\* If token A < token B then ts(A) <= ts(B), as the comment of tryDispatchOne
\* requires of the advisory lock.
THEOREM TokenOrderIsTimeOrder == Spec => []IssueOrder
<1>1. IInv => IssueOrder
  BY DEF IInv
<1> QED
  BY <1>1, Invariance, PTL

\* A token becomes visible only after every smaller one that ever will.
THEOREM CommitsFollowTokens == Spec => VisibleInOrder
<1> DEFINE InOrder == \A r \in history' :
             \/ \E a \in history : a.fence = r.fence
             \/ \A a \in history : a.fence < r.fence
<1>1. IInv /\ [Next]_vars => [InOrder]_vars
  <2> SUFFICES ASSUME IInv, Next PROVE InOrder
    OBVIOUS
  <2>1. CASE history' = history
    BY <2>1
  <2>2. ASSUME NEW s \in Sessions, Commit(s) PROVE InOrder
    BY <2>2 DEF Commit, IInv, DrawnIsNewest
  <2>3. ASSUME NEW r \in history, Terminate(r) PROVE InOrder
    <3>1. [r EXCEPT !.ended = clock].fence = r.fence
      BY DEF IInv, TypeOK, Row
    <3> QED
      BY <2>3, <3>1 DEF Terminate
  <2> QED
    BY <2>1, <2>2, <2>3 DEF Next, AcquireLock, Start, Nextval, ReadClock, Rollback, Tick
<1> QED
  BY <1>1, Invariance, PTL DEF Spec, VisibleInOrder

-----------------------------------------------------------------------------
(* The implementation of TokenSource *)

\* The mapped token is the sequence, less the one token that the holder of
\* the lock may have drawn.
LEMMA LastToken ==
  ASSUME IInv
  PROVE  /\ Last \in Nat
         /\ \A s \in Sessions : fence[s] # 0 => Last + 1 = seq
         /\ (\A s \in Sessions : fence[s] = 0) => Last = seq
<1>1. CASE \E s \in Sessions : fence[s] # 0
  BY <1>1, ClockBounds DEF IInv, TypeOK, DrawnIsNewest, Last
<1>2. CASE \A s \in Sessions : fence[s] = 0
  BY <1>2, ClockBounds DEF IInv, TypeOK, Last
<1> QED
  BY <1>1, <1>2

\* Taking the lock, drawing the token and reading the clock change nothing.
LEMMA DrawsAreStutters ==
  ASSUME IInv, IInv', NEW s \in Sessions,
         AcquireLock(s) \/ Nextval(s) \/ ReadClock(s)
  PROVE  UNCHANGED <<Last, Issued>>
<1>1. history' = history
  BY DEF AcquireLock, Start, Nextval, ReadClock
<1>2. Issued' = Issued
  BY <1>1 DEF Issued
<1>3. CASE AcquireLock(s) \/ ReadClock(s)
  BY <1>3, <1>2 DEF AcquireLock, Start, ReadClock, Last
<1>4. CASE Nextval(s)
  <2>1. \A k \in Sessions : fence[k] = 0
    BY <1>4 DEF IInv, OnlyHolderDraws, Nextval
  <2>2. Last = seq
    BY <2>1, LastToken
  <2>3. seq' = seq + 1 /\ fence'[s] # 0
    BY <1>4, ClockBounds DEF IInv, TypeOK, Nextval
  <2>4. Last' = seq' - 1
    BY <2>3 DEF Last
  <2> QED
    BY <1>2, <2>2, <2>3, <2>4, ClockBounds DEF IInv, TypeOK
<1> QED
  BY <1>3, <1>4

\* When the holder's transaction ends, the token it drew is taken or lost.
LEMMA EndTakesToken ==
  ASSUME IInv, IInv', NEW s \in Sessions, EndTransaction(s), lock = s
  PROVE  /\ fence[s] # 0 => Last' = Last + 1
         /\ fence[s] = 0 => Last' = Last
<1>1. \A k \in Sessions : k # s => fence[k] = 0
  BY DEF IInv, OnlyHolderDraws
<1>2. \A k \in Sessions : fence'[k] = 0
  BY <1>1 DEF IInv, TypeOK, EndTransaction
<1>3. Last' = seq
  BY <1>2 DEF EndTransaction, Last
<1>4. fence[s] # 0 => Last + 1 = seq
  BY LastToken
<1>5. fence[s] = 0 => Last = seq
  BY <1>1, LastToken
<1> QED
  BY <1>3, <1>4, <1>5

LEMMA CommitIssues ==
  ASSUME IInv, IInv', NEW s \in Sessions, Commit(s)
  PROVE  Source!Issue
<1> DEFINE row == [fence |-> fence[s], issuedAt |-> stamp[s]]
<1>1. lock = s /\ fence[s] # 0 /\ stamp[s] # 0 /\ EndTransaction(s)
  BY DEF IInv, OnlyHolderDraws, Commit
<1>2. Last' = Last + 1 /\ fence[s] = Last + 1
  BY <1>1, EndTakesToken, LastToken DEF IInv, DrawnIsNewest
<1> DEFINE full == [fence |-> fence[s], issuedAt |-> stamp[s], ended |-> 0]
<1>3. Issued' = Issued \cup {row}
  <2>1. history' = history \cup {full}
    BY DEF Commit
  <2>2. row = [fence |-> full.fence, issuedAt |-> full.issuedAt]
    OBVIOUS
  <2> HIDE DEF full, row
  <2> QED
    BY <2>1, <2>2 DEF Issued
<1>4. \A r \in Issued : r.issuedAt <= row.issuedAt
  BY <1>1 DEF IInv, StampIsLatest, Issued
<1> QED
  BY <1>2, <1>3, <1>4 DEF Source!Issue

LEMMA RollbackSkips ==
  ASSUME IInv, IInv', NEW s \in Sessions, Rollback(s)
  PROVE  Source!Skip \/ UNCHANGED <<Last, Issued>>
<1>1. Issued' = Issued
  BY DEF Rollback, Issued
<1>2. Last' = Last + 1 \/ Last' = Last
  BY EndTakesToken DEF Rollback
<1> QED
  BY <1>1, <1>2 DEF Source!Skip

LEMMA TerminateIsStutter ==
  ASSUME IInv, NEW r \in history, Terminate(r)
  PROVE  UNCHANGED <<Last, Issued>>
<1> DEFINE row == [r EXCEPT !.ended = clock]
<1>1. row.fence = r.fence /\ row.issuedAt = r.issuedAt
  BY DEF IInv, TypeOK, Row
<1>2. history' = (history \ {r}) \cup {row} /\ UNCHANGED <<fence, seq>>
  BY DEF Terminate
<1> HIDE DEF row
<1>3. Issued' = Issued
  BY <1>1, <1>2 DEF Issued
<1> QED
  BY <1>2, <1>3 DEF Last

\* The commit is the step that takes the token and its time: what tryDispatchOne
\* does under the advisory lock is one atomic step to every other session.
THEOREM TokensAreTakenAtomically == Spec => TakesTokensAtomically
<1>1. Init => Source!Init
  BY DEF Init, Source!Init, Last, Issued
<1>2. IInv /\ IInv' /\ [Next]_vars => [Source!Next]_<<Last, Issued>>
  <2> SUFFICES ASSUME IInv, IInv', [Next]_vars
               PROVE  Source!Next \/ UNCHANGED <<Last, Issued>>
    OBVIOUS
  <2>1. CASE UNCHANGED vars \/ Tick
    BY <2>1 DEF vars, Tick, Last, Issued
  <2>2. ASSUME NEW s \in Sessions, AcquireLock(s) \/ Nextval(s) \/ ReadClock(s)
        PROVE  UNCHANGED <<Last, Issued>>
    BY <2>2, DrawsAreStutters
  <2>3. ASSUME NEW s \in Sessions, Commit(s) PROVE Source!Next
    BY <2>3, CommitIssues DEF Source!Next
  <2>4. ASSUME NEW s \in Sessions, Rollback(s)
        PROVE  Source!Next \/ UNCHANGED <<Last, Issued>>
    BY <2>4, RollbackSkips DEF Source!Next
  <2>5. ASSUME NEW r \in history, Terminate(r) PROVE UNCHANGED <<Last, Issued>>
    BY <2>5, TerminateIsStutter
  <2> QED
    BY <2>1, <2>2, <2>3, <2>4, <2>5 DEF Next
<1> QED
  BY <1>1, <1>2, Invariance, PTL DEF Spec, TakesTokensAtomically, Source!Spec, Source!vars
=============================================================================
