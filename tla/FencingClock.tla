---------------------------- MODULE FencingClock ----------------------------
(***************************************************************************)
(* How a dispatch transaction obtains its fencing token and the time that  *)
(* LeaseHistory records for it.  One statement takes the transaction-      *)
(* scoped advisory lock in a CTE and then evaluates nextval('fencing_seq') *)
(* and clock_timestamp(), in an order Postgres does not define; the lock   *)
(* is held until the transaction commits or rolls back.  The sequence is   *)
(* never rolled back.                                                      *)
(*                                                                         *)
(* clock is the database server's wall clock in milliseconds; it is        *)
(* assumed not to be set back.  clock_timestamp() is stored in             *)
(* microseconds, the end of a lease (Date.now()) in milliseconds.          *)
(***************************************************************************)
EXTENDS Naturals

CONSTANTS
  Sessions,   \* database sessions of all the coordinators
  NoSession,  \* the advisory lock is free
  MaxToken,   \* bound on the fencing sequence
  MaxClock    \* bound on the clock

ASSUME SessionAssumption == NoSession \notin Sessions
ASSUME ClockBounds == MaxToken \in Nat /\ MaxClock \in Nat

VARIABLES
  lock,     \* holder of pg_advisory_xact_lock(7919)
  fence,    \* token the session's transaction has drawn, 0 before
  stamp,    \* timestamp it has read, 0 before
  seq,      \* last value of fencing_seq
  clock,    \* the server's clock
  history   \* committed rows of LeaseHistory

vars == <<lock, fence, stamp, seq, clock, history>>

\* ended = 0 stands for TerminatedAtMs IS NULL.
Row == [fence : Nat, issuedAt : Nat, ended : Nat]

TypeOK ==
  /\ lock \in Sessions \cup {NoSession}
  /\ fence \in [Sessions -> 0..MaxToken]
  /\ stamp \in [Sessions -> Nat]
  /\ seq \in 0..MaxToken
  /\ clock \in 1..(MaxClock + 1)
  /\ history \in SUBSET Row

Init ==
  /\ lock = NoSession
  /\ fence = [s \in Sessions |-> 0]
  /\ stamp = [s \in Sessions |-> 0]
  /\ seq = 0
  /\ clock = 1
  /\ history = {}

-----------------------------------------------------------------------------
\* The statement starts to evaluate its target list: the CTE has the lock.
Start(s) ==
  /\ lock' = s
  /\ UNCHANGED <<fence, stamp, seq, clock, history>>

\* Mutant: nextval and the clock are read without the advisory lock.
StartUnlocked(s) == Start(s)

AcquireLock(s) == lock = NoSession /\ Start(s)

\* Mutant: the lock does not outlive the draw (a statement of its own, autocommitted).
NextvalUnlocks(s) ==
  /\ lock = s
  /\ fence[s] = 0
  /\ seq < MaxToken
  /\ lock' = NoSession
  /\ seq' = seq + 1
  /\ fence' = [fence EXCEPT ![s] = seq + 1]
  /\ UNCHANGED <<stamp, clock, history>>

Nextval(s) ==
  /\ lock = s
  /\ fence[s] = 0
  /\ seq < MaxToken
  /\ seq' = seq + 1
  /\ fence' = [fence EXCEPT ![s] = seq + 1]
  /\ UNCHANGED <<lock, stamp, clock, history>>

\* (EXTRACT(EPOCH FROM clock_timestamp()) * 1000000)::bigint
ReadClock(s) ==
  /\ lock = s
  /\ stamp[s] = 0
  /\ stamp' = [stamp EXCEPT ![s] = clock * 1000]
  /\ UNCHANGED <<lock, fence, seq, clock, history>>

\* The end of a transaction releases the lock it holds.
EndTransaction(s) ==
  /\ lock' = IF lock = s THEN NoSession ELSE lock
  /\ fence' = [fence EXCEPT ![s] = 0]
  /\ stamp' = [stamp EXCEPT ![s] = 0]
  /\ UNCHANGED <<seq, clock>>

\* The LeaseHistory row becomes visible.
Commit(s) ==
  /\ fence[s] # 0 /\ stamp[s] # 0
  /\ history' = history \cup
       {[fence |-> fence[s], issuedAt |-> stamp[s], ended |-> 0]}
  /\ EndTransaction(s)

\* A failed insert or a killed coordinator: the drawn token is lost.
Rollback(s) ==
  /\ lock = s
  /\ EndTransaction(s)
  /\ UNCHANGED history

\* UPDATE LeaseHistory SET TerminatedAtMs = Date.now() of a committed row.
Terminate(r) ==
  /\ r \in history
  /\ r.ended = 0
  /\ history' = (history \ {r}) \cup {[r EXCEPT !.ended = clock]}
  /\ UNCHANGED <<lock, fence, stamp, seq, clock>>

Tick ==
  /\ clock <= MaxClock
  /\ clock' = clock + 1
  /\ UNCHANGED <<lock, fence, stamp, seq, history>>

Next ==
  \/ \E s \in Sessions :
       AcquireLock(s) \/ Nextval(s) \/ ReadClock(s) \/ Commit(s) \/ Rollback(s)
  \/ \E r \in history : Terminate(r)
  \/ Tick

Spec == Init /\ [][Next]_vars

-----------------------------------------------------------------------------
(* Properties *)

\* The comment of tryDispatchOne: if token A < token B then ts(A) <= ts(B),
\* whatever sessions drew them and whether nextval or the clock came first.
IssueOrder ==
  \A a, b \in history : a.fence < b.fence => a.issuedAt <= b.issuedAt

\* Tokens become visible in the order in which they were drawn, because the
\* lock is released only by the commit: a reader of the history never sees a
\* smaller token appear after a larger one.
VisibleInOrder ==
  [][\A r \in history' :
       \/ \E a \in history : a.fence = r.fence
       \/ \A a \in history : a.fence < r.fence]_vars

\* The token that a transaction has drawn counts as taken when it ends.
Last == IF \E s \in Sessions : fence[s] # 0 THEN seq - 1 ELSE seq

Issued == {[fence |-> r.fence, issuedAt |-> r.issuedAt] : r \in history}

Source == INSTANCE TokenSource WITH last <- Last, issued <- Issued

\* "Fencing token + issue timestamp must be allocated atomically across all
\* coordinators" (tryDispatchOne): lock, sequence and clock, read one by one,
\* are one step that takes the next token and the time at the commit.
TakesTokensAtomically == Source!Spec
=============================================================================
