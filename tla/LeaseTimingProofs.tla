------------------------- MODULE LeaseTimingProofs -------------------------
(* Proofs about LeaseTiming, for any times, skews and coordinators that    *)
(* satisfy its assumptions.                                                *)
EXTENDS LeaseTiming, TLAPS

\* Only a lost lease has been lost for a time, and only a lease has heartbeats.
Tidy ==
  /\ holder # "lost" => lostFor = 0
  /\ holder = "none" => beaten = 0

\* The time a lease has left shrinks as the time it is lost for grows.
Spent ==
  holder # "none" =>
    /\ left + lostFor <= FirstTTL + MaxSkew
    /\ beaten = 1 => left + lostFor <= BeatTTL + MaxSkew

\* A reaper that left the lease alone saw it unexpired at its last round, or
\* the lease was set since.
Judged == holder # "none" => \A c \in Coordinators : left + sinceReap[c] >= -MaxSkew

\* What a worker at work has left, whichever clock has set its lease.
Renewed == holder = "running" => left >= BeatTTL - MaxSkew - silent

\* The inductive invariant.
TimeInv == TypeOK /\ Tidy /\ Spent /\ Judged /\ Renewed

USE TimingAssumption DEF lease, work

LEMMA SkewBound ==
  ASSUME TypeOK, NEW c \in Coordinators
  PROVE  skew[c] \in Int /\ -MaxSkew <= skew[c] /\ skew[c] <= MaxSkew
<1>1. skew[c] \in Skews BY DEF TypeOK
<1>2. skew[c] \in -MaxSkew..MaxSkew BY <1>1
<1> QED BY <1>2

LEMMA InitTime == Init => TimeInv
BY DEF Init, TimeInv, TypeOK, Tidy, Spent, Judged, Renewed

LEMMA DispatchTime ==
  ASSUME TimeInv, NEW c \in Coordinators, Dispatch(c)
  PROVE  TimeInv'
<1> USE SkewBound DEF TimeInv, Dispatch, NoWork
<1>1. TypeOK' BY DEF TypeOK
<1>2. Tidy' BY DEF Tidy
<1>3. Spent' BY DEF Spent, TypeOK
<1>4. Judged' BY DEF Judged, TypeOK
<1>5. Renewed' BY DEF Renewed, TypeOK
<1> QED BY <1>1, <1>2, <1>3, <1>4, <1>5

LEMMA HeartbeatTime ==
  ASSUME TimeInv, NEW c \in Coordinators, Heartbeat(c) \/ MissBeat
  PROVE  TimeInv'
<1> USE SkewBound DEF TimeInv, Heartbeat, MissBeat, NoWork
<1>1. TypeOK' BY DEF TypeOK
<1>2. Tidy' BY DEF Tidy
<1>3. Spent' BY DEF Spent, TypeOK, Tidy
<1>4. Judged' BY DEF Judged, TypeOK
<1>5. Renewed' BY DEF Renewed, TypeOK
<1> QED BY <1>1, <1>2, <1>3, <1>4, <1>5

LEMMA EndTime ==
  ASSUME TimeInv, LoseWorker \/ Finish
  PROVE  TimeInv'
<1> USE DEF TimeInv, LoseWorker, Finish, NoLease, NoWork
<1>1. TypeOK' BY DEF TypeOK
<1>2. Tidy' BY DEF Tidy
<1>3. Spent' BY DEF Spent, TypeOK, Tidy
<1>4. Judged' BY DEF Judged, TypeOK
<1>5. Renewed' BY DEF Renewed, TypeOK
<1> QED BY <1>1, <1>2, <1>3, <1>4, <1>5

LEMMA ReapTime ==
  ASSUME TimeInv, NEW c \in Coordinators, Reap(c)
  PROVE  TimeInv'
<1> USE SkewBound DEF TimeInv, Reap, Expired, NoLease, NoWork
<1>1. TypeOK' BY DEF TypeOK
<1>2. Tidy' BY DEF Tidy
<1>3. Spent' BY DEF Spent
<1>4. Judged'
  <2> SUFFICES ASSUME holder' # "none", NEW d \in Coordinators
               PROVE  left' + sinceReap'[d] >= -MaxSkew
    BY DEF Judged
  <2>1. holder # "none" /\ ~Expired(c) /\ UNCHANGED left OBVIOUS
  <2>2. CASE d = c
    <3>1. sinceReap'[d] = 0 /\ left >= skew[c] BY <2>1, <2>2 DEF TypeOK
    <3> QED BY <2>1, <3>1 DEF TypeOK
  <2>3. CASE d # c
    <3>1. sinceReap'[d] = sinceReap[d] BY <2>3 DEF TypeOK
    <3> QED BY <2>1, <3>1 DEF Judged
  <2> QED BY <2>2, <2>3
<1>5. Renewed' BY DEF Renewed
<1> QED BY <1>1, <1>2, <1>3, <1>4, <1>5

LEMMA TickTime ==
  ASSUME TimeInv, Tick
  PROVE  TimeInv'
<1> USE DEF TimeInv, Tick
<1>1. TypeOK'
  <2>1. sinceReap' \in [Coordinators -> 0..ReapInterval] BY DEF TypeOK
  <2> QED BY <2>1 DEF TypeOK
<1>2. Tidy' BY DEF Tidy
<1>3. Spent' BY DEF Spent, TypeOK
<1>4. Judged' BY DEF Judged, TypeOK
<1>5. Renewed' BY DEF Renewed, TypeOK
<1> QED BY <1>1, <1>2, <1>3, <1>4, <1>5

LEMMA NextTime == TimeInv /\ [Next]_vars => TimeInv'
<1> SUFFICES ASSUME TimeInv, [Next]_vars PROVE TimeInv' OBVIOUS
<1>1. ASSUME NEW c \in Coordinators, NEW s \in Skews, SetSkew(c, s) PROVE TimeInv'
  BY <1>1 DEF SetSkew, TimeInv, TypeOK, Tidy, Spent, Judged, Renewed
<1>2. CASE UNCHANGED vars
  BY <1>2 DEF vars, TimeInv, TypeOK, Tidy, Spent, Judged, Renewed
<1> QED
  BY <1>1, <1>2, DispatchTime, HeartbeatTime, EndTime, ReapTime, TickTime DEF Next

LEMMA TimeInvariant == Spec => []TimeInv
BY InitTime, NextTime, PTL DEF Spec

\* No reaper's and no heartbeat's timer is missed.
THEOREM TimeTypeCorrect == Spec => []TypeOK
BY TimeInvariant, PTL DEF TimeInv

\* dispatch.service, worker-hub.service, lease-reaper.service: whatever the
\* TTLs, intervals and skews, a lost lease is recovered within the first TTL,
\* twice the skew and one reaper round.
THEOREM LossIsRecovered == Spec => []RecoveryBound
<1>1. TimeInv => RecoveryBound
  <2> SUFFICES ASSUME TimeInv PROVE RecoveryBound OBVIOUS
  <2>1. PICK c \in Coordinators : TRUE OBVIOUS
  <2>2. sinceReap[c] \in 0..ReapInterval BY DEF TimeInv, TypeOK
  <2>3. CASE holder = "lost"
    BY <2>2, <2>3 DEF TimeInv, TypeOK, Spent, Judged, RecoveryBound
  <2>4. CASE holder # "lost" BY <2>4 DEF TimeInv, Tidy, RecoveryBound
  <2> QED BY <2>3, <2>4
<1> QED BY <1>1, TimeInvariant, PTL

\* worker-hub.service, onHeartbeat: after a heartbeat the shorter TTL bounds it.
THEOREM BeatenLossIsRecovered == Spec => []BeatenRecoveryBound
<1>1. TimeInv => BeatenRecoveryBound
  <2> SUFFICES ASSUME TimeInv, beaten = 1
               PROVE  lostFor <= BeatTTL + 2 * MaxSkew + ReapInterval
    BY DEF BeatenRecoveryBound
  <2>1. PICK c \in Coordinators : TRUE OBVIOUS
  <2>2. sinceReap[c] \in 0..ReapInterval BY DEF TimeInv, TypeOK
  <2>3. holder # "none" BY DEF TimeInv, Tidy
  <2> QED BY <2>2, <2>3 DEF TimeInv, TypeOK, Spent, Judged
<1> QED BY <1>1, TimeInvariant, PTL

\* lease-reaper.service, tick, and worker-hub.service, onHeartbeat: whatever the
\* skews and however long the outages, a reaper takes a worker's lease only after
\* a silence of the heartbeat's TTL less what the skews make of it.
THEOREM SilenceLosesTheLease == Spec => []OnlySilentIsReaped
<1>1. TimeInv => OnlySilentIsReaped
  <2> SUFFICES ASSUME TimeInv, holder = "running", NEW c \in Coordinators, left < skew[c]
               PROVE  silent > BeatTTL - MaxSkew - skew[c]
    BY DEF OnlySilentIsReaped, Expired
  <2> QED BY SkewBound DEF TimeInv, TypeOK, Renewed
<1> QED BY <1>1, TimeInvariant, PTL

\* routes/stats, stuckLeases: every coordinator reports a lease that has been
\* lost for longer than it allows.
THEOREM LossesAreReported == Spec => []LostIsReported
<1>1. TimeInv => LostIsReported
  <2> SUFFICES ASSUME TimeInv, holder = "lost", lostFor > StuckAfter + 2 * MaxSkew,
                      NEW c \in Coordinators
               PROVE  left < FirstTTL - StuckAfter + skew[c]
    BY DEF LostIsReported, Stuck
  <2> QED BY SkewBound DEF TimeInv, TypeOK, Spent
<1> QED BY <1>1, TimeInvariant, PTL
=============================================================================
