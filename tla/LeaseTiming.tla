---------------------------- MODULE LeaseTiming ----------------------------
(***************************************************************************)
(* One lease on the clock: the 60 s it is issued for, the 15 s a heartbeat *)
(* makes of them, the heartbeat every 5 s, the reapers' rounds every 5 s,  *)
(* the clock skews of the chaos service, and heartbeats that do not reach  *)
(* the table, because the worker is cut off, pegged, or not registered     *)
(* again, or the query is refused.  Time is discrete; what a step takes is *)
(* far below its unit.  The tables themselves are in JobLeases.            *)
(***************************************************************************)
EXTENDS Integers

CONSTANTS
  Coordinators,  \* the coordinators that are up and not partitioned
  Skews,         \* clock skews that POST /chaos may set, -MaxSkew..MaxSkew
  MaxSkew,
  FirstTTL,      \* LEASE_TTL_MS of dispatch.service
  BeatTTL,       \* HEARTBEAT_LEASE_TTL_MS of worker-hub.service
  BeatInterval,  \* HEARTBEAT_INTERVAL_MS of worker
  ReapInterval,  \* REAPER_INTERVAL_MS of lease-reaper.service
  StuckAfter     \* the 30 s of "stuck>30s" in stats

ASSUME TimingAssumption ==
  /\ Coordinators # {}
  /\ {FirstTTL, BeatTTL, BeatInterval, ReapInterval, StuckAfter, MaxSkew} \subseteq Nat
  /\ BeatTTL <= FirstTTL
  /\ Skews \subseteq -MaxSkew..MaxSkew /\ 0 \in Skews

VARIABLES
  holder,     \* none: no lease; running: a worker has it; lost: no worker will answer
  left,       \* ExpiresAt less the wall clock
  beaten,     \* a heartbeat has renewed the lease
  beat,       \* time since the worker's heartbeat timer last fired
  silent,     \* time since the lease was issued or a heartbeat reached the table
  lostFor,    \* time since the lease was lost
  sinceReap,  \* time since a reaper's last tick
  skew        \* clockSkewMs

lease == <<holder, left, beaten, lostFor>>
work == <<beat, silent>>
vars == <<lease, work, sinceReap, skew>>

TypeOK ==
  /\ holder \in {"none", "running", "lost"}
  /\ left \in Int
  /\ beaten \in {0, 1}
  /\ beat \in 0..BeatInterval
  /\ silent \in Nat
  /\ lostFor \in Nat
  /\ sinceReap \in [Coordinators -> 0..ReapInterval]
  /\ skew \in [Coordinators -> Skews]

NoLease == holder' = "none" /\ left' = 0 /\ beaten' = 0 /\ lostFor' = 0
NoWork == beat' = 0 /\ silent' = 0

Init ==
  /\ holder = "none" /\ left = 0 /\ beaten = 0 /\ lostFor = 0
  /\ beat = 0 /\ silent = 0
  /\ sinceReap \in [Coordinators -> 0..ReapInterval]
  /\ skew = [c \in Coordinators |-> 0]

-----------------------------------------------------------------------------
\* Mutant: a first TTL other than the one stats knows of.
DispatchLonger(c) ==
  /\ holder = "none"
  /\ holder' \in {"running", "lost"}
  /\ left' = 2 * FirstTTL + skew[c]
  /\ beaten' = 0 /\ lostFor' = 0
  /\ NoWork
  /\ UNCHANGED <<sinceReap, skew>>

\* tryDispatchOne issues the lease; the job reaches its worker, or the send fails.
Dispatch(c) ==
  /\ holder = "none"
  /\ holder' \in {"running", "lost"}
  /\ left' = FirstTTL + skew[c]
  /\ beaten' = 0 /\ lostFor' = 0
  /\ NoWork
  /\ UNCHANGED <<sinceReap, skew>>

\* Mutant: a heartbeat never makes a lease shorter.
HeartbeatExtends(c) ==
  /\ holder = "running" /\ beat = BeatInterval
  /\ left' = IF left > BeatTTL + skew[c] THEN left ELSE BeatTTL + skew[c]
  /\ beaten' = 1
  /\ NoWork
  /\ UNCHANGED <<holder, lostFor, sinceReap, skew>>

\* Mutant: the skew is added to a clock that has it already.
HeartbeatSkewsTwice(c) ==
  /\ holder = "running" /\ beat = BeatInterval
  /\ left' = BeatTTL + 2 * skew[c]
  /\ beaten' = 1
  /\ NoWork
  /\ UNCHANGED <<holder, lostFor, sinceReap, skew>>

\* The worker's heartbeat timer fires, and onHeartbeat of whichever coordinator
\* it is connected to sets ExpiresAt, later or sooner than it was.
Heartbeat(c) ==
  /\ holder = "running" /\ beat = BeatInterval
  /\ left' = BeatTTL + skew[c]
  /\ beaten' = 1
  /\ NoWork
  /\ UNCHANGED <<holder, lostFor, sinceReap, skew>>

\* The heartbeat is dropped by a closed socket, finds no registration, or its
\* query is refused: as often as the outage lasts.
MissBeat ==
  /\ holder = "running" /\ beat = BeatInterval
  /\ beat' = 0
  /\ UNCHANGED <<lease, silent, sinceReap, skew>>

\* The worker is killed, or gives the result up after its last retry.
LoseWorker ==
  /\ holder = "running"
  /\ holder' = "lost"
  /\ NoWork
  /\ UNCHANGED <<left, beaten, lostFor, sinceReap, skew>>

\* The job is answered.
Finish ==
  /\ holder = "running"
  /\ NoLease /\ NoWork
  /\ UNCHANGED <<sinceReap, skew>>

\* Mutant: ExpiresAt is taken for the time of the last renewal.
ExpiredTwice(c) == left < skew[c] - BeatTTL

\* ExpiresAt < chaos.now()
Expired(c) == left < skew[c]

\* LeaseReaperService.tick
Reap(c) ==
  /\ sinceReap[c] = ReapInterval
  /\ sinceReap' = [sinceReap EXCEPT ![c] = 0]
  /\ IF holder # "none" /\ Expired(c)
     THEN NoLease /\ NoWork
     ELSE UNCHANGED <<lease, work>>
  /\ UNCHANGED skew

SetSkew(c, s) ==
  /\ skew' = [skew EXCEPT ![c] = s]
  /\ UNCHANGED <<lease, work, sinceReap>>

\* Mutant: a reaper's next round is scheduled late.
TickLate ==
  /\ holder = "running" => beat < BeatInterval
  /\ sinceReap' = [c \in Coordinators |-> sinceReap[c] + 1]
  /\ left' = IF holder = "none" THEN left ELSE left - 1
  /\ beat' = IF holder = "running" THEN beat + 1 ELSE beat
  /\ silent' = IF holder = "running" THEN silent + 1 ELSE silent
  /\ lostFor' = IF holder = "lost" THEN lostFor + 1 ELSE lostFor
  /\ UNCHANGED <<holder, beaten, skew>>

\* A unit of time passes, unless a timer is due.
Tick ==
  /\ holder = "running" => beat < BeatInterval
  /\ \A c \in Coordinators : sinceReap[c] < ReapInterval
  /\ sinceReap' = [c \in Coordinators |-> sinceReap[c] + 1]
  /\ left' = IF holder = "none" THEN left ELSE left - 1
  /\ beat' = IF holder = "running" THEN beat + 1 ELSE beat
  /\ silent' = IF holder = "running" THEN silent + 1 ELSE silent
  /\ lostFor' = IF holder = "lost" THEN lostFor + 1 ELSE lostFor
  /\ UNCHANGED <<holder, beaten, skew>>

Next ==
  \/ \E c \in Coordinators : Dispatch(c) \/ Heartbeat(c) \/ Reap(c)
  \/ \E c \in Coordinators, s \in Skews : SetSkew(c, s)
  \/ MissBeat \/ LoseWorker \/ Finish \/ Tick

Spec == Init /\ [][Next]_vars

-----------------------------------------------------------------------------
(* Properties *)

\* A lease whose worker is gone is recovered within the first TTL, the skews of
\* the two clocks that set and judge it, and a reaper's round.
RecoveryBound == lostFor <= FirstTTL + 2 * MaxSkew + ReapInterval

\* Once the worker has sent a heartbeat, within the heartbeat's TTL instead:
\* a heartbeat makes the lease shorter, too.
BeatenRecoveryBound == beaten = 1 => lostFor <= BeatTTL + 2 * MaxSkew + ReapInterval

\* A reaper finds the lease of a worker at work expired only after a silence:
\* no heartbeat has reached the table for the heartbeat's TTL less the skew of
\* the clock that set the lease (MaxSkew at most) and the reaper's own.  So with
\* clocks that agree a worker keeps its lease through outages shorter than the
\* TTL; skews that add up to more than the TTL less the heartbeat interval, which
\* the chaos service may set, do take it from a worker that misses no heartbeat.
OnlySilentIsReaped ==
  holder = "running" =>
    \A c \in Coordinators : Expired(c) => silent > BeatTTL - MaxSkew - skew[c]

\* stats, stuckLeases: ExpiresAt < now + LEASE_TTL_MS - 30 s.
Stuck(c) == left < FirstTTL - StuckAfter + skew[c]

\* GET /stats counts a lease that nobody works on as stuck>30s once it is, but
\* for the skews, lost for that long: LEASE_TTL_MS is the same in both files.
LostIsReported ==
  holder = "lost" /\ lostFor > StuckAfter + 2 * MaxSkew => \A c \in Coordinators : Stuck(c)

=============================================================================
