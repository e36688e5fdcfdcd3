---------------------------- MODULE RateLimiter ----------------------------
(***************************************************************************)
(* The limit on the requests of each source (host/defense.rs).  The times  *)
(* of the requests let through are kept by source, in shards under a lock  *)
(* each; one counter bounds the number of sources.  A thread wakes up from *)
(* time to time and sweeps the shards one after the other, with the time   *)
(* it read before the first, and takes the sources it removed off the      *)
(* counter after the last, while requests go on.  A source is the text of  *)
(* an address, never as long as MAX_RATE_LIMIT_KEY_LEN.                    *)
(***************************************************************************)
EXTENDS Integers, Sequences, FiniteSets

CONSTANTS
  Sources, NUM_SHARDS,
  ShardOf,                  \* [Sources -> 1..NUM_SHARDS], the hash of the source
  MaxRequests, Window,      \* 100 in 60 seconds for the API
  CleanupInterval,          \* 60 seconds
  MAX_RATE_LIMIT_SOURCES,
  MaxClock                  \* bound: the last value of the clock

ASSUME LimiterAssumption ==
  /\ IsFiniteSet(Sources) /\ NUM_SHARDS \in Nat \ {0} /\ ShardOf \in [Sources -> 1..NUM_SHARDS]
  /\ MaxRequests \in Nat /\ Window \in Nat \ {0} /\ CleanupInterval \in Nat
  /\ MAX_RATE_LIMIT_SOURCES \in Nat /\ MaxClock \in Nat

VARIABLES
  clock,
  history,      \* by source the times kept for it; <<>>: there is no entry
  active,       \* the counter of the sources
  sweeper,      \* the thread: [pc, now, next, removed, wake]
  accepted      \* history: by source the times of all requests let through

limiterVars == <<clock, history, active, sweeper, accepted>>

-----------------------------------------------------------------------------
Expired(t, now) == now - t >= Window
\* What has expired goes from the front, up to the first that has not.
trim_expired(times, now) ==
  LET n == CHOOSE k \in 0..Len(times) :
             /\ \A j \in 1..k : Expired(times[j], now)
             /\ k < Len(times) => ~Expired(times[k + 1], now)
  IN SubSeq(times, n + 1, Len(times))

Tracked == {s \in Sources : history[s] # <<>>}
Asleep(wake) == [pc |-> "asleep", now |-> 0, next |-> 1, removed |-> 0, wake |-> wake]

LimiterInit ==
  /\ clock = 0 /\ history = [s \in Sources |-> <<>>] /\ active = 0
  /\ sweeper = Asleep(CleanupInterval) /\ accepted = [s \in Sources |-> <<>>]

-----------------------------------------------------------------------------
\* check(), all of it under the lock of the shard: a known source has room, or a new
\* one finds the counter below its limit.
Room(s) == Len(trim_expired(history[s], clock)) < MaxRequests
Admits(s) == /\ MaxRequests > 0
             /\ IF s \in Tracked THEN Room(s) ELSE active < MAX_RATE_LIMIT_SOURCES
Admit(s) ==
  /\ Admits(s)
  /\ history' = [history EXCEPT ![s] = Append(trim_expired(@, clock), clock)]
  /\ active' = IF s \in Tracked THEN active ELSE active + 1
  /\ accepted' = [accepted EXCEPT ![s] = Append(@, clock)]
  /\ UNCHANGED <<clock, sweeper>>
Refuse(s) ==
  /\ ~Admits(s)
  /\ history' = IF MaxRequests = 0 THEN history
                ELSE [history EXCEPT ![s] = trim_expired(@, clock)]
  /\ UNCHANGED <<clock, active, sweeper, accepted>>

\* The thread wakes up and reads the time once ...
Wakes ==
  /\ sweeper.pc = "asleep" /\ clock >= sweeper.wake
  /\ sweeper' = [sweeper EXCEPT !.pc = "sweeping", !.now = clock]
  /\ UNCHANGED <<clock, history, active, accepted>>
\* ... takes the lock of one shard, and drops the sources it leaves nothing of ...
InShard(k) == {s \in Sources : ShardOf[s] = k}
\* Mutant: a source goes with its oldest request.
SweptWhole(times, now) == IF times # <<>> /\ Expired(times[1], now) THEN <<>> ELSE times
Swept(times, now) == trim_expired(times, now)
Dropped == {s \in InShard(sweeper.next) \cap Tracked : Swept(history[s], sweeper.now) = <<>>}
SweepsShard ==
  /\ sweeper.pc = "sweeping" /\ sweeper.next <= NUM_SHARDS
  /\ history' = [s \in Sources |-> IF s \in InShard(sweeper.next)
                                   THEN Swept(history[s], sweeper.now) ELSE history[s]]
  /\ sweeper' = [sweeper EXCEPT !.next = @ + 1, !.removed = @ + Cardinality(Dropped)]
  /\ UNCHANGED <<clock, active, accepted>>
\* ... and takes them off the counter when it has been through all shards.
SweepEnds ==
  /\ sweeper.pc = "sweeping" /\ sweeper.next > NUM_SHARDS
  /\ active' = active - sweeper.removed
  /\ sweeper' = Asleep(clock + CleanupInterval)
  /\ UNCHANGED <<clock, history, accepted>>
Sweeper == Wakes \/ SweepsShard \/ SweepEnds

LimiterTick ==
  /\ clock < MaxClock
  /\ clock' = clock + 1
  /\ UNCHANGED <<history, active, sweeper, accepted>>

\* The process ends and another makes a limiter of its own; the thread ends with it.
Renewed ==
  /\ history' = [s \in Sources |-> <<>>] /\ active' = 0
  /\ sweeper' = Asleep(clock + CleanupInterval) /\ accepted' = [s \in Sources |-> <<>>]
  /\ clock' = clock

LimiterNext ==
  \/ \E s \in Sources : Admit(s) \/ Refuse(s)
  \/ Sweeper \/ LimiterTick \/ Renewed
LimiterSpec == LimiterInit /\ [][LimiterNext]_limiterVars

-----------------------------------------------------------------------------
LimiterTypeOK ==
  /\ clock \in Nat /\ active \in Nat
  /\ history \in [Sources -> Seq(Nat)] /\ accepted \in [Sources -> Seq(Nat)]
  /\ sweeper \in [pc : {"asleep", "sweeping"}, now : Nat, next : 1..(NUM_SHARDS + 1),
                  removed : Nat, wake : Nat]

\* However requests, expiry and the sweeping of stale shards alternate, no source gets
\* more than MaxRequests through within any window, and no more sources are remembered
\* than the limit allows.
RateHonoured ==
  /\ \A s \in Sources : \A i \in DOMAIN accepted[s] :
       i > MaxRequests => accepted[s][i] - accepted[s][i - MaxRequests] >= Window
  /\ Cardinality(Tracked) <= MAX_RATE_LIMIT_SOURCES
=============================================================================
