------------------------------- MODULE RateLimit -------------------------------
(***************************************************************************)
(* The two windowed limiters of internal/server/ratelimit: Limiter, a      *)
(* bucket of tokens per key that refills with time, and Count, which       *)
(* remembers the events of the last window.  Both Allow methods read the   *)
(* clock before they take the mutex, so a caller may bring a reading that  *)
(* is older than the one of the caller before: `now' below is what it      *)
(* brings, not what the clock says.                                        *)
(***************************************************************************)
EXTENDS Integers, FiniteSetsExt

CONSTANTS MaxTime,  \* bound on the clock
          Burst,    \* capacity of a bucket
          PerTick,  \* tokens that come back per tick
          Window,   \* length of the sliding window, in ticks
          Most      \* events a key may have in it

ASSUME LimitsAssumption ==
  /\ MaxTime \in Nat
  /\ Burst \in Nat \ {0} /\ PerTick \in Nat \ {0}
  /\ Window \in Nat /\ Most \in Nat \ {0}

Time == 0 .. MaxTime

Bucket == [tokens : 0 .. Burst, last : Time]

\* The bucket of a key that the limiter does not know.
FullBucket(now) == [tokens |-> Burst, last |-> now]

\* A reading from before b.last brings nothing back.
Refilled(b, now) ==
  LET back == IF now > b.last THEN PerTick * (now - b.last) ELSE 0
  IN Min({Burst, b.tokens + back})

\* MUTANT of Spend: last stays the time of the first call.
SpendAlone(b, now) ==
  [tokens |-> Max({0, Refilled(b, now) - 1}), last |-> b.last]

\* Allow takes a token if there is one; last is set whatever the reading.
Spend(b, now) ==
  [tokens |-> Max({0, Refilled(b, now) - 1}), last |-> now]

\* gcLocked drops a bucket whose last use is further back than this.
IdleTicks == (3 * Burst) \div (2 * PerTick)

\* Count's events are filtered, counted and added to; a serial number keeps
\* those of one tick apart.  The events still in the window of this reading:
Recent(events, now) == {e \in events : now - e.at <= Window}

\* A key whose last event, in the order of the mutex, is out of the window goes
\* when the map is full: the reading is that of whoever asks, for any key.
Outdated(events, now) ==
  \E e \in events : now - e.at > Window /\ \A f \in events : f.n <= e.n

\* MUTANT of HasRoom: one more.
HasRoomForOneMore(events, now) == Cardinality(Recent(events, now)) <= Most

HasRoom(events, now) == Cardinality(Recent(events, now)) < Most
=============================================================================
