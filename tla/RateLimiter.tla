------------------------------ MODULE RateLimiter ------------------------------
(***************************************************************************)
(* SlidingWindowRateLimiter (core/rate_limit.py).  Routes that start       *)
(* expensive work call check() before anything else; the deque of a key    *)
(* holds the accepted events of the last window.                           *)
(*                                                                         *)
(* The deque is kept as the log of all accepted events and the number of   *)
(* those already popped from its front.  Time is counted in ticks of a     *)
(* fraction of a second, because the promise to a refused caller is in     *)
(* whole seconds.  A restart of the process, which empties every deque, is *)
(* left out: the module says that its promise is per process.              *)
(***************************************************************************)
EXTENDS Integers, Sequences, FiniteSets

CONSTANTS Keys,             \* users
          MaxEvents,        \* max_events
          Window,           \* window_seconds, in ticks
          TicksPerSecond,
          MaxTime           \* bound on the clock

ASSUME LimiterAssumption == /\ MaxEvents \in Nat \ {0}
                            /\ Window \in Nat \ {0}
                            /\ TicksPerSecond \in Nat \ {0}
                            /\ MaxTime \in Nat

VARIABLES now,          \* time.monotonic(), in ticks
          log,          \* key -> times of its accepted events, in order
          popped        \* key -> events popped: the deque is the rest of the log

limiterVars == <<now, log, popped>>

LimiterInit == /\ now = 0
               /\ log = [k \in Keys |-> <<>>]
               /\ popped = [k \in Keys |-> 0]

Tick == /\ now < MaxTime
        /\ now' = now + 1
        /\ UNCHANGED <<log, popped>>

\* Mutated form: an event exactly one window old still counts.
ExpiredLate(time) == time < now - Window

Expired(time) == time <= now - Window

\* The popleft loop stops after p events.
PrunesTo(k, p) ==
    /\ \A i \in popped[k] + 1 .. p : Expired(log[k][i])
    /\ p < Len(log[k]) => ~Expired(log[k][p + 1])

\* Mutated form: the limit is compared with > instead of >=.
RoomOneTooMany(k, p) == Len(log[k]) - p <= MaxEvents

Room(k, p) == Len(log[k]) - p < MaxEvents

\* check(): record the event.
Accept(k) ==
    \E p \in popped[k] .. Len(log[k]) :
        /\ PrunesTo(k, p)
        /\ Room(k, p)
        /\ popped' = [popped EXCEPT ![k] = p]
        /\ log' = [log EXCEPT ![k] = Append(@, now)]
        /\ UNCHANGED now

\* check(): raise RateLimitedError; a refused attempt is not recorded.
Refuse(k) ==
    \E p \in popped[k] .. Len(log[k]) :
        /\ PrunesTo(k, p)
        /\ ~Room(k, p)
        /\ popped' = [popped EXCEPT ![k] = p]
        /\ UNCHANGED <<now, log>>

LimiterNext == Tick \/ \E k \in Keys : Accept(k) \/ Refuse(k)

LimiterSpec == LimiterInit /\ [][LimiterNext]_limiterVars

-----------------------------------------------------------------------------
\* Mutated form: the remaining time is truncated, without the second added.
RetryAfterTruncated(k, p) ==
    LET wait == (log[k][p + 1] + Window - now) \div TicksPerSecond
    IN  IF wait > 1 THEN wait ELSE 1

\* details.retry_after_seconds of a refusal, with p events popped.
RetryAfter(k, p) ==
    LET wait == (log[k][p + 1] + Window - now) \div TicksPerSecond + 1
    IN  IF wait > 1 THEN wait ELSE 1

\* The answer to a check at time t if no event is accepted in between.
WouldAccept(k, t) ==
    Cardinality({i \in popped[k] + 1 .. Len(log[k]) : log[k][i] > t - Window}) < MaxEvents

LimiterTypeOK == /\ now \in Nat
                 /\ log \in [Keys -> Seq(Nat)]
                 /\ popped \in [Keys -> Nat]
                 /\ \A k \in Keys : popped[k] <= Len(log[k])

\* "At most max_events per key within any rolling window_seconds interval":
\* of any max_events + 1 consecutive accepted events, the last is at least a
\* window later than the first, however accepting, refusing and pruning mix.
WindowBound ==
    \A k \in Keys : \A i \in 1 .. Len(log[k]) - MaxEvents :
        log[k][i + MaxEvents] - log[k][i] >= Window

\* What a refused caller is told is true and not pessimistic: after waiting
\* retry_after_seconds the next check is accepted, and no check more than one
\* second earlier would have been.
RetryAfterHonest ==
    \A k \in Keys : \A p \in popped[k] .. Len(log[k]) :
        PrunesTo(k, p) /\ ~Room(k, p)
            => LET until == now + RetryAfter(k, p) * TicksPerSecond
               IN  /\ WouldAccept(k, until)
                   /\ \A t \in now .. until - TicksPerSecond - 1 : ~WouldAccept(k, t)
================================================================================
