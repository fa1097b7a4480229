-------------------------- MODULE ResumeAnalysisProofs --------------------------
(***************************************************************************)
(* For any number of callers, any outputs of the model and any rate limit: *)
(* a run's provider calls are bounded and justified, no analysis outlives  *)
(* its parents, scores average what they are computed from and reward every *)
(* improvement, the user's limit holds in every window and what a refused  *)
(* user is told of it is true.                                             *)
(***************************************************************************)
EXTENDS ResumeAnalysis, SequenceTheorems, FiniteSetTheorems, TLAPS

-----------------------------------------------------------------------------
(* The rate limiter, for any keys, limit and window.                       *)

(***************************************************************************)
(* The strengthening: accepted events are in the past, the deque never     *)
(* holds more than max_events, and what was popped had expired.            *)
(***************************************************************************)
DequeInv ==
    \A k \in Keys :
        /\ Len(log[k]) - popped[k] <= MaxEvents
        /\ \A i \in 1 .. popped[k] : Expired(log[k][i])

WindowInv == LimiterTypeOK /\ DequeInv /\ WindowBound

LEMMA LimiterStarts == LimiterInit => WindowInv
  BY LimiterAssumption DEF LimiterInit, WindowInv, LimiterTypeOK, DequeInv, WindowBound

\* Time only passes: an expired event stays expired.
LEMMA TickKeepsWindow == ASSUME WindowInv, Tick PROVE WindowInv'
  <1>1. LimiterTypeOK'
    BY DEF WindowInv, Tick, LimiterTypeOK
  <1>2. DequeInv'
    <2>1. ASSUME NEW k \in Keys, NEW i \in 1 .. popped[k]
          PROVE  log[k][i] <= now + 1 - Window
      <3>1. log[k][i] <= now - Window
        BY DEF WindowInv, DequeInv, Expired
      <3>2. log[k][i] \in Nat
        BY DEF WindowInv, LimiterTypeOK
      <3> QED
        BY <3>1, <3>2, LimiterAssumption DEF WindowInv, LimiterTypeOK
    <2>2. /\ now' = now + 1
          /\ log' = log
          /\ popped' = popped
      BY DEF Tick
    <2>3. ASSUME NEW k \in Keys
          PROVE  /\ Len(log'[k]) - popped'[k] <= MaxEvents
                 /\ \A i \in 1 .. popped'[k] : log'[k][i] <= now' - Window
      <3>1. Len(log[k]) - popped[k] <= MaxEvents
        BY DEF WindowInv, DequeInv
      <3>2. \A i \in 1 .. popped[k] : log[k][i] <= now + 1 - Window
        BY <2>1
      <3>3. /\ now \in Nat
            /\ popped[k] \in Nat
            /\ \A i \in 1 .. popped[k] : log[k][i] \in Nat
        BY DEF WindowInv, LimiterTypeOK
      <3> QED
        BY <2>2, <3>1, <3>2, <3>3, LimiterAssumption
    <2> QED
      BY <2>3 DEF DequeInv, Expired
  <1>3. WindowBound'
    BY DEF WindowInv, WindowBound, Tick
  <1> QED
    BY <1>1, <1>2, <1>3 DEF WindowInv

\* The popleft loop keeps what is known of the deque.
LEMMA PruneKeeps ==
    ASSUME WindowInv, NEW k \in Keys, NEW p \in popped[k] .. Len(log[k]), PrunesTo(k, p)
    PROVE  /\ p \in Nat
           /\ Len(log[k]) - p <= MaxEvents
           /\ \A i \in 1 .. p : Expired(log[k][i])
  <1>1. /\ popped[k] \in Nat
        /\ Len(log[k]) \in Nat
    BY DEF WindowInv, LimiterTypeOK
  <1>2. ASSUME NEW i \in 1 .. p PROVE Expired(log[k][i])
    <2>1. CASE i <= popped[k]
      BY <1>1, <2>1 DEF WindowInv, DequeInv
    <2>2. CASE i > popped[k]
      BY <1>1, <2>2 DEF PrunesTo
    <2> QED
      BY <1>1, <2>1, <2>2
  <1> QED
    BY <1>1, <1>2, LimiterAssumption DEF WindowInv, DequeInv

LEMMA AcceptKeepsWindow == ASSUME WindowInv, NEW k \in Keys, Accept(k) PROVE WindowInv'
  <1>1. PICK p \in popped[k] .. Len(log[k]) :
            /\ PrunesTo(k, p)
            /\ Room(k, p)
            /\ popped' = [popped EXCEPT ![k] = p]
            /\ log' = [log EXCEPT ![k] = Append(@, now)]
            /\ UNCHANGED now
    BY DEF Accept
  <1>2. /\ p \in Nat
        /\ \A i \in 1 .. p : Expired(log[k][i])
    BY <1>1, PruneKeeps
  <1>3. /\ now \in Nat
        /\ log[k] \in Seq(Nat)
        /\ Len(log[k]) \in Nat
        /\ popped[k] \in Nat
    BY DEF WindowInv, LimiterTypeOK
  <1>4. /\ log'[k] = Append(log[k], now)
        /\ log'[k] \in Seq(Nat)
        /\ Len(log'[k]) = Len(log[k]) + 1
        /\ log'[k][Len(log[k]) + 1] = now
        /\ \A i \in 1 .. Len(log[k]) : log'[k][i] = log[k][i]
    BY <1>1, <1>3 DEF WindowInv, LimiterTypeOK
  <1>5. /\ popped'[k] = p
        /\ now' = now
        /\ \A j \in Keys \ {k} : log'[j] = log[j] /\ popped'[j] = popped[j]
    BY <1>1 DEF WindowInv, LimiterTypeOK
  <1>6. LimiterTypeOK'
    <2>1. /\ log' \in [Keys -> Seq(Nat)]
          /\ popped' \in [Keys -> Nat]
      BY <1>1, <1>2, <1>4 DEF WindowInv, LimiterTypeOK
    <2>2. ASSUME NEW j \in Keys PROVE popped'[j] <= Len(log'[j])
      <3>1. CASE j = k
        BY <1>3, <1>4, <1>5, <3>1
      <3>2. CASE j # k
        BY <1>5, <3>2 DEF WindowInv, LimiterTypeOK
      <3> QED
        BY <3>1, <3>2
    <2> QED
      BY <1>3, <1>5, <2>1, <2>2 DEF LimiterTypeOK
  <1>7. DequeInv'
    <2> SUFFICES ASSUME NEW j \in Keys
                 PROVE  /\ Len(log'[j]) - popped'[j] <= MaxEvents
                        /\ \A i \in 1 .. popped'[j] : log'[j][i] <= now - Window
      BY <1>5 DEF DequeInv, Expired
    <2>1. CASE j = k
      <3>1. Len(log[k]) - p < MaxEvents
        BY <1>1 DEF Room
      <3>2. Len(log'[k]) - popped'[k] <= MaxEvents
        BY <1>2, <1>3, <1>4, <1>5, <3>1, LimiterAssumption
      <3>3. \A i \in 1 .. p : log[k][i] <= now - Window
        BY <1>2 DEF Expired
      <3>4. \A i \in 1 .. p : i \in 1 .. Len(log[k])
        BY <1>3
      <3> QED
        BY <1>4, <1>5, <2>1, <3>2, <3>3, <3>4
    <2>2. CASE j # k
      BY <1>5, <2>2 DEF WindowInv, DequeInv, Expired
    <2> QED
      BY <2>1, <2>2
  <1>8. WindowBound'
    <2> SUFFICES ASSUME NEW j \in Keys, NEW i \in 1 .. Len(log'[j]) - MaxEvents
                 PROVE  log'[j][i + MaxEvents] - log'[j][i] >= Window
      BY DEF WindowBound
    <2>1. CASE j # k
      BY <1>5, <2>1 DEF WindowInv, WindowBound
    <2>2. CASE j = k /\ i + MaxEvents <= Len(log[k])
      <3>1. /\ i \in 1 .. Len(log[k]) - MaxEvents
            /\ i \in 1 .. Len(log[k])
            /\ i + MaxEvents \in 1 .. Len(log[k])
        BY <1>3, <1>4, <2>2, LimiterAssumption
      <3> QED
        BY <1>4, <2>2, <3>1 DEF WindowInv, WindowBound
    <2>3. CASE j = k /\ i + MaxEvents = Len(log[k]) + 1
      \* Fewer than max_events are left in the deque: event i was popped.
      <3>1. /\ i \in 1 .. p
            /\ i \in 1 .. Len(log[k])
        BY <1>1, <1>2, <1>3, <2>3, LimiterAssumption DEF Room
      <3>2. /\ log'[k][i] = log[k][i]
            /\ log[k][i] <= now - Window
        BY <1>2, <1>4, <3>1 DEF Expired
      <3>3. log'[k][i + MaxEvents] = now
        BY <1>4, <2>3
      <3>4. log[k][i] \in Nat
        BY <1>3, <3>1
      <3> QED
        BY <1>3, <2>3, <3>2, <3>3, <3>4, LimiterAssumption
    <2> QED
      BY <1>3, <1>4, <2>1, <2>2, <2>3, LimiterAssumption, SMTT(30)
  <1> QED
    BY <1>6, <1>7, <1>8 DEF WindowInv

LEMMA RefuseKeepsWindow == ASSUME WindowInv, NEW k \in Keys, Refuse(k) PROVE WindowInv'
  <1>1. PICK p \in popped[k] .. Len(log[k]) :
            /\ PrunesTo(k, p)
            /\ popped' = [popped EXCEPT ![k] = p]
            /\ UNCHANGED <<now, log>>
    BY DEF Refuse
  <1>2. /\ p \in Nat
        /\ Len(log[k]) - p <= MaxEvents
        /\ \A i \in 1 .. p : Expired(log[k][i])
    BY <1>1, PruneKeeps
  <1>3. /\ popped'[k] = p
        /\ \A j \in Keys \ {k} : popped'[j] = popped[j]
    BY <1>1 DEF WindowInv, LimiterTypeOK
  <1>4. LimiterTypeOK'
    BY <1>1, <1>2, <1>3 DEF WindowInv, LimiterTypeOK
  <1>5. DequeInv'
    <2> SUFFICES ASSUME NEW j \in Keys
                 PROVE  /\ Len(log[j]) - popped'[j] <= MaxEvents
                        /\ \A i \in 1 .. popped'[j] : log[j][i] <= now - Window
      BY <1>1 DEF DequeInv, Expired
    <2>1. CASE j = k
      BY <1>2, <1>3, <2>1 DEF Expired
    <2>2. CASE j # k
      BY <1>3, <2>2 DEF WindowInv, DequeInv, Expired
    <2> QED
      BY <2>1, <2>2
  <1>6. WindowBound'
    BY <1>1 DEF WindowInv, WindowBound
  <1> QED
    BY <1>4, <1>5, <1>6 DEF WindowInv

LEMMA WindowKept == WindowInv /\ [LimiterNext]_limiterVars => WindowInv'
  <1> SUFFICES ASSUME WindowInv, [LimiterNext]_limiterVars PROVE WindowInv'
    OBVIOUS
  <1>1. CASE Tick
    BY <1>1, TickKeepsWindow
  <1>2. ASSUME NEW k \in Keys, Accept(k) PROVE WindowInv'
    BY <1>2, AcceptKeepsWindow
  <1>3. ASSUME NEW k \in Keys, Refuse(k) PROVE WindowInv'
    BY <1>3, RefuseKeepsWindow
  <1>4. CASE UNCHANGED limiterVars
    BY <1>4 DEF limiterVars, WindowInv, LimiterTypeOK, DequeInv, WindowBound, Expired
  <1> QED
    BY <1>1, <1>2, <1>3, <1>4 DEF LimiterNext

\* Whole seconds and what is left of them.
LEMMA Seconds ==
    ASSUME NEW x \in Nat, NEW s \in Nat \ {0}
    PROVE  /\ x \div s \in Nat
           /\ (x \div s) * s <= x
           /\ x < (x \div s + 1) * s
  <1>1. x = s * (x \div s) + (x % s) /\ x % s \in 0 .. s - 1
    OBVIOUS
  <1> QED
    BY <1>1

\* Events are recorded in the order of the clock.
Chronological ==
    \A k \in Keys : \A i \in DOMAIN log[k] :
        /\ log[k][i] <= now
        /\ \A j \in DOMAIN log[k] : i <= j => log[k][i] <= log[k][j]

\* The three actions keep the order.
LEMMA OrderKept ==
    ASSUME LimiterTypeOK, Chronological, [LimiterNext]_limiterVars
    PROVE  Chronological'
  <1>1. \A k \in Keys : DOMAIN log[k] = 1 .. Len(log[k]) /\ \A i \in DOMAIN log[k] : log[k][i] \in Nat
    BY DEF LimiterTypeOK
  <1>2. CASE UNCHANGED log /\ (now' = now \/ now' = now + 1)
    <2> SUFFICES ASSUME NEW k \in Keys, NEW i \in DOMAIN log[k]
                 PROVE  /\ log[k][i] <= now'
                        /\ \A j \in DOMAIN log[k] : i <= j => log[k][i] <= log[k][j]
      BY <1>2 DEF Chronological
    <2>1. log[k][i] \in Nat /\ now \in Nat /\ log[k][i] <= now
      BY <1>1 DEF Chronological, LimiterTypeOK
    <2> QED
      BY <1>2, <2>1 DEF Chronological
  <1>3. ASSUME NEW k \in Keys, now' = now, log' = [log EXCEPT ![k] = Append(@, now)]
        PROVE  Chronological'
    <2> SUFFICES ASSUME NEW l \in Keys, NEW i \in DOMAIN log'[l]
                 PROVE  /\ log'[l][i] <= now
                        /\ \A j \in DOMAIN log'[l] : i <= j => log'[l][i] <= log'[l][j]
      BY <1>3 DEF Chronological
    <2>1. CASE l # k
      <3>1. log'[l] = log[l]
        BY <1>3, <2>1 DEF LimiterTypeOK
      <3> QED
        BY <3>1 DEF Chronological
    <2>2. CASE l = k
      <3>1. log'[k] = Append(log[k], now) /\ log[k] \in Seq(Nat) /\ now \in Nat
        BY <1>3 DEF LimiterTypeOK
      <3>2. /\ DOMAIN log'[k] = 1 .. Len(log[k]) + 1
            /\ Len(log[k]) \in Nat
            /\ log'[k][Len(log[k]) + 1] = now
            /\ \A j \in 1 .. Len(log[k]) : log'[k][j] = log[k][j]
        BY <3>1
      <3>3. \A j \in DOMAIN log'[k] : log'[k][j] <= now
        BY <1>1, <3>1, <3>2 DEF Chronological
      <3>4. ASSUME NEW j \in DOMAIN log'[k], i <= j
            PROVE  log'[k][i] <= log'[k][j]
        <4>1. CASE j = Len(log[k]) + 1
          BY <2>2, <3>2, <3>3, <4>1
        <4>2. CASE j # Len(log[k]) + 1
          BY <1>1, <2>2, <3>2, <3>4, <4>2 DEF Chronological
        <4> QED
          BY <4>1, <4>2
      <3> QED
        BY <2>2, <3>3, <3>4
    <2> QED
      BY <2>1, <2>2
  <1> QED
    BY <1>2, <1>3 DEF LimiterNext, Tick, Accept, Refuse, limiterVars

\* A refusal names the oldest event of a full deque: when that one expires,
\* there is room again, and not before.
LEMMA RefusalsHonest ==
    ASSUME WindowInv, Chronological
    PROVE  RetryAfterHonest
  <1>a. SUFFICES ASSUME NEW k \in Keys, NEW p \in popped[k] .. Len(log[k]),
                        PrunesTo(k, p), ~Room(k, p)
                 PROVE  LET until == now + RetryAfter(k, p) * TicksPerSecond
                        IN  /\ WouldAccept(k, until)
                            /\ \A t \in now .. until - TicksPerSecond - 1 : ~WouldAccept(k, t)
    BY Zenon DEF RetryAfterHonest
  <1> DEFINE head  == log[k][p + 1]
             wait  == head + Window - now
             time  == RetryAfter(k, p) * TicksPerSecond
             Young(t) == {i \in popped[k] + 1 .. Len(log[k]) : log[k][i] > t - Window}
  <1>1. /\ log[k] \in Seq(Nat) /\ Len(log[k]) \in Nat /\ popped[k] \in Nat /\ now \in Nat
        /\ \A i \in 1 .. Len(log[k]) : i \in DOMAIN log[k] /\ log[k][i] \in Nat
    BY DEF WindowInv, LimiterTypeOK
  <1>2. /\ p \in Nat /\ Len(log[k]) - p = MaxEvents
        /\ \A i \in 1 .. p : Expired(log[k][i])
    <2>1. /\ p \in Nat /\ Len(log[k]) - p <= MaxEvents
          /\ \A i \in 1 .. p : Expired(log[k][i])
      BY <1>a, PruneKeeps
    <2>2. ~(Len(log[k]) - p < MaxEvents)
      BY <1>a DEF Room
    <2> QED
      BY <1>1, <2>1, <2>2, LimiterAssumption, SMTT(30)
  <1>3. p + 1 \in 1 .. Len(log[k]) /\ head \in Nat
    BY <1>1, <1>2, LimiterAssumption
  <1>4. head > now - Window /\ wait \in Nat \ {0}
    <2>1. ~(head <= now - Window)
      BY <1>a, <1>1, <1>2, LimiterAssumption DEF PrunesTo, Expired
    <2> QED
      BY <1>1, <1>3, <2>1, LimiterAssumption
  <1>5. /\ RetryAfter(k, p) = wait \div TicksPerSecond + 1
        /\ (wait \div TicksPerSecond) * TicksPerSecond <= wait
        /\ wait < time
        /\ time - TicksPerSecond <= wait
        /\ time \in Nat
    <2> DEFINE whole == wait \div TicksPerSecond
    <2>1. whole \in Nat /\ whole * TicksPerSecond <= wait /\ wait < (whole + 1) * TicksPerSecond
      BY <1>4, Seconds, LimiterAssumption
    <2>2. RetryAfter(k, p) = whole + 1
      BY <2>1 DEF RetryAfter
    <2>3. (whole + 1) * TicksPerSecond = whole * TicksPerSecond + TicksPerSecond
          /\ (whole + 1) * TicksPerSecond \in Nat
      <3> HIDE DEF whole
      <3> QED
        BY <2>1, LimiterAssumption
    <2> HIDE DEF whole
    <2> QED
      BY <1>4, <2>1, <2>2, <2>3, LimiterAssumption DEF whole
  <1>6. \A t \in Nat : IsFiniteSet(Young(t))
    <2>1. IsFiniteSet(popped[k] + 1 .. Len(log[k]))
      <3>1. popped[k] + 1 \in Int /\ Len(log[k]) \in Int
        BY <1>1
      <3> QED
        BY <3>1, FS_Interval
    <2> QED
      BY <2>1, FS_Subset
  \* After the wait the oldest event of the deque has expired too.
  <1>b. PICK until \in Nat : until = now + RetryAfter(k, p) * TicksPerSecond
    BY <1>1, <1>5
  <1>c. /\ wait < until - now
        /\ until - now - TicksPerSecond <= wait
    BY <1>1, <1>b, <1>4, <1>5, LimiterAssumption
  <1> HIDE DEF time
  <1>7. WouldAccept(k, until)
    <2>1. head <= until - Window
      BY <1>1, <1>3, <1>4, <1>c, LimiterAssumption
    <2>2. Young(until) \subseteq p + 2 .. Len(log[k])
      <3> SUFFICES ASSUME NEW i \in Young(until)
                   PROVE  i \in p + 2 .. Len(log[k])
        OBVIOUS
      <3>0. i \in popped[k] + 1 .. Len(log[k]) /\ log[k][i] > until - Window
        OBVIOUS
      <3>1. i \in 1 .. Len(log[k]) /\ log[k][i] \in Nat
        BY <1>1, <3>0
      <3>2. CASE i <= p
        <4>1. log[k][i] <= now - Window
          BY <1>2, <3>1, <3>2 DEF Expired
        <4>2. log[k][i] <= until - Window
          BY <1>1, <1>4, <1>c, <3>1, <4>1, LimiterAssumption
        <4> QED
          BY <1>1, <3>0, <3>1, <4>2, LimiterAssumption
      <3>3. CASE i = p + 1
        BY <1>1, <1>3, <1>5, <2>1, <3>0, <3>3, LimiterAssumption
      <3> QED
        BY <1>1, <1>2, <3>0, <3>1, <3>2, <3>3
    <2>3. /\ IsFiniteSet(p + 2 .. Len(log[k]))
          /\ Cardinality(p + 2 .. Len(log[k])) = MaxEvents - 1
      <3>1. p + 2 \in Int /\ Len(log[k]) \in Int /\ Len(log[k]) - (p + 2) + 1 = MaxEvents - 1
            /\ (p + 2 > Len(log[k]) => MaxEvents - 1 = 0)
        BY <1>1, <1>2, LimiterAssumption
      <3> QED
        BY <3>1, FS_Interval
    <2>4. Cardinality(Young(until)) <= MaxEvents - 1 /\ Cardinality(Young(until)) \in Nat
      BY <1>6, <2>1, <2>2, <2>3, FS_Subset, FS_CardinalityType
    <2> QED
      BY <2>4, LimiterAssumption DEF WouldAccept
  \* More than a second earlier the whole deque was still young.
  <1>8. ASSUME NEW t \in now .. until - TicksPerSecond - 1
        PROVE  ~WouldAccept(k, t)
    <2>1. t \in Nat /\ t - Window < head
      BY <1>1, <1>3, <1>c, LimiterAssumption
    <2>2. p + 1 .. Len(log[k]) \subseteq Young(t)
      <3> SUFFICES ASSUME NEW i \in p + 1 .. Len(log[k])
                   PROVE  i \in popped[k] + 1 .. Len(log[k]) /\ log[k][i] > t - Window
        OBVIOUS
      <3>1. i \in 1 .. Len(log[k]) /\ p + 1 <= i /\ log[k][i] \in Nat
        BY <1>1, <1>2
      <3>2. head <= log[k][i]
        BY <1>1, <1>3, <3>1 DEF Chronological
      <3>3. i \in popped[k] + 1 .. Len(log[k])
        BY <1>1, <1>2, <3>1
      <3>4. log[k][i] > t - Window
        BY <1>3, <2>1, <3>1, <3>2, LimiterAssumption
      <3> QED
        BY <3>3, <3>4
    <2>3. Cardinality(p + 1 .. Len(log[k])) = MaxEvents
      <3>1. p + 1 \in Int /\ Len(log[k]) \in Int /\ Len(log[k]) - (p + 1) + 1 = MaxEvents
            /\ p + 1 <= Len(log[k])
        BY <1>1, <1>2, LimiterAssumption
      <3> QED
        BY <3>1, FS_Interval
    <2>4. Cardinality(Young(t)) >= MaxEvents /\ Cardinality(Young(t)) \in Nat
      BY <1>6, <2>1, <2>2, <2>3, FS_Subset, FS_CardinalityType
    <2> QED
      BY <2>4, LimiterAssumption DEF WouldAccept
  <1> QED
    BY <1>7, <1>8, <1>b

LimiterInv == WindowInv /\ Chronological

LEMMA LimiterStartsSound == LimiterInit => LimiterInv
<1>1. LimiterInit => Chronological
  BY DEF LimiterInit, Chronological
<1> QED
  BY <1>1, LimiterStarts DEF LimiterInv

LEMMA LimiterKept == LimiterInv /\ [LimiterNext]_limiterVars => LimiterInv'
<1>1. WindowInv => LimiterTypeOK
  BY DEF WindowInv
<1> QED
  BY <1>1, WindowKept, OrderKept DEF LimiterInv

\* No key ever gets more than max_events accepted events into one window,
\* whatever the limit, the window and the times of the checks.
THEOREM LimiterWindowBound == LimiterSpec => []WindowBound
<1>1. LimiterInv => WindowBound
  BY DEF LimiterInv, WindowInv
<1> QED
  BY LimiterStartsSound, LimiterKept, <1>1, PTL DEF LimiterSpec

\* The waiting time a refused caller is told is enough, and at most a second
\* more than is needed, whatever the window and the clock's resolution.
THEOREM LimiterIsHonest == LimiterSpec => []RetryAfterHonest
<1>1. LimiterInv => RetryAfterHonest
  BY RefusalsHonest DEF LimiterInv
<1> QED
  BY LimiterStartsSound, LimiterKept, <1>1, PTL DEF LimiterSpec

-----------------------------------------------------------------------------
(* The runner.  The point a run has reached determines the replies that    *)
(* brought it there, but for whether the generation was repeated.          *)

Brought(at, replies) ==
    /\ at = "generating" => replies = <<>>
    /\ at = "generating again" => replies = <<"unavailable">>
    /\ at = "repairing" => \/ replies = <<"invalid">>
                           \/ replies = <<"unavailable", "invalid">>
    /\ at = "repairing again" => \/ replies = <<"invalid", "unavailable">>
                                 \/ replies = <<"unavailable", "invalid", "unavailable">>

RunnerInv == /\ RunnerTypeOK
             /\ \A c \in Callers : Brought(run[c].at, run[c].replies)

LEMMA RunnerStarts == RunnerInit => RunnerInv
<1>1. NoRun \in [at : Points, replies : Seq(Replies)] /\ NoRun.at = "none"
  BY DEF NoRun, Points
<1> QED
  BY <1>1 DEF RunnerInit, RunnerInv, RunnerTypeOK, Brought

LEMMA RunReplaced ==
    ASSUME RunnerInv, NEW c \in Callers, NEW at \in Points, NEW replies \in Seq(Replies),
           run' = [run EXCEPT ![c] = [at |-> at, replies |-> replies]], Brought(at, replies)
    PROVE  RunnerInv'
<1>1. RunnerTypeOK'
  BY DEF RunnerInv, RunnerTypeOK
<1>2. ASSUME NEW d \in Callers
      PROVE  Brought(run'[d].at, run'[d].replies)
  BY DEF RunnerInv, RunnerTypeOK
<1> QED
  BY <1>1, <1>2 DEF RunnerInv, Brought

LEMMA StartKeepsRunner == ASSUME RunnerInv, NEW c \in Callers, StartRun(c) PROVE RunnerInv'
<1> DEFINE at == IF KeyConfigured THEN "generating" ELSE "AIConfigurationError"
<1>1. at \in Points /\ <<>> \in Seq(Replies) /\ Brought(at, <<>>)
  BY DEF Points, Generating, Outcomes, Brought
<1> QED
  BY <1>1, RunReplaced DEF StartRun

LEMMA DropKeepsRunner == ASSUME RunnerInv, NEW c \in Callers, DropRun(c) PROVE RunnerInv'
<1>1. NoRun = [at |-> "none", replies |-> <<>>] /\ "none" \in Points
  BY DEF NoRun, Points
<1>2. Brought("none", <<>>) /\ <<>> \in Seq(Replies)
  BY DEF Brought
<1>3. run' = [run EXCEPT ![c] = [at |-> "none", replies |-> <<>>]]
  BY <1>1 DEF DropRun
<1> QED
  BY <1>1, <1>2, <1>3, RunReplaced

\* What a reply leads to, as a table.
LEMMA NextPoints ==
    ASSUME NEW at \in Generating \union Repairing, NEW reply \in Replies
    PROVE  /\ at = "generating" =>
                 \/ reply = "unavailable" /\ NextPoint(at, reply) = "generating again"
                 \/ reply = "invalid" /\ NextPoint(at, reply) = "repairing"
                 \/ NextPoint(at, reply) \in Outcomes
           /\ at = "generating again" =>
                 \/ reply = "invalid" /\ NextPoint(at, reply) = "repairing"
                 \/ NextPoint(at, reply) \in Outcomes
           /\ at = "repairing" =>
                 \/ reply = "unavailable" /\ NextPoint(at, reply) = "repairing again"
                 \/ NextPoint(at, reply) \in Outcomes
           /\ at = "repairing again" => NextPoint(at, reply) \in Outcomes
<1>1. AfterUnavailable(at) = IF at = "generating" THEN "generating again"
                             ELSE IF at = "repairing" THEN "repairing again"
                             ELSE "AIProviderUnavailableError"
  BY DEF AfterUnavailable
<1>2. NextPoint(at, reply) =
        IF reply = "unavailable" THEN AfterUnavailable(at)
        ELSE IF reply = "rate_limited" THEN "AIRateLimitedError"
        ELSE IF reply = "rejected" THEN "AIConfigurationError"
        ELSE IF reply = "empty" THEN "AIInvalidOutputError"
        ELSE IF reply = "invalid"
             THEN IF at \in Generating THEN "repairing" ELSE "AIInvalidOutputError"
        ELSE "Output"
  BY DEF NextPoint, Replies
<1> QED
  BY <1>1, <1>2 DEF Generating, Repairing, Outcomes, Replies

LEMMA Appended ==
    /\ <<>> \in Seq(Replies)
    /\ Append(<<>>, "unavailable") = <<"unavailable">>
    /\ Append(<<>>, "invalid") = <<"invalid">>
    /\ Append(<<"unavailable">>, "invalid") = <<"unavailable", "invalid">>
    /\ Append(<<"invalid">>, "unavailable") = <<"invalid", "unavailable">>
    /\ Append(<<"unavailable", "invalid">>, "unavailable")
         = <<"unavailable", "invalid", "unavailable">>
<1>1. /\ <<>> \in Seq(Replies)
      /\ Append(<<>>, "unavailable") = <<"unavailable">>
      /\ Append(<<>>, "invalid") = <<"invalid">>
  OBVIOUS
<1>2. ASSUME NEW x \in Replies, NEW y \in Replies
      PROVE  Append(<<x>>, y) = <<x, y>>
  <2>1. <<x>> \in Seq(Replies) /\ <<x, y>> \in Seq(Replies)
    OBVIOUS
  <2>2. Append(<<x>>, y) \in Seq(Replies) /\ Len(Append(<<x>>, y)) = 2
        /\ Append(<<x>>, y)[1] = x /\ Append(<<x>>, y)[2] = y
    BY <2>1, AppendProperties
  <2>3. Len(<<x, y>>) = 2 /\ \A i \in 1 .. 2 : Append(<<x>>, y)[i] = <<x, y>>[i]
    BY <2>2
  <2> QED
    BY <2>1, <2>2, <2>3, SeqEqual, Zenon
<1>3. ASSUME NEW x \in Replies, NEW y \in Replies, NEW z \in Replies
      PROVE  Append(<<x, y>>, z) = <<x, y, z>>
  <2>1. <<x, y>> \in Seq(Replies) /\ <<x, y, z>> \in Seq(Replies)
    OBVIOUS
  <2>2. Append(<<x, y>>, z) \in Seq(Replies) /\ Len(Append(<<x, y>>, z)) = 3
        /\ Append(<<x, y>>, z)[1] = x /\ Append(<<x, y>>, z)[2] = y
        /\ Append(<<x, y>>, z)[3] = z
    BY <2>1, AppendProperties
  <2>3. Len(<<x, y, z>>) = 3 /\ \A i \in 1 .. 3 : Append(<<x, y>>, z)[i] = <<x, y, z>>[i]
    BY <2>2
  <2> QED
    BY <2>1, <2>2, <2>3, SeqEqual, Zenon
<1>4. {"unavailable", "invalid"} \subseteq Replies
  BY DEF Replies
<1> QED
  BY <1>1, <1>2, <1>3, <1>4

LEMMA ReplyKeepsRunner ==
    ASSUME RunnerInv, NEW c \in Callers, NEW reply \in Replies, Reply(c, reply)
    PROVE  RunnerInv'
<1>1. /\ run[c].at \in Generating \union Repairing
      /\ run[c].replies \in Seq(Replies)
      /\ Brought(run[c].at, run[c].replies)
  BY DEF Reply, Running, RunnerInv, RunnerTypeOK
<1> DEFINE next == NextPoint(run[c].at, reply)
           replies == IF next \in Outcomes THEN <<>> ELSE Append(run[c].replies, reply)
<1>2. run' = [run EXCEPT ![c] = [at |-> next, replies |-> replies]]
  BY DEF Reply, RunnerInv, RunnerTypeOK
<1>3. \A r \in Seq(Replies) : Append(r, reply) \in Seq(Replies)
  OBVIOUS
<1>4. next \in Points /\ replies \in Seq(Replies) /\ Brought(next, replies)
  <2>1. CASE next \in Outcomes
    <3>1. replies = <<>> /\ next \in Points
      BY <2>1 DEF Points
    <3>2. Brought(next, <<>>)
      BY <2>1 DEF Brought, Outcomes
    <3> QED
      BY <3>1, <3>2, Appended
  <2>2. CASE run[c].at \in Generating /\ reply = "unavailable" /\ next = "generating again"
    <3>1. run[c].at = "generating"
      BY <2>2, NextPoints DEF Generating, Outcomes
    <3>2. replies = Append(<<>>, "unavailable")
      BY <1>1, <2>2, <3>1 DEF Brought, Outcomes
    <3>3. replies = <<"unavailable">>
      BY <3>2, Appended
    <3> QED
      BY <1>1, <1>3, <2>2, <3>3 DEF Brought, Points, Generating, Outcomes
  <2>3. CASE run[c].at \in Generating /\ reply = "invalid" /\ next = "repairing"
    <3>1. replies = Append(run[c].replies, "invalid")
      BY <2>3 DEF Outcomes
    <3>2. run[c].replies = <<>> \/ run[c].replies = <<"unavailable">>
      BY <1>1, <2>3 DEF Brought, Generating
    <3>3. replies = <<"invalid">> \/ replies = <<"unavailable", "invalid">>
      <4> HIDE DEF replies
      <4> QED
        BY <3>1, <3>2, Appended
    <3> QED
      BY <1>1, <1>3, <2>3, <3>1, <3>3 DEF Brought, Points, Repairing
  <2>4. CASE run[c].at = "repairing" /\ reply = "unavailable" /\ next = "repairing again"
    <3>1. replies = Append(run[c].replies, "unavailable")
      BY <2>4 DEF Outcomes
    <3>2. run[c].replies = <<"invalid">> \/ run[c].replies = <<"unavailable", "invalid">>
      BY <1>1, <2>4 DEF Brought
    <3>3. \/ replies = <<"invalid", "unavailable">>
          \/ replies = <<"unavailable", "invalid", "unavailable">>
      <4> HIDE DEF replies
      <4> QED
        BY <3>1, <3>2, Appended
    <3> QED
      BY <1>1, <1>3, <2>4, <3>1, <3>3 DEF Brought, Points, Repairing
  <2> QED
    BY <1>1, <2>1, <2>2, <2>3, <2>4, NextPoints DEF Generating, Repairing
<1> QED
  BY <1>2, <1>4, RunReplaced

\* Counting in the six sequences that occur.
LEMMA RepliesCounted ==
    /\ Count(<<>>, "invalid") = 0 /\ Count(<<>>, "unavailable") = 0
    /\ Count(<<"unavailable">>, "invalid") = 0
    /\ Count(<<"unavailable">>, "unavailable") = 1
    /\ Count(<<"invalid">>, "invalid") = 1
    /\ Count(<<"invalid">>, "unavailable") = 0
    /\ Count(<<"unavailable", "invalid">>, "invalid") = 1
    /\ Count(<<"unavailable", "invalid">>, "unavailable") = 1
    /\ Count(<<"invalid", "unavailable">>, "invalid") = 1
    /\ Count(<<"invalid", "unavailable">>, "unavailable") = 1
    /\ Count(<<"unavailable", "invalid", "unavailable">>, "invalid") = 1
    /\ Count(<<"unavailable", "invalid", "unavailable">>, "unavailable") = 2
<1>1. /\ DOMAIN <<>> = {} /\ DOMAIN <<"unavailable">> = {1} /\ DOMAIN <<"invalid">> = {1}
      /\ DOMAIN <<"unavailable", "invalid">> = {1, 2}
      /\ DOMAIN <<"invalid", "unavailable">> = {1, 2}
      /\ DOMAIN <<"unavailable", "invalid", "unavailable">> = {1, 2, 3}
  OBVIOUS
<1> DEFINE At(replies, reply) == {i \in DOMAIN replies : replies[i] = reply}
<1>2. /\ At(<<>>, "invalid") = {} /\ At(<<>>, "unavailable") = {}
      /\ At(<<"unavailable">>, "invalid") = {} /\ At(<<"unavailable">>, "unavailable") = {1}
      /\ At(<<"invalid">>, "invalid") = {1} /\ At(<<"invalid">>, "unavailable") = {}
  BY <1>1
<1>3. /\ At(<<"unavailable", "invalid">>, "invalid") = {2}
      /\ At(<<"unavailable", "invalid">>, "unavailable") = {1}
      /\ At(<<"invalid", "unavailable">>, "invalid") = {1}
      /\ At(<<"invalid", "unavailable">>, "unavailable") = {2}
  BY <1>1
<1>4. /\ At(<<"unavailable", "invalid", "unavailable">>, "invalid") = {2}
      /\ At(<<"unavailable", "invalid", "unavailable">>, "unavailable") = {1} \union {3}
  BY <1>1
<1>5. /\ Cardinality({}) = 0 /\ Cardinality({1}) = 1 /\ Cardinality({2}) = 1
      /\ IsFiniteSet({1})
  BY FS_EmptySet, FS_Singleton
<1>6. Cardinality({1} \union {3}) = 2
  <2>1. 3 \notin {1}
    OBVIOUS
  <2> QED
    BY <1>5, <2>1, FS_AddElement
<1> QED
  BY <1>2, <1>3, <1>4, <1>5, <1>6 DEF Count

LEMMA RunnerJustified == RunnerInv => CallsJustified
<1> SUFFICES ASSUME RunnerInv, NEW c \in Callers, Running(c)
             PROVE  LET replies == run[c].replies
                    IN  /\ Len(replies) <= 3
                        /\ \A i \in DOMAIN replies : replies[i] \in {"unavailable", "invalid"}
                        /\ Count(replies, "invalid") = IF run[c].at \in Repairing THEN 1 ELSE 0
                        /\ Count(replies, "unavailable") <= Count(replies, "invalid") + 1
  BY DEF CallsJustified
<1>1. Brought(run[c].at, run[c].replies)
  BY DEF RunnerInv
<1>2. CASE run[c].at \in Generating
  <2>1. run[c].at \notin Repairing
    BY <1>2 DEF Generating, Repairing
  <2>2. \/ run[c].replies = <<>>
        \/ run[c].replies = <<"unavailable">>
    BY <1>1, <1>2 DEF Brought, Generating
  <2> QED
    BY <2>1, <2>2, RepliesCounted
<1>3. CASE run[c].at \in Repairing
  <2>1. \/ run[c].replies = <<"invalid">>
        \/ run[c].replies = <<"unavailable", "invalid">>
        \/ run[c].replies = <<"invalid", "unavailable">>
        \/ run[c].replies = <<"unavailable", "invalid", "unavailable">>
    BY <1>1, <1>3 DEF Brought, Repairing
  <2>2. ASSUME NEW replies, replies = run[c].replies
        PROVE  /\ Len(replies) <= 3
               /\ \A i \in DOMAIN replies : replies[i] \in {"unavailable", "invalid"}
    <3>1. CASE Len(replies) = 1 /\ replies = <<"invalid">>
      BY <3>1
    <3>2. CASE replies = <<"unavailable", "invalid">>
      BY <3>2
    <3>3. CASE replies = <<"invalid", "unavailable">>
      BY <3>3
    <3>4. CASE replies = <<"unavailable", "invalid", "unavailable">>
      BY <3>4
    <3> QED
      BY <2>1, <2>2, <3>1, <3>2, <3>3, <3>4
  <2>3. /\ Count(run[c].replies, "invalid") = 1
        /\ Count(run[c].replies, "unavailable") <= 2
    BY <2>1, RepliesCounted
  <2> QED
    BY <1>3, <2>2, <2>3
<1> QED
  BY <1>2, <1>3 DEF Running

-----------------------------------------------------------------------------
(* The score, for every output the validator accepts and every set of      *)
(* detected sections.                                                      *)

LEMMA MinOfTwo ==
    ASSUME NEW x \in Int, NEW y \in Int
    PROVE  Min({x, y}) = IF x <= y THEN x ELSE y
<1>1. \E m \in {x, y} : \A z \in {x, y} : m <= z
  OBVIOUS
<1>2. Min({x, y}) \in {x, y} /\ \A z \in {x, y} : Min({x, y}) <= z
  BY <1>1 DEF Min
<1> QED
  BY <1>2

LEMMA MaxOfTwo ==
    ASSUME NEW x \in Int, NEW y \in Int
    PROVE  Max({x, y}) = IF x >= y THEN x ELSE y
<1>1. \E m \in {x, y} : \A z \in {x, y} : m >= z
  OBVIOUS
<1>2. Max({x, y}) \in {x, y} /\ \A z \in {x, y} : Max({x, y}) >= z
  BY <1>1 DEF Max
<1> QED
  BY <1>2

LEMMA VerifiedCounts ==
    ASSUME NEW evidence \in Seq(Quotes)
    PROVE  VerifiedEvidence(evidence) \in Nat
<1>1. IsFiniteSet(1 .. Len(evidence)) /\ DOMAIN evidence = 1 .. Len(evidence)
  <2>1. Len(evidence) \in Int /\ 1 \in Int
    OBVIOUS
  <2> QED
    BY <2>1, FS_Interval
<1>2. {i \in DOMAIN evidence : evidence[i] = "verbatim"} \subseteq 1 .. Len(evidence)
  BY <1>1
<1> QED
  BY <1>1, <1>2, FS_Subset, FS_CardinalityType DEF VerifiedEvidence

LEMMA DeductionBounded == \A present : StructuralDeduction(present) \in 0 .. 12
<1> SUFFICES ASSUME NEW present PROVE StructuralDeduction(present) \in 0 .. 12
  OBVIOUS
<1>1. IsFiniteSet(CoreSections)
  <2>1. IsFiniteSet({})
    BY FS_EmptySet
  <2>2. IsFiniteSet({"SUMMARY"}) /\ IsFiniteSet({"EDUCATION"}) /\ IsFiniteSet({"SKILLS"})
        /\ IsFiniteSet({"EXPERIENCE"}) /\ IsFiniteSet({"PROJECTS"})
    BY FS_Singleton
  <2>3. CoreSections = ((({"SUMMARY"} \union {"EDUCATION"}) \union {"SKILLS"})
                          \union {"EXPERIENCE"}) \union {"PROJECTS"}
    BY DEF CoreSections
  <2>4. \A S, T : IsFiniteSet(S) /\ IsFiniteSet(T) => IsFiniteSet(S \union T)
    BY FS_Union
  <2> QED
    BY <2>2, <2>3, <2>4, Zenon
<1>2. Cardinality(CoreSections \ present) \in Nat
  <2>1. CoreSections \ present \subseteq CoreSections
    OBVIOUS
  <2> QED
    BY <1>1, <2>1, FS_Subset, FS_CardinalityType
<1> QED
  BY <1>2, MinOfTwo DEF StructuralDeduction

\* Two numbers on the scale, and what a deduction leaves of one.
LEMMA Capping ==
    ASSUME NEW a \in 0 .. 100, NEW cap \in 40 .. 100
    PROVE  Min({a, cap}) = (IF a <= cap THEN a ELSE cap) /\ Min({a, cap}) \in 0 .. 100
<1>1. a \in Int /\ cap \in Int
  OBVIOUS
<1>2. Min({a, cap}) = IF a <= cap THEN a ELSE cap
  BY <1>1, MinOfTwo
<1> QED
  BY <1>2

LEMMA CappingMonotone ==
    ASSUME NEW a \in 0 .. 100, NEW cap \in 40 .. 100,
           NEW b \in 0 .. 100, NEW other \in 40 .. 100, a >= b, cap >= other
    PROVE  Min({a, cap}) >= Min({b, other})
<1>1. /\ Min({a, cap}) = IF a <= cap THEN a ELSE cap
      /\ Min({b, other}) = IF b <= other THEN b ELSE other
  BY Capping
<1> QED
  BY <1>1

LEMMA Deducting ==
    ASSUME NEW a \in 0 .. 100, NEW d \in 0 .. 12
    PROVE  Max({0, a - d}) = (IF a <= d THEN 0 ELSE a - d) /\ Max({0, a - d}) \in 0 .. 100
<1>1. 0 \in Int /\ a - d \in Int
  OBVIOUS
<1>2. Max({0, a - d}) = IF 0 >= a - d THEN 0 ELSE a - d
  BY <1>1, MaxOfTwo
<1> QED
  BY <1>2

\* An adjusted score lies on the scale, and grows with the model's score and
\* with the verified evidence.
LEMMA AdjustedOnScale ==
    ASSUME NEW c \in Categories, NEW x \in [score : 0 .. 100, evidence : Seq(Quotes)],
           NEW present
    PROVE  Adjusted(c, x, present) \in 0 .. 100
<1>1. /\ x.score \in 0 .. 100 /\ VerifiedEvidence(x.evidence) \in Nat
      /\ StructuralDeduction(present) \in 0 .. 12
  BY VerifiedCounts, DeductionBounded
<1> DEFINE cap == EvidenceCap(VerifiedEvidence(x.evidence))
           d   == IF c = "RESUME_STRUCTURE" THEN StructuralDeduction(present) ELSE 0
<1>2. cap \in 40 .. 100 /\ d \in 0 .. 12
  BY <1>1 DEF EvidenceCap
<1>3. Adjusted(c, x, present) = Max({0, Min({x.score, cap}) - d})
  BY DEF Adjusted
<1> HIDE DEF cap, d
<1> QED
  BY <1>1, <1>2, <1>3, Capping, Deducting

LEMMA AdjustedMonotone ==
    ASSUME NEW c \in Categories,
           NEW x \in [score : 0 .. 100, evidence : Seq(Quotes)],
           NEW y \in [score : 0 .. 100, evidence : Seq(Quotes)],
           x.score >= y.score, VerifiedEvidence(x.evidence) >= VerifiedEvidence(y.evidence),
           NEW present
    PROVE  Adjusted(c, x, present) >= Adjusted(c, y, present)
<1> DEFINE capX == EvidenceCap(VerifiedEvidence(x.evidence))
           capY == EvidenceCap(VerifiedEvidence(y.evidence))
           d    == IF c = "RESUME_STRUCTURE" THEN StructuralDeduction(present) ELSE 0
<1>1. /\ x.score \in 0 .. 100 /\ VerifiedEvidence(x.evidence) \in Nat
      /\ y.score \in 0 .. 100 /\ VerifiedEvidence(y.evidence) \in Nat
      /\ d \in 0 .. 12
  BY VerifiedCounts, DeductionBounded
<1>2. capX \in 40 .. 100 /\ capY \in 40 .. 100 /\ capX >= capY
  BY <1>1 DEF EvidenceCap
<1>3. /\ Adjusted(c, x, present) = Max({0, Min({x.score, capX}) - d})
      /\ Adjusted(c, y, present) = Max({0, Min({y.score, capY}) - d})
  BY DEF Adjusted
<1> HIDE DEF capX, capY, d
<1>4. /\ Min({x.score, capX}) = IF x.score <= capX THEN x.score ELSE capX
      /\ Min({y.score, capY}) = IF y.score <= capY THEN y.score ELSE capY
      /\ Min({x.score, capX}) \in 0 .. 100 /\ Min({y.score, capY}) \in 0 .. 100
  BY <1>1, <1>2, Capping
<1>5. Min({x.score, capX}) >= Min({y.score, capY})
  BY <1>1, <1>2, CappingMonotone
<1> DEFINE lowX == Min({x.score, capX})
           lowY == Min({y.score, capY})
<1>6. /\ Adjusted(c, x, present) = IF lowX <= d THEN 0 ELSE lowX - d
      /\ Adjusted(c, y, present) = IF lowY <= d THEN 0 ELSE lowY - d
  BY <1>1, <1>3, <1>4, Deducting
<1>7. lowX \in 0 .. 100 /\ lowY \in 0 .. 100 /\ lowX >= lowY
  BY <1>4, <1>5
<1> HIDE DEF lowX, lowY
<1> QED
  BY <1>1, <1>6, <1>7

\* The five categories that always apply weigh 65 percent.
LEMMA Shares ==
    ASSUME NEW present
    PROVE  /\ Applicable(present) \subseteq Categories
           /\ \A c \in Categories : Weight[c] \in {10, 15, 20}
           /\ \A c \in Categories : Share(present)[c] =
                 IF c \in Applicable(present) THEN Weight[c] ELSE 0
           /\ Categories = {"CONTENT_QUALITY", "EXPERIENCE_IMPACT", "SKILLS_RELEVANCE",
                            "PROJECT_QUALITY", "RESUME_STRUCTURE", "ATS_COMPATIBILITY",
                            "EVIDENCE_QUANTIFICATION"}
           /\ Share(present)["CONTENT_QUALITY"] = 20 /\ Share(present)["SKILLS_RELEVANCE"] = 15
           /\ Share(present)["RESUME_STRUCTURE"] = 10 /\ Share(present)["ATS_COMPATIBILITY"] = 10
           /\ Share(present)["EVIDENCE_QUANTIFICATION"] = 10
           /\ Share(present)["EXPERIENCE_IMPACT"] \in {0, 20}
           /\ Share(present)["PROJECT_QUALITY"] \in {0, 15}
           /\ WeightSum(present) \in 65 .. 100
<1>1. /\ Categories = {"CONTENT_QUALITY", "EXPERIENCE_IMPACT", "SKILLS_RELEVANCE",
                       "PROJECT_QUALITY", "RESUME_STRUCTURE", "ATS_COMPATIBILITY",
                       "EVIDENCE_QUANTIFICATION"}
      /\ Weight["CONTENT_QUALITY"] = 20 /\ Weight["EXPERIENCE_IMPACT"] = 20
      /\ Weight["SKILLS_RELEVANCE"] = 15 /\ Weight["PROJECT_QUALITY"] = 15
      /\ Weight["RESUME_STRUCTURE"] = 10 /\ Weight["ATS_COMPATIBILITY"] = 10
      /\ Weight["EVIDENCE_QUANTIFICATION"] = 10
  BY DEF Categories, Weight
<1>2. \A c \in Categories : Share(present)[c] = IF c \in Applicable(present) THEN Weight[c] ELSE 0
  BY DEF Share
<1>3. Applicable(present) \subseteq Categories
  BY DEF Applicable
<1>4. {"CONTENT_QUALITY", "SKILLS_RELEVANCE", "RESUME_STRUCTURE", "ATS_COMPATIBILITY",
       "EVIDENCE_QUANTIFICATION"} \subseteq Applicable(present)
  BY <1>1 DEF Applicable
<1>5. /\ Share(present)["CONTENT_QUALITY"] = 20 /\ Share(present)["SKILLS_RELEVANCE"] = 15
      /\ Share(present)["RESUME_STRUCTURE"] = 10 /\ Share(present)["ATS_COMPATIBILITY"] = 10
      /\ Share(present)["EVIDENCE_QUANTIFICATION"] = 10
      /\ Share(present)["EXPERIENCE_IMPACT"] \in {0, 20}
      /\ Share(present)["PROJECT_QUALITY"] \in {0, 15}
  BY <1>1, <1>2, <1>4
<1>6. WeightSum(present) \in 65 .. 100
  BY <1>5 DEF WeightSum, SumOf
<1> QED
  BY <1>1, <1>2, <1>3, <1>5, <1>6

\* Weighing keeps the order.
LEMMA Weighed ==
    ASSUME NEW w \in {0, 10, 15, 20}, NEW a \in Int, NEW b \in Int, a <= b
    PROVE  w * a \in Int /\ w * b \in Int /\ w * a <= w * b
<1>1. CASE w = 0
  BY <1>1
<1>2. CASE w = 10
  BY <1>2
<1>3. CASE w = 15
  BY <1>3
<1>4. CASE w = 20
  BY <1>4
<1> QED
  BY <1>1, <1>2, <1>3, <1>4

\* A constant in every category.
LEMMA WeighedConstant ==
    ASSUME NEW present, NEW a \in Int
    PROVE  SumOf([c \in Categories |-> Share(present)[c] * a]) = a * WeightSum(present)
<1> DEFINE flat == [c \in Categories |-> Share(present)[c] * a]
           experience == Share(present)["EXPERIENCE_IMPACT"]
           project == Share(present)["PROJECT_QUALITY"]
<1>1. /\ flat["CONTENT_QUALITY"] = 20 * a /\ flat["SKILLS_RELEVANCE"] = 15 * a
      /\ flat["RESUME_STRUCTURE"] = 10 * a /\ flat["ATS_COMPATIBILITY"] = 10 * a
      /\ flat["EVIDENCE_QUANTIFICATION"] = 10 * a
      /\ flat["EXPERIENCE_IMPACT"] = experience * a
      /\ flat["PROJECT_QUALITY"] = project * a
  BY Shares
<1>2. experience \in {0, 20} /\ project \in {0, 15}
  BY Shares
<1>3. SumOf(flat) = 65 * a + experience * a + project * a
  <2> HIDE DEF flat, experience, project
  <2>1. experience * a \in Int /\ project * a \in Int
    BY <1>2
  <2> QED
    BY <1>1, <2>1 DEF SumOf
<1>4. WeightSum(present) = 65 + experience + project
  BY Shares DEF WeightSum, SumOf
<1>5. a * WeightSum(present) = 65 * a + experience * a + project * a
  <2> HIDE DEF experience, project
  <2>1. CASE experience = 0 /\ project = 0
    BY <1>4, <2>1
  <2>2. CASE experience = 0 /\ project = 15
    BY <1>4, <2>2
  <2>3. CASE experience = 20 /\ project = 0
    BY <1>4, <2>3
  <2>4. CASE experience = 20 /\ project = 15
    BY <1>4, <2>4
  <2> QED
    BY <1>2, <2>1, <2>2, <2>3, <2>4
<1> QED
  BY <1>3, <1>5

\* What each category contributes.
LEMMA Contributions ==
    ASSUME NEW output, InputsValid(output), NEW present
    PROVE  LET part == [c \in Categories |-> Share(present)[c] * Adjusted(c, output[c], present)]
           IN  /\ part \in [Categories -> Nat]
               /\ WeightedSum(output, present) = SumOf(part)
               /\ SumOf(part) \in Nat
<1> DEFINE part == [c \in Categories |-> Share(present)[c] * Adjusted(c, output[c], present)]
<1>1. ASSUME NEW c \in Categories PROVE part[c] \in Nat
  <2>1. Share(present)[c] \in {0, 10, 15, 20}
    BY Shares
  <2>2. Adjusted(c, output[c], present) \in 0 .. 100
    BY AdjustedOnScale, ZenonT(30) DEF InputsValid
  <2> QED
    BY <2>1, <2>2
<1>2. SumOf(part) \in Nat
  BY <1>1, Shares DEF SumOf
<1> QED
  BY <1>1, <1>2 DEF WeightedSum

\* Sums are compared category by category.
LEMMA SumsCompare ==
    ASSUME NEW f, NEW g, \A c \in Categories : f[c] \in Int /\ g[c] \in Int /\ f[c] <= g[c]
    PROVE  SumOf(f) <= SumOf(g)
  BY Shares DEF SumOf

\* A bound on every applicable category bounds the average.
LEMMA AverageBetween ==
    ASSUME NEW output, InputsValid(output), NEW present, NEW low \in Nat,
           \A c \in Applicable(present) : Adjusted(c, output[c], present) >= low
    PROVE  WeightedSum(output, present) >= low * WeightSum(present)
<1> DEFINE part == [c \in Categories |-> Share(present)[c] * Adjusted(c, output[c], present)]
           flat == [c \in Categories |-> Share(present)[c] * low]
<1>1. ASSUME NEW c \in Categories
      PROVE  flat[c] \in Int /\ part[c] \in Int /\ flat[c] <= part[c]
  <2>1. Share(present)[c] \in {0, 10, 15, 20} /\ (Share(present)[c] # 0 => c \in Applicable(present))
    BY Shares
  <2>2. Adjusted(c, output[c], present) \in 0 .. 100
    BY AdjustedOnScale, ZenonT(30) DEF InputsValid
  <2>3. CASE c \in Applicable(present)
    <3>1. Adjusted(c, output[c], present) \in Int
      BY <2>2
    <3> QED
      BY <2>1, <2>3, <3>1, Weighed
  <2>4. CASE Share(present)[c] = 0
    BY <2>2, <2>4
  <2> QED
    BY <2>1, <2>3, <2>4
<1>2. SumOf(flat) <= SumOf(part)
  BY <1>1, SumsCompare
<1>3. SumOf(flat) = low * WeightSum(present)
  BY WeighedConstant
<1> QED
  BY <1>2, <1>3, Contributions

LEMMA AverageBelow ==
    ASSUME NEW output, InputsValid(output), NEW present, NEW high \in Int,
           \A c \in Applicable(present) : Adjusted(c, output[c], present) <= high
    PROVE  WeightedSum(output, present) <= high * WeightSum(present)
<1> DEFINE part == [c \in Categories |-> Share(present)[c] * Adjusted(c, output[c], present)]
           flat == [c \in Categories |-> Share(present)[c] * high]
<1>1. ASSUME NEW c \in Categories
      PROVE  flat[c] \in Int /\ part[c] \in Int /\ part[c] <= flat[c]
  <2>1. Share(present)[c] \in {0, 10, 15, 20} /\ (Share(present)[c] # 0 => c \in Applicable(present))
    BY Shares
  <2>2. Adjusted(c, output[c], present) \in 0 .. 100
    BY AdjustedOnScale, ZenonT(30) DEF InputsValid
  <2>3. CASE c \in Applicable(present)
    <3>1. Adjusted(c, output[c], present) \in Int
      BY <2>2
    <3> QED
      BY <2>1, <2>3, <3>1, Weighed
  <2>4. CASE Share(present)[c] = 0
    BY <2>2, <2>4
  <2> QED
    BY <2>1, <2>3, <2>4
<1>2. SumOf(part) <= SumOf(flat)
  BY <1>1, SumsCompare
<1>3. SumOf(flat) = high * WeightSum(present)
  BY WeighedConstant
<1> QED
  BY <1>2, <1>3, Contributions

\* Rounding to the nearest integer does not leave the range of the parts.
LEMMA ScoreBetween ==
    ASSUME NEW output, InputsValid(output), NEW present,
           NEW s \in OverallScores(output, present)
    PROVE  \E worst, best \in Applicable(present) :
               /\ Adjusted(worst, output[worst], present) <= s
               /\ s <= Adjusted(best, output[best], present)
<1> DEFINE sum == WeightedSum(output, present)
           weight == WeightSum(present)
<1>1. /\ s \in 0 .. 100 /\ sum \in Nat /\ weight \in 65 .. 100
      /\ 2 * sum - weight <= 2 * weight * s /\ 2 * weight * s <= 2 * sum + weight
  BY Shares, Contributions DEF OverallScores
<1>2. \A c \in Applicable(present) : Adjusted(c, output[c], present) \in 0 .. 100
  BY Shares, AdjustedOnScale DEF InputsValid
<1>3. \E worst \in Applicable(present) : Adjusted(worst, output[worst], present) <= s
  <2> SUFFICES ASSUME \A c \in Applicable(present) : Adjusted(c, output[c], present) >= s + 1
               PROVE  FALSE
    BY <1>1, <1>2
  <2>1. sum >= (s + 1) * weight
    BY <1>1, AverageBetween
  <2>2. (s + 1) * weight = s * weight + weight
    BY <1>1
  <2> HIDE DEF sum, weight
  <2> QED
    BY <1>1, <2>1, <2>2
<1>4. \E best \in Applicable(present) : s <= Adjusted(best, output[best], present)
  <2> SUFFICES ASSUME \A c \in Applicable(present) : Adjusted(c, output[c], present) <= s - 1
               PROVE  FALSE
    BY <1>1, <1>2
  <2>1. sum <= (s - 1) * weight
    BY <1>1, AverageBelow
  <2>2. (s - 1) * weight = s * weight - weight
    BY <1>1
  <2> HIDE DEF sum, weight
  <2> QED
    BY <1>1, <2>1, <2>2
<1> QED
  BY <1>3, <1>4

LEMMA BetterScores ==
    ASSUME NEW x, NEW y, InputsValid(x), InputsValid(y), AtLeast(x, y), NEW present,
           WeightedSum(x, present) # WeightedSum(y, present),
           NEW s \in OverallScores(x, present), NEW t \in OverallScores(y, present)
    PROVE  s >= t
<1> DEFINE sumX == WeightedSum(x, present)
           sumY == WeightedSum(y, present)
           weight == WeightSum(present)
           partX == [c \in Categories |-> Share(present)[c] * Adjusted(c, x[c], present)]
           partY == [c \in Categories |-> Share(present)[c] * Adjusted(c, y[c], present)]
<1>1. ASSUME NEW c \in Categories
      PROVE  partX[c] \in Int /\ partY[c] \in Int /\ partY[c] <= partX[c]
  <2>1. Share(present)[c] \in {0, 10, 15, 20}
    BY Shares
  <2>2. /\ Adjusted(c, x[c], present) \in 0 .. 100 /\ Adjusted(c, y[c], present) \in 0 .. 100
        /\ Adjusted(c, x[c], present) >= Adjusted(c, y[c], present)
    BY AdjustedOnScale, AdjustedMonotone DEF InputsValid, AtLeast
  <2>3. Adjusted(c, x[c], present) \in Int /\ Adjusted(c, y[c], present) \in Int
    BY <2>2
  <2> QED
    BY <2>1, <2>2, <2>3, Weighed
<1>2. SumOf(partY) <= SumOf(partX)
  BY <1>1, SumsCompare
<1>3. sumX \in Nat /\ sumY \in Nat /\ sumX >= sumY + 1
  <2>1. sumX = SumOf(partX) /\ sumY = SumOf(partY) /\ SumOf(partX) \in Nat /\ SumOf(partY) \in Nat
    BY Contributions
  <2> QED
    BY <1>2, <2>1
<1>4. /\ s \in 0 .. 100 /\ t \in 0 .. 100 /\ weight \in 65 .. 100
      /\ 2 * sumX - weight <= 2 * weight * s /\ 2 * weight * t <= 2 * sumY + weight
  BY Shares DEF OverallScores
<1> SUFFICES ASSUME t >= s + 1 PROVE FALSE
  BY <1>4
<1>5. weight * t >= weight * s + weight
  <2> HIDE DEF weight
  <2>1. weight * (t - s - 1) >= 0
    BY <1>4
  <2>2. weight * (t - s - 1) = weight * t - weight * s - weight
    BY <1>4
  <2> QED
    BY <1>4, <2>1, <2>2
<1> HIDE DEF sumX, sumY, weight
<1> QED
  BY <1>3, <1>4, <1>5

-----------------------------------------------------------------------------
(* The rows.                                                               *)

ParentsInv ==
    /\ RowsHaveParents
    /\ \A a \in analyses : a = [id |-> a.id, status |-> a.status, context |-> a.context,
                                output |-> a.output, score |-> a.score]

LEMMA ParentsKept ==
    ASSUME ParentsInv, Next
    PROVE  ParentsInv'
<1>1. ASSUME UNCHANGED <<analyses, jobContext>>, resume # "deleted" => resume' # "deleted"
      PROVE  ParentsInv'
  BY <1>1 DEF ParentsInv, RowsHaveParents
<1>2. ASSUME NEW c \in Callers, NEW status, NEW output, NEW score, ParentsExist(c),
             analyses' = analyses \union {Row(c, status, output, score)},
             UNCHANGED <<resume, jobContext>>
      PROVE  ParentsInv'
  <2>1. Row(c, status, output, score).context => jobContext
    BY <1>2 DEF Row, ParentsExist
  <2> QED
    BY <1>2, <2>1 DEF ParentsInv, RowsHaveParents, ParentsExist, Row
<1>3. ASSUME NEW c \in Callers, NEW output \in Outputs, SaveCompleted(c, output)
      PROVE  ParentsInv'
  BY <1>2, <1>3 DEF SaveCompleted, EndRequest
<1>4. ASSUME NEW c \in Callers, SaveFailed(c)
      PROVE  ParentsInv'
  BY <1>2, <1>4 DEF SaveFailed, EndRequest
<1>5. CASE DeleteResume
  BY <1>5 DEF DeleteResume, ParentsInv, RowsHaveParents
<1>6. CASE DeleteJobContext
  <2>1. ASSUME NEW b \in analyses'
        PROVE  /\ b = [id |-> b.id, status |-> b.status, context |-> b.context,
                       output |-> b.output, score |-> b.score]
               /\ b.context = FALSE
    <3>1. PICK a \in analyses : b = [a EXCEPT !.context = FALSE]
      BY <1>6 DEF DeleteJobContext
    <3>2. a = [id |-> a.id, status |-> a.status, context |-> a.context,
               output |-> a.output, score |-> a.score]
      BY DEF ParentsInv
    <3> QED
      BY <3>1, <3>2
  <2>2. analyses' # {} => resume' # "deleted"
    BY <1>6 DEF DeleteJobContext, ParentsInv, RowsHaveParents
  <2> QED
    BY <2>1, <2>2 DEF ParentsInv, RowsHaveParents
<1>7. CASE ExtractAgain \/ PassTime
  BY <1>1, <1>7 DEF ExtractAgain, PassTime, analysisVars
<1>8. ASSUME NEW c \in Callers,
             \/ RefuseRequest(c)
             \/ \E withContext \in BOOLEAN : RejectRequest(c, withContext)
                                             \/ BeginRequest(c, withContext)
             \/ \E reply \in Replies : ProviderReplies(c, reply) \/ Propagate(c, reply)
             \/ SaveRefused(c) \/ Abort(c)
      PROVE  ParentsInv'
  BY <1>1, <1>8 DEF RefuseRequest, RejectRequest, BeginRequest, ProviderReplies, Propagate,
                    SaveRefused, Abort, EndRequest, analysisVars
<1> QED
  BY <1>3, <1>4, <1>5, <1>6, <1>7, <1>8 DEF Next, Serve

\* A completed row holds a score of its output.  The sections it was computed
\* from are the resume's for good.
ScoredInv == \A a \in analyses : a.status = "COMPLETED" =>
                 a.output \in Outputs /\ a.score \in OverallScores(a.output, sections)

LEMMA ScoredKept ==
    ASSUME ParentsInv, ScoredInv, Next
    PROVE  ScoredInv'
<1>1. sections' = sections
  BY DEF Next, Serve, RefuseRequest, RejectRequest, BeginRequest, ProviderReplies, Propagate,
         SaveCompleted, SaveFailed, SaveRefused, Abort, EndRequest, ExtractAgain,
         DeleteResume, DeleteJobContext, PassTime, analysisVars
<1>2. ASSUME analyses' \subseteq analyses
      PROVE  ScoredInv'
  BY <1>1, <1>2 DEF ScoredInv
<1>3. ASSUME NEW c \in Callers, NEW output \in Outputs, SaveCompleted(c, output)
      PROVE  ScoredInv'
  <2>1. PICK score \in OverallScores(output, sections) :
            analyses' = analyses \union {Row(c, "COMPLETED", output, score)}
    BY <1>3 DEF SaveCompleted
  <2>2. Row(c, "COMPLETED", output, score).output = output
        /\ Row(c, "COMPLETED", output, score).score = score
    BY DEF Row
  <2> QED
    BY <1>1, <2>1, <2>2 DEF ScoredInv
<1>4. ASSUME NEW c \in Callers, SaveFailed(c)
      PROVE  ScoredInv'
  <2>1. analyses' = analyses \union {Row(c, "AI_ANALYSIS_FAILED", <<>>, -1)}
    BY <1>4 DEF SaveFailed
  <2>2. Row(c, "AI_ANALYSIS_FAILED", <<>>, -1).status # "COMPLETED"
    BY DEF Row
  <2> QED
    BY <1>1, <2>1, <2>2 DEF ScoredInv
<1>5. CASE DeleteJobContext
  <2>1. ASSUME NEW b \in analyses', b.status = "COMPLETED"
        PROVE  b.output \in Outputs /\ b.score \in OverallScores(b.output, sections)
    <3>1. PICK a \in analyses : b = [a EXCEPT !.context = FALSE]
      BY <1>5 DEF DeleteJobContext
    <3>2. a = [id |-> a.id, status |-> a.status, context |-> a.context,
               output |-> a.output, score |-> a.score]
      BY DEF ParentsInv
    <3>3. b.status = a.status /\ b.output = a.output /\ b.score = a.score
      BY <3>1, <3>2
    <3> QED
      BY <2>1, <3>3 DEF ScoredInv
  <2> QED
    BY <1>1, <2>1 DEF ScoredInv
<1>6. CASE DeleteResume
  BY <1>2, <1>6 DEF DeleteResume
<1>7. CASE UNCHANGED analyses
  BY <1>2, <1>7
<1> QED
  BY <1>3, <1>4, <1>5, <1>6, <1>7
     DEF Next, Serve, RefuseRequest, RejectRequest, BeginRequest, ProviderReplies, Propagate,
         SaveRefused, Abort, EndRequest, ExtractAgain, PassTime, analysisVars

-----------------------------------------------------------------------------
(* The specification.                                                      *)

AnalysisInv == LimiterInv /\ RunnerInv /\ ParentsInv /\ ScoredInv

LEMMA AnalysisStarts == Init => AnalysisInv
  BY LimiterStartsSound, RunnerStarts DEF Init, AnalysisInv, ParentsInv, RowsHaveParents, ScoredInv

LEMMA LimiterSteps == ASSUME Next PROVE [LimiterNext]_limiterVars
  BY AnalysisAssumption DEF Next, Serve, RefuseRequest, RejectRequest, BeginRequest,
     ProviderReplies, Propagate, SaveCompleted, SaveFailed, SaveRefused, Abort, EndRequest,
     ExtractAgain, DeleteResume, DeleteJobContext, PassTime, LimiterNext

LEMMA RunnerKept == ASSUME RunnerInv, Next PROVE RunnerInv'
<1>1. CASE UNCHANGED run
  BY <1>1 DEF RunnerInv, RunnerTypeOK, Brought
<1>2. ASSUME NEW c \in Callers, DropRun(c) PROVE RunnerInv'
  BY <1>2, DropKeepsRunner
<1>3. ASSUME NEW c \in Callers, StartRun(c) PROVE RunnerInv'
  BY <1>3, StartKeepsRunner
<1>4. ASSUME NEW c \in Callers, NEW reply \in Replies, Reply(c, reply) PROVE RunnerInv'
  BY <1>4, ReplyKeepsRunner
<1> QED
  BY <1>1, <1>2, <1>3, <1>4 DEF Next, Serve, RefuseRequest, RejectRequest, BeginRequest,
     ProviderReplies, Propagate, SaveCompleted, SaveFailed, SaveRefused, Abort, EndRequest,
     ExtractAgain, DeleteResume, DeleteJobContext, PassTime

LEMMA AnalysisInductive == AnalysisInv /\ [Next]_vars => AnalysisInv'
<1> SUFFICES ASSUME AnalysisInv, [Next]_vars
             PROVE  AnalysisInv'
  OBVIOUS
<1>1. CASE Next
  BY <1>1, LimiterSteps, LimiterKept, RunnerKept, ParentsKept, ScoredKept DEF AnalysisInv
<1>2. CASE UNCHANGED vars
  <2>1. LimiterInv'
    BY <1>2, LimiterKept DEF vars, AnalysisInv
  <2>2. RunnerInv'
    BY <1>2 DEF vars, AnalysisInv, RunnerInv, RunnerTypeOK, Brought
  <2>3. ParentsInv'
    BY <1>2 DEF vars, analysisVars, AnalysisInv, ParentsInv, RowsHaveParents
  <2>4. ScoredInv'
    BY <1>2 DEF vars, analysisVars, AnalysisInv, ScoredInv
  <2> QED
    BY <2>1, <2>2, <2>3, <2>4 DEF AnalysisInv
<1> QED
  BY <1>1, <1>2

LEMMA AnalysisInvariant == Spec => []AnalysisInv
  BY AnalysisStarts, AnalysisInductive, PTL DEF Spec

\* "Structurally impossible to retry forever" (services/ai/client.py): at most
\* four calls, each justified by the replies to the earlier ones.
THEOREM CallsAreJustified == Spec => []CallsJustified
<1>1. AnalysisInv => CallsJustified
  BY RunnerJustified DEF AnalysisInv
<1> QED
  BY <1>1, AnalysisInvariant, PTL

\* A deletion that races an analysis wins (services/resume_analysis/service.py).
THEOREM RowsKeepParents == Spec => []RowsHaveParents
<1>1. AnalysisInv => RowsHaveParents
  BY DEF AnalysisInv, ParentsInv
<1> QED
  BY <1>1, AnalysisInvariant, PTL

\* The route's limit holds whatever becomes of the admitted requests.
THEOREM AnalysesLimited == Spec => []WindowBound
<1>1. AnalysisInv => WindowBound
  BY DEF AnalysisInv, LimiterInv, WindowInv
<1> QED
  BY <1>1, AnalysisInvariant, PTL

\* A user of the analyses who is refused is told the truth about when to come
\* back.
THEOREM AnalysisRefusalsHonest == Spec => []RetryAfterHonest
<1>1. AnalysisInv => RetryAfterHonest
  BY RefusalsHonest DEF AnalysisInv, LimiterInv
<1> QED
  BY <1>1, AnalysisInvariant, PTL

\* Whatever categories apply, the stored score lies between the worst and the
\* best of them, for every output the validator accepts.
THEOREM ScoresAreAverages == Spec => []ScoreIsAverage
<1>1. AnalysisInv => ScoreIsAverage
  <2> SUFFICES ASSUME AnalysisInv, NEW a \in analyses, a.status = "COMPLETED"
               PROVE  \E worst, best \in Applicable(sections) :
                          /\ Adjusted(worst, a.output[worst], sections) <= a.score
                          /\ a.score <= Adjusted(best, a.output[best], sections)
    BY DEF ScoreIsAverage
  <2>1. InputsValid(a.output) /\ a.score \in OverallScores(a.output, sections)
    BY AnalysisAssumption DEF AnalysisInv, ScoredInv
  <2> QED
    BY <2>1, ScoreBetween
<1> QED
  BY <1>1, AnalysisInvariant, PTL

\* An improvement of the assessments and their evidence never costs a point.
THEOREM ImprovementNeverCosts == Spec => []BetterNeverScoresLower
<1>1. AnalysisInv => BetterNeverScoresLower
  <2> SUFFICES ASSUME AnalysisInv, NEW a \in analyses, NEW b \in analyses,
                      a.status = "COMPLETED", b.status = "COMPLETED",
                      AtLeast(a.output, b.output),
                      WeightedSum(a.output, sections) # WeightedSum(b.output, sections)
               PROVE  a.score >= b.score
    BY DEF BetterNeverScoresLower
  <2>1. /\ InputsValid(a.output) /\ a.score \in OverallScores(a.output, sections)
        /\ InputsValid(b.output) /\ b.score \in OverallScores(b.output, sections)
    BY AnalysisAssumption DEF AnalysisInv, ScoredInv
  <2> QED
    BY <2>1, BetterScores
<1> QED
  BY <1>1, AnalysisInvariant, PTL
=================================================================================
