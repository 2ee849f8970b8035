------------------------ MODULE TimerManagerProofs ------------------------
(***************************************************************************)
(* Proofs about TimerManager, for any number of timers, user threads and    *)
(* idlers and any intervals.                                                *)
(***************************************************************************)
EXTENDS TimerManager, FiniteSetTheorems, WellFoundedInduction, TLAPS

-----------------------------------------------------------------------------
(* The inductive invariant.                                                 *)

\* An addTimer() or reset() of thread u has timer t and will insert it.
Adding(t, u) == upc[u].op \in {"add", "insert"} /\ upc[u].timer = t

Waiting(t) == t \in m_timers \/ (\E i \in Idlers : t \in expired[i]) \/ (\E u \in Users : Adding(t, u))
Called(t) == \E i \in Idlers : t \in cbs[i]

\* A Timer that is not constructed is nowhere.
Fresh(t) == t \in unused => ~Waiting(t) /\ ~Called(t) /\ fired[t] = 0 /\ t \notin cancelled

\* A timer is in the set, or with one idler, or with one user thread.
Apart(t) ==
    /\ t \in m_timers => (\A i \in Idlers : t \notin expired[i]) /\ (\A u \in Users : ~Adding(t, u))
    /\ \A i, j \in Idlers : t \in expired[i] /\ t \in expired[j] => i = j
    /\ \A u, v \in Users : Adding(t, u) /\ Adding(t, v) => u = v
    /\ \A i \in Idlers, u \in Users : t \in expired[i] => ~Adding(t, u)

\* A one-shot timer that waits, or whose callback is about to be scheduled, has had
\* no outcome, and one that was cancelled does not come back.
Outcome(t) == ~m_recurring[t] =>
    /\ Waiting(t) \/ Called(t) \/ t \in cancelled => fired[t] = 0
    /\ Waiting(t) => ~Called(t) /\ t \notin cancelled
    /\ Called(t) => t \notin cancelled
    /\ \A i, j \in Idlers : t \in cbs[i] /\ t \in cbs[j] => i = j
    /\ fired[t] <= 1

\* An idler has taken out only what is due, and nobody moves it any more.
Late(t) == ~m_recurring[t] => \A i \in Idlers : t \in expired[i] \/ t \in cbs[i] => m_next[t] <= now

\* The timeout of epoll_wait() fits its cap after the conversion to int.
TimeoutFits == \A i \in Idlers : ToInt(timeout[i]) <= MAX_TIMEOUT

PInv == TypeOK /\ TimeoutFits /\ \A t \in Timers : Fresh(t) /\ Apart(t) /\ Outcome(t) /\ Late(t)

AllSleep == \A i \in Idlers : ipc[i] = "sleep"

\* A timer that was announced has its tickle in the pipe or on the way to it.
TickleOnTheWay == AllSleep /\ m_tickled => (bytes /\ edge) \/ \E u \in Users : upc[u].op = "tickle"

\* Otherwise a sleeper wakes up for every timer.
SleeperCovers ==
    AllSleep /\ ~m_tickled /\ pulled = {} =>
        \E i \in Idlers : \A t \in m_timers : aim[i] <= m_next[t] \/ aim[i] <= now

-----------------------------------------------------------------------------
(* The conversion of the timeout to int.                                    *)

LEMMA ModBelow ==
  ASSUME NEW n \in Nat, NEW d \in Nat \ {0}
  PROVE  n % d \in 0 .. d - 1 /\ n % d <= n
  OBVIOUS

LEMMA ToIntBelow ==
  ASSUME NEW n \in Nat
  PROVE  ToInt(n) \in Int /\ ToInt(n) <= n
  <1> DEFINE d == 2 * (IntMax + 1)
             m == n + IntMax + 1
  <1>1. d \in Nat \ {0} /\ m \in Nat /\ IntMax \in Nat
    BY TimerAssumption
  <1>2. ToInt(n) = (m % d) - (IntMax + 1)
    BY DEF ToInt
  <1>3. m % d \in 0 .. d - 1 /\ m % d <= m
    <2> HIDE DEF m, d
    <2> QED BY <1>1, ModBelow
  <1>4. m = n + IntMax + 1
    OBVIOUS
  <1> HIDE DEF m, d
  <1> QED BY <1>1, <1>2, <1>3, <1>4

LEMMA CappedBelow ==
  ASSUME NEW n \in Nat
  PROVE  Capped(n) \in Nat /\ Capped(n) <= n /\ ToInt(Capped(n)) <= MAX_TIMEOUT
  <1>1. ToInt(n) \in Int /\ ToInt(n) <= n /\ MAX_TIMEOUT \in Nat
    BY ToIntBelow, TimerAssumption
  <1>2. ToInt(MAX_TIMEOUT) <= MAX_TIMEOUT
    BY ToIntBelow, TimerAssumption
  <1> QED BY <1>1, <1>2 DEF Capped

LEMMA WakeAtType ==
  ASSUME NEW n \in Nat, ToInt(n) <= MAX_TIMEOUT
  PROVE  WakeAt(n) \in -MaxLate .. Never
  BY ToIntBelow, TimerAssumption DEF WakeAt, Never, now

\* The set of timers has a first one: the one with the fewest before it.
LEMMA FrontExists ==
  ASSUME TypeOK, m_timers # {}
  PROVE  \E t \in m_timers : IsFront(t)
  <1> DEFINE Pred(t) == {s \in m_timers : Before(s, t)}
             C == {Cardinality(Pred(t)) : t \in m_timers}
             R == OpToRel(<, Nat)
  <1>1. m_timers \subseteq Timers /\ IsFiniteSet(m_timers) /\ Timers \subseteq Nat
    BY TimerAssumption, FS_Subset DEF TypeOK
  <1>2. \A t \in m_timers : IsFiniteSet(Pred(t)) /\ Cardinality(Pred(t)) \in Nat
    BY <1>1, FS_Subset, FS_CardinalityType
  <1>3. C \subseteq Nat /\ C # {}
    BY <1>2
  <1>4. PICK x \in C : \A y \in C : ~(<<y, x>> \in R)
    <2>1. IsWellFoundedOn(R, Nat)
      BY NatLessThanWellFounded
    <2> HIDE DEF R, C
    <2> QED BY <1>3, <2>1, WFMin
  <1>5. \A y \in C : ~(y < x)
    BY <1>3, <1>4 DEF OpToRel
  <1>6. PICK t \in m_timers : x = Cardinality(Pred(t))
    OBVIOUS
  <1>7. ASSUME NEW s \in m_timers \ {t}, ~Before(t, s) PROVE FALSE
    <2>1. m_next[s] \in Int /\ m_next[t] \in Int /\ s \in Nat /\ t \in Nat
      BY <1>1 DEF TypeOK
    <2>2. Before(s, t)
      BY <1>7, <2>1 DEF Before
    <2>3. \A r \in m_timers : Before(r, s) => Before(r, t)
      <3> TAKE r \in m_timers
      <3>1. m_next[r] \in Int /\ r \in Nat
        BY <1>1 DEF TypeOK
      <3> QED BY <2>1, <2>2, <3>1 DEF Before
    <2>4. ~Before(s, s)
      BY <2>1 DEF Before
    <2>5. Pred(s) \subseteq Pred(t) /\ Pred(s) # Pred(t)
      BY <2>2, <2>3, <2>4
    <2>6. Cardinality(Pred(s)) <= Cardinality(Pred(t)) /\ Cardinality(Pred(s)) # Cardinality(Pred(t))
      <3>1. IsFiniteSet(Pred(t))
        BY <1>2
      <3> HIDE DEF Pred
      <3> QED BY <2>5, <3>1, FS_Subset
    <2>7. Cardinality(Pred(s)) \in C /\ Cardinality(Pred(s)) \in Nat /\ Cardinality(Pred(t)) \in Nat
      BY <1>2
    <2> HIDE DEF Pred, C
    <2> QED BY <1>5, <1>6, <2>6, <2>7
  <1> QED BY <1>7 DEF IsFront

\* What getNextTimer() and idle() make of the first timer: never later than it.
LEMMA WaitFits ==
  ASSUME PInv, NEW i \in Idlers, GetNextTimer(i)
  PROVE  \E wait \in Nat :
           /\ timeout' = [timeout EXCEPT ![i] = wait]
           /\ deadline' = [deadline EXCEPT ![i] = WakeAt(wait)]
           /\ aim' = [aim EXCEPT ![i] = wait]
           /\ ToInt(wait) <= MAX_TIMEOUT
           /\ \A t \in m_timers : wait <= m_next[t] \/ wait <= now
  <1>1. CASE m_timers = {}
    <2>1. MAX_TIMEOUT \in Nat /\ ToInt(MAX_TIMEOUT) <= MAX_TIMEOUT /\ now + MAX_TIMEOUT = MAX_TIMEOUT
      BY ToIntBelow, TimerAssumption DEF now
    <2> QED BY <1>1, <2>1 DEF GetNextTimer
  <1>2. CASE m_timers # {}
    <2> DEFINE front == CHOOSE t \in m_timers : IsFront(t)
               wait == IF now < m_next[front] THEN Capped(m_next[front] - now) ELSE 0
    <2>1. front \in m_timers /\ IsFront(front)
      BY <1>2, FrontExists DEF PInv
    <2>2. \A t \in m_timers : m_next[t] \in Int /\ m_next[front] <= m_next[t]
      <3>1. \A t \in m_timers : m_next[t] \in Int
        BY DEF PInv, TypeOK
      <3> HIDE DEF front
      <3> QED BY <2>1, <3>1 DEF IsFront, Before
    <2>3. m_next[front] \in Int /\ now = 0
      BY <2>1, <2>2 DEF now
    <2>4. wait \in Nat /\ ToInt(wait) <= MAX_TIMEOUT /\ (wait <= m_next[front] \/ wait <= now)
      <3> HIDE DEF front
      <3>1. CASE now < m_next[front]
        <4>1. m_next[front] - now \in Nat /\ m_next[front] - now = m_next[front]
          BY <2>3, <3>1
        <4>2. wait = Capped(m_next[front])
          BY <3>1, <4>1
        <4> HIDE DEF wait
        <4> QED BY <4>1, <4>2, CappedBelow
      <3>2. CASE ~(now < m_next[front])
        <4>1. ToInt(0) <= MAX_TIMEOUT
          BY ToIntBelow, TimerAssumption
        <4> QED BY <2>3, <3>2, <4>1
      <3> QED BY <3>1, <3>2
    <2>5. /\ timeout' = [timeout EXCEPT ![i] = wait]
          /\ deadline' = [deadline EXCEPT ![i] = WakeAt(wait)]
          /\ aim' = [aim EXCEPT ![i] = now + wait]
      BY <1>2 DEF GetNextTimer
    <2> HIDE DEF wait
    <2>6. now + wait = wait
      BY <2>3, <2>4
    <2>7. \A t \in m_timers : wait <= m_next[t] \/ wait <= now
      <3> HIDE DEF front
      <3> QED BY <2>2, <2>3, <2>4
    <2> QED BY <2>4, <2>5, <2>6, <2>7
  <1> QED BY <1>1, <1>2

-----------------------------------------------------------------------------
(* Every step keeps the invariant.                                          *)

LEMMA PInvInit == Init => PInv
  <1> SUFFICES ASSUME Init PROVE PInv OBVIOUS
  <1> USE DEF Init
  <1>1. TypeOK
    <2>1. deadline \in [Idlers -> -MaxLate .. Never] /\ cur \in [Idlers -> -MaxLate .. 0]
      BY TimerAssumption DEF Never
    <2>2. interrupts \in 0 .. MaxInterrupts /\ fired \in [Timers -> 0 .. MaxFired]
      BY TimerAssumption
    <2>3. m_next \in [Timers -> Int] /\ m_ms \in [Timers -> Intervals \cup {0}] /\ timeout \in [Idlers -> Nat] /\ aim \in [Idlers -> Int]
      OBVIOUS
    <2>4. upc \in [Users -> {Ready, [op |-> "tickle"]} \cup [op : {"add", "insert"}, timer : Timers]]
      OBVIOUS
    <2> QED BY <2>1, <2>2, <2>3, <2>4 DEF TypeOK
  <1>2. TimeoutFits
    BY ToIntBelow, TimerAssumption DEF TimeoutFits
  <1>3. \A t \in Timers : ~Waiting(t) /\ ~Called(t)
    BY DEF Waiting, Called, Adding, Ready
  <1>4. \A t \in Timers : Fresh(t) /\ Apart(t) /\ Outcome(t) /\ Late(t)
    BY <1>3 DEF Fresh, Apart, Outcome, Late, Waiting, Called
  <1> QED BY <1>1, <1>2, <1>4 DEF PInv

\* A step that leaves the timers where they are.
LEMMA StayPut ==
  ASSUME PInv, TypeOK', TimeoutFits',
         UNCHANGED <<m_timers, m_recurring, unused, expired, cbs, fired, cancelled>>,
         \A t \in Timers, u \in Users : Adding(t, u)' <=> Adding(t, u),
         \A t \in Timers : Late(t)'
  PROVE  PInv'
  <1> SUFFICES ASSUME NEW t \in Timers PROVE Fresh(t)' /\ Apart(t)' /\ Outcome(t)'
    BY DEF PInv
  <1>1. (Waiting(t)' <=> Waiting(t)) /\ (Called(t)' <=> Called(t))
    BY DEF Waiting, Called
  <1>2. Fresh(t)'
    BY <1>1 DEF PInv, Fresh
  <1>3. Apart(t)'
    BY DEF PInv, Apart
  <1>4. Outcome(t)'
    BY <1>1 DEF PInv, Outcome
  <1> QED BY <1>2, <1>3, <1>4

LEMMA Ticks == PInv /\ Tick => PInv'
  <1> SUFFICES ASSUME PInv, Tick PROVE PInv' OBVIOUS
  <1>1. \A n \in Int : Nearer(n) \in Int /\ Nearer(n) <= n /\ (n \in -MaxLate .. 0 => Nearer(n) \in -MaxLate .. 0)
    BY TimerAssumption DEF Nearer
  <1>2. \A n \in -MaxLate .. Never : NearerUnlessNever(n) \in -MaxLate .. Never
    BY TimerAssumption DEF Nearer, NearerUnlessNever, Never
  <1>3. TypeOK'
    <2>1. m_next' \in [Timers -> Int] /\ aim' \in [Idlers -> Int]
      BY <1>1 DEF Tick, PInv, TypeOK
    <2>2. deadline' \in [Idlers -> -MaxLate .. Never]
      <3>1. 0 \in -MaxLate .. Never
        BY TimerAssumption DEF Never
      <3> QED BY <1>2, <3>1 DEF Tick, PInv, TypeOK
    <2>3. cur' \in [Idlers -> -MaxLate .. 0]
      <3>1. 0 \in -MaxLate .. 0 /\ -MaxLate .. 0 \subseteq Int
        BY TimerAssumption
      <3> QED BY <1>1, <3>1 DEF Tick, PInv, TypeOK
    <2> QED BY <2>1, <2>2, <2>3 DEF Tick, PInv, TypeOK, pipeVars, ghostVars
  <1>4. TimeoutFits'
    BY DEF Tick, PInv, TimeoutFits
  <1>5. ASSUME NEW t \in Timers PROVE Late(t)'
    <2>1. m_next[t] \in Int /\ m_next'[t] \in Int /\ m_next'[t] <= m_next[t] /\ now = 0
      BY <1>1 DEF Tick, PInv, TypeOK, now
    <2> QED BY <2>1 DEF PInv, Late, Tick, now
  <1> QED BY <1>3, <1>4, <1>5, StayPut DEF Tick, ghostVars, Adding

LEMMA AddsTimer ==
  ASSUME PInv, NEW u \in Users, NEW t \in Timers, NEW ms \in Intervals, NEW recurring \in BOOLEAN,
         AddTimer(u, t, ms, recurring)
  PROVE  PInv'
  <1>1. upc[u] = Ready /\ t \in unused /\ unused' = unused \ {t}
    BY DEF AddTimer
  <1>2. TypeOK'
    <2>1. now + ms \in Int
      BY TimerAssumption DEF now
    <2>2. m_timers' \subseteq Timers \ unused'
      BY <1>1 DEF AddTimer, PInv, TypeOK
    <2>3. upc' \in [Users -> {Ready, [op |-> "tickle"]} \cup [op : {"add", "insert"}, timer : Timers]]
      BY DEF AddTimer, PInv, TypeOK
    <2>4. m_next' \in [Timers -> Int] /\ m_ms' \in [Timers -> Intervals \cup {0}]
      BY <2>1 DEF AddTimer, PInv, TypeOK
    <2> QED BY <2>2, <2>3, <2>4 DEF AddTimer, PInv, TypeOK, idleVars, pipeVars, ghostVars
  <1>3. TimeoutFits'
    BY DEF AddTimer, PInv, TimeoutFits, idleVars
  <1>4. \A s \in Timers, v \in Users : Adding(s, v)' <=> Adding(s, v) \/ (s = t /\ v = u)
    BY DEF AddTimer, PInv, TypeOK, Adding, Ready
  <1>5. UNCHANGED <<m_timers, expired, cbs, fired, cancelled>>
    BY DEF AddTimer, idleVars, ghostVars
  <1>6. \A s \in Timers \ {t} : m_recurring'[s] = m_recurring[s] /\ m_next'[s] = m_next[s]
    BY DEF AddTimer, PInv, TypeOK
  <1>7. ~Waiting(t) /\ ~Called(t) /\ fired[t] = 0 /\ t \notin cancelled
    BY <1>1 DEF PInv, Fresh
  <1>8. ASSUME NEW s \in Timers PROVE Fresh(s)' /\ Apart(s)' /\ Outcome(s)' /\ Late(s)'
    <2>1. CASE s = t
      <3>1. Waiting(t)' /\ ~Called(t)'
        BY <1>4, <1>5, <1>7 DEF Waiting, Called
      <3>2. Apart(t)'
        BY <1>4, <1>5, <1>7 DEF Apart, Waiting
      <3>3. Outcome(t)'
        BY <1>5, <1>7, <3>1 DEF Outcome, Called
      <3>4. Late(t)'
        BY <1>5, <1>7 DEF Late, Waiting, Called
      <3> QED BY <1>1, <2>1, <3>2, <3>3, <3>4 DEF Fresh
    <2>2. CASE s # t
      <3>1. (Waiting(s)' <=> Waiting(s)) /\ (Called(s)' <=> Called(s))
        BY <1>4, <1>5, <2>2 DEF Waiting, Called
      <3>2. Fresh(s)'
        BY <1>1, <1>5, <2>2, <3>1 DEF PInv, Fresh
      <3>3. Apart(s)'
        BY <1>4, <1>5, <2>2 DEF PInv, Apart
      <3>4. Outcome(s)'
        BY <1>5, <1>6, <2>2, <3>1 DEF PInv, Outcome
      <3>5. Late(s)'
        BY <1>5, <1>6, <2>2 DEF PInv, Late, now
      <3> QED BY <3>2, <3>3, <3>4, <3>5
    <2> QED BY <2>1, <2>2
  <1> QED BY <1>2, <1>3, <1>8 DEF PInv

LEMMA IntervalIsNat ==
  ASSUME TypeOK, NEW t \in Timers
  PROVE  m_ms[t] \in Nat
  <1>1. m_ms[t] \in Intervals \cup {0}
    BY DEF TypeOK
  <1>2. \A x \in Intervals : x \in Nat
    BY TimerAssumption
  <1>3. m_ms[t] \in Intervals \/ m_ms[t] = 0
    BY <1>1
  <1> QED BY <1>2, <1>3

\* A timer that a user thread takes or leaves changes its place, the others do not:
\* x is where timer t is afterwards, the set or the thread.
LEMMA UserPlaces ==
  ASSUME PInv, NEW u \in Users, NEW t \in Timers, TypeOK', TimeoutFits',
         UNCHANGED <<m_recurring, unused, expired, cbs, fired, cancelled>>,
         \A s \in Timers \ {t} : m_next'[s] = m_next[s] /\ (s \in m_timers' <=> s \in m_timers),
         \A s \in Timers, v \in Users : v # u \/ s # t => (Adding(s, v)' <=> Adding(s, v)),
         t \in m_timers \/ Adding(t, u),
         ~(t \in m_timers' /\ Adding(t, u)'),
         \A v \in Users \ {u} : ~Adding(t, v)
  PROVE  PInv'
  <1>1. \A i \in Idlers : t \notin expired[i]
    BY DEF PInv, Apart
  <1>2. Waiting(t) /\ t \notin unused
    BY DEF Waiting, PInv, Fresh
  <1> SUFFICES ASSUME NEW s \in Timers PROVE Fresh(s)' /\ Apart(s)' /\ Outcome(s)' /\ Late(s)'
    BY DEF PInv
  <1>3. CASE s = t
    <2>1. Called(t)' <=> Called(t)
      BY DEF Called
    <2>2. Fresh(t)'
      BY <1>2 DEF Fresh
    <2>3. Apart(t)'
      BY <1>1 DEF Apart
    <2>4. Outcome(t)'
      BY <1>2, <2>1 DEF PInv, Outcome
    <2>5. Late(t)'
      <3>1. ~m_recurring[t] => ~Called(t)
        BY <1>2 DEF PInv, Outcome
      <3> QED BY <1>1, <3>1 DEF Late, Called
    <2> QED BY <1>3, <2>2, <2>3, <2>4, <2>5
  <1>4. CASE s # t
    <2>1. (Waiting(s)' <=> Waiting(s)) /\ (Called(s)' <=> Called(s))
      BY <1>4 DEF Waiting, Called
    <2>2. Fresh(s)'
      BY <2>1 DEF PInv, Fresh
    <2>3. Apart(s)'
      BY <1>4 DEF PInv, Apart
    <2>4. Outcome(s)'
      BY <2>1 DEF PInv, Outcome
    <2>5. Late(s)'
      BY <1>4 DEF PInv, Late, now
    <2> QED BY <2>2, <2>3, <2>4, <2>5
  <1> QED BY <1>3, <1>4

LEMMA Inserts ==
  ASSUME PInv, NEW u \in Users, AddTimerVal(u)
  PROVE  PInv'
  <1>1. PICK t \in Timers : t = upc[u].timer /\ Adding(t, u)
    BY DEF AddTimerVal, PInv, TypeOK, Adding, Ready
  <1>2. /\ m_timers' = m_timers \cup {t}
        /\ upc' = [upc EXCEPT ![u] = [op |-> "tickle"]] \/ upc' = [upc EXCEPT ![u] = Ready]
    BY <1>1 DEF AddTimerVal
  <1>3. TypeOK'
    <2>1. t \notin unused
      BY <1>1 DEF PInv, Fresh, Waiting
    <2>2. m_timers' \subseteq Timers \ unused
      BY <1>2, <2>1 DEF PInv, TypeOK
    <2>3. m_tickled' \in BOOLEAN
      <3>1. m_tickled' = (m_tickled \/ (AtFront(t) /\ ~m_tickled))
        BY <1>1 DEF AddTimerVal
      <3> QED BY <3>1, Zenon
    <2>4. upc' \in [Users -> {Ready, [op |-> "tickle"]} \cup [op : {"add", "insert"}, timer : Timers]]
      BY <1>2 DEF PInv, TypeOK
    <2> QED BY <2>2, <2>3, <2>4 DEF AddTimerVal, PInv, TypeOK, idleVars, pipeVars, ghostVars
  <1>4. TimeoutFits'
    BY DEF AddTimerVal, PInv, TimeoutFits, idleVars
  <1>5. \A s \in Timers, v \in Users : Adding(s, v)' <=> Adding(s, v) /\ v # u
    BY <1>2 DEF PInv, TypeOK, Adding, Ready
  <1>6. \A s \in Timers \ {t} : ~Adding(s, u)
    BY <1>1 DEF Adding
  <1>7. \A v \in Users \ {u} : ~Adding(t, v)
    BY <1>1 DEF PInv, Apart
  <1>8. UNCHANGED <<m_next, m_recurring, unused, expired, cbs, fired, cancelled>>
    BY DEF AddTimerVal, idleVars, ghostVars
  <1> QED BY <1>1, <1>2, <1>3, <1>4, <1>5, <1>6, <1>7, <1>8, UserPlaces

LEMMA Resets ==
  ASSUME PInv, NEW u \in Users, NEW t \in Timers, NEW ms \in Intervals, NEW from_now \in BOOLEAN,
         Reset(u, t, ms, from_now)
  PROVE  PInv'
  <1>1. upc[u] = Ready /\ t \in m_timers /\ m_timers' = m_timers \ {t}
    BY DEF Reset, SetWithout
  <1>2. TypeOK'
    <2>1. m_next[t] \in Int /\ m_ms[t] \in Nat /\ ms \in Nat /\ now = 0
      BY TimerAssumption, IntervalIsNat DEF PInv, TypeOK, now
    <2>2. (IF from_now THEN now + m_ms[t] ELSE m_next[t] - m_ms[t] + ms) \in Int
      BY <2>1
    <2>3. m_next' \in [Timers -> Int]
      BY <2>2 DEF Reset, PInv, TypeOK
    <2>4. m_ms' \in [Timers -> Intervals \cup {0}]
      BY DEF Reset, PInv, TypeOK
    <2>5. upc' \in [Users -> {Ready, [op |-> "tickle"]} \cup [op : {"add", "insert"}, timer : Timers]]
      BY DEF Reset, PInv, TypeOK
    <2> QED BY <1>1, <2>3, <2>4, <2>5 DEF Reset, PInv, TypeOK, idleVars, pipeVars, ghostVars
  <1>3. TimeoutFits'
    BY DEF Reset, PInv, TimeoutFits, idleVars
  <1>4. \A s \in Timers, v \in Users : Adding(s, v)' <=> Adding(s, v) \/ (s = t /\ v = u)
    BY <1>1 DEF Reset, PInv, TypeOK, Adding, Ready
  <1>5. \A v \in Users : ~Adding(t, v)
    BY <1>1 DEF PInv, Apart
  <1>6. \A s \in Timers \ {t} : m_next'[s] = m_next[s]
    BY DEF Reset, PInv, TypeOK
  <1>7. UNCHANGED <<m_recurring, unused, expired, cbs, fired, cancelled>>
    BY DEF Reset, idleVars, ghostVars
  <1> QED BY <1>1, <1>2, <1>3, <1>4, <1>5, <1>6, <1>7, UserPlaces

LEMMA Refreshes ==
  ASSUME PInv, NEW u \in Users, NEW t \in Timers, Refresh(u, t)
  PROVE  PInv'
  <1>1. TypeOK'
    <2>1. now + m_ms[t] \in Int
      BY IntervalIsNat DEF PInv, now
    <2> QED BY <2>1 DEF Refresh, PInv, TypeOK, idleVars, pipeVars
  <1>2. TimeoutFits'
    BY DEF Refresh, PInv, TimeoutFits, idleVars
  <1>3. t \in m_timers /\ upc' = upc /\ UNCHANGED <<m_timers, m_recurring, unused, expired, cbs, fired, cancelled>>
    BY DEF Refresh, idleVars
  <1>4. \A s \in Timers \ {t} : m_next'[s] = m_next[s]
    BY DEF Refresh, PInv, TypeOK
  <1>5. \A s \in Timers, v \in Users : Adding(s, v)' <=> Adding(s, v)
    BY <1>3 DEF Adding
  <1>6. \A v \in Users : ~Adding(t, v)
    BY <1>3 DEF PInv, Apart
  <1> QED BY <1>1, <1>2, <1>3, <1>4, <1>5, <1>6, UserPlaces

LEMMA Cancels ==
  ASSUME PInv, NEW u \in Users, NEW t \in Timers, Cancel(u, t)
  PROVE  PInv'
  <1>1. /\ m_timers' = m_timers \ {t} /\ cancelled' = IF t \in m_timers THEN cancelled \cup {t} ELSE cancelled
        /\ UNCHANGED <<m_next, m_recurring, unused, upc, expired, cbs, fired, timeout>>
    BY DEF Cancel, SetWithout, idleVars
  <1>2. TypeOK'
    <2>1. m_timers' \subseteq Timers \ unused' /\ cancelled' \subseteq Timers
      BY <1>1 DEF PInv, TypeOK
    <2>2. m_cb' \in [Timers -> BOOLEAN]
      BY DEF Cancel, PInv, TypeOK
    <2> QED BY <2>1, <2>2 DEF Cancel, PInv, TypeOK, idleVars, pipeVars
  <1>3. TimeoutFits'
    BY <1>1 DEF PInv, TimeoutFits
  <1>4. \A s \in Timers, v \in Users : Adding(s, v)' <=> Adding(s, v)
    BY <1>1 DEF Adding
  <1>5. ASSUME NEW s \in Timers PROVE Fresh(s)' /\ Apart(s)' /\ Outcome(s)' /\ Late(s)'
    <2>1. Called(s)' <=> Called(s)
      BY <1>1 DEF Called
    <2>2. Waiting(s)' => Waiting(s)
      BY <1>1, <1>4 DEF Waiting
    <2>3. Apart(s)'
      BY <1>1, <1>4 DEF PInv, Apart
    <2>4. Late(s)'
      BY <1>1 DEF PInv, Late, now
    <2>5. CASE s = t /\ t \in m_timers
      <3>1. Waiting(s) /\ ~Waiting(s)'
        BY <1>1, <1>4, <2>5 DEF Waiting, PInv, Apart
      <3>2. Fresh(s)'
        BY <1>1, <3>1 DEF PInv, Fresh
      <3>3. Outcome(s)'
        BY <1>1, <2>1, <3>1 DEF PInv, Outcome
      <3> QED BY <2>3, <2>4, <3>2, <3>3
    <2>6. CASE ~(s = t /\ t \in m_timers)
      <3>1. s \in cancelled' <=> s \in cancelled
        BY <1>1, <2>6
      <3>2. Fresh(s)'
        BY <1>1, <2>1, <2>2, <3>1 DEF PInv, Fresh
      <3>3. Outcome(s)'
        BY <1>1, <2>1, <2>2, <3>1 DEF PInv, Outcome
      <3> QED BY <2>3, <2>4, <3>2, <3>3
    <2> QED BY <2>5, <2>6
  <1> QED BY <1>2, <1>3, <1>5 DEF PInv

LEMMA Tickles ==
  ASSUME PInv, NEW u \in Users, Tickle(u)
  PROVE  PInv'
  <1>1. upc' = [upc EXCEPT ![u] = Ready] /\ upc[u].op = "tickle"
    BY DEF Tickle
  <1>2. TypeOK'
    <2>1. upc' \in [Users -> {Ready, [op |-> "tickle"]} \cup [op : {"add", "insert"}, timer : Timers]]
      BY <1>1 DEF PInv, TypeOK
    <2>2. bytes' \in BOOLEAN /\ edge' \in BOOLEAN
      BY DEF Tickle, PInv, TypeOK, pipeVars
    <2> QED BY <2>1, <2>2 DEF Tickle, PInv, TypeOK, timerVars, idleVars, ghostVars
  <1>3. TimeoutFits'
    BY DEF Tickle, PInv, TimeoutFits, idleVars
  <1>4. \A s \in Timers, v \in Users : Adding(s, v)' <=> Adding(s, v)
    BY <1>1 DEF PInv, TypeOK, Adding, Ready
  <1>5. \A t \in Timers : Late(t)'
    BY DEF Tickle, PInv, Late, timerVars, idleVars, now
  <1> QED BY <1>2, <1>3, <1>4, <1>5, StayPut DEF Tickle, timerVars, idleVars, ghostVars

\* The steps of an idler that take out no timer.
LEMMA IdlesOn ==
  ASSUME PInv, NEW i \in Idlers,
         EnterIdle(i) \/ GetNextTimer(i) \/ Interrupt(i) \/ TimeOut(i) \/ Tickled(i)
  PROVE  PInv'
  <1> USE DEF pipeVars, ghostVars, timerVars
  <1>1. UNCHANGED <<timerVars, upc, expired, cbs, fired, cancelled>>
    BY DEF EnterIdle, GetNextTimer, Interrupt, TimeOut, Tickled
  <1>2. ASSUME TypeOK', TimeoutFits' PROVE PInv'
    <2>1. \A t \in Timers : Late(t)'
      BY <1>1 DEF PInv, Late, now
    <2> QED BY <1>1, <1>2, <2>1, StayPut DEF Adding
  <1>3. CASE EnterIdle(i)
    BY <1>2, <1>3 DEF EnterIdle, PInv, TypeOK, TimeoutFits
  <1>4. CASE GetNextTimer(i)
    <2>1. PICK wait \in Nat :
            /\ timeout' = [timeout EXCEPT ![i] = wait]
            /\ deadline' = [deadline EXCEPT ![i] = WakeAt(wait)]
            /\ aim' = [aim EXCEPT ![i] = wait]
            /\ ToInt(wait) <= MAX_TIMEOUT
      BY <1>4, WaitFits
    <2>2. deadline' \in [Idlers -> -MaxLate .. Never]
      BY <2>1, WakeAtType DEF PInv, TypeOK
    <2>3. timeout' \in [Idlers -> Nat] /\ aim' \in [Idlers -> Int] /\ m_tickled' \in BOOLEAN
      <3>1. m_tickled' = FALSE
        BY <1>4 DEF GetNextTimer, ClearTickled
      <3>2. wait \in Int /\ timeout' \in [Idlers -> Nat]
        BY <2>1 DEF PInv, TypeOK
      <3>3. aim' \in [Idlers -> Int]
        BY <2>1, <3>2 DEF PInv, TypeOK
      <3> QED BY <3>1, <3>2, <3>3
    <2>4. TypeOK'
      BY <1>4, <2>2, <2>3 DEF GetNextTimer, PInv, TypeOK
    <2>5. TimeoutFits'
      BY <2>1 DEF PInv, TypeOK, TimeoutFits
    <2> QED BY <1>2, <2>4, <2>5
  <1>5. CASE Interrupt(i)
    <2>1. WakeAt(timeout[i]) \in -MaxLate .. Never
      BY WakeAtType DEF PInv, TypeOK, TimeoutFits
    <2>2. interrupts' \in 0 .. MaxInterrupts
      BY <1>5, TimerAssumption DEF Interrupt, PInv, TypeOK
    <2>3. deadline' \in [Idlers -> -MaxLate .. Never]
      BY <1>5, <2>1 DEF Interrupt, PInv, TypeOK
    <2>4. TypeOK'
      BY <1>5, <2>2, <2>3 DEF Interrupt, PInv, TypeOK
    <2>5. TimeoutFits'
      BY <1>5 DEF Interrupt, PInv, TimeoutFits
    <2> QED BY <1>2, <2>4, <2>5
  <1>6. CASE TimeOut(i) \/ Tickled(i)
    <2>1. Awake(i) /\ UNCHANGED <<timerVars, m_tickled, upc, expired, cur, cbs, interrupts, bytes, ghostVars>>
      BY <1>6 DEF TimeOut, Tickled
    <2>2. 0 \in -MaxLate .. Never
      BY TimerAssumption DEF Never
    <2>3. deadline' \in [Idlers -> -MaxLate .. Never] /\ timeout' \in [Idlers -> Nat] /\ aim' \in [Idlers -> Int]
      BY <2>1, <2>2 DEF Awake, PInv, TypeOK
    <2>4. piped' \in [Idlers -> BOOLEAN] /\ edge' \in BOOLEAN
      BY <1>6 DEF TimeOut, Tickled, PInv, TypeOK
    <2>5. TypeOK'
      BY <2>1, <2>3, <2>4 DEF Awake, PInv, TypeOK
    <2>6. TimeoutFits'
      <3>1. ToInt(0) <= MAX_TIMEOUT
        BY ToIntBelow, TimerAssumption
      <3> QED BY <2>1, <3>1 DEF Awake, PInv, TypeOK, TimeoutFits
    <2> QED BY <1>2, <2>5, <2>6
  <1> QED BY <1>3, <1>4, <1>5, <1>6

LEMMA Lists ==
  ASSUME PInv, NEW i \in Idlers, ListExpired(i)
  PROVE  PInv'
  <1>1. PICK probe \in Timers \cup {-1} : expired' = [expired EXCEPT ![i] = {t \in m_timers : Due(t, probe)}]
    BY DEF ListExpired
  <1>2. /\ expired'[i] = {t \in m_timers : Due(t, probe)}
        /\ \A j \in Idlers \ {i} : expired'[j] = expired[j]
        /\ m_timers' = m_timers \ expired'[i]
        /\ UNCHANGED <<m_next, m_recurring, unused, upc, cbs, fired, cancelled, timeout>>
    BY <1>1 DEF ListExpired, PInv, TypeOK, ghostVars
  <1>3. TypeOK'
    <2>1. m_timers' \subseteq Timers \ unused' /\ expired' \in [Idlers -> SUBSET Timers]
      BY <1>1, <1>2 DEF PInv, TypeOK
    <2>2. cur' \in [Idlers -> -MaxLate .. 0]
      <3>1. now \in -MaxLate .. 0
        BY TimerAssumption DEF now
      <3> QED BY <3>1 DEF ListExpired, PInv, TypeOK
    <2>3. ipc' \in [Idlers -> {"out", "next", "sleep", "list", "collect", "deliver"}]
      BY DEF ListExpired, PInv, TypeOK
    <2> QED BY <2>1, <2>2, <2>3 DEF ListExpired, PInv, TypeOK, pipeVars, ghostVars
  <1>4. TimeoutFits'
    BY <1>2 DEF PInv, TimeoutFits
  <1>5. \A s \in Timers, v \in Users : Adding(s, v)' <=> Adding(s, v)
    BY <1>2 DEF Adding
  <1>6. ASSUME NEW s \in Timers PROVE Fresh(s)' /\ Apart(s)' /\ Outcome(s)' /\ Late(s)'
    <2>1. (Called(s)' <=> Called(s)) /\ (Waiting(s)' => Waiting(s))
      BY <1>2, <1>5 DEF Called, Waiting
    <2>2. Fresh(s)'
      BY <1>2, <2>1 DEF PInv, Fresh
    <2>3. Outcome(s)'
      BY <1>2, <2>1 DEF PInv, Outcome
    <2>4. Apart(s)'
      <3>1. CASE s \in expired'[i]
        BY <1>2, <1>5, <3>1 DEF PInv, Apart
      <3>2. CASE s \notin expired'[i]
        BY <1>2, <1>5, <3>2 DEF PInv, Apart
      <3> QED BY <3>1, <3>2
    <2>5. Late(s)'
      <3>1. s \in expired'[i] => m_next[s] <= now
        BY <1>2 DEF Due, PInv, TypeOK, now
      <3> QED BY <1>2, <3>1 DEF PInv, Late, now
    <2> QED BY <2>2, <2>3, <2>4, <2>5
  <1> QED BY <1>3, <1>4, <1>6 DEF PInv

LEMMA Collects ==
  ASSUME PInv, NEW i \in Idlers, CollectExpired(i)
  PROVE  PInv'
  <1>1. /\ expired' = [expired EXCEPT ![i] = {}] /\ cbs' = [cbs EXCEPT ![i] = {t \in expired[i] : m_cb[t]}]
        /\ m_timers' = m_timers \cup Reinserted(i)
        /\ UNCHANGED <<m_recurring, unused, upc, fired, cancelled, timeout>>
    BY DEF CollectExpired, ghostVars
  <1>2. /\ expired'[i] = {} /\ cbs'[i] = {t \in expired[i] : m_cb[t]}
        /\ \A j \in Idlers \ {i} : expired'[j] = expired[j] /\ cbs'[j] = cbs[j]
    BY <1>1 DEF PInv, TypeOK
  <1>3. Reinserted(i) \subseteq expired[i] /\ expired[i] \subseteq Timers \ unused
    <2>1. \A t \in expired[i] : t \in Timers \ unused
      BY DEF PInv, TypeOK, Fresh, Waiting
    <2> QED BY <2>1 DEF Reinserted
  <1>4. TypeOK'
    <2>1. m_timers' \subseteq Timers \ unused'
      BY <1>1, <1>3 DEF PInv, TypeOK
    <2>2. cbs' \in [Idlers -> SUBSET Timers] /\ expired' \in [Idlers -> SUBSET Timers]
      BY <1>1, <1>3 DEF PInv, TypeOK
    <2>3. cur' \in [Idlers -> -MaxLate .. 0]
      <3>1. 0 \in -MaxLate .. 0
        BY TimerAssumption
      <3> QED BY <3>1 DEF CollectExpired, PInv, TypeOK
    <2>4. m_next' \in [Timers -> Int]
      <3>1. cur[i] \in Int
        BY TimerAssumption DEF PInv, TypeOK
      <3>2. \A t \in Timers : cur[i] + m_ms[t] \in Int /\ m_next[t] \in Int
        BY <3>1, IntervalIsNat DEF PInv, TypeOK
      <3> QED BY <3>2 DEF CollectExpired
    <2>5. ipc' \in [Idlers -> {"out", "next", "sleep", "list", "collect", "deliver"}]
      BY DEF CollectExpired, PInv, TypeOK
    <2> QED BY <2>1, <2>2, <2>3, <2>4, <2>5 DEF CollectExpired, PInv, TypeOK, pipeVars, ghostVars
  <1>5. TimeoutFits'
    BY <1>1 DEF PInv, TimeoutFits
  <1>6. \A s \in Timers, v \in Users : Adding(s, v)' <=> Adding(s, v)
    BY <1>1 DEF Adding
  <1>7. ASSUME NEW s \in Timers PROVE Fresh(s)' /\ Apart(s)' /\ Outcome(s)' /\ Late(s)'
    <2>1. Waiting(s)' => Waiting(s)
      BY <1>1, <1>2, <1>3, <1>6 DEF Waiting
    <2>2. Called(s)' => Called(s) \/ s \in expired[i]
      BY <1>2 DEF Called
    <2>3. Fresh(s)'
      BY <1>1, <1>3, <2>1, <2>2 DEF PInv, Fresh
    <2>4. CASE s \in expired[i]
      <3>1. s \notin m_timers /\ (\A j \in Idlers \ {i} : s \notin expired[j]) /\ \A u \in Users : ~Adding(s, u)
        BY <2>4 DEF PInv, Apart
      <3>2. \A j \in Idlers : s \notin expired'[j]
        BY <1>2, <3>1
      <3>3. Apart(s)'
        BY <1>6, <3>1, <3>2 DEF Apart
      <3>4. Waiting(s)
        BY <2>4 DEF Waiting
      <3>5. ~m_recurring[s] => ~Waiting(s)' /\ ~Called(s)
        <4>1. ~m_recurring[s] => s \notin m_timers'
          BY <1>1, <3>1 DEF Reinserted
        <4>2. ~m_recurring[s] => ~Called(s)
          BY <3>4 DEF PInv, Outcome
        <4> QED BY <1>6, <3>1, <3>2, <4>1, <4>2 DEF Waiting
      <3>6. Outcome(s)'
        BY <1>1, <1>2, <3>4, <3>5 DEF PInv, Outcome, Called
      <3>7. Late(s)'
        <4>1. ~m_recurring[s] => m_next'[s] = m_next[s] /\ m_next[s] <= now
          BY <2>4 DEF CollectExpired, Reinserted, PInv, Late
        <4> QED BY <1>1, <4>1 DEF Late, now
      <3> QED BY <2>3, <3>3, <3>6, <3>7
    <2>5. CASE s \notin expired[i]
      <3>1. m_next'[s] = m_next[s] /\ (s \in m_timers' <=> s \in m_timers)
        BY <1>1, <1>3, <2>5 DEF CollectExpired
      <3>2. \A j \in Idlers : (s \in expired'[j] <=> s \in expired[j]) /\ (s \in cbs'[j] => s \in cbs[j])
        BY <1>2, <2>5
      <3>3. Called(s)' => Called(s)
        BY <3>2 DEF Called
      <3>4. Apart(s)'
        BY <1>6, <3>1, <3>2 DEF PInv, Apart
      <3>5. Outcome(s)'
        BY <1>1, <2>1, <3>2, <3>3 DEF PInv, Outcome
      <3>6. Late(s)'
        BY <1>1, <3>1, <3>2 DEF PInv, Late, now
      <3> QED BY <2>3, <3>4, <3>5, <3>6
    <2> QED BY <2>4, <2>5
  <1> QED BY <1>4, <1>5, <1>7 DEF PInv

LEMMA Delivers ==
  ASSUME PInv, NEW i \in Idlers, Deliver(i)
  PROVE  PInv'
  <1>1. /\ cbs'[i] = {} /\ \A j \in Idlers \ {i} : cbs'[j] = cbs[j]
        /\ \A t \in Timers : fired'[t] = IF t \in cbs[i] /\ ~m_recurring[t] /\ fired[t] < MaxFired
                                         THEN fired[t] + 1 ELSE fired[t]
    BY DEF Deliver, PInv, TypeOK
  <1>2. UNCHANGED <<timerVars, upc, timeout, expired, cancelled>>
    BY DEF Deliver
  <1>3. TypeOK'
    <2>1. fired' \in [Timers -> 0 .. MaxFired]
      <3>1. \A n \in 0 .. MaxFired : n < MaxFired => n + 1 \in 0 .. MaxFired
        BY TimerAssumption
      <3> QED BY <3>1 DEF Deliver, PInv, TypeOK
    <2>2. bytes' \in BOOLEAN
      <3>1. bytes' = (bytes /\ ~piped[i])
        BY DEF Deliver
      <3> QED BY <3>1, Zenon
    <2>3. cbs' \in [Idlers -> SUBSET Timers] /\ piped' \in [Idlers -> BOOLEAN]
      BY DEF Deliver, PInv, TypeOK
    <2>4. ipc' \in [Idlers -> {"out", "next", "sleep", "list", "collect", "deliver"}]
      BY DEF Deliver, PInv, TypeOK
    <2> QED BY <2>1, <2>2, <2>3, <2>4 DEF Deliver, PInv, TypeOK, timerVars
  <1>4. TimeoutFits'
    BY <1>2 DEF PInv, TimeoutFits
  <1>5. ASSUME NEW s \in Timers PROVE Fresh(s)' /\ Apart(s)' /\ Outcome(s)' /\ Late(s)'
    <2>1. Waiting(s)' <=> Waiting(s)
      BY <1>2 DEF Waiting, Adding, timerVars
    <2>2. \A j \in Idlers : s \in cbs'[j] => s \in cbs[j] /\ j # i
      BY <1>1
    <2>3. Called(s)' => Called(s)
      BY <2>2 DEF Called
    <2>4. Apart(s)'
      BY <1>2 DEF PInv, Apart, Adding, timerVars
    <2>5. Late(s)'
      BY <1>2, <2>2 DEF PInv, Late, timerVars, now
    <2>6. CASE s \in cbs[i] /\ ~m_recurring[s]
      <3>1. Called(s)
        BY <2>6 DEF Called
      <3>2. ~Waiting(s) /\ fired[s] = 0 /\ s \notin cancelled /\ s \notin unused
        BY <2>6, <3>1 DEF PInv, Outcome, Fresh
      <3>3. ~Called(s)'
        BY <2>2, <2>6 DEF Called, PInv, Outcome
      <3>4. fired'[s] = 1
        BY <1>1, <2>6, <3>2, TimerAssumption
      <3>5. Outcome(s)'
        BY <1>2, <2>1, <2>2, <3>2, <3>3, <3>4 DEF Outcome, Called
      <3> QED BY <1>2, <2>4, <2>5, <3>2, <3>5 DEF Fresh, timerVars
    <2>7. CASE ~(s \in cbs[i] /\ ~m_recurring[s])
      <3>1. fired'[s] = fired[s]
        BY <1>1, <2>7
      <3>2. Fresh(s)'
        BY <1>2, <2>1, <2>3, <3>1 DEF PInv, Fresh, timerVars
      <3>3. Outcome(s)'
        BY <1>2, <2>1, <2>2, <2>3, <3>1 DEF PInv, Outcome, timerVars
      <3> QED BY <2>4, <2>5, <3>2, <3>3
    <2> QED BY <2>6, <2>7
  <1> QED BY <1>3, <1>4, <1>5 DEF PInv

LEMMA PInvStep == PInv /\ [Next]_vars => PInv'
  <1> SUFFICES ASSUME PInv, [Next]_vars PROVE PInv' OBVIOUS
  <1>1. CASE Tick
    BY <1>1, Ticks
  <1>2. ASSUME NEW u \in Users, UserStep(u) \/ UserRest(u) PROVE PInv'
    BY <1>2, AddsTimer, Cancels, Refreshes, Resets, Tickles, Inserts DEF UserStep, UserRest
  <1>3. ASSUME NEW i \in Idlers, IdleStep(i) \/ Interrupt(i) PROVE PInv'
    BY <1>3, IdlesOn, Lists, Collects, Delivers DEF IdleStep
  <1>4. CASE UNCHANGED vars
    <2>1. UNCHANGED <<timerVars, m_tickled, upc, idleVars, pipeVars, ghostVars>>
      BY <1>4 DEF vars
    <2>2. TypeOK' /\ TimeoutFits' /\ \A t \in Timers : Late(t)'
      BY <2>1 DEF timerVars, idleVars, pipeVars, ghostVars, PInv, TypeOK, TimeoutFits, Late, now
    <2> QED BY <2>1, <2>2, StayPut DEF timerVars, idleVars, ghostVars, Adding
  <1> QED BY <1>1, <1>2, <1>3, <1>4 DEF Next

LEMMA PInvAlways == Spec => []PInv
  BY PInvInit, PInvStep, PTL DEF Spec

\* The variables keep their types; a Timer in the set is one that was constructed.
THEOREM TypeCorrect == Spec => []TypeOK
  BY PInvAlways, PTL DEF PInv

\* A timer is pending, or taken out by one idler, or by one addTimer() or reset(),
\* never in two of these places, whatever the threads do between the locks.
THEOREM InOnePlace == Spec => []OnePlace
  <1>1. ASSUME PInv, NEW t \in Timers PROVE Cardinality(Places(t)) <= 1
    <2>1. Places(t) = {} \/ \E x : Places(t) = {x}
      <3> DEFINE A == IF t \in m_timers THEN {"set"} ELSE {}
                 B == {i \in Idlers : t \in expired[i]}
                 C == {u \in Users : upc[u].op \in {"add", "insert"} /\ upc[u].timer = t}
      <3>1. (\A x, y \in A : x = y) /\ (\A x, y \in B : x = y) /\ (\A x, y \in C : x = y)
        BY <1>1 DEF PInv, Apart, Adding
      <3>2. (A # {} => B = {} /\ C = {}) /\ (B # {} => C = {})
        BY <1>1 DEF PInv, Apart, Adding
      <3>3. Places(t) = A \cup B \cup C
        BY DEF Places
      <3> HIDE DEF A, B, C
      <3>4. \A x, y \in Places(t) : x = y
        BY <3>1, <3>2, <3>3
      <3> QED BY <3>4
    <2>2. Cardinality({}) = 0 /\ \A x : Cardinality({x}) = 1
      BY FS_EmptySet, FS_Singleton
    <2> QED BY <2>1, <2>2
  <1>2. PInv => OnePlace
    BY <1>1 DEF OnePlace
  <1> QED BY <1>2, PInvAlways, PTL

\* A one-shot timer is scheduled at most once, and not at all if a cancel() of it
\* returned true.
THEOREM OutcomeOnce == Spec => []OneOutcome
  <1>1. ASSUME PInv, NEW t \in Timers, ~m_recurring[t]
        PROVE  fired[t] + (IF t \in cancelled THEN 1 ELSE 0) <= 1
    <2>1. fired[t] <= 1 /\ (t \in cancelled => fired[t] = 0) /\ fired[t] \in Nat
      BY <1>1 DEF PInv, Outcome, TypeOK
    <2> QED BY <2>1
  <1>2. PInv => OneOutcome
    BY <1>1 DEF OneOutcome
  <1> QED BY <1>2, PInvAlways, PTL

\* No one-shot timer fires before the time it was last set to.
THEOREM FiresLate == Spec => NeverEarly
  <1>1. ASSUME PInv, [Next]_vars, NEW t \in Timers, fired'[t] > fired[t]
        PROVE  m_next[t] <= now
    <2>1. fired' # fired
      BY <1>1 DEF PInv, TypeOK
    <2>2. PICK i \in Idlers : Deliver(i)
      <3>1. \A u \in Users : UserStep(u) \/ UserRest(u) => fired' = fired
        BY DEF UserStep, UserRest, AddTimer, Cancel, Refresh, Reset, Tickle, AddTimerVal, ghostVars
      <3>2. \A i \in Idlers : IdleStep(i) \/ Interrupt(i) => fired' = fired \/ Deliver(i)
        BY DEF IdleStep, EnterIdle, GetNextTimer, TimeOut, Tickled, ListExpired, CollectExpired, Interrupt, ghostVars
      <3>3. Tick \/ UNCHANGED vars => fired' = fired
        BY DEF Tick, vars, ghostVars
      <3> QED BY <1>1, <2>1, <3>1, <3>2, <3>3 DEF Next
    <2>3. t \in cbs[i] /\ ~m_recurring[t]
      <3>1. fired'[t] = IF t \in cbs[i] /\ ~m_recurring[t] /\ fired[t] < MaxFired THEN fired[t] + 1 ELSE fired[t]
        BY <2>2 DEF Deliver
      <3> QED BY <1>1, <3>1 DEF PInv, TypeOK
    <2> QED BY <1>1, <2>3 DEF PInv, Late
  <1>2. PInv /\ [Next]_vars => [\A t \in Timers : fired'[t] > fired[t] => m_next[t] <= now]_vars
    BY <1>1
  <1> QED BY <1>2, PInvAlways, PTL DEF Spec, NeverEarly

-----------------------------------------------------------------------------
(* No timer is slept through.                                               *)

Covers(i) == \A t \in m_timers : aim[i] <= m_next[t] \/ aim[i] <= now

CInv == TickleOnTheWay /\ SleeperCovers

\* A step of an idler that does not end in a sleep.
LEMMA NotAsleep ==
  ASSUME NEW i \in Idlers, ipc'[i] # "sleep"
  PROVE  CInv'
  BY DEF CInv, TickleOnTheWay, SleeperCovers, AllSleep

LEMMA CoverTick ==
  ASSUME PInv, CInv, Tick
  PROVE  CInv'
  <1>1. UNCHANGED <<ipc, m_tickled, bytes, edge, upc, pulled, m_timers>>
    BY DEF Tick, pipeVars, ghostVars
  <1>2. TickleOnTheWay'
    BY <1>1 DEF CInv, TickleOnTheWay, AllSleep
  <1>3. ASSUME AllSleep, NEW i \in Idlers, Covers(i)
        PROVE  Covers(i)'
    <2>1. \A m, n \in Int : m <= n => Nearer(m) <= Nearer(n)
      BY TimerAssumption DEF Nearer
    <2>2. \A m \in Int : m <= 0 => Nearer(m) <= 0
      BY TimerAssumption DEF Nearer
    <2>3. aim[i] \in Int /\ aim'[i] = Nearer(aim[i])
      BY <1>3 DEF PInv, TypeOK, Tick, AllSleep
    <2>4. \A t \in m_timers : m_next[t] \in Int /\ m_next'[t] = Nearer(m_next[t])
      BY DEF PInv, TypeOK, Tick
    <2> QED BY <1>1, <1>3, <2>1, <2>2, <2>3, <2>4 DEF Covers, now
  <1>4. SleeperCovers'
    <2>1. AllSleep' <=> AllSleep
      BY <1>1 DEF AllSleep
    <2> QED BY <1>1, <1>3, <2>1 DEF CInv, SleeperCovers, Covers
  <1> QED BY <1>2, <1>4 DEF CInv

\* A user step that announces nothing and pulls nothing forward.
LEMMA CoverKeeps ==
  ASSUME PInv, CInv, UNCHANGED <<ipc, aim, m_tickled, bytes, edge>>,
         \A u \in Users : upc[u].op = "tickle" => upc'[u].op = "tickle",
         \A t \in m_timers' : t \in m_timers /\ (pulled' = {} => m_next[t] <= m_next'[t]),
         m_next' \in [Timers -> Int],
         pulled' = {} => pulled = {}
  PROVE  CInv'
  <1>1. AllSleep' <=> AllSleep
    BY DEF AllSleep
  <1>2. TickleOnTheWay'
    BY <1>1 DEF CInv, TickleOnTheWay
  <1>3. ASSUME AllSleep, pulled' = {}, NEW i \in Idlers, Covers(i)
        PROVE  Covers(i)'
    <2> SUFFICES ASSUME NEW t \in m_timers' PROVE aim[i] <= m_next'[t] \/ aim[i] <= now
      BY DEF Covers, now
    <2>1. t \in m_timers /\ m_next[t] <= m_next'[t] /\ t \in Timers
      BY <1>3 DEF PInv, TypeOK
    <2>2. m_next[t] \in Int /\ m_next'[t] \in Int /\ aim[i] \in Int
      BY <2>1 DEF PInv, TypeOK
    <2> QED BY <1>3, <2>1, <2>2 DEF Covers
  <1>4. SleeperCovers'
    BY <1>1, <1>3 DEF CInv, SleeperCovers, Covers
  <1> QED BY <1>2, <1>4 DEF CInv

LEMMA CoverInsert ==
  ASSUME PInv, CInv, NEW u \in Users, AddTimerVal(u)
  PROVE  CInv'
  <1>1. PICK t \in Timers : t = upc[u].timer
    BY DEF AddTimerVal, PInv, TypeOK, Ready
  <1>2. /\ m_timers' = m_timers \cup {t}
        /\ UNCHANGED <<m_next, ipc, aim, bytes, edge, pulled>>
        /\ upc[u].op # "tickle"
    BY <1>1 DEF AddTimerVal, idleVars, pipeVars, ghostVars
  <1>3. AllSleep' <=> AllSleep
    BY <1>2 DEF AllSleep
  <1>4. CASE m_tickled
    <2>1. m_tickled' /\ upc' = [upc EXCEPT ![u] = Ready]
      BY <1>4 DEF AddTimerVal
    <2>2. \A v \in Users : upc[v].op = "tickle" => upc'[v].op = "tickle"
      BY <1>2, <2>1 DEF PInv, TypeOK
    <2> QED BY <1>2, <1>3, <1>4, <2>1, <2>2 DEF CInv, TickleOnTheWay, SleeperCovers
  <1>5. CASE ~m_tickled /\ IsFront(t)
    <2>1. m_tickled' /\ upc' = [upc EXCEPT ![u] = [op |-> "tickle"]]
      BY <1>1, <1>5 DEF AddTimerVal, AtFront
    <2>2. upc'[u].op = "tickle"
      BY <2>1 DEF PInv, TypeOK
    <2> QED BY <2>1, <2>2 DEF CInv, TickleOnTheWay, SleeperCovers
  <1>6. CASE ~m_tickled /\ ~IsFront(t)
    <2>1. ~m_tickled'
      BY <1>1, <1>6 DEF AddTimerVal, AtFront
    <2>2. PICK s \in m_timers : ~Before(t, s)
      BY <1>6 DEF IsFront
    <2>3. m_next[s] \in Int /\ m_next[t] \in Int /\ m_next[s] <= m_next[t]
      BY <2>2 DEF PInv, TypeOK, Before
    <2>4. ASSUME NEW i \in Idlers, Covers(i) PROVE Covers(i)'
      <3>1. aim[i] \in Int
        BY DEF PInv, TypeOK
      <3>2. aim[i] <= m_next[t] \/ aim[i] <= now
        BY <2>2, <2>3, <2>4, <3>1 DEF Covers, now
      <3> QED BY <1>2, <2>4, <3>2 DEF Covers, now
    <2> QED BY <1>2, <1>3, <1>6, <2>1, <2>4 DEF CInv, TickleOnTheWay, SleeperCovers, Covers
  <1> QED BY <1>4, <1>5, <1>6

LEMMA CoverUser ==
  ASSUME PInv, CInv, PInv', NEW u \in Users, UserStep(u)
  PROVE  CInv'
  <1>1. PICK t \in Timers :
        \/ \E ms \in Intervals, recurring \in BOOLEAN : AddTimer(u, t, ms, recurring)
        \/ Cancel(u, t)
        \/ Refresh(u, t)
        \/ \E ms \in Intervals, from_now \in BOOLEAN : Reset(u, t, ms, from_now)
    BY DEF UserStep
  <1>2. UNCHANGED <<ipc, aim, m_tickled, bytes, edge>> /\ upc[u] = Ready /\ m_next' \in [Timers -> Int]
    BY <1>1 DEF AddTimer, Cancel, Refresh, Reset, idleVars, pipeVars, PInv, TypeOK
  <1>3. \A v \in Users : upc[v].op = "tickle" => upc'[v].op = "tickle"
    <2>1. \A v \in Users \ {u} : upc'[v] = upc[v]
      BY <1>1 DEF AddTimer, Cancel, Refresh, Reset, PInv, TypeOK
    <2> QED BY <1>2, <2>1 DEF Ready
  <1>4. \A s \in m_timers : m_next[s] \in Int /\ s \in Timers /\ s \notin unused
    BY DEF PInv, TypeOK
  <1>5. CASE \E ms \in Intervals, recurring \in BOOLEAN : AddTimer(u, t, ms, recurring)
    <2>1. m_timers' = m_timers /\ pulled' = pulled /\ \A s \in m_timers : m_next'[s] = m_next[s]
      BY <1>4, <1>5 DEF AddTimer, ghostVars, PInv, TypeOK
    <2> QED BY <1>2, <1>3, <1>4, <2>1, CoverKeeps
  <1>6. CASE Cancel(u, t)
    <2>1. m_timers' \subseteq m_timers /\ pulled' = pulled /\ m_next' = m_next
      BY <1>6 DEF Cancel, SetWithout
    <2> QED BY <1>2, <1>3, <1>4, <2>1, CoverKeeps
  <1>7. CASE Refresh(u, t)
    <2>1. m_timers' = m_timers /\ \A s \in Timers \ {t} : m_next'[s] = m_next[s]
      BY <1>7 DEF Refresh, PInv, TypeOK
    <2>2. pulled' = {} => pulled = {} /\ ~(m_next'[t] < m_next[t])
      BY <1>7 DEF Refresh
    <2>3. m_next[t] \in Int /\ m_next'[t] \in Int
      BY <1>2 DEF PInv, TypeOK
    <2>4. \A s \in m_timers' : s \in m_timers /\ (pulled' = {} => m_next[s] <= m_next'[s])
      BY <1>4, <2>1, <2>2, <2>3
    <2> QED BY <1>2, <1>3, <2>2, <2>4, CoverKeeps
  <1>8. CASE \E ms \in Intervals, from_now \in BOOLEAN : Reset(u, t, ms, from_now)
    <2>1. m_timers' = m_timers \ {t} /\ pulled' = pulled /\ \A s \in Timers \ {t} : m_next'[s] = m_next[s]
      BY <1>8 DEF Reset, SetWithout, ghostVars, PInv, TypeOK
    <2> QED BY <1>2, <1>3, <1>4, <2>1, CoverKeeps
  <1> QED BY <1>1, <1>5, <1>6, <1>7, <1>8

LEMMA CoverTickle ==
  ASSUME PInv, CInv, NEW u \in Users, Tickle(u)
  PROVE  CInv'
  <1>1. UNCHANGED <<ipc, aim, m_tickled, m_timers, m_next, pulled>>
    BY DEF Tickle, idleVars, timerVars, ghostVars
  <1>2. AllSleep => bytes' /\ edge'
    BY TimerAssumption DEF Tickle, AllSleep
  <1> QED BY <1>1, <1>2 DEF CInv, TickleOnTheWay, SleeperCovers, AllSleep, now

LEMMA CoverSleep ==
  ASSUME PInv, CInv, NEW i \in Idlers, IdleStep(i) \/ Interrupt(i)
  PROVE  CInv'
  <1>1. CASE GetNextTimer(i)
    <2>1. PICK wait \in Nat :
            /\ aim' = [aim EXCEPT ![i] = wait]
            /\ \A t \in m_timers : wait <= m_next[t] \/ wait <= now
      BY <1>1, WaitFits
    <2>2. aim'[i] = wait /\ ~m_tickled' /\ m_timers' = m_timers /\ m_next' = m_next
      BY <1>1, <2>1 DEF GetNextTimer, ClearTickled, timerVars, PInv, TypeOK
    <2> QED BY <2>1, <2>2 DEF CInv, TickleOnTheWay, SleeperCovers, now
  <1>2. CASE Interrupt(i)
    BY <1>2 DEF Interrupt, timerVars, pipeVars, ghostVars, CInv, TickleOnTheWay, SleeperCovers, AllSleep, now
  <1>3. CASE EnterIdle(i) \/ TimeOut(i) \/ Tickled(i) \/ ListExpired(i) \/ CollectExpired(i) \/ Deliver(i)
    <2>1. ipc'[i] # "sleep"
      BY <1>3 DEF EnterIdle, TimeOut, Tickled, Awake, ListExpired, CollectExpired, Deliver, PInv, TypeOK
    <2> QED BY <2>1, NotAsleep
  <1> QED BY <1>1, <1>2, <1>3 DEF IdleStep

LEMMA CInvStep == PInv /\ PInv' /\ CInv /\ [Next]_vars => CInv'
  <1> SUFFICES ASSUME PInv, PInv', CInv, [Next]_vars PROVE CInv' OBVIOUS
  <1>1. CASE Tick
    BY <1>1, CoverTick
  <1>2. ASSUME NEW u \in Users, UserStep(u) \/ UserRest(u) PROVE CInv'
    BY <1>2, CoverUser, CoverTickle, CoverInsert DEF UserRest
  <1>3. ASSUME NEW i \in Idlers, IdleStep(i) \/ Interrupt(i) PROVE CInv'
    BY <1>3, CoverSleep
  <1>4. CASE UNCHANGED vars
    BY <1>4 DEF vars, timerVars, idleVars, pipeVars, ghostVars, CInv, TickleOnTheWay, SleeperCovers, AllSleep, now
  <1> QED BY <1>1, <1>2, <1>3, <1>4 DEF Next

\* When every idler sleeps, one of them wakes up for the earliest timer, or a
\* tickle is on the way: addTimer() sees in m_tickled that the sleepers' last
\* getNextTimer() came after the last announcement.
THEOREM EarliestIsCovered == Spec => []EarliestCovered
  <1>1. Init => CInv
    <2> SUFFICES ASSUME Init PROVE CInv OBVIOUS
    <2>1. PICK i \in Idlers : TRUE
      BY TimerAssumption
    <2>2. ipc[i] = "out"
      BY DEF Init
    <2> QED BY <2>2 DEF CInv, TickleOnTheWay, SleeperCovers, AllSleep
  <1>2. CInv => EarliestCovered
    BY DEF CInv, TickleOnTheWay, SleeperCovers, AllSleep, EarliestCovered
  <1> QED BY <1>1, <1>2, CInvStep, PInvAlways, PTL DEF Spec
===========================================================================
