------------------------------- MODULE RetryProofs -------------------------------
(***************************************************************************)
(* Proofs about the retry loops, for durations of any width, any delays,   *)
(* caps and limits: that the waits are those documented, as long as they   *)
(* fit into a duration, and that the end of the context stops the loop.    *)
(***************************************************************************)
EXTENDS RetryProperties, WellFoundedInduction, TLAPS

-----------------------------------------------------------------------------
(* Arithmetic.                                                             *)

\* Every non-empty set of natural numbers has a least member.
LEMMA LeastMember ==
  ASSUME NEW T \in SUBSET Nat, T # {}
  PROVE  \E m \in T : \A k \in T : m <= k
<1>1. PICK m \in T : \A k \in T : ~(<<k, m>> \in OpToRel(<, Nat))
  BY NatLessThanWellFounded, WFMin
<1>2. OpToRel(<, Nat) = {ss \in Nat \X Nat : ss[1] < ss[2]}
  BY Zenon DEF OpToRel
<1>3. \A k \in Nat : k < m => <<k, m>> \in OpToRel(<, Nat)
  BY <1>2
<1>4. ASSUME NEW k \in T PROVE m <= k
  <2>1. k \in Nat /\ m \in Nat
    OBVIOUS
  <2>2. ~(k < m)
    BY <2>1, <1>1, <1>3
  <2>3. QED
    BY <2>1, <2>2
<1>5. QED
  BY <1>4

LEMMA Doubled == ASSUME NEW d \in Int, NEW x \in Int PROVE d * (2 * x) = 2 * (d * x)
  OBVIOUS

LEMMA TimesMore ==
  ASSUME NEW d \in Nat, NEW x \in Int, NEW y \in Int, x <= y PROVE d * x <= d * y
  OBVIOUS

\* How far a loop can count.
Bound == Limit \cup {MaxCount}

LEMMA BoundType == Bound \subseteq Int /\ MaxCount \in Bound /\ Width \in Nat /\ Width > 2
  BY RetryAssumption DEF Bound, MaxCount

LEMMA PowerType == ASSUME NEW n \in Nat PROVE 2^n \in Int
  OBVIOUS

LEMMA PowerNext == ASSUME NEW l \in Bound, NEW n \in 0..l PROVE 2^(n + 1) = 2 * 2^n
  BY PowerAssumption DEF Bound

\* Powers of two are positive, and grow.
LEMMA PowerPositive ==
  ASSUME NEW l \in Bound, NEW n \in 0..l PROVE 2^n \in Int /\ 2^n >= 1
<1> l \in Int
  BY BoundType
<1> DEFINE T == {k \in 0..l : 2^k < 1}
<1>1. SUFFICES ASSUME T # {} PROVE FALSE
  <2>1. T = {} => n \notin T
    OBVIOUS
  <2>2. n \notin T => ~(2^n < 1)
    OBVIOUS
  <2>3. 2^n \in Int
    BY PowerType
  <2>4. ~(2^n < 1) => 2^n >= 1
    BY <2>3
  <2>5. QED
    BY <2>1, <2>2, <2>3, <2>4
<1>2. PICK m \in T : \A k \in T : m <= k
  <2>1. T \in SUBSET Nat
    OBVIOUS
  <2>2. QED
    BY <1>1, <2>1, LeastMember
<1>3. m # 0
  <2>1. 2^0 = 1
    OBVIOUS
  <2>2. m = 0 => 2^m = 1
    BY <2>1, Zenon
  <2>3. 2^m < 1
    BY <1>2, Zenon
  <2>4. QED
    BY <2>2, <2>3
<1>4. m - 1 \in 0..l /\ m - 1 \notin T /\ (m - 1) + 1 = m
  BY <1>2, <1>3
<1>5. 2^m = 2 * 2^(m - 1)
  BY <1>4, PowerNext
<1>6. 2^(m - 1) \in Int /\ 2^(m - 1) >= 1
  BY <1>4, PowerType
<1>7. QED
  BY <1>5, <1>6

LEMMA PowerMonotone ==
  ASSUME NEW l \in Bound, NEW m \in 0..l, NEW n \in 0..l, m <= n PROVE 2^m <= 2^n
<1> l \in Int
  BY BoundType
<1> DEFINE T == {k \in m..l : ~(2^m <= 2^k)}
<1>1. SUFFICES ASSUME T # {} PROVE FALSE
  OBVIOUS
<1>2. PICK k \in T : \A j \in T : k <= j
  <2>1. T \in SUBSET Nat
    OBVIOUS
  <2>2. QED
    BY <1>1, <2>1, LeastMember
<1>3. k # m
  BY PowerType
<1>4. k - 1 \in m..l /\ k - 1 \in 0..l /\ k - 1 \notin T /\ (k - 1) + 1 = k
  BY <1>2, <1>3
<1>5. 2^k = 2 * 2^(k - 1)
  BY <1>4, PowerNext
<1>6. 2^(k - 1) \in Int /\ 2^(k - 1) >= 1 /\ 2^m \in Int
  BY <1>4, PowerPositive
<1>7. 2^m <= 2^(k - 1)
  BY <1>4
<1>8. 2^m <= 2^k
  BY <1>5, <1>6, <1>7
<1>9. QED
  BY <1>8

-----------------------------------------------------------------------------
(* Durations.                                                              *)

\* The half of the largest duration.
Half == 2^(Width - 2)

LEMMA WidthFacts ==
  /\ Half \in Int /\ Half >= 1
  /\ Top = 2 * Half - 1
  /\ 2^Width = 4 * Half
  /\ 2^(Width + 1) = 8 * Half
<1>1. Width - 2 \in 0..MaxCount /\ Width - 1 \in 0..MaxCount /\ Width \in 0..MaxCount
  BY BoundType DEF MaxCount
<1>2. Half \in Int /\ Half >= 1
  BY <1>1, BoundType, PowerPositive DEF Half
<1>3. 2^((Width - 2) + 1) = 2 * Half
  BY <1>1, BoundType, PowerNext DEF Half
<1>4. 2^((Width - 1) + 1) = 2 * 2^(Width - 1)
  BY <1>1, BoundType, PowerNext
<1>5. 2^(Width + 1) = 2 * 2^Width
  BY <1>1, BoundType, PowerNext
<1>6. (Width - 2) + 1 = Width - 1 /\ (Width - 1) + 1 = Width
  BY BoundType
<1>7. 2^(Width - 1) = 2 * Half
  BY <1>3, <1>6
<1>8. 2^Width = 4 * Half
  BY <1>2, <1>4, <1>6, <1>7
<1>9. QED
  BY <1>2, <1>5, <1>7, <1>8 DEF Top

LEMMA WrapType == ASSUME NEW n \in Int PROVE Wrap(n) \in Int
<1> DEFINE M == 2^Width
<1>1. M \in Int /\ M > 0
  BY WidthFacts
<1>2. n % M \in Int
  <2> HIDE DEF M
  <2> QED
    BY <1>1
<1>3. QED
  BY <1>1, <1>2 DEF Wrap

\* What is a duration is left as it is.
LEMMA WrapSmall == ASSUME NEW n \in 0..Top PROVE Wrap(n) = n
<1> DEFINE M == 2^Width
<1>1. M \in Int /\ n \in Int /\ 0 <= n /\ n < M /\ n <= Top /\ Top \in Int
  BY WidthFacts
<1>2. n % M = n
  <2> HIDE DEF M
  <2> QED
    BY <1>1
<1>3. QED
  BY <1>1, <1>2 DEF Wrap

\* The pipeline's delay doubles, up to the largest duration.
LEMMA NextBackoffDelayIs ==
  ASSUME NEW d \in 1..Top PROVE NextBackoffDelay(d) = Smaller(2 * d, Top)
<1>1. Top \div 2 = Half - 1 /\ Top \in Int /\ Half \in Int
  BY WidthFacts
<1>2. CASE d > Top \div 2
  BY <1>1, <1>2, WidthFacts DEF NextBackoffDelay, Smaller
<1>3. CASE ~(d > Top \div 2)
  <2>1. 2 * d \in 0..Top
    BY <1>1, <1>3, WidthFacts
  <2>2. Wrap(2 * d) = 2 * d
    BY <2>1, WrapSmall
  <2>3. QED
    BY <1>3, <2>1, <2>2, <1>1 DEF NextBackoffDelay, Smaller
<1>4. QED
  BY <1>2, <1>3

\* The delay of Do's backoff, of which all but a product that is a duration is
\* only known to be positive and not above the cap.
LEMMA BackoffDelayIs ==
  ASSUME NEW c \in Config, c.delay > 0, NEW l \in Bound, NEW n \in 1..l
  PROVE  LET e == c.delay * 2^(n - 1)
             b == BackoffDelay(c, n)
             Cap(d) == IF c.maxDelay > 0 THEN Smaller(d, c.maxDelay) ELSE d
         IN /\ b \in Int /\ b > 0 /\ b = Cap(b)
            /\ e <= Top => b = Cap(e)
<1> DEFINE e == c.delay * 2^(n - 1)
           b == BackoffDelay(c, n)
           Cap(d) == IF c.maxDelay > 0 THEN Smaller(d, c.maxDelay) ELSE d
           s == Smaller(n - 1, Width - 2)
           w == Wrap(c.delay * 2^s)
<1>1. /\ c.delay \in Nat /\ c.maxDelay \in Int /\ l \in Int /\ n - 1 \in 0..l
      /\ Width \in Nat /\ Width > 2
  <2>1. c.delay \in Int /\ c.maxDelay \in Int
    BY RetryAssumption DEF Config
  <2>2. QED
    BY <2>1, BoundType
<1>2. w \in Int
  <2>1. s \in Nat
    BY <1>1 DEF Smaller
  <2>2. 2^s \in Int
    BY <2>1, PowerType
  <2>3. c.delay * 2^s \in Int
    BY <2>2, <1>1
  <2>4. QED
    BY <2>3, WrapType
<1>3. b = IF w <= 0 THEN IF c.maxDelay > 0 THEN c.maxDelay ELSE c.delay
          ELSE IF c.maxDelay > 0 /\ w > c.maxDelay THEN c.maxDelay ELSE w
  BY DEF BackoffDelay
<1>4. b \in Int /\ b > 0 /\ b = Cap(b)
  <2> HIDE DEF w, b
  <2>1. QED
    BY <1>1, <1>2, <1>3 DEF Smaller
<1>5. e \in Int /\ e > 0
  <2>1. 2^(n - 1) \in Int /\ 2^(n - 1) >= 1
    BY <1>1, PowerPositive
  <2>2. c.delay * 1 <= c.delay * 2^(n - 1)
    BY <2>1, <1>1, TimesMore
  <2>3. QED
    BY <2>1, <2>2, <1>1
<1>6. ASSUME e <= Top PROVE b = Cap(e)
  <2>1. n - 1 <= Width - 2
    <3>1. SUFFICES ASSUME Width - 1 <= n - 1 PROVE FALSE
      BY <1>1
    <3>2. Width - 1 \in 0..l
      BY <3>1, <1>1
    <3>3. 2^(Width - 1) <= 2^(n - 1)
      BY <3>1, <3>2, <1>1, PowerMonotone
    <3>4. 2^(Width - 1) \in Int /\ 2^(n - 1) \in Int
      BY <3>2, <1>1, PowerPositive
    <3>5. c.delay * 2^(n - 1) >= 2^(n - 1)
      <4>1. 2^(n - 1) >= 1
        BY <1>1, PowerPositive
      <4> DEFINE x == 2^(n - 1)
      <4> HIDE DEF x
      <4>2. c.delay * x >= x
        BY <4>1, <3>4, <1>1 DEF x
      <4>3. QED
        BY <4>2 DEF x
    <3>6. Top < 2^(Width - 1)
      BY <3>4 DEF Top
    <3>7. QED
      BY <1>5, <1>6, <3>3, <3>4, <3>5, <3>6, WidthFacts
  <2>2. s = n - 1
    BY <2>1, <1>1 DEF Smaller
  <2>3. w = e
    <3>1. e \in 0..Top
      BY <1>5, <1>6, WidthFacts
    <3>2. c.delay * 2^s = e
      BY <2>2
    <3>3. QED
      BY <3>1, <3>2, WrapSmall
  <2>4. QED
    <3> HIDE DEF w, b, e
    <3>1. QED
      BY <2>3, <1>1, <1>3, <1>5 DEF Smaller
<1>7. QED
  BY <1>4, <1>6

-----------------------------------------------------------------------------
(* Configurations.                                                         *)

LEMMA ConfigFacts ==
  ASSUME NEW c \in Config, Possible(c)
  PROVE  /\ c.delay \in Int /\ c.maxDelay \in Int /\ c.limit \in Limit /\ c.limit \in Int
         /\ InitialDelay(c) \in Int /\ InitialDelay(c) <= Top
         /\ Attempts(c) \in Int
         /\ Attempts(c) = c.limit \/ Attempts(c) = 1
         /\ c.loop \in {"Do", "runWithRetry", "workflow"}
         /\ c.loop = "Do" => InitialDelay(c) = c.delay
         /\ c.loop # "Do" => c.policy # "infinite" /\ c.maxDelay = 0
         /\ c.loop = "runWithRetry" => InitialDelay(c) > 0
         /\ c.loop = "workflow" /\ c.policy = "backoff" => InitialDelay(c) > 0
         /\ ~Invalid(c) => Endless(c) \/ Attempts(c) > 0
<1>1. /\ c.delay \in Int /\ c.maxDelay \in Int /\ c.limit \in Limit /\ c.limit \in Int
      /\ c.delay <= Top /\ Second \in Int /\ Second <= Top /\ Second > 0
  <2>1. c.delay \in Delay /\ c.maxDelay \in MaxDelay /\ c.limit \in Limit
    BY DEF Config
  <2>2. 2^(Width - 1) - 1 = Top /\ Top \in Int
    BY WidthFacts DEF Top
  <2> DEFINE h == 2^(Width - 1)
  <2>3. h \in Int
    BY BoundType, PowerType
  <2>4. Delay \cup MaxDelay \cup {Second} \subseteq -h..(h - 1)
    BY RetryAssumption
  <2>5. Second > 0 /\ Limit \subseteq Int
    BY RetryAssumption
  <2>6. QED
    <3> HIDE DEF h
    <3>1. h - 1 = Top /\ Top \in Int
      BY <2>2 DEF h
    <3>2. /\ c.delay \in -h..(h - 1) /\ c.maxDelay \in -h..(h - 1)
          /\ Second \in -h..(h - 1)
      BY <2>1, <2>4
    <3>3. \A t \in -h..(h - 1) : t \in Int /\ t <= Top
      BY <2>3, <3>1
    <3>4. c.limit \in Limit /\ c.limit \in Int
      BY <2>1, <2>5
    <3>5. QED
      BY <2>5, <3>2, <3>3, <3>4
<1>2. /\ c.loop \in {"Do", "runWithRetry", "workflow"}
      /\ c.policy \in {"linear", "backoff", "infinite"}
  BY DEF Config
<1>3. /\ InitialDelay(c) \in Int /\ InitialDelay(c) <= Top
      /\ c.loop = "Do" => InitialDelay(c) = c.delay
      /\ c.loop = "runWithRetry" => InitialDelay(c) > 0
      /\ c.loop = "workflow" /\ c.policy = "backoff" => InitialDelay(c) > 0
  BY <1>1, <1>2 DEF InitialDelay
<1>4. /\ Attempts(c) \in Int
      /\ Attempts(c) = c.limit \/ Attempts(c) = 1
      /\ ~Invalid(c) => Endless(c) \/ Attempts(c) > 0
  BY <1>1, <1>2 DEF Attempts, Invalid, Endless
<1>5. c.loop # "Do" => c.policy # "infinite" /\ c.maxDelay = 0
  BY DEF Possible
<1>6. QED
  BY <1>1, <1>2, <1>3, <1>4, <1>5

\* Every count that a loop comes to lies within a bound.
LEMMA CountBound ==
  ASSUME NEW c \in Config, Possible(c), NEW n \in Nat,
         Endless(c) => n <= MaxCount,
         Endless(c) \/ n <= Attempts(c)
  PROVE  \E l \in Bound : n <= l
<1>1. MaxCount \in Bound /\ MaxCount >= 1 /\ MaxCount \in Int
  BY BoundType DEF MaxCount
<1>2. CASE Endless(c)
  BY <1>1, <1>2
<1>3. CASE Attempts(c) = 1 /\ ~Endless(c)
  BY <1>1, <1>3
<1>4. CASE Attempts(c) = c.limit /\ ~Endless(c)
  BY <1>4, ConfigFacts DEF Bound
<1>5. QED
  BY <1>2, <1>3, <1>4, ConfigFacts

\* The exact delay starts at the configured one, and doubles.
LEMMA ExactFirst == ASSUME TypeOK PROVE Exact(1) = InitialDelay(conf)
<1>1. InitialDelay(conf) \in Int
  BY ConfigFacts DEF TypeOK
<1>2. 2^(1 - 1) = 1
  <2>1. 1 - 1 = 0 /\ 2^0 = 1
    OBVIOUS
  <2>2. QED
    BY <2>1, Zenon
<1>3. QED
  BY <1>1, <1>2 DEF Exact

LEMMA ExactNext ==
  ASSUME TypeOK, NEW l \in Bound, NEW n \in Nat, 1 <= n, n - 1 <= l
  PROVE  /\ Exact(n) \in Int /\ Exact(n + 1) \in Int
         /\ Exact(n + 1) = 2 * Exact(n)
         /\ InitialDelay(conf) > 0 => Exact(n) >= 1
<1> DEFINE d == InitialDelay(conf)
           x == 2^(n - 1)
<1>1. d \in Int
  BY ConfigFacts DEF TypeOK
<1>2. l \in Int /\ n - 1 \in 0..l
  BY BoundType
<1>3. x \in Int /\ x >= 1
  BY <1>2, PowerPositive
<1>4. 2^((n + 1) - 1) = 2 * x
  <2>1. 2^((n - 1) + 1) = 2 * x
    BY <1>2, PowerNext
  <2>2. (n - 1) + 1 = (n + 1) - 1
    OBVIOUS
  <2>3. QED
    BY <2>1, <2>2
<1>5. Exact(n) = d * x /\ Exact(n + 1) = d * (2 * x)
  BY <1>4 DEF Exact
<1>6. d * (2 * x) = 2 * (d * x)
  <2> HIDE DEF d, x
  <2>1. QED
    BY <1>1, <1>3, Doubled
<1>7. d * x \in Int
  <2> HIDE DEF d, x
  <2>1. QED
    BY <1>1, <1>3
<1>8. d > 0 => d * x >= 1
  <2> HIDE DEF d, x
  <2>1. ASSUME d > 0 PROVE d * 1 <= d * x
    BY <1>1, <1>3, <2>1, TimesMore
  <2>2. QED
    BY <1>1, <1>7, <2>1
<1>9. QED
  BY <1>5, <1>6, <1>7, <1>8

\* Beyond what is counted every delay has overflowed.
LEMMA ExactBeyond ==
  ASSUME TypeOK, InitialDelay(conf) > 0 PROVE Exact(MaxCount) \in Int /\ Exact(MaxCount) > Top
<1> DEFINE d == InitialDelay(conf)
           x == 2^(Width + 1)
<1>1. d \in Int /\ d >= 1
  BY ConfigFacts DEF TypeOK
<1>2. MaxCount - 1 = Width + 1
  BY BoundType DEF MaxCount
<1>3. Exact(MaxCount) = d * x
  BY <1>2 DEF Exact
<1>4. x = 8 * Half /\ Half \in Int /\ Half >= 1 /\ Top = 2 * Half - 1
  BY WidthFacts
<1>5. x \in Int /\ x >= 1 /\ x > Top
  <2> HIDE DEF x
  <2>1. QED
    BY <1>4
<1>6. d * x \in Int /\ d * x >= x
  <2> HIDE DEF d, x
  <2>1. 1 * x <= d * x
    BY <1>1, <1>5
  <2>2. QED
    BY <1>1, <1>5, <2>1
<1>7. Top \in Int
  BY WidthFacts
<1>8. QED
  <2> HIDE DEF d, x
  <2>1. QED
    BY <1>3, <1>5, <1>6, <1>7

-----------------------------------------------------------------------------
(* Types.                                                                  *)

LEMMA NextBackoffType == ASSUME NEW d \in Int PROVE NextBackoffDelay(d) \in Int
<1>1. Wrap(2 * d) \in Int /\ Top \in Int
  BY WrapType, WidthFacts
<1>2. QED
  BY <1>1 DEF NextBackoffDelay

LEMMA NextDelayType == ASSUME TypeOK PROVE NextDelay \in Int
<1>1. delay \in Int /\ Wrap(2 * delay) \in Int /\ NextBackoffDelay(delay) \in Int
  BY NextBackoffType, WrapType DEF TypeOK
<1>2. CASE conf.policy # "backoff" \/ conf.loop = "Do"
  BY <1>1, <1>2 DEF NextDelay
<1>3. CASE conf.policy = "backoff" /\ conf.loop = "runWithRetry"
  BY <1>1, <1>3 DEF NextDelay
<1>4. CASE conf.policy = "backoff" /\ conf.loop = "workflow"
  BY <1>1, <1>4 DEF NextDelay
<1>5. conf.loop \in {"Do", "runWithRetry", "workflow"}
  BY DEF TypeOK, Config
<1>6. QED
  BY <1>2, <1>3, <1>4, <1>5

LEMMA WaitType == ASSUME TypeOK, NEW n \in Nat, n >= 1 PROVE WaitAfter(n) \in Int
<1>1. delay \in Int /\ conf.delay \in Int /\ conf.maxDelay \in Int
  BY ConfigFacts DEF TypeOK
<1>2. 2^Smaller(n - 1, Width - 2) \in Int
  <2>1. Smaller(n - 1, Width - 2) \in Nat
    BY BoundType DEF Smaller
  <2>2. QED
    BY <2>1, PowerType
<1> DEFINE w == Wrap(conf.delay * 2^Smaller(n - 1, Width - 2))
<1>3. w \in Int
  <2>1. conf.delay * 2^Smaller(n - 1, Width - 2) \in Int
    BY <1>1, <1>2
  <2>2. QED
    BY <2>1, WrapType
<1>4. BackoffDelay(conf, n) \in Int
  <2>1. BackoffDelay(conf, n) =
          IF w <= 0 THEN IF conf.maxDelay > 0 THEN conf.maxDelay ELSE conf.delay
          ELSE IF conf.maxDelay > 0 /\ w > conf.maxDelay THEN conf.maxDelay ELSE w
    BY DEF BackoffDelay
  <2> HIDE DEF w
  <2>2. QED
    BY <1>1, <1>3, <2>1
<1>5. QED
  BY <1>1, <1>4 DEF WaitAfter

LEMMA CountType == ASSUME TypeOK PROVE Count(attempts) \in Nat
  BY BoundType DEF TypeOK, Count, Smaller, MaxCount

\* The types are kept.
LEMMA TypeInit == Init => TypeOK
<1> SUFFICES ASSUME Init PROVE TypeOK
  OBVIOUS
<1>1. conf \in Config /\ Possible(conf)
  BY DEF Init
<1>2. InitialDelay(conf) \in Int
  BY <1>1, ConfigFacts
<1>3. conf \in {c \in Config : Possible(c)}
  BY DEF Init
<1>4. delay \in Int /\ attempts \in Nat /\ wait \in Int /\ late \in 0..MaxLate
  BY <1>2 DEF Init, MaxLate
<1>5. /\ pc \in {"start", "check", "call", "wait", "done"}
      /\ cancelled \in BOOLEAN
      /\ ended \in {"never", "start", "check", "call", "wait"}
      /\ result \in {"none", "invalid", "context", "nil", "exit", "exhausted"}
  BY DEF Init
<1>6. QED
  BY <1>3, <1>4, <1>5 DEF TypeOK

LEMMA TypeStep == TypeOK /\ [Next]_vars => TypeOK'
<1> SUFFICES ASSUME TypeOK, [Next]_vars PROVE TypeOK'
  OBVIOUS
<1> USE DEF TypeOK
<1>1. CASE Start
  BY <1>1 DEF Start, Return
<1>2. CASE CheckContext
  BY <1>2 DEF CheckContext, Return
<1>3. CASE CallEnds
  BY <1>3 DEF CallEnds, Return, AttemptEnds, Smaller, MaxLate
<1>4. CASE CallFails
  <2>1. Count(attempts) \in Nat
    BY CountType
  <2>2. WaitAfter(attempts + 1) \in Int
    BY WaitType
  <2>3. pc' \in {"wait", "done"} /\ wait' \in Int
    BY <1>4, <2>2 DEF CallFails, Return
  <2>4. result' \in {"none", "invalid", "context", "nil", "exit", "exhausted"}
    BY <1>4 DEF CallFails, Return
  <2>5. late' \in 0..MaxLate
    BY <1>4 DEF CallFails, AttemptEnds, Smaller, MaxLate
  <2>6. QED
    BY <1>4, <2>1, <2>3, <2>4, <2>5 DEF CallFails
<1>5. CASE TimerFires
  BY <1>5, NextDelayType DEF TimerFires
<1>6. CASE WaitCancelled
  BY <1>6 DEF WaitCancelled, Return
<1>7. CASE Cancel
  BY <1>7 DEF Cancel
<1>8. CASE UNCHANGED vars
  BY <1>8 DEF vars
<1>9. QED
  BY <1>1, <1>2, <1>3, <1>4, <1>5, <1>6, <1>7, <1>8 DEF Next, LoopStep, Done

\* The variables have their types, whatever the configuration and the width of a
\* duration.
THEOREM RetryTypeCorrect == Spec => []TypeOK
<1>1. QED
  BY TypeInit, TypeStep, PTL DEF Spec

-----------------------------------------------------------------------------
(* Counting.                                                               *)

LEMMA CountedInit == Init => Counted
  BY BoundType DEF Init, Counted, MaxCount

LEMMA CountedStep == TypeOK /\ Counted /\ [Next]_vars => Counted'
<1> SUFFICES ASSUME TypeOK, Counted, [Next]_vars PROVE Counted'
  OBVIOUS
<1>1. /\ attempts \in Nat /\ Attempts(conf) \in Int
      /\ ~Invalid(conf) => Endless(conf) \/ Attempts(conf) > 0
      /\ MaxCount \in Nat /\ MaxCount >= 1
  BY ConfigFacts, BoundType DEF TypeOK, MaxCount
<1>2. CASE Start
  BY <1>1, <1>2 DEF Start, Return, Counted
<1>3. CASE CheckContext
  BY <1>1, <1>3 DEF CheckContext, Return, Counted
<1>4. CASE CallEnds
  BY <1>1, <1>4 DEF CallEnds, Return, Counted
<1>5. CASE CallFails
  <2>1. attempts' = Count(attempts) /\ conf' = conf
    BY <1>5 DEF CallFails
  <2>2. Endless(conf) => attempts' <= MaxCount /\ attempts' >= 1
    BY <1>1, <2>1 DEF Count, Smaller, Counted
  <2>3. ~Endless(conf) => attempts' = attempts + 1
    BY <2>1 DEF Count
  <2>4. pc' \in {"wait", "done"} /\ (pc' = "wait" => More(attempts + 1))
    BY <1>5 DEF CallFails, Return
  <2>5. QED
    BY <1>1, <2>1, <2>2, <2>3, <2>4 DEF Counted, More
<1>6. CASE TimerFires
  BY <1>1, <1>6 DEF TimerFires, Counted
<1>7. CASE WaitCancelled
  BY <1>1, <1>7 DEF WaitCancelled, Return, Counted
<1>8. CASE Cancel
  BY <1>1, <1>8 DEF Cancel, Counted
<1>9. CASE UNCHANGED vars
  BY <1>9 DEF vars, Counted
<1>10. QED
  BY <1>2, <1>3, <1>4, <1>5, <1>6, <1>7, <1>8, <1>9 DEF Next, LoopStep, Done

-----------------------------------------------------------------------------
(* Delays.                                                                 *)

\* Where a loop has got to, its exact delay is that of a count within a bound.
LEMMA HereBound ==
  ASSUME TypeOK, Counted, pc \in {"check", "call", "wait"}
  PROVE  \E l \in Bound : attempts <= l
<1>1. /\ conf \in Config /\ Possible(conf) /\ attempts \in Nat
      /\ Attempts(conf) \in Int
  BY ConfigFacts DEF TypeOK
<1>2. Endless(conf) => attempts <= MaxCount
  BY DEF Counted
<1>3. Endless(conf) \/ attempts <= Attempts(conf)
  BY <1>1 DEF Counted
<1>4. QED
  BY <1>1, <1>2, <1>3, CountBound

\* The delay that is kept after the n-th wait is that of the next one.
LEMMA KeepsNext ==
  ASSUME TypeOK, NEW l \in Bound, NEW n \in Nat, 1 <= n, n - 1 <= l, Keeps(delay, n)
  PROVE  Keeps(NextDelay, n + 1)
<1> DEFINE d == InitialDelay(conf)
<1>1. /\ Exact(n) \in Int /\ Exact(n + 1) \in Int
      /\ Exact(n + 1) = 2 * Exact(n)
      /\ d > 0 => Exact(n) >= 1
  BY ExactNext
<1>2. delay \in Int /\ Top \in Int /\ Top >= 1
  BY WidthFacts DEF TypeOK
<1>3. CASE conf.policy # "backoff" \/ conf.loop = "Do"
  BY <1>3 DEF Keeps, NextDelay
<1>4. CASE conf.policy = "backoff" /\ conf.loop = "runWithRetry"
  <2>1. d > 0
    BY <1>4, ConfigFacts DEF TypeOK
  <2>2. delay = Smaller(Exact(n), Top)
    BY <1>4 DEF Keeps
  <2>3. delay \in 1..Top
    BY <1>1, <1>2, <2>1, <2>2 DEF Smaller
  <2>4. NextDelay = Smaller(2 * delay, Top)
    BY <1>4, <2>3, NextBackoffDelayIs DEF NextDelay
  <2>5. Smaller(2 * delay, Top) = Smaller(Exact(n + 1), Top)
    BY <1>1, <1>2, <2>1, <2>2 DEF Smaller
  <2>6. QED
    BY <1>4, <2>4, <2>5 DEF Keeps
<1>5. CASE conf.policy = "backoff" /\ conf.loop = "workflow"
  <2>1. NextDelay = Wrap(2 * delay)
    BY <1>5 DEF NextDelay
  <2>2. d > 0
    BY <1>5, ConfigFacts DEF TypeOK
  <2>3. ASSUME Exact(n + 1) \in 1..Top PROVE NextDelay = Exact(n + 1)
    <3>1. Exact(n) \in 1..Top
      BY <1>1, <1>2, <2>2, <2>3
    <3>2. delay = Exact(n)
      BY <1>5, <3>1 DEF Keeps
    <3>3. 2 * delay \in 0..Top
      BY <1>1, <1>2, <2>3, <3>2
    <3>4. QED
      BY <1>1, <2>1, <3>2, <3>3, WrapSmall
  <2>4. QED
    BY <1>5, <2>3 DEF Keeps
<1>6. conf.loop \in {"Do", "runWithRetry", "workflow"}
  BY ConfigFacts DEF TypeOK
<1>7. QED
  BY <1>3, <1>4, <1>5, <1>6

\* A delay that is kept for the attempt that fails is kept for its wait, however
\* the attempts of an endless loop are counted.
LEMMA KeepsCount ==
  ASSUME TypeOK, Counted, Keeps(delay, attempts + 1)
  PROVE  Keeps(delay, Count(attempts))
<1>1. CASE Count(attempts) = attempts + 1
  BY <1>1
<1>2. CASE Endless(conf) /\ Count(attempts) = MaxCount
  <2>1. CASE conf.policy # "backoff" \/ conf.loop = "Do"
    BY <2>1 DEF Keeps
  <2>2. CASE conf.policy = "backoff" /\ conf.loop = "workflow"
    <3>1. InitialDelay(conf) > 0
      BY <2>2, ConfigFacts DEF TypeOK
    <3>2. ~(Exact(MaxCount) \in 1..Top)
      BY <3>1, ExactBeyond, WidthFacts
    <3>3. QED
      BY <1>2, <2>2, <3>2 DEF Keeps
  <2>3. ~(conf.policy = "backoff" /\ conf.loop = "runWithRetry")
    BY <1>2 DEF Endless
  <2>4. conf.loop \in {"Do", "runWithRetry", "workflow"}
    BY ConfigFacts DEF TypeOK
  <2>5. QED
    BY <2>1, <2>2, <2>3, <2>4
<1>3. attempts \in Nat /\ MaxCount \in Nat
  BY BoundType DEF TypeOK, MaxCount
<1>4. QED
  BY <1>1, <1>2, <1>3 DEF Count, Smaller

\* The wait that BackoffDelay computes does not depend on how they are counted.
LEMMA WaitCount ==
  ASSUME TypeOK, Counted PROVE WaitAfter(attempts + 1) = WaitAfter(Count(attempts))
<1>1. CASE conf.loop = "Do" /\ conf.policy = "backoff"
  <2>1. Count(attempts) = attempts + 1
    BY <1>1 DEF Count, Endless
  <2>2. QED
    BY <2>1
<1>2. CASE ~(conf.loop = "Do" /\ conf.policy = "backoff")
  BY <1>2 DEF WaitAfter
<1>3. QED
  BY <1>1, <1>2

LEMMA DelayedInit == Init /\ TypeOK => Delayed
<1> SUFFICES ASSUME Init, TypeOK PROVE Delayed
  OBVIOUS
<1>1. pc = "start" /\ attempts + 1 = 1 /\ delay = InitialDelay(conf)
  BY DEF Init
<1>2. Exact(1) = InitialDelay(conf) /\ InitialDelay(conf) \in Int /\ InitialDelay(conf) <= Top
  BY ExactFirst, ConfigFacts DEF TypeOK
<1>3. Top \in Int
  BY WidthFacts
<1>4. Smaller(Exact(1), Top) = InitialDelay(conf)
  BY <1>2, <1>3 DEF Smaller
<1>5. conf.loop \in {"Do", "runWithRetry", "workflow"}
  BY ConfigFacts DEF TypeOK
<1>6. Keeps(delay, 1)
  BY <1>1, <1>2, <1>4, <1>5 DEF Keeps
<1>7. QED
  BY <1>1, <1>6 DEF Delayed

LEMMA DelayedStep == TypeOK /\ Counted /\ Delayed /\ [Next]_vars => Delayed'
<1> SUFFICES ASSUME TypeOK, Counted, Delayed, [Next]_vars PROVE Delayed'
  OBVIOUS
<1>1. ASSUME UNCHANGED <<conf, delay, attempts, wait>>, pc' # "wait",
             pc' # "done" => pc \in {"start", "check", "call"}
      PROVE  Delayed'
  BY <1>1 DEF Delayed, Keeps, Exact
<1>2. CASE Start
  BY <1>1, <1>2 DEF Start, Return
<1>3. CASE CheckContext
  BY <1>1, <1>3 DEF CheckContext, Return
<1>4. CASE CallEnds
  BY <1>1, <1>4 DEF CallEnds, Return
<1>5. CASE CallFails
  <2>1. /\ attempts' = Count(attempts) /\ conf' = conf /\ delay' = delay
        /\ pc = "call" /\ pc' \in {"wait", "done"}
        /\ pc' = "wait" => wait' = WaitAfter(attempts + 1)
    BY <1>5 DEF CallFails, Return
  <2>2. Keeps(delay, Count(attempts))
    BY <2>1, KeepsCount DEF Delayed
  <2>3. Keeps(delay, Count(attempts)) => Keeps(delay, attempts)'
    BY <2>1 DEF Keeps, Exact
  <2>4. WaitAfter(Count(attempts)) = WaitAfter(attempts)'
    BY <2>1 DEF WaitAfter
  <2>5. QED
    BY <2>1, <2>2, <2>3, <2>4, WaitCount DEF Delayed
<1>6. CASE TimerFires
  <2>1. /\ pc = "wait" /\ pc' = "check" /\ delay' = NextDelay
        /\ UNCHANGED <<conf, attempts, wait>>
    BY <1>6 DEF TimerFires
  <2>2. PICK l \in Bound : attempts <= l
    BY <2>1, HereBound
  <2>3. attempts \in Nat /\ 1 <= attempts /\ attempts - 1 <= l /\ l \in Int
    BY <2>1, <2>2, BoundType DEF TypeOK, Counted
  <2>4. Keeps(NextDelay, attempts + 1)
    BY <2>1, <2>3, KeepsNext DEF Delayed
  <2>5. Keeps(NextDelay, attempts + 1) => Keeps(delay, attempts + 1)'
    BY <2>1 DEF Keeps, Exact
  <2>6. QED
    BY <2>1, <2>4, <2>5 DEF Delayed
<1>7. CASE WaitCancelled
  BY <1>1, <1>7 DEF WaitCancelled, Return
<1>8. ASSUME UNCHANGED <<conf, pc, attempts, delay, wait>> PROVE Delayed'
  BY <1>8 DEF Delayed, Keeps, Exact, WaitAfter
<1>9. CASE Cancel
  BY <1>8, <1>9 DEF Cancel
<1>10. CASE UNCHANGED vars
  BY <1>8, <1>10 DEF vars
<1>11. QED
  BY <1>2, <1>3, <1>4, <1>5, <1>6, <1>7, <1>9, <1>10 DEF Next, LoopStep, Done

-----------------------------------------------------------------------------
(* The waits.                                                              *)

LEMMA WaitCases ==
  ASSUME TypeOK, Counted, Delayed, pc = "wait", InitialDelay(conf) > 0
  PROVE  LET e == Exact(attempts)
         IN /\ e \in Int /\ e >= 1 /\ Top \in Int
            /\ Endless(conf) \/ attempts < Attempts(conf)
            /\ conf.policy # "backoff" => wait = InitialDelay(conf)
            /\ conf.policy = "backoff" /\ e <= Top => wait = Capped(e)
            /\ conf.policy = "backoff" /\ e > Top =>
                 /\ conf.loop = "runWithRetry" => wait = Top
                 /\ conf.loop = "Do" => wait > 0 /\ wait = Capped(wait)
<1> DEFINE d == InitialDelay(conf)
           e == Exact(attempts)
<1>1. /\ attempts \in Nat /\ attempts >= 1
      /\ Endless(conf) \/ attempts < Attempts(conf)
      /\ Keeps(delay, attempts) /\ wait = WaitAfter(attempts)
  BY DEF TypeOK, Counted, Delayed
<1>2. PICK l \in Bound : attempts <= l
  BY HereBound
<1>3. l \in Int /\ attempts - 1 <= l
  BY <1>1, <1>2, BoundType
<1>4. e \in Int /\ e >= 1
  BY <1>1, <1>3, ExactNext
<1>5. Top \in Int /\ Top >= 1 /\ conf.maxDelay \in Int
  BY WidthFacts, ConfigFacts DEF TypeOK
<1>6. conf.loop # "Do" => conf.maxDelay = 0
  BY ConfigFacts DEF TypeOK
<1>7. CASE conf.policy # "backoff"
  <2>1. wait = d
    BY <1>1, <1>7 DEF WaitAfter, Keeps
  <2>2. QED
    BY <1>1, <1>4, <1>5, <1>7, <2>1
<1>8. CASE conf.policy = "backoff" /\ conf.loop = "Do"
  <2>1. conf \in Config /\ conf.delay = d /\ conf.delay > 0
    BY <1>8, ConfigFacts DEF TypeOK
  <2>2. attempts \in 1..l
    BY <1>1, <1>2, <1>3
  <2>3. wait = BackoffDelay(conf, attempts)
    BY <1>1, <1>8 DEF WaitAfter
  <2>4. e = conf.delay * 2^(attempts - 1)
    BY <2>1 DEF Exact
  <2>5. /\ wait > 0 /\ wait = Capped(wait)
        /\ e <= Top => wait = Capped(e)
    BY <2>1, <2>2, <2>3, <2>4, BackoffDelayIs DEF Capped
  <2>6. QED
    BY <1>1, <1>4, <1>5, <1>8, <2>5
<1>9. CASE conf.policy = "backoff" /\ conf.loop = "runWithRetry"
  <2>1. wait = Smaller(e, Top)
    BY <1>1, <1>9 DEF WaitAfter, Keeps
  <2>2. Capped(e) = e
    BY <1>5, <1>6, <1>9 DEF Capped
  <2>3. /\ e <= Top => wait = Capped(e)
        /\ e > Top => wait = Top
    BY <1>4, <1>5, <2>1, <2>2 DEF Smaller
  <2>4. QED
    BY <1>1, <1>4, <1>5, <1>9, <2>3
<1>10. CASE conf.policy = "backoff" /\ conf.loop = "workflow"
  <2>1. e <= Top => wait = e
    BY <1>1, <1>4, <1>5, <1>10 DEF WaitAfter, Keeps
  <2>2. Capped(e) = e
    BY <1>5, <1>6, <1>10 DEF Capped
  <2>3. QED
    BY <1>1, <1>4, <1>5, <1>10, <2>1, <2>2
<1>11. conf.loop \in {"Do", "runWithRetry", "workflow"}
  BY ConfigFacts DEF TypeOK
<1>12. QED
  BY <1>7, <1>8, <1>9, <1>10, <1>11

LEMMA WaitIs == TypeOK /\ Counted /\ Delayed => WaitsAsDocumented
<1> SUFFICES ASSUME TypeOK, Counted, Delayed, pc = "wait", InitialDelay(conf) > 0
             PROVE  WaitsAsDocumented
  BY DEF WaitsAsDocumented
<1> DEFINE e == Exact(attempts)
<1>1. CASE conf.policy # "backoff"
  BY <1>1, WaitCases DEF WaitsAsDocumented
<1>2. CASE conf.policy = "backoff" /\ e <= Top
  <2>1. ~(e > Top)
    BY <1>2, WaitCases
  <2>2. QED
    BY <1>2, <2>1, WaitCases DEF WaitsAsDocumented
<1>3. CASE conf.policy = "backoff" /\ e > Top
  <2>1. ~(e <= Top)
    BY <1>3, WaitCases
  <2>2. QED
    BY <1>3, <2>1, WaitCases DEF WaitsAsDocumented
<1>4. e <= Top \/ e > Top
  BY WaitCases
<1>5. QED
  BY <1>1, <1>2, <1>3, <1>4

\* Whatever the width of a duration and the configuration: while the doubled delay
\* is a duration each wait is the documented one, and beyond the pipeline waits for
\* the largest, Do for a positive one that is not above the cap.
THEOREM WaitsAsDocumentedHolds == Spec => []WaitsAsDocumented
<1>1. Init => TypeOK /\ Counted /\ Delayed
  BY TypeInit, CountedInit, DelayedInit
<1>2. TypeOK /\ Counted /\ Delayed /\ [Next]_vars => (TypeOK /\ Counted /\ Delayed)'
  BY TypeStep, CountedStep, DelayedStep
<1>3. TypeOK /\ Counted /\ Delayed => WaitsAsDocumented
  BY WaitIs
<1>4. QED
  BY <1>1, <1>2, <1>3, PTL DEF Spec

-----------------------------------------------------------------------------
(* The end of the context.                                                 *)

LEMMA StoppingInit == Init => Stopping
  BY DEF Init, Stopping

LEMMA StoppingStep == TypeOK /\ Stopping /\ [Next]_vars => Stopping'
<1> SUFFICES ASSUME TypeOK, Stopping, [Next]_vars PROVE Stopping'
  OBVIOUS
<1>1. /\ cancelled \in BOOLEAN /\ late \in 0..MaxLate
      /\ pc \in {"start", "check", "call", "wait", "done"}
  BY DEF TypeOK
<1>2. CASE Start
  BY <1>1, <1>2 DEF Start, Return, Stopping
<1>3. CASE CheckContext
  BY <1>1, <1>3 DEF CheckContext, Return, Stopping
<1>4. ASSUME AttemptEnds, pc = "call", pc' \in {"wait", "done"},
             pc' = "wait" => result' = result,
             UNCHANGED <<conf, cancelled, ended>>
      PROVE  Stopping'
  <2>1. conf.loop = "Do" /\ cancelled => ended = "call" /\ late = 0
    BY <1>4 DEF Stopping
  <2>2. conf.loop = "Do" /\ cancelled => late' = 1
    BY <1>4, <2>1 DEF AttemptEnds, Smaller, MaxLate
  <2>3. ~cancelled => ended' = "never" /\ late' = 0
    BY <1>4 DEF AttemptEnds, Stopping
  <2>4. pc' # "done" => result' = "none"
    BY <1>4 DEF Stopping
  <2>5. QED
    BY <1>4, <2>1, <2>2, <2>3, <2>4 DEF Stopping
<1>5. CASE CallEnds
  BY <1>4, <1>5 DEF CallEnds, Return
<1>6. CASE CallFails
  BY <1>4, <1>6 DEF CallFails, Return
<1>7. CASE TimerFires
  BY <1>1, <1>7 DEF TimerFires, Stopping
<1>8. CASE WaitCancelled
  BY <1>1, <1>8 DEF WaitCancelled, Return, Stopping
<1>9. CASE Cancel
  BY <1>1, <1>9 DEF Cancel, Stopping
<1>10. CASE UNCHANGED vars
  BY <1>10 DEF vars, Stopping
<1>11. QED
  BY <1>2, <1>3, <1>5, <1>6, <1>7, <1>8, <1>9, <1>10 DEF Next, LoopStep, Done

\* Whatever the configuration, and although the timer of a wait may win against a
\* context that has ended: Do comes to the end of no attempt but the one that was
\* under way when its context ended, and returns the context's error if none was.
THEOREM CancelStopsHolds == Spec => []CancelStops
<1>1. TypeOK /\ Stopping => CancelStops
  BY DEF Stopping, CancelStops
<1>2. QED
  BY <1>1, TypeInit, TypeStep, StoppingInit, StoppingStep, PTL DEF Spec
=============================================================================
