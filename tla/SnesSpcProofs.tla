--------------------------- MODULE SnesSpcProofs ---------------------------
(***************************************************************************)
(* The SNES sound module for every length of its instructions, frames and  *)
(* samples: the pairs it hands out are those its DSP makes, and its lazily *)
(* run timers are exact.                                                   *)
(***************************************************************************)
EXTENDS SnesSpc, TLAPS, WellFoundedInduction, SequenceTheorems

-----------------------------------------------------------------------------
(***************************************************************************)
(* Arithmetic.                                                             *)
(***************************************************************************)
LEMMA Division ==
    ASSUME NEW a \in Int, NEW d \in Nat \ {0}
    PROVE  /\ a \div d \in Int /\ a % d \in 0..d - 1
           /\ a = d * (a \div d) + (a % d)
  OBVIOUS

LEMMA DivisionIs ==
    ASSUME NEW a \in Int, NEW d \in Nat \ {0}, NEW q \in Int, NEW r \in 0..d - 1,
           a = d * q + r
    PROVE  a \div d = q /\ a % d = r
  OBVIOUS

\* A set that has 0 and with every number the next has all.
LEMMA Induction ==
    ASSUME NEW S \in SUBSET Nat, 0 \in S, \A n \in S : n + 1 \in S
    PROVE  \A n \in Nat : n \in S
<1> DEFINE T == Nat \ S
<1> SUFFICES ASSUME T # {} PROVE FALSE
  OBVIOUS
<1>1. T \subseteq Nat
  OBVIOUS
<1>2. PICK least \in T : \A t \in T : ~(<<t, least>> \in OpToRel(<, Nat))
  BY <1>1, WFMin, NatLessThanWellFounded
<1>3. least \in Nat \ {0}
  OBVIOUS
<1>4. least - 1 \in Nat /\ least - 1 < least /\ (least - 1) + 1 = least
  BY <1>3
<1>5. least - 1 \in T
  BY <1>4
<1>6. <<least - 1, least>> \in {ss \in Nat \X Nat : ss[1] < ss[2]}
  BY <1>3, <1>4
<1> QED
  BY <1>2, <1>5, <1>6 DEF OpToRel

LEMMA LeastMost ==
    ASSUME NEW S \in SUBSET Int, NEW x \in S, \A y \in S : y <= x
    PROVE  Max(S) \in S /\ \A y \in S : y <= Max(S)
  BY DEF Max

LEMMA MinOfTwo ==
    ASSUME NEW a \in Int, NEW b \in Int
    PROVE  Min({a, b}) = IF a <= b THEN a ELSE b
  BY DEF Min

-----------------------------------------------------------------------------
(***************************************************************************)
(* Timers, clock by clock.                                                 *)
(***************************************************************************)
IsRun(r, n, g) == g = [k \in 0..n |-> IF k = 0 THEN r ELSE Tick(g[k - 1])]
Run(r, n) == CHOOSE g : IsRun(r, n, g)
Ticked(r, n) == Run(r, n)[n]
TicksBy(r, time) == IF time < r.next_time THEN 0
                    ELSE (time - r.next_time) \div r.prescaler + 1

LEMMA RefTimerIs ==
    ASSUME NEW r, NEW time
    PROVE  RefTimer(r, time) = Ticked(r, TicksBy(r, time))
  BY DEF RefTimer, Ticked, TicksBy, Run, IsRun

LEMMA RunExists ==
    ASSUME NEW r
    PROVE  \A n \in Nat : \E g : IsRun(r, n, g)
<1> DEFINE S == {n \in Nat : \E g : IsRun(r, n, g)}
<1>1. 0 \in S
  <2> DEFINE g == [k \in 0..0 |-> r]
  <2>1. IsRun(r, 0, g)
    BY DEF IsRun
  <2> QED
    BY <2>1
<1>2. ASSUME NEW n \in S PROVE n + 1 \in S
  <2>1. PICK g : IsRun(r, n, g)
    OBVIOUS
  <2> DEFINE h == [k \in 0..n + 1 |-> IF k <= n THEN g[k] ELSE Tick(g[n])]
  <2>2. ASSUME NEW k \in 0..n + 1
        PROVE  h[k] = IF k = 0 THEN r ELSE Tick(h[k - 1])
    <3>1. CASE k = 0
      BY <2>1, <3>1 DEF IsRun
    <3>2. CASE k \in 1..n
      <4>1. g[k] = Tick(g[k - 1])
        BY <2>1, <3>2 DEF IsRun
      <4>2. h[k] = g[k] /\ h[k - 1] = g[k - 1]
        BY <3>2
      <4> QED
        BY <3>2, <4>1, <4>2
    <3>3. CASE k = n + 1
      <4>1. h[k] = Tick(g[n]) /\ h[k - 1] = g[n]
        BY <3>3
      <4> QED
        BY <3>3, <4>1
    <3> QED
      BY <3>1, <3>2, <3>3
  <2>3. IsRun(r, n + 1, h)
    BY <2>2 DEF IsRun
  <2> QED
    BY <2>3
<1> HIDE DEF S
<1>3. \A n \in Nat : n \in S
  <2>1. S \in SUBSET Nat
    BY DEF S
  <2> QED
    BY <1>1, <1>2, <2>1, Induction
<1> QED
  BY <1>3 DEF S

LEMMA RunIs ==
    ASSUME NEW r, NEW n \in Nat
    PROVE  /\ Run(r, n)[0] = r
           /\ \A k \in 0..n - 1 : Run(r, n)[k + 1] = Tick(Run(r, n)[k])
<1>1. \E g : IsRun(r, n, g)
  BY RunExists
<1>2. IsRun(r, n, Run(r, n))
  BY <1>1 DEF Run
<1> DEFINE g == Run(r, n)
<1> HIDE DEF g
<1>3. g = [k \in 0..n |-> IF k = 0 THEN r ELSE Tick(g[k - 1])]
  BY <1>2 DEF IsRun, g
<1>4. g[0] = r
  BY <1>3
<1>5. ASSUME NEW k \in 0..n - 1 PROVE g[k + 1] = Tick(g[k])
  <2>1. k + 1 \in 0..n /\ k + 1 # 0 /\ (k + 1) - 1 = k
    OBVIOUS
  <2> QED
    BY <1>3, <2>1
<1> QED
  BY <1>4, <1>5 DEF g

\* A longer run begins like a shorter one.
LEMMA RunsAgree ==
    ASSUME NEW r, NEW n \in Nat, NEW p \in Nat, n <= p
    PROVE  \A k \in 0..n : Run(r, p)[k] = Run(r, n)[k]
<1> DEFINE S == {k \in Nat : k <= n => Run(r, p)[k] = Run(r, n)[k]}
<1>1. 0 \in S
  BY RunIs
<1>2. ASSUME NEW k \in S PROVE k + 1 \in S
  <2> SUFFICES ASSUME k + 1 <= n PROVE Run(r, p)[k + 1] = Run(r, n)[k + 1]
    OBVIOUS
  <2>1. k \in 0..n - 1 /\ k \in 0..p - 1
    OBVIOUS
  <2>2. Run(r, p)[k] = Run(r, n)[k]
    OBVIOUS
  <2> QED
    BY <2>1, <2>2, RunIs
<1> HIDE DEF S
<1>3. \A k \in Nat : k \in S
  <2>1. S \in SUBSET Nat
    BY DEF S
  <2> QED
    BY <1>1, <1>2, <2>1, Induction
<1> QED
  BY <1>3 DEF S

LEMMA TickedIs ==
    ASSUME NEW r
    PROVE  /\ Ticked(r, 0) = r
           /\ \A n \in Nat : Ticked(r, n + 1) = Tick(Ticked(r, n))
<1>1. Ticked(r, 0) = r
  BY RunIs DEF Ticked
<1>2. ASSUME NEW n \in Nat PROVE Ticked(r, n + 1) = Tick(Ticked(r, n))
  <2>1. n + 1 \in Nat /\ n \in 0..(n + 1) - 1 /\ n <= n + 1 /\ n \in 0..n
    OBVIOUS
  <2>2. Run(r, n + 1)[n + 1] = Tick(Run(r, n + 1)[n])
    BY <2>1, RunIs
  <2>3. Run(r, n + 1)[n] = Run(r, n)[n]
    BY <2>1, RunsAgree
  <2> QED
    BY <2>2, <2>3 DEF Ticked
<1> QED
  BY <1>1, <1>2

\* Ticks add up.
LEMMA TickedTwice ==
    ASSUME NEW r, NEW j \in Nat
    PROVE  \A n \in Nat : Ticked(Ticked(r, j), n) = Ticked(r, j + n)
<1> DEFINE S == {n \in Nat : Ticked(Ticked(r, j), n) = Ticked(r, j + n)}
<1>1. 0 \in S
  BY TickedIs
<1>2. ASSUME NEW n \in S PROVE n + 1 \in S
  <2> DEFINE q == Ticked(r, j)
  <2>1. Ticked(q, n + 1) = Tick(Ticked(r, j + n))
    <3>1. n \in Nat /\ Ticked(q, n) = Ticked(r, j + n)
      OBVIOUS
    <3> HIDE DEF q
    <3>2. Ticked(q, n + 1) = Tick(Ticked(q, n))
      BY <3>1, TickedIs, Zenon
    <3> QED
      BY <3>1, <3>2
  <2>2. j + n \in Nat /\ j + (n + 1) = (j + n) + 1
    OBVIOUS
  <2> QED
    BY <2>1, <2>2, TickedIs
<1> HIDE DEF S
<1>3. \A n \in Nat : n \in S
  <2>1. S \in SUBSET Nat
    BY DEF S
  <2> QED
    BY <1>1, <1>2, <2>1, Induction
<1> QED
  BY <1>3 DEF S

-----------------------------------------------------------------------------
(***************************************************************************)
(* Residues.                                                               *)
(***************************************************************************)
LEMMA NoMultipleWithin ==
    ASSUME NEW m \in Int, NEW d \in Nat \ {0}, 0 < d * m, d * m < d
    PROVE  FALSE
  OBVIOUS

LEMMA ResidueOfSum ==
    ASSUME NEW a \in Int, NEW b \in Int, NEW d \in Nat \ {0}
    PROVE  ((a % d) + b) % d = (a + b) % d
<1> DEFINE q == a \div d
           r == a % d
           p == (r + b) \div d
           s == (r + b) % d
<1>1. q \in Int /\ r \in Int /\ a = d * q + r
  BY Division
<1> HIDE DEF q, r
<1>2. p \in Int /\ s \in 0..d - 1 /\ r + b = d * p + s
  BY <1>1, Division
<1> HIDE DEF p, s
<1>3. d * (q + p) = d * q + d * p /\ q + p \in Int /\ a + b \in Int
  BY <1>1, <1>2
<1> DEFINE u == q + p
           v == a + b
<1>4. v = d * u + s /\ u \in Int /\ v \in Int
  BY <1>1, <1>2, <1>3
<1> HIDE DEF u, v
<1>5. v % d = s
  BY <1>2, <1>4, DivisionIs
<1> QED
  BY <1>5 DEF v, s, r

LEMMA SmallResidue ==
    ASSUME NEW d \in Nat \ {0}, NEW a \in 0..d - 1
    PROVE  a % d = a
<1>1. a = d * 0 + a /\ 0 \in Int /\ a \in Int
  OBVIOUS
<1> QED
  BY <1>1, DivisionIs

LEMMA WholeResidue ==
    ASSUME NEW d \in Nat \ {0}
    PROVE  d % d = 0
<1>1. d = d * 1 + 0 /\ 1 \in Int /\ d \in Int /\ 0 \in 0..d - 1
  OBVIOUS
<1> QED
  BY <1>1, DivisionIs

\* Counting up from a, d is met for the first time after remain steps.
LEMMA FirstMatch ==
    ASSUME NEW d \in Nat \ {0}, NEW a \in 0..d - 1, NEW p \in 1..d
    PROVE  LET remain == ((p - a - 1) % d) + 1
           IN  /\ remain \in 1..d
               /\ (a + remain) % d = p % d
               /\ \A k \in 1..remain - 1 : (a + k) % d # p % d
<1> DEFINE b == p - a - 1
           q == b \div d
           r == b % d
           remain == r + 1
<1>1. b \in Int
  OBVIOUS
<1>2. q \in Int /\ r \in 0..d - 1 /\ b = d * q + r
  BY <1>1, Division
<1> HIDE DEF b, q, r
<1>3. p = a + remain + d * q /\ remain \in 1..d
  BY <1>2 DEF b
<1> HIDE DEF remain
<1> DEFINE x == a + remain
<1>4. x \in Int /\ p \in Int /\ d * q \in Int
  BY <1>2, <1>3
<1>5. x % d = p % d
  <2> DEFINE n == x \div d
             s == x % d
  <2>1. n \in Int /\ s \in 0..d - 1 /\ x = d * n + s
    BY <1>4, Division
  <2> HIDE DEF x, n, s
  <2>2. d * (n + q) = d * n + d * q /\ n + q \in Int
    BY <1>2, <2>1
  <2>3. p = d * (n + q) + s
    BY <1>3, <1>4, <2>1, <2>2 DEF x
  <2> DEFINE v == n + q
  <2>4. v \in Int /\ p = d * v + s
    BY <2>2, <2>3
  <2> HIDE DEF v
  <2>5. p % d = s
    BY <1>4, <2>1, <2>4, DivisionIs
  <2> QED
    BY <2>5 DEF s
<1>6. ASSUME NEW k \in 1..remain - 1, (a + k) % d = p % d PROVE FALSE
  <2> DEFINE y == a + k
             n == y \div d
             m == p \div d
             s == p % d
  <2>1. y \in Int
    BY <1>3
  <2>2. n \in Int /\ y = d * n + s
    BY <1>6, <2>1, Division
  <2>3. m \in Int /\ s \in Int /\ p = d * m + s
    BY <1>4, Division
  <2> HIDE DEF n, m, s
  <2>4. p - y = d * m - d * n
    BY <2>1, <2>2, <2>3
  <2>5. remain - k = d * m - d * n - d * q
    BY <1>2, <1>3, <2>1, <2>2, <2>3, <2>4
  <2> DEFINE z == m - n - q
  <2>6. z \in Int /\ d * z = d * m - d * n - d * q
    BY <1>2, <2>2, <2>3
  <2> HIDE DEF z
  <2>7. 0 < d * z /\ d * z < d
    BY <1>3, <2>5, <2>6
  <2> QED
    BY <2>6, <2>7, NoMultipleWithin
<1> QED
  BY <1>3, <1>5, <1>6 DEF remain, r, b, x

-----------------------------------------------------------------------------
(***************************************************************************)
(* The constants.                                                          *)
(***************************************************************************)
LEMMA Constants ==
    /\ ClocksPerSample \in Nat \ {0} /\ MaxRegTime \in 1..ClocksPerSample - 1
    /\ SkippingTime \in Int /\ ExtraPairs \in Nat
    /\ Requests \subseteq Nat \ {0} /\ Skips \subseteq Nat \ {0}
    /\ LongSkip \in Nat /\ LongSkip > SkipRest + 1 /\ SkipRest \in Nat \ {0}
    /\ Prescalers \subseteq Nat \ {0} /\ Targets \subseteq 0..DividerSize - 1
    /\ DividerSize \in Nat \ {0} /\ CounterSize \in Nat \ {0}
    /\ InstrClocks \subseteq Nat \ {0} /\ RegTimes \subseteq Int
    /\ \A t \in RegTimes : t <= MaxRegTime
  BY SpcAssumption DEF SpcAssumption

-----------------------------------------------------------------------------
(***************************************************************************)
(* A timer run for k prescaler periods at once.                            *)
(***************************************************************************)
LEMMA SameTimer ==
    ASSUME NEW s \in Timers, NEW t \in Timers,
           s.next_time = t.next_time, s.prescaler = t.prescaler, s.period = t.period,
           s.divider = t.divider, s.enabled = t.enabled, s.counter = t.counter
    PROVE  s = t
  BY DEF Timers

LEMMA TimerFields ==
    ASSUME NEW t \in Timers
    PROVE  /\ t.next_time \in Int /\ t.prescaler \in Nat \ {0}
           /\ t.period \in 1..DividerSize /\ t.period \in Nat \ {0}
           /\ t.divider \in 0..DividerSize - 1 /\ t.divider \in Nat
           /\ t.enabled \in {0, 1} /\ t.counter \in 0..CounterSize - 1 /\ t.counter \in Nat
           /\ Remain(t) \in 1..DividerSize /\ Remain(t) \in Nat
<1>1. /\ t.next_time \in Int /\ t.prescaler \in Prescalers
      /\ t.period \in 1..DividerSize /\ t.divider \in 0..DividerSize - 1
      /\ t.enabled \in {0, 1} /\ t.counter \in 0..CounterSize - 1
  BY DEF Timers
<1>2. Remain(t) \in 1..DividerSize
  BY <1>1, Constants, FirstMatch DEF Remain, If0Then256
<1>3. DividerSize \in Nat \ {0} /\ CounterSize \in Nat \ {0}
      /\ Prescalers \subseteq Nat \ {0}
  BY Constants
<1> DEFINE period == t.period
           divider == t.divider
           counter == t.counter
           remain == Remain(t)
<1>4. /\ period \in 1..DividerSize /\ divider \in 0..DividerSize - 1
      /\ counter \in 0..CounterSize - 1 /\ remain \in 1..DividerSize
  BY <1>1, <1>2
<1> HIDE DEF period, divider, counter, remain
<1>5. period \in Nat \ {0} /\ divider \in Nat /\ counter \in Nat /\ remain \in Nat
  BY <1>3, <1>4
<1> QED
  BY <1>1, <1>2, <1>3, <1>5 DEF period, divider, counter, remain

LEMMA TickFields ==
    ASSUME NEW t \in Timers
    PROVE  LET r == Tick(t)
               next == (t.divider + 1) % DividerSize
               match == next = t.period % DividerSize
           IN  /\ r \in Timers /\ r.next_time = t.next_time + t.prescaler
               /\ r.prescaler = t.prescaler /\ r.period = t.period /\ r.enabled = t.enabled
               /\ t.enabled = 0 => r.divider = t.divider /\ r.counter = t.counter
               /\ t.enabled # 0 /\ match =>
                      r.divider = 0 /\ r.counter = (t.counter + 1) % CounterSize
               /\ t.enabled # 0 /\ ~match => r.divider = next /\ r.counter = t.counter
<1> DEFINE next == (t.divider + 1) % DividerSize
           match == next = t.period % DividerSize
           counter == (t.counter + 1) % CounterSize
           later == t.next_time + t.prescaler
           ticked == [t EXCEPT !.next_time = later]
           r == Tick(t)
<1>1. /\ DividerSize \in Nat \ {0} /\ CounterSize \in Nat \ {0}
      /\ t.divider \in Nat /\ t.counter \in Nat /\ t.next_time \in Int
      /\ t.prescaler \in Nat \ {0}
  BY Constants, TimerFields
<1>2. later \in Int
  BY <1>1
<1>3. next \in 0..DividerSize - 1
  <2> DEFINE a == t.divider + 1
  <2>1. a \in Int
    BY <1>1
  <2> HIDE DEF a
  <2>2. a % DividerSize \in 0..DividerSize - 1
    BY <1>1, <2>1, Division
  <2> QED
    BY <2>2 DEF a
<1>4. counter \in 0..CounterSize - 1
  <2> DEFINE a == t.counter + 1
  <2>1. a \in Int
    BY <1>1
  <2> HIDE DEF a
  <2>2. a % CounterSize \in 0..CounterSize - 1
    BY <1>1, <2>1, Division
  <2> QED
    BY <2>2 DEF a
<1>5. r = IF t.enabled = 0 THEN ticked
          ELSE [ticked EXCEPT !.divider = IF match THEN 0 ELSE next,
                              !.counter = IF match THEN counter ELSE t.counter]
  BY DEF Tick
<1> HIDE DEF counter, later, r, next
<1>6. /\ ticked \in Timers /\ ticked.next_time = later
      /\ ticked.prescaler = t.prescaler /\ ticked.period = t.period
      /\ ticked.enabled = t.enabled /\ ticked.divider = t.divider
      /\ ticked.counter = t.counter
  BY <1>2 DEF Timers
<1> HIDE DEF ticked
<1> DEFINE d == IF match THEN 0 ELSE next
           c == IF match THEN counter ELSE t.counter
<1>7. d \in 0..DividerSize - 1 /\ c \in 0..CounterSize - 1
  BY <1>1, <1>3, <1>4, TimerFields
<1>8. CASE t.enabled = 0
  BY <1>5, <1>6, <1>8 DEF later, r
<1>9. CASE t.enabled # 0
  <2>1. r = [ticked EXCEPT !.divider = d, !.counter = c]
    BY <1>5, <1>9
  <2>2. (match => d = 0 /\ c = counter) /\ (~match => d = next /\ c = t.counter)
    OBVIOUS
  <2> HIDE DEF d, c
  <2>3. /\ r \in Timers /\ r.next_time = later /\ r.prescaler = t.prescaler
        /\ r.period = t.period /\ r.enabled = t.enabled /\ r.divider = d /\ r.counter = c
    BY <1>6, <1>7, <2>1 DEF Timers
  <2> QED
    BY <1>9, <2>2, <2>3 DEF later, counter, next, r
<1> QED
  BY <1>8, <1>9 DEF r

\* RunTimer()'s result after k periods of the prescaler.
AtOnce(t, k) ==
    LET over == k - Remain(t)
        n    == over \div t.period
        ran  == [t EXCEPT !.next_time = @ + k * t.prescaler]
    IN  IF t.enabled = 0 THEN ran
        ELSE IF over < 0 THEN [ran EXCEPT !.divider = (@ + k) % DividerSize]
        ELSE [ran EXCEPT !.counter = (@ + 1 + n) % CounterSize,
                         !.divider = (over - n * t.period) % DividerSize]

LEMMA RunTimerIs ==
    ASSUME NEW t, NEW time
    PROVE  RunTimer(t, time) = IF time < t.next_time THEN t
                               ELSE AtOnce(t, (time - t.next_time) \div t.prescaler + 1)
  BY DEF RunTimer, AtOnce

LEMMA AtOnceFields ==
    ASSUME NEW t \in Timers, NEW k \in Nat
    PROVE  LET r == AtOnce(t, k)
               over == k - Remain(t)
               n == over \div t.period
           IN  /\ r \in Timers /\ r.next_time = t.next_time + k * t.prescaler
               /\ r.prescaler = t.prescaler /\ r.period = t.period /\ r.enabled = t.enabled
               /\ t.enabled = 0 => r.divider = t.divider /\ r.counter = t.counter
               /\ t.enabled # 0 /\ over < 0 =>
                      r.divider = (t.divider + k) % DividerSize /\ r.counter = t.counter
               /\ t.enabled # 0 /\ ~(over < 0) =>
                      /\ r.divider = over - n * t.period
                      /\ r.counter = (t.counter + 1 + n) % CounterSize
<1> DEFINE over == k - Remain(t)
           n == over \div t.period
           rest == over - n * t.period
           r == AtOnce(t, k)
           later == t.next_time + k * t.prescaler
           ran == [t EXCEPT !.next_time = later]
           near == (t.divider + k) % DividerSize
           counter == (t.counter + 1 + n) % CounterSize
<1>1. /\ DividerSize \in Nat \ {0} /\ CounterSize \in Nat \ {0}
      /\ t.divider \in Nat /\ t.counter \in Nat /\ t.next_time \in Int
      /\ t.prescaler \in Nat \ {0} /\ t.period \in 1..DividerSize /\ t.period \in Nat \ {0}
      /\ Remain(t) \in Nat
  BY Constants, TimerFields
<1>2. later \in Int
  <2>1. k * t.prescaler \in Int
    BY <1>1
  <2> QED
    BY <1>1, <2>1
<1>3. over \in Int
  BY <1>1
<1> HIDE DEF over
<1>4. n \in Int /\ rest \in 0..t.period - 1
  <2>1. n \in Int /\ over % t.period \in 0..t.period - 1
        /\ over = t.period * n + (over % t.period)
    BY <1>1, <1>3, Division
  <2> DEFINE e == over % t.period
             x == t.period * n
  <2>2. x = n * t.period /\ x \in Int
    BY <1>1, <2>1
  <2>3. e \in 0..t.period - 1 /\ over = x + e
    BY <2>1
  <2> HIDE DEF e, x, n
  <2>4. over - n * t.period = e
    BY <1>1, <1>3, <2>2, <2>3
  <2> QED
    BY <2>1, <2>3, <2>4
<1> HIDE DEF n
<1>5. near \in 0..DividerSize - 1
  <2> DEFINE a == t.divider + k
  <2>1. a \in Int
    BY <1>1
  <2> HIDE DEF a
  <2>2. a % DividerSize \in 0..DividerSize - 1
    BY <1>1, <2>1, Division
  <2> QED
    BY <2>2 DEF a
<1>6. counter \in 0..CounterSize - 1
  <2> DEFINE a == t.counter + 1 + n
  <2>1. a \in Int
    BY <1>1, <1>4
  <2> HIDE DEF a
  <2>2. a % CounterSize \in 0..CounterSize - 1
    BY <1>1, <2>1, Division
  <2> QED
    BY <2>2 DEF a
<1> HIDE DEF rest
<1>7. rest \in 0..DividerSize - 1 /\ rest % DividerSize = rest
  <2>1. rest \in 0..DividerSize - 1
    BY <1>1, <1>4
  <2> QED
    BY <1>1, <2>1, SmallResidue
<1>8. r = IF t.enabled = 0 THEN ran
          ELSE IF over < 0 THEN [ran EXCEPT !.divider = near]
          ELSE [ran EXCEPT !.counter = counter, !.divider = rest % DividerSize]
  BY DEF AtOnce, over, n, rest
<1> HIDE DEF r, later, near, counter
<1>9. /\ ran \in Timers /\ ran.next_time = later
      /\ ran.prescaler = t.prescaler /\ ran.period = t.period
      /\ ran.enabled = t.enabled /\ ran.divider = t.divider
      /\ ran.counter = t.counter
  BY <1>2 DEF Timers
<1> HIDE DEF ran
<1>10. CASE t.enabled = 0
  BY <1>8, <1>9, <1>10 DEF later, r
<1>11. CASE t.enabled # 0 /\ over < 0
  <2>1. r = [ran EXCEPT !.divider = near]
    BY <1>8, <1>11
  <2>2. /\ r \in Timers /\ r.next_time = later /\ r.prescaler = t.prescaler
        /\ r.period = t.period /\ r.enabled = t.enabled /\ r.divider = near
        /\ r.counter = t.counter
    BY <1>5, <1>9, <2>1 DEF Timers
  <2> QED
    BY <1>11, <2>2 DEF later, near, r, over
<1>12. CASE t.enabled # 0 /\ ~(over < 0)
  <2>1. r = [ran EXCEPT !.counter = counter, !.divider = rest]
    BY <1>7, <1>8, <1>12
  <2>2. /\ r \in Timers /\ r.next_time = later /\ r.prescaler = t.prescaler
        /\ r.period = t.period /\ r.enabled = t.enabled /\ r.divider = rest
        /\ r.counter = counter
    BY <1>6, <1>7, <1>9, <2>1 DEF Timers
  <2> QED
    BY <1>12, <2>2 DEF later, rest, counter, r, over, n
<1> QED
  BY <1>10, <1>11, <1>12

LEMMA AtOnceNone ==
    ASSUME NEW t \in Timers
    PROVE  AtOnce(t, 0) = t
<1> DEFINE r == AtOnce(t, 0)
<1>1. /\ DividerSize \in Nat \ {0} /\ t.divider \in 0..DividerSize - 1
      /\ t.prescaler \in Nat \ {0} /\ t.next_time \in Int /\ Remain(t) \in 1..DividerSize
  BY Constants, TimerFields
<1>2. 0 - Remain(t) < 0 /\ 0 \in Nat
  BY <1>1
<1>3. /\ r \in Timers /\ r.next_time = t.next_time + 0 * t.prescaler
      /\ r.prescaler = t.prescaler /\ r.period = t.period /\ r.enabled = t.enabled
      /\ r.counter = t.counter
      /\ r.divider = t.divider \/ r.divider = (t.divider + 0) % DividerSize
  BY <1>2, AtOnceFields
<1> HIDE DEF r
<1>4. r.next_time = t.next_time
  BY <1>1, <1>3
<1>5. t.divider + 0 = t.divider /\ t.divider % DividerSize = t.divider
  BY <1>1, SmallResidue
<1>6. r.divider = t.divider
  BY <1>3, <1>5
<1> QED
  BY <1>3, <1>4, <1>6, SameTimer DEF r

LEMMA OneMore ==
    ASSUME NEW n \in Int, NEW x \in Int
    PROVE  (n + 1) * x = n * x + x
  OBVIOUS

LEMMA AtOnceStep ==
    ASSUME NEW t \in Timers, NEW k \in Nat
    PROVE  Tick(AtOnce(t, k)) = AtOnce(t, k + 1)
<1> DEFINE a == AtOnce(t, k)
           b == AtOnce(t, k + 1)
           r == Tick(a)
           remain == Remain(t)
           p == t.period
           d == DividerSize
           c == CounterSize
           over == k - remain
           more == (k + 1) - remain
           next == (a.divider + 1) % d
<1>1. /\ d \in Nat \ {0} /\ c \in Nat \ {0}
      /\ t.divider \in 0..d - 1 /\ t.counter \in 0..c - 1 /\ t.next_time \in Int
      /\ t.prescaler \in Nat \ {0} /\ p \in 1..d /\ p \in Nat \ {0}
      /\ remain \in 1..d
  BY Constants, TimerFields
<1>2. k + 1 \in Nat /\ k \in Int
  OBVIOUS
<1>3. /\ a \in Timers /\ a.next_time = t.next_time + k * t.prescaler
      /\ a.prescaler = t.prescaler /\ a.period = p /\ a.enabled = t.enabled
      /\ t.enabled = 0 => a.divider = t.divider /\ a.counter = t.counter
      /\ t.enabled # 0 /\ over < 0 =>
             a.divider = (t.divider + k) % d /\ a.counter = t.counter
      /\ t.enabled # 0 /\ ~(over < 0) =>
             /\ a.divider = over - (over \div p) * p
             /\ a.counter = (t.counter + 1 + (over \div p)) % c
  BY AtOnceFields
<1>4. /\ b \in Timers /\ b.next_time = t.next_time + (k + 1) * t.prescaler
      /\ b.prescaler = t.prescaler /\ b.period = p /\ b.enabled = t.enabled
      /\ t.enabled = 0 => b.divider = t.divider /\ b.counter = t.counter
      /\ t.enabled # 0 /\ more < 0 =>
             b.divider = (t.divider + (k + 1)) % d /\ b.counter = t.counter
      /\ t.enabled # 0 /\ ~(more < 0) =>
             /\ b.divider = more - (more \div p) * p
             /\ b.counter = (t.counter + 1 + (more \div p)) % c
  BY <1>2, AtOnceFields
<1> HIDE DEF a, b
<1>5. /\ r \in Timers /\ r.next_time = a.next_time + a.prescaler
      /\ r.prescaler = a.prescaler /\ r.period = a.period /\ r.enabled = a.enabled
      /\ a.enabled = 0 => r.divider = a.divider /\ r.counter = a.counter
      /\ a.enabled # 0 /\ next = a.period % d =>
             r.divider = 0 /\ r.counter = (a.counter + 1) % c
      /\ a.enabled # 0 /\ next # a.period % d =>
             r.divider = next /\ r.counter = a.counter
  BY <1>3, TickFields
<1> HIDE DEF r
<1>6. r.next_time = b.next_time
  <2> DEFINE x == k * t.prescaler
             y == (k + 1) * t.prescaler
  <2>1. y = x + t.prescaler /\ x \in Int
    BY <1>1, <1>2, OneMore
  <2>2. r.next_time = (t.next_time + x) + t.prescaler /\ b.next_time = t.next_time + y
    BY <1>3, <1>4, <1>5
  <2> HIDE DEF x, y
  <2> QED
    BY <1>1, <2>1, <2>2
<1>7. r.prescaler = b.prescaler /\ r.period = b.period /\ r.enabled = b.enabled
  BY <1>3, <1>4, <1>5
<1> SUFFICES r.divider = b.divider /\ r.counter = b.counter
  BY <1>4, <1>5, <1>6, <1>7, SameTimer DEF r, b, a
<1>8. /\ (t.divider + remain) % d = p % d
      /\ \A i \in 1..remain - 1 : (t.divider + i) % d # p % d
  BY <1>1, FirstMatch DEF Remain, If0Then256
<1>9. /\ over \in Int /\ more = over + 1 /\ more \in Int
      /\ (over < 0 <=> k < remain) /\ (more < 0 <=> k + 1 < remain)
  BY <1>1
<1>10. CASE t.enabled = 0
  BY <1>3, <1>4, <1>5, <1>10
<1>11. CASE t.enabled # 0 /\ over < 0
  <2>1. next = (t.divider + (k + 1)) % d /\ a.counter = t.counter
    <3> DEFINE x == t.divider + k
    <3>1. x \in Int /\ x + 1 = t.divider + (k + 1)
      BY <1>1, <1>2
    <3> HIDE DEF x
    <3>2. ((x % d) + 1) % d = (x + 1) % d
      <4>1. x \in Int /\ 1 \in Int /\ d \in Nat \ {0}
        BY <1>1, <3>1
      <4> HIDE DEF d
      <4> QED
        BY <4>1, ResidueOfSum
    <3>3. a.divider = x % d /\ a.counter = t.counter
      BY <1>3, <1>11 DEF x
    <3> QED
      BY <3>1, <3>2, <3>3
  <2> HIDE DEF next
  <2>2. CASE k + 1 < remain
    <3>1. k + 1 \in 1..remain - 1 /\ more < 0
      BY <1>1, <1>9, <2>2
    <3>2. next # p % d
      BY <1>8, <2>1, <3>1
    <3> QED
      BY <1>3, <1>4, <1>5, <1>11, <2>1, <3>1, <3>2
  <2>3. CASE k + 1 = remain
    <3>1. next = p % d
      BY <1>8, <2>1, <2>3
    <3>2. r.divider = 0 /\ r.counter = (t.counter + 1) % c
      BY <1>3, <1>5, <1>11, <2>1, <3>1
    <3>3. more = 0
      BY <1>1, <2>3
    <3>4. more \div p = 0
      <4>1. 0 = p * 0 + 0 /\ 0 \in Int /\ 0 \in 0..p - 1
        BY <1>1
      <4>2. 0 \div p = 0
        BY <1>1, <4>1, DivisionIs
      <4> QED
        BY <3>3, <4>2
    <3>5. b.divider = 0 - 0 * p /\ b.counter = (t.counter + 1 + 0) % c
      BY <1>4, <1>11, <3>3, <3>4
    <3>6. 0 - 0 * p = 0 /\ t.counter + 1 + 0 = t.counter + 1
      BY <1>1
    <3> QED
      BY <3>2, <3>5, <3>6
  <2> QED
    BY <1>1, <1>9, <1>11, <2>2, <2>3
<1>12. CASE t.enabled # 0 /\ ~(over < 0)
  <2> DEFINE n == over \div p
             m == more \div p
             e == over - n * p
             x == t.counter + 1 + n
  <2>1. /\ a.divider = e /\ a.counter = x % c
    BY <1>3, <1>12
  <2>2. ~(more < 0)
    BY <1>9, <1>12
  <2>3. b.divider = more - m * p /\ b.counter = (t.counter + 1 + m) % c
    BY <1>4, <1>12, <2>2
  <2>4. n \in Int /\ e \in 0..p - 1 /\ over = p * n + e
    <3> DEFINE f == over % p
    <3>1. n \in Int /\ f \in 0..p - 1 /\ over = p * n + f
      BY <1>1, <1>9, Division
    <3> HIDE DEF f, over, n
    <3>2. n * p = p * n /\ n * p \in Int
      BY <1>1, <3>1
    <3>3. e = f
      BY <1>9, <3>1, <3>2
    <3> QED
      BY <3>1, <3>3
  <2>5. x \in Int /\ p \in 1..d
    BY <1>1, <2>4
  <2>6. next = (e + 1) % d
    BY <2>1
  <2> HIDE DEF over, more, next, n, e, m
  <2>7. CASE e + 1 = p
    <3>1. next = p % d
      BY <2>6, <2>7
    <3>2. r.divider = 0 /\ r.counter = ((x % c) + 1) % c
      BY <1>3, <1>5, <1>12, <2>1, <3>1
    <3>3. ((x % c) + 1) % c = (x + 1) % c
      BY <1>1, <2>5, ResidueOfSum
    <3> DEFINE y == n + 1
    <3>4. more = p * y + 0 /\ y \in Int /\ 0 \in 0..p - 1 /\ y * p = p * y
      <4>1. y \in Int
        BY <2>4
      <4>2. p * y = p * n + p /\ p * n \in Int
        BY <1>1, <2>4
      <4>3. y * p = p * y
        BY <1>1, <4>1
      <4> HIDE DEF y
      <4>4. more = p * y + 0
        BY <1>1, <1>9, <2>4, <2>7, <4>1, <4>2
      <4> QED
        BY <1>1, <4>1, <4>3, <4>4
    <3> HIDE DEF y
    <3>5. m = y
      BY <1>1, <1>9, <3>4, DivisionIs DEF m
    <3>6. more - m * p = 0
      BY <1>1, <1>9, <3>4, <3>5
    <3>7. t.counter + 1 + m = x + 1
      BY <1>1, <2>4, <3>5 DEF y
    <3> HIDE DEF x
    <3> QED
      BY <2>3, <3>2, <3>3, <3>6, <3>7
  <2>8. CASE e + 1 # p
    <3>1. e + 1 \in 1..p - 1 /\ e + 1 \in 0..d - 1 /\ e + 1 \in 0..p - 1
      BY <1>1, <2>4, <2>8
    <3>2. next = e + 1
      BY <1>1, <2>6, <3>1, SmallResidue
    <3>3. next # p % d
      <4>1. CASE p = d
        <5>1. p % d = 0
          BY <1>1, <4>1, WholeResidue
        <5> QED
          BY <3>1, <3>2, <5>1
      <4>2. CASE p # d
        <5>1. p \in 0..d - 1
          BY <1>1, <4>2
        <5>2. p % d = p
          BY <1>1, <5>1, SmallResidue
        <5> QED
          BY <2>8, <3>2, <5>2
      <4> QED
        BY <4>1, <4>2
    <3>4. r.divider = e + 1 /\ r.counter = x % c
      BY <1>3, <1>5, <1>12, <2>1, <3>2, <3>3
    <3>5. more = p * n + (e + 1) /\ n * p = p * n /\ p * n \in Int
      BY <1>1, <1>9, <2>4
    <3> DEFINE f == e + 1
    <3>6. more = p * n + f /\ f \in 0..p - 1
      BY <3>1, <3>5
    <3> HIDE DEF f
    <3>7. m = n
      BY <1>1, <1>9, <2>4, <3>6, DivisionIs DEF m
    <3>8. more - m * p = f
      BY <1>1, <1>9, <2>4, <3>5, <3>6, <3>7
    <3>9. t.counter + 1 + m = x
      BY <3>7
    <3> HIDE DEF x
    <3> QED
      BY <2>3, <3>4, <3>8, <3>9 DEF f
  <2> QED
    BY <2>7, <2>8
<1> QED
  BY <1>10, <1>11, <1>12

LEMMA TickedAtOnce ==
    ASSUME NEW t \in Timers
    PROVE  \A n \in Nat : Ticked(t, n) = AtOnce(t, n)
<1> DEFINE S == {n \in Nat : Ticked(t, n) = AtOnce(t, n)}
<1>1. 0 \in S
  BY TickedIs, AtOnceNone
<1>2. ASSUME NEW n \in S PROVE n + 1 \in S
  <2>1. n \in Nat /\ n + 1 \in Nat /\ Ticked(t, n) = AtOnce(t, n)
    OBVIOUS
  <2>2. Ticked(t, n + 1) = Tick(Ticked(t, n))
    BY <2>1, TickedIs, Zenon
  <2>3. Tick(AtOnce(t, n)) = AtOnce(t, n + 1)
    BY <2>1, AtOnceStep
  <2> QED
    BY <2>1, <2>2, <2>3
<1> HIDE DEF S
<1>3. \A n \in Nat : n \in S
  <2>1. S \in SUBSET Nat
    BY DEF S
  <2> QED
    BY <1>1, <1>2, <2>1, Induction
<1> QED
  BY <1>3 DEF S

LEMMA TicksAre ==
    ASSUME NEW t \in Timers, NEW time \in Int
    PROVE  LET n == TicksBy(t, time)
           IN  /\ n \in Nat
               /\ time < t.next_time + n * t.prescaler
               /\ n # 0 => t.next_time + n * t.prescaler <= time + t.prescaler
               /\ n = 0 <=> time < t.next_time
<1> DEFINE n == TicksBy(t, time)
           p == t.prescaler
           a == time - t.next_time
           q == a \div p
           r == a % p
<1>1. p \in Nat \ {0} /\ t.next_time \in Int /\ a \in Int
  BY TimerFields
<1>2. q \in Int /\ r \in 0..p - 1 /\ a = p * q + r
  BY <1>1, Division
<1>3. n = IF time < t.next_time THEN 0 ELSE q + 1
  BY DEF TicksBy
<1> HIDE DEF n
<1>4. CASE time < t.next_time
  <2>1. n = 0 /\ n * p = 0
    BY <1>1, <1>3, <1>4
  <2> QED
    BY <1>1, <1>4, <2>1 DEF n
<1>5. CASE ~(time < t.next_time)
  <2>1. n = q + 1 /\ a >= 0
    BY <1>1, <1>3, <1>5
  <2> HIDE DEF a, q, r
  <2>2. q >= 0
    <3> SUFFICES ASSUME q <= -1 PROVE FALSE
      BY <1>2
    <3>1. p * q <= -p
      BY <1>1, <1>2
    <3> QED
      BY <1>1, <1>2, <2>1, <3>1
  <2> DEFINE x == p * q
             y == n * p
  <2>3. y = x + p /\ x \in Int
    BY <1>1, <1>2, <2>1
  <2>4. n \in Nat /\ n # 0
    BY <1>2, <2>1, <2>2
  <2>5. a = x + r
    BY <1>2
  <2> HIDE DEF x, y
  <2>6. time < t.next_time + y /\ t.next_time + y <= time + p
    BY <1>1, <1>2, <2>3, <2>5 DEF a
  <2> QED
    BY <1>5, <2>4, <2>6 DEF y, n
<1> QED
  BY <1>4, <1>5

\* What the code computes is what the hardware does; the timer is then ahead.
LEMMA CaughtUp ==
    ASSUME NEW t \in Timers, NEW time \in Int
    PROVE  LET r == RefTimer(t, time)
           IN  /\ r \in Timers /\ RunTimer(t, time) = r
               /\ r.next_time = t.next_time + TicksBy(t, time) * t.prescaler
               /\ r.next_time > time /\ r.prescaler = t.prescaler
               /\ r.period = t.period /\ r.enabled = t.enabled
<1> DEFINE n == TicksBy(t, time)
           q == AtOnce(t, n)
           late == n * t.prescaler
           r == RefTimer(t, time)
<1>1. n \in Nat /\ time < t.next_time + late /\ (n = 0 <=> time < t.next_time)
  BY TicksAre
<1>2. r = q
  BY <1>1, RefTimerIs, TickedAtOnce
<1>3. RunTimer(t, time) = IF time < t.next_time THEN t ELSE q
  BY RunTimerIs DEF TicksBy
<1>4. RunTimer(t, time) = q
  BY <1>1, <1>3, AtOnceNone
<1> HIDE DEF n, r
<1>5. /\ q \in Timers /\ q.next_time = t.next_time + late /\ q.prescaler = t.prescaler
      /\ q.period = t.period /\ q.enabled = t.enabled
  BY <1>1, AtOnceFields
<1> HIDE DEF q, late
<1>6. q.next_time > time
  <2>1. q.next_time \in Int
    BY <1>5, TimerFields
  <2> QED
    BY <1>1, <1>5, <2>1
<1> QED
  BY <1>2, <1>4, <1>5, <1>6 DEF late, n, r

\* Catching up in two steps is catching up.
LEMMA CaughtUpTwice ==
    ASSUME NEW t \in Timers, NEW a \in Int, NEW b \in Int, a <= b
    PROVE  RefTimer(RefTimer(t, a), b) = RefTimer(t, b)
<1> DEFINE n == TicksBy(t, a)
           m == TicksBy(t, b)
           s == RefTimer(t, a)
           k == TicksBy(s, b)
           p == t.prescaler
           x == n * p
           y == m * p
           z == k * p
           next == t.next_time
<1>1. p \in Nat \ {0} /\ next \in Int
  BY TimerFields
<1>2. /\ n \in Nat /\ a < next + x /\ (n # 0 => next + x <= a + p)
      /\ (n = 0 <=> a < next)
  BY TicksAre
<1>3. /\ m \in Nat /\ b < next + y /\ (m # 0 => next + y <= b + p)
      /\ (m = 0 <=> b < next)
  BY TicksAre
<1>4. s \in Timers /\ s.next_time = next + x /\ s.prescaler = p
  BY CaughtUp
<1>5. s = Ticked(t, n)
  BY RefTimerIs
<1> HIDE DEF s
<1>6. k \in Nat /\ b < s.next_time + k * s.prescaler
      /\ (k # 0 => s.next_time + k * s.prescaler <= b + s.prescaler)
      /\ (k = 0 <=> b < s.next_time)
  BY <1>4, TicksAre
<1>7. k \in Nat /\ b < next + x + z /\ (k # 0 => next + x + z <= b + p)
      /\ (k = 0 <=> b < next + x)
  BY <1>4, <1>6
<1> HIDE DEF n, m, k, next, p
<1>8. x \in Nat /\ y \in Nat /\ z \in Nat
  BY <1>1, <1>2, <1>3, <1>7
<1> DEFINE d == m - (n + k)
           w == d * p
<1>9. d \in Int /\ w = y - (x + z) /\ w \in Int
  <2>1. d \in Int
    BY <1>2, <1>3, <1>7
  <2>2. w = y - (x + z)
    BY <1>1, <1>2, <1>3, <1>7
  <2> QED
    BY <1>1, <2>1, <2>2
<1>10. n = 0 => x = 0
  BY <1>1
<1>11. m = 0 => y = 0
  BY <1>1
<1>12. k = 0 => z = 0
  BY <1>1
<1> HIDE DEF x, y, z
<1>13. w < p /\ w > -p
  <2>1. w < p
    <3>1. CASE m # 0
      BY <1>1, <1>3, <1>7, <1>8, <1>9, <3>1
    <3>2. CASE m = 0
      BY <1>1, <1>8, <1>9, <1>11, <3>2
    <3> QED
      BY <3>1, <3>2
  <2>2. w > -p
    <3>1. CASE k # 0
      BY <1>1, <1>3, <1>7, <1>8, <1>9, <3>1
    <3>2. CASE k = 0 /\ n # 0
      BY <1>1, <1>2, <1>3, <1>8, <1>9, <1>12, <3>2
    <3>3. CASE k = 0 /\ n = 0
      BY <1>1, <1>8, <1>9, <1>10, <1>12, <3>3
    <3> QED
      BY <3>1, <3>2, <3>3
  <2> QED
    BY <2>1, <2>2
<1>14. d = 0
  <2> HIDE DEF d
  <2>1. d >= 1 => w >= p
    BY <1>1, <1>9
  <2>2. d <= -1 => w <= -p
    BY <1>1, <1>9
  <2> HIDE DEF w
  <2> QED
    BY <1>1, <1>9, <1>13, <2>1, <2>2
<1>15. m = n + k
  BY <1>2, <1>3, <1>7, <1>14
<1>16. RefTimer(s, b) = Ticked(Ticked(t, n), k)
  BY <1>5, RefTimerIs DEF k
<1>17. Ticked(Ticked(t, n), k) = Ticked(t, n + k)
  BY <1>2, <1>7, TickedTwice
<1>18. RefTimer(t, b) = Ticked(t, m)
  BY RefTimerIs DEF m
<1> QED
  BY <1>15, <1>16, <1>17, <1>18 DEF s

-----------------------------------------------------------------------------
(***************************************************************************)
(* What the CPU does to a timer.                                           *)
(***************************************************************************)
LEMMA AccessIs ==
    ASSUME NEW acc \in Accesses
    PROVE  \/ acc[1] = "read" \/ acc[1] = "clear"
           \/ acc[1] = "target" /\ acc[2] \in 1..DividerSize
           \/ acc[1] = "control" /\ acc[2] \in {0, 1}
<1>1. CASE acc \in {<<"read">>, <<"clear">>}
  BY <1>1
<1>2. CASE acc \in {"target"} \X {If0Then256(d) : d \in Targets}
  <2>1. PICK d \in Targets : acc[1] = "target" /\ acc[2] = If0Then256(d)
    BY <1>2
  <2>2. d \in Int /\ DividerSize \in Nat \ {0}
    BY Constants
  <2> DEFINE a == d - 1
             r == a % DividerSize
  <2>3. a \in Int
    BY <2>2
  <2> HIDE DEF a
  <2>4. r \in 0..DividerSize - 1
    BY <2>2, <2>3, Division
  <2>5. If0Then256(d) = r + 1
    BY DEF If0Then256, a
  <2> HIDE DEF r
  <2>6. If0Then256(d) \in 1..DividerSize
    BY <2>2, <2>4, <2>5
  <2> QED
    BY <2>1, <2>6
<1>3. CASE acc \in {"control"} \X {0, 1}
  BY <1>3
<1> QED
  BY <1>1, <1>2, <1>3 DEF Accesses

LEMMA ChangedType ==
    ASSUME NEW t \in Timers, NEW acc \in Accesses
    PROVE  Changed(t, acc) \in Timers
<1>1. 0 \in 0..CounterSize - 1 /\ 0 \in 0..DividerSize - 1
  BY Constants
<1>2. CASE acc[1] \in {"read", "clear"}
  BY <1>1, <1>2 DEF Changed, Timers
<1>3. CASE acc[1] = "target" /\ acc[2] \in 1..DividerSize
  BY <1>3 DEF Changed, Timers
<1>4. CASE acc[1] = "control" /\ acc[2] \in {0, 1}
  <2>1. CASE acc[2] = 1 /\ t.enabled = 0
    <3>1. Changed(t, acc) = [t EXCEPT !.enabled = 1, !.divider = 0, !.counter = 0]
      BY <1>4, <2>1 DEF Changed
    <3> QED
      BY <1>1, <3>1 DEF Timers
  <2>2. CASE ~(acc[2] = 1 /\ t.enabled = 0)
    <3>1. Changed(t, acc) = [t EXCEPT !.enabled = acc[2]]
      BY <1>4, <2>2 DEF Changed
    <3> QED
      BY <1>4, <3>1 DEF Timers
  <2> QED
    BY <2>1, <2>2
<1> QED
  BY <1>2, <1>3, <1>4, AccessIs

\* A write of what a timer already has does nothing to it.
LEMMA NoChangeKeeps ==
    ASSUME NEW t \in Timers, NEW acc \in Accesses, NoChange(t, acc)
    PROVE  Changed(t, acc) = t
<1>1. t = [t EXCEPT !.period = t.period] /\ t = [t EXCEPT !.enabled = t.enabled]
  BY DEF Timers
<1>2. CASE acc[1] = "target" /\ t.period = acc[2]
  BY <1>1, <1>2 DEF Changed
<1>3. CASE acc[1] = "control" /\ t.enabled = acc[2]
  <2>1. Changed(t, acc) = [t EXCEPT !.enabled = acc[2]]
    BY <1>3 DEF Changed
  <2> QED
    BY <1>1, <1>3, <2>1
<1> QED
  BY <1>2, <1>3 DEF NoChange

\* The same access to a timer that is behind and to one that runs all the time.
LEMMA AccessIsExact ==
    ASSUME NEW t \in Timers, NEW r \in Timers, NEW now \in Int, NEW time \in Int,
           NEW acc \in Accesses, now < time,
           RunTimer(t, now) = RefTimer(r, now)
    PROVE  /\ Access(t, acc, time) \in Timers /\ RefAccess(r, acc, time) \in Timers
           /\ RunTimer(Access(t, acc, time), time) = RefTimer(RefAccess(r, acc, time), time)
<1> DEFINE at == AccessTime(acc, time)
           a == Access(t, acc, time)
           s == RefTimer(r, at)
           b == RefAccess(r, acc, time)
<1>1. at \in Int /\ now <= at /\ at <= time
  BY DEF AccessTime
<1>2. RefTimer(t, now) = RefTimer(r, now)
  BY CaughtUp
<1>3. RefTimer(t, at) = s
  <2>1. RefTimer(RefTimer(t, now), at) = RefTimer(t, at)
    BY <1>1, CaughtUpTwice
  <2>2. RefTimer(RefTimer(r, now), at) = RefTimer(r, at)
    BY <1>1, CaughtUpTwice
  <2> QED
    BY <1>2, <2>1, <2>2
<1>4. /\ s \in Timers /\ RunTimer(t, at) = s
      /\ s.period = t.period /\ s.enabled = t.enabled
  BY <1>1, <1>3, CaughtUp
<1>5. b = Changed(s, acc) /\ b \in Timers
  BY <1>4, ChangedType DEF RefAccess
<1>6. CASE ~NoChange(t, acc)
  <2>1. a = b
    BY <1>4, <1>5, <1>6 DEF Access
  <2> QED
    BY <1>5, <2>1, CaughtUp
<1>7. CASE NoChange(t, acc)
  <2>1. a = t
    BY <1>7 DEF Access
  <2>2. NoChange(s, acc)
    BY <1>4, <1>7 DEF NoChange
  <2>3. b = s
    BY <1>4, <1>5, <2>2, NoChangeKeeps
  <2>4. RefTimer(s, time) = RefTimer(t, time)
    BY <1>1, <1>3, CaughtUpTwice
  <2>5. RunTimer(t, time) = RefTimer(t, time)
    BY CaughtUp
  <2> QED
    BY <1>5, <2>1, <2>3, <2>4, <2>5
<1> QED
  BY <1>6, <1>7

\* A timer that is not looked at.
LEMMA NoAccessIsExact ==
    ASSUME NEW t \in Timers, NEW r \in Timers, NEW now \in Int, NEW time \in Int,
           now <= time, RunTimer(t, now) = RefTimer(r, now)
    PROVE  /\ RefTimer(r, time) \in Timers
           /\ RunTimer(t, time) = RefTimer(RefTimer(r, time), time)
<1>1. RefTimer(t, now) = RefTimer(r, now)
  BY CaughtUp
<1>2. RefTimer(t, time) = RefTimer(r, time)
  <2>1. RefTimer(RefTimer(t, now), time) = RefTimer(t, time)
    BY CaughtUpTwice
  <2>2. RefTimer(RefTimer(r, now), time) = RefTimer(r, time)
    BY CaughtUpTwice
  <2> QED
    BY <1>1, <2>1, <2>2
<1>3. RefTimer(RefTimer(r, time), time) = RefTimer(r, time)
  BY CaughtUpTwice
<1> QED
  BY <1>2, <1>3, CaughtUp

-----------------------------------------------------------------------------
(***************************************************************************)
(* Sequences of pairs.                                                     *)
(***************************************************************************)
LEMMA PairsAre ==
    ASSUME NEW a \in Int, NEW n \in Nat
    PROVE  /\ Pairs(a, n) \in Seq(Int) /\ Len(Pairs(a, n)) = n
           /\ DOMAIN Pairs(a, n) = 1..n
           /\ \A i \in 1..n : Pairs(a, n)[i] = a + i - 1
<1>1. \A i \in 1..n : a + i - 1 \in Int
  OBVIOUS
<1>2. Pairs(a, n) \in [1..n -> Int]
  BY <1>1 DEF Pairs
<1> QED
  BY <1>2 DEF Pairs

LEMMA NoPairs ==
    ASSUME NEW a \in Int, NEW n \in Int, n <= 0
    PROVE  Pairs(a, n) = << >>
<1>1. 1..n = {}
  OBVIOUS
<1>2. Pairs(a, n) = [i \in {} |-> a + i - 1]
  BY <1>1 DEF Pairs
<1>3. Pairs(a, n) \in [1..0 -> Int]
  BY <1>2
<1> QED
  BY <1>3

LEMMA SamePairs ==
    ASSUME NEW s \in Seq(Int), NEW a \in Int, NEW n \in Nat, Len(s) = n,
           \A i \in 1..n : s[i] = a + i - 1
    PROVE  s = Pairs(a, n)
  BY PairsAre, SeqEqual

LEMMA PairsJoin ==
    ASSUME NEW a \in Int, NEW n \in Nat, NEW k \in Nat
    PROVE  Pairs(a, n) \o Pairs(a + n, k) = Pairs(a, n + k)
<1> DEFINE s == Pairs(a, n)
           b == a + n
           t == Pairs(b, k)
           u == s \o t
<1>1. /\ s \in Seq(Int) /\ Len(s) = n /\ \A i \in 1..n : s[i] = a + i - 1
  BY PairsAre
<1>2. b \in Int
  OBVIOUS
<1> HIDE DEF b
<1>3. t \in Seq(Int) /\ Len(t) = k /\ \A i \in 1..k : t[i] = b + i - 1
  BY <1>2, PairsAre
<1> HIDE DEF s, t
<1>4. /\ u \in Seq(Int) /\ Len(u) = n + k
      /\ \A i \in 1..n + k : u[i] = IF i <= n THEN s[i] ELSE t[i - n]
  BY <1>1, <1>3, ConcatProperties
<1>5. \A i \in 1..n + k : u[i] = a + i - 1
  <2> TAKE i \in 1..n + k
  <2>1. CASE i <= n
    BY <1>1, <1>4, <2>1
  <2>2. CASE i > n
    BY <1>3, <1>4, <2>2 DEF b
  <2>3. i \in Int /\ n \in Int
    OBVIOUS
  <2>4. i <= n \/ i > n
    BY <2>3
  <2> QED
    BY <2>1, <2>2, <2>4
<1> HIDE DEF u
<1>6. u = Pairs(a, n + k)
  BY <1>4, <1>5, SamePairs
<1> QED
  BY <1>6 DEF u, s, t, b

LEMMA PairsPart ==
    ASSUME NEW a \in Int, NEW n \in Nat, NEW i \in 1..n + 1, NEW j \in i - 1..n
    PROVE  SubSeq(Pairs(a, n), i, j) = Pairs(a + i - 1, j - i + 1)
<1> DEFINE s == Pairs(a, n)
           u == SubSeq(s, i, j)
           b == a + i - 1
           k == j - i + 1
<1>1. /\ s \in Seq(Int) /\ Len(s) = n /\ \A x \in 1..n : s[x] = a + x - 1
  BY PairsAre
<1>2. b \in Int /\ k \in Nat /\ i \in Int /\ j \in Int
  OBVIOUS
<1> HIDE DEF s
<1>3. /\ u \in Seq(Int) /\ Len(u) = IF i <= j THEN j - i + 1 ELSE 0
      /\ \A x \in 1..j - i + 1 : u[x] = s[i + x - 1]
  BY <1>1, <1>2, SubSeqProperties
<1>4. Len(u) = k
  BY <1>2, <1>3
<1>5. \A x \in 1..k : u[x] = b + x - 1
  <2> TAKE x \in 1..k
  <2>1. i + x - 1 \in 1..n
    OBVIOUS
  <2>2. u[x] = a + (i + x - 1) - 1
    BY <1>1, <1>3, <2>1
  <2> QED
    BY <2>2
<1> HIDE DEF u, b, k
<1>6. u = Pairs(b, k)
  BY <1>2, <1>3, <1>4, <1>5, SamePairs
<1> QED
  BY <1>6 DEF u, s, b, k

\* What WRITE_SAMPLES makes of k pairs, when N have been made of a frame of n.
LEMMA PairsMade ==
    ASSUME NEW N \in Nat, NEW n \in Nat, NEW k \in Nat
    PROVE  LET o    == Pairs(0, Min({N, n}))
               x    == Pairs(n, N - n)
               made == Pairs(N, k)
               fit  == Min({k, n - Len(o)})
           IN  /\ o \o SubSeq(made, 1, fit) = Pairs(0, Min({N + k, n}))
               /\ x \o SubSeq(made, fit + 1, k) = Pairs(n, (N + k) - n)
               /\ o \in Seq(Int) /\ Len(o) <= n
<1> DEFINE o == Pairs(0, Min({N, n}))
           x == Pairs(n, N - n)
           made == Pairs(N, k)
           fit  == Min({k, n - Len(o)})
           first == SubSeq(made, 1, fit)
           last == SubSeq(made, fit + 1, k)
<1> SUFFICES /\ o \o first = Pairs(0, Min({N + k, n})) /\ x \o last = Pairs(n, (N + k) - n)
             /\ o \in Seq(Int) /\ Len(o) <= n
  OBVIOUS
<1>0. o = Pairs(0, Min({N, n})) /\ x = Pairs(n, N - n)
  OBVIOUS
<1> HIDE DEF o, x
<1>1. made \in Seq(Int) /\ Len(made) = k
  <2>1. N \in Int
    OBVIOUS
  <2> HIDE DEF made
  <2> QED
    BY <2>1, PairsAre DEF made
<1>2. << >> \in Seq(Int) /\ 0 \in Int /\ 0 \in Nat
  OBVIOUS
<1>3. Min({N, n}) = (IF N <= n THEN N ELSE n) /\ Min({N + k, n}) = IF N + k <= n THEN N + k ELSE n
  BY MinOfTwo
<1>4. CASE n <= N
  <2>1. Min({N, n}) = n /\ Min({N + k, n}) = n
    BY <1>3, <1>4
  <2>2. o \in Seq(Int) /\ Len(o) = n
    BY <1>0, <1>2, <2>1, PairsAre
  <2>3. fit = 0
    <3>1. k \in Int /\ n - n = 0 /\ 0 \in Int /\ 0 <= k
      OBVIOUS
    <3>2. Min({k, 0}) = 0
      BY <3>1, MinOfTwo
    <3> QED
      BY <2>2, <3>1, <3>2
  <2> HIDE DEF fit
  <2>4. first = << >>
    BY <2>3, SubSeqEmpty
  <2>5. last = made
    BY <1>1, <2>3, SubSeqFull
  <2>6. o \o first = o
    BY <2>2, <2>4, ConcatEmptySeq
  <2> DEFINE m == N - n
  <2>7. m \in Nat /\ n + m = N /\ m + k = (N + k) - n /\ n \in Int
    BY <1>4
  <2> HIDE DEF m
  <2>8. Pairs(n, m) \o Pairs(n + m, k) = Pairs(n, m + k)
    BY <2>7, PairsJoin
  <2>9. x = Pairs(n, m)
    BY <1>0 DEF m
  <2> QED
    <3> HIDE DEF first, last, made
    <3>4. o = Pairs(0, Min({N + k, n}))
      BY <1>0, <2>1, Zenon
    <3>1. o \o first = Pairs(0, Min({N + k, n}))
      BY <2>6, <3>4, Zenon
    <3>5. Len(o) <= n
      BY <2>2
    <3>2. x \o last = Pairs(n, m + k)
      BY <2>5, <2>7, <2>8, <2>9 DEF made
    <3>3. x \o last = Pairs(n, (N + k) - n)
      BY <2>7, <3>2
    <3> QED
      BY <2>2, <3>1, <3>3, <3>5
<1>5. CASE N < n
  <2>1. Min({N, n}) = N
    BY <1>3, <1>5
  <2>2. o = Pairs(0, N) /\ o \in Seq(Int) /\ Len(o) = N
    BY <1>0, <1>2, <2>1, PairsAre
  <2>3. x = << >>
    <3>1. N - n \in Int /\ N - n <= 0 /\ n \in Int
      BY <1>5
    <3> QED
      BY <1>0, <3>1, NoPairs
  <2> DEFINE m == n - N
  <2>4. m \in Nat /\ N + m = n
    BY <1>5
  <2>5. fit = IF k <= m THEN k ELSE m
    <3>1. fit = Min({k, m})
      BY <2>2
    <3>2. k \in Int /\ m \in Int
      BY <2>4
    <3> HIDE DEF m, fit
    <3> QED
      BY <3>1, <3>2, MinOfTwo
  <2> HIDE DEF m, fit
  <2>6. fit \in 0..k /\ fit \in Nat
    BY <2>4, <2>5
  <2>7. first = Pairs(N, fit)
    <3>1. 1 \in 1..k + 1 /\ fit \in 1 - 1..k /\ N \in Int
      BY <2>6
    <3>2. first = Pairs(N + 1 - 1, fit - 1 + 1)
      BY <3>1, PairsPart
    <3>3. N + 1 - 1 = N /\ fit - 1 + 1 = fit
      BY <2>6
    <3> QED
      BY <3>2, <3>3
  <2>8. last = Pairs(N + fit, k - fit)
    <3> DEFINE i == fit + 1
    <3>1. i \in 1..k + 1 /\ k \in i - 1..k /\ N \in Int
      BY <2>6
    <3>2. i = fit + 1
      OBVIOUS
    <3> HIDE DEF i
    <3>3. last = Pairs(N + i - 1, k - i + 1)
      BY <3>1, <3>2, PairsPart
    <3>4. N + i - 1 = N + fit /\ k - i + 1 = k - fit
      BY <2>6, <3>2
    <3> QED
      BY <3>3, <3>4
  <2> HIDE DEF made, first, last
  <2>9. o \o first = Pairs(0, N + fit)
    <3>1. 0 + N = N
      OBVIOUS
    <3>2. Pairs(0, N) \o Pairs(0 + N, fit) = Pairs(0, N + fit)
      BY <1>2, <2>6, PairsJoin
    <3> QED
      BY <2>2, <2>7, <3>1, <3>2
  <2>10. x \o last = last
    <3>1. k - fit \in Nat /\ N + fit \in Int
      BY <2>6
    <3>2. last \in Seq(Int)
      BY <2>8, <3>1, PairsAre
    <3> QED
      BY <2>3, <3>2, ConcatEmptySeq
  <2>11. N + fit = Min({N + k, n})
    BY <1>3, <2>4, <2>5, <2>6 DEF m
  <2>12. last = Pairs(n, (N + k) - n)
    <3>1. CASE k <= m
      <4>1. fit = k /\ k - fit = 0 /\ N + fit \in Int
        BY <2>5, <3>1
      <4>2. (N + k) - n \in Int /\ (N + k) - n <= 0 /\ n \in Int
        BY <3>1 DEF m
      <4> QED
        BY <1>2, <2>8, <4>1, <4>2, NoPairs
    <3>2. CASE ~(k <= m)
      <4>1. fit = m
        BY <2>5, <3>2
      <4>2. N + fit = n /\ k - fit = (N + k) - n
        BY <2>4, <4>1 DEF m
      <4> QED
        BY <2>8, <4>2
    <3> QED
      BY <3>1, <3>2
  <2> QED
    <3>1. o \o first = Pairs(0, Min({N + k, n}))
      BY <2>9, <2>11
    <3>2. x \o last = Pairs(n, (N + k) - n)
      BY <2>10, <2>12
    <3>3. Len(o) <= n
      BY <1>5, <2>2
    <3> QED
      BY <2>2, <3>1, <3>2, <3>3
<1>6. n <= N \/ N < n
  OBVIOUS
<1> QED
  BY <1>4, <1>5, <1>6

\* dsp_extra does not come round while there is room in it.
LEMMA NotRound ==
    ASSUME NEW rest \in Seq(Int), Len(rest) < ExtraPairs
    PROVE  SubSeq(rest, (Len(rest) \div ExtraPairs) * ExtraPairs + 1, Len(rest)) = rest
<1> DEFINE n == Len(rest)
           e == ExtraPairs
<1>1. n \in Nat /\ e \in Nat \ {0}
  BY Constants
<1>2. n \div e = 0
  <2>1. n = e * 0 + n /\ n \in 0..e - 1 /\ 0 \in Int /\ n \in Int
    BY <1>1
  <2> HIDE DEF n, e
  <2> QED
    BY <1>1, <2>1, DivisionIs
<1>3. (n \div e) * e + 1 = 1
  BY <1>1, <1>2
<1> QED
  BY <1>3, SubSeqFull

LEMMA PairsBelow ==
    ASSUME NEW b \in Int, NEW a \in Int
    PROVE  /\ Pairs(b, a) \in Seq(Int)
           /\ \A n \in Int : 0 < n /\ a < n => Len(Pairs(b, a)) < n
<1>1. CASE a <= 0
  <2>1. Pairs(b, a) = << >>
    BY <1>1, NoPairs
  <2>2. << >> \in Seq(Int) /\ Len(<< >>) = 0
    OBVIOUS
  <2> QED
    BY <2>1, <2>2
<1>2. CASE a > 0
  <2>1. a \in Nat
    BY <1>2
  <2> QED
    BY <2>1, PairsAre
<1> QED
  BY <1>1, <1>2

-----------------------------------------------------------------------------
(***************************************************************************)
(* The bounds, and what the DSP has made too much.                         *)
(***************************************************************************)
LEMMA Bounds ==
    /\ Lag \in Nat /\ Lag < ClocksPerSample /\ Max(InstrClocks) = Lag + 1
    /\ Earliest \in Nat \ {0} /\ \A t \in RegTimes : -t <= Earliest
    /\ SkippingTime \in Int /\ Earliest < SkippingTime
    /\ Silence \in Nat /\ ExtraPairs = Silence + Silence
    /\ Silence * ClocksPerSample \in Nat
    /\ Silence * ClocksPerSample >= ClocksPerSample + Earliest + MaxRegTime + Lag
    /\ ClocksPerSample \in Nat \ {0} /\ MaxRegTime \in Nat \ {0}
<1>1. Lag \in Nat /\ Max(InstrClocks) = Lag + 1
  <2>1. PICK c \in InstrClocks : \A d \in InstrClocks : d <= c
    BY SpcAssumption DEF SpcAssumption
  <2>2. InstrClocks \in SUBSET Int /\ InstrClocks \subseteq Nat \ {0}
    BY Constants
  <2>3. Max(InstrClocks) \in InstrClocks
    BY <2>1, <2>2, LeastMost
  <2>4. PICK m \in Nat \ {0} : Max(InstrClocks) = m
    BY <2>2, <2>3
  <2> QED
    BY <2>4 DEF Lag
<1>2. Earliest \in Nat \ {0} /\ \A t \in RegTimes : -t <= Earliest
  <2> DEFINE S == {-t : t \in RegTimes} \cup {1}
  <2>1. S \in SUBSET Int /\ 1 \in S /\ \A t \in RegTimes : -t \in S
    BY Constants
  <2>2. \E x \in S : \A y \in S : y <= x
    <3>1. PICK t \in RegTimes : \A u \in RegTimes : t <= u
      BY SpcAssumption DEF SpcAssumption
    <3>2. t \in Int /\ -t \in S
      BY <2>1, Constants
    <3>3. \A u \in RegTimes : u \in Int /\ -u <= -t
      BY <3>1, <3>2, Constants
    <3>4. CASE -t >= 1
      <4>1. \A y \in S : y <= -t
        BY <3>3, <3>4
      <4> QED
        BY <3>2, <4>1
    <3>5. CASE ~(-t >= 1)
      <4>1. \A y \in S : y <= 1
        BY <3>2, <3>3, <3>5
      <4> QED
        BY <2>1, <4>1
    <3> QED
      BY <3>4, <3>5
  <2> HIDE DEF S
  <2>3. Max(S) \in S /\ \A y \in S : y <= Max(S)
    BY <2>1, <2>2, LeastMost
  <2>4. PICK m \in Int : Max(S) = m
    BY <2>1, <2>3
  <2>5. 1 <= m /\ \A t \in RegTimes : -t <= m
    BY <2>1, <2>3, <2>4
  <2>6. Earliest = m
    BY <2>4 DEF Earliest, S
  <2> QED
    BY <2>5, <2>6
<1>3. Silence \in Nat /\ ExtraPairs = Silence + Silence
  <2>1. ExtraPairs \in Nat /\ ExtraPairs % 2 = 0 /\ 2 \in Nat \ {0}
    BY SpcAssumption DEF SpcAssumption
  <2>2. ExtraPairs = 2 * Silence + (ExtraPairs % 2) /\ Silence \in Int
    BY <2>1, Division DEF Silence
  <2> QED
    BY <2>1, <2>2
<1>4. ClocksPerSample \in Nat \ {0} /\ MaxRegTime \in Nat \ {0} /\ SkippingTime \in Int
  BY Constants
<1>5. Silence * ClocksPerSample \in Nat
  BY <1>3, <1>4
<1>6. Silence * ClocksPerSample >= ClocksPerSample + Earliest + MaxRegTime + Lag
  BY SpcAssumption DEF SpcAssumption, Silence
<1>7. Earliest < SkippingTime /\ Lag < ClocksPerSample
  BY <1>2, <1>4, SpcAssumption DEF SpcAssumption
<1> QED
  BY <1>1, <1>2, <1>3, <1>4, <1>5, <1>6, <1>7

LEMMA SurplusMoved ==
    ASSUME NEW a \in Int, NEW k \in Int, NEW t \in Int, Surplus(a, t)
    PROVE  Surplus(a + k, t + k * ClocksPerSample)
<1> DEFINE c == ClocksPerSample
           s == Silence
           m == a - s
           x == m * c
           y == k * c
           z == ((a + k) - s) * c
<1>1. c \in Int /\ s \in Int
  BY Bounds
<1>2. m \in Int /\ (a + k) - s = m + k
  BY <1>1
<1>3. z = x + y /\ x \in Int /\ y \in Int
  <2> HIDE DEF m
  <2>1. (m + k) * c = m * c + k * c /\ m * c \in Int /\ k * c \in Int
    BY <1>1, <1>2
  <2> QED
    BY <1>2, <2>1
<1> HIDE DEF x, y, z
<1>4. z - (t + y) = x - t
  BY <1>3
<1>5. -(c + Earliest) <= x - t /\ x - t < MaxRegTime + Lag
  BY DEF Surplus, x
<1> QED
  BY <1>4, <1>5 DEF Surplus, y, z

LEMMA SurplusOfSilence ==
    ASSUME NEW t \in Int, Apart(t)
    PROVE  Surplus(Silence, t)
<1>1. (Silence - Silence) * ClocksPerSample - t = -t
  BY Bounds
<1>2. -(ClocksPerSample + Earliest) <= -t /\ -t < MaxRegTime + Lag
  BY Bounds DEF Apart
<1> QED
  BY <1>1, <1>2 DEF Surplus

\* What has been made too much has room in the extra buffer.
LEMMA Room ==
    ASSUME NEW a \in Int, NEW t \in Int, Surplus(a, t), t <= ClocksPerSample + Earliest
    PROVE  /\ a < ExtraPairs /\ 0 < ExtraPairs
           /\ -MaxRegTime - Lag < t => a \in Nat
<1> DEFINE c == ClocksPerSample
           s == Silence
           b == s * c
           x == a * c
<1>1. /\ c \in Nat \ {0} /\ s \in Nat /\ b \in Nat
      /\ ExtraPairs = s + s /\ b >= c + Earliest + MaxRegTime + Lag
      /\ Earliest \in Nat /\ MaxRegTime \in Nat /\ Lag \in Nat
  BY Bounds
<1>2. (a - s) * c = x - b /\ x \in Int
  BY <1>1
<1>3. -(c + Earliest) <= x - b - t /\ x - b - t < MaxRegTime + Lag
  BY <1>2 DEF Surplus
<1>4. x < b + b
  <2> HIDE DEF x, b
  <2> QED
    BY <1>1, <1>2, <1>3
<1>5. a < s + s
  <2> SUFFICES ASSUME a >= s + s PROVE FALSE
    BY <1>1
  <2>1. a * c >= (s + s) * c /\ (s + s) * c = b + b
    BY <1>1
  <2> QED
    BY <1>1, <1>2, <1>4, <2>1
<1>6. 0 < s + s
  BY <1>1
<1>7. -MaxRegTime - Lag < t => a \in Nat
  <2> SUFFICES ASSUME -MaxRegTime - Lag < t, a < 0 PROVE FALSE
    OBVIOUS
  <2>1. x <= 0
    BY <1>1
  <2> HIDE DEF x, b
  <2> QED
    BY <1>1, <1>2, <1>3, <2>1
<1> QED
  BY <1>1, <1>5, <1>6, <1>7

\* When the DSP is to run for a register, and at the end of a frame.
LEMMA EnoughPairs ==
    ASSUME NEW d \in Int, d >= 0
    PROVE  LET k == d \div ClocksPerSample + 1
           IN  /\ k \in Nat \ {0} /\ k * ClocksPerSample \in Int
               /\ d < k * ClocksPerSample /\ k * ClocksPerSample <= d + ClocksPerSample
<1> DEFINE c == ClocksPerSample
           q == d \div c
           r == d % c
           k == q + 1
           x == k * c
           y == c * q
<1>1. c \in Nat \ {0}
  BY Bounds
<1>2. q \in Int /\ r \in 0..c - 1 /\ d = y + r
  BY <1>1, Division
<1> HIDE DEF q, r
<1>3. x = y + c /\ x \in Int /\ y \in Int
  BY <1>1, <1>2
<1>4. q >= 0
  <2> SUFFICES ASSUME q <= -1 PROVE FALSE
    BY <1>2
  <2>1. y <= -c
    BY <1>1, <1>2
  <2> HIDE DEF x, y
  <2> QED
    BY <1>1, <1>2, <1>3, <2>1
<1> HIDE DEF x, y
<1>5. d < x /\ x <= d + c
  BY <1>1, <1>2, <1>3
<1>6. k \in Nat \ {0}
  BY <1>2, <1>4
<1> QED
  BY <1>3, <1>5, <1>6 DEF x, q

-----------------------------------------------------------------------------
(***************************************************************************)
(* What k more pairs are to the caller's buffer and to the extra one.      *)
(***************************************************************************)
Fit(k) == Min({k, out_size - Len(out)})
Filled(k) == out \o SubSeq(Pairs(next_pair, k), 1, Fit(k))
Rest(k) == dsp_extra \o SubSeq(Pairs(next_pair, k), Fit(k) + 1, k)

LEMMA PlayMade ==
    ASSUME SpcInv, frame = "play", NEW k \in Nat
    PROVE  /\ Filled(k) = FirstPairs(Min({next_pair + k, out_size}))
           /\ Rest(k) = Pairs(out_size, (next_pair + k) - out_size)
           /\ Filled(k) \in Seq(Int) /\ Rest(k) \in Seq(Int)
<1> DEFINE N == next_pair
           n == out_size
<1>1. /\ N \in Nat /\ n \in Nat /\ out = Pairs(0, Min({N, n}))
      /\ dsp_extra = Pairs(n, N - n)
  BY DEF SpcInv, TypeOK, PairsInv, FirstPairs
<1> HIDE DEF N, n
<1>2. /\ Filled(k) = Pairs(0, Min({N + k, n}))
      /\ Rest(k) = Pairs(n, (N + k) - n)
  <2>1. LET o    == Pairs(0, Min({N, n}))
            x    == Pairs(n, N - n)
            made == Pairs(N, k)
            fit  == Min({k, n - Len(o)})
        IN  /\ o \o SubSeq(made, 1, fit) = Pairs(0, Min({N + k, n}))
            /\ x \o SubSeq(made, fit + 1, k) = Pairs(n, (N + k) - n)
    BY <1>1, PairsMade
  <2> QED
    BY <1>1, <2>1, Zenon DEF Filled, Rest, Fit, N, n
<1>3. Pairs(0, Min({N + k, n})) \in Seq(Int)
  <2>1. N + k \in Int /\ n \in Int /\ N + k \in Nat
    BY <1>1
  <2>2. Min({N + k, n}) \in Nat /\ 0 \in Int
    BY <1>1, <2>1, MinOfTwo
  <2> QED
    BY <2>2, PairsAre
<1>4. Pairs(n, (N + k) - n) \in Seq(Int)
  <2>1. (N + k) - n \in Int /\ n \in Int
    BY <1>1
  <2> QED
    BY <2>1, PairsBelow
<1> QED
  BY <1>2, <1>3, <1>4 DEF N, n, FirstPairs

LEMMA MuteMade ==
    ASSUME SpcInv, frame \in {"mute", "fast"}, NEW k \in Nat
    PROVE  Filled(k) = << >> /\ Rest(k) \in Seq(Int)
<1>1. out = << >> /\ out_size = 0 /\ dsp_extra \in Seq(Int) /\ next_pair \in Nat
  BY DEF SpcInv, TypeOK, PairsInv
<1>2. Fit(k) = 0
  <2>1. Len(out) = 0 /\ out_size - 0 = 0
    BY <1>1
  <2>2. Min({k, 0}) = 0
    <3>1. k \in Int /\ 0 \in Int /\ 0 <= k
      OBVIOUS
    <3> QED
      BY <3>1, MinOfTwo
  <2> QED
    BY <2>1, <2>2 DEF Fit
<1>3. Pairs(next_pair, k) \in Seq(Int) /\ Len(Pairs(next_pair, k)) = k
  <2>1. next_pair \in Int
    BY <1>1
  <2> QED
    BY <2>1, PairsAre
<1> DEFINE made == Pairs(next_pair, k)
<1> HIDE DEF made
<1>4. made \in Seq(Int) /\ Len(made) = k
  BY <1>3 DEF made
<1>5. SubSeq(made, 1, 0) = << >> /\ SubSeq(made, 1, k) = made
  BY <1>4, SubSeqEmpty, SubSeqFull
<1>6. Filled(k) = << >>
  BY <1>1, <1>2, <1>5 DEF Filled, made
<1>7. Rest(k) = dsp_extra \o made
  <2>1. 0 + 1 = 1
    OBVIOUS
  <2> QED
    BY <1>2, <1>5, <2>1 DEF Rest, made
<1>8. dsp_extra \o made \in Seq(Int)
  BY <1>1, <1>4, ConcatProperties
<1> QED
  BY <1>6, <1>7, <1>8

\* WRITE_SAMPLES goes round in the extra buffer.
LEMMA RoundType ==
    ASSUME NEW rest \in Seq(Int)
    PROVE  SubSeq(rest, (Len(rest) \div ExtraPairs) * ExtraPairs + 1, Len(rest)) \in Seq(Int)
<1> DEFINE n == Len(rest)
           e == ExtraPairs
           q == n \div e
           i == q * e + 1
<1>1. n \in Nat /\ e \in Nat \ {0}
  BY Bounds
<1>2. q \in Int /\ n = e * q + (n % e) /\ n % e \in 0..e - 1
  <2>1. n \in Int
    BY <1>1
  <2> HIDE DEF n, e
  <2> QED
    BY <1>1, <2>1, Division
<1>3. q >= 0
  <2> SUFFICES ASSUME q <= -1 PROVE FALSE
    BY <1>2
  <2> HIDE DEF q
  <2>1. e * q <= -e
    BY <1>1, <1>2
  <2> QED
    BY <1>1, <1>2, <2>1
<1>4. i \in Nat /\ i >= 1
  BY <1>1, <1>2, <1>3
<1> HIDE DEF i
<1>5. \A x \in i..n : rest[x] \in Int
  BY <1>4
<1>6. SubSeq(rest, i, n) \in Seq(Int)
  BY <1>1, <1>4, <1>5, SubSeqProperties
<1> QED
  BY <1>6 DEF i

-----------------------------------------------------------------------------
(***************************************************************************)
(* Between frames.                                                         *)
(***************************************************************************)
LEMMA LoadedType ==
    ASSUME NEW p \in Targets, NEW e \in {0, 1}, NEW s \in Prescalers
    PROVE  LoadedTimer(p, e, s) \in Timers /\ LoadedTimer(p, e, s).next_time > 0
<1> DEFINE period == If0Then256(p)
<1>1. period \in 1..DividerSize
  <2> DEFINE a == p - 1
             r == a % DividerSize
  <2>1. a \in Int /\ DividerSize \in Nat \ {0}
    BY Constants
  <2>2. period = r + 1
    BY DEF If0Then256
  <2> HIDE DEF a, period
  <2>3. r \in 0..DividerSize - 1
    BY <2>1, Division
  <2> HIDE DEF r
  <2> QED
    BY <2>1, <2>2, <2>3
<1>2. 0 \in 0..DividerSize - 1 /\ 0 \in 0..CounterSize - 1
  BY Constants
<1>3. LoadedTimer(p, e, s) =
        [next_time |-> 1, prescaler |-> s, period |-> period,
         divider |-> 0, enabled |-> e, counter |-> 0]
  BY DEF LoadedTimer
<1> HIDE DEF period
<1> QED
  BY <1>1, <1>2, <1>3 DEF Timers

LEMMA SilentPairs ==
    /\ FirstPairs(Silence) \in Seq(Int) /\ FirstPairs(0) = << >>
    /\ << >> \in Seq(Int) /\ Silence <= ExtraPairs
<1>1. 0 \in Int /\ Silence \in Nat /\ ExtraPairs = Silence + Silence
  BY Bounds
<1> QED
  BY <1>1, PairsAre, NoPairs DEF FirstPairs

LEMMA InitSpc == Init => SpcInv
<1> SUFFICES ASSUME Init PROVE SpcInv
  OBVIOUS
<1>1. timer \in Timers /\ ref = timer /\ timer.next_time > 0
  BY LoadedType DEF Init
<1>2. frame = "none" /\ spc_time = 0 /\ dsp_time = ClocksPerSample + 1
      /\ next_pair = Silence /\ out = << >> /\ out_size = 0
      /\ extra_buf = FirstPairs(Silence)
  BY DEF Init
<1>3. TypeOK
  <2>1. ClocksPerSample + 1 \in Int /\ Silence \in Nat
    BY Bounds
  <2> QED
    BY <1>1, <1>2, <2>1, SilentPairs DEF Init, TypeOK
<1>4. Apart(ClocksPerSample + 1)
  BY Bounds DEF Apart
<1>5. ClocksPerSample + 1 \in Int /\ dsp_time + spc_time = ClocksPerSample + 1
  BY <1>2, Bounds
<1>6. ClocksKept
  BY <1>2, <1>4, <1>5, Bounds DEF ClocksKept
<1>7. FrameInv
  BY <1>2 DEF FrameInv
<1>8. PairsInv
  <2>1. Surplus(Silence, dsp_time + spc_time)
    BY <1>4, <1>5, SurplusOfSilence
  <2> QED
    BY <1>2, <2>1, SilentPairs DEF PairsInv, EveryPairOnce
<1>9. TimerInv
  <2>1. RunTimer(timer, 0) = RefTimer(ref, 0)
    BY <1>1, CaughtUp
  <2> QED
    BY <1>1, <1>2, <2>1 DEF TimerInv, TimerExact
<1> QED
  BY <1>3, <1>6, <1>7, <1>8, <1>9 DEF SpcInv

LEMMA Between ==
    ASSUME SpcInv, frame = "none"
    PROVE  /\ spc_time \in Int /\ -Lag <= spc_time /\ spc_time <= 0
           /\ dsp_time \in Int /\ Apart(dsp_time + spc_time)
           /\ timer \in Timers /\ ref = timer /\ timer.next_time > 0
           /\ out = FirstPairs(out_size) /\ extra_buf = FirstPairs(next_pair)
           /\ next_pair \in Nat /\ Surplus(next_pair, dsp_time + spc_time)
  BY DEF SpcInv, TypeOK, ClocksKept, PairsInv, EveryPairOnce, TimerInv

LEMMA SetTempoStep ==
    ASSUME SpcInv, SetTempo
    PROVE  SpcInv'
<1>1. frame = "none" /\ frame' = "none"
  BY DEF SetTempo
<1>2. PICK s \in Prescalers : /\ timer' = [timer EXCEPT !.prescaler = s]
                              /\ ref' = [ref EXCEPT !.prescaler = s]
  BY DEF SetTempo
<1>3. timer \in Timers /\ ref = timer /\ timer.next_time > 0
  BY <1>1, Between
<1>4. timer' \in Timers /\ ref' = timer' /\ timer'.next_time > 0
  BY <1>2, <1>3 DEF Timers
<1>5. TypeOK'
  BY <1>1, <1>4 DEF SetTempo, SpcInv, TypeOK, outVars
<1>6. ClocksKept' /\ FrameInv' /\ PairsInv'
  BY <1>1 DEF SetTempo, SpcInv, ClocksKept, FrameInv, PairsInv, EveryPairOnce, outVars
<1>7. TimerInv'
  <2>1. RunTimer(timer', 0) = RefTimer(timer', 0)
    BY <1>4, CaughtUp
  <2> QED
    BY <1>1, <1>4, <2>1 DEF TimerInv, TimerExact
<1> QED
  BY <1>5, <1>6, <1>7 DEF SpcInv

\* What run_until_() does first.
LEMMA FrameStart ==
    ASSUME SpcInv, frame = "none", frame' # "none",
           NEW n \in Nat \ {0}, NEW dsp \in Int, RunUntil(n * ClocksPerSample, dsp)
    PROVE  LET end == n * ClocksPerSample
               rel == spc_time - end
           IN  /\ end \in Nat /\ ClocksPerSample <= end /\ rel \in Int
               /\ end_time' = end /\ rel_time' = rel /\ dsp_time' = dsp + rel
               /\ end_time' \in Nat /\ rel_time' \in Int /\ dsp_time' \in Int
               /\ rel_time' <= 0
               /\ timer' \in Timers /\ ref' \in Timers /\ TimerInv'
<1> DEFINE end == n * ClocksPerSample
           rel == spc_time - end
<1>1. end \in Nat /\ ClocksPerSample <= end
  BY Bounds
<1>2. spc_time \in Int /\ spc_time <= 0 /\ timer \in Timers /\ ref = timer
  BY Between
<1>3. end_time' = end /\ rel_time' = rel /\ dsp_time' = dsp + rel
  BY DEF RunUntil
<1>4. /\ timer' = [timer EXCEPT !.next_time = @ + rel]
      /\ ref' = [ref EXCEPT !.next_time = @ + rel]
  BY <1>3 DEF RunUntil
<1> HIDE DEF end
<1>5. rel \in Int /\ rel <= 0
  <2>1. ClocksPerSample \in Nat
    BY Bounds
  <2> QED
    BY <1>1, <1>2, <2>1
<1> HIDE DEF rel
<1>6. timer' \in Timers /\ ref' = timer'
  <2> DEFINE next == timer.next_time + rel
  <2>1. next \in Int
    BY <1>2, <1>5, TimerFields
  <2>2. timer' = [timer EXCEPT !.next_time = next]
    BY <1>4
  <2> HIDE DEF next
  <2>3. timer' \in Timers
    BY <1>2, <2>1, <2>2 DEF Timers
  <2> QED
    BY <1>2, <1>4, <2>3
<1>7. TimerInv'
  <2>1. RunTimer(timer', rel) = RefTimer(timer', rel)
    BY <1>5, <1>6, CaughtUp
  <2> QED
    BY <1>3, <1>6, <2>1 DEF TimerInv, TimerExact
<1> QED
  BY <1>1, <1>3, <1>5, <1>6, <1>7 DEF end, rel

LEMMA PlayStep ==
    ASSUME SpcInv, NEW n \in Requests, Play(n)
    PROVE  SpcInv'
<1> DEFINE N == next_pair
           c == ClocksPerSample
           end == n * c
           rel == spc_time - end
<1>1. n \in Nat \ {0} /\ n \in Nat /\ n \in Int
  BY Constants
<1>2. /\ frame = "none" /\ frame' = "play" /\ set_output(n) /\ RunUntil(end, dsp_time)
      /\ UNCHANGED <<program, spc_time, pending, old_dsp_time>>
  BY DEF Play
<1>3. /\ spc_time \in Int /\ dsp_time \in Int /\ Apart(dsp_time + spc_time)
      /\ extra_buf = Pairs(0, N) /\ N \in Nat /\ Surplus(N, dsp_time + spc_time)
  BY <1>2, Between DEF FirstPairs
<1>4. /\ end \in Nat /\ c <= end /\ rel \in Int
      /\ end_time' = end /\ rel_time' = rel /\ dsp_time' = dsp_time + rel
      /\ end_time' \in Nat /\ rel_time' \in Int /\ dsp_time' \in Int
      /\ rel_time' <= 0
      /\ timer' \in Timers /\ ref' \in Timers /\ TimerInv'
  BY <1>1, <1>2, <1>3, FrameStart
<1>5. /\ out' = FirstPairs(Min({N, n})) /\ out' \in Seq(Int)
      /\ dsp_extra' = Pairs(n, N - n) /\ dsp_extra' \in Seq(Int)
      /\ out_size' = n /\ extra_buf' = extra_buf /\ next_pair' = N
  <2> DEFINE fit == Min({n, Len(extra_buf)})
  <2>1. /\ out' = SubSeq(extra_buf, 1, fit) /\ out_size' = n
        /\ dsp_extra' = SubSeq(extra_buf, fit + 1, Len(extra_buf))
        /\ extra_buf' = extra_buf /\ next_pair' = N
    BY <1>2 DEF set_output
  <2>2. Len(extra_buf) = N
    <3>1. 0 \in Int
      OBVIOUS
    <3> QED
      BY <1>3, <3>1, PairsAre
  <2>3. N \in Int /\ 0 \in Int /\ 1 \in Int
    BY <1>3
  <2>4. fit = (IF n <= N THEN n ELSE N) /\ Min({N, n}) = IF N <= n THEN N ELSE n
    BY <1>1, <2>2, <2>3, MinOfTwo
  <2> HIDE DEF fit, N
  <2>5. fit \in 0..N /\ fit = Min({N, n}) /\ fit \in Nat
    BY <1>1, <1>3, <2>4
  <2>6. SubSeq(Pairs(0, N), 1, fit) = Pairs(0, fit)
    <3>1. 1 \in 1..N + 1 /\ fit \in 1 - 1..N
      BY <1>3, <2>5
    <3>2. SubSeq(Pairs(0, N), 1, fit) = Pairs(0 + 1 - 1, fit - 1 + 1)
      BY <1>3, <2>3, <3>1, PairsPart
    <3>3. 0 + 1 - 1 = 0 /\ fit - 1 + 1 = fit
      BY <2>5
    <3> QED
      BY <3>2, <3>3
  <2>7. SubSeq(Pairs(0, N), fit + 1, N) = Pairs(fit, N - fit)
    <3> DEFINE i == fit + 1
    <3>1. i \in 1..N + 1 /\ N \in i - 1..N
      BY <1>3, <2>5
    <3>2. 0 + i - 1 = fit /\ N - i + 1 = N - fit
      BY <1>3, <2>5
    <3> HIDE DEF i
    <3>3. SubSeq(Pairs(0, N), i, N) = Pairs(0 + i - 1, N - i + 1)
      BY <1>3, <2>3, <3>1, PairsPart
    <3> QED
      BY <3>2, <3>3 DEF i
  <2>8. Pairs(fit, N - fit) = Pairs(n, N - n)
    <3>1. CASE n <= N
      <4>1. fit = n
        BY <2>4, <3>1
      <4> QED
        BY <4>1
    <3>2. CASE ~(n <= N)
      <4>1. fit = N /\ N - fit = 0 /\ N - n <= 0 /\ N - n \in Int
        BY <1>1, <1>3, <2>4, <3>2
      <4> QED
        BY <1>1, <2>3, <4>1, NoPairs
    <3> QED
      BY <3>1, <3>2
  <2>9. Pairs(0, fit) \in Seq(Int) /\ Pairs(n, N - n) \in Seq(Int)
    <3>1. N - n \in Int
      BY <1>1, <2>3
    <3> QED
      BY <1>1, <2>3, <2>5, <3>1, PairsAre, PairsBelow
  <2>10. out' = Pairs(0, fit) /\ dsp_extra' = Pairs(n, N - n)
    BY <1>3, <2>1, <2>2, <2>6, <2>7, <2>8
  <2> QED
    BY <2>1, <2>5, <2>9, <2>10 DEF FirstPairs
<1> HIDE DEF end, N
<1>6. TypeOK'
  BY <1>1, <1>2, <1>3, <1>4, <1>5 DEF SpcInv, TypeOK
<1>7. ClocksKept'
  BY <1>2 DEF ClocksKept
<1>8. dsp_time + rel <= Earliest
  BY <1>3, <1>4, Bounds DEF Apart
<1>9. FrameInv'
  BY <1>2, <1>4, <1>8 DEF FrameInv
<1>10. Surplus(N - n, dsp_time + rel)
  <2> DEFINE k == -n
             t == dsp_time + spc_time
  <2>1. k \in Int /\ t \in Int /\ N \in Int
    BY <1>1, <1>3
  <2>2. N + k = N - n /\ t + k * c = dsp_time + rel
    <3>1. k * c = -end
      BY <1>1, Bounds DEF end
    <3>2. N + k = N - n
      BY <1>1, <1>3
    <3> HIDE DEF k
    <3> QED
      BY <1>3, <1>4, <3>1, <3>2
  <2> HIDE DEF k, t
  <2>3. Surplus(N + k, t + k * c)
    BY <1>3, <2>1, SurplusMoved DEF t
  <2> QED
    BY <2>2, <2>3
<1>11. PairsInv'
  <2>1. Surplus(next_pair' - out_size', dsp_time')
    BY <1>4, <1>5, <1>10, Zenon
  <2> QED
    BY <1>2, <1>5, <2>1 DEF PairsInv, EveryPairOnce
<1> QED
  BY <1>4, <1>6, <1>7, <1>9, <1>11 DEF SpcInv

LEMMA ShortSkipStep ==
    ASSUME SpcInv, NEW n \in Nat \ {0}, ShortSkip(n)
    PROVE  SpcInv'
<1> DEFINE end == n * ClocksPerSample
           rel == spc_time - end
<1>1. /\ frame = "none" /\ frame' = "mute" /\ reset_buf /\ RunUntil(end, dsp_time)
      /\ pending' = 0 /\ UNCHANGED <<program, spc_time, old_dsp_time>>
  BY DEF ShortSkip
<1>2. spc_time \in Int /\ dsp_time \in Int /\ Apart(dsp_time + spc_time)
  BY <1>1, Between
<1>3. /\ end \in Nat /\ ClocksPerSample <= end /\ rel \in Int
      /\ end_time' = end /\ rel_time' = rel /\ dsp_time' = dsp_time + rel
      /\ end_time' \in Nat /\ rel_time' \in Int /\ dsp_time' \in Int
      /\ rel_time' <= 0
      /\ timer' \in Timers /\ ref' \in Timers /\ TimerInv'
  BY <1>1, <1>2, FrameStart
<1> HIDE DEF end
<1>4. /\ out' = << >> /\ out_size' = 0 /\ dsp_extra' = << >>
      /\ extra_buf' = FirstPairs(Silence) /\ next_pair' = Silence
  BY <1>1 DEF reset_buf
<1>5. TypeOK'
  BY <1>1, <1>3, <1>4, SilentPairs, Bounds DEF SpcInv, TypeOK
<1>6. dsp_time + rel <= Earliest
  BY <1>2, <1>3, Bounds DEF Apart
<1>7. FrameInv'
  BY <1>1, <1>3, <1>6 DEF FrameInv
<1>8. ClocksKept' /\ PairsInv'
  BY <1>1, <1>4 DEF ClocksKept, PairsInv, EveryPairOnce
<1> QED
  BY <1>3, <1>5, <1>7, <1>8 DEF SpcInv

LEMMA FastSkipStep ==
    ASSUME SpcInv, NEW n \in Skips, FastSkip(n)
    PROVE  SpcInv'
<1> DEFINE p == (n % 2) + SkipRest
           m == n - p
           end == m * ClocksPerSample
           rel == spc_time - end
           dsp == end - spc_time + SkippingTime
<1>1. /\ frame = "none" /\ frame' = "fast" /\ reset_buf /\ n > LongSkip
      /\ pending' = p /\ old_dsp_time' = dsp_time + spc_time
      /\ RunUntil(end, dsp)
      /\ UNCHANGED <<program, spc_time>>
  BY DEF FastSkip
<1>2. spc_time \in Int /\ dsp_time \in Int /\ Apart(dsp_time + spc_time)
  BY <1>1, Between
<1>3. n \in Nat /\ LongSkip \in Nat /\ LongSkip > SkipRest + 1 /\ SkipRest \in Nat
  BY Constants
<1>4. p \in Nat /\ m \in Nat \ {0}
  <2>1. n % 2 \in 0..1
    <3>1. n \in Int /\ 2 \in Nat \ {0} /\ 2 - 1 = 1
      BY <1>3
    <3> QED
      BY <3>1, Division
  <2> QED
    BY <1>1, <1>3, <2>1
<1> HIDE DEF p, m
<1>5. ClocksPerSample \in Nat /\ SkippingTime \in Int
  BY Bounds
<1>6. dsp \in Int
  BY <1>2, <1>4, <1>5
<1> HIDE DEF dsp
<1>7. /\ end \in Nat /\ ClocksPerSample <= end /\ rel \in Int
      /\ end_time' = end /\ rel_time' = rel /\ dsp_time' = dsp + rel
      /\ end_time' \in Nat /\ rel_time' \in Int /\ dsp_time' \in Int
      /\ rel_time' <= 0
      /\ timer' \in Timers /\ ref' \in Timers /\ TimerInv'
  BY <1>1, <1>4, <1>6, FrameStart
<1>8. dsp + rel = SkippingTime
  <2> HIDE DEF end
  <2> QED
    BY <1>2, <1>5, <1>7 DEF dsp
<1> HIDE DEF end, rel
<1>9. /\ out' = << >> /\ out_size' = 0 /\ dsp_extra' = << >>
      /\ extra_buf' = FirstPairs(Silence) /\ next_pair' = Silence
  BY <1>1 DEF reset_buf
<1>10. dsp_time + spc_time \in Int
  BY <1>2
<1>11. TypeOK'
  BY <1>1, <1>4, <1>7, <1>9, <1>10, SilentPairs, Bounds DEF SpcInv, TypeOK
<1>12. FrameInv'
  <2>1. Apart(old_dsp_time')
    BY <1>1, <1>2, Zenon
  <2>2. dsp_time' = SkippingTime
    BY <1>7, <1>8
  <2> QED
    BY <1>1, <1>7, <2>1, <2>2 DEF FrameInv
<1>13. ClocksKept' /\ PairsInv'
  BY <1>1, <1>9 DEF ClocksKept, PairsInv, EveryPairOnce
<1> QED
  BY <1>7, <1>11, <1>12, <1>13 DEF SpcInv

-----------------------------------------------------------------------------
(***************************************************************************)
(* In a frame.                                                             *)
(***************************************************************************)
LEMMA InFrame ==
    ASSUME SpcInv, NEW c \in InstrClocks, Instruction(c)
    PROVE  /\ frame \in {"play", "mute", "fast"} /\ frame' = frame
           /\ rel_time \in Int /\ c \in Nat \ {0} /\ rel_time' = rel_time + c
           /\ rel_time' \in Int /\ rel_time + c \in Int /\ rel_time + c <= 0
           /\ UNCHANGED <<program, end_time, spc_time, out_size, extra_buf,
                          pending, old_dsp_time>>
           /\ timer \in Timers /\ ref \in Timers
           /\ RunTimer(timer, rel_time) = RefTimer(ref, rel_time)
           /\ dsp_time \in Int
<1>1. c \in Nat \ {0} /\ rel_time \in Int /\ timer \in Timers /\ ref \in Timers /\ dsp_time \in Int
      /\ frame \in {"none", "play", "mute", "fast"}
  BY Constants DEF SpcInv, TypeOK
<1>2. rel_time + c \in Int
  BY <1>1
<1>3. frame # "none" /\ rel_time + c <= 0
      /\ rel_time' = rel_time + c
      /\ UNCHANGED <<program, frame, end_time, spc_time, out_size, extra_buf,
                     pending, old_dsp_time>>
  BY DEF Instruction
<1>4. RunTimer(timer, rel_time) = RefTimer(ref, rel_time)
  BY <1>3 DEF SpcInv, TimerInv, TimerExact
<1> QED
  BY <1>1, <1>2, <1>3, <1>4

\* An instruction that the DSP does not notice.
LEMMA QuietInstruction ==
    ASSUME SpcInv, NEW c \in InstrClocks, Instruction(c),
           UNCHANGED <<dsp_time, out, dsp_extra, next_pair>>,
           timer' \in Timers, ref' \in Timers
    PROVE  TypeOK' /\ ClocksKept' /\ FrameInv' /\ PairsInv'
<1>1. /\ frame \in {"play", "mute", "fast"} /\ frame' = frame
      /\ rel_time \in Int /\ c \in Nat \ {0} /\ rel_time' = rel_time + c
      /\ rel_time' \in Int /\ rel_time + c \in Int /\ rel_time + c <= 0
      /\ UNCHANGED <<program, end_time, spc_time, out_size, extra_buf,
                     pending, old_dsp_time>>
      /\ dsp_time \in Int
  BY InFrame
<1>2. UNCHANGED <<dsp_time, out, dsp_extra, next_pair>> /\ timer' \in Timers /\ ref' \in Timers
  OBVIOUS
<1>3. TypeOK'
  BY <1>1, <1>2 DEF SpcInv, TypeOK
<1>4. ClocksKept'
  BY <1>1 DEF ClocksKept
<1>5. FrameInv'
  <2>1. frame \in {"play", "mute"} =>
          dsp_time <= ClocksPerSample + Earliest + (rel_time + c) \/ dsp_time <= Earliest
    BY <1>1, Bounds DEF SpcInv, FrameInv
  <2>2. frame = "fast" => dsp_time = SkippingTime /\ Apart(old_dsp_time)
    BY DEF SpcInv, FrameInv
  <2> QED
    BY <1>1, <1>2, <2>1, <2>2 DEF FrameInv
<1>6. PairsInv'
  BY <1>1, <1>2 DEF SpcInv, PairsInv, EveryPairOnce
<1> QED
  BY <1>3, <1>4, <1>5, <1>6

\* Timers are as exact after an instruction that does not access one.
LEMMA TimerKept ==
    ASSUME SpcInv, NEW c \in InstrClocks, Instruction(c),
           timer' = timer, ref' = RefTimer(ref, rel_time')
    PROVE  timer' \in Timers /\ ref' \in Timers /\ TimerInv'
<1>1. /\ frame \in {"play", "mute", "fast"} /\ frame' = frame
      /\ rel_time \in Int /\ c \in Nat \ {0} /\ rel_time' = rel_time + c
      /\ timer \in Timers /\ ref \in Timers
      /\ RunTimer(timer, rel_time) = RefTimer(ref, rel_time)
  BY InFrame
<1> DEFINE time == rel_time + c
<1>2. time \in Int /\ rel_time <= time
  BY <1>1
<1>3. rel_time' = time /\ ref' = RefTimer(ref, time)
  BY <1>1
<1> HIDE DEF time
<1>4. ref' \in Timers /\ RunTimer(timer, time) = RefTimer(ref', time)
  BY <1>1, <1>2, <1>3, NoAccessIsExact
<1> QED
  BY <1>1, <1>3, <1>4 DEF TimerInv, TimerExact

LEMMA InternalStep ==
    ASSUME SpcInv, NEW c \in InstrClocks, InternalInstruction(c)
    PROVE  SpcInv'
<1>1. /\ Instruction(c) /\ timer' = timer /\ ref' = RefTimer(ref, rel_time')
      /\ UNCHANGED <<dsp_time, out, dsp_extra, next_pair>>
  BY DEF InternalInstruction
<1>2. timer' \in Timers /\ ref' \in Timers /\ TimerInv'
  BY <1>1, TimerKept
<1> QED
  BY <1>1, <1>2, QuietInstruction DEF SpcInv

LEMMA TimerStep ==
    ASSUME SpcInv, NEW c \in InstrClocks, NEW acc \in Accesses, TimerInstruction(c, acc)
    PROVE  SpcInv'
<1> DEFINE time == rel_time + c
<1>1. /\ Instruction(c) /\ timer' = Access(timer, acc, rel_time')
      /\ ref' = RefAccess(ref, acc, rel_time')
      /\ UNCHANGED <<dsp_time, out, dsp_extra, next_pair>>
  BY DEF TimerInstruction
<1>2. /\ frame \in {"play", "mute", "fast"} /\ frame' = frame
      /\ rel_time \in Int /\ c \in Nat \ {0} /\ rel_time' = rel_time + c
      /\ timer \in Timers /\ ref \in Timers
      /\ RunTimer(timer, rel_time) = RefTimer(ref, rel_time)
  BY <1>1, InFrame
<1>3. time \in Int /\ rel_time < time
  BY <1>2
<1>4. rel_time' = time /\ timer' = Access(timer, acc, time) /\ ref' = RefAccess(ref, acc, time)
  BY <1>1, <1>2
<1> HIDE DEF time
<1>5. timer' \in Timers /\ ref' \in Timers /\ RunTimer(timer', time) = RefTimer(ref', time)
  BY <1>2, <1>3, <1>4, AccessIsExact
<1>6. TimerInv'
  BY <1>2, <1>4, <1>5 DEF TimerInv, TimerExact
<1> QED
  BY <1>1, <1>5, <1>6, QuietInstruction DEF SpcInv

LEMMA DspStep ==
    ASSUME SpcInv, NEW c \in InstrClocks, NEW offset \in RegTimes, DspInstruction(c, offset)
    PROVE  SpcInv'
<1> DEFINE time == rel_time + c
           k == DspPairs(time, offset)
           late == k * ClocksPerSample
           dsp == dsp_time + late
           N == next_pair
           rest == Rest(k)
<1>1. Instruction(c) /\ DspRun(DspPairs(rel_time', offset))
      /\ timer' = timer /\ ref' = RefTimer(ref, rel_time')
  BY DEF DspInstruction
<1>2. timer' \in Timers /\ ref' \in Timers /\ TimerInv'
  BY <1>1, TimerKept
<1>3. /\ frame \in {"play", "mute", "fast"} /\ frame' = frame
      /\ rel_time \in Int /\ c \in Nat \ {0} /\ rel_time' = time
      /\ rel_time' \in Int /\ time \in Int /\ time <= 0
      /\ UNCHANGED <<program, end_time, spc_time, out_size, extra_buf,
                     pending, old_dsp_time>>
      /\ dsp_time \in Int
  BY <1>1, InFrame
<1>4. N \in Nat /\ out_size \in Nat
  BY DEF SpcInv, TypeOK
<1>5. offset \in Int /\ -offset <= Earliest
  BY Constants, Bounds
<1>6. DspRun(k)
  BY <1>1, <1>3
<1>7. /\ k \in Nat /\ late \in Int
      /\ frame = "fast" => k = 0 /\ late = 0
      /\ \/ k = 0 /\ late = 0
         \/ dsp <= ClocksPerSample + Earliest + time
  <2> DEFINE count == time - offset - dsp_time
  <2>1. count \in Int
    BY <1>3, <1>5
  <2>2. k = IF count >= 0 THEN count \div ClocksPerSample + 1 ELSE 0
    BY DEF DspPairs
  <2>3. frame = "fast" => count < 0
    <3>1. frame = "fast" => dsp_time = SkippingTime
      BY DEF SpcInv, FrameInv
    <3> QED
      BY <1>3, <1>5, <3>1, Bounds
  <2> HIDE DEF count, k
  <2>4. CASE count >= 0
    <3>1. /\ k \in Nat \ {0} /\ late \in Int /\ late <= count + ClocksPerSample
      BY <2>1, <2>2, <2>4, EnoughPairs
    <3> HIDE DEF late
    <3>2. dsp <= ClocksPerSample + Earliest + time
      BY <1>3, <1>5, <3>1, Bounds DEF count
    <3>3. ~(count < 0)
      BY <2>1, <2>4
    <3> QED
      BY <2>3, <3>1, <3>2, <3>3
  <2>5. CASE ~(count >= 0)
    <3>1. k = 0 /\ late = 0
      BY <2>2, <2>5, Bounds
    <3> QED
      BY <3>1
  <2> QED
    BY <2>4, <2>5
<1>8. /\ dsp_time' = dsp /\ out' = Filled(k) /\ next_pair' = N + k
      /\ dsp_extra' = SubSeq(rest, (Len(rest) \div ExtraPairs) * ExtraPairs + 1, Len(rest))
  BY <1>6 DEF DspRun, Filled, Rest, Fit
<1> HIDE DEF k, late, time, rest, N
<1>9. dsp \in Int /\ dsp_time' \in Int
  <2>1. dsp \in Int
    BY <1>3, <1>7
  <2> QED
    BY <1>8, <2>1
<1>10. N + k \in Nat /\ next_pair' \in Nat
  <2>1. N + k \in Nat
    BY <1>4, <1>7
  <2> QED
    BY <1>8, <2>1
<1>11. rest \in Seq(Int) /\ out' \in Seq(Int)
  <2>1. CASE frame = "play"
    BY <1>7, <1>8, <2>1, PlayMade DEF rest
  <2>2. CASE frame \in {"mute", "fast"}
    BY <1>7, <1>8, <2>2, MuteMade, SilentPairs DEF rest
  <2> QED
    BY <1>3, <2>1, <2>2
<1>12. dsp_extra' \in Seq(Int)
  BY <1>8, <1>11, RoundType
<1>13. TypeOK'
  BY <1>2, <1>3, <1>8, <1>9, <1>10, <1>11, <1>12 DEF SpcInv, TypeOK
<1>14. ClocksKept'
  BY <1>3 DEF ClocksKept
<1>15. frame \in {"play", "mute"} =>
          dsp <= ClocksPerSample + Earliest + time \/ dsp <= Earliest
  <2>1. frame \in {"play", "mute"} =>
          dsp_time <= ClocksPerSample + Earliest + rel_time \/ dsp_time <= Earliest
    BY DEF SpcInv, FrameInv
  <2>2. rel_time <= time
    BY <1>3 DEF time
  <2> QED
    BY <1>3, <1>7, <2>1, <2>2, Bounds
<1>16. FrameInv'
  <2>1. frame = "fast" => dsp = SkippingTime /\ Apart(old_dsp_time)
    <3>1. frame = "fast" => dsp_time = SkippingTime /\ Apart(old_dsp_time)
      BY DEF SpcInv, FrameInv
    <3> QED
      BY <1>3, <1>7, <3>1
  <2> HIDE DEF dsp
  <2> QED
    BY <1>3, <1>8, <1>15, <2>1 DEF FrameInv
<1>17. PairsInv'
  <2>1. CASE frame = "play"
    <3> DEFINE n == out_size
               a == (N + k) - n
    <3>1. n \in Nat /\ n \in Int /\ a \in Int
      BY <1>4, <1>7
    <3>2. Surplus(a, dsp)
      <4>1. Surplus(N - n, dsp_time)
        BY <2>1 DEF SpcInv, PairsInv, N
      <4>2. N - n \in Int /\ k \in Int /\ (N - n) + k = a
        BY <1>4, <1>7
      <4> HIDE DEF a, n
      <4>3. Surplus((N - n) + k, dsp_time + k * ClocksPerSample)
        BY <1>3, <4>1, <4>2, SurplusMoved
      <4> QED
        BY <4>2, <4>3 DEF late
    <3>3. dsp <= ClocksPerSample + Earliest
      BY <1>3, <1>9, <1>15, <2>1, Bounds
    <3> HIDE DEF a, dsp
    <3>4. a < ExtraPairs /\ 0 < ExtraPairs /\ ExtraPairs \in Int
      BY <1>9, <3>1, <3>2, <3>3, Room, Bounds
    <3>5. rest = Pairs(n, a) /\ out' = FirstPairs(Min({N + k, n}))
      BY <1>7, <1>8, <2>1, PlayMade DEF rest, N, a
    <3>6. Len(rest) < ExtraPairs
      BY <3>1, <3>4, <3>5, PairsBelow
    <3>7. dsp_extra' = rest
      BY <1>8, <1>11, <3>6, NotRound
    <3>8. next_pair' - out_size' = a /\ out_size' = n /\ next_pair' = N + k
      BY <1>3, <1>8 DEF a
    <3> HIDE DEF n
    <3>9. Surplus(next_pair' - out_size', dsp_time')
      BY <1>8, <3>2, <3>8, Zenon
    <3>10. /\ out' = FirstPairs(Min({next_pair', out_size'}))
           /\ dsp_extra' = Pairs(out_size', next_pair' - out_size')
      BY <3>5, <3>7, <3>8, Zenon
    <3> QED
      BY <1>3, <2>1, <3>9, <3>10 DEF PairsInv, EveryPairOnce
  <2>2. CASE frame \in {"mute", "fast"}
    <3>1. out' = << >>
      BY <1>7, <1>8, <2>2, MuteMade
    <3> QED
      BY <1>3, <2>2, <3>1 DEF SpcInv, PairsInv, EveryPairOnce
  <2> QED
    BY <1>3, <2>1, <2>2
<1> QED
  BY <1>2, <1>13, <1>14, <1>16, <1>17 DEF SpcInv

-----------------------------------------------------------------------------
(***************************************************************************)
(* The end of a frame.                                                     *)
(***************************************************************************)
LEMMA EndTimers ==
    ASSUME SpcInv, EndFrame
    PROVE  timer' \in Timers /\ ref' \in Timers /\ TimerInv'
<1> DEFINE r == RefTimer(ref, rel_time)
           next == r.next_time - rel_time
<1>1. /\ frame # "none" /\ frame' = "none"
      /\ timer' = [RunTimer(timer, rel_time) EXCEPT !.next_time = @ - rel_time]
      /\ ref' = [r EXCEPT !.next_time = @ - rel_time]
  BY DEF EndFrame
<1>2. timer \in Timers /\ ref \in Timers /\ rel_time \in Int
  BY DEF SpcInv, TypeOK
<1>3. RunTimer(timer, rel_time) = r
  BY <1>1 DEF SpcInv, TimerInv, TimerExact
<1>4. r \in Timers /\ r.next_time > rel_time
  BY <1>2, CaughtUp
<1> HIDE DEF r
<1>5. next \in Int /\ next > 0
  <2>1. r.next_time \in Int
    BY <1>4, TimerFields
  <2> QED
    BY <1>2, <1>4, <2>1
<1>6. timer' = [r EXCEPT !.next_time = next] /\ ref' = timer'
  BY <1>1, <1>3
<1> HIDE DEF next
<1>7. timer' \in Timers /\ timer'.next_time > 0
  BY <1>4, <1>5, <1>6 DEF Timers
<1>8. RunTimer(timer', 0) = RefTimer(timer', 0)
  BY <1>7, CaughtUp
<1> QED
  BY <1>1, <1>6, <1>7, <1>8 DEF TimerInv, TimerExact

\* How many pairs end_frame() makes.
LastPairs == LET count == 0 - MaxRegTime - (dsp_time - rel_time)
             IN  IF frame # "fast" /\ dsp_time - rel_time < 0 /\ count >= 0
                 THEN count \div ClocksPerSample + 1 ELSE 0

\* The assertion: DSP and CPU stop close to each other.
LEMMA EndTimes ==
    ASSUME SpcInv, frame # "none", rel_time + Max(InstrClocks) > 0
    PROVE  LET late == LastPairs * ClocksPerSample
           IN  /\ LastPairs \in Nat /\ late \in Int
               /\ -Lag <= rel_time /\ rel_time <= 0
               /\ frame # "fast" => Apart(dsp_time + late)
               /\ frame = "fast" => late = 0
<1> DEFINE d == dsp_time
           r == rel_time
           c == ClocksPerSample
           now == d - r
           count == 0 - MaxRegTime - now
           k == LastPairs
           late == k * c
<1>1. d \in Int /\ r \in Int /\ frame \in {"none", "play", "mute", "fast"}
  BY DEF SpcInv, TypeOK
<1>2. /\ c \in Nat \ {0} /\ MaxRegTime \in Nat \ {0} /\ Lag \in Nat /\ Earliest \in Nat
      /\ Max(InstrClocks) = Lag + 1
  BY Bounds
<1>3. -Lag <= r /\ r <= 0
  <2>1. r + (Lag + 1) > 0 /\ r <= 0
    BY <1>2 DEF SpcInv, FrameInv
  <2> HIDE DEF r
  <2> QED
    BY <1>1, <1>2, <2>1
<1>4. now \in Int /\ count \in Int
  BY <1>1, <1>2
<1>5. k = IF frame # "fast" /\ now < 0 /\ count >= 0 THEN count \div c + 1 ELSE 0
  BY DEF LastPairs
<1>6. frame # "fast" => d <= c + Earliest
  <2>1. frame # "fast" => d <= c + Earliest + r \/ d <= Earliest
    BY <1>1 DEF SpcInv, FrameInv
  <2> HIDE DEF d, r, c
  <2> QED
    BY <1>1, <1>2, <1>3, <2>1
<1> HIDE DEF k, d, r
<1>7. CASE frame # "fast" /\ now < 0 /\ count >= 0
  <2>1. k = count \div c + 1
    BY <1>5, <1>7
  <2>2. k \in Nat \ {0} /\ late \in Int /\ count < late /\ late <= count + c
    BY <1>4, <1>7, <2>1, EnoughPairs
  <2> HIDE DEF late, c
  <2>3. -MaxRegTime - Lag < d + late /\ d + late <= c + Earliest
    BY <1>1, <1>2, <1>3, <2>2
  <2>4. Apart(d + late)
    BY <2>3 DEF Apart, c
  <2> QED
    BY <1>3, <1>7, <2>2, <2>4 DEF k, late, d, r, c
<1>8. CASE ~(frame # "fast" /\ now < 0 /\ count >= 0)
  <2>1. k = 0 /\ late = 0
    BY <1>2, <1>5, <1>8
  <2>2. frame # "fast" => -MaxRegTime - Lag < d + late
    <3> HIDE DEF late, c
    <3> QED
      BY <1>1, <1>2, <1>3, <1>4, <1>8, <2>1
  <2>3. frame # "fast" => Apart(d + late)
    <3> HIDE DEF late
    <3> QED
      BY <1>1, <1>6, <2>1, <2>2 DEF Apart
  <2> QED
    BY <1>3, <2>1, <2>3 DEF k, late, d, r, c
<1> QED
  BY <1>7, <1>8

LEMMA SavedPairs ==
    ASSUME NEW a \in Nat, out_size \in Nat
    PROVE  SaveExtra(Pairs(out_size, a)) = FirstPairs(a)
<1> DEFINE n == out_size
           s == Pairs(n, a)
<1>1. DOMAIN s = 1..a /\ \A i \in 1..a : s[i] = n + i - 1
  <2>1. n \in Int
    OBVIOUS
  <2> QED
    BY <2>1, PairsAre
<1>2. \A i \in 1..a : n + i - 1 - n = 0 + i - 1
  OBVIOUS
<1> HIDE DEF s
<1>3. SaveExtra(s) = [i \in 1..a |-> s[i] - n]
  BY <1>1 DEF SaveExtra
<1>4. \A i \in 1..a : s[i] - n = 0 + i - 1
  BY <1>1, <1>2
<1>5. SaveExtra(s) = [i \in 1..a |-> 0 + i - 1]
  BY <1>3, <1>4
<1> QED
  BY <1>5 DEF s, FirstPairs, Pairs

LEMMA EndFrameStep ==
    ASSUME SpcInv, EndFrame
    PROVE  SpcInv'
<1> DEFINE k == LastPairs
           late == k * ClocksPerSample
           now == dsp_time - rel_time
           N == next_pair
           n == out_size
           a == (N + k) - n
<1>1. /\ frame # "none" /\ rel_time + Max(InstrClocks) > 0 /\ frame' = "none"
      /\ spc_time' = rel_time /\ end_time' = 0 /\ rel_time' = 0 /\ old_dsp_time' = 0
      /\ dsp_extra' = << >> /\ UNCHANGED <<program, out_size, pending>>
  BY DEF EndFrame, LagKept
<1>2. dsp_time' = IF frame = "fast" THEN now - SkippingTime + old_dsp_time
                  ELSE now + late
  BY DEF EndFrame, LastPairs
<1>3. frame = "play" => /\ out' = Filled(k) /\ extra_buf' = SaveExtra(Rest(k))
                        /\ next_pair' = N + k - n
  BY DEF EndFrame, LastPairs, Filled, Rest, Fit
<1>4. frame # "play" => next_pair' = Silence /\ out' = out /\ extra_buf' = extra_buf
  BY DEF EndFrame
<1>5. timer' \in Timers /\ ref' \in Timers /\ TimerInv'
  BY EndTimers
<1>6. /\ k \in Nat /\ late \in Int /\ -Lag <= rel_time /\ rel_time <= 0
      /\ frame # "fast" => Apart(dsp_time + late)
      /\ frame = "fast" => late = 0
  BY <1>1, EndTimes
<1>7. /\ dsp_time \in Int /\ rel_time \in Int /\ old_dsp_time \in Int
      /\ N \in Nat /\ n \in Nat /\ frame \in {"none", "play", "mute", "fast"}
      /\ out \in Seq(Int) /\ extra_buf \in Seq(Int) /\ SkippingTime \in Int
  BY Bounds DEF SpcInv, TypeOK
<1> HIDE DEF k, late, N
<1> DEFINE apart == IF frame = "fast" THEN old_dsp_time ELSE dsp_time + late
<1>8. apart \in Int /\ Apart(apart)
  <2>1. frame = "fast" => Apart(old_dsp_time)
    BY DEF SpcInv, FrameInv
  <2> QED
    BY <1>6, <1>7, <2>1
<1>9. dsp_time' = apart - rel_time
  <2>1. CASE frame = "fast"
    <3>1. dsp_time = SkippingTime
      BY <2>1 DEF SpcInv, FrameInv
    <3>2. dsp_time' = now - SkippingTime + old_dsp_time
      BY <1>2, <2>1
    <3> QED
      BY <1>7, <2>1, <3>1, <3>2
  <2>2. CASE frame # "fast"
    <3>1. dsp_time' = now + late
      BY <1>2, <2>2
    <3> QED
      BY <1>6, <1>7, <2>2, <3>1
  <2> QED
    BY <2>1, <2>2
<1> HIDE DEF apart, now
<1>10. dsp_time' \in Int /\ dsp_time' + spc_time' = apart
  <2>1. apart - rel_time \in Int /\ (apart - rel_time) + rel_time = apart
    BY <1>7, <1>8
  <2> QED
    BY <1>1, <1>9, <2>1, Zenon
<1>11. ClocksKept'
  <2>1. Apart(dsp_time' + spc_time')
    BY <1>8, <1>10, Zenon
  <2>2. -Lag <= spc_time' /\ spc_time' <= 0
    BY <1>1, <1>6, Zenon
  <2> QED
    BY <2>1, <2>2 DEF ClocksKept
<1>12. FrameInv'
  BY <1>1 DEF FrameInv
<1>13. CASE frame = "play"
  <2>1. Surplus(a, apart) /\ a \in Int
    <3>1. Surplus(N - n, dsp_time)
      BY <1>13 DEF SpcInv, PairsInv, N
    <3>2. N - n \in Int /\ k \in Int /\ (N - n) + k = a
      BY <1>6, <1>7
    <3> HIDE DEF a, n
    <3>3. Surplus((N - n) + k, dsp_time + k * ClocksPerSample)
      BY <1>7, <3>1, <3>2, SurplusMoved
    <3>4. a \in Int
      BY <3>2
    <3> QED
      BY <1>13, <3>2, <3>3, <3>4 DEF late, apart
  <2> HIDE DEF a
  <2>2. a \in Nat /\ a < ExtraPairs /\ ExtraPairs \in Nat
    BY <1>8, <2>1, Room, Constants DEF Apart
  <2>3. Filled(k) = FirstPairs(Min({N + k, n})) /\ Filled(k) \in Seq(Int) /\ Rest(k) = Pairs(n, a)
    BY <1>6, <1>13, PlayMade DEF N, a
  <2>4. Min({N + k, n}) = n
    <3>1. N + k \in Int /\ n \in Int /\ N + k = a + n
      BY <1>6, <1>7, <2>2 DEF a
    <3>2. n <= N + k
      BY <1>7, <2>2, <3>1
    <3>3. Min({N + k, n}) = IF N + k <= n THEN N + k ELSE n
      BY <3>1, MinOfTwo
    <3> QED
      BY <3>1, <3>2, <3>3
  <2>5. SaveExtra(Rest(k)) = FirstPairs(a)
    BY <1>7, <2>2, <2>3, SavedPairs
  <2>6. FirstPairs(a) \in Seq(Int)
    <3>1. 0 \in Int
      OBVIOUS
    <3> QED
      BY <2>2, <3>1, PairsAre DEF FirstPairs
  <2>7. /\ out' = FirstPairs(n) /\ extra_buf' = FirstPairs(a) /\ out' \in Seq(Int)
        /\ extra_buf' \in Seq(Int)
    BY <1>3, <1>13, <2>3, <2>4, <2>5, <2>6
  <2>8. next_pair' = a
    <3>1. N + k - n = (N + k) - n
      BY <1>6, <1>7
    <3> QED
      BY <1>3, <1>13, <3>1, Zenon DEF a
  <2>9. TypeOK'
    BY <1>1, <1>5, <1>7, <1>10, <2>2, <2>7, <2>8 DEF SpcInv, TypeOK
  <2>10. EveryPairOnce'
    <3>1. a <= ExtraPairs
      BY <2>2
    <3> QED
      BY <1>1, <2>7, <2>8, <3>1 DEF EveryPairOnce
  <2>11. PairsInv'
    <3>1. Surplus(next_pair', dsp_time' + spc_time')
      BY <1>10, <2>1, <2>8, Zenon
    <3> QED
      BY <1>1, <2>10, <3>1 DEF PairsInv
  <2> QED
    BY <1>5, <1>11, <1>12, <2>9, <2>11 DEF SpcInv
<1>14. CASE frame \in {"mute", "fast"}
  <2>1. out = << >> /\ n = 0 /\ extra_buf = FirstPairs(Silence)
    BY <1>14 DEF SpcInv, PairsInv
  <2>2. /\ out' = FirstPairs(0) /\ out_size' = 0 /\ extra_buf' = FirstPairs(Silence)
        /\ next_pair' = Silence /\ Silence \in Nat /\ Silence <= ExtraPairs
    BY <1>1, <1>4, <1>14, <2>1, SilentPairs, Bounds
  <2>3. TypeOK'
    <3>1. /\ out' \in Seq(Int) /\ extra_buf' \in Seq(Int) /\ dsp_extra' \in Seq(Int)
          /\ next_pair' \in Nat /\ out_size' \in Nat
      <4>1. /\ out' = << >> /\ extra_buf' = FirstPairs(Silence) /\ dsp_extra' = << >>
            /\ next_pair' = Silence /\ out_size' = 0
        BY <1>1, <2>2, SilentPairs, Zenon
      <4>2. << >> \in Seq(Int) /\ FirstPairs(Silence) \in Seq(Int) /\ 0 \in Nat
        BY SilentPairs
      <4> QED
        BY <2>2, <4>1, <4>2, Zenon
    <3>2. /\ program' \in Programs /\ pending' \in Nat /\ end_time' \in Nat
          /\ rel_time' \in Int /\ spc_time' \in Int /\ old_dsp_time' \in Int
      BY <1>1, <1>7 DEF SpcInv, TypeOK
    <3> QED
      BY <1>1, <1>5, <1>10, <3>1, <3>2 DEF TypeOK
  <2>4. EveryPairOnce'
    BY <1>1, <2>2 DEF EveryPairOnce
  <2>5. PairsInv'
    <3>1. Surplus(Silence, apart)
      BY <1>8, SurplusOfSilence
    <3>2. Surplus(next_pair', dsp_time' + spc_time')
      BY <1>10, <2>2, <3>1, Zenon
    <3> QED
      BY <1>1, <2>4, <3>2 DEF PairsInv
  <2> QED
    BY <1>5, <1>11, <1>12, <2>3, <2>5 DEF SpcInv
<1> QED
  BY <1>1, <1>7, <1>13, <1>14

-----------------------------------------------------------------------------
LEMMA SpcStep == SpcInv /\ [Next]_vars => SpcInv'
<1> SUFFICES ASSUME SpcInv, [Next]_vars PROVE SpcInv'
  OBVIOUS
<1>1. CASE SetTempo
  BY <1>1, SetTempoStep
<1>2. ASSUME NEW n \in Requests, Play(n) PROVE SpcInv'
  BY <1>2, PlayStep
<1>3. ASSUME NEW n \in Skips, Skip(n) PROVE SpcInv'
  <2>1. n \in Nat \ {0}
    BY Constants
  <2> QED
    BY <1>3, <2>1, ShortSkipStep, FastSkipStep DEF Skip
<1>4. CASE SkipOn
  <2>1. pending \in Nat \ {0} /\ ShortSkip(pending)
    BY <1>4 DEF SkipOn, SpcInv, TypeOK
  <2> QED
    BY <2>1, ShortSkipStep
<1>5. ASSUME NEW c \in InstrClocks,
             \/ InternalInstruction(c)
             \/ \E acc \in Accesses : TimerInstruction(c, acc)
             \/ \E t \in RegTimes : DspInstruction(c, t)
      PROVE  SpcInv'
  BY <1>5, InternalStep, TimerStep, DspStep
<1>6. CASE EndFrame
  BY <1>6, EndFrameStep
<1>7. CASE UNCHANGED vars
  BY <1>7 DEF vars, outVars, SpcInv, TypeOK, ClocksKept, FrameInv, PairsInv,
              EveryPairOnce, TimerInv, TimerExact
<1> QED
  BY <1>1, <1>2, <1>3, <1>4, <1>5, <1>6, <1>7 DEF Next

\* The CPU, the DSP and the timers stay together, however the client plays,
\* skips and changes the tempo, and whatever the program looks at: at the end
\* of a frame they are apart by no more than the limits of reg_times and an
\* instruction (the assertion of Snes_Spc::end_frame()).
THEOREM SoundModuleInvariant == Spec => []SpcInv
<1>1. SpcInv /\ [Next]_vars => SpcInv'
  BY SpcStep
<1> QED
  BY <1>1, InitSpc, PTL DEF Spec

\* Snes_Spc::play() fills the caller's buffer with the pairs that follow those
\* of the call before, none lost and none doubled, and what is made too much
\* has room in the extra buffer.
THEOREM PairsAreHandedOutOnce == Spec => []EveryPairOnce
<1>1. SpcInv => EveryPairOnce
  BY DEF SpcInv, PairsInv
<1> QED
  BY <1>1, SoundModuleInvariant, PTL

\* A timer that run_timer() brings up to date only when the program looks at
\* it is what a timer that runs with every clock would be.
THEOREM LazyTimersAreExact == Spec => []TimerExact
<1>1. SpcInv => TimerExact
  BY DEF SpcInv, TimerInv
<1> QED
  BY <1>1, SoundModuleInvariant, PTL
=============================================================================
