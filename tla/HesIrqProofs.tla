--------------------------- MODULE HesIrqProofs ---------------------------
(***************************************************************************)
(* Interrupts of the PC Engine emulator, for every program and every length *)
(* of its instructions, frames and periods: the base that the CPU measures  *)
(* its time against is always the one that the devices' state asks for, and *)
(* so no interrupt comes late.                                             *)
(***************************************************************************)
EXTENDS HesIrq, TLAPS

-----------------------------------------------------------------------------
(***************************************************************************)
(* Arithmetic.                                                             *)
(***************************************************************************)

LEMMA Division ==
    ASSUME NEW a \in Int, NEW d \in Nat \ {0}
    PROVE  /\ a \div d \in Int /\ a % d \in 0..d - 1
           /\ a = d * (a \div d) + (a % d)
  OBVIOUS

LEMMA RemainderIs ==
    ASSUME NEW a \in Int, NEW d \in Nat \ {0}, NEW q \in Int, NEW r \in 0..d - 1,
           a = d * q + r
    PROVE  a % d = r
  OBVIOUS

LEMMA Remainders ==
    ASSUME NEW a \in Int, NEW d \in Nat \ {0}
    PROVE  a % d \in 0..d - 1
  BY Division

\* A time that is whole periods of d after l stays so when both are counted
\* from another time e, l being kept less than a period before it.
LEMMA WholePeriods ==
    ASSUME NEW a \in Int, NEW l \in Int, NEW e \in Int, NEW d \in Nat \ {0},
           (a - l) % d = 0
    PROVE  ((a - e) - (-((e - l) % d))) % d = 0
<1> DEFINE k == (a - l) \div d
           n == (e - l) \div d
           r == (e - l) % d
<1>1. k \in Int /\ a - l = d * k
  BY Division
<1>2. n \in Int /\ r \in Int /\ e - l = d * n + r
  BY Division
<1> HIDE DEF k, n, r
<1>3. (a - e) - (-r) = d * (k - n) + 0
  BY <1>1, <1>2
<1>4. ((a - e) - (-r)) % d = 0
  BY <1>1, <1>2, <1>3, RemainderIs
<1> QED
  BY <1>4 DEF r

\* A period more is whole periods too.
LEMMA OnePeriodMore ==
    ASSUME NEW a \in Int, NEW b \in Int, NEW l \in Int, NEW d \in Nat \ {0},
           (a - l) % d = 0, b = a + d
    PROVE  (b - l) % d = 0
<1> DEFINE x == b - l
           k == (a - l) \div d
<1>1. k \in Int /\ a - l = d * k
  BY Division
<1> HIDE DEF k
<1>2. x \in Int /\ x = d * (k + 1) + 0
  BY <1>1
<1> HIDE DEF x
<1>3. x % d = 0
  BY <1>1, <1>2, RemainderIs
<1> QED
  BY <1>3 DEF x

\* The next time that is whole periods of d after l.
LEMMA NextPeriod ==
    ASSUME NEW a \in Int, NEW l \in Int, NEW now \in Int, NEW d \in Nat \ {0},
           (a - l) % d = 0, now < a, a <= now + d
    PROVE  a = now + d - ((now - l) % d)
<1> DEFINE k == (a - l) \div d
           q == k - 1
           r == d - (a - now)
<1>1. k \in Int /\ a - l = d * k
  BY Division
<1> HIDE DEF k
<1>2. d * k = d * q + d
  BY <1>1
<1>3. q \in Int /\ r \in 0..d - 1
  BY <1>1
<1>4. now - l = d * q + r
  BY <1>1, <1>2
<1> HIDE DEF q, r
<1>5. (now - l) % d = r
  BY <1>3, <1>4, RemainderIs
<1> QED
  BY <1>5 DEF r

LEMMA LeastOf ==
    ASSUME NEW S \in SUBSET Int, NEW x \in S, \A y \in S : x <= y
    PROVE  Min(S) \in S /\ \A y \in S : Min(S) <= y
  BY DEF Min

LEMMA MostOf ==
    ASSUME NEW S \in SUBSET Int, NEW x \in S, \A y \in S : y <= x
    PROVE  Max(S) \in S /\ \A y \in S : y <= Max(S)
  BY DEF Max

-----------------------------------------------------------------------------
(***************************************************************************)
(* The constants.                                                          *)
(***************************************************************************)
LEMMA Constants ==
    /\ Frames \subseteq Nat \ {0} /\ Loads \subseteq Nat \ {0}
    /\ OpClocks \subseteq Nat \ {0} /\ AccessClocks \in Nat \ {0}
    /\ EntryClocks \in Nat \ {0} /\ PlayPeriod \in Nat \ {0} /\ MaxLag \in Nat
    /\ NDEBUG \in BOOLEAN
    /\ Future \in Nat /\ 8 * EntryClocks < Future /\ 8 * AccessClocks < Future
    /\ \A n \in Frames : 8 * n < Future
    /\ \A n \in Loads : 8 * n < Future
    /\ \A n \in OpClocks : 8 * n < Future
  BY Zenon, HesAssumption DEF HesAssumption

\* Longest bounds the clocks of every instruction.
LEMMA LongestInstruction ==
    /\ Longest \in Nat \ {0} /\ 8 * Longest < Future
    /\ AccessClocks <= Longest /\ \A c \in OpClocks : c <= Longest
<1> DEFINE S == OpClocks \cup {AccessClocks, 1}
<1>1. PICK c \in OpClocks : \A d \in OpClocks : d <= c
  BY Zenon, HesAssumption DEF HesAssumption
<1>2. S \in SUBSET (Nat \ {0}) /\ \A n \in S : 8 * n < Future
  BY Constants
<1>3. c \in Nat /\ AccessClocks \in Nat
  BY Constants
<1>4. PICK x \in S : \A y \in S : y <= x
  <2>1. CASE c <= AccessClocks
    BY <1>1, <1>2, <1>3, <2>1
  <2>2. CASE AccessClocks < c
    BY <1>1, <1>2, <1>3, <2>2
  <2> QED
    BY <1>3, <2>1, <2>2
<1>5. S \in SUBSET Int
  BY <1>2
<1>6. Max(S) \in S /\ \A y \in S : y <= Max(S)
  BY <1>4, <1>5, MostOf
<1>7. Longest = Max(S)
  BY DEF Longest
<1> QED
  BY <1>2, <1>6, <1>7

LEMMA InitialLoadIsOne == InitialLoad \in Loads
<1>1. PICK n \in Loads : \A l \in Loads : l <= n
  BY Zenon, HesAssumption DEF HesAssumption
<1>2. Loads \in SUBSET Int
  BY Constants
<1> QED
  BY <1>1, <1>2, MostOf DEF InitialLoad

-----------------------------------------------------------------------------
(***************************************************************************)
(* When the first line that is not disabled is due.                        *)
(***************************************************************************)
LEMMA TimeType ==
    ASSUME NEW s \in Machine
    PROVE  /\ Time(s) \in Int /\ Time(s) = s.base + s.s_time
           /\ Line(s, "timer") = s.irq_timer /\ Line(s, "vdp") = s.irq_vdp
           /\ \A l \in Lines : Line(s, l) \in Int
  BY DEF Machine, Time, Line, Lines

Dues(s) == {Future} \cup {Line(s, l) : l \in Lines \ s.disables}

LEMMA DueIsLeast ==
    ASSUME NEW s \in Machine
    PROVE  /\ Dues(s) \in SUBSET Int
           /\ DueAt(s) \in Dues(s) /\ \A t \in Dues(s) : DueAt(s) <= t
<1> DEFINE a == s.irq_timer
           b == s.irq_vdp
<1>1. a \in Int /\ b \in Int /\ Future \in Int
  BY Constants DEF Machine
<1>2. Dues(s) \in SUBSET {Future, a, b} /\ Future \in Dues(s)
  BY TimeType DEF Dues, Lines
<1>3. DueAt(s) = Min(Dues(s))
  BY DEF DueAt, Dues
<1> DEFINE D == Dues(s)
<1> HIDE DEF a, b, D
<1>4. D \in SUBSET {Future, a, b} /\ Future \in D
  BY <1>2 DEF D
<1>5. D \in SUBSET Int
  BY <1>1, <1>4
<1>6. PICK x \in D : \A y \in D : x <= y
  <2>1. CASE a \in D /\ a <= Future /\ (b \in D => a <= b)
    BY <1>1, <1>4, <2>1
  <2>2. CASE b \in D /\ b <= Future /\ (a \in D => b <= a)
    BY <1>1, <1>4, <2>2
  <2>3. CASE (a \in D => Future <= a) /\ (b \in D => Future <= b)
    BY <1>1, <1>4, <2>3
  <2> QED
    BY <1>1, <2>1, <2>2, <2>3
<1>7. Min(D) \in D /\ \A y \in D : Min(D) <= y
  BY <1>5, <1>6, LeastOf
<1> QED
  BY <1>3, <1>5, <1>7 DEF D

LEMMA Due ==
    ASSUME NEW s \in Machine
    PROVE  /\ DueAt(s) \in Int /\ DueAt(s) <= Future
           /\ \A l \in Lines \ s.disables : DueAt(s) <= Line(s, l)
           /\ DueAt(s) # Future => \E l \in Lines \ s.disables : DueAt(s) = Line(s, l)
  BY DueIsLeast DEF Dues

\* It is the number that has these properties.
LEMMA DueUnique ==
    ASSUME NEW s \in Machine, NEW t \in Int, t <= Future,
           \A l \in Lines \ s.disables : t <= Line(s, l),
           t # Future => \E l \in Lines \ s.disables : t = Line(s, l)
    PROVE  DueAt(s) = t
<1>1. t \in Dues(s) /\ \A u \in Dues(s) : t <= u
  BY DEF Dues
<1>2. DueAt(s) <= t /\ t <= DueAt(s)
  BY <1>1, DueIsLeast
<1> QED
  BY <1>2, Due

\* Only the lines and the mask count.
LEMMA DueSame ==
    ASSUME NEW s, NEW t, s.irq_timer = t.irq_timer, s.irq_vdp = t.irq_vdp,
           s.disables = t.disables
    PROVE  DueAt(s) = DueAt(t)
<1>1. \A l : Line(s, l) = Line(t, l)
  BY DEF Line
<1> QED
  BY <1>1 DEF DueAt

-----------------------------------------------------------------------------
(***************************************************************************)
(* The invariant of a frame that runs, as a predicate on the machine; k is *)
(* by how much irq_time may be late and l the time of loading.             *)
(***************************************************************************)
Based(s) == s.base = EarlierOf(s, s.end_time, s.irq_time)
Current(s, k) == IF DueAt(s) > Time(s) THEN s.irq_time = DueAt(s)
                                       ELSE s.irq_time <= Time(s) + k
Counter(s, l) ==
    /\ s.last_time <= Time(s) /\ s.count <= s.load
    /\ s.enabled => (s.last_time + s.count - l) % s.load = 0
    /\ s.postponed => NDEBUG
    /\ s.irq_timer <= Time(s)
       \/ IF s.enabled /\ ~s.fired
          THEN /\ s.irq_timer <= Time(s) + s.load
               /\ s.postponed \/ s.irq_timer = s.last_time + s.count
          ELSE s.irq_timer = Future
InTime(s) == Time(s) < s.end_time + Longest
Working(s, k, l) ==
    /\ s \in Machine /\ s.end_time \in Frames
    /\ Based(s) /\ Current(s, k) /\ Counter(s, l)

Slack == IF before = "cli" THEN 1 ELSE 0

LEMMA HesInvIs ==
    /\ HesInv /\ running => /\ Working(m, Slack, loaded) /\ loaded \in Int
                            /\ before \in {"cli", "other"}
                            /\ Time(m) < m.end_time + Longest
                                           + (IF m.i THEN EntryClocks ELSE 0)
    /\ HesInv => /\ m \in Machine /\ running \in BOOLEAN /\ loaded \in Int
                 /\ Current(m, Slack) /\ Counter(m, loaded)
  BY Zenon DEF HesInv, TypeOK, FrameInv, BaseCorrect, IrqTimeCurrent, CounterInv,
               Working, Based, Current, Counter, Slack

\* What the devices know and what they are set to.
SameDevices(r, s) ==
    /\ r.last_time = s.last_time /\ r.count = s.count /\ r.load = s.load
    /\ r.enabled = s.enabled /\ r.fired = s.fired
    /\ r.irq_timer = s.irq_timer /\ r.irq_vdp = s.irq_vdp /\ r.disables = s.disables
    /\ r.postponed = s.postponed

\* Time passes: the invariant of the devices stays, and a slack is used up.
LEMMA TimePasses ==
    ASSUME NEW s \in Machine, NEW r \in Machine, NEW l \in Int, NEW k \in {0, 1}, NEW n \in {0, 1},
           SameDevices(r, s), r.irq_time = s.irq_time,
           Current(s, k), Counter(s, l),
           Time(s) + k <= Time(r) + n, Time(s) <= Time(r)
    PROVE  Current(r, n) /\ Counter(r, l)
<1>1. DueAt(r) = DueAt(s)
  BY DueSame DEF SameDevices
<1>2. DueAt(s) \in Int /\ Time(s) \in Int /\ Time(r) \in Int
      /\ s.irq_time \in Int /\ s.irq_timer \in Int /\ s.last_time \in Int
  BY Due, TimeType DEF Machine
<1>3. Current(r, n)
  BY <1>1, <1>2 DEF Current
<1>4. Counter(r, l)
  <2>1. /\ r.last_time = s.last_time /\ r.count = s.count /\ r.load = s.load
        /\ r.enabled = s.enabled /\ r.fired = s.fired
        /\ r.irq_timer = s.irq_timer /\ r.postponed = s.postponed
    BY DEF SameDevices
  <2>2. s.load \in Nat
    BY Constants DEF Machine
  <2>3. Time(s) + s.load <= Time(r) + s.load
    BY <1>2, <2>2
  <2> QED
    BY <1>2, <2>1, <2>2, <2>3 DEF Counter
<1> QED
  BY <1>3, <1>4

\* Another base is another way to write the same time.
LEMMA SetBaseKeeps ==
    ASSUME NEW s \in Machine, NEW t \in Int
    PROVE  LET r == SetBase(s, t)
           IN  /\ r \in Machine /\ Time(r) = Time(s) /\ r.base = t
               /\ r.s_time = Time(s) - t
               /\ SameDevices(r, s) /\ r.i = s.i /\ r.irq_time = s.irq_time
               /\ r.end_time = s.end_time /\ r.next_vbl = s.next_vbl
               /\ r.control = s.control
<1> DEFINE r == SetBase(s, t)
<1>1. s.base \in Int /\ s.s_time \in Int
  BY DEF Machine
<1> DEFINE late == s.s_time + s.base - t
<1>2. r \in Machine /\ r.base = t /\ r.s_time = late
      /\ SameDevices(r, s) /\ r.i = s.i /\ r.irq_time = s.irq_time
      /\ r.end_time = s.end_time /\ r.next_vbl = s.next_vbl /\ r.control = s.control
  <2>1. late \in Int
    BY <1>1
  <2>2. r = [s EXCEPT !.base = t, !.s_time = late]
    BY DEF SetBase
  <2> HIDE DEF late, r
  <2> QED
    BY <2>1, <2>2 DEF Machine, SameDevices
<1> HIDE DEF r
<1>3. Time(r) = Time(s) /\ r.s_time = Time(s) - t
  BY <1>1, <1>2, TimeType
<1> QED
  BY <1>2, <1>3 DEF r

LEMMA EarlierType ==
    ASSUME NEW s, NEW a \in Int, NEW b \in Int
    PROVE  EarlierOf(s, a, b) \in Int /\ EarlierOf(s, a, b) <= a
  BY DEF EarlierOf

LEMMA RunUntilIs ==
    ASSUME NEW s \in Machine, NEW p \in Int
    PROVE  LET r == run_until(s, p)
               counted == s.count - (p - s.last_time)
           IN  /\ r \in Machine /\ Time(r) = Time(s)
               /\ r.base = s.base /\ r.s_time = s.s_time /\ r.i = s.i
               /\ r.irq_time = s.irq_time /\ r.end_time = s.end_time
               /\ r.load = s.load /\ r.enabled = s.enabled /\ r.fired = s.fired
               /\ r.control = s.control /\ r.irq_timer = s.irq_timer
               /\ r.irq_vdp = s.irq_vdp /\ r.disables = s.disables
               /\ r.postponed = s.postponed
               /\ r.last_time = IF s.last_time < p THEN p ELSE s.last_time
               /\ r.count = IF s.last_time < p /\ s.enabled
                            THEN IF counted <= 0 THEN counted + s.load ELSE counted
                            ELSE s.count
<1> DEFINE r == run_until(s, p)
           counted == s.count - (p - s.last_time)
           blanks == (p - s.next_vbl + PlayPeriod - 1) \div PlayPeriod
<1>1. /\ s.next_vbl \in Int /\ s.last_time \in Int /\ s.count \in Int /\ s.load \in Nat \ {0}
      /\ PlayPeriod \in Nat \ {0}
  BY Constants DEF Machine
<1>2. blanks \in Int
  <2> DEFINE a == p - s.next_vbl + PlayPeriod - 1
  <2>1. a \in Int
    BY <1>1
  <2> HIDE DEF a
  <2>2. a \div PlayPeriod \in Int
    BY <1>1, <2>1, Division
  <2> QED
    BY <2>2 DEF a
<1>3. counted \in Int
  BY <1>1
<1> DEFINE vbl == IF s.next_vbl < p THEN s.next_vbl + blanks * PlayPeriod ELSE s.next_vbl
           last == IF p - s.last_time > 0 THEN p ELSE s.last_time
           count == IF p - s.last_time > 0 /\ s.enabled
                    THEN counted + IF counted <= 0 THEN s.load ELSE 0
                    ELSE s.count
<1>4. r = [s EXCEPT !.next_vbl = vbl, !.last_time = last, !.count = count]
  BY DEF run_until
<1> HIDE DEF blanks, counted
<1>5. vbl \in Int /\ last \in Int /\ count \in Int
      /\ last = (IF s.last_time < p THEN p ELSE s.last_time)
      /\ count = IF s.last_time < p /\ s.enabled
                 THEN IF counted <= 0 THEN counted + s.load ELSE counted
                 ELSE s.count
  BY <1>1, <1>2, <1>3
<1> HIDE DEF r, vbl, last, count
<1>6. /\ r \in Machine /\ r.base = s.base /\ r.s_time = s.s_time /\ r.i = s.i
      /\ r.irq_time = s.irq_time /\ r.end_time = s.end_time
      /\ r.load = s.load /\ r.enabled = s.enabled /\ r.fired = s.fired
      /\ r.control = s.control /\ r.irq_timer = s.irq_timer
      /\ r.irq_vdp = s.irq_vdp /\ r.disables = s.disables
      /\ r.postponed = s.postponed
      /\ r.last_time = last /\ r.count = count
  BY <1>4, <1>5 DEF Machine
<1>7. Time(r) = Time(s)
  BY <1>6 DEF Time
<1> QED
  BY <1>5, <1>6, <1>7 DEF r, counted

\* Bringing the counter up to date, at a time that has come, changes nothing
\* but how the same facts are kept.
LEMMA RunUntilKeeps ==
    ASSUME NEW s \in Machine, NEW p \in Int, NEW l \in Int, NEW k, p <= Time(s)
    PROVE  LET r == run_until(s, p)
           IN  /\ Current(s, k) => Current(r, k)
               /\ Counter(s, l) => Counter(r, l) /\ p <= r.last_time
<1> DEFINE r == run_until(s, p)
           counted == s.count - (p - s.last_time)
<1>1. /\ r \in Machine /\ Time(r) = Time(s) /\ r.irq_time = s.irq_time
      /\ r.load = s.load /\ r.enabled = s.enabled /\ r.fired = s.fired
      /\ r.irq_timer = s.irq_timer /\ r.irq_vdp = s.irq_vdp /\ r.disables = s.disables
      /\ r.postponed = s.postponed
      /\ r.last_time = (IF s.last_time < p THEN p ELSE s.last_time)
      /\ r.count = IF s.last_time < p /\ s.enabled
                   THEN IF counted <= 0 THEN counted + s.load ELSE counted
                   ELSE s.count
  BY RunUntilIs
<1> HIDE DEF r
<1>2. DueAt(r) = DueAt(s)
  BY <1>1, DueSame
<1>3. Current(s, k) => Current(r, k)
  BY <1>1, <1>2 DEF Current
<1>4. ASSUME Counter(s, l)
      PROVE  Counter(r, l) /\ p <= r.last_time
  <2>1. /\ s.last_time \in Int /\ s.count \in Int /\ s.load \in Nat \ {0}
        /\ s.irq_timer \in Int /\ Time(s) \in Int /\ s.enabled \in BOOLEAN
    BY Constants, TimeType DEF Machine
  <2>2. s.last_time <= Time(s) /\ s.count <= s.load
    BY <1>4 DEF Counter
  <2>3. r.last_time <= Time(s) /\ p <= r.last_time
    BY <1>1, <2>1, <2>2
  <2>4. r.count <= s.load
    BY <1>1, <2>1, <2>2
  <2>5. ASSUME s.irq_timer > Time(s), s.enabled, s.irq_timer = s.last_time + s.count
        PROVE  s.irq_timer = r.last_time + r.count
    BY <1>1, <2>1, <2>2, <2>5
  <2>6. s.irq_timer <= Time(s) \/ s.irq_timer > Time(s)
    BY <2>1
  <2>7. ASSUME s.enabled PROVE (r.last_time + r.count - l) % r.load = 0
    <3> DEFINE a == s.last_time + s.count
               b == r.last_time + r.count
               d == s.load
    <3>1. a \in Int /\ d \in Nat \ {0} /\ (a - l) % d = 0
      BY <1>4, <2>1, <2>7 DEF Counter
    <3>2. b = a \/ b = a + d
      BY <1>1, <2>1, <2>7
    <3>3. r.load = d /\ r.last_time + r.count - l = b - l
      BY <1>1, <2>1, <3>1, <3>2
    <3> HIDE DEF a, b, d
    <3>4. b \in Int
      BY <3>1, <3>2
    <3>5. (b - l) % d = 0
      BY <3>1, <3>2, <3>4, OnePeriodMore
    <3> QED
      BY <3>3, <3>5
  <2>8. r.postponed => NDEBUG
    BY <1>1, <1>4 DEF Counter
  <2>9. r.last_time <= Time(r) /\ r.count <= r.load
    BY <1>1, <2>3, <2>4
  <2>10. CASE s.irq_timer <= Time(s)
    <3>1. r.irq_timer <= Time(r)
      BY <1>1, <2>10
    <3> QED
      BY <1>1, <2>3, <2>7, <2>8, <2>9, <3>1 DEF Counter
  <2>11. CASE s.irq_timer > Time(s)
    <3>1. ~(s.irq_timer <= Time(s))
      BY <2>1, <2>11
    <3>2. CASE s.enabled /\ ~s.fired
      <4>1. s.irq_timer <= Time(s) + s.load
            /\ (s.postponed \/ s.irq_timer = s.last_time + s.count)
        BY <1>4, <3>1, <3>2 DEF Counter
      <4>2. r.irq_timer <= Time(r) + r.load
            /\ (r.postponed \/ r.irq_timer = r.last_time + r.count)
        BY <1>1, <2>5, <2>11, <3>2, <4>1
      <4> QED
        BY <1>1, <2>3, <2>7, <2>8, <2>9, <3>2, <4>2 DEF Counter
    <3>3. CASE ~(s.enabled /\ ~s.fired)
      <4>1. r.irq_timer = Future
        BY <1>1, <1>4, <3>1, <3>3 DEF Counter
      <4> QED
        BY <1>1, <2>3, <2>7, <2>8, <2>9, <3>3, <4>1 DEF Counter
    <3> QED
      BY <3>2, <3>3
  <2> QED
    BY <2>6, <2>10, <2>11
<1> QED
  BY <1>3, <1>4 DEF r

LEMMA UpToDate ==
    ASSUME NEW s \in Machine, NEW l \in Int, NEW k, Working(s, k, l)
    PROVE  LET r == RunUntilNow(s)
           IN  /\ Working(r, k, l) /\ Time(r) = Time(s) /\ r.last_time = Time(r)
               /\ r.i = s.i /\ r.end_time = s.end_time /\ r.enabled = s.enabled
               /\ r.load = s.load
<1> DEFINE r == RunUntilNow(s)
<1>1. Time(s) \in Int /\ r = run_until(s, Time(s))
  BY TimeType DEF RunUntilNow
<1>2. /\ r \in Machine /\ Time(r) = Time(s) /\ r.base = s.base /\ r.i = s.i
      /\ r.irq_time = s.irq_time /\ r.end_time = s.end_time /\ r.enabled = s.enabled
      /\ r.load = s.load
  BY <1>1, RunUntilIs
<1>3. Current(r, k) /\ Counter(r, l) /\ Time(s) <= r.last_time
  BY <1>1, RunUntilKeeps DEF Working
<1> HIDE DEF r
<1>4. r.last_time = Time(r)
  <2>1. r.last_time \in Int /\ r.last_time <= Time(r)
    BY <1>2, <1>3 DEF Machine, Counter
  <2> QED
    BY <1>1, <1>2, <1>3, <2>1
<1>5. Based(r)
  BY <1>2 DEF Working, Based, EarlierOf
<1> QED
  BY <1>2, <1>3, <1>4, <1>5 DEF Working, r

-----------------------------------------------------------------------------
(***************************************************************************)
(* irq_changed() sets irq_time and the base right whatever the state; the  *)
(* timer's interrupt is right if the counter is up to date.                *)
(***************************************************************************)
LEMMA IrqChangedKeeps ==
    ASSUME NEW s \in Machine, NEW l \in Int, NEW k,
           s.end_time \in Frames, s.last_time <= Time(s), s.count <= s.load,
           s.enabled => (s.last_time + s.count - l) % s.load = 0,
           s.postponed => NDEBUG,
           (s.irq_timer > Time(s) /\ s.enabled /\ ~s.fired) =>
               s.postponed \/ s.last_time = Time(s)
    PROVE  LET r == irq_changed(s)
           IN  /\ Working(r, 0, l) /\ Time(r) = Time(s)
               /\ r.i = s.i /\ r.end_time = s.end_time /\ r.load = s.load
<1> DEFINE present == Time(s)
           a == IF s.irq_timer <= present THEN s.irq_timer
                ELSE IF s.enabled /\ ~s.fired THEN present + s.count ELSE Future
           b == IF s.irq_vdp <= present THEN s.irq_vdp
                ELSE IF s.control THEN s.next_vbl ELSE Future
           t == [s EXCEPT !.irq_timer = a, !.irq_vdp = b]
           due == DueAt(t)
           base == EarlierOf(t, t.end_time, due)
           u == SetBase(t, base)
           r == irq_changed(s)
<1>1. /\ present \in Int /\ s.count \in Int /\ Future \in Nat /\ s.irq_timer \in Int
      /\ s.irq_vdp \in Int /\ s.next_vbl \in Int /\ s.end_time \in Int
      /\ s.last_time \in Int /\ s.enabled \in BOOLEAN /\ s.fired \in BOOLEAN
  BY Constants, TimeType DEF Machine
<1>2. r = [u EXCEPT !.irq_time = due]
  BY DEF irq_changed, set_irq_time
<1>3. a \in Int /\ b \in Int
  BY <1>1
<1> HIDE DEF present, a, b
<1>4. /\ t \in Machine /\ t.irq_timer = a /\ t.irq_vdp = b
      /\ t.base = s.base /\ t.s_time = s.s_time /\ t.i = s.i
      /\ t.irq_time = s.irq_time /\ t.end_time = s.end_time
      /\ t.load = s.load /\ t.enabled = s.enabled /\ t.fired = s.fired
      /\ t.disables = s.disables /\ t.last_time = s.last_time /\ t.count = s.count
      /\ t.postponed = s.postponed
  BY <1>3 DEF Machine
<1>5. Time(t) = present
  BY <1>4 DEF Time, present
<1> HIDE DEF t
<1>6. due \in Int /\ base \in Int
  BY <1>1, <1>4, Due, EarlierType
<1> HIDE DEF due, base
<1>7. /\ u \in Machine /\ Time(u) = Time(t) /\ u.base = base
      /\ SameDevices(u, t) /\ u.i = t.i /\ u.end_time = t.end_time
  BY <1>4, <1>6, SetBaseKeeps
<1> HIDE DEF u, r
<1>8. /\ r \in Machine /\ r.irq_time = due /\ r.base = u.base /\ r.s_time = u.s_time
      /\ SameDevices(r, u) /\ r.i = u.i /\ r.end_time = u.end_time
  BY <1>2, <1>6, <1>7 DEF Machine, SameDevices
<1>9. Time(r) = present /\ r.i = s.i /\ r.end_time = s.end_time /\ r.load = s.load
  <2>1. Time(r) = Time(u)
    BY <1>8 DEF Time
  <2> QED
    BY <2>1, <1>4, <1>5, <1>7, <1>8 DEF SameDevices
<1>10. SameDevices(r, t)
  BY <1>7, <1>8 DEF SameDevices
<1>11. Current(r, 0)
  <2>1. DueAt(r) = due
    BY <1>10, DueSame DEF SameDevices, due
  <2>2. due <= Time(r) \/ due > Time(r)
    BY <1>1, <1>6, <1>9
  <2> QED
    BY <1>1, <1>6, <1>8, <1>9, <2>1 DEF Current
<1>12. Based(r)
  <2>1. base = EarlierOf(t, t.end_time, due)
    BY DEF base
  <2> QED
    BY <1>7, <1>8, <2>1 DEF Based, EarlierOf
<1>13. Counter(r, l)
  <2>1. /\ r.last_time = s.last_time /\ r.count = s.count /\ r.load = s.load
        /\ r.enabled = s.enabled /\ r.fired = s.fired /\ r.irq_timer = a
        /\ r.postponed = s.postponed
    BY <1>4, <1>10 DEF SameDevices
  <2>2. /\ r.last_time <= Time(r) /\ r.count <= r.load
        /\ (r.enabled => (r.last_time + r.count - l) % r.load = 0)
        /\ (r.postponed => NDEBUG)
    BY <1>9, <2>1 DEF present
  <2>3. CASE s.irq_timer <= present
    <3>1. r.irq_timer <= Time(r)
      BY <1>9, <2>1, <2>3 DEF a
    <3> QED
      BY <2>2, <3>1 DEF Counter
  <2>4. CASE ~(s.irq_timer <= present) /\ s.enabled /\ ~s.fired
    <3>1. s.postponed \/ s.last_time = present
      BY <1>1, <2>4 DEF present
    <3>2. a = present + s.count
      BY <2>4 DEF a
    <3>3. s.load \in Nat /\ s.count <= s.load
      BY Constants DEF Machine
    <3>4. a <= present + s.load /\ (s.last_time = present => a = s.last_time + s.count)
      BY <1>1, <3>2, <3>3
    <3>5. r.irq_timer <= Time(r) + r.load
          /\ (r.postponed \/ r.irq_timer = r.last_time + r.count)
      BY <1>9, <2>1, <3>1, <3>4
    <3> QED
      BY <2>1, <2>2, <2>4, <3>5 DEF Counter
  <2>5. CASE ~(s.irq_timer <= present) /\ ~(s.enabled /\ ~s.fired)
    <3>1. r.irq_timer = Future
      BY <2>1, <2>5 DEF a
    <3> QED
      BY <2>1, <2>2, <2>5, <3>1 DEF Counter
  <2> QED
    BY <2>3, <2>4, <2>5
<1> QED
  BY <1>8, <1>9, <1>11, <1>12, <1>13 DEF Working, present, r

-----------------------------------------------------------------------------
(***************************************************************************)
(* An instruction's clocks.                                                *)
(***************************************************************************)
LEMMA AddClocks ==
    ASSUME NEW s \in Machine, NEW l \in Int, NEW k \in {0, 1}, Working(s, k, l),
           NEW c \in Nat, NEW n \in {0, 1}, k <= c + n
    PROVE  LET r == [s EXCEPT !.s_time = @ + c]
           IN  /\ Working(r, n, l) /\ Time(r) = Time(s) + c
               /\ r.i = s.i /\ r.end_time = s.end_time /\ r.irq_time = s.irq_time
               /\ r.base = s.base /\ r.s_time = s.s_time + c /\ SameDevices(r, s)
               /\ r.next_vbl = s.next_vbl /\ r.control = s.control
<1> DEFINE later == s.s_time + c
           r == [s EXCEPT !.s_time = later]
<1>1. s.base \in Int /\ s.s_time \in Int
  BY DEF Machine
<1>2. later \in Int
  BY <1>1
<1> HIDE DEF later
<1>3. /\ r \in Machine /\ r.s_time = later /\ r.base = s.base
      /\ r.i = s.i /\ r.end_time = s.end_time /\ r.irq_time = s.irq_time
      /\ SameDevices(r, s) /\ r.next_vbl = s.next_vbl /\ r.control = s.control
  BY <1>2 DEF Machine, SameDevices
<1> HIDE DEF r
<1>4. Time(r) = Time(s) + c /\ Time(s) \in Int
  BY <1>1, <1>3, TimeType DEF later
<1>5. Current(r, n) /\ Counter(r, l)
  <2>1. Time(s) + k <= Time(r) + n /\ Time(s) <= Time(r)
    BY <1>4
  <2> QED
    BY <1>3, <2>1, TimePasses DEF Working
<1>6. Based(r)
  BY <1>3 DEF Working, Based, EarlierOf
<1> QED
  BY <1>3, <1>4, <1>5, <1>6 DEF Working, r, later

\* A base is no later than the end of the frame.
LEMMA BaseInFrame ==
    ASSUME NEW s \in Machine, Based(s)
    PROVE  s.base <= s.end_time
  BY DEF Based, EarlierOf, Machine

LEMMA AfterInstruction ==
    ASSUME HesInv, running, m.s_time < 0, NEW c \in Nat \ {0}, c <= Longest
    PROVE  /\ Working(After(c), 0, loaded) /\ InTime(After(c))
           /\ After(c).i = m.i /\ After(c).enabled = m.enabled /\ After(c).load = m.load
           /\ Time(After(c)) = Time(m) + c
<1>1. /\ Working(m, Slack, loaded) /\ loaded \in Int /\ m \in Machine
      /\ Slack \in {0, 1}
  BY HesInvIs DEF Slack, Working
<1> DEFINE r == After(c)
           k == Slack
<1>2. c \in Nat /\ k <= c + 0
  BY <1>1
<1> HIDE DEF k
<1>3. /\ Working(r, 0, loaded) /\ Time(r) = Time(m) + c
      /\ r.i = m.i /\ r.end_time = m.end_time /\ SameDevices(r, m)
  BY <1>1, <1>2, AddClocks DEF After, k
<1> HIDE DEF r
<1>4. m.base <= m.end_time
  BY <1>1, BaseInFrame DEF Working
<1>5. Time(r) < r.end_time + Longest
  <2>1. /\ m.base \in Int /\ m.s_time \in Int /\ m.end_time \in Int
        /\ Time(m) = m.base + m.s_time /\ Longest \in Int
    BY <1>1, TimeType, LongestInstruction DEF Machine
  <2> QED
    BY <1>3, <1>4, <2>1
<1> QED
  BY <1>3, <1>5 DEF InTime, r, SameDevices

-----------------------------------------------------------------------------
(***************************************************************************)
(* The I flag.                                                             *)
(***************************************************************************)
LEMMA WithFlag ==
    ASSUME NEW s \in Machine, NEW i \in BOOLEAN
    PROVE  LET u == [s EXCEPT !.i = i]
           IN  /\ u \in Machine /\ Time(u) = Time(s) /\ u.i = i /\ SameDevices(u, s)
               /\ u.base = s.base /\ u.s_time = s.s_time
               /\ u.end_time = s.end_time /\ u.irq_time = s.irq_time
  BY DEF Machine, Time, SameDevices

\* Whatever the flag was, the base that belongs to it makes the state right.
LEMMA Rebased ==
    ASSUME NEW s \in Machine, NEW u \in Machine, NEW l \in Int, NEW k \in {0, 1},
           NEW n \in {0, 1}, k <= n,
           Working(s, k, l), SameDevices(u, s), Time(u) = Time(s),
           u.end_time = s.end_time, u.irq_time = s.irq_time,
           NEW t \in Int, t = EarlierOf(u, u.end_time, u.irq_time)
    PROVE  LET r == SetBase(u, t)
           IN  /\ Working(r, n, l) /\ Time(r) = Time(s) /\ r.i = u.i
               /\ r.end_time = s.end_time /\ r.base = t
<1> DEFINE r == SetBase(u, t)
<1>1. /\ r \in Machine /\ Time(r) = Time(s) /\ r.base = t /\ SameDevices(r, u)
      /\ r.i = u.i /\ r.irq_time = s.irq_time /\ r.end_time = s.end_time
  BY SetBaseKeeps
<1> HIDE DEF r
<1>2. SameDevices(r, s)
  BY <1>1 DEF SameDevices
<1>3. Time(s) \in Int
  BY TimeType
<1>4. Current(r, n) /\ Counter(r, l)
  <2>1. Time(s) + k <= Time(r) + n /\ Time(s) <= Time(r)
    BY <1>1, <1>3
  <2> QED
    BY <1>1, <1>2, <2>1, TimePasses DEF Working
<1>5. Based(r)
  BY <1>1 DEF Based, EarlierOf
<1> QED
  BY <1>1, <1>4, <1>5 DEF Working, r

LEMMA InhibitedKeeps ==
    ASSUME NEW s \in Machine, NEW l \in Int, NEW k \in {0, 1}, Working(s, k, l)
    PROVE  LET r == Inhibited(s)
           IN  /\ Working(r, k, l) /\ Time(r) = Time(s) /\ r.i = TRUE
               /\ r.end_time = s.end_time /\ r.base = s.end_time
<1> DEFINE u == [s EXCEPT !.i = TRUE]
<1>1. /\ u \in Machine /\ Time(u) = Time(s) /\ u.i = TRUE /\ SameDevices(u, s)
      /\ u.end_time = s.end_time /\ u.irq_time = s.irq_time
  BY WithFlag
<1>2. Inhibited(s) = SetBase(u, s.end_time)
  BY DEF Inhibited
<1> HIDE DEF u
<1>3. s.end_time \in Int /\ s.end_time = EarlierOf(u, u.end_time, u.irq_time)
  BY <1>1 DEF EarlierOf, Machine
<1> DEFINE r == SetBase(u, s.end_time)
<1>4. /\ Working(r, k, l) /\ Time(r) = Time(s) /\ r.i = u.i
      /\ r.end_time = s.end_time /\ r.base = s.end_time
  <2>1. PICK n \in {0, 1} : n = k
    OBVIOUS
  <2>2. k <= n
    BY <2>1
  <2> DEFINE t == s.end_time
  <2>3. t \in Int /\ t = EarlierOf(u, u.end_time, u.irq_time)
    BY <1>3
  <2> HIDE DEF t
  <2>4. LET x == SetBase(u, t)
        IN  /\ Working(x, n, l) /\ Time(x) = Time(s) /\ x.i = u.i
            /\ x.end_time = s.end_time /\ x.base = t
    BY <1>1, <2>2, <2>3, Rebased
  <2> QED
    BY <2>1, <2>4 DEF t
<1> HIDE DEF r
<1>5. Inhibited(s) = r
  BY <1>2 DEF r
<1> QED
  BY <1>1, <1>4, <1>5

LEMMA ReturnedKeeps ==
    ASSUME NEW s \in Machine, NEW l \in Int, NEW k \in {0, 1}, Working(s, k, l),
           NEW inhibit \in BOOLEAN
    PROVE  LET r == Returned(s, inhibit)
           IN  Working(r, k, l) /\ Time(r) = Time(s) /\ r.end_time = s.end_time
<1> DEFINE u == [s EXCEPT !.i = inhibit]
           t == EarlierOf(u, u.end_time, u.irq_time)
<1>1. /\ u \in Machine /\ Time(u) = Time(s) /\ u.i = inhibit /\ SameDevices(u, s)
      /\ u.end_time = s.end_time /\ u.irq_time = s.irq_time
  BY WithFlag
<1>2. Returned(s, inhibit) = IF inhibit = s.i THEN u ELSE SetBase(u, t)
  BY DEF Returned
<1>3. inhibit = s.i => u = s
  BY DEF Machine
<1> HIDE DEF u
<1>4. t \in Int
  BY <1>1, EarlierType DEF Machine
<1> HIDE DEF t
<1>5. CASE inhibit = s.i
  BY <1>2, <1>3, <1>5
<1>6. CASE inhibit # s.i
  <2>1. t = EarlierOf(u, u.end_time, u.irq_time)
    BY DEF t
  <2> QED
    BY <1>1, <1>2, <1>4, <1>6, <2>1, Rebased
<1> QED
  BY <1>5, <1>6

LEMMA EnteredKeeps ==
    ASSUME NEW s \in Machine, NEW l \in Int, NEW k \in {0, 1}, Working(s, k, l)
    PROVE  LET r == Entered(s)
           IN  /\ Working(r, 0, l) /\ Time(r) = Time(s) + EntryClocks /\ r.i = TRUE
               /\ r.end_time = s.end_time /\ r.base = s.end_time
<1> DEFINE q == [s EXCEPT !.s_time = @ + EntryClocks]
           u == [q EXCEPT !.i = TRUE]
<1>1. EntryClocks \in Nat /\ k <= EntryClocks + 0
  BY Constants
<1>2. /\ q \in Machine /\ Working(q, 0, l) /\ Time(q) = Time(s) + EntryClocks
      /\ q.end_time = s.end_time
  BY <1>1, AddClocks DEF Working
<1>3. Entered(s) = SetBase(u, q.end_time)
  BY <1>2 DEF Entered
<1>4. /\ u \in Machine /\ Time(u) = Time(q) /\ u.i = TRUE /\ SameDevices(u, q)
      /\ u.end_time = q.end_time /\ u.irq_time = q.irq_time
  BY <1>2, WithFlag
<1> HIDE DEF u, q
<1>5. q.end_time \in Int /\ q.end_time = EarlierOf(u, u.end_time, u.irq_time)
  BY <1>2, <1>4 DEF EarlierOf, Machine
<1> QED
  BY <1>2, <1>3, <1>4, <1>5, Rebased

\* CLI: if an interrupt is due, irq_time is set after the next instruction.
LEMMA EnabledKeeps ==
    ASSUME NEW s \in Machine, NEW l \in Int, Working(s, 0, l), s.i
    PROVE  LET r == Enabled(s)
           IN  Working(r, 1, l) /\ Time(r) = Time(s) /\ r.end_time = s.end_time
<1> DEFINE u == [s EXCEPT !.i = FALSE]
           delta == s.base - s.irq_time
           v == SetBase(u, s.irq_time)
           soon == v.base + v.s_time + 1
           w == [v EXCEPT !.base = soon, !.s_time = -1, !.irq_time = soon]
<1>1. /\ u \in Machine /\ Time(u) = Time(s) /\ u.i = FALSE /\ SameDevices(u, s)
      /\ u.base = s.base /\ u.end_time = s.end_time /\ u.irq_time = s.irq_time
      /\ u.s_time = s.s_time
  BY WithFlag
<1>2. Enabled(s) = IF delta <= 0 THEN u
                   ELSE IF v.s_time < 0 \/ delta < v.s_time + 1 THEN v ELSE w
  BY <1>1 DEF Enabled
<1>3. /\ s.base = s.end_time /\ s.base \in Int /\ s.irq_time \in Int /\ s.end_time \in Int
      /\ Time(s) \in Int
  BY TimeType DEF Working, Based, EarlierOf, Machine
<1> HIDE DEF u
<1>4. CASE delta <= 0
  <2>1. Based(u)
    BY <1>1, <1>3, <1>4 DEF Based, EarlierOf
  <2>2. Current(u, 1) /\ Counter(u, l)
    BY <1>1, <1>3, TimePasses DEF Working
  <2> QED
    BY <1>1, <1>2, <1>4, <2>1, <2>2 DEF Working
<1>5. CASE delta > 0
  <2>1. s.irq_time = EarlierOf(u, u.end_time, u.irq_time)
    BY <1>1, <1>3, <1>5 DEF EarlierOf
  <2>2. /\ Working(v, 1, l) /\ Time(v) = Time(s) /\ v.i = FALSE
        /\ v.end_time = s.end_time /\ v.base = s.irq_time
    <3> DEFINE t == s.irq_time
    <3>1. t \in Int /\ t = EarlierOf(u, u.end_time, u.irq_time) /\ 0 <= 1
      BY <1>3, <2>1
    <3> HIDE DEF t
    <3>2. LET x == SetBase(u, t)
          IN  /\ Working(x, 1, l) /\ Time(x) = Time(s) /\ x.i = u.i
              /\ x.end_time = s.end_time /\ x.base = t
      BY <1>1, <3>1, Rebased
    <3> QED
      BY <1>1, <3>2 DEF t
  <2>3. v.irq_time = s.irq_time /\ v.s_time = Time(s) - s.irq_time /\ SameDevices(v, s)
    <3> DEFINE t == s.irq_time
    <3>1. t \in Int
      BY <1>3
    <3> HIDE DEF t
    <3>2. LET x == SetBase(u, t)
          IN  x.irq_time = u.irq_time /\ x.s_time = Time(u) - t /\ SameDevices(x, u)
      BY <1>1, <3>1, SetBaseKeeps
    <3> QED
      BY <1>1, <3>2 DEF t, SameDevices
  <2> HIDE DEF v
  <2>4. CASE v.s_time < 0 \/ delta < v.s_time + 1
    BY <1>2, <1>3, <1>5, <2>2, <2>4
  <2>5. CASE ~(v.s_time < 0 \/ delta < v.s_time + 1)
    <3>1. v \in Machine /\ soon = Time(s) + 1 /\ soon \in Int
      BY <1>3, <2>2, <2>3 DEF Working
    <3>2. soon <= s.end_time /\ s.irq_time <= Time(s)
      BY <1>3, <2>3, <2>5, <3>1
    <3> HIDE DEF soon
    <3>3. /\ w \in Machine /\ w.base = soon /\ w.s_time = -1 /\ w.irq_time = soon
          /\ w.end_time = s.end_time /\ SameDevices(w, v) /\ w.i = FALSE
      <4> DEFINE before_it == -1
      <4>1. before_it \in Int /\ w = [v EXCEPT !.base = soon, !.s_time = before_it, !.irq_time = soon]
        OBVIOUS
      <4> HIDE DEF before_it, w
      <4>2. /\ w \in Machine /\ w.base = soon /\ w.s_time = before_it /\ w.irq_time = soon
            /\ w.end_time = v.end_time /\ SameDevices(w, v) /\ w.i = v.i
        BY <3>1, <4>1 DEF Machine, SameDevices
      <4> QED
        BY <2>2, <4>2 DEF before_it
    <3> HIDE DEF w
    <3>4. Time(w) = Time(s)
      BY <1>3, <3>1, <3>3, TimeType
    <3>5. Based(w)
      BY <1>3, <3>1, <3>2, <3>3 DEF Based, EarlierOf
    <3>6. DueAt(w) = DueAt(s) /\ DueAt(s) \in Int
      BY <2>3, <3>3, DueSame, Due DEF SameDevices
    <3>7. DueAt(s) <= Time(s)
      BY <1>3, <3>2, <3>6 DEF Working, Current
    <3>8. Current(w, 1)
      BY <1>3, <3>1, <3>3, <3>4, <3>6, <3>7 DEF Current
    <3>9. Counter(w, l)
      <4>1. Counter(v, l)
        BY <2>2 DEF Working
      <4> QED
        BY <2>2, <3>3, <3>4, <4>1 DEF Counter, SameDevices
    <3> QED
      BY <1>2, <1>3, <1>5, <2>2, <2>5, <3>3, <3>4, <3>5, <3>8, <3>9 DEF Working
  <2> QED
    BY <2>4, <2>5
<1> QED
  BY <1>3, <1>4, <1>5

-----------------------------------------------------------------------------
(***************************************************************************)
(* The actions of the program.                                             *)
(***************************************************************************)
LEMMA Concluded ==
    ASSUME running, running' = running, NEW l \in Int, NEW s, m' = s, loaded' = l,
           NEW k, \/ before' = "other" /\ k = 0
                  \/ before' = "cli" /\ k = 1,
           Working(s, k, l),
           Time(s) < s.end_time + Longest + (IF s.i THEN EntryClocks ELSE 0)
    PROVE  HesInv'
<1>1. TypeOK'
  BY DEF TypeOK, Working
<1>2. FrameInv'
  BY Zenon DEF FrameInv, Working
<1>3. BaseCorrect'
  BY Zenon DEF BaseCorrect, Working, Based
<1>4. k = IF before' = "cli" THEN 1 ELSE 0
  OBVIOUS
<1>5. IrqTimeCurrent'
  BY Zenon, <1>4 DEF IrqTimeCurrent, Working, Current
<1>6. CounterInv'
  BY Zenon DEF CounterInv, Working, Counter
<1> QED
  BY <1>1, <1>2, <1>3, <1>5, <1>6 DEF HesInv

LEMMA WithinEntry ==
    ASSUME NEW s \in Machine, InTime(s)
    PROVE  /\ Time(s) < s.end_time + Longest + (IF s.i THEN EntryClocks ELSE 0)
           /\ Time(s) + EntryClocks < s.end_time + Longest + EntryClocks
<1>1. /\ Time(s) \in Int /\ s.end_time \in Int /\ Longest \in Int /\ EntryClocks \in Nat
  BY TimeType, LongestInstruction, Constants DEF Machine
<1> QED
  BY <1>1 DEF InTime

LEMMA OpKeeps == HesInv /\ Op => HesInv'
<1> SUFFICES ASSUME HesInv, Op PROVE HesInv'
  OBVIOUS
<1>1. PICK c \in OpClocks : Begins(c) /\ Executed(After(c))
  BY DEF Op
<1> DEFINE s == After(c)
<1>2. c \in Nat \ {0} /\ c <= Longest
  BY Constants, LongestInstruction
<1>3. running /\ m.s_time < 0 /\ m' = s /\ before' = "other"
      /\ running' = running /\ loaded' = loaded /\ loaded \in Int
  BY <1>1, HesInvIs DEF Begins, Executed
<1>4. Working(s, 0, loaded) /\ InTime(s)
  BY <1>2, <1>3, AfterInstruction
<1> HIDE DEF s
<1>5. Time(s) < s.end_time + Longest + (IF s.i THEN EntryClocks ELSE 0)
  BY <1>4, WithinEntry DEF Working
<1> QED
  BY <1>3, <1>4, <1>5, Concluded

LEMMA CLIKeeps == HesInv /\ CLI => HesInv'
<1> SUFFICES ASSUME HesInv, CLI PROVE HesInv'
  OBVIOUS
<1>1. PICK c \in OpClocks : /\ Begins(c) /\ m.i
                            /\ m' = Enabled(After(c)) /\ before' = "cli"
                            /\ UNCHANGED <<running, loaded>>
  BY DEF CLI
<1> DEFINE a == After(c)
           s == Enabled(a)
<1>2. c \in Nat \ {0} /\ c <= Longest
  BY Constants, LongestInstruction
<1>3. running /\ m.s_time < 0 /\ m' = s /\ before' = "cli"
      /\ running' = running /\ loaded' = loaded /\ loaded \in Int
  BY <1>1, HesInvIs DEF Begins
<1>4. Working(a, 0, loaded) /\ InTime(a) /\ a.i
  BY <1>1, <1>2, <1>3, AfterInstruction
<1> HIDE DEF a
<1>5. Working(s, 1, loaded) /\ Time(s) = Time(a) /\ s.end_time = a.end_time
  BY <1>3, <1>4, EnabledKeeps DEF Working
<1> HIDE DEF s
<1>6. s \in Machine /\ InTime(s)
  BY <1>4, <1>5 DEF InTime, Working
<1>7. Time(s) < s.end_time + Longest + (IF s.i THEN EntryClocks ELSE 0)
  BY <1>6, WithinEntry
<1> QED
  BY <1>3, <1>5, <1>7, Concluded

LEMMA SEIKeeps == HesInv /\ SEI => HesInv'
<1> SUFFICES ASSUME HesInv, SEI PROVE HesInv'
  OBVIOUS
<1>1. PICK c \in OpClocks : Begins(c) /\ Executed(Inhibited(After(c)))
  BY DEF SEI
<1> DEFINE a == After(c)
           s == Inhibited(a)
<1>2. c \in Nat \ {0} /\ c <= Longest
  BY Constants, LongestInstruction
<1>3. running /\ m.s_time < 0 /\ m' = s /\ before' = "other"
      /\ running' = running /\ loaded' = loaded /\ loaded \in Int
  BY <1>1, HesInvIs DEF Begins, Executed
<1>4. Working(a, 0, loaded) /\ InTime(a)
  BY <1>2, <1>3, AfterInstruction
<1> HIDE DEF a
<1>5. Working(s, 0, loaded) /\ Time(s) = Time(a) /\ s.end_time = a.end_time
  BY <1>3, <1>4, InhibitedKeeps DEF Working
<1> HIDE DEF s
<1>6. s \in Machine /\ InTime(s)
  BY <1>4, <1>5 DEF InTime, Working
<1>7. Time(s) < s.end_time + Longest + (IF s.i THEN EntryClocks ELSE 0)
  BY <1>6, WithinEntry
<1> QED
  BY <1>3, <1>5, <1>7, Concluded

LEMMA RTIKeeps == HesInv /\ RTI => HesInv'
<1> SUFFICES ASSUME HesInv, RTI PROVE HesInv'
  OBVIOUS
<1>1. PICK c \in OpClocks, inhibit \in BOOLEAN :
        Begins(c) /\ Executed(Returned(After(c), inhibit))
  BY DEF RTI
<1> DEFINE a == After(c)
           s == Returned(a, inhibit)
<1>2. c \in Nat \ {0} /\ c <= Longest
  BY Constants, LongestInstruction
<1>3. running /\ m.s_time < 0 /\ m' = s /\ before' = "other"
      /\ running' = running /\ loaded' = loaded /\ loaded \in Int
  BY <1>1, HesInvIs DEF Begins, Executed
<1>4. Working(a, 0, loaded) /\ InTime(a)
  BY <1>2, <1>3, AfterInstruction
<1> HIDE DEF a
<1>5. Working(s, 0, loaded) /\ Time(s) = Time(a) /\ s.end_time = a.end_time
  BY <1>3, <1>4, ReturnedKeeps DEF Working
<1> HIDE DEF s
<1>6. s \in Machine /\ InTime(s)
  BY <1>4, <1>5 DEF InTime, Working
<1>7. Time(s) < s.end_time + Longest + (IF s.i THEN EntryClocks ELSE 0)
  BY <1>6, WithinEntry
<1> QED
  BY <1>3, <1>5, <1>7, Concluded

LEMMA BRKKeeps == HesInv /\ BRK => HesInv'
<1> SUFFICES ASSUME HesInv, BRK PROVE HesInv'
  OBVIOUS
<1> DEFINE a == After(1)
           s == Entered(a)
<1>1. 1 \in Nat \ {0} /\ 1 <= Longest
  BY LongestInstruction
<1>2. running /\ m.s_time < 0 /\ m' = s /\ before' = "other"
      /\ running' = running /\ loaded' = loaded /\ loaded \in Int
  BY HesInvIs DEF BRK, Begins, Executed
<1>3. Working(a, 0, loaded) /\ InTime(a)
  BY <1>1, <1>2, AfterInstruction
<1> HIDE DEF a
<1>4. /\ Working(s, 0, loaded) /\ Time(s) = Time(a) + EntryClocks /\ s.i = TRUE
      /\ s.end_time = a.end_time
  BY <1>2, <1>3, EnteredKeeps DEF Working
<1> HIDE DEF s
<1>5. Time(s) < s.end_time + Longest + (IF s.i THEN EntryClocks ELSE 0)
  BY <1>3, <1>4, WithinEntry DEF Working
<1> QED
  BY <1>2, <1>4, <1>5, Concluded

-----------------------------------------------------------------------------
(***************************************************************************)
(* Accesses: the state n after the devices were brought up to date, and    *)
(* what an access makes of it before irq_changed().                        *)
(***************************************************************************)
LEMMA AccessIsNow ==
    ASSUME HesInv, Access
    PROVE  /\ running /\ m.s_time < 0 /\ loaded \in Int
           /\ Now \in Machine /\ Working(Now, 0, loaded) /\ InTime(Now)
           /\ Now.last_time = Time(Now) /\ Time(Now) \in Int
           /\ Now.enabled = m.enabled
<1> DEFINE a == After(AccessClocks)
           n == RunUntilNow(a)
<1>1. running /\ m.s_time < 0 /\ loaded \in Int
  BY HesInvIs DEF Access, Begins
<1>2. AccessClocks \in Nat \ {0} /\ AccessClocks <= Longest
  BY Constants, LongestInstruction
<1>3. Working(a, 0, loaded) /\ InTime(a) /\ a.enabled = m.enabled
  BY <1>1, <1>2, AfterInstruction
<1> HIDE DEF a
<1>4. /\ Working(n, 0, loaded) /\ Time(n) = Time(a) /\ n.last_time = Time(n)
      /\ n.end_time = a.end_time /\ n.enabled = a.enabled
  BY <1>1, <1>3, UpToDate DEF Working
<1> HIDE DEF n
<1>5. n \in Machine /\ InTime(n) /\ Time(n) \in Int
  BY <1>3, <1>4, TimeType DEF Working, InTime
<1>6. n = Now
  BY DEF Now, n, a
<1> QED
  BY <1>1, <1>3, <1>4, <1>5, <1>6

\* The counter is up to date when the timer's interrupt is worked out.
LEMMA RescheduledKeeps ==
    ASSUME NEW t \in Machine, t.end_time \in Frames, NEW l \in Int, t.last_time = Time(t),
           t.last_time <= Time(t), t.count <= t.load,
           t.enabled => (t.last_time + t.count - l) % t.load = 0
    PROVE  LET r == Rescheduled(t)
           IN  Working(r, 0, l) /\ Time(r) = Time(t) /\ r.end_time = t.end_time
<1> DEFINE u == [t EXCEPT !.postponed = FALSE]
<1>1. /\ u \in Machine /\ u.end_time = t.end_time /\ u.last_time = t.last_time
      /\ u.count = t.count /\ u.load = t.load /\ u.enabled = t.enabled
      /\ u.base = t.base /\ u.s_time = t.s_time /\ u.postponed = FALSE
  BY DEF Machine
<1>2. Rescheduled(t) = irq_changed(u)
  BY DEF Rescheduled
<1> HIDE DEF u
<1>3. Time(u) = Time(t)
  BY <1>1 DEF Time
<1> QED
  BY <1>1, <1>2, <1>3, IrqChangedKeeps

\* The timer begins a period now.
LEMMA PeriodBegins ==
    ASSUME NEW t \in Machine, t.end_time \in Frames, t.last_time = Time(t),
           t.count = t.load
    PROVE  LET r == Rescheduled(t)
           IN  Working(r, 0, Time(t)) /\ Time(r) = Time(t) /\ r.end_time = t.end_time
<1>1. Time(t) \in Int /\ t.load \in Nat \ {0} /\ t.count <= t.load
      /\ t.last_time <= Time(t)
  BY TimeType, Constants DEF Machine
<1>2. (t.last_time + t.count - Time(t)) % t.load = 0
  <2> DEFINE d == t.load
             x == t.last_time + t.count - Time(t)
  <2>1. d \in Nat \ {0} /\ x = d
    BY <1>1
  <2> HIDE DEF d, x
  <2>2. x % d = 0
    <3>1. x \in Int /\ x = d * 1 + 0 /\ 0 \in 0..d - 1
      BY <2>1
    <3> QED
      BY <2>1, <3>1, RemainderIs
  <2> QED
    BY <2>2 DEF d, x
<1> QED
  BY <1>1, <1>2, RescheduledKeeps

\* The period that runs goes on.
LEMMA PeriodGoesOn ==
    ASSUME NEW t \in Machine, t.end_time \in Frames, NEW l \in Int, t.last_time = Time(t),
           Counter(t, l)
    PROVE  LET r == Rescheduled(t)
           IN  Working(r, 0, l) /\ Time(r) = Time(t) /\ r.end_time = t.end_time
<1>1. /\ t.count <= t.load /\ t.last_time <= Time(t)
      /\ t.enabled => (t.last_time + t.count - l) % t.load = 0
  BY DEF Counter
<1> QED
  BY <1>1, RescheduledKeeps

\* No period runs.
LEMMA NoPeriod ==
    ASSUME NEW t \in Machine, t.end_time \in Frames, NEW l \in Int, t.last_time <= Time(t),
           t.count <= t.load, t.last_time = Time(t), ~t.enabled
    PROVE  LET r == Rescheduled(t)
           IN  Working(r, 0, l) /\ Time(r) = Time(t) /\ r.end_time = t.end_time
  BY RescheduledKeeps

\* Then the access is done.
LEMMA AccessDone ==
    ASSUME running, running' = running, NEW l \in Int, NEW r, NEW n,
           m' = r, loaded' = l, before' = "other",
           Working(r, 0, l), InTime(n), Time(r) = Time(n), r.end_time = n.end_time
    PROVE  HesInv'
<1>1. r \in Machine /\ InTime(r)
  BY DEF Working, InTime
<1>2. Time(r) < r.end_time + Longest + (IF r.i THEN EntryClocks ELSE 0)
  BY <1>1, WithinEntry
<1> QED
  BY <1>2, Concluded

LEMMA WriteLoadKeeps == HesInv /\ WriteLoad => HesInv'
<1> SUFFICES ASSUME HesInv, WriteLoad PROVE HesInv'
  OBVIOUS
<1>1. PICK load \in Loads :
        /\ Access
        /\ m' = Rescheduled([Now EXCEPT !.load = load, !.count = load])
        /\ before' = "other" /\ loaded' = Time(Now)
        /\ UNCHANGED running
  BY DEF WriteLoad
<1> DEFINE n == Now
           t == [n EXCEPT !.load = load, !.count = load]
           r == Rescheduled(t)
<1>2. /\ running /\ n \in Machine /\ Working(n, 0, loaded) /\ InTime(n)
      /\ n.last_time = Time(n) /\ Time(n) \in Int
  BY <1>1, AccessIsNow
<1> HIDE DEF n
<1>3. load \in Int
  BY Constants
<1>4. /\ t \in Machine /\ t.load = load /\ t.count = load /\ t.last_time = n.last_time
      /\ t.base = n.base /\ t.s_time = n.s_time /\ t.end_time = n.end_time
  BY <1>2, <1>3 DEF Machine
<1>5. Time(t) = Time(n)
  BY <1>4 DEF Time
<1> HIDE DEF t
<1>6. Working(r, 0, Time(n)) /\ Time(r) = Time(n) /\ r.end_time = n.end_time
  BY <1>2, <1>4, <1>5, PeriodBegins DEF Working
<1>7. m' = r /\ loaded' = Time(n) /\ running' = running
  BY <1>1 DEF t, n
<1> HIDE DEF r
<1> QED
  BY <1>1, <1>2, <1>6, <1>7, AccessDone

LEMMA WriteEnableKeeps == HesInv /\ WriteEnable => HesInv'
<1> SUFFICES ASSUME HesInv, WriteEnable PROVE HesInv'
  OBVIOUS
<1> DEFINE n == Now
           a == After(AccessClocks)
<1>1. PICK on \in BOOLEAN :
        /\ Access
        /\ m' = IF on = m.enabled THEN a
                ELSE Rescheduled([n EXCEPT !.enabled = on, !.count = IF on THEN n.load ELSE @])
        /\ loaded' = IF on /\ ~m.enabled THEN Time(n) ELSE loaded
        /\ before' = "other"
        /\ UNCHANGED running
  BY DEF WriteEnable
<1> DEFINE c == IF on THEN n.load ELSE n.count
           t == [n EXCEPT !.enabled = on, !.count = c]
           r == Rescheduled(t)
<1>2. /\ running /\ n \in Machine /\ Working(n, 0, loaded) /\ InTime(n)
      /\ n.last_time = Time(n) /\ Time(n) \in Int /\ loaded \in Int
      /\ n.enabled = m.enabled /\ m.s_time < 0
  BY <1>1, AccessIsNow
<1>3. CASE on = m.enabled
  <2>1. AccessClocks \in Nat \ {0} /\ AccessClocks <= Longest
    BY Constants, LongestInstruction
  <2>2. Working(a, 0, loaded) /\ InTime(a)
    BY <1>2, <2>1, AfterInstruction
  <2>3. m' = a /\ loaded' = loaded
    BY <1>1, <1>3
  <2> HIDE DEF a
  <2> QED
    BY <1>1, <1>2, <2>2, <2>3, AccessDone
<1>4. CASE on # m.enabled
  <2>1. m' = r
    BY <1>1, <1>4
  <2> HIDE DEF n
  <2>2. c \in Int /\ (on => c = n.load) /\ c <= n.load
    <3>1. n.count \in Int
      BY <1>2 DEF Machine
    <3>2. n.load \in Nat \ {0}
      <4>1. n.load \in Loads
        BY <1>2 DEF Machine
      <4> QED
        BY <4>1, Constants
    <3>3. n.count <= n.load
      BY <1>2 DEF Working, Counter
    <3>4. CASE on
      BY <3>1, <3>2, <3>4 DEF c
    <3>5. CASE ~on
      BY <3>1, <3>3, <3>5 DEF c
    <3> QED
      BY <3>4, <3>5
  <2> HIDE DEF c
  <2>3. /\ t \in Machine /\ t.load = n.load /\ t.count = c /\ t.last_time = n.last_time
        /\ t.base = n.base /\ t.s_time = n.s_time /\ t.end_time = n.end_time
        /\ t.enabled = on
    BY <1>2, <2>2 DEF Machine
  <2>4. Time(t) = Time(n)
    BY <2>3 DEF Time
  <2> HIDE DEF t, r
  <2>5. CASE on
    <3>1. Working(r, 0, Time(n)) /\ Time(r) = Time(n) /\ r.end_time = n.end_time
      BY <1>2, <2>2, <2>3, <2>4, <2>5, PeriodBegins DEF Working, r
    <3>2. loaded' = Time(n)
      BY <1>1, <1>4, <2>5
    <3> QED
      BY <1>1, <1>2, <2>1, <3>1, <3>2, AccessDone
  <2>6. CASE ~on
    <3>1. t.last_time <= Time(t) /\ t.count <= t.load /\ t.end_time \in Frames
      BY <1>2, <2>2, <2>3, <2>4 DEF Working
    <3>2. Working(r, 0, loaded) /\ Time(r) = Time(n) /\ r.end_time = n.end_time
      BY <1>2, <2>3, <2>4, <2>6, <3>1, NoPeriod DEF r
    <3>3. loaded' = loaded
      BY <1>1, <2>6
    <3> QED
      BY <1>1, <1>2, <2>1, <3>2, <3>3, AccessDone
  <2> QED
    BY <2>5, <2>6
<1> QED
  BY <1>3, <1>4

LEMMA AcknowledgeKeeps == HesInv /\ Acknowledge => HesInv'
<1> SUFFICES ASSUME HesInv, Acknowledge PROVE HesInv'
  OBVIOUS
<1> DEFINE n == Now
           c == IF n.enabled THEN n.load ELSE n.count
           t == [n EXCEPT !.count = c, !.fired = FALSE]
           r == Rescheduled(t)
<1>1. /\ Access /\ m' = r /\ loaded' = (IF m.enabled THEN Time(n) ELSE loaded)
      /\ before' = "other" /\ running' = running
  BY DEF Acknowledge
<1>2. /\ running /\ n \in Machine /\ Working(n, 0, loaded) /\ InTime(n)
      /\ n.last_time = Time(n) /\ Time(n) \in Int /\ loaded \in Int
      /\ n.enabled = m.enabled
  BY <1>1, AccessIsNow
<1> HIDE DEF n
<1>3. n.count \in Int /\ n.load \in Nat \ {0} /\ n.count <= n.load
  <2>1. n.count \in Int /\ n.load \in Loads /\ n.count <= n.load
    BY <1>2 DEF Machine, Working, Counter
  <2> QED
    BY <2>1, Constants
<1>4. c \in Int /\ c <= n.load
  BY <1>3
<1> HIDE DEF c
<1>5. /\ t \in Machine /\ t.load = n.load /\ t.count = c /\ t.last_time = n.last_time
      /\ t.base = n.base /\ t.s_time = n.s_time /\ t.end_time = n.end_time
      /\ t.enabled = n.enabled
  BY <1>2, <1>4 DEF Machine
<1>6. Time(t) = Time(n)
  BY <1>5 DEF Time
<1> HIDE DEF t, r
<1>7. CASE n.enabled
  <2>1. t.count = t.load
    BY <1>5, <1>7 DEF c
  <2>2. Working(r, 0, Time(n)) /\ Time(r) = Time(n) /\ r.end_time = n.end_time
    BY <1>2, <1>5, <1>6, <2>1, PeriodBegins DEF Working, r
  <2>3. loaded' = Time(n)
    BY <1>1, <1>2, <1>7
  <2> QED
    BY <1>1, <1>2, <2>2, <2>3, AccessDone
<1>8. CASE ~n.enabled
  <2>1. t.last_time <= Time(t) /\ t.count <= t.load /\ t.end_time \in Frames
    BY <1>2, <1>4, <1>5, <1>6 DEF Working
  <2>2. Working(r, 0, loaded) /\ Time(r) = Time(n) /\ r.end_time = n.end_time
    BY <1>2, <1>5, <1>6, <1>8, <2>1, NoPeriod DEF r
  <2>3. loaded' = loaded
    BY <1>1, <1>2, <1>8
  <2> QED
    BY <1>1, <1>2, <2>2, <2>3, AccessDone
<1> QED
  BY <1>7, <1>8

\* What the other accesses write is not the timer's.
LEMMA AccessKeepsTimer ==
    ASSUME running, running' = running, NEW l \in Int, NEW n \in Machine, NEW t \in Machine,
           Working(n, 0, l), InTime(n), n.last_time = Time(n),
           t.last_time = n.last_time, t.count = n.count, t.load = n.load,
           t.enabled = n.enabled, t.fired = n.fired, t.irq_timer = n.irq_timer,
           t.base = n.base, t.s_time = n.s_time, t.end_time = n.end_time,
           t.postponed = n.postponed,
           m' = Rescheduled(t), loaded' = l, before' = "other"
    PROVE  HesInv'
<1>1. Time(t) = Time(n)
  BY DEF Time
<1>2. Counter(t, l)
  BY <1>1 DEF Counter, Working
<1> DEFINE r == Rescheduled(t)
<1>3. Working(r, 0, l) /\ Time(r) = Time(n) /\ r.end_time = n.end_time
  BY <1>1, <1>2, PeriodGoesOn DEF Working
<1> HIDE DEF r
<1>4. m' = r
  BY DEF r
<1> QED
  BY <1>3, <1>4, AccessDone

LEMMA WriteDisablesKeeps == HesInv /\ WriteDisables => HesInv'
<1> SUFFICES ASSUME HesInv, WriteDisables PROVE HesInv'
  OBVIOUS
<1>1. PICK masked \in SUBSET Lines :
        Access /\ Executed(Rescheduled([Now EXCEPT !.disables = masked]))
  BY DEF WriteDisables
<1> DEFINE n == Now
           t == [n EXCEPT !.disables = masked]
<1>2. /\ running /\ n \in Machine /\ Working(n, 0, loaded) /\ InTime(n)
      /\ n.last_time = Time(n) /\ loaded \in Int
  BY <1>1, AccessIsNow
<1>3. m' = Rescheduled(t) /\ before' = "other" /\ running' = running /\ loaded' = loaded
  BY <1>1 DEF Executed
<1> HIDE DEF n
<1>4. /\ t \in Machine /\ t.last_time = n.last_time /\ t.count = n.count /\ t.load = n.load
      /\ t.enabled = n.enabled /\ t.fired = n.fired /\ t.irq_timer = n.irq_timer
      /\ t.base = n.base /\ t.s_time = n.s_time /\ t.end_time = n.end_time
      /\ t.postponed = n.postponed
  BY <1>2 DEF Machine
<1> HIDE DEF t
<1> QED
  BY <1>2, <1>3, <1>4, AccessKeepsTimer

LEMMA WriteControlKeeps == HesInv /\ WriteControl => HesInv'
<1> SUFFICES ASSUME HesInv, WriteControl PROVE HesInv'
  OBVIOUS
<1>1. PICK on \in BOOLEAN :
        Access /\ Executed(Rescheduled([Now EXCEPT !.control = on]))
  BY DEF WriteControl
<1> DEFINE n == Now
           t == [n EXCEPT !.control = on]
<1>2. /\ running /\ n \in Machine /\ Working(n, 0, loaded) /\ InTime(n)
      /\ n.last_time = Time(n) /\ loaded \in Int
  BY <1>1, AccessIsNow
<1>3. m' = Rescheduled(t) /\ before' = "other" /\ running' = running /\ loaded' = loaded
  BY <1>1 DEF Executed
<1> HIDE DEF n
<1>4. /\ t \in Machine /\ t.last_time = n.last_time /\ t.count = n.count /\ t.load = n.load
      /\ t.enabled = n.enabled /\ t.fired = n.fired /\ t.irq_timer = n.irq_timer
      /\ t.base = n.base /\ t.s_time = n.s_time /\ t.end_time = n.end_time
      /\ t.postponed = n.postponed
  BY <1>2 DEF Machine
<1> HIDE DEF t
<1> QED
  BY <1>2, <1>3, <1>4, AccessKeepsTimer

LEMMA ReadTimerKeeps == HesInv /\ ReadTimer => HesInv'
<1> SUFFICES ASSUME HesInv, ReadTimer PROVE HesInv'
  OBVIOUS
<1> DEFINE n == Now
<1>1. /\ running /\ Working(n, 0, loaded) /\ InTime(n) /\ loaded \in Int
  BY AccessIsNow DEF ReadTimer
<1>2. m' = n /\ before' = "other" /\ running' = running /\ loaded' = loaded
  BY DEF ReadTimer, Executed
<1> HIDE DEF n
<1> QED
  BY <1>1, <1>2, AccessDone

LEMMA ReadVdpKeeps == HesInv /\ ReadVdp => HesInv'
<1> SUFFICES ASSUME HesInv, ReadVdp PROVE HesInv'
  OBVIOUS
<1> DEFINE a == After(AccessClocks)
           s == [a EXCEPT !.irq_vdp = Future]
           t == RunUntilNow(s)
<1>1. /\ running /\ m.s_time < 0 /\ loaded \in Int
      /\ running' = running /\ loaded' = loaded /\ before' = "other"
      /\ m' = IF a.irq_vdp > Time(a) THEN a ELSE Rescheduled(t)
  BY HesInvIs DEF ReadVdp, Access, Begins, Executed
<1>2. AccessClocks \in Nat \ {0} /\ AccessClocks <= Longest
  BY Constants, LongestInstruction
<1>3. Working(a, 0, loaded) /\ InTime(a) /\ a \in Machine
  BY <1>1, <1>2, AfterInstruction DEF Working
<1> HIDE DEF a
<1>4. CASE a.irq_vdp > Time(a)
  <2>1. m' = a
    BY <1>1, <1>4
  <2> QED
    BY <1>1, <1>3, <2>1, AccessDone
<1>5. CASE ~(a.irq_vdp > Time(a))
  <2>1. /\ s \in Machine /\ s.last_time = a.last_time /\ s.count = a.count /\ s.load = a.load
        /\ s.enabled = a.enabled /\ s.fired = a.fired /\ s.irq_timer = a.irq_timer
        /\ s.base = a.base /\ s.s_time = a.s_time /\ s.end_time = a.end_time
        /\ s.postponed = a.postponed
    BY <1>3, Constants DEF Machine
  <2> HIDE DEF s
  <2>2. Time(s) = Time(a) /\ Time(s) \in Int
    BY <2>1, TimeType DEF Time
  <2>3. Counter(s, loaded)
    BY <1>3, <2>1, <2>2 DEF Working, Counter
  <2>4. t = run_until(s, Time(s))
    BY DEF RunUntilNow
  <2>5. t \in Machine /\ Time(t) = Time(s) /\ t.end_time = s.end_time
    BY <2>1, <2>2, <2>4, RunUntilIs
  <2>6. Counter(t, loaded) /\ Time(s) <= t.last_time
    BY <1>1, <2>1, <2>2, <2>3, <2>4, RunUntilKeeps
  <2> HIDE DEF t
  <2>7. t.last_time = Time(t)
    <3>1. t.last_time \in Int /\ t.last_time <= Time(t)
      BY <2>5, <2>6 DEF Machine, Counter
    <3> QED
      BY <2>2, <2>5, <2>6, <3>1
  <2> DEFINE r == Rescheduled(t)
  <2>8. Working(r, 0, loaded) /\ Time(r) = Time(a) /\ r.end_time = a.end_time
    BY <1>1, <1>3, <2>1, <2>2, <2>5, <2>6, <2>7, PeriodGoesOn DEF Working
  <2> HIDE DEF r
  <2>9. m' = r
    BY <1>1, <1>5 DEF r
  <2> QED
    BY <1>1, <1>3, <2>8, <2>9, AccessDone
<1> QED
  BY <1>4, <1>5

LEMMA WriteOtherKeeps == HesInv /\ WriteOther => HesInv'
<1> SUFFICES ASSUME HesInv, WriteOther PROVE HesInv'
  OBVIOUS
<1> DEFINE a == After(AccessClocks)
           t == [a EXCEPT !.postponed = TRUE]
           r == irq_changed(t)
<1>1. /\ running /\ m.s_time < 0 /\ loaded \in Int
      /\ running' = running /\ loaded' = loaded /\ before' = "other"
      /\ m' = IF NDEBUG THEN r ELSE a
  BY HesInvIs DEF WriteOther, Access, Begins, Executed
<1>2. AccessClocks \in Nat \ {0} /\ AccessClocks <= Longest
  BY Constants, LongestInstruction
<1>3. Working(a, 0, loaded) /\ InTime(a) /\ a \in Machine
  BY <1>1, <1>2, AfterInstruction DEF Working
<1> HIDE DEF a
<1>4. CASE ~NDEBUG
  <2>1. m' = a
    BY <1>1, <1>4
  <2> QED
    BY <1>1, <1>3, <2>1, AccessDone
<1>5. CASE NDEBUG
  <2>1. /\ t \in Machine /\ t.last_time = a.last_time /\ t.count = a.count
        /\ t.load = a.load /\ t.enabled = a.enabled /\ t.base = a.base
        /\ t.s_time = a.s_time /\ t.end_time = a.end_time /\ t.postponed = TRUE
    BY <1>3 DEF Machine
  <2> HIDE DEF t
  <2>2. Time(t) = Time(a)
    BY <2>1 DEF Time
  <2>3. /\ t.end_time \in Frames /\ t.last_time <= Time(t) /\ t.count <= t.load
        /\ t.enabled => (t.last_time + t.count - loaded) % t.load = 0
    BY <1>3, <2>1, <2>2 DEF Working, Counter
  <2>4. Working(r, 0, loaded) /\ Time(r) = Time(a) /\ r.end_time = a.end_time
    BY <1>1, <1>5, <2>1, <2>2, <2>3, IrqChangedKeeps
  <2>5. m' = r
    BY <1>1, <1>5
  <2> HIDE DEF r
  <2> QED
    BY <1>1, <1>3, <2>4, <2>5, AccessDone
<1> QED
  BY <1>4, <1>5

-----------------------------------------------------------------------------
(***************************************************************************)
(* Out of time.  s is the machine as it is, or moved to its base at idle.  *)
(***************************************************************************)
LateIn(s) == Time(s) < s.end_time + Longest + (IF s.i THEN EntryClocks ELSE 0)

LEMMA AtIdleKeeps ==
    ASSUME HesInv, running, m.s_time < 0
    PROVE  LET s == AtIdle(m)
           IN  Working(s, 0, loaded) /\ LateIn(s) /\ s.end_time = m.end_time
<1> DEFINE c == -m.s_time
           s == [m EXCEPT !.s_time = @ + c]
           k == Slack
<1>1. m \in Machine /\ Working(m, k, loaded) /\ loaded \in Int /\ k \in {0, 1}
  BY HesInvIs DEF Slack
<1>2. m.base \in Int /\ m.s_time \in Int /\ m.end_time \in Int
  BY <1>1 DEF Machine
<1>3. c \in Nat /\ m.s_time + c = 0 /\ k <= c + 0
  BY <1>1, <1>2
<1>4. AtIdle(m) = s
  BY <1>3 DEF AtIdle
<1> HIDE DEF c, k
<1>5. /\ Working(s, 0, loaded) /\ s.end_time = m.end_time
      /\ s.base = m.base /\ s.s_time = m.s_time + c
  BY <1>1, <1>3, AddClocks
<1> HIDE DEF s
<1>6. LateIn(s)
  <2>1. m.base <= m.end_time
    BY <1>1, BaseInFrame DEF Working
  <2>2. Longest \in Nat \ {0} /\ EntryClocks \in Nat
    BY LongestInstruction, Constants
  <2>3. Time(s) = m.base
    BY <1>2, <1>3, <1>5, TimeType DEF Working
  <2> QED
    BY <1>2, <1>5, <2>1, <2>2, <2>3 DEF LateIn
<1> QED
  BY <1>4, <1>5, <1>6

LEMMA InterruptKeeps ==
    ASSUME NEW s \in Machine, NEW k \in {0, 1}, NEW l \in Int, Working(s, k, l), LateIn(s),
           loaded = l, Interrupt(s)
    PROVE  HesInv' /\ running' /\ m'.i /\ m'.end_time = m'.base
<1>1. running /\ running' = running /\ before' = "other" /\ loaded' = l /\ ~s.i
  BY DEF Interrupt, OutOfTime, Executed, Pending
<1>2. /\ Time(s) \in Int /\ s.end_time \in Int /\ Longest \in Int /\ EntryClocks \in Nat
  BY TimeType, LongestInstruction, Constants DEF Machine
<1>3. Time(s) < s.end_time + Longest
  BY <1>1, <1>2 DEF LateIn
<1>4. ASSUME NEW t \in Machine, NEW n \in {0, 1}, Working(t, n, l),
             Time(t) = Time(s), t.end_time = s.end_time, m' = Entered(t)
      PROVE  HesInv' /\ running' /\ m'.i /\ m'.end_time = m'.base
  <2> DEFINE r == Entered(t)
  <2>1. /\ Working(r, 0, l) /\ Time(r) = Time(s) + EntryClocks /\ r.i = TRUE
        /\ r.end_time = s.end_time /\ r.base = s.end_time
    BY <1>4, EnteredKeeps
  <2>2. m' = r
    BY <1>4
  <2> HIDE DEF r
  <2>3. Time(r) < r.end_time + Longest + (IF r.i THEN EntryClocks ELSE 0)
    BY <1>2, <1>3, <2>1
  <2>4. HesInv'
    BY <1>1, <2>1, <2>2, <2>3, Concluded
  <2>5. running'
    BY <1>1, Zenon
  <2> QED
    BY <2>1, <2>2, <2>4, <2>5
<1>5. CASE m' = Entered(s)
  BY <1>4, <1>5
<1>6. CASE m' = Entered(irq_changed([s EXCEPT !.fired = TRUE, !.irq_timer = Future]))
  <2> DEFINE t == [s EXCEPT !.fired = TRUE, !.irq_timer = Future]
             q == irq_changed(t)
  <2>1. /\ t \in Machine /\ t.fired /\ t.last_time = s.last_time /\ t.count = s.count
        /\ t.load = s.load /\ t.base = s.base /\ t.s_time = s.s_time
        /\ t.end_time = s.end_time /\ t.enabled = s.enabled
        /\ t.postponed = s.postponed
    <3>1. Future \in Int
      BY Constants
    <3>2. t.fired = TRUE
      BY DEF Machine
    <3> QED
      BY <3>1, <3>2 DEF Machine
  <2> HIDE DEF t
  <2>2. Time(t) = Time(s)
    BY <2>1 DEF Time
  <2>3. /\ t.last_time <= Time(t) /\ t.count <= t.load /\ t.end_time \in Frames
        /\ t.enabled => (t.last_time + t.count - l) % t.load = 0
        /\ t.postponed => NDEBUG
    BY <2>1, <2>2 DEF Working, Counter
  <2>4. Working(q, 0, l) /\ Time(q) = Time(s) /\ q.end_time = s.end_time
    BY <2>1, <2>2, <2>3, IrqChangedKeeps
  <2>5. m' = Entered(q)
    BY <1>6 DEF t
  <2> HIDE DEF q
  <2> QED
    BY <1>4, <2>4, <2>5 DEF Working
<1> QED
  BY <1>5, <1>6 DEF Interrupt, Executed

\* Nothing is due to be entered, so the run has come to its end.
LEMMA NoneDueAtEnd ==
    ASSUME NEW s \in Machine, NEW k \in {0, 1}, NEW l, Working(s, k, l), LateIn(s),
           s.s_time >= 0, \A n \in Lines : ~Pending(s, n)
    PROVE  /\ s.end_time <= Time(s) /\ Time(s) + 1 < Future
           /\ Time(s) - s.end_time < Longest + EntryClocks
<1>1. /\ Time(s) \in Int /\ s.end_time \in Nat \ {0} /\ s.base \in Int
      /\ s.s_time \in Int /\ s.irq_time \in Int /\ Time(s) = s.base + s.s_time
      /\ DueAt(s) \in Int
  BY TimeType, Constants, Due DEF Machine, Working
<1>2. /\ Longest \in Nat \ {0} /\ 8 * Longest < Future /\ Future \in Nat
      /\ EntryClocks \in Nat \ {0} /\ 8 * EntryClocks < Future /\ 8 * s.end_time < Future
  BY LongestInstruction, Constants DEF Working
<1>3. Time(s) - s.end_time < Longest + EntryClocks
  BY <1>1, <1>2 DEF LateIn
<1>4. Time(s) + 1 < Future
  BY <1>1, <1>2, <1>3
<1>5. CASE s.base = s.end_time
  BY <1>1, <1>3, <1>4, <1>5
<1>6. CASE s.base # s.end_time
  <2>1. ~s.i /\ s.base = s.irq_time
    BY <1>6 DEF Working, Based, EarlierOf
  <2>2. \A n \in Lines \ s.disables : ~(Line(s, n) <= Time(s))
    BY <2>1 DEF Pending
  <2>3. DueAt(s) > Time(s)
    <3>1. CASE DueAt(s) = Future
      BY <1>1, <1>2, <1>4, <3>1
    <3>2. CASE DueAt(s) # Future
      <4>1. PICK n \in Lines \ s.disables : DueAt(s) = Line(s, n)
        BY <3>2, Due
      <4>2. ~(DueAt(s) <= Time(s))
        BY <2>2, <4>1
      <4> QED
        BY <1>1, <4>2
    <3> QED
      BY <3>1, <3>2
  <2>4. s.irq_time = DueAt(s)
    BY <2>3 DEF Working, Current
  <2> QED
    BY <1>1, <2>1, <2>3, <2>4
<1> QED
  BY <1>5, <1>6

LEMMA AdjustIs ==
    ASSUME NEW t \in Int, NEW d \in Nat
    PROVE  /\ adjust_time(t, d) = IF t < Future THEN IF t > d THEN t - d ELSE 0 ELSE t
           /\ adjust_time(t, d) \in Int
<1> DEFINE u == t - d
           S == {u, 0}
<1>1. u \in Int /\ (u > 0 <=> t > d)
  OBVIOUS
<1>2. adjust_time(t, d) = IF t < Future THEN Max(S) ELSE t
  BY DEF adjust_time
<1> HIDE DEF u
<1>3. Max(S) = IF u > 0 THEN u ELSE 0
  <2>1. S \in SUBSET Int /\ \E x \in S : \A y \in S : y <= x
    BY <1>1
  <2>2. Max(S) \in S /\ \A y \in S : y <= Max(S)
    BY <2>1, MostOf
  <2> QED
    BY <1>1, <2>2
<1> QED
  BY <1>1, <1>2, <1>3 DEF u

\* run() returns: all times are counted from the end of the frame.
LEMMA EndFrameIs ==
    ASSUME NEW s \in Machine, NEW d \in Nat, d < Future, s.end_time = d
    PROVE  LET f == EndFrame(s, d)
           IN  /\ f \in Machine /\ Time(f) = Time(s) - d /\ f.end_time = 0 /\ f.i = s.i
               /\ f.last_time = s.last_time - d /\ f.count = s.count /\ f.load = s.load
               /\ f.enabled = s.enabled /\ f.fired = s.fired /\ f.disables = s.disables
               /\ f.postponed = s.postponed
               /\ f.irq_time = (IF s.irq_time < Future THEN s.irq_time - d ELSE s.irq_time)
               /\ f.irq_timer = adjust_time(s.irq_timer, d)
               /\ f.irq_vdp = adjust_time(s.irq_vdp, d)
<1> DEFINE last == s.last_time - d
           vbl == s.next_vbl - d
           base == s.base - d
           irq == Earlier(s.irq_time, d)
           end == Earlier(s.end_time, d)
           a == adjust_time(s.irq_timer, d)
           b == adjust_time(s.irq_vdp, d)
           f == EndFrame(s, d)
<1>1. /\ s.last_time \in Int /\ s.next_vbl \in Int /\ s.base \in Int /\ s.s_time \in Int
      /\ s.irq_time \in Int /\ s.irq_timer \in Int /\ s.irq_vdp \in Int
  BY DEF Machine
<1>2. /\ last \in Int /\ vbl \in Int /\ base \in Int
      /\ irq = (IF s.irq_time < Future THEN s.irq_time - d ELSE s.irq_time)
      /\ irq \in Int /\ end = 0
  BY <1>1 DEF Earlier
<1>3. a \in Int /\ b \in Int
  BY <1>1, AdjustIs
<1>4. f = [s EXCEPT !.last_time = last, !.next_vbl = vbl, !.base = base, !.irq_time = irq,
                    !.end_time = end, !.irq_timer = a, !.irq_vdp = b]
  BY DEF EndFrame
<1> HIDE DEF last, vbl, base, irq, end, a, b, f
<1>5. /\ f \in Machine /\ f.base = base /\ f.s_time = s.s_time /\ f.end_time = end
      /\ f.i = s.i /\ f.last_time = last /\ f.count = s.count /\ f.load = s.load
      /\ f.enabled = s.enabled /\ f.fired = s.fired /\ f.disables = s.disables
      /\ f.postponed = s.postponed
      /\ f.irq_time = irq /\ f.irq_timer = a /\ f.irq_vdp = b
  <2>1. /\ last \in Int /\ vbl \in Int /\ base \in Int /\ irq \in Int /\ end \in Int
        /\ a \in Int /\ b \in Int
    BY <1>2, <1>3
  <2> QED
    BY <1>4, <2>1 DEF Machine
<1>6. Time(f) = Time(s) - d
  BY <1>1, <1>5, TimeType DEF base
<1> QED
  BY <1>2, <1>5, <1>6 DEF last, a, b, f

\* A line is as far from the present after it as before, or is due as before.
LEMMA DueAfterFrame ==
    ASSUME NEW s \in Machine, NEW f \in Machine, NEW d \in Nat, NEW k \in {0, 1},
           d <= Time(s), Time(s) + 1 < Future, Current(s, k),
           Time(f) = Time(s) - d, f.disables = s.disables,
           f.irq_time = (IF s.irq_time < Future THEN s.irq_time - d ELSE s.irq_time),
           f.irq_timer = adjust_time(s.irq_timer, d), f.irq_vdp = adjust_time(s.irq_vdp, d)
    PROVE  Current(f, k)
<1>1. /\ Time(s) \in Int /\ s.irq_time \in Int /\ DueAt(s) \in Int /\ DueAt(s) <= Future
      /\ Future \in Nat /\ DueAt(f) \in Int /\ Time(f) \in Int
  BY TimeType, Due, Constants DEF Machine
<1>2. ASSUME NEW n \in Lines
      PROVE  /\ Line(s, n) \in Int
             /\ Line(f, n) = IF Line(s, n) < Future
                             THEN IF Line(s, n) > d THEN Line(s, n) - d ELSE 0
                             ELSE Line(s, n)
  <2> DEFINE t == Line(s, n)
  <2>1. t \in Int /\ Line(f, n) = adjust_time(t, d)
    BY TimeType DEF Line, Lines
  <2> HIDE DEF t
  <2>2. Line(f, n) = IF t < Future THEN IF t > d THEN t - d ELSE 0 ELSE t
    BY <2>1, AdjustIs
  <2> QED
    BY <2>1, <2>2 DEF t
<1>3. CASE DueAt(s) > Time(s)
  <2>1. s.irq_time = DueAt(s)
    BY <1>3 DEF Current
  <2> DEFINE t == f.irq_time
  <2>2. t = IF DueAt(s) < Future THEN DueAt(s) - d ELSE DueAt(s)
    BY <2>1
  <2> HIDE DEF t
  <2>3. t \in Int /\ t <= Future /\ t > Time(f)
    BY <1>1, <1>3, <2>2
  <2>4. ASSUME NEW n \in Lines \ f.disables
        PROVE  t <= Line(f, n)
    <3>1. DueAt(s) <= Line(s, n)
      BY Due
    <3> QED
      BY <1>1, <1>2, <1>3, <2>2, <3>1
  <2>5. t # Future => \E n \in Lines \ f.disables : t = Line(f, n)
    <3> SUFFICES ASSUME t # Future
                 PROVE  \E n \in Lines \ f.disables : t = Line(f, n)
      OBVIOUS
    <3>1. DueAt(s) # Future
      BY <1>1, <2>2
    <3>2. PICK n \in Lines \ s.disables : DueAt(s) = Line(s, n)
      BY <3>1, Due
    <3>3. DueAt(s) < Future /\ DueAt(s) > d
      BY <1>1, <1>3, <3>1
    <3>4. t = Line(f, n)
      BY <1>1, <1>2, <2>2, <3>2, <3>3
    <3> QED
      BY <3>2, <3>4
  <2>6. DueAt(f) = t
    BY <2>3, <2>4, <2>5, DueUnique
  <2> QED
    BY <2>3, <2>6 DEF Current, t
<1>4. CASE ~(DueAt(s) > Time(s))
  <2>1. DueAt(s) <= Time(s) /\ DueAt(s) < Future /\ DueAt(s) # Future
    BY <1>1, <1>4
  <2>2. PICK n \in Lines \ s.disables : DueAt(s) = Line(s, n)
    BY <2>1, Due
  <2>3. Line(f, n) <= Time(f)
    BY <1>1, <1>2, <2>1, <2>2
  <2>4. DueAt(f) <= Line(f, n) /\ Line(f, n) \in Int
    BY <2>2, Due, TimeType
  <2>5. ~(DueAt(f) > Time(f))
    BY <1>1, <2>3, <2>4
  <2>6. s.irq_time <= Time(s) + k
    BY <1>4 DEF Current
  <2>7. f.irq_time <= Time(f) + k
    BY <1>1, <2>6
  <2> QED
    BY <2>5, <2>7 DEF Current
<1> QED
  BY <1>3, <1>4

LEMMA CounterAfterFrame ==
    ASSUME NEW s \in Machine, NEW f \in Machine, NEW d \in Nat, NEW l \in Int,
           Counter(s, l), d <= Time(s), Time(f) = Time(s) - d,
           Time(s) + s.load < Future,
           f.last_time = s.last_time - d, f.count = s.count, f.load = s.load,
           f.enabled = s.enabled, f.fired = s.fired, f.postponed = s.postponed,
           f.irq_timer = adjust_time(s.irq_timer, d)
    PROVE  Counter(f, -((d - l) % s.load))
<1> DEFINE n == -((d - l) % s.load)
           t == s.irq_timer
           u == f.irq_timer
<1>1. /\ Time(s) \in Int /\ s.last_time \in Int /\ s.count \in Int /\ t \in Int
      /\ s.load \in Nat \ {0} /\ Future \in Nat
  BY TimeType, Constants DEF Machine
<1>2. u = IF t < Future THEN IF t > d THEN t - d ELSE 0 ELSE t
  BY <1>1, AdjustIs
<1> SUFFICES Counter(f, n)
  OBVIOUS
<1>3. /\ f.last_time <= Time(f) /\ f.count <= f.load
      /\ f.enabled => (f.last_time + f.count - n) % f.load = 0
      /\ f.postponed => NDEBUG
  <2>1. f.last_time <= Time(f) /\ f.count <= f.load /\ (f.postponed => NDEBUG)
    BY <1>1 DEF Counter
  <2>2. ASSUME s.enabled PROVE (f.last_time + f.count - n) % f.load = 0
    <3> DEFINE q == s.load
               x == s.last_time + s.count
               v == (d - l) % q
    <3>1. q \in Nat \ {0} /\ x \in Int /\ (x - l) % q = 0
      BY <1>1, <2>2 DEF Counter
    <3>2. v \in Int
      <4> DEFINE w == d - l
      <4>1. w \in Int /\ q \in Nat \ {0}
        BY <3>1
      <4> HIDE DEF w, q
      <4>2. w % q \in 0..q - 1
        BY <4>1, Remainders
      <4> QED
        BY <4>1, <4>2 DEF w
    <3>3. f.last_time + f.count - n = (x - d) - (-v)
      <4>1. n = -v
        OBVIOUS
      <4> HIDE DEF n, v
      <4> QED
        BY <1>1, <3>1, <3>2, <4>1
    <3>4. ((x - d) - (-v)) % q = 0
      <4>1. d \in Int
        OBVIOUS
      <4> HIDE DEF q, x
      <4>2. ((x - d) - (-((d - l) % q))) % q = 0
        BY <3>1, <4>1, WholePeriods
      <4> QED
        BY <4>2
    <3> QED
      BY <1>1, <3>3, <3>4
  <2> QED
    BY <2>1, <2>2
<1>4. CASE t <= Time(s)
  <2>1. u <= Time(f)
    BY <1>1, <1>2, <1>4
  <2> HIDE DEF n
  <2> QED
    BY <1>3, <2>1 DEF Counter
<1>5. CASE ~(t <= Time(s)) /\ s.enabled /\ ~s.fired
  <2>1. t <= Time(s) + s.load /\ (s.postponed \/ t = s.last_time + s.count)
    BY <1>5 DEF Counter
  <2>2. t < Future /\ t > d
    BY <1>1, <1>5, <2>1
  <2>3. u = t - d
    BY <1>1, <1>2, <2>2
  <2>4. u <= Time(f) + f.load /\ (f.postponed \/ u = f.last_time + f.count)
    BY <1>1, <2>1, <2>3
  <2> HIDE DEF n
  <2> QED
    BY <1>3, <1>5, <2>4 DEF Counter
<1>6. CASE ~(t <= Time(s)) /\ ~(s.enabled /\ ~s.fired)
  <2>1. t = Future
    BY <1>6 DEF Counter
  <2>2. u = Future
    BY <1>1, <1>2, <2>1
  <2> HIDE DEF n
  <2> QED
    BY <1>3, <1>6, <2>2 DEF Counter
<1> QED
  BY <1>4, <1>5, <1>6

LEMMA ReturnKeeps ==
    ASSUME NEW s \in Machine, NEW k \in {0, 1}, NEW l \in Int, Working(s, k, l), LateIn(s),
           \/ before = "other" /\ k = 0
           \/ before = "cli" /\ k \in {0, 1},
           loaded = l, Return(s)
    PROVE  HesInv' /\ Time(m') \in 0..(Longest + EntryClocks - 1)
<1> DEFINE d == s.end_time
           r == run_until(s, d)
           f == EndFrame(r, d)
           n == -((d - l) % s.load)
<1>1. /\ running' = FALSE /\ before' = before /\ loaded' = n /\ m' = f
      /\ s.s_time >= 0 /\ \A x \in Lines : ~Pending(s, x)
  BY DEF Return, OutOfTime
<1>2. /\ d <= Time(s) /\ Time(s) + 1 < Future /\ Time(s) - d < Longest + EntryClocks
  BY <1>1, NoneDueAtEnd
<1>3. /\ d \in Nat \ {0} /\ 8 * d < Future /\ s.load \in Nat \ {0} /\ 8 * s.load < Future
      /\ Time(s) \in Int /\ Longest \in Nat \ {0} /\ 8 * Longest < Future
      /\ EntryClocks \in Nat /\ 8 * EntryClocks < Future /\ Future \in Nat
  BY Constants, TimeType, LongestInstruction DEF Working, Machine
<1>4. d < Future /\ Time(s) + s.load < Future
  BY <1>2, <1>3
<1>5. n \in Int
  <2> DEFINE a == d - l
             q == s.load
  <2>1. a \in Int /\ q \in Nat \ {0}
    BY <1>3
  <2> HIDE DEF a, q
  <2>2. a % q \in 0..q - 1
    BY <2>1, Remainders
  <2>3. -(a % q) \in Int
    BY <2>1, <2>2
  <2> QED
    BY <2>3 DEF a, q
<1>6. /\ r \in Machine /\ Time(r) = Time(s) /\ r.i = s.i /\ r.end_time = d
      /\ r.irq_time = s.irq_time /\ r.load = s.load
      /\ Current(r, k) /\ Counter(r, l)
  <2>1. PICK p \in Int : p = d
    BY <1>3
  <2>2. p <= Time(s) /\ r = run_until(s, p)
    BY <1>2, <2>1
  <2>3. LET x == run_until(s, p)
        IN  /\ x \in Machine /\ Time(x) = Time(s) /\ x.i = s.i /\ x.end_time = d
            /\ x.irq_time = s.irq_time /\ x.load = s.load
    BY RunUntilIs
  <2>4. LET x == run_until(s, p)
        IN  Current(x, k) /\ Counter(x, l)
    BY <2>2, RunUntilKeeps DEF Working
  <2> HIDE DEF r
  <2> QED
    BY <2>2, <2>3, <2>4
<1> HIDE DEF r, d
<1>8. /\ f \in Machine /\ Time(f) = Time(r) - d /\ f.end_time = 0 /\ f.i = r.i
      /\ f.last_time = r.last_time - d /\ f.count = r.count /\ f.load = r.load
      /\ f.enabled = r.enabled /\ f.fired = r.fired /\ f.disables = r.disables
      /\ f.postponed = r.postponed
      /\ f.irq_time = (IF r.irq_time < Future THEN r.irq_time - d ELSE r.irq_time)
      /\ f.irq_timer = adjust_time(r.irq_timer, d)
      /\ f.irq_vdp = adjust_time(r.irq_vdp, d)
  BY <1>3, <1>4, <1>6, EndFrameIs
<1> HIDE DEF f
<1>9. Current(f, k)
  BY <1>2, <1>3, <1>6, <1>8, DueAfterFrame
<1>10. Counter(f, n)
  BY <1>2, <1>3, <1>4, <1>6, <1>8, CounterAfterFrame
<1> HIDE DEF n
<1>11. Time(f) \in 0..(Longest + EntryClocks - 1)
  BY <1>2, <1>3, <1>6, <1>8
<1>12. Time(f) < 0 + Longest + (IF f.i THEN EntryClocks ELSE 0)
  <2>1. CASE s.i
    BY <1>2, <1>3, <1>6, <1>8, <2>1
  <2>2. CASE ~s.i
    <3>1. Time(s) < s.end_time + Longest
      <4>1. Time(s) < s.end_time + Longest + 0
        BY <2>2 DEF LateIn
      <4> QED
        BY <1>3, <4>1 DEF d
    <3> QED
      BY <1>2, <1>3, <1>6, <1>8, <2>2, <3>1 DEF d
  <2> QED
    BY <2>1, <2>2
<1>13. before \in {"cli", "other"}
  OBVIOUS
<1>14. TypeOK'
  BY <1>1, <1>5, <1>8, <1>13 DEF TypeOK
<1>15. FrameInv'
  BY Zenon, <1>1, <1>8, <1>12 DEF FrameInv
<1>16. BaseCorrect'
  BY <1>1 DEF BaseCorrect
<1>17. CounterInv'
  BY Zenon, <1>1, <1>10 DEF CounterInv, Counter
<1>18. IrqTimeCurrent'
  <2> DEFINE slack == IF before = "cli" THEN 1 ELSE 0
  <2>1. k <= slack /\ slack \in {0, 1}
    OBVIOUS
  <2>2. Current(f, slack)
    <3>1. Time(f) \in Int /\ f.irq_time \in Int
      BY <1>8, TimeType DEF Machine
    <3> HIDE DEF slack
    <3> QED
      BY <1>9, <2>1, <3>1 DEF Current
  <2> QED
    BY Zenon, <1>1, <2>2 DEF IrqTimeCurrent, Current
<1> QED
  BY <1>1, <1>11, <1>14, <1>15, <1>16, <1>17, <1>18 DEF HesInv

-----------------------------------------------------------------------------
(***************************************************************************)
(* A track starts, a frame begins.                                         *)
(***************************************************************************)
LEMMA AtStartIs ==
    ASSUME NEW c \in Loads, NEW k
    PROVE  LET s == AtStart(c, InitialLoad)
           IN  /\ s \in Machine /\ Time(s) = 0 /\ s.end_time = Future /\ s.i = TRUE
               /\ Current(s, k) /\ Counter(s, 0)
<1> DEFINE s == AtStart(c, InitialLoad)
<1>1. InitialLoad \in Loads /\ c \in Int /\ c <= InitialLoad
  <2>1. Loads \in SUBSET Int /\ c \in Nat \ {0}
    BY Constants
  <2>2. PICK n \in Loads : \A l \in Loads : l <= n
    BY Zenon, HesAssumption DEF HesAssumption
  <2> QED
    BY <2>1, <2>2, MostOf DEF InitialLoad
<1>2. Future \in Nat \ {0} /\ Future \in Int
  BY Constants
<1>3. /\ s \in Machine /\ s.base = 0 /\ s.s_time = 0 /\ s.end_time = Future
      /\ s.i = TRUE /\ s.disables = Lines /\ s.irq_time = Future /\ s.irq_timer = Future
      /\ s.last_time = 0 /\ s.count = c /\ s.load = InitialLoad /\ s.enabled = FALSE
      /\ s.postponed = FALSE
  BY <1>1, <1>2 DEF AtStart, Machine
<1> HIDE DEF s
<1>4. Time(s) = 0
  BY <1>3 DEF Time
<1>5. DueAt(s) = Future
  BY <1>2, <1>3, DueUnique
<1>6. Current(s, k)
  BY <1>2, <1>3, <1>4, <1>5 DEF Current
<1>7. Counter(s, 0)
  BY <1>1, <1>3, <1>4 DEF Counter
<1> QED
  BY <1>3, <1>4, <1>6, <1>7 DEF s

LEMMA HesInit == Init => HesInv
<1> SUFFICES ASSUME Init PROVE HesInv
  OBVIOUS
<1>1. m = AtStart(InitialLoad, InitialLoad) /\ running = FALSE /\ before = "other"
      /\ loaded = 0
  BY DEF Init
<1>2. /\ m \in Machine /\ Time(m) = 0 /\ m.end_time = Future /\ m.i = TRUE
      /\ Current(m, 0) /\ Counter(m, 0)
  BY <1>1, AtStartIs, InitialLoadIsOne
<1>3. 0 < 0 + Longest + EntryClocks
  BY LongestInstruction, Constants
<1>4. TypeOK
  <2>1. 0 \in Int /\ "other" \in {"cli", "other"} /\ FALSE \in BOOLEAN
    OBVIOUS
  <2> QED
    BY <1>1, <1>2, <2>1, Zenon DEF TypeOK
<1>5. FrameInv
  BY <1>1, <1>2, <1>3 DEF FrameInv
<1>6. BaseCorrect
  BY <1>1 DEF BaseCorrect
<1>7. IrqTimeCurrent
  BY <1>1, <1>2 DEF IrqTimeCurrent, Current
<1>8. CounterInv
  BY <1>1, <1>2 DEF CounterInv, Counter
<1> QED
  BY <1>4, <1>5, <1>6, <1>7, <1>8 DEF HesInv

LEMMA StartTrackKeeps == HesInv /\ start_track => HesInv'
<1> SUFFICES ASSUME HesInv, start_track PROVE HesInv'
  OBVIOUS
<1> DEFINE s == AtStart(m.load, InitialLoad)
<1>1. m' = s /\ running' = FALSE /\ before' = "other" /\ loaded' = 0
  <2>1. running = FALSE
    BY HesInvIs DEF start_track
  <2> QED
    BY <2>1 DEF start_track
<1>2. m.load \in Loads
  BY HesInvIs DEF Machine
<1>3. /\ s \in Machine /\ Time(s) = 0 /\ s.end_time = Future /\ s.i = TRUE
      /\ Current(s, 0) /\ Counter(s, 0)
  BY <1>2, AtStartIs
<1> HIDE DEF s
<1>4. 0 < 0 + Longest + EntryClocks
  BY LongestInstruction, Constants
<1>5. TypeOK'
  <2>1. 0 \in Int /\ "other" \in {"cli", "other"} /\ FALSE \in BOOLEAN
    OBVIOUS
  <2> QED
    BY <1>1, <1>3, <2>1, Zenon DEF TypeOK
<1>6. FrameInv'
  <2>1. m'.end_time = Future /\ m'.i = TRUE /\ Time(m') = 0
    BY <1>1, <1>3
  <2> QED
    BY <1>1, <1>4, <2>1 DEF FrameInv
<1>7. BaseCorrect'
  BY <1>1 DEF BaseCorrect
<1>8. IrqTimeCurrent'
  BY <1>1, <1>3, Zenon DEF IrqTimeCurrent, Current
<1>9. CounterInv'
  BY <1>1, <1>3, Zenon DEF CounterInv, Counter
<1> QED
  BY <1>5, <1>6, <1>7, <1>8, <1>9 DEF HesInv

LEMMA RunClocksKeeps == HesInv /\ run_clocks => HesInv'
<1> SUFFICES ASSUME HesInv, run_clocks PROVE HesInv'
  OBVIOUS
<1>1. PICK duration \in Frames :
        /\ ~running /\ m' = set_end_time(m, duration) /\ running' = TRUE
        /\ UNCHANGED <<before, loaded>>
  BY DEF run_clocks
<1> DEFINE t == EarlierOf(m, duration, m.irq_time)
           u == SetBase(m, t)
           s == [u EXCEPT !.end_time = duration]
<1>2. /\ m \in Machine /\ loaded \in Int /\ Current(m, Slack) /\ Counter(m, loaded)
      /\ before \in {"cli", "other"}
  BY HesInvIs DEF HesInv, TypeOK
<1>3. duration \in Nat \ {0} /\ m.irq_time \in Int /\ Time(m) \in Int
  BY <1>2, Constants, TimeType DEF Machine
<1>4. t \in Int
  BY <1>3, EarlierType
<1>5. m' = s
  BY <1>1 DEF set_end_time
<1>6. t = EarlierOf(m, duration, m.irq_time)
  OBVIOUS
<1> HIDE DEF t
<1>7. /\ u \in Machine /\ Time(u) = Time(m) /\ u.base = t /\ SameDevices(u, m)
      /\ u.i = m.i /\ u.irq_time = m.irq_time
  BY <1>2, <1>4, SetBaseKeeps
<1> HIDE DEF u
<1>8. duration \in Int
  BY <1>3
<1>9. /\ s \in Machine /\ s.end_time = duration /\ s.base = t /\ s.s_time = u.s_time
      /\ SameDevices(s, u) /\ s.i = m.i /\ s.irq_time = m.irq_time
  BY <1>7, <1>8 DEF Machine, SameDevices
<1> HIDE DEF s
<1>10. Time(s) = Time(m) /\ SameDevices(s, m)
  BY <1>7, <1>9 DEF Time, SameDevices
<1>11. Based(s)
  BY <1>6, <1>9 DEF Based, EarlierOf
<1>12. Current(s, Slack) /\ Counter(s, loaded)
  <2>1. DueAt(s) = DueAt(m)
    BY <1>10, DueSame DEF SameDevices
  <2> QED
    BY <1>2, <1>9, <1>10, <2>1, Zenon DEF Current, Counter, SameDevices
<1>13. LateIn(s)
  <2>1. Time(m) < 0 + Longest + (IF m.i THEN EntryClocks ELSE 0)
    BY <1>1 DEF HesInv, FrameInv
  <2>2. Longest \in Nat /\ EntryClocks \in Nat
    BY LongestInstruction, Constants
  <2>3. Time(m) < duration + Longest + (IF m.i THEN EntryClocks ELSE 0)
    BY <1>3, <2>1, <2>2
  <2> QED
    BY <1>9, <1>10, <2>3 DEF LateIn
<1>14. TypeOK'
  BY <1>1, <1>2, <1>5, <1>9 DEF TypeOK
<1>15. FrameInv'
  BY <1>1, <1>5, <1>9, <1>13, Zenon DEF FrameInv, LateIn
<1>16. BaseCorrect'
  BY <1>5, <1>11, Zenon DEF BaseCorrect, Based
<1>17. IrqTimeCurrent'
  BY <1>1, <1>5, <1>12, Zenon DEF IrqTimeCurrent, Current, Slack
<1>18. CounterInv'
  BY <1>1, <1>5, <1>12, Zenon DEF CounterInv, Counter
<1> QED
  BY <1>14, <1>15, <1>16, <1>17, <1>18 DEF HesInv

LEMMA OutOfClocksKeeps ==
    ASSUME HesInv, OutOfClocks
    PROVE  HesInv' /\ \/ running' /\ m'.i /\ m'.end_time = m'.base
                      \/ ~running' /\ Time(m') \in 0..(Longest + EntryClocks - 1)
<1>1. running
  BY DEF OutOfClocks, Interrupt, Return, OutOfTime
<1>2. PICK k \in {0, 1} : k = Slack
  BY DEF Slack
<1>3. /\ m \in Machine /\ Working(m, k, loaded) /\ loaded \in Int /\ LateIn(m)
      /\ before \in {"cli", "other"}
  BY <1>1, <1>2, HesInvIs DEF LateIn
<1>4. \/ before = "other" /\ k = 0
      \/ before = "cli" /\ k \in {0, 1}
  BY <1>2, <1>3 DEF Slack
<1>5. PICK l \in Int : l = loaded
  BY <1>3
<1>6. CASE Interrupt(m)
  BY <1>3, <1>5, <1>6, InterruptKeeps
<1>7. CASE Return(m)
  <2>1. running' = FALSE
    BY <1>7 DEF Return
  <2> QED
    BY <1>3, <1>4, <1>5, <1>7, <2>1, ReturnKeeps
<1> QED
  BY <1>6, <1>7 DEF OutOfClocks

LEMMA IdleKeeps ==
    ASSUME HesInv, Idle
    PROVE  HesInv' /\ \/ running' /\ m'.i /\ m'.end_time = m'.base
                      \/ ~running' /\ Time(m') \in 0..(Longest + EntryClocks - 1)
<1> DEFINE s == AtIdle(m)
<1>1. running /\ m.s_time < 0 /\ (Interrupt(s) \/ Return(s))
  BY DEF Idle, Interrupt, Return, OutOfTime
<1>2. loaded \in Int /\ before \in {"cli", "other"}
  BY <1>1, HesInvIs
<1>3. Working(s, 0, loaded) /\ LateIn(s)
  BY <1>1, AtIdleKeeps
<1> HIDE DEF s
<1>4. s \in Machine
  BY <1>3 DEF Working
<1>5. PICK l \in Int : l = loaded
  BY <1>2
<1>6. CASE Interrupt(s)
  BY <1>3, <1>4, <1>5, <1>6, InterruptKeeps
<1>7. CASE Return(s)
  <2>1. running' = FALSE
    BY <1>7 DEF Return
  <2> QED
    BY <1>2, <1>3, <1>4, <1>5, <1>7, <2>1, ReturnKeeps
<1> QED
  BY <1>1, <1>6, <1>7

-----------------------------------------------------------------------------
(***************************************************************************)
(* The theorems.                                                           *)
(***************************************************************************)
LEMMA StepKeeps == HesInv /\ [Next]_vars => HesInv'
<1> SUFFICES ASSUME HesInv, [Next]_vars PROVE HesInv'
  OBVIOUS
<1>1. CASE start_track
  BY <1>1, StartTrackKeeps
<1>2. CASE run_clocks
  BY <1>2, RunClocksKeeps
<1>3. CASE Op
  BY <1>3, OpKeeps
<1>4. CASE CLI
  BY <1>4, CLIKeeps
<1>5. CASE SEI
  BY <1>5, SEIKeeps
<1>6. CASE RTI
  BY <1>6, RTIKeeps
<1>7. CASE BRK
  BY <1>7, BRKKeeps
<1>8. CASE WriteLoad
  BY <1>8, WriteLoadKeeps
<1>9. CASE WriteEnable
  BY <1>9, WriteEnableKeeps
<1>10. CASE WriteDisables
  BY <1>10, WriteDisablesKeeps
<1>11. CASE Acknowledge
  BY <1>11, AcknowledgeKeeps
<1>12. CASE WriteControl
  BY <1>12, WriteControlKeeps
<1>13. CASE ReadVdp
  BY <1>13, ReadVdpKeeps
<1>14. CASE ReadTimer
  BY <1>14, ReadTimerKeeps
<1>15. CASE Idle
  BY <1>15, IdleKeeps
<1>16. CASE OutOfClocks
  BY <1>16, OutOfClocksKeeps
<1>17. CASE WriteOther
  BY <1>17, WriteOtherKeeps
<1>18. CASE UNCHANGED vars
  BY <1>18 DEF vars, HesInv, TypeOK, FrameInv, BaseCorrect, IrqTimeCurrent, CounterInv
<1> QED
  BY <1>1, <1>2, <1>3, <1>4, <1>5, <1>6, <1>7, <1>8, <1>9, <1>10, <1>11, <1>12, <1>13,
     <1>14, <1>15, <1>16, <1>17, <1>18 DEF Next, Step

\* The base that the CPU measures its time against is the one its loop expects
\* and irq_time is that of the first line due, whatever sequence of flags,
\* accesses, interrupts and frames came before: no access that should have
\* moved them forgets to.
THEOREM InterruptsInvariant == Spec => []HesInv
<1>1. Init => HesInv
  BY HesInit
<1>2. HesInv /\ [Next]_vars => HesInv'
  BY StepKeeps
<1> QED
  BY <1>1, <1>2, PTL DEF Spec

\* In any state of the invariant the timer's interrupt is scheduled for the end
\* of the period that runs, or was postponed and is at most a period away.
LEMMA PeriodsAreExact == HesInv => TimerExact
<1> SUFFICES ASSUME HesInv, running, m.irq_timer \in (Time(m) + 1)..(Future - 1)
             PROVE  IF m.postponed THEN m.irq_timer <= Time(m) + m.load
                    ELSE m.irq_timer = Time(m) + m.load - ((Time(m) - loaded) % m.load)
  BY DEF TimerExact, Scheduled, EndOfPeriod
<1> DEFINE now == Time(m)
           a == m.irq_timer
           d == m.load
<1>1. /\ m \in Machine /\ loaded \in Int /\ Counter(m, loaded)
  BY HesInvIs
<1>2. /\ now \in Int /\ a \in Int /\ d \in Nat \ {0} /\ Future \in Nat
      /\ m.last_time \in Int /\ m.count \in Int
  BY <1>1, TimeType, Constants DEF Machine
<1>3. now < a /\ a < Future
  BY <1>2
<1>4. ~(a <= now) /\ a # Future
  BY <1>2, <1>3
<1>5. a <= now + d /\ m.enabled /\ (m.postponed \/ a = m.last_time + m.count)
  BY <1>1, <1>4 DEF Counter
<1>6. CASE m.postponed
  BY <1>5, <1>6
<1>7. CASE ~m.postponed
  <2>1. a = m.last_time + m.count
    BY <1>5, <1>7
  <2>2. PICK l \in Int : l = loaded
    BY <1>1
  <2>3. (a - l) % d = 0
    <3>1. m.last_time + m.count - l = a - l
      BY <1>2, <2>1
    <3> QED
      BY <1>1, <1>5, <2>2, <3>1 DEF Counter
  <2> HIDE DEF now, a, d
  <2>4. a = now + d - ((now - l) % d)
    <3>1. a \in Int /\ l \in Int /\ now \in Int /\ d \in Nat \ {0}
      BY <1>2, <2>2
    <3>2. (a - l) % d = 0 /\ now < a /\ a <= now + d
      BY <1>3, <1>5, <2>3
    <3> QED
      BY <3>1, <3>2, NextPeriod
  <2> QED
    BY <1>7, <2>2, <2>4 DEF now, a, d
<1> QED
  BY <1>6, <1>7

\* The timer keeps its period however often the counter is brought up to date
\* (run_until()) between two loads, and over the ends of frames; a write that
\* does nothing, which in a release build reaches irq_changed() without run_until(),
\* may put it off, never by more than a period from the present, until the next
\* access that brings the counter up to date.
THEOREM TimerKeepsPeriod == Spec => []TimerExact
  BY InterruptsInvariant, PeriodsAreExact, PTL

\* An instruction begins only if nothing is due that it must wait for.
LEMMA BeginsBeforeDue ==
    ASSUME HesInv, running, m.s_time < 0, ~m.i, DueAt(m) <= Time(m)
    PROVE  before = "cli"
<1>1. /\ m \in Machine /\ Based(m) /\ Current(m, Slack) /\ m.end_time \in Frames
  BY HesInvIs DEF Working
<1>2. /\ Time(m) \in Int /\ Time(m) = m.base + m.s_time /\ m.base \in Int /\ m.s_time \in Int
      /\ m.irq_time \in Int /\ m.end_time \in Int /\ DueAt(m) \in Int
  BY <1>1, TimeType, Due DEF Machine
<1>3. m.irq_time <= Time(m) + Slack
  BY <1>1, <1>2 DEF Current
<1>4. m.base <= m.irq_time
  BY <1>1, <1>2 DEF Based, EarlierOf
<1>5. Slack # 0
  BY <1>2, <1>3, <1>4
<1> QED
  BY <1>5 DEF Slack

LEMMA StepIsPrompt ==
    ASSUME HesInv, Next
    PROVE  /\ (running /\ running' /\ Time(m') > Time(m) /\ ~m.i /\ DueAt(m) <= Time(m)) =>
                  before = "cli" \/ (m'.i /\ m'.end_time = m'.base)
           /\ (running /\ ~running') => Time(m') \in 0..(Longest + EntryClocks - 1)
<1>1. CASE start_track \/ run_clocks
  BY <1>1 DEF start_track, run_clocks
<1>2. CASE Idle
  BY <1>2, IdleKeeps, Zenon
<1>3. CASE OutOfClocks
  BY <1>3, OutOfClocksKeeps, Zenon
<1>4. CASE Step /\ ~Idle /\ ~OutOfClocks
  <2>1. running /\ running' = running /\ m.s_time < 0
    BY <1>4 DEF Step, Op, CLI, SEI, RTI, BRK, WriteLoad, WriteEnable, WriteDisables,
                Acknowledge, WriteControl, ReadVdp, ReadTimer, WriteOther, Access, Begins,
                Executed
  <2> QED
    BY <2>1, BeginsBeforeDue
<1> QED
  BY <1>1, <1>2, <1>3, <1>4 DEF Next

\* No interrupt is entered late and no frame ends late: with interrupts enabled,
\* time passes beyond a due interrupt only by entering it, but for the one
\* instruction after CLI; run_clocks() returns at most an instruction and the
\* entry of an interrupt after the time asked for.
THEOREM InterruptsArePrompt == Spec => Prompt
<1>1. HesInv /\ [Next]_vars =>
        [/\ (running /\ running' /\ Time(m') > Time(m) /\ ~m.i /\ DueAt(m) <= Time(m)) =>
                before = "cli" \/ (m'.i /\ m'.end_time = m'.base)
         /\ (running /\ ~running') => Time(m') \in 0..(Longest + EntryClocks - 1)]_vars
  BY StepIsPrompt
<1> QED
  BY <1>1, InterruptsInvariant, PTL DEF Spec, Prompt
=============================================================================
