--------------------------- MODULE FmStreamProofs ---------------------------
(***************************************************************************)
(* Theorems about FmStream: for every ratio, tempo and size of frame, and  *)
(* for clients that ask for any amount at any time, a frame always fits,   *)
(* and the log and the client's samples never drift apart.                 *)
(***************************************************************************)
EXTENDS FmStream, FiniteSetTheorems, WellFoundedInduction, TLAPS

-----------------------------------------------------------------------------
(***************************************************************************)
(* Arithmetic.                                                             *)
(***************************************************************************)

LEMMA Division ==
    ASSUME NEW a \in Int, NEW d \in Nat \ {0}
    PROVE  /\ a \div d \in Int /\ a % d \in 0..d - 1
           /\ a = d * (a \div d) + (a % d)
  OBVIOUS

LEMMA DivisionIs ==
    ASSUME NEW a \in Int, NEW d \in Nat \ {0},
           NEW b \in Int, NEW r \in 0..d - 1, a = d * b + r
    PROVE  a \div d = b /\ a % d = r
  OBVIOUS

LEMMA DivisionMonotonic ==
    ASSUME NEW a \in Int, NEW b \in Int, NEW d \in Nat \ {0}, a <= b
    PROVE  a \div d <= b \div d
  OBVIOUS

LEMMA ProductMonotonic ==
    ASSUME NEW a \in Int, NEW b \in Int, NEW d \in Nat, a <= b
    PROVE  a * d <= b * d
  OBVIOUS

\* Products that the provers are to take for numbers.
LEMMA Distributes ==
    ASSUME NEW a \in Int, NEW b \in Int, NEW c \in Int
    PROVE  /\ a * b \in Int /\ a * b = b * a
           /\ (a + b) * c = a * c + b * c
           /\ (a - b) * c = a * c - b * c
           /\ (a * b) * c = a * (b * c)
  OBVIOUS

LEMMA MaxOfTwo ==
    ASSUME NEW a \in Int, NEW b \in Int
    PROVE  Max({a, b}) = IF a >= b THEN a ELSE b
  BY DEF Max

LEMMA MinOfTwo ==
    ASSUME NEW a \in Int, NEW b \in Int
    PROVE  Min({a, b}) = IF a <= b THEN a ELSE b
  BY DEF Min

\* A set that has 0 and with every number the next has all.
LEMMA Counting ==
    ASSUME NEW S \in SUBSET Nat, 0 \in S, \A n \in S : n + 1 \in S
    PROVE  \A n \in Nat : n \in S
<1> SUFFICES ASSUME Nat \ S # {} PROVE FALSE
  OBVIOUS
<1>1. PICK first \in Nat \ S :
        \A t \in Nat \ S : ~(<<t, first>> \in OpToRel(<, Nat))
  BY WFMin, NatLessThanWellFounded
<1>2. /\ first \in Nat \ {0} /\ first - 1 \in Nat
      /\ first - 1 < first /\ (first - 1) + 1 = first
  OBVIOUS
<1>3. first - 1 \in Nat \ S
  BY <1>2
<1>4. <<first - 1, first>> \in {ss \in Nat \X Nat : ss[1] < ss[2]}
  BY <1>2
<1> QED
  BY <1>1, <1>3, <1>4 DEF OpToRel

\* A set of numbers with a bound has a least element, and Min is it.
LEMMA MinOfSet ==
    ASSUME NEW S \in SUBSET Nat, S # {}
    PROVE  Min(S) \in S /\ \A i \in S : Min(S) <= i
<1>1. PICK least \in S : \A t \in S : ~(<<t, least>> \in OpToRel(<, Nat))
  BY WFMin, NatLessThanWellFounded
<1>2. \A t \in S : least <= t
  <2> SUFFICES ASSUME NEW t \in S, t < least PROVE FALSE
    OBVIOUS
  <2>1. <<t, least>> \in {ss \in Nat \X Nat : ss[1] < ss[2]}
    OBVIOUS
  <2> QED
    BY <1>1, <2>1 DEF OpToRel
<1> QED
  BY <1>2 DEF Min

-----------------------------------------------------------------------------
(***************************************************************************)
(* The resampler, in closed form.  At position x it has taken the whole    *)
(* part of x * f / q pairs in addition to the x * step.                    *)
(***************************************************************************)
f == ratio[1] % ratio[2]
Extra(x) == (x * f) \div ratio[2]

\* A position of the resampler.
RatioOK == /\ ratio[1] \in Nat \ {0} /\ ratio[2] \in Nat \ {0}
           /\ ratio[1] >= ratio[2]

LEMMA StepType ==
    ASSUME RatioOK
    PROVE  /\ step \in Nat \ {0} /\ f \in 0..ratio[2] - 1
           /\ ratio[1] = ratio[2] * step + f
<1>1. /\ step \in Int /\ f \in 0..ratio[2] - 1
      /\ ratio[1] = ratio[2] * step + f
  <2>1. ratio[1] \in Int /\ ratio[2] \in Nat \ {0}
    BY DEF RatioOK
  <2> QED
    BY <2>1, Division DEF step, f
<1>2. step \in Nat \ {0}
  <2> SUFFICES ASSUME step <= 0 PROVE FALSE
    BY <1>1
  <2>1. ratio[2] * step <= 0
    BY <1>1 DEF RatioOK
  <2> QED
    BY <1>1, <2>1 DEF RatioOK
<1> QED
  BY <1>1, <1>2

\* From one position to the next a pair more is taken, or none.
LEMMA ExtraStep ==
    ASSUME RatioOK, NEW x \in Nat
    PROVE  /\ Extra(x) \in Nat
           /\ Extra(x + 1) = Extra(x) \/ Extra(x + 1) = Extra(x) + 1
<1> DEFINE y == x * f
           a == y \div ratio[2]
           r == y % ratio[2]
<1>1. ratio[2] \in Nat \ {0} /\ f \in 0..ratio[2] - 1
  BY StepType DEF RatioOK
<1>2. y \in Nat /\ y \in Int /\ (x + 1) * f = y + f
  BY <1>1
<1> HIDE DEF y
<1>3. a \in Int /\ r \in 0..ratio[2] - 1 /\ y = ratio[2] * a + r
  BY <1>1, <1>2, Division
<1> HIDE DEF a, r
<1> Extra(x) = a
  BY DEF Extra, a, y
<1>4. a \in Nat
  <2> SUFFICES ASSUME a <= -1 PROVE FALSE
    BY <1>3
  <2>1. ratio[2] * a <= -ratio[2]
    BY <1>1, <1>3
  <2> QED
    BY <1>1, <1>2, <1>3, <2>1
<1>5. CASE r + f < ratio[2]
  <2>1. /\ (x + 1) * f = ratio[2] * a + (r + f)
        /\ r + f \in 0..ratio[2] - 1 /\ (x + 1) * f \in Int
    BY <1>1, <1>2, <1>3, <1>5
  <2>2. Extra(x + 1) = a
    BY <1>1, <1>3, <2>1, DivisionIs DEF Extra
  <2> QED
    BY <1>4, <2>2
<1>6. CASE r + f >= ratio[2]
  <2> DEFINE rest == (r + f) - ratio[2]
  <2>1. rest \in 0..ratio[2] - 1 /\ r + f = ratio[2] + rest
    BY <1>1, <1>3, <1>6
  <2> HIDE DEF rest
  <2>2. /\ ratio[2] * (a + 1) = ratio[2] * a + ratio[2]
        /\ ratio[2] * a \in Int /\ a + 1 \in Int
    BY <1>1, <1>3
  <2>3. (x + 1) * f = ratio[2] * (a + 1) + rest /\ (x + 1) * f \in Int
    BY <1>1, <1>2, <1>3, <2>1, <2>2
  <2>4. Extra(x + 1) = a + 1
    BY <1>1, <2>1, <2>2, <2>3, DivisionIs DEF Extra
  <2> QED
    BY <1>4, <2>4
<1> QED
  BY <1>1, <1>3, <1>5, <1>6

\* A cycle takes f pairs more, wherever it begins.
LEMMA ExtraPeriod ==
    ASSUME RatioOK, NEW k \in Nat, NEW m \in Nat
    PROVE  /\ Extra(ratio[2] * k + m) = k * f + Extra(m)
           /\ ((ratio[2] * k + m) * f) % ratio[2] = (m * f) % ratio[2]
<1> DEFINE y == m * f
           a == y \div ratio[2]
           r == y % ratio[2]
           x == ratio[2] * k + m
<1>1. ratio[2] \in Nat \ {0} /\ f \in 0..ratio[2] - 1 /\ f \in Nat
  BY StepType DEF RatioOK
<1>2. y \in Int
  BY <1>1
<1> HIDE DEF y
<1>3. a \in Int /\ r \in 0..ratio[2] - 1 /\ y = ratio[2] * a + r
  BY <1>1, <1>2, Division
<1> HIDE DEF a, r
<1>4. x \in Nat /\ x * f = ratio[2] * (k * f) + y
  <2>1. ratio[2] * k \in Nat
    BY <1>1
  <2>2. (ratio[2] * k + m) * f = (ratio[2] * k) * f + m * f
    BY <1>1, <2>1, Distributes
  <2>3. (ratio[2] * k) * f = ratio[2] * (k * f)
    BY <1>1, Distributes
  <2> QED
    BY <2>1, <2>2, <2>3 DEF y
<1> HIDE DEF x
<1>5. x * f = ratio[2] * (k * f + a) + r /\ k * f + a \in Int /\ x * f \in Int
  BY <1>1, <1>3, <1>4
<1>6. (x * f) \div ratio[2] = k * f + a /\ (x * f) % ratio[2] = r
  <2> DEFINE z == x * f
             b == k * f + a
  <2>1. /\ z = ratio[2] * b + r /\ b \in Int /\ z \in Int
        /\ ratio[2] \in Nat \ {0} /\ r \in 0..ratio[2] - 1
    BY <1>1, <1>3, <1>5
  <2> HIDE DEF z, b
  <2>2. z \div ratio[2] = b /\ z % ratio[2] = r
    BY <2>1, DivisionIs
  <2> QED
    BY <2>2 DEF z, b
<1> QED
  BY <1>6 DEF Extra, a, r, x, y

\* skip_bits has the positions in the cycle at which a pair more is taken.
LEMMA BitIs ==
    ASSUME RatioOK, NEW x \in Nat
    PROVE  x % ratio[2] \in SkipBits <=> Extra(x + 1) = Extra(x) + 1
<1> DEFINE m == x % ratio[2]
           k == x \div ratio[2]
<1>1. /\ ratio[2] \in Nat \ {0} /\ k \in Nat /\ m \in 0..ratio[2] - 1
      /\ x = ratio[2] * k + m /\ f \in Nat
  <2>1. /\ ratio[2] \in Nat \ {0} /\ k \in Int /\ m \in 0..ratio[2] - 1
        /\ x = ratio[2] * k + m /\ f \in Nat
    <3>1. /\ ratio[2] \in Nat \ {0} /\ x \in Int /\ f \in Nat
      BY StepType DEF RatioOK
    <3> QED
      BY <3>1, Division
  <2> HIDE DEF m, k
  <2>2. k >= 0
    <3> SUFFICES ASSUME k <= -1 PROVE FALSE
      BY <2>1
    <3>1. ratio[2] * k <= -ratio[2]
      BY <2>1
    <3> QED
      BY <2>1, <3>1
  <2> QED
    BY <2>1, <2>2
<1>2. m \in SkipBits <=> Extra(m) < Extra(m + 1)
  BY <1>1 DEF SkipBits, Extra, f
<1> HIDE DEF m, k
<1>3. x + 1 = ratio[2] * k + (m + 1) /\ m \in Nat /\ m + 1 \in Nat
  BY <1>1
<1>4. Extra(x) = k * f + Extra(m) /\ Extra(x + 1) = k * f + Extra(m + 1)
  BY <1>1, <1>3, ExtraPeriod
<1>5. /\ Extra(m) \in Nat /\ k * f \in Nat
      /\ Extra(m + 1) = Extra(m) \/ Extra(m + 1) = Extra(m) + 1
  BY <1>1, <1>3, ExtraStep
<1> QED
  BY <1>2, <1>4, <1>5 DEF m

Bits(n) == {i \in 0..n - 1 : (phase + i) % ratio[2] \in SkipBits}

LEMMA BitsAre ==
    ASSUME RatioOK, phase \in Nat
    PROVE  \A n \in Nat : /\ IsFiniteSet(Bits(n))
                          /\ Cardinality(Bits(n))
                               = Extra(phase + n) - Extra(phase)
<1> DEFINE Good(n) == /\ IsFiniteSet(Bits(n))
                      /\ Cardinality(Bits(n)) = Extra(phase + n) - Extra(phase)
           S == {n \in Nat : Good(n)}
<1>1. 0 \in S
  <2>1. Bits(0) = {}
    BY DEF Bits
  <2>2. IsFiniteSet(Bits(0)) /\ Cardinality(Bits(0)) = 0
    BY <2>1, FS_EmptySet
  <2>3. Extra(phase) \in Nat /\ phase + 0 = phase
    BY ExtraStep
  <2> QED
    BY <2>2, <2>3
<1>2. ASSUME NEW n \in S PROVE n + 1 \in S
  <2>1. /\ n \in Nat /\ IsFiniteSet(Bits(n)) /\ phase + n \in Nat
        /\ Cardinality(Bits(n)) = Extra(phase + n) - Extra(phase)
        /\ (phase + n) + 1 = phase + (n + 1) /\ n + 1 \in Nat
    OBVIOUS
  <2>2. /\ Extra(phase + n) \in Nat /\ Extra(phase) \in Nat
        /\ \/ Extra(phase + (n + 1)) = Extra(phase + n)
           \/ Extra(phase + (n + 1)) = Extra(phase + n) + 1
        /\ (phase + n) % ratio[2] \in SkipBits
             <=> Extra(phase + (n + 1)) = Extra(phase + n) + 1
    <3>1. /\ Extra(phase + n) \in Nat
          /\ \/ Extra((phase + n) + 1) = Extra(phase + n)
             \/ Extra((phase + n) + 1) = Extra(phase + n) + 1
          /\ (phase + n) % ratio[2] \in SkipBits
               <=> Extra((phase + n) + 1) = Extra(phase + n) + 1
      BY <2>1, ExtraStep, BitIs
    <3>2. Extra(phase) \in Nat
      BY ExtraStep
    <3> QED
      BY <2>1, <3>1, <3>2, Zenon
  <2>3. CASE (phase + n) % ratio[2] \in SkipBits
    <3>1. Bits(n + 1) = Bits(n) \cup {n} /\ n \notin Bits(n)
      BY <2>1, <2>3 DEF Bits
    <3>2. /\ IsFiniteSet(Bits(n + 1))
          /\ Cardinality(Bits(n + 1)) = Cardinality(Bits(n)) + 1
      BY <2>1, <3>1, FS_AddElement
    <3> QED
      BY <2>1, <2>2, <2>3, <3>2
  <2>4. CASE (phase + n) % ratio[2] \notin SkipBits
    <3>1. Bits(n + 1) = Bits(n)
      BY <2>1, <2>4 DEF Bits
    <3> QED
      BY <2>1, <2>2, <2>4, <3>1
  <2> QED
    BY <2>3, <2>4
<1>3. S \in SUBSET Nat
  OBVIOUS
<1> HIDE DEF S
<1>4. \A n \in Nat : n \in S
  BY <1>1, <1>2, <1>3, Counting
<1> QED
  BY <1>4 DEF S

LEMMA ConsumedIs ==
    ASSUME RatioOK, phase \in Nat, NEW n \in Nat
    PROVE  Consumed(n) = (n * step) + (Extra(phase + n) - Extra(phase))
  BY BitsAre DEF Consumed, Bits

\* The part of an input pair, in q-ths, that a position is past the last one.
Rest(x) == (x * f) % ratio[2]

LEMMA RestIs ==
    ASSUME RatioOK, NEW x \in Nat
    PROVE  /\ Rest(x) \in 0..ratio[2] - 1 /\ Extra(x) \in Int
           /\ x * f \in Int
           /\ x * f = (ratio[2] * Extra(x)) + Rest(x)
<1> DEFINE y == x * f
<1>1. ratio[2] \in Nat \ {0} /\ f \in Nat
  BY StepType DEF RatioOK
<1>2. y \in Int
  BY <1>1
<1> HIDE DEF y
<1>3. /\ y \div ratio[2] \in Int /\ y % ratio[2] \in 0..ratio[2] - 1
      /\ y = ratio[2] * (y \div ratio[2]) + (y % ratio[2])
  BY <1>1, <1>2, Division
<1> QED
  BY <1>2, <1>3 DEF y, Rest, Extra

\* Fir_Resampler::read(), which goes by `step' and a bit of skip_bits at each
\* pair, advances by n * p / q in n pairs, up to the fractions at its ends.
THEOREM ConsumedExact ==
    ASSUME RatioOK, phase \in Nat, NEW n \in Nat
    PROVE  /\ Consumed(n) \in Int
           /\ ratio[2] * Consumed(n)
                = ((n * ratio[1]) - Rest(phase + n)) + Rest(phase)
<1> DEFINE q == ratio[2]
           p == ratio[1]
           e1 == Extra(phase + n)
           e0 == Extra(phase)
           r1 == Rest(phase + n)
           r0 == Rest(phase)
           c == Consumed(n)
<1>1. /\ q \in Nat \ {0} /\ p \in Nat /\ step \in Nat /\ f \in Nat
      /\ p = q * step + f
  BY StepType DEF RatioOK
<1>2. /\ e1 \in Int /\ r1 \in 0..q - 1 /\ (phase + n) * f = (q * e1) + r1
      /\ e0 \in Int /\ r0 \in 0..q - 1 /\ phase * f = (q * e0) + r0
  <2>1. phase + n \in Nat
    OBVIOUS
  <2> QED
    BY <2>1, RestIs
<1>3. c = (n * step) + (e1 - e0)
  BY ConsumedIs
<1> HIDE DEF q, p, e1, e0, r1, r0, c
<1>4. c \in Int
  BY <1>1, <1>2, <1>3
<1>5. q * c = (q * (n * step)) + ((q * e1) - (q * e0))
  BY <1>1, <1>2, <1>3
<1>6. (phase + n) * f = (phase * f) + (n * f)
  BY <1>1
<1>7. n * p = (n * (q * step)) + (n * f)
  BY <1>1
<1>8. n * (q * step) = q * (n * step) /\ n * (q * step) \in Int
  BY <1>1
<1>9. /\ q * e1 \in Int /\ q * e0 \in Int /\ n * f \in Int /\ phase * f \in Int
      /\ q * (n * step) \in Int
  BY <1>1, <1>2
<1>10. q * c = ((n * p) - r1) + r0
  <2> HIDE <1>1, <1>4
  <2> QED
    BY <1>2, <1>5, <1>6, <1>7, <1>8, <1>9
<1> QED
  BY <1>4, <1>10 DEF q, p, c, r1, r0

\* So it is one of two numbers.
LEMMA ConsumedBounds ==
    ASSUME RatioOK, phase \in Nat, NEW n \in Nat
    PROVE  /\ (n * ratio[1]) \div ratio[2] \in Nat
           /\ \/ Consumed(n) = (n * ratio[1]) \div ratio[2]
              \/ Consumed(n) = (n * ratio[1]) \div ratio[2] + 1
<1> DEFINE q == ratio[2]
           y == n * ratio[1]
           w == y \div q
           r == y % q
           r1 == Rest(phase + n)
           r0 == Rest(phase)
           c == Consumed(n)
<1>1. q \in Nat \ {0} /\ y \in Nat
  BY DEF RatioOK
<1>2. w \in Int /\ r \in 0..q - 1 /\ y = q * w + r
  <2> HIDE DEF y, q
  <2>1. y \in Int
    BY <1>1
  <2> QED
    BY <1>1, <2>1, Division
<1>3. c \in Int /\ q * c = (y - r1) + r0
  BY ConsumedExact
<1>4. r1 \in 0..q - 1 /\ r0 \in 0..q - 1
  <2>1. phase + n \in Nat
    OBVIOUS
  <2> QED
    BY <2>1, RestIs
<1> HIDE DEF q, y, w, r, r1, r0, c
<1>5. w \in Nat
  <2> SUFFICES ASSUME w <= -1 PROVE FALSE
    BY <1>2
  <2>1. q * w <= -q
    BY <1>1, <1>2
  <2> QED
    BY <1>1, <1>2, <2>1
<1>6. q * (c - w) = (r - r1) + r0
  <2>1. q * (c - w) = (q * c) - (q * w) /\ q * c \in Int /\ q * w \in Int
    BY <1>1, <1>2, <1>3
  <2> QED
    BY <1>1, <1>2, <1>3, <1>4, <2>1
<1>7. c - w > -1
  <2> SUFFICES ASSUME c - w <= -1 PROVE FALSE
    BY <1>2, <1>3
  <2>1. q * (c - w) <= -q
    BY <1>1, <1>2, <1>3
  <2> QED
    BY <1>1, <1>2, <1>4, <1>6, <2>1
<1>8. c - w < 2
  <2> SUFFICES ASSUME c - w >= 2 PROVE FALSE
    BY <1>2, <1>3
  <2>1. q * (c - w) >= 2 * q
    BY <1>1, <1>2, <1>3
  <2> QED
    BY <1>1, <1>2, <1>4, <1>6, <2>1
<1> QED
  BY <1>2, <1>3, <1>5, <1>7, <1>8 DEF w, y, q, c

\* A frame of size pairs is read whole when what a frame wants is there.
LEMMA ReadsAll ==
    ASSUME RatioOK, phase \in Nat, size \in Nat \ {0}, NEW w \in Int,
           oversamples_per_frame <= w
    PROVE  ReadCount(size, w) = size
<1> DEFINE S == {0} \cup {k \in 1..size : Consumed(k - 1) + 1 <= w}
           m == size - 1
<1>1. Consumed(size) <= oversamples_per_frame /\ oversamples_per_frame \in Nat
  BY ConsumedBounds DEF oversamples_per_frame
<1>2. Consumed(m) + 1 <= Consumed(size) /\ Consumed(m) \in Int
  <2>1. m \in Nat /\ m + 1 = size /\ phase + m \in Nat
        /\ (phase + m) + 1 = phase + size
    OBVIOUS
  <2> HIDE DEF m
  <2>2. /\ Extra((phase + m) + 1) >= Extra(phase + m)
        /\ Extra(phase + m) \in Nat /\ Extra((phase + m) + 1) \in Nat
        /\ Extra(phase) \in Nat
    BY <2>1, ExtraStep
  <2>3. /\ Consumed(m) = (m * step) + (Extra(phase + m) - Extra(phase))
        /\ Consumed(size) = (size * step) + (Extra(phase + size) - Extra(phase))
    BY <2>1, ConsumedIs
  <2>4. size * step = m * step + step /\ step >= 1 /\ m * step \in Nat
        /\ step \in Nat
    BY <2>1, StepType
  <2> QED
    <3> DEFINE e2 == Extra(phase + size)
               e1 == Extra(phase + m)
               e0 == Extra(phase)
    <3>1. Extra((phase + m) + 1) = e2
      BY <2>1
    <3>2. e2 >= e1 /\ e1 \in Nat /\ e2 \in Nat /\ e0 \in Nat
      BY <2>2, <3>1
    <3>3. /\ Consumed(m) = (m * step) + (e1 - e0)
          /\ Consumed(size) = (size * step) + (e2 - e0)
      BY <2>3
    <3> HIDE DEF e2, e1, e0
    <3> QED
      BY <2>4, <3>2, <3>3
<1>3. Consumed(size) \in Int /\ size \in Nat
  BY ConsumedExact
<1>4. Consumed(size - 1) + 1 <= w
  BY <1>1, <1>2, <1>3
<1>5. size \in S /\ \A k \in S : k <= size
  BY <1>4
<1>6. S \subseteq Int
  OBVIOUS
<1> HIDE DEF S
<1>7. Max(S) = size
  <2>1. \A k \in S : (\A i \in S : k >= i) <=> k = size
    BY <1>5, <1>6
  <2> QED
    BY <1>5, <2>1 DEF Max
<1> QED
  BY <1>7 DEF ReadCount, S

-----------------------------------------------------------------------------
(***************************************************************************)
(* The ticks of a frame.                                                   *)
(***************************************************************************)

LEMMA QuotientAtLeast ==
    ASSUME NEW a \in Int, NEW d \in Nat \ {0}, NEW m \in Int
    PROVE  a \div d >= m <=> a >= m * d
<1> DEFINE b == a \div d
           r == a % d
<1>1. b \in Int /\ r \in 0..d - 1 /\ a = d * b + r
  BY Division
<1> HIDE DEF b, r
<1>2. ASSUME b >= m PROVE a >= m * d
  <2>1. d * b >= m * d
    BY <1>1, <1>2
  <2> QED
    BY <1>1, <2>1
<1>3. ASSUME a >= m * d, b <= m - 1 PROVE FALSE
  <2>1. d * b <= d * (m - 1) /\ d * (m - 1) = m * d - d
    BY <1>1, <1>3
  <2> QED
    BY <1>1, <1>3, <2>1
<1>4. a >= m * d => b >= m
  BY <1>1, <1>3
<1> QED
  BY <1>2, <1>4 DEF b

\* Room in a clock's numbers: what the constants and the state are like.
ClockOK == /\ One \in Nat \ {0} /\ tempo.fm \in Nat \ {0}
           /\ fm_time_offset \in 0..One - 1

\* A frame's ticks are at least one, give the pairs it needs, and a tick less
\* would not.
LEMMA EndTimeIs ==
    ASSUME ClockOK, min_pairs \in Nat \ {0}
    PROVE  /\ EndTime \in Nat \ {0}
           /\ to_fm_time(EndTime) \in Nat
           /\ to_fm_time(EndTime) >= min_pairs
           /\ (to_fm_time(EndTime) - min_pairs) * One < tempo.fm
<1> DEFINE fm == tempo.fm
           off == fm_time_offset
           mp == min_pairs
           t0 == (mp * One) \div fm - 1
           r0 == (mp * One) % fm
           x(i) == (t0 + i) * fm + off
           S == {i \in 0..One + 1 : to_fm_time(t0 + i) >= mp}
           m == Min(S)
           end == t0 + m
           n == to_fm_time(end)
           rest == x(m) % One
<1>1. /\ One \in Nat \ {0} /\ fm \in Nat \ {0} /\ off \in 0..One - 1
      /\ mp \in Nat \ {0} /\ mp * One \in Nat /\ mp * One >= One
  <2>1. One \in Nat \ {0} /\ fm \in Nat \ {0} /\ off \in 0..One - 1
    BY DEF ClockOK
  <2>2. mp \in Nat \ {0}
    OBVIOUS
  <2> HIDE DEF mp, fm, off
  <2> QED
    BY <2>1, <2>2
<1>2. t0 \in Int /\ r0 \in 0..fm - 1 /\ mp * One = (t0 + 1) * fm + r0
  <2> DEFINE y == mp * One
             b == y \div fm
  <2>1. y \in Int /\ fm \in Nat \ {0}
    BY <1>1
  <2> HIDE DEF y, fm
  <2>2. b \in Int /\ y % fm \in 0..fm - 1 /\ y = fm * b + (y % fm)
    BY <2>1, Division
  <2> HIDE DEF b
  <2>3. (b - 1) + 1 = b /\ b - 1 \in Int /\ fm * b = b * fm
    BY <2>1, <2>2
  <2> QED
    BY <2>2, <2>3 DEF b, y
<1>3. ASSUME NEW i \in Int
      PROVE  x(i) \in Int /\ (to_fm_time(t0 + i) >= mp <=> x(i) >= mp * One)
  <2>1. x(i) \in Int /\ mp \in Int /\ One \in Nat \ {0}
    <3> HIDE DEF t0, fm, off
    <3> QED
      BY <1>1, <1>2
  <2>2. to_fm_time(t0 + i) = x(i) \div One
    BY DEF to_fm_time
  <2> HIDE DEF x, t0, mp
  <2>3. (x(i) \div One) >= mp <=> x(i) >= mp * One
    BY <2>1, QuotientAtLeast
  <2> QED
    BY <2>1, <2>2, <2>3
<1> EndTime = end
  BY DEF EndTime
<1>4. /\ \A i \in Int : x(i) = t0 * fm + i * fm + off
      /\ t0 * fm \in Int /\ t0 * fm + fm + r0 = mp * One
  <2> HIDE DEF t0, fm, off, r0
  <2> QED
    BY <1>1, <1>2
<1>5. 2 \in S
  <2>1. x(2) = t0 * fm + 2 * fm + off
    BY <1>4
  <2>2. x(2) >= mp * One
    <3> HIDE DEF x, t0, fm, off, r0, mp
    <3>1. 2 * fm = fm + fm
      BY <1>1
    <3> QED
      BY <1>1, <1>2, <1>4, <2>1, <3>1
  <2>3. to_fm_time(t0 + 2) >= mp /\ 2 \in 0..One + 1
    <3> HIDE DEF x, t0, mp
    <3> QED
      BY <1>1, <1>3, <2>2
  <2> QED
    BY <2>3
<1>6. m \in S /\ \A i \in S : m <= i
  <2>1. S \in SUBSET Nat /\ S # {}
    BY <1>5
  <2> HIDE DEF S
  <2> QED
    BY <2>1, MinOfSet
<1>7. m \in 0..One + 1 /\ x(m) >= mp * One /\ x(m) \in Int
  <2>1. m \in 0..One + 1 /\ to_fm_time(t0 + m) >= mp
    BY <1>6
  <2> HIDE DEF x, t0, mp, m
  <2>2. m \in Int
    BY <1>1, <2>1
  <2> QED
    BY <1>3, <2>1, <2>2
<1>8. m > 0 => x(m - 1) < mp * One
  <2> SUFFICES ASSUME m > 0, x(m - 1) >= mp * One PROVE FALSE
    <3>1. m > 0 => m - 1 \in Int
      BY <1>1, <1>7
    <3>2. m > 0 => x(m - 1) \in Int
      BY <1>3, <3>1
    <3> HIDE DEF x, m, mp
    <3> QED
      BY <1>1, <3>2
  <2>1. m - 1 \in Int /\ m - 1 \in 0..One + 1 /\ m - 1 < m
    <3> HIDE DEF m
    <3> QED
      BY <1>1, <1>7
  <2>2. to_fm_time(t0 + (m - 1)) >= mp
    <3> HIDE DEF x, t0, mp, m
    <3> QED
      BY <1>3, <2>1
  <2>3. m - 1 \in S
    BY <2>1, <2>2
  <2>4. m <= m - 1
    BY <1>6, <2>3
  <2> HIDE DEF m
  <2> QED
    BY <1>7, <2>1, <2>4
<1>9. n \in Int /\ n >= mp /\ x(m) = One * n + rest /\ rest \in 0..One - 1
  <2>1. n = x(m) \div One
    BY DEF to_fm_time
  <2>2. n >= mp
    BY <1>6
  <2> HIDE DEF x, n, m, mp
  <2> QED
    BY <1>1, <1>7, <2>1, <2>2, Division
<1>10. x(m) = end * fm + off /\ end \in Int
  <2> HIDE DEF t0, m
  <2> QED
    BY <1>1, <1>2, <1>7
<1>11. end \in Nat \ {0}
  <2> SUFFICES ASSUME end <= 0 PROVE FALSE
    <3> HIDE DEF end
    <3> QED
      BY <1>10
  <2> HIDE DEF end, x, m, fm, off, mp
  <2>1. end * fm <= 0 /\ end * fm \in Int
    BY <1>1, <1>10
  <2> QED
    BY <1>1, <1>7, <1>10, <2>1
<1>12. (n - mp) * One = One * n - mp * One /\ (n - mp) * One \in Int
       /\ One * n \in Int
  <2> HIDE DEF n, mp
  <2> QED
    BY <1>1, <1>9
<1>13. (n - mp) * One < fm
  <2>1. CASE m = 0
    <3>1. x(m) = t0 * fm + off
      <4> HIDE DEF x, t0, m, fm, off
      <4>1. x(m) = t0 * fm + 0 * fm + off /\ 0 * fm = 0
        BY <1>1, <1>4, <2>1
      <4> QED
        BY <1>1, <1>4, <4>1
    <3>2. (n - mp) * One < One
      <4> DEFINE y == mp * One
                 u == t0 * fm
                 v == One * n
                 z == x(m)
      <4>1. /\ y \in Int /\ u \in Int /\ v \in Int /\ z \in Int
            /\ One \in Nat /\ fm \in Nat /\ off \in 0..One - 1 /\ off \in Int
            /\ r0 \in 0..fm - 1 /\ r0 \in Int /\ rest \in Nat
            /\ z = u + off /\ u + fm + r0 = y /\ z = v + rest
            /\ (n - mp) * One = v - y
        <5> HIDE DEF x, n, t0, fm, off, mp, r0, rest, m
        <5> QED
          BY <1>1, <1>2, <1>4, <1>7, <1>9, <1>12, <3>1
      <4> HIDE DEF y, u, v, z, x, n, t0, fm, off, mp, r0, rest
      <4>2. v - y < One
        BY <4>1
      <4> QED
        BY <4>1, <4>2
    <3>3. n - mp <= 0
      <4> HIDE DEF n, mp
      <4> SUFFICES ASSUME n - mp >= 1 PROVE FALSE
        BY <1>1, <1>9
      <4>1. (n - mp) * One >= One
        BY <1>1, <1>9
      <4> QED
        BY <1>1, <1>12, <3>2, <4>1
    <3> HIDE DEF n, mp, fm
    <3>4. n - mp = 0
      BY <1>1, <1>9, <3>3
    <3> QED
      BY <1>1, <3>4
  <2>2. CASE m > 0
    <3>1. m \in Int /\ m - 1 \in Int
      <4> HIDE DEF m
      <4> QED
        BY <1>1, <1>7
    <3>2. /\ x(m) = t0 * fm + m * fm + off
          /\ x(m - 1) = t0 * fm + (m - 1) * fm + off
      <4> HIDE DEF x, t0, m, fm, off
      <4> QED
        BY <1>4, <3>1
    <3>3. m * fm = (m - 1) * fm + fm /\ (m - 1) * fm \in Int
      <4> HIDE DEF m, fm
      <4> QED
        BY <1>1, <3>1
    <3>4. x(m - 1) < mp * One
      BY <1>8, <2>2
    <3> HIDE DEF x, n, t0, m, fm, off, mp, rest
    <3>5. x(m) = x(m - 1) + fm /\ x(m - 1) \in Int
      BY <1>1, <1>4, <3>2, <3>3
    <3> QED
      BY <1>1, <1>9, <1>12, <3>4, <3>5
  <2>3. m \in Int /\ m >= 0
    <3> HIDE DEF m
    <3> QED
      BY <1>1, <1>7
  <2> HIDE DEF m
  <2> QED
    BY <2>1, <2>2, <2>3
<1>14. n \in Nat
  <2> HIDE DEF n, mp
  <2> QED
    BY <1>1, <1>9
<1> QED
  BY <1>9, <1>11, <1>13, <1>14

-----------------------------------------------------------------------------
(***************************************************************************)
(* The room in the resampler.                                              *)
(***************************************************************************)

LEMMA ResIsPositive == \A q \in 1..32 : q \in Nat \ {0}
  OBVIOUS

\* What a state's constants are like.
RatesOK == /\ system \in Systems /\ ratio \in Ratios
           /\ size \in Sizes /\ tempo \in Tempos

LEMMA RatesAre ==
    ASSUME StreamAssumption, RatesOK
    PROVE  /\ RatioOK /\ ratio[1] \in Nat \ {0} /\ ratio[2] \in Nat \ {0}
           /\ size \in Nat \ {0} /\ One \in Nat \ {0}
           /\ tempo.fm \in Nat \ {0} /\ tempo.blip \in Nat \ {0}
           /\ BlipOne \in Nat \ {0} /\ BlipFactor \in Nat \ {0}
           /\ oversamples_per_frame \in Nat \ {0}
           /\ oversamples_per_frame = (size * ratio[1]) \div ratio[2] + 1
           /\ \A t \in Tempos :
                4 * ((t.fm \div One) + 2) <= oversamples_per_frame - 1
<1>1. /\ ratio[1] \in Nat \ {0} /\ ratio[2] \in Nat \ {0}
      /\ ratio[1] >= ratio[2]
  <2>1. \A r \in Ratios :
          r[1] \in Nat \ {0} /\ r[2] \in 1..32 /\ r[1] >= r[2]
    BY DEF StreamAssumption
  <2>2. ratio \in Ratios
    BY DEF RatesOK
  <2>3. ratio[1] \in Nat \ {0} /\ ratio[2] \in 1..32 /\ ratio[1] >= ratio[2]
    BY <2>1, <2>2
  <2> QED
    BY <2>3, ResIsPositive, Zenon
<1>2. /\ size \in Nat \ {0} /\ One \in Nat \ {0}
      /\ tempo.fm \in Nat \ {0} /\ tempo.blip \in Nat \ {0}
      /\ BlipOne \in Nat \ {0} /\ BlipFactor \in Nat \ {0}
  BY DEF StreamAssumption, RatesOK
<1> DEFINE w == (size * ratio[1]) \div ratio[2]
<1>3. \A t \in Tempos : 4 * ((t.fm \div One) + 2) <= w
  BY DEF StreamAssumption, RatesOK
<1>4. w \in Int
  <2> DEFINE y == size * ratio[1]
  <2>1. y \in Int /\ ratio[2] \in Nat \ {0} /\ w = y \div ratio[2]
    BY <1>1, <1>2
  <2> HIDE DEF y, w
  <2>2. y \div ratio[2] \in Int
    BY <2>1, Division
  <2> QED
    BY <2>1, <2>2
<1> HIDE DEF w
<1>5. w \in Nat
  <2> DEFINE k == tempo.fm \div One
  <2>1. k >= 0 /\ k \in Int
    <3>1. /\ tempo.fm \in Int /\ tempo.fm >= 0 * One /\ 0 \in Int
          /\ One \in Nat \ {0}
      BY <1>2
    <3>2. k >= 0 <=> tempo.fm >= 0 * One
      BY <3>1, QuotientAtLeast
    <3>3. k \in Int
      BY <3>1, Division
    <3> QED
      BY <3>1, <3>2, <3>3
  <2>2. 4 * (k + 2) <= w
    BY <1>3 DEF RatesOK
  <2> HIDE DEF k
  <2> QED
    BY <1>4, <2>1, <2>2
<1>6. oversamples_per_frame = w + 1
  BY DEF oversamples_per_frame, w
<1>7. oversamples_per_frame - 1 = w /\ oversamples_per_frame \in Nat \ {0}
  BY <1>5, <1>6
<1>8. RatioOK
  BY <1>1 DEF RatioOK
<1> QED
  BY <1>1, <1>2, <1>3, <1>6, <1>7, <1>8 DEF w

\* What is left in the resampler is less than a fourth of a frame.
LEMMA LittleIsLeft ==
    ASSUME StreamAssumption, RatesOK, written \in Nat,
           \E t \in Tempos : (written - 1) * One < t.fm
    PROVE  /\ 4 * (written + 1) <= oversamples_per_frame - 1
           /\ min_pairs \in Nat \ {0}
           /\ min_pairs = oversamples_per_frame - written
<1>1. PICK t \in Tempos : (written - 1) * One < t.fm
  OBVIOUS
<1> DEFINE k == t.fm \div One
           w == written - 1
           o == oversamples_per_frame
<1>2. t.fm \in Int /\ One \in Nat \ {0} /\ w \in Int /\ w * One < t.fm
  BY <1>1, RatesAre DEF StreamAssumption
<1>3. w * One \in Int
  BY <1>2
<1>4. k >= w /\ k \in Int
  <2> DEFINE e == t.fm
  <2>1. /\ e \in Int /\ One \in Nat \ {0} /\ w \in Int /\ w * One < e
        /\ k = e \div One /\ w * One \in Int
    BY <1>2, <1>3
  <2> HIDE DEF e, w, k
  <2>2. e \div One >= w <=> e >= w * One
    BY <2>1, QuotientAtLeast
  <2>3. e \div One \in Int
    BY <2>1, Division
  <2> QED
    BY <2>1, <2>2, <2>3
<1>5. 4 * (k + 2) <= o - 1 /\ o \in Nat
  BY RatesAre
<1> HIDE DEF k, o
<1>6. 4 * (written + 1) <= o - 1
  BY <1>4, <1>5
<1>7. o - written \in Nat \ {0}
  BY <1>5, <1>6
<1> QED
  BY <1>6, <1>7 DEF o, min_pairs

\* The buffer has a fourth more than two frames' pairs.
LEMMA ResamplerIs ==
    ASSUME StreamAssumption, RatesOK
    PROVE  /\ resampler_size \in Nat
           /\ 2 * resampler_size >= 5 * oversamples_per_frame - 3
<1>1. /\ ratio[1] \in Nat /\ ratio[2] \in Nat \ {0} /\ size \in Nat
      /\ oversamples_per_frame \in Nat \ {0}
      /\ oversamples_per_frame = (size * ratio[1]) \div ratio[2] + 1
  BY RatesAre
<1> DEFINE max == IF system = "vgm" THEN size ELSE Max(Sizes)
           o == oversamples_per_frame
           w == (max * ratio[1]) \div ratio[2]
           most == 2 * w + 2
<1>2. max \in Nat /\ size <= max
  <2>1. PICK top \in Sizes : \A s \in Sizes : s <= top
    BY DEF StreamAssumption
  <2>2. Sizes \subseteq Nat /\ size \in Sizes
    BY DEF StreamAssumption, RatesOK
  <2>3. \A y \in Sizes : top >= y
    BY <2>1, <2>2
  <2>4. Max(Sizes) \in Sizes /\ \A y \in Sizes : Max(Sizes) >= y
    BY <2>3 DEF Max
  <2>5. Max(Sizes) \in Nat /\ size <= Max(Sizes)
    BY <2>2, <2>4
  <2> QED
    BY <1>1, <2>5
<1> HIDE DEF max
<1>3. size * ratio[1] <= max * ratio[1]
  <2> DEFINE p == ratio[1]
  <2>1. p \in Nat /\ size \in Int /\ max \in Int /\ size <= max
    BY <1>1, <1>2
  <2> HIDE DEF p
  <2>2. size * p <= max * p
    BY <2>1, ProductMonotonic
  <2> QED
    BY <2>2 DEF p
<1>4. w \in Int /\ o - 1 <= w
  <2> DEFINE y == size * ratio[1]
             z == max * ratio[1]
  <2>1. /\ y \in Int /\ z \in Int /\ y <= z /\ ratio[2] \in Nat \ {0}
        /\ o = y \div ratio[2] + 1 /\ w = z \div ratio[2]
    BY <1>1, <1>2, <1>3
  <2> HIDE DEF y, z, o, w
  <2>2. /\ y \div ratio[2] <= z \div ratio[2]
        /\ y \div ratio[2] \in Int /\ z \div ratio[2] \in Int
    BY <2>1, DivisionMonotonic, Division
  <2> QED
    BY <2>1, <2>2
<1>5. resampler_size = most + most \div 4
  BY DEF resampler_size, max
<1> HIDE DEF w, o
<1>6. o \in Nat \ {0}
  BY <1>1 DEF o
<1>7. /\ most + most \div 4 \in Nat
      /\ 2 * (most + most \div 4) >= 5 * o - 3
  BY <1>4, <1>6
<1> QED
  BY <1>5, <1>7 DEF o

\* Whatever a frame generates within a tick of what it needs fits.
LEMMA RoomForFrame ==
    ASSUME StreamAssumption, RatesOK, written \in Nat, phase \in Nat,
           \E t \in Tempos : (written - 1) * One < t.fm,
           NEW n \in Nat, n >= min_pairs, (n - min_pairs) * One < tempo.fm
    PROVE  /\ 2 * n < resampler_size /\ 2 * (written + n) <= resampler_size
           /\ ReadCount(size, written + n) = size
<1> DEFINE k == tempo.fm \div One
           o == oversamples_per_frame
           d == n - min_pairs
<1>1. /\ o \in Nat /\ min_pairs = o - written /\ min_pairs \in Nat
      /\ 4 * (written + 1) <= o - 1 /\ One \in Nat \ {0} /\ tempo.fm \in Int
      /\ 4 * (k + 2) <= o - 1 /\ RatioOK /\ size \in Nat \ {0}
  <2>1. tempo \in Tempos
    BY DEF RatesOK
  <2>2. /\ o \in Nat /\ One \in Nat \ {0} /\ tempo.fm \in Int
        /\ RatioOK /\ size \in Nat \ {0}
    BY RatesAre
  <2>3. 4 * (k + 2) <= o - 1
    BY <2>1, RatesAre
  <2>4. /\ min_pairs = o - written /\ min_pairs \in Nat
        /\ 4 * (written + 1) <= o - 1
    BY LittleIsLeft
  <2> QED
    BY <2>2, <2>3, <2>4
<1>2. /\ resampler_size \in Nat /\ 2 * resampler_size >= 5 * o - 3
  BY ResamplerIs
<1>3. d \in Int /\ d * One \in Int /\ d * One <= tempo.fm /\ d >= 0
  <2>1. d \in Int /\ d >= 0 /\ d * One < tempo.fm
    <3> DEFINE m == min_pairs
    <3>1. m \in Nat /\ n \in Nat /\ n >= m /\ (n - m) * One < tempo.fm
      BY <1>1
    <3> HIDE DEF m
    <3>2. n - m \in Int /\ n - m >= 0
      BY <3>1
    <3> QED
      BY <3>1, <3>2, Zenon DEF m
  <2> HIDE DEF d
  <2> DEFINE y == d * One
             e == tempo.fm
  <2>2. y \in Int /\ e \in Int /\ y < e
    BY <1>1, <2>1
  <2> HIDE DEF y, e
  <2>3. y <= e
    BY <2>2
  <2> QED
    BY <2>1, <2>2, <2>3 DEF y, e
<1>4. d <= k /\ k \in Int
  <2> HIDE DEF d
  <2> QED
    BY <1>1, <1>3, QuotientAtLeast, Division
<1> HIDE DEF k
<1>5. written + n = o + d
  BY <1>1
<1>6. /\ 2 * n < resampler_size /\ 2 * (written + n) <= resampler_size
      /\ o <= written + n
  <2> HIDE DEF o, d
  <2> QED
    BY <1>1, <1>2, <1>3, <1>4, <1>5
<1>7. ReadCount(size, written + n) = size
  <2>1. written + n \in Int
    OBVIOUS
  <2> QED
    BY <1>1, <1>6, <2>1, ReadsAll
<1> QED
  BY <1>6, <1>7

-----------------------------------------------------------------------------
(***************************************************************************)
(* The inductive invariant: StreamInv without FrameFits, which follows.    *)
(***************************************************************************)
Core == /\ TypeOK /\ LogInv /\ EverySampleOnce
        /\ FrameInv /\ FmInFrame /\ LeadInv

\* What the steps below take from it.
LEMMA CoreFacts ==
    ASSUME StreamAssumption, Core
    PROVE  /\ RatesOK /\ ClockOK /\ RatioOK
           /\ written \in Nat /\ phase \in 0..ratio[2] - 1 /\ phase \in Nat
           /\ \E t \in Tempos : (written - 1) * One < t.fm
           /\ min_pairs \in Nat \ {0}
           /\ min_pairs = oversamples_per_frame - written
           /\ oversamples_per_frame \in Nat
<1>1. /\ RatesOK /\ written \in Nat /\ phase \in 0..ratio[2] - 1
      /\ \E t \in Tempos : (written - 1) * One < t.fm
      /\ fm_time_offset \in 0..One - 1
  BY DEF Core, TypeOK, FrameInv, RatesOK
<1>2. /\ RatioOK /\ ratio[2] \in Nat \ {0} /\ oversamples_per_frame \in Nat
      /\ One \in Nat \ {0} /\ tempo.fm \in Nat \ {0}
  BY <1>1, RatesAre
<1>3. phase \in Nat
  BY <1>1, <1>2
<1>4. ClockOK
  BY <1>1, <1>2 DEF ClockOK
<1>5. /\ min_pairs \in Nat \ {0}
      /\ min_pairs = oversamples_per_frame - written
  BY <1>1, LittleIsLeft
<1> QED
  BY <1>1, <1>2, <1>3, <1>4, <1>5

LEMMA FrameFitsFollows == StreamAssumption /\ Core => FrameFits
<1> SUFFICES ASSUME StreamAssumption, Core, count > 0,
                    system = "vgm" => in_frame
             PROVE  LET n == IF system = "vgm" THEN pairs ELSE min_pairs
                    IN  /\ 0 <= n /\ 2 * n < resampler_size
                        /\ 2 * (written + n) <= resampler_size
                        /\ ReadCount(size, written + n) = size
  BY Zenon DEF FrameFits
<1> DEFINE n == IF system = "vgm" THEN pairs ELSE min_pairs
<1>1. /\ n \in Nat /\ n >= min_pairs /\ (n - min_pairs) * One < tempo.fm
  <2>1. /\ min_pairs \in Nat /\ One \in Nat /\ tempo.fm \in Nat \ {0}
    BY CoreFacts DEF ClockOK
  <2>2. CASE system = "vgm"
    <3>1. /\ pairs \in Nat /\ pairs >= min_pairs
          /\ (pairs - min_pairs) * One < tempo.fm
      BY <2>2 DEF Core, FrameInv
    <3> QED
      BY <2>2, <3>1
  <2>3. CASE system # "vgm"
    <3>1. (min_pairs - min_pairs) * One = 0
      BY <2>1
    <3>2. n = min_pairs
      BY <2>3
    <3> QED
      BY <2>1, <3>1, <3>2
  <2> QED
    BY <2>2, <2>3
<1> HIDE DEF n
<1>2. /\ 2 * n < resampler_size /\ 2 * (written + n) <= resampler_size
      /\ ReadCount(size, written + n) = size
  BY <1>1, CoreFacts, RoomForFrame
<1>3. 0 <= n
  BY <1>1
<1> QED
  BY <1>2, <1>3 DEF n

\* Facts about the file that is played.
LEMMA LogFacts ==
    ASSUME StreamAssumption, Core
    PROVE  /\ system \in {"vgm", "gym"}
           /\ system = "vgm" =>
                /\ log \in Logs
                /\ Len(log.cmds) \in Nat \ {0}
                /\ log.loop \in 0..Len(log.cmds)
                /\ \A i \in 1..Len(log.cmds) : Delay(log.cmds[i]) \in Nat
                /\ \A i \in 1..Len(log.cmds) - 1 : log.cmds[i][1] # "end"
           /\ system = "gym" =>
                /\ log.frames \in Nat \ {0} /\ log.loop_start \in Nat
<1>1. system \in {"vgm", "gym"}
  BY DEF StreamAssumption, Core, TypeOK
<1>2. log \in IF system = "vgm" THEN Logs ELSE Songs
  BY DEF Core, LogInv
<1>3. ASSUME system = "vgm"
      PROVE  /\ log \in Logs
             /\ Len(log.cmds) \in Nat \ {0}
             /\ log.loop \in 0..Len(log.cmds)
             /\ \A i \in 1..Len(log.cmds) : Delay(log.cmds[i]) \in Nat
             /\ \A i \in 1..Len(log.cmds) - 1 : log.cmds[i][1] # "end"
  <2>1. log \in Logs
    BY <1>2, <1>3
  <2> QED
    BY <2>1, Zenon DEF StreamAssumption
<1>4. ASSUME system = "gym"
      PROVE  log.frames \in Nat \ {0} /\ log.loop_start \in Nat
  <2>1. log \in Songs
    BY <1>2, <1>4
  <2> QED
    BY <2>1, Zenon DEF StreamAssumption
<1> QED
  BY <1>1, <1>3, <1>4

LEMMA CutShortType ==
    ASSUME StreamAssumption, Core, system = "vgm"
    PROVE  CutShort \in Nat
<1>1. /\ Len(log.cmds) \in Nat \ {0}
      /\ \A i \in 1..Len(log.cmds) : Delay(log.cmds[i]) \in Nat
  BY LogFacts
<1>2. Len(log.cmds) \in 1..Len(log.cmds)
  BY <1>1
<1> QED
  BY <1>1, <1>2 DEF CutShort

\* clear() leaves nothing behind.
LEMMA Cleared ==
    ASSUME RatioOK, One \in Int
    PROVE  /\ 0 = ratio[2] * (0 * One + 0)
                    - One * ((0 * (ratio[1] % ratio[2])) % ratio[2])
           /\ 0 \in 0..ratio[2] - 1
<1>1. ratio[2] \in Nat \ {0} /\ f \in Nat
  BY StepType DEF RatioOK
<1>2. 0 * f = 0 /\ 0 % ratio[2] = 0
  BY <1>1
<1>3. 0 * One + 0 = 0 /\ ratio[2] * 0 = 0 /\ One * 0 = 0
  BY <1>1
<1>4. (0 * (ratio[1] % ratio[2])) % ratio[2] = 0
  BY <1>2 DEF f
<1> QED
  BY <1>1, <1>3, <1>4

-----------------------------------------------------------------------------
(***************************************************************************)
(* The end of a frame, for both systems.                                   *)
(***************************************************************************)

\* The Blip_Buffer's frame ends less than a sample past the one asked for.
LEMMA BlipTime ==
    ASSUME StreamAssumption, Core
    PROVE  /\ blip_time \in Int
           /\ offset_ + blip_time * BlipFactor - size * BlipOne
                \in 0..BlipFactor - 1
<1>1. /\ size \in Nat /\ BlipOne \in Nat /\ BlipFactor \in Nat \ {0}
      /\ offset_ \in Int
  <2>1. size \in Nat /\ BlipOne \in Nat /\ BlipFactor \in Nat \ {0}
    BY CoreFacts, RatesAre
  <2>2. offset_ \in 0..BlipFactor
    BY DEF Core, TypeOK
  <2> QED
    BY <2>1, <2>2
<1> DEFINE y == size * BlipOne
           z == (y - offset_) + (BlipFactor - 1)
           b == z \div BlipFactor
           r == z % BlipFactor
<1>2. y \in Int /\ z \in Int
  BY <1>1
<1>3. blip_time = b
  BY DEF blip_time
<1> HIDE DEF y
<1>4. b \in Int /\ r \in 0..BlipFactor - 1 /\ z = BlipFactor * b + r
  <2> HIDE DEF z
  <2> QED
    BY <1>1, <1>2, Division
<1> HIDE DEF b, r
<1>5. BlipFactor * b = b * BlipFactor /\ b * BlipFactor \in Int
  BY <1>1, <1>4
<1>6. offset_ + (b * BlipFactor - y) = (BlipFactor - 1) - r
  BY <1>1, <1>2, <1>4, <1>5
<1>7. offset_ + (b * BlipFactor - y) \in 0..BlipFactor - 1
  BY <1>1, <1>4, <1>6
<1> QED
  BY <1>3, <1>4, <1>7 DEF y

\* What the resampler keeps of n pairs: n is within a tick of what it needs.
LEMMA Keeps ==
    ASSUME StreamAssumption, Core, NEW n \in Nat, n >= min_pairs,
           (n - min_pairs) * One < tempo.fm
    PROVE  LET rest == written + n - Consumed(size)
           IN  rest \in Nat /\ (rest - 1) * One < tempo.fm
<1> DEFINE o == oversamples_per_frame
           d == n - min_pairs
           c == Consumed(size)
           rest == written + n - c
<1>1. /\ o \in Nat /\ min_pairs = o - written /\ written \in Nat
      /\ One \in Nat /\ tempo.fm \in Nat
  BY CoreFacts DEF ClockOK
<1>2. /\ c \in {o - 1, o}
  <2>1. /\ RatioOK /\ phase \in Nat /\ size \in Nat
        /\ o = (size * ratio[1]) \div ratio[2] + 1
    BY CoreFacts, RatesAre
  <2> DEFINE w == (size * ratio[1]) \div ratio[2]
  <2>2. w \in Nat /\ (c = w \/ c = w + 1) /\ o = w + 1
    BY <2>1, ConsumedBounds
  <2> HIDE DEF w, o, c
  <2> QED
    BY <2>2
<1>3. d \in Int /\ d >= 0 /\ d * One < tempo.fm /\ n = d + (o - written)
  BY <1>1
<1> HIDE DEF o, c, d
<1>4. rest = d \/ rest = d + 1
  BY <1>1, <1>2, <1>3
<1> HIDE DEF rest
<1>5. rest \in Nat /\ rest - 1 \in Int /\ rest - 1 <= d
  BY <1>3, <1>4
<1>6. (rest - 1) * One <= d * One /\ (rest - 1) * One \in Int
      /\ d * One \in Int
  BY <1>1, <1>3, <1>5
<1> QED
  BY <1>1, <1>3, <1>5, <1>6 DEF rest, c

\* The lead after a frame of n pairs, and `carry' carried to the next.
LEMMA LeadAfter ==
    ASSUME StreamAssumption, Core, NEW n \in Int, NEW ticks \in Int,
           NEW carry \in Int, n * One + carry = fm_time_offset + ticks
    PROVE  LET rest == written + n - Consumed(size)
               next == (phase + size) % ratio[2]
           IN  /\ next \in 0..ratio[2] - 1
               /\ lead + ratio[2] * ticks - ratio[1] * size * One
                    = ratio[2] * (rest * One + carry)
                      - One * ((next * (ratio[1] % ratio[2])) % ratio[2])
<1> DEFINE q == ratio[2]
           p == ratio[1]
           off == fm_time_offset
           c == Consumed(size)
           rest == written + n - c
           next == (phase + size) % q
           r0 == Rest(phase)
           r1 == Rest(phase + size)
<1>1. /\ q \in Nat \ {0} /\ p \in Nat /\ One \in Nat /\ off \in Int
      /\ written \in Nat /\ phase \in Nat /\ size \in Nat /\ RatioOK
  <2>1. /\ q \in Nat \ {0} /\ p \in Nat /\ One \in Nat /\ size \in Nat
    BY CoreFacts, RatesAre
  <2>2. fm_time_offset \in 0..One - 1
    BY CoreFacts DEF ClockOK
  <2> QED
    BY <2>1, <2>2, CoreFacts
<1>2. next \in 0..q - 1 /\ (next * f) % q = r1
  <2> DEFINE x == phase + size
             k == x \div q
             m == x % q
  <2>1. x \in Nat /\ x \in Int
    BY <1>1
  <2> HIDE DEF x
  <2>2. k \in Int /\ m \in 0..q - 1 /\ x = q * k + m
    BY <1>1, <2>1, Division
  <2> HIDE DEF k, m
  <2>3. k \in Nat /\ m \in Nat
    <3> SUFFICES ASSUME k <= -1 PROVE FALSE
      BY <1>1, <2>2
    <3>1. k \in Int /\ q \in Nat
      BY <1>1, <2>2
    <3>2. q * k <= -q
      <4> HIDE DEF q
      <4>1. k \in Int /\ -1 \in Int /\ q \in Nat /\ k <= -1
        BY <3>1
      <4>2. k * q <= -1 * q
        BY <4>1, ProductMonotonic
      <4>3. q * k = k * q /\ -1 * q = -q
        BY <4>1
      <4> QED
        BY <4>1, <4>2, <4>3
    <3> QED
      BY <1>1, <2>1, <2>2, <3>2
  <2>4. ((q * k + m) * f) % q = (m * f) % q
    BY <1>1, <2>3, ExtraPeriod
  <2>5. (x * f) % q = (m * f) % q
    BY <2>2, <2>4
  <2> QED
    BY <2>2, <2>5 DEF x, m, Rest
<1>3. c \in Int /\ q * c = ((size * p) - r1) + r0
  BY <1>1, ConsumedExact
<1>4. r1 \in Int /\ r0 \in Int
  <2>1. phase + size \in Nat
    BY <1>1
  <2>2. r1 \in 0..q - 1 /\ r0 \in 0..q - 1
    BY <1>1, <2>1, RestIs
  <2> HIDE DEF r1, r0
  <2> QED
    BY <1>1, <2>2
<1>5. lead = q * (written * One + off) - One * r0
  BY DEF Core, LeadInv, Rest, f
<1> HIDE DEF next, r0, r1, q, p, c, off
<1> DEFINE qw == q * (written * One)
           qn == q * (n * One)
           qc == q * (c * One)
           ro == One * r0
           r2 == One * r1
           sp == p * size * One
<1>6. /\ qw \in Int /\ qn \in Int /\ qc \in Int /\ ro \in Int /\ r2 \in Int
      /\ sp \in Int
  BY <1>1, <1>3, <1>4
<1>7. qc = (sp - r2) + ro
  <2>1. qc = One * (q * c)
    BY <1>1, <1>3
  <2>2. One * (((size * p) - r1) + r0) = (One * (size * p) - r2) + ro
    BY <1>1, <1>4
  <2>3. One * (size * p) = sp
    BY <1>1
  <2> QED
    BY <1>3, <2>1, <2>2, <2>3
<1>8. q * (rest * One + carry) = ((qw + qn) - qc) + q * carry
  <2>1. rest \in Int /\ rest * One = (written * One + n * One) - c * One
    BY <1>1, <1>3
  <2> HIDE DEF rest
  <2> DEFINE a1 == written * One
             a2 == n * One
             a3 == c * One
  <2>2. a1 \in Int /\ a2 \in Int /\ a3 \in Int /\ rest * One = (a1 + a2) - a3
    BY <1>1, <1>3, <2>1
  <2>3. qw = q * a1 /\ qn = q * a2 /\ qc = q * a3
    OBVIOUS
  <2> HIDE DEF a1, a2, a3, qw, qn, qc
  <2> QED
    BY <1>1, <2>2, <2>3
<1>9. q * (written * One + off) = qw + q * off
  BY <1>1
<1>10. qn + q * carry = q * off + q * ticks
  <2>1. q * (n * One + carry) = qn + q * carry
    <3> DEFINE a2 == n * One
    <3>1. a2 \in Int
      BY <1>1
    <3> HIDE DEF a2
    <3> QED
      BY <1>1, <3>1 DEF a2
  <2>2. q * (off + ticks) = q * off + q * ticks
    BY <1>1
  <2>3. n * One + carry = off + ticks
    BY DEF off
  <2> QED
    BY <2>1, <2>2, <2>3
<1>11. q * carry \in Int /\ q * off \in Int /\ q * ticks \in Int
  BY <1>1
<1> HIDE DEF rest
<1>12. lead + q * ticks - sp = q * (rest * One + carry) - r2
  <2> DEFINE z == q * (rest * One + carry)
             u == q * carry
             v == q * off
             t == q * ticks
  <2>1. /\ z = ((qw + qn) - qc) + u /\ lead = (qw + v) - ro
        /\ qn + u = v + t /\ qc = (sp - r2) + ro
        /\ u \in Int /\ v \in Int /\ t \in Int
    <3> HIDE DEF qw, qn, qc, ro, r2, sp
    <3>1. z = ((qw + qn) - qc) + u /\ qn + u = v + t
      BY <1>8, <1>10, Zenon
    <3>2. lead = (qw + v) - ro
      BY <1>5, <1>9, Zenon DEF ro
    <3>3. u \in Int /\ v \in Int /\ t \in Int
      BY <1>11, Zenon
    <3> QED
      BY <1>7, <3>1, <3>2, <3>3, Zenon
  <2> HIDE DEF z, u, v, t, qw, qn, qc, ro, r2, sp
  <2>2. lead + t - sp = z - r2
    BY <1>6, <2>1
  <2> QED
    BY <2>2 DEF z, t
<1> QED
  BY <1>2, <1>12 DEF rest, next, q, p, c, r2, sp, f

\* What is handed out, and what is kept for the next request.
LEMMA Delivers ==
    ASSUME StreamAssumption, Core, count > 0, UNCHANGED rateVars,
           NEW n \in Nat, n >= min_pairs, (n - min_pairs) * One < tempo.fm,
           NEW ticks \in Int, Deliver(n, ticks)
    PROVE  /\ written' \in Nat /\ phase' \in 0..ratio[2] - 1
           /\ (written' - 1) * One < tempo.fm
           /\ buf_pos' \in 0..size /\ count' \in Nat /\ owed' \in Nat
           /\ EverySampleOnce' /\ in_frame' = FALSE
           /\ psg_time' \in Nat /\ offset_' \in 0..BlipFactor
           /\ \A carry \in Int : n * One + carry = fm_time_offset + ticks =>
                lead' = ratio[2] * (written' * One + carry)
                        - One * ((phase' * (ratio[1] % ratio[2])) % ratio[2])
<1>1. written' \in Nat /\ (written' - 1) * One < tempo.fm
  <2> DEFINE rest == written + n - Consumed(size)
  <2>1. rest \in Nat /\ (rest - 1) * One < tempo.fm
    BY Keeps
  <2>2. written' = rest
    BY DEF Deliver
  <2> HIDE DEF rest
  <2> QED
    BY <2>1, <2>2
<1>2. phase' \in 0..ratio[2] - 1
  <2>1. n * One + (fm_time_offset + ticks - n * One) = fm_time_offset + ticks
        /\ fm_time_offset + ticks - n * One \in Int
    <3>1. One \in Nat /\ fm_time_offset \in Int
      BY CoreFacts DEF ClockOK
    <3> DEFINE y == n * One
    <3>2. y \in Int
      BY <3>1
    <3> HIDE DEF y
    <3>3. y + (fm_time_offset + ticks - y) = fm_time_offset + ticks
          /\ fm_time_offset + ticks - y \in Int
      BY <3>1, <3>2
    <3> QED
      BY <3>3 DEF y
  <2> DEFINE rest == fm_time_offset + ticks - n * One
  <2>2. rest \in Int /\ n * One + rest = fm_time_offset + ticks /\ n \in Int
    BY <2>1
  <2> HIDE DEF rest
  <2>3. (phase + size) % ratio[2] \in 0..ratio[2] - 1
    BY <2>2, LeadAfter
  <2> QED
    BY <2>3 DEF Deliver
<1>3. ASSUME NEW carry \in Int, n * One + carry = fm_time_offset + ticks
      PROVE  lead' = ratio[2] * (written' * One + carry)
                     - One * ((phase' * (ratio[1] % ratio[2])) % ratio[2])
  <2>1. n \in Int
    OBVIOUS
  <2>2. LET rest == written + n - Consumed(size)
            next == (phase + size) % ratio[2]
        IN  lead + ratio[2] * ticks - ratio[1] * size * One
              = ratio[2] * (rest * One + carry)
                - One * ((next * (ratio[1] % ratio[2])) % ratio[2])
    BY <1>3, <2>1, LeadAfter
  <2> QED
    BY <2>2, Zenon DEF Deliver
<1>4. /\ size \in Nat \ {0} /\ count \in Nat \ {0} /\ owed = 0
      /\ buf_pos = size /\ psg_time \in Nat /\ size' = size
  <2>1. size \in Nat \ {0}
    BY CoreFacts, RatesAre
  <2> QED
    BY <2>1 DEF Core, TypeOK, EverySampleOnce, rateVars
<1>5. /\ buf_pos' \in 0..size /\ count' \in Nat /\ owed' \in Nat
      /\ EverySampleOnce' /\ in_frame' = FALSE
  <2>1. CASE count >= size
    <3>1. /\ count' = count - size /\ buf_pos' = size /\ owed' = 0
          /\ in_frame' = FALSE
      BY <1>4, <2>1 DEF Deliver
    <3>2. count - size \in Nat
      BY <1>4, <2>1
    <3>3. 0 = size - size /\ size \in 0..size
      BY <1>4
    <3>4. EverySampleOnce'
      BY <1>4, <3>1, <3>3 DEF EverySampleOnce
    <3> QED
      BY <3>1, <3>2, <3>3, <3>4
  <2>2. CASE count < size
    <3>1. ~(count >= size)
      BY <1>4, <2>2
    <3>2. /\ buf_pos' = count /\ owed' = owed + size - count /\ count' = 0
          /\ in_frame' = FALSE
      BY <3>1 DEF Deliver, ExtraPos
    <3>3. owed + size - count = size - count /\ size - count \in Nat
          /\ count \in 0..size /\ ~(0 > 0)
      BY <1>4, <2>2
    <3>4. owed' = size' - buf_pos' /\ ~(count' > 0)
      BY <1>4, <3>2, <3>3
    <3>5. EverySampleOnce'
      BY <3>4 DEF EverySampleOnce
    <3> QED
      BY <3>2, <3>3, <3>5
  <2>3. count >= size \/ count < size
    BY <1>4
  <2> QED
    BY <2>1, <2>2, <2>3, Zenon
<1>6. psg_time' \in Nat
  <2>1. /\ psg_time' = Max({psg_time, blip_time}) - blip_time
        /\ blip_time \in Int /\ psg_time \in Int
    BY <1>4, BlipTime DEF Deliver
  <2> DEFINE m == Max({psg_time, blip_time})
  <2>2. m = IF psg_time >= blip_time THEN psg_time ELSE blip_time
    BY <2>1, MaxOfTwo
  <2> HIDE DEF m
  <2>3. m - blip_time \in Nat
    BY <2>1, <2>2
  <2> QED
    BY <2>1, <2>3 DEF m
<1>7. offset_' \in 0..BlipFactor
  <2> DEFINE o == offset_ + blip_time * BlipFactor - size * BlipOne
  <2>1. o \in 0..BlipFactor - 1 /\ BlipFactor \in Nat
    BY BlipTime, CoreFacts, RatesAre
  <2>2. offset_' = o
    BY DEF Deliver
  <2> HIDE DEF o
  <2>3. o \in 0..BlipFactor
    BY <2>1
  <2> QED
    BY <2>2, <2>3
<1> QED
  BY <1>1, <1>2, <1>3, <1>5, <1>6, <1>7

-----------------------------------------------------------------------------
(***************************************************************************)
(* The steps, one by one.                                                  *)
(***************************************************************************)

\* A frame begins with less than an FM pair.
LEMMA ZeroTime ==
    ASSUME One \in Nat \ {0}, NEW fm \in Nat, NEW off \in 0..One - 1
    PROVE  (0 * fm + off) \div One = 0
<1>1. off = One * 0 + off /\ 0 * fm + off = off /\ off \in Int
  OBVIOUS
<1>2. off \div One = 0
  BY <1>1, DivisionIs
<1> QED
  BY <1>1, <1>2

LEMMA InitCore == StreamAssumption /\ Init => Core
<1> SUFFICES ASSUME StreamAssumption, Init PROVE Core
  OBVIOUS
<1>1. RatesOK
  BY DEF Init, RatesOK
<1>2. /\ RatioOK /\ size \in Nat \ {0} /\ One \in Nat \ {0}
      /\ tempo.fm \in Nat \ {0} /\ BlipFactor \in Nat
  BY <1>1, RatesAre
<1>3. /\ system \in {"vgm", "gym"}
      /\ log \in IF system = "vgm" THEN Logs ELSE Songs
  BY DEF Init, StreamAssumption
<1>4. system = "vgm" => Len(log.cmds) \in Nat \ {0}
  <2> SUFFICES ASSUME system = "vgm" PROVE Len(log.cmds) \in Nat \ {0}
    OBVIOUS
  <2>1. log \in Logs
    BY <1>3
  <2> QED
    BY <2>1, Zenon DEF StreamAssumption
<1>5. system = "gym" => log.loop_start \in Nat
  <2> SUFFICES ASSUME system = "gym" PROVE log.loop_start \in Nat
    OBVIOUS
  <2>1. log \in Songs
    BY <1>3
  <2> QED
    BY <2>1, Zenon DEF StreamAssumption
<1>6. 0 = ratio[2] * (0 * One + 0)
            - One * ((0 * (ratio[1] % ratio[2])) % ratio[2])
      /\ 0 \in 0..ratio[2] - 1
  BY <1>2, Cleared
<1>7. TypeOK
  <2>1. loop_remain \in Nat
    BY <1>5, <1>3 DEF Init
  <2>2. /\ size \in 0..size /\ 0 \in 0..One - 1 /\ 0 \in 0..BlipFactor
        /\ 0 \in Nat /\ 0 \in Int /\ 1 \in Nat \ {0} /\ FALSE \in BOOLEAN
    BY <1>2
  <2> QED
    BY <1>1, <1>6, <2>1, <2>2, Zenon DEF Init, TypeOK, RatesOK
<1>8. LogInv
  <2>1. system = "vgm" => ~(pos > Len(log.cmds)) /\ ~ended
    BY <1>4 DEF Init
  <2>2. system = "gym" /\ log.loop_start \in 1..log.frames =>
          ~ended /\ loop_remain > 0 /\ pos = log.loop_start - loop_remain + 1
    BY <1>5 DEF Init
  <2> QED
    BY <1>3, <2>1, <2>2, Zenon DEF LogInv
<1>9. EverySampleOnce
  BY <1>2 DEF Init, EverySampleOnce
<1>10. FrameInv
  <2>1. (written - 1) * One < tempo.fm
    <3>1. written = 0
      BY DEF Init
    <3> QED
      BY <1>2, <3>1
  <2>2. tempo \in Tempos /\ pairs \in Nat /\ ~in_frame
    BY <1>1 DEF Init, RatesOK
  <2> QED
    BY <2>1, <2>2 DEF FrameInv
<1>11. FmInFrame
  <2>1. (0 * tempo.fm + 0) \div One = 0
    BY <1>2, ZeroTime
  <2> QED
    BY <2>1 DEF Init, FmInFrame, to_fm_time
<1>12. LeadInv
  BY <1>6 DEF Init, LeadInv
<1> QED
  BY <1>7, <1>8, <1>9, <1>10, <1>11, <1>12 DEF Core

LEMMA StartCore ==
    ASSUME StreamAssumption, Core, StartTrack
    PROVE  Core'
<1>1. /\ RatesOK /\ RatioOK /\ size \in Nat \ {0} /\ One \in Nat \ {0}
      /\ tempo.fm \in Nat \ {0} /\ BlipFactor \in Nat
  BY CoreFacts, RatesAre
<1>2. /\ system \in {"vgm", "gym"}
      /\ system = "vgm" => Len(log.cmds) \in Nat \ {0}
      /\ system = "gym" => log.loop_start \in Nat
  BY LogFacts
<1>3. /\ system' = system /\ ratio' = ratio /\ size' = size /\ tempo' = tempo
      /\ log' = log /\ loop_begin' = loop_begin /\ count' = count /\ count = 0
      /\ in_frame' = in_frame /\ pairs' = pairs /\ end_time' = end_time
      /\ last_time' = last_time
  BY DEF StartTrack, rateVars, frameVars
<1>4. /\ pos' = 1 /\ vgm_time' = 0 /\ fm_time_offset' = 0 /\ ended' = FALSE
      /\ psg_time' = 0 /\ offset_' = 0 /\ buf_pos' = size /\ written' = 0
      /\ phase' = 0 /\ owed' = 0 /\ lead' = 0
      /\ loop_remain' = IF system = "gym" THEN log.loop_start ELSE 0
  BY DEF StartTrack, clear
<1>5. 0 = ratio[2] * (0 * One + 0)
            - One * ((0 * (ratio[1] % ratio[2])) % ratio[2])
      /\ 0 \in 0..ratio[2] - 1
  BY <1>1, Cleared
<1>6. ~in_frame /\ pairs \in Nat /\ (system = "vgm" => last_time <= pairs)
  BY <1>3 DEF Core, FrameInv, FmInFrame
<1>7. TypeOK'
  <2>1. loop_remain' \in Nat
    BY <1>2, <1>4
  <2>2. /\ size \in 0..size /\ 0 \in 0..One - 1 /\ 0 \in 0..BlipFactor
        /\ 0 \in Nat /\ 0 \in Int /\ 1 \in Nat \ {0} /\ FALSE \in BOOLEAN
    BY <1>1
  <2>3. /\ system \in Systems /\ ratio \in Ratios
        /\ size \in Sizes /\ tempo \in Tempos
        /\ loop_begin \in Nat /\ count \in Nat /\ in_frame \in BOOLEAN
        /\ pairs \in Int /\ end_time \in Int /\ last_time \in Nat
    BY Zenon DEF Core, TypeOK
  <2> QED
    BY <1>3, <1>4, <1>5, <2>1, <2>2, <2>3, Zenon DEF TypeOK
<1>8. LogInv'
  <2>1. system = "vgm" => ~(1 > Len(log.cmds))
    BY <1>2
  <2>2. system = "gym" /\ log.loop_start \in 1..log.frames =>
          /\ log.loop_start > 0 /\ 1 = log.loop_start - log.loop_start + 1
    BY <1>2
  <2>3. system = "gym" => loop_remain' = log.loop_start
    BY <1>4
  <2>4. log \in IF system = "vgm" THEN Logs ELSE Songs
    BY DEF Core, LogInv
  <2>5. log' \in IF system' = "vgm" THEN Logs ELSE Songs
    BY <1>3, <2>4, Zenon
  <2>6. system' = "vgm" => ~(pos' > Len(log'.cmds)) /\ ~ended'
    BY <1>3, <1>4, <2>1, Zenon
  <2>7. system' = "gym" /\ log'.loop_start \in 1..log'.frames =>
          /\ ~ended' /\ loop_remain' > 0
          /\ pos' = log'.loop_start - loop_remain' + 1
    BY <1>3, <1>4, <2>2, <2>3, Zenon
  <2> QED
    BY <2>5, <2>6, <2>7, Zenon DEF LogInv
<1>9. EverySampleOnce'
  <2>1. 0 = size - size /\ ~(0 > 0)
    BY <1>1
  <2> QED
    BY <1>3, <1>4, <2>1, Zenon DEF EverySampleOnce
<1>10. FrameInv'
  <2>1. (0 - 1) * One < tempo.fm
    BY <1>1
  <2>2. tempo \in Tempos
    BY DEF Core, TypeOK
  <2> QED
    BY <1>3, <1>4, <1>6, <2>1, <2>2, Zenon DEF FrameInv
<1>11. FmInFrame'
  <2>1. (0 * tempo.fm + 0) \div One = 0
    BY <1>1, ZeroTime
  <2>2. pairs >= 0
    BY <1>6
  <2> QED
    BY <1>3, <1>4, <1>6, <2>1, <2>2, Zenon DEF FmInFrame, to_fm_time
<1>12. LeadInv'
  BY <1>3, <1>4, <1>5, Zenon DEF LeadInv
<1> QED
  BY <1>7, <1>8, <1>9, <1>10, <1>11, <1>12 DEF Core

\* A change of tempo between two calls.
LEMMA TempoCore ==
    ASSUME StreamAssumption, Core, SetTempo
    PROVE  Core'
<1>1. /\ RatesOK /\ RatioOK /\ size \in Nat \ {0} /\ One \in Nat \ {0}
      /\ fm_time_offset \in 0..One - 1
  BY CoreFacts, RatesAre DEF ClockOK
<1>2. /\ system' = system /\ ratio' = ratio /\ log' = log /\ pos' = pos
      /\ loop_remain' = loop_remain /\ loop_begin' = loop_begin
      /\ vgm_time' = vgm_time /\ fm_time_offset' = fm_time_offset
      /\ ended' = ended /\ count' = count /\ count = 0
      /\ in_frame' = in_frame /\ pairs' = pairs /\ end_time' = end_time
      /\ last_time' = last_time /\ psg_time' = psg_time /\ offset_' = offset_
  BY DEF SetTempo, songVars, frameVars, psgVars
<1>3. ~in_frame /\ pairs \in Nat /\ (system = "vgm" => last_time <= pairs)
  BY <1>2 DEF Core, FrameInv, FmInFrame
<1>4. LogInv'
  <2>1. LogInv
    BY DEF Core
  <2>2. CutShort' = CutShort /\ Closed(log)' = Closed(log)
    BY <1>2 DEF CutShort, Closed
  <2> QED
    BY <1>2, <1>3, <2>1, <2>2, Zenon DEF LogInv
<1>5. tempo' \in Tempos
  <2>1. tempo \in Tempos
    BY DEF Core, TypeOK
  <2> QED
    BY <2>1 DEF SetTempo
<1>6. FmInFrame'
  <2>1. tempo'.fm \in Nat
    <3>1. \A t \in Tempos : t.fm \in Nat
      BY DEF StreamAssumption
    <3> QED
      BY <1>5, <3>1
  <2>2. (0 * tempo'.fm + fm_time_offset) \div One = 0
    BY <1>1, <2>1, ZeroTime
  <2>3. pairs >= 0
    BY <1>3
  <2> QED
    BY <1>2, <1>3, <2>2, <2>3, Zenon DEF FmInFrame, to_fm_time
<1>7. /\ system \in Systems /\ ratio \in Ratios
      /\ pos \in Nat \ {0} /\ loop_remain \in Nat /\ loop_begin \in Nat
      /\ vgm_time \in Int /\ fm_time_offset \in 0..One - 1
      /\ ended \in BOOLEAN /\ count \in Nat /\ in_frame \in BOOLEAN
      /\ pairs \in Int /\ end_time \in Int /\ last_time \in Nat
      /\ psg_time \in Nat /\ offset_ \in 0..BlipFactor
  BY Zenon DEF Core, TypeOK
<1>8. CASE system = "vgm"
  <2>1. /\ size' = size /\ written' = written /\ phase' = phase
        /\ buf_pos' = buf_pos /\ owed' = owed /\ lead' = lead
    BY <1>8 DEF SetTempo, firVars
  <2>2. /\ size \in Sizes /\ written \in Nat /\ phase \in 0..ratio[2] - 1
        /\ buf_pos \in 0..size /\ owed \in Nat /\ lead \in Int
        /\ EverySampleOnce /\ FrameInv /\ LeadInv
    BY Zenon DEF Core, TypeOK
  <2>3. TypeOK'
    BY <1>2, <1>5, <1>7, <2>1, <2>2, Zenon DEF TypeOK
  <2>4. EverySampleOnce' /\ LeadInv' /\ FrameInv'
    BY <1>2, <1>3, <2>1, <2>2, Zenon DEF EverySampleOnce, LeadInv, FrameInv
  <2> QED
    BY <1>4, <1>6, <2>3, <2>4 DEF Core
<1>9. CASE system # "vgm"
  <2>1. /\ size' \in Sizes /\ tempo' = tempo /\ buf_pos' = size'
        /\ written' = 0 /\ phase' = 0 /\ owed' = 0 /\ lead' = 0
    BY <1>9 DEF SetTempo, clear
  <2>2. size' \in Nat
    BY <2>1 DEF StreamAssumption
  <2>3. 0 = ratio[2] * (0 * One + 0)
            - One * ((0 * (ratio[1] % ratio[2])) % ratio[2])
        /\ 0 \in 0..ratio[2] - 1
    BY <1>1, Cleared
  <2>4. fm_time_offset = 0
    <3>1. system = "gym"
      BY <1>9, LogFacts
    <3> QED
      BY <3>1 DEF Core, LeadInv
  <2>5. TypeOK'
    <3>1. \A s \in Nat : s \in 0..s
      OBVIOUS
    <3>2. 0 \in Nat /\ 0 \in Int
      OBVIOUS
    <3> QED
      BY <1>2, <1>5, <1>7, <2>1, <2>2, <2>3, <3>1, <3>2, Zenon DEF TypeOK
  <2>6. EverySampleOnce'
    <3>1. \A s \in Nat : 0 = s - s
      OBVIOUS
    <3>2. ~(0 > 0)
      OBVIOUS
    <3> QED
      BY <1>2, <2>1, <2>2, <3>1, <3>2, Zenon DEF EverySampleOnce
  <2>7. FrameInv'
    <3>1. (0 - 1) * One < tempo.fm
      BY <1>1, RatesAre
    <3> QED
      BY <1>2, <1>3, <1>5, <2>1, <3>1, Zenon DEF FrameInv
  <2>8. LeadInv'
    BY <1>2, <2>1, <2>3, <2>4, Zenon DEF LeadInv
  <2> QED
    BY <1>4, <1>6, <2>5, <2>6, <2>7, <2>8 DEF Core
<1> QED
  BY <1>8, <1>9

\* The client's request.
LEMMA DualPlayCore ==
    ASSUME StreamAssumption, Core, NEW n \in Requests, DualPlay(n)
    PROVE  Core'
<1>1. n \in Nat \ {0} /\ size \in Nat \ {0}
  <2>1. n \in Nat \ {0}
    BY DEF StreamAssumption
  <2> QED
    BY <2>1, CoreFacts, RatesAre
<1>2. /\ system' = system /\ ratio' = ratio /\ size' = size /\ tempo' = tempo
      /\ written' = written /\ phase' = phase /\ log' = log /\ pos' = pos
      /\ loop_remain' = loop_remain /\ loop_begin' = loop_begin
      /\ vgm_time' = vgm_time /\ fm_time_offset' = fm_time_offset
      /\ ended' = ended /\ in_frame' = in_frame /\ pairs' = pairs
      /\ end_time' = end_time /\ last_time' = last_time
      /\ psg_time' = psg_time /\ offset_' = offset_ /\ lead' = lead
      /\ count = 0
  BY DEF DualPlay, rateVars, firVars, songVars, frameVars, psgVars
<1>3. /\ TypeOK /\ LogInv /\ FrameInv /\ FmInFrame /\ LeadInv
  BY DEF Core
<1>4. ~in_frame
  BY <1>2, <1>3 DEF FrameInv
<1>5. buf_pos \in 0..size /\ owed = size - buf_pos
  BY <1>2 DEF Core, TypeOK, EverySampleOnce
<1> DEFINE k == FromBuffer(n)
<1>6. k = IF size - buf_pos <= n THEN size - buf_pos ELSE n
  <2> DEFINE a == size - buf_pos
  <2>1. a \in Int /\ n \in Int
    BY <1>1, <1>5
  <2>2. k = Min({a, n})
    BY DEF FromBuffer
  <2> HIDE DEF a, k
  <2>3. k = IF a <= n THEN a ELSE n
    BY <2>1, <2>2, MinOfTwo
  <2> QED
    BY <2>3 DEF a
<1>7. count' = n - k /\ buf_pos' = buf_pos + k /\ owed' = owed - k
  BY DEF DualPlay
<1> HIDE DEF k
<1>8. /\ n - k \in Nat /\ buf_pos + k \in 0..size /\ owed - k \in Nat
      /\ owed - k = size - (buf_pos + k)
      /\ n - k > 0 => owed - k = 0 /\ buf_pos + k = size
  BY <1>1, <1>5, <1>6
<1>9. TypeOK'
  BY <1>2, <1>3, <1>7, <1>8, Zenon DEF TypeOK
<1>10. LogInv'
  <2>1. CutShort' = CutShort /\ Closed(log)' = Closed(log)
    BY <1>2 DEF CutShort, Closed
  <2> QED
    BY <1>2, <1>3, <2>1, Zenon DEF LogInv
<1>11. EverySampleOnce'
  BY <1>2, <1>7, <1>8, Zenon DEF EverySampleOnce
<1>12. FrameInv' /\ LeadInv'
  BY <1>2, <1>3, <1>4, Zenon DEF FrameInv, LeadInv
<1>13. FmInFrame'
  BY <1>2, <1>3, Zenon DEF FmInFrame, to_fm_time
<1> QED
  BY <1>9, <1>10, <1>11, <1>12, <1>13 DEF Core

\* The beginning of a VGM frame: its ticks, and the FM pairs they give.
LEMMA BeginCore ==
    ASSUME StreamAssumption, Core, VgmBeginFrame
    PROVE  Core'
<1>1. /\ ClockOK /\ min_pairs \in Nat \ {0} /\ One \in Nat \ {0}
      /\ tempo.fm \in Nat \ {0} /\ fm_time_offset \in 0..One - 1
  BY CoreFacts DEF ClockOK
<1>2. /\ system' = system /\ ratio' = ratio /\ size' = size /\ tempo' = tempo
      /\ written' = written /\ phase' = phase /\ log' = log /\ pos' = pos
      /\ loop_remain' = loop_remain /\ loop_begin' = loop_begin
      /\ vgm_time' = vgm_time /\ fm_time_offset' = fm_time_offset
      /\ buf_pos' = buf_pos /\ count' = count /\ owed' = owed
      /\ psg_time' = psg_time /\ offset_' = offset_ /\ lead' = lead
      /\ count > 0 /\ system = "vgm" /\ ~in_frame
  BY DEF VgmBeginFrame, rateVars, firVars, songVars, psgVars
<1>3. /\ in_frame' = TRUE /\ end_time' = EndTime /\ last_time' = 0
      /\ pairs' = to_fm_time(EndTime)
      /\ ended' = (ended \/ pos > Len(log.cmds))
  BY DEF VgmBeginFrame, to_fm_time
<1>4. /\ TypeOK /\ LogInv /\ EverySampleOnce /\ FrameInv /\ LeadInv
  BY DEF Core
<1>5. /\ EndTime \in Nat \ {0}
      /\ to_fm_time(EndTime) \in Nat
      /\ to_fm_time(EndTime) >= min_pairs
      /\ (to_fm_time(EndTime) - min_pairs) * One < tempo.fm
  BY <1>1, EndTimeIs
<1>6. TypeOK'
  <2>1. /\ EndTime \in Int /\ to_fm_time(EndTime) \in Int /\ 0 \in Nat
        /\ TRUE \in BOOLEAN /\ (ended \/ pos > Len(log.cmds)) \in BOOLEAN
    BY <1>5
  <2> QED
    BY <1>2, <1>3, <1>4, <2>1, Zenon DEF TypeOK
<1>7. LogInv'
  <2>1. pos > Len(log.cmds) =>
          (Closed(log) => log.loop = 0) /\ vgm_time < CutShort
    BY <1>2, <1>4 DEF LogInv
  <2>2. vgm_time \in Int /\ CutShort \in Nat
    BY <1>2, <1>4, CutShortType DEF TypeOK, Core
  <2>3. pos > Len(log.cmds) => vgm_time < EndTime + CutShort
    BY <1>5, <2>1, <2>2
  <2>4. ended => pos > Len(log.cmds) /\ vgm_time < CutShort
    BY <1>2, <1>4 DEF LogInv
  <2>5. log \in Logs /\ system # "gym"
    BY <1>2, <1>4 DEF LogInv
  <2>6. CutShort' = CutShort /\ Closed(log)' = Closed(log)
    BY <1>2 DEF CutShort, Closed
  <2>7. ended' => pos > Len(log.cmds)
    BY <1>3, <2>4, Zenon
  <2> QED
    BY <1>2, <1>3, <2>1, <2>3, <2>5, <2>6, <2>7, Zenon DEF LogInv
<1>8. EverySampleOnce' /\ LeadInv'
  BY <1>2, <1>4, Zenon DEF EverySampleOnce, LeadInv
<1>9. FrameInv'
  <2>1. min_pairs' = min_pairs
    BY <1>2 DEF min_pairs, oversamples_per_frame
  <2>2. to_fm_time(end_time)' = to_fm_time(EndTime)
    BY <1>2, <1>3 DEF to_fm_time
  <2> QED
    BY <1>2, <1>3, <1>4, <1>5, <2>1, <2>2, Zenon DEF FrameInv
<1>10. FmInFrame'
  <2>1. to_fm_time(0) = 0
    BY <1>1, ZeroTime DEF to_fm_time
  <2>2. 0 <= to_fm_time(EndTime) /\ to_fm_time(EndTime) >= to_fm_time(0)
    BY <1>5, <2>1
  <2>3. to_fm_time(0)' = to_fm_time(0)
    BY <1>2 DEF to_fm_time
  <2> QED
    BY <1>2, <1>3, <2>2, <2>3, Zenon DEF FmInFrame
<1> QED
  BY <1>6, <1>7, <1>8, <1>9, <1>10 DEF Core

\* One command of the log.
LEMMA RunCore ==
    ASSUME StreamAssumption, Core, RunCommand
    PROVE  Core'
<1> DEFINE cmd == log.cmds[pos]
           last == Max({last_time, to_fm_time(vgm_time)})
           psg == Max({psg_time, to_blip_time(vgm_time)})
<1>1. /\ system' = system /\ ratio' = ratio /\ size' = size /\ tempo' = tempo
      /\ written' = written /\ phase' = phase /\ log' = log
      /\ loop_remain' = loop_remain /\ loop_begin' = loop_begin
      /\ fm_time_offset' = fm_time_offset /\ ended' = ended
      /\ buf_pos' = buf_pos /\ count' = count /\ owed' = owed
      /\ offset_' = offset_ /\ lead' = lead /\ in_frame' = in_frame
      /\ pairs' = pairs /\ end_time' = end_time
      /\ system = "vgm" /\ in_frame /\ MoreCommands
  BY DEF RunCommand, rateVars, firVars, songVars
<1>2. /\ pos' = IF cmd[1] = "end" THEN AfterEnd ELSE pos + 1
      /\ vgm_time' = vgm_time + Delay(cmd)
      /\ last_time' = IF cmd[1] = "fm" THEN last ELSE last_time
      /\ psg_time' = IF cmd[1] = "psg" THEN psg ELSE psg_time
  BY DEF RunCommand
<1>3. /\ TypeOK /\ LogInv /\ EverySampleOnce /\ FrameInv /\ FmInFrame
      /\ LeadInv
  BY DEF Core
<1>4. /\ Len(log.cmds) \in Nat \ {0} /\ log \in Logs
      /\ log.loop \in 0..Len(log.cmds)
      /\ \A i \in 1..Len(log.cmds) : Delay(log.cmds[i]) \in Nat
      /\ \A i \in 1..Len(log.cmds) - 1 : log.cmds[i][1] # "end"
  BY <1>1, LogFacts
<1>5. /\ pos \in Nat \ {0} /\ pos <= Len(log.cmds) /\ vgm_time \in Int
      /\ vgm_time < end_time /\ last_time \in Nat /\ psg_time \in Nat
      /\ end_time \in Nat /\ pairs \in Nat /\ pairs = to_fm_time(end_time)
      /\ last_time <= pairs
  BY <1>1, <1>3 DEF TypeOK, MoreCommands, FrameInv, FmInFrame
<1>6. /\ Delay(cmd) \in Nat /\ pos \in 1..Len(log.cmds)
  <2>1. pos \in 1..Len(log.cmds)
    BY <1>4, <1>5
  <2> QED
    BY <1>4, <2>1
<1>8. /\ One \in Nat \ {0} /\ tempo.fm \in Nat /\ tempo.blip \in Nat
      /\ fm_time_offset \in Nat
  <2>1. /\ One \in Nat \ {0} /\ tempo.fm \in Nat /\ tempo.blip \in Nat
    BY CoreFacts, RatesAre
  <2>2. fm_time_offset \in 0..One - 1
    BY <1>3 DEF TypeOK
  <2> QED
    BY <2>1, <2>2
<1>9. to_fm_time(vgm_time) \in Int /\ to_fm_time(vgm_time) <= pairs
  <2> DEFINE x == vgm_time * tempo.fm + fm_time_offset
             y == end_time * tempo.fm + fm_time_offset
  <2>1. vgm_time * tempo.fm <= end_time * tempo.fm
    <3> DEFINE g == tempo.fm
    <3>1. g \in Nat /\ vgm_time \in Int /\ end_time \in Int
          /\ vgm_time <= end_time
      BY <1>5, <1>8
    <3> HIDE DEF g
    <3>2. vgm_time * g <= end_time * g
      BY <3>1, ProductMonotonic
    <3> QED
      BY <3>2 DEF g
  <2>2. x \in Int /\ y \in Int /\ x <= y
    <3>1. vgm_time * tempo.fm \in Int /\ end_time * tempo.fm \in Int
      BY <1>5, <1>8
    <3> QED
      BY <1>8, <2>1, <3>1
  <2>3. to_fm_time(vgm_time) = x \div One /\ pairs = y \div One
    BY <1>5 DEF to_fm_time
  <2> HIDE DEF x, y
  <2>4. x \div One <= y \div One /\ x \div One \in Int
    BY <1>8, <2>2, DivisionMonotonic, Division
  <2> QED
    BY <2>3, <2>4
<1>10. last \in Nat /\ last <= pairs
  <2> DEFINE b == to_fm_time(vgm_time)
  <2>1. b \in Int /\ b <= pairs /\ last_time \in Int
    BY <1>5, <1>9
  <2> HIDE DEF b
  <2>2. Max({last_time, b}) = IF last_time >= b THEN last_time ELSE b
    BY <2>1, MaxOfTwo
  <2>3. last = IF last_time >= b THEN last_time ELSE b
    BY <2>2 DEF b
  <2> HIDE DEF last
  <2> QED
    BY <1>5, <2>1, <2>3
<1>11. psg \in Nat
  <2> DEFINE b == to_blip_time(vgm_time)
             x == vgm_time * tempo.blip
  <2>1. x \in Int
    BY <1>5, <1>8
  <2>2. b = x \div One
    BY DEF to_blip_time
  <2> HIDE DEF b, x
  <2>3. b \in Int /\ psg_time \in Int
    BY <1>5, <1>8, <2>1, <2>2, Division
  <2>4. Max({psg_time, b}) = IF psg_time >= b THEN psg_time ELSE b
    BY <2>3, MaxOfTwo
  <2>5. psg = IF psg_time >= b THEN psg_time ELSE b
    BY <2>4 DEF b
  <2> HIDE DEF psg
  <2> QED
    BY <1>5, <2>3, <2>5
<1> HIDE DEF last, psg, cmd
<1>12. TypeOK'
  <2>1. vgm_time + Delay(cmd) \in Int
    BY <1>5, <1>6
  <2>2. /\ (IF cmd[1] = "fm" THEN last ELSE last_time) \in Nat
        /\ (IF cmd[1] = "psg" THEN psg ELSE psg_time) \in Nat
    BY <1>5, <1>10, <1>11
  <2>3. (IF cmd[1] = "end" THEN AfterEnd ELSE pos + 1) \in Nat \ {0}
    BY <1>4, <1>5 DEF AfterEnd
  <2> QED
    BY <1>1, <1>2, <1>3, <2>1, <2>2, <2>3, Zenon DEF TypeOK
<1>13. LogInv'
  <2>1. ~ended
    <3>1. ~(pos > Len(log.cmds))
      BY <1>4, <1>5
    <3> QED
      BY <1>1, <1>3, <3>1, Zenon DEF LogInv
  <2> DEFINE next == IF cmd[1] = "end" THEN AfterEnd ELSE pos + 1
             time == vgm_time + Delay(cmd)
  <2>2. next > Len(log.cmds) =>
          (Closed(log) => log.loop = 0) /\ time < end_time + CutShort
    <3>1. pos < Len(log.cmds) => cmd[1] # "end"
      BY <1>4, <1>5 DEF cmd
    <3>2. CASE pos < Len(log.cmds)
      BY <1>4, <1>5, <3>1, <3>2
    <3>3. CASE pos = Len(log.cmds)
      <4>1. Delay(cmd) = CutShort /\ (Closed(log) <=> cmd[1] = "end")
        BY <3>3 DEF cmd, CutShort, Closed
      <4>2. time < end_time + CutShort
        BY <1>5, <1>6, <4>1
      <4>3. cmd[1] = "end" /\ log.loop # 0 => ~(next > Len(log.cmds))
        BY <1>4 DEF AfterEnd
      <4> QED
        BY <4>1, <4>2, <4>3
    <3> QED
      BY <1>4, <1>5, <3>2, <3>3
  <2>3. pos' = next /\ vgm_time' = time /\ system # "gym"
    BY <1>1, <1>2
  <2>4. CutShort' = CutShort /\ Closed(log)' = Closed(log)
    BY <1>1 DEF CutShort, Closed
  <2> HIDE DEF next, time
  <2> QED
    BY <1>1, <1>4, <2>1, <2>2, <2>3, <2>4, Zenon DEF LogInv
<1>14. EverySampleOnce' /\ LeadInv'
  BY <1>1, <1>3, Zenon DEF EverySampleOnce, LeadInv
<1>15. FrameInv'
  BY <1>1, <1>3, Zenon DEF FrameInv, to_fm_time, min_pairs,
     oversamples_per_frame
<1>16. FmInFrame'
  <2>1. (IF cmd[1] = "fm" THEN last ELSE last_time) <= pairs
    BY <1>5, <1>10
  <2>2. to_fm_time(0)' = to_fm_time(0)
    BY <1>1 DEF to_fm_time
  <2> QED
    BY <1>1, <1>2, <1>3, <2>1, <2>2, Zenon DEF FmInFrame
<1> QED
  BY <1>12, <1>13, <1>14, <1>15, <1>16 DEF Core

\* The end of a VGM frame.
LEMMA EndCore ==
    ASSUME StreamAssumption, Core, VgmEndFrame
    PROVE  Core'
<1> DEFINE ticks == end_time * tempo.fm
           rest == ticks + fm_time_offset - pairs * One
<1>1. /\ system' = system /\ ratio' = ratio /\ size' = size /\ tempo' = tempo
      /\ log' = log /\ loop_remain' = loop_remain /\ loop_begin' = loop_begin
      /\ pos' = pos /\ ended' = ended /\ pairs' = pairs
      /\ end_time' = end_time /\ UNCHANGED rateVars
      /\ system = "vgm" /\ in_frame
  BY DEF VgmEndFrame, rateVars, songVars
<1>2. /\ vgm_time' = vgm_time - end_time /\ fm_time_offset' = rest
      /\ last_time' = Max({last_time, pairs}) /\ Deliver(pairs, ticks)
  BY DEF VgmEndFrame, FmOffset
<1>3. /\ TypeOK /\ LogInv /\ FrameInv /\ FmInFrame /\ LeadInv
  BY DEF Core
<1>4. /\ count > 0 /\ end_time \in Nat \ {0} /\ pairs \in Nat
      /\ pairs = to_fm_time(end_time)
      /\ pairs >= min_pairs /\ (pairs - min_pairs) * One < tempo.fm
  BY <1>1, <1>3 DEF FrameInv
<1>5. /\ One \in Nat \ {0} /\ tempo.fm \in Nat \ {0}
      /\ fm_time_offset \in Int /\ ticks \in Int
  <2>1. /\ One \in Nat \ {0} /\ tempo.fm \in Nat \ {0}
        /\ fm_time_offset \in 0..One - 1
    BY CoreFacts DEF ClockOK
  <2> QED
    BY <1>4, <2>1
<1>6. rest \in 0..One - 1 /\ rest \in Int
      /\ pairs * One + rest = fm_time_offset + ticks
  <2> DEFINE x == ticks + fm_time_offset
             r == x % One
  <2>1. x \in Int /\ pairs = x \div One
    BY <1>4, <1>5 DEF to_fm_time
  <2>2. rest = x - pairs * One
    <3> DEFINE y == pairs * One
    <3>1. y \in Int
      BY <1>4, <1>5
    <3> HIDE DEF y, ticks
    <3>2. ticks + fm_time_offset - y = (ticks + fm_time_offset) - y
      BY <1>5, <3>1
    <3> QED
      BY <3>2 DEF y
  <2> HIDE DEF x, rest
  <2>3. r \in 0..One - 1 /\ x = One * pairs + r
    BY <1>5, <2>1, Division
  <2> HIDE DEF r
  <2>4. One * pairs = pairs * One /\ pairs * One \in Int
    BY <1>4, <1>5
  <2>5. rest = r
    BY <1>5, <2>1, <2>2, <2>3, <2>4
  <2>6. x = fm_time_offset + ticks
    <3> HIDE DEF ticks
    <3> QED
      BY <1>5 DEF x
  <2>7. rest \in 0..One - 1 /\ rest \in Int /\ pairs * One + rest = x
    BY <1>5, <2>3, <2>4, <2>5
  <2> QED
    BY <2>6, <2>7
<1> HIDE DEF ticks, rest
<1>7. /\ written' \in Nat /\ phase' \in 0..ratio[2] - 1
      /\ (written' - 1) * One < tempo.fm
      /\ buf_pos' \in 0..size /\ count' \in Nat /\ owed' \in Nat
      /\ EverySampleOnce' /\ in_frame' = FALSE
      /\ psg_time' \in Nat /\ offset_' \in 0..BlipFactor
      /\ \A carry \in Int : pairs * One + carry = fm_time_offset + ticks =>
           lead' = ratio[2] * (written' * One + carry)
                   - One * ((phase' * (ratio[1] % ratio[2])) % ratio[2])
  BY <1>1, <1>2, <1>4, <1>5, Delivers
<1>8. lead' = ratio[2] * (written' * One + rest)
              - One * ((phase' * (ratio[1] % ratio[2])) % ratio[2])
  BY <1>6, <1>7
<1>9. last_time' = pairs
  <2>1. last_time \in Int /\ pairs \in Int /\ last_time <= pairs
    BY <1>1, <1>3, <1>4 DEF TypeOK, FmInFrame
  <2>2. Max({last_time, pairs})
          = IF last_time >= pairs THEN last_time ELSE pairs
    BY <2>1, MaxOfTwo
  <2> QED
    BY <1>2, <2>1, <2>2
<1>10. lead' \in Int
  <2>1. /\ lead' = lead + ratio[2] * ticks - ratio[1] * size * One
    BY <1>2 DEF Deliver
  <2>2. /\ lead \in Int /\ ratio[2] \in Int /\ ratio[1] \in Int
        /\ size \in Int
    <3>1. lead \in Int
      BY <1>3 DEF TypeOK
    <3> QED
      BY <3>1, CoreFacts, RatesAre
  <2> DEFINE l == lead + ratio[2] * ticks - ratio[1] * size * One
  <2>3. l \in Int
    BY <1>5, <2>2
  <2> HIDE DEF l
  <2> QED
    BY <2>1, <2>3 DEF l
<1>11. TypeOK'
  <2>1. vgm_time - end_time \in Int /\ FALSE \in BOOLEAN
    BY <1>3 DEF TypeOK
  <2> QED
    BY <1>1, <1>2, <1>3, <1>4, <1>6, <1>7, <1>9, <1>10, <2>1, Zenon
       DEF TypeOK
<1>12. LogInv'
  <2> DEFINE time == vgm_time - end_time
  <2>1. pos > Len(log.cmds) =>
          (Closed(log) => log.loop = 0) /\ vgm_time < end_time + CutShort
    BY <1>1, <1>3 DEF LogInv
  <2>2. vgm_time \in Int /\ end_time \in Int /\ CutShort \in Nat
    BY <1>1, <1>3, CutShortType DEF TypeOK
  <2>3. pos > Len(log.cmds) => time < CutShort
    BY <2>1, <2>2
  <2>4. (ended => pos > Len(log.cmds)) /\ log \in Logs /\ system # "gym"
    BY <1>1, <1>3 DEF LogInv
  <2>5. CutShort' = CutShort /\ Closed(log)' = Closed(log)
    BY <1>1 DEF CutShort, Closed
  <2>6. vgm_time' = time
    BY <1>2
  <2> HIDE DEF time
  <2> QED
    BY <1>1, <1>7, <2>1, <2>3, <2>4, <2>5, <2>6, Zenon DEF LogInv
<1>13. FrameInv'
  <2>1. tempo \in Tempos
    BY <1>3 DEF TypeOK
  <2> QED
    BY <1>1, <1>4, <1>7, <2>1, Zenon DEF FrameInv
<1>14. FmInFrame'
  <2>1. (0 * tempo.fm + rest) \div One = 0
    BY <1>5, <1>6, ZeroTime
  <2>2. pairs <= pairs /\ pairs >= 0
    BY <1>4
  <2> QED
    BY <1>1, <1>2, <1>9, <2>1, <2>2, Zenon DEF FmInFrame, to_fm_time
<1>15. LeadInv'
  <2>1. system # "gym"
    BY <1>1
  <2> QED
    BY <1>1, <1>2, <1>8, <2>1, Zenon DEF LeadInv
<1> QED
  BY <1>7, <1>11, <1>12, <1>13, <1>14, <1>15 DEF Core

\* A frame of a GYM song.
LEMMA GymCore ==
    ASSUME StreamAssumption, Core, GymFrame
    PROVE  Core'
<1> DEFINE ticks == min_pairs * One
           begin == IF loop_remain = 1 THEN pos ELSE loop_begin
           last == pos = log.frames
<1>1. /\ system' = system /\ ratio' = ratio /\ size' = size /\ tempo' = tempo
      /\ log' = log /\ vgm_time' = vgm_time /\ end_time' = end_time
      /\ fm_time_offset' = fm_time_offset /\ last_time' = last_time
      /\ pairs' = min_pairs /\ UNCHANGED rateVars
      /\ system = "gym" /\ count > 0 /\ Deliver(min_pairs, ticks)
  BY DEF GymFrame, rateVars
<1>2. /\ TypeOK /\ LogInv /\ LeadInv /\ fm_time_offset = 0
  BY <1>1 DEF Core, LeadInv
<1>3. /\ min_pairs \in Nat \ {0} /\ One \in Nat \ {0}
      /\ tempo.fm \in Nat \ {0} /\ tempo \in Tempos
  BY <1>2, CoreFacts DEF ClockOK, TypeOK
<1>4. /\ min_pairs \in Nat /\ ticks \in Int /\ min_pairs >= min_pairs
      /\ (min_pairs - min_pairs) * One < tempo.fm
      /\ min_pairs * One + fm_time_offset = fm_time_offset + ticks
      /\ fm_time_offset \in Int
  <2> DEFINE m == min_pairs
  <2>1. m \in Nat /\ One \in Nat /\ tempo.fm \in Nat \ {0}
    BY <1>3
  <2> HIDE DEF m
  <2>2. m * One \in Int /\ m >= m /\ (m - m) * One < tempo.fm
    BY <2>1
  <2>3. m * One + 0 = 0 + m * One /\ 0 \in Int
    BY <2>2
  <2> QED
    BY <1>2, <2>1, <2>2, <2>3 DEF m
<1> HIDE DEF ticks
<1>5. /\ written' \in Nat /\ phase' \in 0..ratio[2] - 1
      /\ (written' - 1) * One < tempo.fm
      /\ buf_pos' \in 0..size /\ count' \in Nat /\ owed' \in Nat
      /\ EverySampleOnce' /\ in_frame' = FALSE
      /\ psg_time' \in Nat /\ offset_' \in 0..BlipFactor
      /\ \A carry \in Int :
           min_pairs * One + carry = fm_time_offset + ticks =>
             lead' = ratio[2] * (written' * One + carry)
                     - One * ((phase' * (ratio[1] % ratio[2])) % ratio[2])
  BY <1>1, <1>4, Delivers
<1>6. lead' = ratio[2] * (written' * One + fm_time_offset)
              - One * ((phase' * (ratio[1] % ratio[2])) % ratio[2])
  BY <1>4, <1>5
<1>7. lead' \in Int
  <2>1. /\ lead' = lead + ratio[2] * ticks - ratio[1] * size * One
    BY <1>1 DEF Deliver
  <2>2. /\ lead \in Int /\ ratio[2] \in Int /\ ratio[1] \in Int
        /\ size \in Int /\ One \in Int /\ ticks \in Int
    <3>1. lead \in Int
      BY <1>2 DEF TypeOK
    <3> QED
      BY <1>4, <3>1, CoreFacts, RatesAre
  <2> DEFINE l == lead + ratio[2] * ticks - ratio[1] * size * One
  <2>3. l \in Int
    BY <2>2
  <2> HIDE DEF l
  <2> QED
    BY <2>1, <2>3 DEF l
<1>8. /\ loop_remain \in Nat /\ loop_begin \in Nat /\ pos \in Nat \ {0}
      /\ log.frames \in Nat \ {0} /\ log.loop_start \in Nat
  BY <1>1, <1>2, LogFacts DEF TypeOK
<1>9. ASSUME ended PROVE TypeOK' /\ LogInv'
  <2>1. /\ pos' = pos /\ loop_remain' = loop_remain
        /\ loop_begin' = loop_begin /\ ended' = ended
    BY <1>9 DEF GymFrame
  <2>2. TypeOK'
    <3>1. FALSE \in BOOLEAN /\ min_pairs \in Int
      BY <1>4
    <3> QED
      BY <1>1, <1>2, <1>5, <1>7, <2>1, <3>1, Zenon DEF TypeOK
  <2>3. LogInv'
    <3>1. ~(log.loop_start \in 1..log.frames) /\ log \in Songs
      BY <1>1, <1>2, <1>9 DEF LogInv
    <3>2. system # "vgm"
      BY <1>1
    <3> QED
      BY <1>1, <2>1, <3>1, <3>2, Zenon DEF LogInv
  <2> QED
    BY <2>2, <2>3
<1>10. ASSUME ~ended PROVE TypeOK' /\ LogInv'
  <2>1. /\ loop_remain' = IF loop_remain > 0 THEN loop_remain - 1 ELSE 0
        /\ loop_begin' = begin
        /\ pos' = IF last /\ begin # 0 THEN begin ELSE pos + 1
        /\ ended' = (last /\ begin = 0)
    <3>1. parse_frame
      BY <1>10 DEF GymFrame
    <3> QED
      BY <3>1, Zenon DEF parse_frame
  <2>2. /\ (IF loop_remain > 0 THEN loop_remain - 1 ELSE 0) \in Nat
        /\ begin \in Nat
        /\ (IF last /\ begin # 0 THEN begin ELSE pos + 1) \in Nat \ {0}
        /\ (last /\ begin = 0) \in BOOLEAN
    BY <1>8
  <2>3. TypeOK'
    <3>1. FALSE \in BOOLEAN /\ min_pairs \in Int
      BY <1>4
    <3> HIDE DEF begin, last
    <3> QED
      BY <1>1, <1>2, <1>5, <1>7, <2>1, <2>2, <3>1, Zenon DEF TypeOK
  <2>4. LogInv'
    <3>1. log \in Songs /\ system # "vgm"
      BY <1>1, <1>2 DEF LogInv
    <3>2. ASSUME log.loop_start \in 1..log.frames
          PROVE  /\ ~ended'
                 /\ \/ loop_begin' # 0
                    \/ /\ loop_remain' > 0
                       /\ pos' = log.loop_start - loop_remain' + 1
      <4>1. \/ loop_begin # 0
            \/ loop_remain > 0 /\ pos = log.loop_start - loop_remain + 1
        BY <1>1, <1>2, <3>2 DEF LogInv
      <4>2. CASE begin # 0
        BY <2>1, <4>2
      <4>3. CASE begin = 0
        <5>1. /\ loop_begin = 0 /\ loop_remain # 1
          BY <1>8, <4>3
        <5> DEFINE r == loop_remain - 1
        <5>2. /\ loop_remain > 1
              /\ pos = log.loop_start - loop_remain + 1
          BY <1>8, <4>1, <5>1
        <5>3. /\ r > 0 /\ pos # log.frames
              /\ pos + 1 = log.loop_start - r + 1
          BY <1>8, <3>2, <5>2
        <5>4. loop_remain' = r
          BY <1>8, <2>1, <5>2
        <5>5. pos' = pos + 1 /\ ~ended'
          BY <2>1, <5>3, Zenon
        <5> HIDE DEF r
        <5> QED
          BY <5>3, <5>4, <5>5, Zenon
      <4> QED
        BY <4>2, <4>3
    <3> QED
      BY <1>1, <3>1, <3>2, Zenon DEF LogInv
  <2> QED
    BY <2>3, <2>4
<1>11. TypeOK' /\ LogInv'
  BY <1>9, <1>10
<1>12. FrameInv'
  BY <1>1, <1>3, <1>4, <1>5, Zenon DEF FrameInv
<1>13. FmInFrame'
  <2>1. system # "vgm"
    BY <1>1
  <2> QED
    BY <1>1, <2>1, Zenon DEF FmInFrame
<1>14. LeadInv'
  BY <1>1, <1>2, <1>6, Zenon DEF LeadInv
<1> QED
  BY <1>5, <1>11, <1>12, <1>13, <1>14 DEF Core

LEMMA StutterCore == Core /\ UNCHANGED vars => Core'
<1> SUFFICES ASSUME Core, UNCHANGED vars PROVE Core'
  OBVIOUS
<1>1. /\ UNCHANGED rateVars /\ UNCHANGED firVars /\ UNCHANGED songVars
      /\ UNCHANGED frameVars /\ UNCHANGED psgVars
      /\ UNCHANGED <<buf_pos, pos, vgm_time, fm_time_offset, ended, count,
                     in_frame, owed, lead>>
  BY DEF vars
<1> QED
  BY <1>1, Zenon DEF Core, TypeOK, LogInv, EverySampleOnce, FrameInv,
     FmInFrame, LeadInv, min_pairs, oversamples_per_frame, to_fm_time,
     CutShort, Closed, rateVars, firVars, songVars, frameVars, psgVars

LEMMA NextCore == StreamAssumption /\ Core /\ [Next]_vars => Core'
<1> SUFFICES ASSUME StreamAssumption, Core, [Next]_vars PROVE Core'
  OBVIOUS
<1>1. CASE StartTrack
  BY <1>1, StartCore
<1>2. CASE SetTempo
  BY <1>2, TempoCore
<1>3. CASE \E n \in Requests : DualPlay(n)
  BY <1>3, DualPlayCore
<1>4. CASE VgmBeginFrame
  BY <1>4, BeginCore
<1>5. CASE RunCommand
  BY <1>5, RunCore
<1>6. CASE VgmEndFrame
  BY <1>6, EndCore
<1>7. CASE GymFrame
  BY <1>7, GymCore
<1>8. CASE UNCHANGED vars
  BY <1>8, StutterCore
<1> QED
  BY <1>1, <1>2, <1>3, <1>4, <1>5, <1>6, <1>7, <1>8 DEF Next, Step

-----------------------------------------------------------------------------
(***************************************************************************)
(* The theorems.                                                           *)
(***************************************************************************)
LEMMA CoreAlways == Spec => []Core
<1>1. Init => Core
  BY StreamAssumption, InitCore
<1>2. Core /\ [Next]_vars => Core'
  BY StreamAssumption, NextCore
<1> QED
  BY <1>1, <1>2, PTL DEF Spec

\* Whatever the ratio of the resampler, the tempo and the amounts the client
\* asks for, what a frame generates has room in the resampler and what it
\* reads from there is whole (the assertions of play_frame_() and write()),
\* every sample is handed out once, and no FM pair is generated beyond the
\* frame's end.
THEOREM FramesFit == Spec => []StreamInv
<1>1. Core => StreamInv
  BY StreamAssumption, FrameFitsFollows DEF Core, StreamInv
<1> QED
  BY <1>1, CoreAlways, PTL

\* Whatever the file: a track that is closed ends only when its last delay has
\* been played, and never if it loops; of one whose data breaks off, less is
\* left than the delay it breaks off with (cmd_end, the end of the data in
\* run_commands(), and parse_frame() of a file whose loop is in it).
THEOREM TracksEndWhenHeard == Spec => []EndIsHeard
<1>1. Core => EndIsHeard
  <2> SUFFICES ASSUME Core, ended PROVE EndIsHeard
    BY DEF EndIsHeard
  <2>1. LogInv /\ system \in {"vgm", "gym"}
    BY StreamAssumption, LogFacts DEF Core
  <2>2. CASE system = "vgm"
    BY <2>1, <2>2, Zenon DEF LogInv, EndIsHeard
  <2>3. CASE system = "gym"
    <3>1. system # "vgm" /\ ~(log.loop_start \in 1..log.frames)
      BY <2>1, <2>3 DEF LogInv
    <3> QED
      BY <3>1, Zenon DEF EndIsHeard
  <2> QED
    BY <2>1, <2>2, <2>3
<1> QED
  BY <1>1, CoreAlways, PTL

\* The FM chip and the log never fall behind the client's samples, and are
\* ahead of them by less than two pairs and two ticks, for ever: what a frame
\* rounds off is carried to the next.
THEOREM LogKeepsTime == Spec => []InStep
<1>1. Core => InStep
  <2> SUFFICES ASSUME Core PROVE InStep
    OBVIOUS
  <2> DEFINE q == ratio[2]
             off == fm_time_offset
             w == written * One
             top == Max({t.fm : t \in Tempos})
             r == (phase * f) % q
             or == One * r
             qo == q * One
             qw == q * w
             qf == q * off
  <2>1. /\ q \in Nat \ {0} /\ One \in Nat \ {0} /\ off \in 0..One - 1
        /\ written \in Nat /\ tempo.fm \in Nat /\ RatioOK /\ phase \in Nat
    BY StreamAssumption, CoreFacts, RatesAre DEF ClockOK
  <2>2. lead = q * (w + off) - or
    BY DEF Core, LeadInv, f
  <2>3. r \in 0..q - 1
    <3>1. Rest(phase) \in 0..q - 1
      BY <2>1, RestIs
    <3> QED
      BY <3>1 DEF Rest
  <2>4. top \in Nat /\ \A t \in Tempos : t.fm <= top
    <3>1. PICK fastest \in Tempos : \A t \in Tempos : t.fm <= fastest.fm
      BY StreamAssumption DEF StreamAssumption
    <3>2. \A t \in Tempos : t.fm \in Nat
      BY StreamAssumption DEF StreamAssumption
    <3> DEFINE S == {t.fm : t \in Tempos}
    <3>3. fastest.fm \in S /\ \A y \in S : fastest.fm >= y
      BY <3>1, <3>2
    <3>4. S \subseteq Nat
      BY <3>2
    <3>5. \A t \in Tempos : t.fm \in S
      OBVIOUS
    <3> HIDE DEF S
    <3>6. Max(S) \in S /\ \A y \in S : Max(S) >= y
      BY <3>3 DEF Max
    <3>7. Max(S) \in Nat /\ \A t \in Tempos : t.fm <= Max(S)
      BY <3>2, <3>4, <3>5, <3>6
    <3> QED
      BY <3>7 DEF S
  <2>5. w \in Nat /\ w - One < top
    <3>1. PICK t \in Tempos : (written - 1) * One < t.fm
      BY StreamAssumption, CoreFacts
    <3>2. t.fm <= top /\ t.fm \in Nat
      BY StreamAssumption, <2>4 DEF StreamAssumption
    <3>3. (written - 1) * One = w - One /\ w \in Nat
      BY <2>1
    <3> HIDE DEF w, top
    <3> QED
      BY <2>1, <2>4, <3>1, <3>2, <3>3
  <2> HIDE DEF q, off, w, top, r
  <2>6. or \in Nat /\ or < qo
    <3>1. or <= One * (q - 1) /\ One * (q - 1) = qo - One
      BY <2>1, <2>3
    <3>2. or \in Nat /\ qo \in Nat
      BY <2>1, <2>3
    <3> HIDE DEF or, qo
    <3> QED
      BY <2>1, <3>1, <3>2
  <2>7. q * (w + off) \in Nat
    BY <2>1, <2>5
  <2>8. q * (w + off) <= q * (2 * One + tempo.fm + top)
    <3> DEFINE a == w + off
               b == 2 * One + tempo.fm + top
    <3>1. a \in Int /\ b \in Int /\ a <= b /\ q \in Nat
      BY <2>1, <2>4, <2>5
    <3> HIDE DEF a, b
    <3>2. a * q <= b * q /\ a * q = q * a /\ b * q = q * b
      BY <3>1, ProductMonotonic
    <3>3. q * a <= q * b
      BY <3>2
    <3> QED
      BY <3>3 DEF a, b
  <2>9. -q * One = -qo
    BY <2>1
  <2>10. lead > -q * One /\ lead <= q * (2 * One + tempo.fm + top)
    <3> DEFINE x == q * (w + off)
               y == q * (2 * One + tempo.fm + top)
    <3>1. x \in Nat /\ x <= y /\ lead = x - or /\ y \in Nat /\ qo \in Nat
      <4>1. y \in Nat /\ qo \in Nat
        BY <2>1, <2>4
      <4> QED
        BY <2>2, <2>7, <2>8, <4>1
    <3> HIDE DEF x, y, or, qo
    <3>2. lead > -qo /\ lead <= y
      BY <2>6, <3>1
    <3> QED
      BY <2>9, <3>2 DEF y
  <2> QED
    BY <2>10 DEF InStep, q, top
<1> QED
  BY <1>1, CoreAlways, PTL

-----------------------------------------------------------------------------
(***************************************************************************)
(* Why play() returns.                                                     *)
(***************************************************************************)

\* Where the first delay at or behind a command is, or the end of the log.
FirstDelay(i) ==
    Min({j \in i..Len(log.cmds) : Delay(log.cmds[j]) > 0} \cup {Len(log.cmds) + 1})

\* CommandsLeft, as a function of the command that is next.
LeftFrom(i) ==
    IF log.loop = 0 \/ i + ToDelay(i) <= Len(log.cmds)
    THEN ToDelay(i) ELSE ToDelay(i) + ToDelay(log.loop)

LEMMA ToDelayIs ==
    ASSUME Len(log.cmds) \in Nat, NEW i \in 1..Len(log.cmds) + 1
    PROVE  /\ FirstDelay(i) \in i..Len(log.cmds) + 1
           /\ ToDelay(i) = FirstDelay(i) - i /\ ToDelay(i) \in Nat
           /\ i + ToDelay(i) = FirstDelay(i)
           /\ \A j \in i..Len(log.cmds) :
                Delay(log.cmds[j]) > 0 => FirstDelay(i) <= j
<1> DEFINE last == Len(log.cmds)
           S == {j \in i..last : Delay(log.cmds[j]) > 0} \cup {last + 1}
           first == FirstDelay(i)
<1>1. S \in SUBSET Nat /\ S # {} /\ last + 1 \in S /\ last \in Nat
  OBVIOUS
<1>2. first = Min(S)
  BY DEF FirstDelay
<1>3. first \in S /\ \A j \in S : first <= j
  <2> HIDE DEF S, first
  <2> QED
    BY <1>1, <1>2, MinOfSet
<1>4. ToDelay(i) = first - i
  BY <1>2 DEF ToDelay
<1> HIDE DEF first
<1>5. first \in i..last + 1
  BY <1>1, <1>3
<1>6. first - i \in Nat /\ i + (first - i) = first
  BY <1>1, <1>5
<1>7. \A j \in i..last : Delay(log.cmds[j]) > 0 => first <= j
  BY <1>3
<1> QED
  BY <1>4, <1>5, <1>6, <1>7 DEF first

\* A command without a delay is one fewer to the next delay.
LEMMA OneFewer ==
    ASSUME Len(log.cmds) \in Nat, NEW i \in 1..Len(log.cmds),
           ~(Delay(log.cmds[i]) > 0)
    PROVE  /\ FirstDelay(i + 1) = FirstDelay(i)
           /\ ToDelay(i) = ToDelay(i + 1) + 1
<1> DEFINE last == Len(log.cmds)
<1>1. {j \in i..last : Delay(log.cmds[j]) > 0}
        = {j \in i + 1..last : Delay(log.cmds[j]) > 0}
  <2>1. i..last = {i} \cup i + 1..last
    OBVIOUS
  <2> QED
    BY <2>1
<1>2. FirstDelay(i + 1) = FirstDelay(i)
  BY <1>1, Zenon DEF FirstDelay
<1>3. i \in 1..last + 1 /\ i + 1 \in 1..last + 1
  OBVIOUS
<1>4. ToDelay(i) = FirstDelay(i) - i /\ FirstDelay(i) \in i..last + 1
  BY <1>3, ToDelayIs
<1>5. ToDelay(i + 1) = FirstDelay(i + 1) - (i + 1)
  BY <1>3, ToDelayIs
<1> DEFINE first == FirstDelay(i)
<1>6. first \in Int /\ ToDelay(i) = first - i /\ ToDelay(i + 1) = first - (i + 1)
  BY <1>2, <1>4, <1>5
<1> HIDE DEF first
<1> QED
  BY <1>2, <1>6

\* Behind the last command nothing is left; a loop has a delay.
LEMMA BehindTheEnd ==
    ASSUME StreamAssumption, Core, system = "vgm"
    PROVE  /\ ToDelay(Len(log.cmds) + 1) = 0
           /\ log.loop # 0 => log.loop + ToDelay(log.loop) <= Len(log.cmds)
<1> DEFINE last == Len(log.cmds)
<1>1. last \in Nat \ {0} /\ log.loop \in 0..last /\ log \in Logs
  BY LogFacts
<1>2. ToDelay(last + 1) = 0
  <2>1. last + 1 \in 1..Len(log.cmds) + 1
    BY <1>1
  <2>2. /\ FirstDelay(last + 1) \in last + 1..last + 1
        /\ ToDelay(last + 1) = FirstDelay(last + 1) - (last + 1)
    BY <1>1, <2>1, ToDelayIs
  <2> QED
    BY <1>1, <2>2
<1>3. ASSUME log.loop # 0
      PROVE  log.loop + ToDelay(log.loop) <= last
  <2>1. PICK j \in log.loop..last : Delay(log.cmds[j]) > 0
    BY <1>1, <1>3, Zenon DEF StreamAssumption
  <2>2. log.loop \in 1..last + 1
    BY <1>1, <1>3
  <2>3. /\ log.loop + ToDelay(log.loop) = FirstDelay(log.loop)
        /\ FirstDelay(log.loop) <= j
        /\ FirstDelay(log.loop) \in log.loop..last + 1
    BY <1>1, <2>1, <2>2, ToDelayIs
  <2> QED
    BY <1>1, <2>1, <2>2, <2>3
<1> QED
  BY <1>2, <1>3

\* One command nearer to the next delay, through the loop if it lies there.
LEMMA LeftFromNext ==
    ASSUME StreamAssumption, Core, system = "vgm",
           pos \in 1..Len(log.cmds), ~(Delay(log.cmds[pos]) > 0),
           NEW next,
           next = IF log.cmds[pos][1] = "end" THEN AfterEnd ELSE pos + 1
    PROVE  LeftFrom(next) < LeftFrom(pos)
<1> DEFINE last == Len(log.cmds)
           loop == log.loop
<1>1. /\ last \in Nat \ {0} /\ loop \in 0..last
      /\ \A i \in 1..last - 1 : log.cmds[i][1] # "end"
  BY LogFacts
<1>2. ToDelay(pos) = ToDelay(pos + 1) + 1
  BY <1>1, OneFewer
<1>3. pos \in 1..last + 1 /\ pos + 1 \in 1..last + 1
  BY <1>1
<1>4. ToDelay(pos) \in Nat /\ ToDelay(pos + 1) \in Nat
  BY <1>1, <1>3, ToDelayIs
<1>5. loop # 0 => ToDelay(loop) \in Nat /\ loop + ToDelay(loop) <= last
  <2>1. loop # 0 => loop \in 1..last + 1
    BY <1>1
  <2> QED
    BY <1>1, <2>1, ToDelayIs, BehindTheEnd
<1>6. CASE log.cmds[pos][1] # "end"
  <2>1. next = pos + 1
    BY <1>6
  <2>2. pos + ToDelay(pos) = next + ToDelay(next)
    <3>1. pos \in Int
      BY <1>1
    <3> DEFINE t == ToDelay(pos + 1)
    <3>2. ToDelay(next) = t
      BY <2>1, Zenon
    <3>3. ToDelay(pos) = t + 1 /\ t \in Nat
      BY <1>2, <1>4
    <3> HIDE DEF t
    <3>4. pos + (t + 1) = (pos + 1) + t
      BY <3>1, <3>3
    <3> QED
      BY <2>1, <3>2, <3>3, <3>4, Zenon
  <2>3. ToDelay(next) < ToDelay(pos) /\ ToDelay(next) \in Nat
    BY <1>2, <1>4, <2>1
  <2> QED
    BY <1>4, <1>5, <2>2, <2>3 DEF LeftFrom
<1>7. CASE log.cmds[pos][1] = "end"
  <2>1. pos = last
    BY <1>1, <1>7
  <2>2. ToDelay(last + 1) = 0 /\ ToDelay(pos) = 1
    BY <1>2, <2>1, BehindTheEnd
  <2>3. CASE loop = 0
    <3>1. next = last + 1
      BY <1>7, <2>3 DEF AfterEnd
    <3> QED
      BY <2>2, <2>3, <3>1 DEF LeftFrom
  <2>4. CASE loop # 0
    <3>1. next = loop
      BY <1>7, <2>4 DEF AfterEnd
    <3>2. ~(pos + ToDelay(pos) <= last)
      BY <1>1, <2>1, <2>2
    <3>3. LeftFrom(pos) = ToDelay(pos) + ToDelay(loop)
      BY <2>4, <3>2 DEF LeftFrom
    <3>4. LeftFrom(next) = ToDelay(loop)
      BY <1>5, <2>4, <3>1 DEF LeftFrom
    <3> QED
      BY <1>5, <2>2, <2>4, <3>3, <3>4
  <2> QED
    BY <2>3, <2>4
<1> QED
  BY <1>6, <1>7

\* A command takes the frame to a later time, or is one fewer.
LEMMA RunProgress ==
    ASSUME StreamAssumption, Core, RunCommand
    PROVE  /\ count' = count /\ in_frame'
           /\ \/ TicksLeft' < TicksLeft
              \/ TicksLeft' = TicksLeft /\ CommandsLeft' < CommandsLeft
<1> DEFINE d == Delay(log.cmds[pos])
           next == IF log.cmds[pos][1] = "end" THEN AfterEnd ELSE pos + 1
           time == vgm_time + d
<1>1. /\ system = "vgm" /\ in_frame /\ in_frame' = in_frame
      /\ count' = count /\ end_time' = end_time /\ log' = log
      /\ MoreCommands /\ pos' = next /\ vgm_time' = time
  BY DEF RunCommand, songVars
<1>2. /\ Len(log.cmds) \in Nat \ {0}
      /\ \A i \in 1..Len(log.cmds) : Delay(log.cmds[i]) \in Nat
  BY <1>1, LogFacts
<1>3. /\ pos \in 1..Len(log.cmds) /\ vgm_time \in Int /\ end_time \in Int
      /\ vgm_time < end_time
  BY <1>1, <1>2 DEF Core, TypeOK, MoreCommands
<1>4. d \in Nat
  BY <1>2, <1>3
<1> HIDE DEF d
<1>5. time \in Int /\ end_time - vgm_time \in Int /\ end_time - time \in Int
  BY <1>3, <1>4
<1>6. TicksLeft = end_time - vgm_time
  BY <1>3 DEF TicksLeft
<1>7. TicksLeft' = IF time < end_time THEN end_time - time ELSE 0
  BY <1>1, Zenon DEF TicksLeft
<1>8. CASE d > 0
  <2>1. (IF time < end_time THEN end_time - time ELSE 0) < end_time - vgm_time
    BY <1>3, <1>4, <1>8
  <2> QED
    BY <1>1, <1>6, <1>7, <2>1
<1>9. CASE ~(d > 0)
  <2>1. time = vgm_time
    BY <1>3, <1>4, <1>9
  <2>2. TicksLeft' = TicksLeft
    <3> HIDE DEF time
    <3> QED
      BY <1>3, <1>6, <1>7, <2>1
  <2>3. CommandsLeft = LeftFrom(pos)
    BY DEF CommandsLeft, LeftFrom
  <2>4. CommandsLeft' = LeftFrom(next)
    <3> HIDE DEF next
    <3> QED
      BY <1>1, Zenon DEF CommandsLeft, LeftFrom, ToDelay
  <2>5. LeftFrom(next) < LeftFrom(pos)
    BY <1>1, <1>3, <1>9, LeftFromNext DEF d
  <2> QED
    BY <1>1, <2>2, <2>3, <2>4, <2>5
<1> QED
  BY <1>8, <1>9

\* A frame hands out samples.
LEMMA DeliverProgress ==
    ASSUME StreamAssumption, Core, count > 0, NEW n, NEW ticks, Deliver(n, ticks)
    PROVE  count' < count
<1>1. size \in Nat \ {0} /\ count \in Nat
  BY CoreFacts, RatesAre DEF Core, TypeOK
<1>2. count' = IF count >= size THEN count - size ELSE 0
  BY DEF Deliver
<1>3. (IF count >= size THEN count - size ELSE 0) < count
  BY <1>1
<1> QED
  BY <1>2, <1>3

\* No step of play() is in vain: a frame hands out samples, and a command of
\* the log takes its frame to a later time or is one fewer to the next that
\* does, through the loop as well (Dual_Resampler::dual_play(), Vgm_Core's
\* run_commands(), Gym_Emu::play_frame_()).
THEOREM StreamGoesOn == Spec => PlayProgress
<1>1. ASSUME StreamAssumption, Core, Step
      PROVE  \/ count' < count
             \/ /\ count' = count /\ in_frame'
                /\ \/ ~in_frame
                   \/ TicksLeft' < TicksLeft
                   \/ /\ TicksLeft' = TicksLeft
                      /\ CommandsLeft' < CommandsLeft
  <2>1. CASE VgmBeginFrame
    BY <2>1 DEF VgmBeginFrame
  <2>2. CASE RunCommand
    BY <1>1, <2>2, RunProgress
  <2>3. CASE VgmEndFrame
    <3>1. count > 0 /\ Deliver(pairs, end_time * tempo.fm)
      BY <1>1, <2>3 DEF VgmEndFrame, Core, FrameInv
    <3> QED
      BY <1>1, <3>1, DeliverProgress
  <2>4. CASE GymFrame
    <3>1. count > 0 /\ Deliver(min_pairs, min_pairs * One)
      BY <2>4 DEF GymFrame
    <3> QED
      BY <1>1, <3>1, DeliverProgress
  <2> QED
    BY <1>1, <2>1, <2>2, <2>3, <2>4 DEF Step
<1>2. Core /\ [Next]_vars
        => [Step => \/ count' < count
                    \/ /\ count' = count /\ in_frame'
                       /\ \/ ~in_frame
                          \/ TicksLeft' < TicksLeft
                          \/ /\ TicksLeft' = TicksLeft
                             /\ CommandsLeft' < CommandsLeft]_vars
  BY <1>1, StreamAssumption, Zenon
<1> QED
  BY CoreAlways, <1>2, PTL DEF Spec, PlayProgress
=============================================================================
