--------------------------- MODULE PlayScheduleProofs ---------------------------
(***************************************************************************)
(* The play schedulers for every frame, period and routine: SchedInv is    *)
(* inductive, and what a listener hears of it.                             *)
(***************************************************************************)
EXTENDS PlaySchedule, TLAPS

-----------------------------------------------------------------------------
(***************************************************************************)
(* Arithmetic.                                                             *)
(***************************************************************************)

LEMMA DivMod ==
    ASSUME NEW a \in Int, NEW d \in Nat \ {0}
    PROVE  /\ a \div d \in Int /\ a % d \in 0..d - 1
           /\ a = d * (a \div d) + (a % d)
  OBVIOUS

LEMMA DivUnique ==
    ASSUME NEW a \in Int, NEW d \in Nat \ {0}, NEW q \in Int, NEW r \in 0..d - 1,
           a = d * q + r
    PROVE  a \div d = q /\ (a % d) = r
  OBVIOUS

LEMMA DivSmall ==
    ASSUME NEW a \in Nat, NEW d \in Nat \ {0}
    PROVE  a \div d \in Nat /\ a \div d <= a
  OBVIOUS

LEMMA DivMonotonic ==
    ASSUME NEW a \in Int, NEW b \in Int, NEW d \in Nat \ {0}, a <= b
    PROVE  a \div d <= b \div d
  OBVIOUS

\* One period more.
LEMMA OneMore ==
    ASSUME NEW n \in Int, NEW x \in Int
    PROVE  (n + 1 + 1) * x = (n + 1) * x + x /\ (n + 1) * x = n * x + x
  OBVIOUS

LEMMA MinMax ==
    ASSUME NEW S \in SUBSET Int, NEW p \in S, NEW q \in S, \A r \in S : p <= r /\ r <= q
    PROVE  /\ Min(S) \in S /\ \A r \in S : Min(S) <= r
           /\ Max(S) \in S /\ \A r \in S : r <= Max(S)
  BY DEF Min, Max

-----------------------------------------------------------------------------
(***************************************************************************)
(* The constants.                                                          *)
(***************************************************************************)

LEMMA Constants ==
    /\ Divisor \in Nat \ {0} /\ PlayDelay \in Nat \ {0} /\ MaxRun \in Nat \ {0}
    /\ Overshoot \in Nat /\ IllegalCost \in Nat \ {0}
    /\ Frames \subseteq {d \in Nat : d >= 2} /\ IntCosts \subseteq Nat
    /\ Periods \subseteq Nat \ {0} /\ TimerPeriods \subseteq Nat \ {0}
    /\ ShortPeriods \subseteq Nat
    /\ Emus \subseteq {"nsf", "gbs", "kss", "sap", "ay"}
<1>1. Divisor \in Nat \ {0} /\ Periods \subseteq {p \in Nat : p >= Divisor}
  BY ScheduleAssumption DEF ScheduleAssumption
<1>2. Periods \subseteq Nat \ {0}
  BY <1>1
<1> QED
  BY <1>2, ScheduleAssumption DEF ScheduleAssumption

\* A period is longer than what an instruction or an interrupt may overrun,
\* in clocks and in whole clocks of NSF.
LEMMA Periodic ==
    ASSUME NEW p \in Periods
    PROVE  /\ p \div Divisor > Overshoot + 2 /\ p > Overshoot + 2
           /\ \A c \in IntCosts : p > Overshoot + c + 2
<1>1. /\ p \in Nat \ {0} /\ Divisor \in Nat \ {0}
      /\ Overshoot \in Nat /\ IllegalCost \in Nat \ {0}
      /\ IntCosts \subseteq Nat
  BY Constants
<1>2. \A c \in IntCosts : p \div Divisor > Overshoot + c + IllegalCost + 1
  BY Zenon, ScheduleAssumption DEF ScheduleAssumption
<1> DEFINE q == p \div Divisor
<1>3. q \in Nat /\ q <= p
  BY <1>1, DivSmall
<1>4. PICK c \in IntCosts : TRUE
  BY ScheduleAssumption DEF ScheduleAssumption
<1> HIDE DEF q
<1>5. q > Overshoot + 2 /\ p > Overshoot + 2 /\ \A d \in IntCosts : p > Overshoot + d + 2
  BY <1>1, <1>2, <1>3, <1>4 DEF q
<1> QED
  BY <1>5 DEF q

LEMMA RatesBounded ==
    /\ Rates \subseteq Nat /\ Usual \subseteq Nat \ {0}
    /\ Usual \subseteq Rates
    /\ emu # "nsf" => Rates = Usual
    /\ emu # "gbs" => Usual = Periods
    /\ shortest \in Nat /\ longest \in Nat
    /\ \A p \in Usual : shortest <= PeriodClocks(p)
    /\ \A p \in Usual : PeriodClocks(p) + (IF emu = "nsf" THEN 1 ELSE 0) <= longest
<1>1. Usual \subseteq Nat \ {0}
  BY Constants DEF Usual
<1>0. /\ Rates \subseteq Nat /\ Usual \subseteq Rates
      /\ emu # "nsf" => Rates = Usual
      /\ emu # "gbs" => Usual = Periods
  BY Constants DEF Rates, Usual
<1>2. PICK p \in Usual, q \in Usual : \A r \in Usual : p <= r /\ r <= q
  BY ScheduleAssumption DEF ScheduleAssumption, Usual
<1>3. /\ Min(Usual) \in Usual /\ \A r \in Usual : Min(Usual) <= r
      /\ Max(Usual) \in Usual /\ \A r \in Usual : r <= Max(Usual)
  BY <1>1, <1>2, MinMax
<1> DEFINE least == Min(Usual)
           most  == Max(Usual)
           div(n) == n \div Divisor
<1>4. Divisor \in Nat \ {0}
  BY Constants
<1>5. ASSUME NEW r \in Usual
      PROVE  div(r) \in Nat /\ div(least) <= div(r) /\ div(r) <= div(most)
  <2>1. r \in Nat /\ least \in Nat /\ most \in Nat /\ least <= r /\ r <= most
    BY <1>1, <1>3
  <2> HIDE DEF least, most
  <2>2. div(r) \in Nat
    BY <2>1, <1>4, DivSmall
  <2>3. div(least) <= div(r)
    BY <2>1, <1>4, DivMonotonic
  <2>4. div(r) <= div(most)
    BY <2>1, <1>4, DivMonotonic
  <2> QED
    BY <2>2, <2>3, <2>4
<1>6. div(least) \in Nat /\ div(most) \in Nat
  BY <1>3, <1>5
<1>7. shortest = IF emu = "nsf" THEN div(least) ELSE least
  BY DEF shortest, PeriodClocks
<1>8. longest = IF emu = "nsf" THEN div(most) + 1 ELSE most
  <2>1. most \in Nat
    BY <1>1, <1>3
  <2> QED
    BY <2>1 DEF longest, PeriodClocks
<1>9. \A r \in Usual : PeriodClocks(r) = IF emu = "nsf" THEN div(r) ELSE r
  BY DEF PeriodClocks
<1>10. least \in Nat /\ most \in Nat /\ \A r \in Usual : r \in Nat /\ least <= r /\ r <= most
  BY <1>1, <1>3
<1> HIDE DEF least, most, div
<1> QED
  BY <1>0, <1>1, <1>5, <1>6, <1>7, <1>8, <1>9, <1>10

\* What a period of this emulator is worth, and what it may not overrun.
LEMMA RateFacts ==
    ASSUME emu \in Emus, NEW p \in Usual
    PROVE  /\ p \in Nat \ {0} /\ PeriodClocks(p) \in Nat
           /\ shortest <= PeriodClocks(p) /\ PeriodClocks(p) <= longest
           /\ emu = "nsf" => PeriodClocks(p) = p \div Divisor
           /\ emu # "nsf" => PeriodClocks(p) = p
           /\ emu # "gbs" => p \in Periods /\ PeriodClocks(p) > Overshoot + 2
<1>1. p \in Nat \ {0} /\ shortest <= PeriodClocks(p)
  BY RatesBounded
<1>2. shortest \in Nat /\ longest \in Nat /\ PeriodClocks(p) \in Nat
  BY <1>1, Constants, DivSmall, RatesBounded DEF PeriodClocks
<1>3. PeriodClocks(p) <= longest
  <2>1. PeriodClocks(p) + (IF emu = "nsf" THEN 1 ELSE 0) <= longest
    BY RatesBounded
  <2> QED
    BY <2>1, <1>2
<1>4. emu # "gbs" => p \in Periods
  BY RatesBounded
<1> QED
  BY <1>1, <1>2, <1>3, <1>4, Periodic DEF PeriodClocks

LEMMA SameRates ==
    ASSUME emu' = emu
    PROVE  /\ Rates' = Rates /\ Usual' = Usual
           /\ shortest' = shortest /\ longest' = longest
           /\ \A p : PeriodClocks(p)' = PeriodClocks(p)
  BY DEF Rates, Usual, shortest, longest, PeriodClocks

-----------------------------------------------------------------------------
(***************************************************************************)
(* NSF's fraction: the period after one of p with the fraction x is the    *)
(* whole clocks of p or one more, and the fraction it leaves is regular.   *)
(***************************************************************************)
RegularFraction(p, x, d) ==
    LET f == p % Divisor
    IN  /\ \/ x \in {0, f}
           \/ 2 * f >= Divisor /\ x = f - Divisor
        /\ f = 0 => d = 0
        /\ 2 * f = Divisor => d = IF x = f THEN Divisor ELSE f

LEMMA NsfPeriod ==
    ASSUME NEW p \in Nat, NEW x \in Int, NEW d \in Int, RegularFraction(p, x, d),
           NEW t, t = (p + x) \div Divisor, NEW y, y = p - t * Divisor
    PROVE  /\ t \in Int /\ y \in Int
           /\ t \in {p \div Divisor, p \div Divisor + 1}
           /\ RegularFraction(p, y, d + y)
<1> DEFINE f == p % Divisor
           q == p \div Divisor
           D == Divisor
<1>1. D \in Nat \ {0}
  BY Constants
<1>2. q \in Int /\ f \in 0..D - 1 /\ p = D * q + f
  BY <1>1, DivMod
<1>3. /\ x \in {0, f} \/ (2 * f >= D /\ x = f - D)
      /\ f = 0 => d = 0
      /\ 2 * f = D => d = IF x = f THEN D ELSE f
  BY DEF RegularFraction
<1>4. t = (p + x) \div D /\ y = p - t * D
  OBVIOUS
<1>5. SUFFICES /\ t \in Int /\ y \in Int /\ t \in {q, q + 1}
               /\ y \in {0, f} \/ (2 * f >= D /\ y = f - D)
               /\ f = 0 => d + y = 0
               /\ 2 * f = D => d + y = IF y = f THEN D ELSE f
  BY DEF RegularFraction
<1> HIDE DEF f, q, D
<1>9. (t = q => y = f) /\ (t = q + 1 => y = f - D)
  <2>1. (q + 1) * D = q * D + D /\ q * D = D * q /\ q * D \in Int
    BY <1>1, <1>2
  <2> QED
    BY <2>1, <1>1, <1>2, <1>4
<1>6. CASE x = 0 \/ (x = f /\ 2 * f < D)
  <2> DEFINE a == p + x
  <2>1. x + f \in 0..D - 1 /\ a = D * q + (x + f) /\ a \in Int
    BY <1>1, <1>2, <1>6
  <2>2. t = a \div D
    BY <1>4
  <2> HIDE DEF a
  <2>3. t = q
    BY <2>1, <2>2, <1>1, <1>2, DivUnique
  <2> QED
    BY <2>3, <1>9, <1>1, <1>2, <1>3, <1>6
<1>7. CASE x = f /\ 2 * f >= D
  <2>1. 2 * f - D \in 0..D - 1 /\ p + x = D * (q + 1) + (2 * f - D)
    BY <1>1, <1>2, <1>7
  <2>2. t = q + 1
    BY <2>1, <1>1, <1>2, <1>4, DivUnique
  <2> QED
    BY <2>2, <1>9, <1>1, <1>2, <1>3, <1>7
<1>8. CASE 2 * f >= D /\ x = f - D
  <2>1. 2 * f - D \in 0..D - 1 /\ p + x = D * q + (2 * f - D)
    BY <1>1, <1>2, <1>8
  <2>2. t = q
    BY <2>1, <1>1, <1>2, <1>4, DivUnique
  <2> QED
    BY <2>2, <1>9, <1>1, <1>2, <1>3, <1>8
<1> QED
  BY <1>1, <1>2, <1>3, <1>6, <1>7, <1>8

-----------------------------------------------------------------------------
(***************************************************************************)
(* The invariant, action by action.                                        *)
(***************************************************************************)

\* Where and why the CPU stops.
LEMMA Stops ==
    ASSUME TypeOK, NEW end \in Int, NEW stop \in CpuStops(end)
    PROVE  /\ stop[1] \in Nat /\ time <= stop[1]
           /\ stop[1] <= time \/ stop[1] <= end + Overshoot
           /\ stop[2] \in {"time", "return", "illegal"}
           /\ stop[2] = "time" => end <= stop[1]
           /\ stop[2] = "return" => stop[1] < end
           /\ routine = "idle" /\ time < end => stop[2] = "return"
           /\ end <= time => stop[2] = "time" /\ stop[1] = time
<1>1. time \in Nat /\ Overshoot \in Nat
  BY Constants DEF TypeOK, NumbersOK, FlagsOK
<1>2. CASE time >= end
  BY <1>1, <1>2 DEF CpuStops
<1>3. CASE time < end /\ routine = "idle"
  BY <1>1, <1>3 DEF CpuStops
<1>4. CASE time < end /\ routine # "idle"
  <2>1. CASE stop \in (end..end + Overshoot) \X {"time"}
    BY <1>1, <1>4, <2>1
  <2>2. CASE stop \in (time..end - 1) \X {"return"}
    BY <1>1, <1>4, <2>2
  <2>3. CASE stop \in (time + 1..end - 1) \X {"illegal"}
    BY <1>1, <1>4, <2>3
  <2> QED
    BY <1>1, <1>4, <2>1, <2>2, <2>3 DEF CpuStops
<1> QED
  BY <1>1, <1>2, <1>3, <1>4

\* The clocks that have passed and the next play, as one step finds them.
LEMMA Numbers ==
    ASSUME TypeOK
    PROVE  /\ duration \in Nat /\ time \in Nat /\ next_play \in Int
           /\ elapsed \in Nat /\ calls \in Nat
           /\ play_period \in Rates /\ play_period \in Nat
           /\ Regular => play_period \in Usual
           /\ play_extra \in Int /\ drift \in Int
           /\ shortest \in Nat /\ longest \in Nat
           /\ calls * shortest \in Nat /\ calls * longest \in Nat
           /\ (calls + 1) * shortest = calls * shortest + shortest
           /\ (calls + 1) * longest = calls * longest + longest
           /\ (calls + 1 + 1) * shortest = calls * shortest + shortest + shortest
           /\ (calls + 1 + 1) * longest = calls * longest + longest + longest
<1>1. /\ duration \in Nat /\ time \in Nat /\ next_play \in Int
      /\ elapsed \in Nat /\ calls \in Nat /\ play_period \in Rates
      /\ play_extra \in Int /\ drift \in Int
  BY DEF TypeOK, NumbersOK, FlagsOK
<1>2. play_period \in Nat /\ shortest \in Nat /\ longest \in Nat
  BY <1>1, RatesBounded
<1>3. Regular => play_period \in Usual
  BY <1>1, RatesBounded DEF Regular
<1> QED
  BY <1>1, <1>2, <1>3

\* The pace is kept by a step that calls no play and takes no time back, and
\* by one that calls a play that is due and sets the next one.
LEMMA PaceStep ==
    ASSUME TypeOK, TypeOK', PaceInv, Pace, emu' = emu, Regular' => Regular,
           Regular =>
             \/ /\ calls' = calls
                /\ elapsed + next_play <= elapsed' + next_play'
                /\ elapsed + time <= elapsed' + time'
                /\ ~late' => ~late /\ elapsed' + next_play' = elapsed + next_play
             \/ /\ calls' = calls + 1 /\ elapsed' = elapsed
                /\ next_play + shortest <= next_play'
                /\ next_play' <= next_play + longest
                /\ next_play <= time'
                /\ late => late'
    PROVE  PaceInv' /\ Pace'
<1>1. shortest' = shortest /\ longest' = longest
  BY SameRates
<1>2. SUFFICES ASSUME Regular, Regular'
               PROVE  /\ (calls' + 1) * shortest <= elapsed' + next_play'
                      /\ ~late' => elapsed' + next_play' <= (calls' + 1) * longest
                      /\ calls' * shortest <= elapsed' + time'
                      /\ ~late' /\ next_play' >= time'
                           => elapsed' + time' <= (calls' + 1) * longest
  BY <1>1 DEF PaceInv, Pace
<1>3. /\ (calls + 1) * shortest <= elapsed + next_play
      /\ ~late => elapsed + next_play <= (calls + 1) * longest
      /\ calls * shortest <= elapsed + time
  BY <1>2 DEF PaceInv, Pace
<1>4. /\ time' \in Nat /\ next_play' \in Int /\ elapsed' \in Nat /\ calls' \in Nat
      /\ late \in BOOLEAN /\ late' \in BOOLEAN
  BY DEF TypeOK, NumbersOK, FlagsOK
<1>5. CASE calls' = calls
  BY <1>2, <1>3, <1>4, <1>5, Numbers
<1>6. CASE calls' = calls + 1
  <2>1. /\ (calls' + 1) * shortest = calls * shortest + shortest + shortest
        /\ (calls' + 1) * longest = calls * longest + longest + longest
        /\ calls' * shortest = calls * shortest + shortest
    BY <1>6, Numbers
  <2> QED
    BY <1>2, <1>3, <1>4, <1>6, <2>1, Numbers
<1> QED
  BY <1>2, <1>5, <1>6

LEMMA InitInv == Init => SchedInv
<1> SUFFICES ASSUME Init PROVE SchedInv
  OBVIOUS
<1>1. play_period \in Nat /\ Divisor \in Nat \ {0} /\ PlayDelay \in Nat \ {0}
  BY Constants, RatesBounded DEF Init
<1>2. play_period % Divisor \in 0..Divisor - 1
  BY <1>1, DivMod
<1>3. /\ next_play \in Nat /\ shortest \in Nat /\ longest \in Nat
      /\ Regular => shortest <= next_play /\ next_play <= longest
  <2>1. next_play \in Nat
    BY <1>1, DivSmall DEF Init, PeriodClocks
  <2>2. Regular => play_period \in Usual
    BY RatesBounded DEF Init, Regular
  <2> QED
    BY <2>1, <2>2, RateFacts, RatesBounded DEF Init
<1>4. TypeOK
  <2>1. drift \in Int
    BY <1>1, <1>2 DEF Init
  <2> QED
    <3>1. NumbersOK
      BY <1>1, <1>3, <2>1 DEF Init, NumbersOK
    <3>2. FlagsOK
      BY DEF Init, FlagsOK, Routines
    <3> QED
      BY <3>1, <3>2 DEF TypeOK
<1>5. SavedOnce /\ ReadyInv /\ TimesInv
  BY <1>1, <1>3 DEF Init, SavedOnce, ReadyInv, TimesInv
<1>6. FractionInv
  BY <1>1, <1>2 DEF Init, FractionInv
<1>7. PaceInv /\ Pace
  <2>1. (calls + 1) * shortest = shortest /\ (calls + 1) * longest = longest
        /\ calls * shortest = 0
    BY <1>3 DEF Init
  <2> QED
    BY <1>3, <2>1 DEF Init, PaceInv, Pace
<1> QED
  BY <1>4, <1>5, <1>6, <1>7 DEF SchedInv

LEMMA StartTrackInv == SchedInv /\ StartTrack => SchedInv'
<1> SUFFICES ASSUME SchedInv, StartTrack PROVE SchedInv'
  OBVIOUS
<1>1. /\ emu' = emu /\ emu \in Emus /\ Emus \subseteq {"nsf", "gbs", "kss", "sap", "ay"}
      /\ Divisor \in Nat \ {0} /\ PlayDelay \in Nat \ {0}
  BY Constants DEF SchedInv, TypeOK, NumbersOK, FlagsOK, StartTrack
<1>2. /\ play_period \in Rates /\ play_period' \in Rates
      /\ emu = "nsf" => play_period' = play_period
  BY DEF SchedInv, TypeOK, NumbersOK, FlagsOK, StartTrack
<1>3. play_period' \in Nat /\ play_period' % Divisor \in 0..Divisor - 1
  <2>1. play_period' \in Nat
    BY <1>2, RatesBounded
  <2> DEFINE p == play_period'
  <2>2. p \in Int
    BY <2>1
  <2> HIDE DEF p
  <2>3. p % Divisor \in 0..Divisor - 1
    BY <2>2, <1>1, DivMod
  <2> QED
    BY <2>1, <2>3 DEF p
<1>4. next_play' \in {PeriodClocks(play_period), PeriodClocks(play_period')}
  <2>1. CASE emu = "nsf"
    BY <1>2, <2>1 DEF StartTrack, PeriodClocks, nsf_start
  <2>2. CASE emu = "gbs"
    BY <2>2 DEF StartTrack, PeriodClocks, gbs_start
  <2>3. CASE emu = "ay"
    BY <2>3 DEF StartTrack, PeriodClocks, ay_start
  <2>4. CASE emu \in {"kss", "sap"}
    BY <2>4 DEF StartTrack, PeriodClocks, kss_start, sap_start
  <2> QED
    BY <1>1, <2>1, <2>2, <2>3, <2>4
<1>5. /\ next_play' \in Nat /\ shortest \in Nat /\ longest \in Nat
      /\ Regular' => shortest <= next_play' /\ next_play' <= longest
  <2>1. PICK p \in Rates : /\ next_play' = PeriodClocks(p)
                           /\ emu = "nsf" => p = play_period'
    BY <1>2, <1>4
  <2>2. p \in Nat /\ PeriodClocks(p) \in Nat
    BY <1>1, RatesBounded, DivSmall DEF PeriodClocks
  <2>3. Regular' => p \in Usual
    BY <1>1, <2>1, RatesBounded DEF Regular
  <2> QED
    BY <1>1, <2>1, <2>2, <2>3, RateFacts, RatesBounded
<1>6. /\ emu = "nsf" => nsf_start
      /\ emu # "nsf" => routine' \in {"init", "idle"} /\ UNCHANGED nsfVars
      /\ duration' = 0 /\ time' = 0 /\ failed' = FALSE
      /\ iff1' = FALSE /\ halted' = FALSE /\ mode' = "none"
      /\ elapsed' = 0 /\ calls' = 0 /\ late' = FALSE /\ steady' = TRUE
  BY <1>1 DEF StartTrack, gbs_start, kss_start, sap_start, ay_start
<1>7. TypeOK'
  <2>1. Rates' = Rates
    BY <1>1, SameRates
  <2>2. CASE emu = "nsf"
    <3>1. NumbersOK'
      BY <2>1, <2>2, <1>1, <1>2, <1>3, <1>5, <1>6 DEF NumbersOK, nsf_start
    <3>2. FlagsOK'
      BY <2>2, <1>1, <1>6 DEF FlagsOK, Routines, nsf_start
    <3> QED
      BY <3>1, <3>2 DEF TypeOK
  <2>3. CASE emu # "nsf"
    <3>1. NumbersOK'
      BY <2>1, <2>3, <1>1, <1>2, <1>5, <1>6 DEF SchedInv, TypeOK, NumbersOK, nsfVars
    <3>2. FlagsOK'
      BY <2>3, <1>1, <1>6 DEF SchedInv, TypeOK, FlagsOK, Routines, nsfVars
    <3> QED
      BY <3>1, <3>2 DEF TypeOK
  <2> QED
    BY <2>2, <2>3
<1>8. SavedOnce' /\ ReadyInv' /\ TimesInv'
  BY <1>1, <1>5, <1>6
     DEF SchedInv, SavedOnce, ReadyInv, TimesInv, nsf_start, nsfVars
<1>9. FractionInv'
  BY <1>1, <1>2, <1>3, <1>6 DEF FractionInv, nsf_start
<1>10. PaceInv' /\ Pace'
  <2>1. /\ (calls' + 1) * shortest = shortest /\ (calls' + 1) * longest = longest
        /\ calls' * shortest = 0
    BY <1>5, <1>6
  <2>2. shortest' = shortest /\ longest' = longest
    BY <1>1, SameRates
  <2> QED
    <3>3. PICK n \in Nat : /\ next_play' = n
                           /\ Regular' => shortest <= n /\ n <= longest
      BY <1>5
    <3>4. elapsed' = 0
      BY <1>6
    <3>1. PaceInv'
      BY <1>5, <2>1, <2>2, <3>3, <3>4 DEF PaceInv
    <3>2. Pace'
      BY <1>5, <1>6, <2>1, <2>2 DEF Pace
    <3> QED
      BY <3>1, <3>2
<1> QED
  BY <1>7, <1>8, <1>9, <1>10 DEF SchedInv

LEMMA SetTempoInv == SchedInv /\ SetTempo => SchedInv'
<1> SUFFICES ASSUME SchedInv, SetTempo PROVE SchedInv'
  OBVIOUS
<1>1. /\ UNCHANGED <<emu, duration, time, failed, next_play, routine, saved_state,
                     play_ready, play_extra, drift, iff1, halted, mode, elapsed,
                     calls, late>>
      /\ play_period' \in Rates /\ steady' = FALSE
  BY DEF SetTempo, frameVars, nsfVars, ayVars
<1>2. TypeOK'
  BY <1>1, SameRates DEF SchedInv, TypeOK, NumbersOK, FlagsOK, Routines
<1>3. SavedOnce' /\ ReadyInv' /\ TimesInv' /\ FractionInv'
  BY <1>1 DEF SchedInv, SavedOnce, ReadyInv, TimesInv, FractionInv, Regular
<1>4. PaceInv' /\ Pace'
  BY <1>1, SameRates DEF SchedInv, PaceInv, Pace, Regular
<1> QED
  BY <1>2, <1>3, <1>4 DEF SchedInv

LEMMA BeginFrameInv == ASSUME NEW d \in Frames PROVE SchedInv /\ BeginFrame(d) => SchedInv'
<1> SUFFICES ASSUME SchedInv, BeginFrame(d) PROVE SchedInv'
  OBVIOUS
<1>1. /\ UNCHANGED <<emu, failed, next_play, play_period, routine, saved_state,
                     play_ready, play_extra, drift, iff1, halted, mode, elapsed,
                     calls, late, steady>>
      /\ time' = 0 /\ time = 0
      /\ duration' \in {d, d \div 2}
  BY DEF BeginFrame, nsfVars, ayVars, SchedInv, TimesInv
<1>2. d \in Nat /\ d \div 2 \in Nat /\ d \div 2 > 0 /\ d > 0
  BY Constants
<1>3. TypeOK'
  BY <1>1, <1>2, SameRates DEF SchedInv, TypeOK, NumbersOK, FlagsOK, Routines
<1>4. SavedOnce' /\ ReadyInv' /\ TimesInv' /\ FractionInv'
  BY <1>1, <1>2
     DEF SchedInv, SavedOnce, ReadyInv, TimesInv, FractionInv, Regular
<1>5. PaceInv' /\ Pace'
  BY <1>1, SameRates DEF SchedInv, PaceInv, Pace, Regular
<1> QED
  BY <1>3, <1>4, <1>5 DEF SchedInv

LEMMA EndFrameInv == SchedInv /\ EndFrame => SchedInv'
<1> SUFFICES ASSUME SchedInv, EndFrame PROVE SchedInv'
  OBVIOUS
<1>1. /\ UNCHANGED <<emu, failed, play_period, routine, saved_state, play_ready,
                     play_extra, drift, iff1, halted, mode, calls, steady>>
      /\ time >= duration /\ duration' = 0 /\ time' = 0
      /\ elapsed' = elapsed + time
      /\ late' = (late \/ next_play < time)
  BY DEF EndFrame, nsfVars, ayVars
<1>2. time \in Nat /\ next_play \in Int /\ elapsed \in Nat
  BY DEF SchedInv, TypeOK, NumbersOK, FlagsOK
<1>3. next_play' = IF emu \in {"nsf", "gbs", "sap"} /\ next_play < time THEN 0
                   ELSE next_play - time
  <2>1. Max({0, next_play - time}) = IF next_play < time THEN 0 ELSE next_play - time
    BY <1>2, MinMax DEF Max
  <2> QED
    BY <2>1 DEF EndFrame, NextFrame
<1>4. TypeOK'
  BY <1>1, <1>2, <1>3, SameRates DEF SchedInv, TypeOK, NumbersOK, FlagsOK, Routines
<1>5. SavedOnce' /\ ReadyInv' /\ TimesInv' /\ FractionInv'
  BY <1>1, <1>2, <1>3
     DEF SchedInv, SavedOnce, ReadyInv, TimesInv, FractionInv, Regular
<1>6. PaceInv' /\ Pace'
  <2>1. Regular' => Regular
    BY <1>1 DEF Regular
  <2>5. ~late' => ~late /\ ~(next_play < time)
    BY Zenon, <1>1
  <2>2. Regular /\ emu \notin {"gbs", "sap"} => next_play >= time
    BY Constants DEF SchedInv, TypeOK, NumbersOK, FlagsOK, TimesInv
  <2>3. Regular => /\ elapsed + next_play <= elapsed' + next_play'
                   /\ ~late' => elapsed' + next_play' = elapsed + next_play
    BY <1>1, <1>2, <1>3, <2>5, <2>2
  <2>4. calls' = calls /\ elapsed + time <= elapsed' + time'
    BY <1>1, <1>2
  <2> QED
    BY <1>1, <1>4, <2>1, <2>3, <2>4, <2>5, PaceStep DEF SchedInv
<1> QED
  BY <1>4, <1>5, <1>6 DEF SchedInv

LEMMA GbsRunInv == SchedInv /\ GbsRun => SchedInv'
<1> SUFFICES ASSUME SchedInv, GbsRun PROVE SchedInv'
  OBVIOUS
<1>1. /\ emu = "gbs" /\ emu' = emu
      /\ UNCHANGED <<duration, failed, saved_state, play_ready, play_extra, drift,
                     iff1, halted, mode, elapsed, steady>>
      /\ time < duration
  BY DEF GbsRun, nsfVars, ayVars
<1>2. PICK p \in Rates, stop \in CpuStops(duration) :
        /\ play_period' = p
        /\ \/ /\ stop[2] = "return" /\ next_play > duration
              /\ time' = duration
              /\ routine' = "idle"
              /\ UNCHANGED <<next_play, calls, late>>
           \/ /\ stop[2] = "return" /\ next_play <= duration
              /\ time' = GbsPlayTime(stop[1])
              /\ next_play' = next_play + p
              /\ routine' = "play" /\ calls' = calls + 1
              /\ late' = (late \/ stop[1] > next_play)
           \/ /\ stop[2] = "illegal"
              /\ time' = stop[1] + IllegalCost
              /\ UNCHANGED <<next_play, routine, calls, late>>
           \/ /\ stop[2] = "time"
              /\ time' = duration
              /\ UNCHANGED <<next_play, routine, calls, late>>
  BY DEF GbsRun, SchedInv, TypeOK, NumbersOK
<1>3. /\ duration \in Nat /\ time \in Nat /\ next_play \in Nat /\ IllegalCost \in Nat
      /\ calls \in Nat /\ late \in BOOLEAN
      /\ p \in Nat /\ shortest <= p /\ p <= longest
      /\ shortest \in Nat /\ longest \in Nat
  BY <1>1, Constants, RatesBounded, RateFacts
     DEF SchedInv, TypeOK, NumbersOK, FlagsOK, TimesInv
<1>4. stop[1] \in Nat /\ time <= stop[1]
  BY <1>3, Stops DEF SchedInv
<1>5. PICK now \in Nat, next \in Nat :
        /\ time' = now /\ next_play' = next
        /\ time <= now
        /\ \/ next = next_play /\ calls' = calls /\ late' = late
           \/ /\ calls' = calls + 1 /\ next = next_play + p /\ next_play <= now
              /\ late => late'
  <2>1. CASE time' = duration /\ UNCHANGED <<next_play, calls, late>>
    BY <2>1, <1>1, <1>3
  <2>2. CASE time' = stop[1] + IllegalCost /\ UNCHANGED <<next_play, calls, late>>
    BY <2>2, <1>3, <1>4
  <2>3. CASE /\ time' = GbsPlayTime(stop[1]) /\ next_play' = next_play + p
             /\ calls' = calls + 1
             /\ late' = (late \/ stop[1] > next_play)
    <3>1. late => late'
      BY Zenon, <2>3
    <3> QED
      BY <2>3, <3>1, <1>3, <1>4 DEF GbsPlayTime
  <2> QED
    BY <1>2, <2>1, <2>2, <2>3
<1>6. TypeOK'
  <2>1. calls' \in Nat
    BY <1>3, <1>5
  <2>2. NumbersOK'
    BY <1>1, <1>2, <1>5, <2>1, SameRates DEF SchedInv, TypeOK, NumbersOK
  <2>3. late' \in BOOLEAN /\ routine' \in Routines
    BY <1>2, <1>3 DEF SchedInv, TypeOK, FlagsOK, Routines
  <2>4. FlagsOK'
    BY <1>1, <2>3 DEF SchedInv, TypeOK, FlagsOK, Routines
  <2> QED
    BY <2>2, <2>4 DEF TypeOK
<1>7. SavedOnce' /\ ReadyInv' /\ FractionInv'
  BY <1>1 DEF SchedInv, SavedOnce, ReadyInv, FractionInv
<1>8. TimesInv'
  BY <1>1, <1>3, <1>5 DEF TimesInv
<1>9. PaceInv' /\ Pace'
  <2>1. Regular' => Regular
    BY <1>1 DEF Regular
  <2>2. elapsed \in Nat
    BY DEF SchedInv, TypeOK, NumbersOK
  <2>3. CASE next_play' = next_play /\ calls' = calls /\ late' = late
    BY <1>1, <1>5, <1>6, <2>1, <2>2, <2>3, <1>3, PaceStep DEF SchedInv
  <2>4. CASE calls' = calls + 1 /\ next_play' = next_play + p /\ (late => late')
    BY <1>1, <1>3, <1>5, <1>6, <2>1, <2>4, PaceStep DEF SchedInv
  <2> QED
    BY <1>5, <2>3, <2>4
<1> QED
  BY <1>6, <1>7, <1>8, <1>9 DEF SchedInv

LEMMA KssRunInv == SchedInv /\ KssRun => SchedInv'
<1> SUFFICES ASSUME SchedInv, KssRun PROVE SchedInv'
  OBVIOUS
<1> DEFINE end == SliceEnd
<1>1. /\ emu = "kss" /\ emu' = emu
      /\ UNCHANGED <<duration, failed, play_period, saved_state, play_ready,
                     play_extra, drift, iff1, halted, mode, elapsed, steady>>
      /\ time < duration
  BY DEF KssRun, nsfVars, ayVars
<1>2. PICK stop \in CpuStops(end), idle \in BOOLEAN :
        /\ stop[2] = "return" => idle
        /\ time >= end => idle = (routine = "idle")
        /\ time' = IF idle THEN end ELSE stop[1]
        /\ IF time' >= next_play
           THEN /\ next_play' = next_play + play_period
                /\ routine' = IF idle THEN "play" ELSE routine
                /\ calls' = IF idle THEN calls + 1 ELSE calls
                /\ late' = (late \/ ~idle)
           ELSE /\ routine' = IF idle THEN "idle" ELSE routine
                /\ UNCHANGED <<next_play, calls, late>>
  BY DEF KssRun
<1>3. /\ duration \in Nat /\ time \in Nat /\ next_play \in Int /\ time <= next_play
      /\ calls \in Nat /\ elapsed \in Nat /\ late \in BOOLEAN
      /\ play_period \in Nat /\ shortest <= play_period /\ play_period <= longest
      /\ play_period > Overshoot + 2 /\ Overshoot \in Nat
      /\ shortest \in Nat /\ longest \in Nat
  BY <1>1, Constants, RatesBounded, RateFacts
     DEF SchedInv, TypeOK, NumbersOK, FlagsOK, TimesInv, Regular
<1>4. end \in Nat /\ time <= end /\ end <= next_play
  BY <1>1, <1>3 DEF SliceEnd, Lesser
<1> HIDE DEF end
<1>5. /\ stop[1] \in Nat /\ time <= stop[1] /\ stop[1] <= end + Overshoot
      /\ stop[2] # "return" => end <= stop[1]
            \/ stop[2] = "illegal"
  BY <1>3, <1>4, Stops DEF SchedInv
<1>6. PICK now \in Nat : time' = now /\ time <= now /\ now <= next_play + Overshoot
  BY <1>2, <1>3, <1>4, <1>5
<1>7. PICK next \in Int :
        /\ next_play' = next /\ now <= next
        /\ \/ /\ next = next_play /\ calls' = calls /\ late' = late
           \/ /\ next = next_play + play_period /\ calls' = calls /\ late'
           \/ /\ next = next_play + play_period /\ calls' = calls + 1
              /\ next_play <= now /\ (late => late')
  <2>1. CASE now < next_play
    BY <2>1, <1>2, <1>3, <1>6
  <2>2. CASE now >= next_play /\ idle
    <3>1. late => late'
      BY Zenon, <2>2, <1>2, <1>6
    <3> QED
      BY <2>2, <3>1, <1>2, <1>3, <1>6
  <2>3. CASE now >= next_play /\ ~idle
    <3>1. late' /\ calls' = calls /\ next_play' = next_play + play_period
      BY Zenon, <2>3, <1>2, <1>6
    <3>2. next_play + play_period \in Int /\ now <= next_play + play_period
      BY <1>3, <1>6
    <3> QED
      BY Zenon, <3>1, <3>2
  <2> QED
    BY <1>3, <2>1, <2>2, <2>3
<1>8. TypeOK'
  <2>1. calls' \in Nat
    BY <1>3, <1>7
  <2>2. NumbersOK'
    BY <1>1, <1>6, <1>7, <2>1, SameRates DEF SchedInv, TypeOK, NumbersOK
  <2>3. late' \in BOOLEAN /\ routine' \in Routines
    BY <1>2, <1>3 DEF SchedInv, TypeOK, FlagsOK, Routines
  <2>4. FlagsOK'
    BY <1>1, <2>3 DEF SchedInv, TypeOK, FlagsOK, Routines
  <2> QED
    BY <2>2, <2>4 DEF TypeOK
<1>9. SavedOnce' /\ ReadyInv' /\ FractionInv'
  BY <1>1 DEF SchedInv, SavedOnce, ReadyInv, FractionInv
<1>10. TimesInv'
  BY <1>1, <1>3, <1>6, <1>7 DEF TimesInv
<1>11. PaceInv' /\ Pace'
  <2>1. Regular' => Regular
    BY <1>1 DEF Regular
  <2>2. CASE next_play' = next_play /\ calls' = calls /\ late' = late
    BY <1>1, <1>3, <1>6, <1>8, <2>1, <2>2, PaceStep DEF SchedInv
  <2>3. CASE next_play' = next_play + play_period /\ calls' = calls /\ late'
    BY <1>1, <1>3, <1>6, <1>8, <2>1, <2>3, PaceStep DEF SchedInv
  <2>4. CASE /\ next_play' = next_play + play_period /\ calls' = calls + 1
             /\ next_play <= now /\ (late => late')
    BY <1>1, <1>3, <1>6, <1>8, <2>1, <2>4, PaceStep DEF SchedInv
  <2> QED
    BY <1>7, <2>2, <2>3, <2>4
<1> QED
  BY <1>8, <1>9, <1>10, <1>11 DEF SchedInv

LEMMA SapRunInv == SchedInv /\ SapRun => SchedInv'
<1> SUFFICES ASSUME SchedInv, SapRun PROVE SchedInv'
  OBVIOUS
<1>1. /\ emu = "sap" /\ emu' = emu
      /\ UNCHANGED <<play_period, saved_state, play_ready, play_extra, drift,
                     iff1, halted, mode, elapsed, steady>>
      /\ time < duration
  BY DEF SapRun, nsfVars, ayVars
<1>2. /\ duration \in Nat /\ time \in Nat /\ next_play \in Nat
      /\ calls \in Nat /\ elapsed \in Nat /\ late \in BOOLEAN
      /\ play_period \in Nat /\ shortest <= play_period /\ play_period <= longest
      /\ shortest \in Nat /\ longest \in Nat
  BY <1>1, Constants, RatesBounded, RateFacts
     DEF SchedInv, TypeOK, NumbersOK, FlagsOK, TimesInv
<1>3. SavedOnce' /\ ReadyInv' /\ FractionInv'
  BY <1>1 DEF SchedInv, SavedOnce, ReadyInv, FractionInv
<1>4. Regular' => Regular
  BY <1>1 DEF Regular
<1>5. CASE UNCHANGED <<duration, failed>>
  <2>1. PICK now \in Nat, next \in Nat :
          /\ time' = now /\ next_play' = next
          /\ \/ /\ next = next_play /\ calls' = calls /\ late' = late /\ time <= now
             \/ /\ calls' = calls + 1 /\ next = next_play + play_period
                /\ now = next_play
                /\ late' \in BOOLEAN /\ (late => late')
    <3>1. PICK stop \in CpuStops(duration), idle \in BOOLEAN :
            \/ /\ idle /\ next_play <= duration
               /\ time' = next_play
               /\ next_play' = next_play + play_period
               /\ routine' = "play" /\ calls' = calls + 1
               /\ late' = (late \/ stop[1] > next_play)
            \/ /\ idle /\ next_play > duration
               /\ time' = duration
               /\ UNCHANGED <<next_play, calls, late>>
            \/ /\ ~idle
               /\ time' = stop[1]
               /\ UNCHANGED <<next_play, routine, calls, late>>
      BY <1>2, <1>5 DEF SapRun
    <3>2. stop[1] \in Nat /\ time <= stop[1]
      BY <1>2, Stops DEF SchedInv
    <3>3. CASE time' = next_play
      <4>1. CASE late' = (late \/ stop[1] > next_play) /\ calls' = calls + 1
                 /\ next_play' = next_play + play_period
        <5>1. (late => late') /\ late' \in BOOLEAN
          BY Zenon, <4>1
        <5> QED
          BY <3>3, <4>1, <5>1, <1>2
      <4> QED
        BY <3>1, <3>2, <3>3, <4>1, <1>1, <1>2
    <3>4. CASE time' \in {duration, stop[1]} /\ UNCHANGED <<next_play, calls, late>>
      BY <3>2, <3>4, <1>1, <1>2
    <3> QED
      BY <3>1, <3>3, <3>4
  <2>2. TypeOK'
    <3>1. calls' \in Nat
      BY <1>2, <2>1
    <3>2. NumbersOK'
      BY <1>1, <1>5, <2>1, <3>1, SameRates DEF SchedInv, TypeOK, NumbersOK
    <3>3. late' \in BOOLEAN /\ routine' \in Routines
      BY <1>1, <1>2, <2>1 DEF SapRun, SchedInv, TypeOK, FlagsOK, Routines
    <3>4. FlagsOK'
      BY <1>1, <1>5, <3>3 DEF SchedInv, TypeOK, FlagsOK, Routines
    <3> QED
      BY <3>2, <3>4 DEF TypeOK
  <2>3. TimesInv'
    BY <1>1, <1>2, <1>5, <2>1 DEF TimesInv
  <2>4. PaceInv' /\ Pace'
    <3>1. CASE next_play' = next_play /\ calls' = calls /\ late' = late /\ time <= now
      BY <1>1, <1>2, <1>4, <2>1, <2>2, <3>1, PaceStep DEF SchedInv
    <3>2. CASE /\ next_play' = next_play + play_period /\ calls' = calls + 1
               /\ now = next_play /\ (late => late')
      BY <1>1, <1>2, <1>4, <2>1, <2>2, <3>2, PaceStep DEF SchedInv
    <3> QED
      BY <2>1, <3>1, <3>2
  <2> QED
    BY <1>3, <2>2, <2>3, <2>4 DEF SchedInv
<1>6. CASE /\ failed' = TRUE /\ duration' = 0
           /\ UNCHANGED <<time, next_play, routine, calls, late>>
  <2>1. NumbersOK'
    BY <1>1, <1>6, SameRates DEF SchedInv, TypeOK, NumbersOK
  <2>2. FlagsOK'
    BY <1>1, <1>6 DEF SchedInv, TypeOK, FlagsOK, Routines
  <2>3. TypeOK'
    BY <2>1, <2>2 DEF TypeOK
  <2>4. TimesInv'
    BY <1>1, <1>2, <1>6 DEF TimesInv
  <2>5. PaceInv' /\ Pace'
    BY <1>1, <1>2, <1>4, <1>6, <2>3, PaceStep DEF SchedInv
  <2> QED
    BY <1>3, <2>3, <2>4, <2>5 DEF SchedInv
<1> QED
  BY <1>5, <1>6 DEF SapRun

LEMMA AyRunInv == SchedInv /\ AyRun => SchedInv'
<1> SUFFICES ASSUME SchedInv, AyRun PROVE SchedInv'
  OBVIOUS
<1> DEFINE end == SliceEnd
<1>1. /\ emu = "ay" /\ emu' = emu
      /\ UNCHANGED <<duration, failed, saved_state, play_ready, play_extra, drift,
                     elapsed, steady>>
      /\ time < duration
  BY DEF AyRun, nsfVars
<1>2. /\ duration \in Nat /\ time \in Nat /\ next_play \in Int /\ time <= next_play
      /\ calls \in Nat /\ elapsed \in Nat /\ late \in BOOLEAN
      /\ iff1 \in BOOLEAN /\ halted \in BOOLEAN
      /\ mode \in {"none", "spectrum", "cpc"} /\ routine \in Routines
      /\ play_period \in Periods /\ Overshoot \in Nat /\ IntCosts \subseteq Nat
      /\ shortest \in Nat /\ longest \in Nat
  BY <1>1, Constants, RatesBounded
     DEF SchedInv, TypeOK, NumbersOK, FlagsOK, TimesInv, Regular
<1>3. PICK now \in IF time >= end THEN {time} ELSE end..end + Overshoot,
           ei \in IF halted \/ time >= end THEN {iff1} ELSE BOOLEAN,
           halt \in IF halted \/ time >= end THEN {halted} ELSE BOOLEAN,
           m \in IF halted \/ time >= end THEN {mode} ELSE Modes :
        /\ mode' = m
        /\ play_period' \in CpcPeriods(m)
        /\ \/ /\ now < next_play
              /\ time' = now /\ iff1' = ei /\ halted' = halt
              /\ routine' = IF halt THEN "idle" ELSE routine
              /\ UNCHANGED <<next_play, calls, late>>
           \/ /\ now >= next_play /\ ei
              /\ \E c \in IntCosts : time' = now + c
              /\ iff1' = FALSE /\ halted' = FALSE
              /\ routine' = "play" /\ calls' = calls + 1
              /\ next_play' = next_play + play_period'
              /\ late' = (late \/ ~halt)
           \/ /\ now >= next_play /\ ~ei
              /\ time' = now /\ iff1' = ei /\ halted' = halt
              /\ routine' = IF halt THEN "idle" ELSE routine
              /\ next_play' = next_play + play_period'
              /\ late' = TRUE
              /\ UNCHANGED calls
  BY DEF AyRun
<1>4. end \in Nat /\ end <= next_play /\ time <= end
  BY <1>1, <1>2 DEF SliceEnd, Lesser
<1>5. ei \in BOOLEAN /\ halt \in BOOLEAN /\ m \in {"none", "spectrum", "cpc"}
  BY <1>2 DEF Modes
<1> HIDE DEF end
<1>6. now \in Nat /\ time <= now /\ now <= next_play + Overshoot
  BY <1>2, <1>4
<1>7. PICK p \in Periods : play_period' = p
  BY <1>2, <1>3 DEF CpcPeriods
<1>8. /\ p \in Usual /\ Rates = Periods
      /\ p \in Nat /\ shortest <= p /\ p <= longest
      /\ \A c \in IntCosts : p > Overshoot + c + 2
      /\ p > Overshoot
  <2>1. p \in Usual /\ Rates = Periods
    BY <1>1, RatesBounded
  <2>2. emu \in Emus
    BY DEF SchedInv, TypeOK, FlagsOK
  <2>3. p \in Nat /\ shortest <= p /\ p <= longest /\ p > Overshoot + 2
    BY <1>1, <2>1, <2>2, RateFacts
  <2> QED
    BY <1>2, <2>1, <2>3, Periodic
<1>9. PICK then \in Nat, next \in Int :
        /\ time' = then /\ next_play' = next /\ now <= then /\ then <= next
        /\ late' \in BOOLEAN
        /\ \/ next = next_play /\ calls' = calls /\ late' = late
           \/ next = next_play + p /\ calls' = calls /\ late'
           \/ /\ next = next_play + p /\ calls' = calls + 1
              /\ next_play <= now /\ (late => late')
  <2>1. CASE /\ now < next_play /\ time' = now
             /\ UNCHANGED <<next_play, calls, late>>
    BY <2>1, <1>2, <1>6
  <2>2. CASE /\ now >= next_play
             /\ \E c \in IntCosts : time' = now + c
             /\ calls' = calls + 1
             /\ next_play' = next_play + play_period'
             /\ late' = (late \/ ~halt)
    <3>1. (late => late') /\ late' \in BOOLEAN
      BY Zenon, <2>2
    <3>2. PICK c \in IntCosts : time' = now + c
      BY <2>2
    <3>3. /\ now + c \in Nat /\ now <= now + c /\ now + c <= next_play + p
          /\ next_play + p \in Int /\ next_play <= now
      BY <1>2, <1>6, <1>8, <2>2, <3>2
    <3> QED
      BY Zenon, <2>2, <1>7, <3>1, <3>2, <3>3
  <2>3. CASE /\ time' = now
             /\ next_play' = next_play + play_period'
             /\ late' = TRUE /\ calls' = calls
    <3>1. next_play + p \in Int /\ now <= next_play + p /\ now <= now
      BY <1>2, <1>6, <1>8
    <3> QED
      BY Zenon, <2>3, <1>6, <1>7, <3>1
  <2> QED
    BY <1>3, <2>1, <2>2, <2>3
<1>10. TypeOK'
  <2>1. calls' \in Nat /\ play_period' \in Rates
    BY <1>2, <1>7, <1>8, <1>9
  <2>2. NumbersOK'
    BY <1>1, <1>9, <2>1, SameRates DEF SchedInv, TypeOK, NumbersOK
  <2>3. routine' \in Routines /\ iff1' \in BOOLEAN /\ halted' \in BOOLEAN
        /\ mode' \in {"none", "spectrum", "cpc"}
    BY <1>2, <1>3, <1>5 DEF Routines
  <2>4. FlagsOK'
    BY <1>1, <1>9, <2>3 DEF SchedInv, TypeOK, FlagsOK
  <2> QED
    BY <2>2, <2>4 DEF TypeOK
<1>11. SavedOnce' /\ ReadyInv' /\ FractionInv'
  BY <1>1 DEF SchedInv, SavedOnce, ReadyInv, FractionInv
<1>12. TimesInv'
  BY <1>1, <1>2, <1>9 DEF TimesInv
<1>13. PaceInv' /\ Pace'
  <2>1. Regular' => Regular
    BY <1>1 DEF Regular
  <2>2. time <= then
    BY <1>2, <1>6, <1>9
  <2>3. CASE next_play' = next_play /\ calls' = calls /\ late' = late
    BY <1>1, <1>2, <1>9, <1>10, <2>1, <2>2, <2>3, PaceStep DEF SchedInv
  <2>4. CASE next_play' = next_play + p /\ calls' = calls /\ late'
    BY <1>1, <1>2, <1>8, <1>9, <1>10, <2>1, <2>2, <2>4, PaceStep DEF SchedInv
  <2>5. CASE /\ next_play' = next_play + p /\ calls' = calls + 1
             /\ next_play <= now /\ (late => late')
    BY <1>1, <1>2, <1>6, <1>8, <1>9, <1>10, <2>1, <2>5, PaceStep DEF SchedInv
  <2> QED
    BY <1>9, <2>3, <2>4, <2>5
<1> QED
  BY <1>10, <1>11, <1>12, <1>13 DEF SchedInv

LEMMA NsfRunInv == SchedInv /\ NsfRun => SchedInv'
<1> SUFFICES ASSUME SchedInv, NsfRun PROVE SchedInv'
  OBVIOUS
<1> DEFINE end == Lesser(SliceEnd, time + MaxRun)
           period == (play_period + play_extra) \div Divisor
<1>1. /\ emu = "nsf" /\ emu' = emu
      /\ UNCHANGED <<duration, failed, play_period, iff1, halted, mode, elapsed, steady>>
      /\ time < duration
  BY DEF NsfRun, ayVars
<1>2. /\ duration \in Nat /\ time \in Nat /\ next_play \in Int
      /\ calls \in Nat /\ elapsed \in Nat /\ late \in BOOLEAN
      /\ play_ready \in 0..PlayDelay /\ play_extra \in Int /\ drift \in Int
      /\ routine \in Routines /\ saved_state \in {"none", "init"}
      /\ play_period \in Rates /\ play_period \in Nat
      /\ MaxRun \in Nat \ {0} /\ Overshoot \in Nat /\ Divisor \in Nat \ {0}
      /\ PlayDelay \in Nat \ {0}
      /\ shortest \in Nat /\ longest \in Nat
  BY Constants, RatesBounded DEF SchedInv, TypeOK, NumbersOK, FlagsOK
<1>3. PICK stop \in CpuStops(end) :
        LET back  == stop[2] = "return"
            now   == IF back /\ saved_state = "none"
                     THEN NsfIdle(stop[1], end) ELSE stop[1]
            after == IF ~back THEN routine
                     ELSE IF saved_state = "none" THEN "idle"
                     ELSE saved_state
            saved == IF back THEN "none" ELSE saved_state
            ready == IF back THEN 1 ELSE play_ready
        IN  /\ time' = now
            /\ \/ /\ now < next_play
                  /\ routine' = after /\ saved_state' = saved
                  /\ play_ready' = ready
                  /\ UNCHANGED <<next_play, play_extra, calls, late, drift>>
               \/ /\ now >= next_play
                  /\ next_play' = next_play + period
                  /\ play_extra' = nsf_extra(period)
                  /\ drift' = drift + play_period - period * Divisor
                  /\ late' = (late \/ after # "idle")
                  /\ play_ready' = IF ready > 0 THEN ready - 1 ELSE 0
                  /\ IF NsfCalls(ready)
                     THEN /\ routine' = "play"
                          /\ saved_state' = IF after = "idle" THEN saved ELSE after
                          /\ calls' = calls + 1
                     ELSE /\ routine' = after /\ saved_state' = saved
                          /\ UNCHANGED calls
  BY DEF NsfRun
<1> DEFINE back  == stop[2] = "return"
           now   == IF back /\ saved_state = "none" THEN end ELSE stop[1]
           after == IF ~back THEN routine
                    ELSE IF saved_state = "none" THEN "idle" ELSE saved_state
           saved == IF back THEN "none" ELSE saved_state
           ready == IF back THEN 1 ELSE play_ready
<1>4. /\ end \in Int /\ end <= next_play
      /\ time <= next_play => time <= end
  BY <1>1, <1>2 DEF SliceEnd, Lesser
<1>5. /\ stop[1] \in Nat /\ time <= stop[1]
      /\ stop[1] <= time \/ stop[1] <= end + Overshoot
      /\ back => stop[1] < end
      /\ routine = "idle" /\ ~back => end <= time /\ stop[1] = time
  <2> HIDE DEF end
  <2> QED
    BY <1>2, <1>4, Stops DEF SchedInv
<1>6. /\ time' = now
      /\ \/ /\ now < next_play
            /\ routine' = after /\ saved_state' = saved
            /\ play_ready' = ready
            /\ UNCHANGED <<next_play, play_extra, calls, late, drift>>
         \/ /\ now >= next_play
            /\ next_play' = next_play + period
            /\ play_extra' = play_period - period * Divisor
            /\ drift' = drift + play_period - period * Divisor
            /\ late' = (late \/ after # "idle")
            /\ play_ready' = IF ready > 0 THEN ready - 1 ELSE 0
            /\ \/ /\ ready = 1
                  /\ routine' = "play"
                  /\ saved_state' = IF after = "idle" THEN saved ELSE after
                  /\ calls' = calls + 1
               \/ /\ ready # 1
                  /\ routine' = after /\ saved_state' = saved
                  /\ calls' = calls
  BY <1>3 DEF NsfIdle, nsf_extra, NsfCalls
<1> HIDE DEF end, period
<1>7. /\ now \in Nat /\ time <= now
      /\ time <= next_play => now <= next_play + Overshoot
  BY <1>2, <1>4, <1>5
<1>8. period \in Int
  BY <1>2, DivMod DEF period
<1> HIDE DEF now
<1>9. ready \in Nat /\ ready <= PlayDelay /\ late' \in BOOLEAN
  <2>1. late' \in BOOLEAN
    BY Zenon, <1>2, <1>6
  <2> QED
    BY <2>1, <1>2
<1>10. Regular => /\ period \in {play_period \div Divisor, play_period \div Divisor + 1}
                  /\ shortest <= period /\ period <= longest /\ Overshoot <= period
  <2> SUFFICES ASSUME Regular
               PROVE  /\ period \in {play_period \div Divisor, play_period \div Divisor + 1}
                      /\ shortest <= period /\ period <= longest /\ Overshoot <= period
    OBVIOUS
  <2>0. steady /\ play_period \in Usual
    BY <1>1, RatesBounded DEF Regular
  <2>1. RegularFraction(play_period, play_extra, drift)
    BY <1>1, <2>0 DEF SchedInv, FractionInv, RegularFraction
  <2>2. period \in {play_period \div Divisor, play_period \div Divisor + 1}
    <3> DEFINE y == play_period - period * Divisor
    <3>1. y = play_period - period * Divisor /\ period = (play_period + play_extra) \div Divisor
      BY DEF period
    <3> HIDE DEF y
    <3> QED
      BY <2>1, <1>2, <3>1, NsfPeriod
  <2> DEFINE q == play_period \div Divisor
  <2>3. q \in Nat /\ shortest <= q /\ q > Overshoot + 2
    BY <1>1, <2>0, RateFacts DEF SchedInv, TypeOK, FlagsOK
  <2>4. q + 1 <= longest
    BY <1>1, <2>0, RatesBounded DEF PeriodClocks
  <2> HIDE DEF q
  <2>5. /\ period \in {q, q + 1}
        /\ shortest <= period /\ period <= longest /\ Overshoot <= period
    BY <2>2, <2>3, <2>4, <1>2 DEF q
  <2> QED
    BY <2>5 DEF q
<1>11. FractionInv'
  <2> SUFFICES ASSUME steady PROVE RegularFraction(play_period', play_extra', drift')
    BY <1>1 DEF FractionInv, RegularFraction
  <2>1. RegularFraction(play_period, play_extra, drift)
    BY <1>1 DEF SchedInv, FractionInv, RegularFraction
  <2>2. CASE UNCHANGED <<play_extra, drift>>
    BY <1>1, <2>1, <2>2 DEF RegularFraction
  <2>3. CASE /\ play_extra' = play_period - period * Divisor
             /\ drift' = drift + play_period - period * Divisor
    <3> DEFINE y == play_period - period * Divisor
    <3>1. RegularFraction(play_period, y, drift + y)
      BY <1>2, <2>1, NsfPeriod DEF period
    <3>2. y \in Int /\ drift + play_period - period * Divisor = drift + y
      BY <1>2, <1>8
    <3> QED
      BY Zenon, <1>1, <2>3, <3>1, <3>2
  <2> QED
    BY <1>6, <2>2, <2>3
<1>12. NumbersOK'
  <2>1. CASE UNCHANGED <<next_play, play_extra, calls, late, drift>> /\ play_ready' = ready
    BY <1>1, <1>2, <1>6, <1>7, <1>9, <2>1, SameRates DEF NumbersOK
  <2>2. CASE /\ next_play' = next_play + period
             /\ play_extra' = play_period - period * Divisor
             /\ drift' = drift + play_period - period * Divisor
             /\ play_ready' = (IF ready > 0 THEN ready - 1 ELSE 0)
             /\ calls' \in {calls, calls + 1}
    <3>1. /\ next_play + period \in Int
          /\ play_period - period * Divisor \in Int
          /\ drift + play_period - period * Divisor \in Int
          /\ (IF ready > 0 THEN ready - 1 ELSE 0) \in 0..PlayDelay
          /\ calls + 1 \in Nat
      BY <1>2, <1>8, <1>9
    <3>2. /\ next_play' \in Int /\ play_extra' \in Int /\ drift' \in Int
          /\ play_ready' \in 0..PlayDelay /\ calls' \in Nat
      BY Zenon, <1>2, <2>2, <3>1
    <3> QED
      BY <1>1, <1>2, <1>6, <1>7, <3>2, SameRates DEF NumbersOK
  <2> QED
    BY <1>6, <2>1, <2>2
<1>13. FlagsOK' /\ SavedOnce' /\ ReadyInv'
  <2>1. /\ saved_state # "none" => routine = "play" /\ play_ready = 0
        /\ routine = "play" => play_ready = 0
        /\ routine = "idle" => play_ready = 1
        /\ saved_state \in {"none", "init"} /\ routine \in {"init", "play", "idle"}
    BY <1>1, <1>2 DEF SchedInv, SavedOnce, ReadyInv, Routines
  <2>2. /\ routine' \in {"init", "play", "idle"} /\ saved_state' \in {"none", "init"}
        /\ saved_state' # "none" => /\ saved_state' = "init" /\ routine' = "play"
                                    /\ play_ready' = 0
        /\ routine' = "play" => play_ready' = 0
        /\ routine' = "idle" => play_ready' = 1
    <3>1. CASE /\ routine' = after /\ saved_state' = saved /\ play_ready' = ready
      BY <2>1, <3>1
    <3>2. CASE /\ ready = 1 /\ routine' = "play"
               /\ saved_state' = IF after = "idle" THEN saved ELSE after
               /\ play_ready' = IF ready > 0 THEN ready - 1 ELSE 0
      BY <2>1, <3>2
    <3>3. CASE /\ ready # 1 /\ routine' = after /\ saved_state' = saved
               /\ play_ready' = IF ready > 0 THEN ready - 1 ELSE 0
      BY <2>1, <3>3
    <3> QED
      BY <1>6, <3>1, <3>2, <3>3
  <2>3. FlagsOK'
    BY <1>1, <1>9, <2>2 DEF SchedInv, TypeOK, FlagsOK, Routines
  <2>4. SavedOnce' /\ ReadyInv'
    BY <1>1, <2>2 DEF SavedOnce, ReadyInv
  <2> QED
    BY <2>3, <2>4
<1>14. TimesInv'
  <2>1. Regular => time <= next_play
    BY <1>1 DEF SchedInv, TimesInv
  <2>2. Regular => steady
    BY <1>1 DEF Regular
  <2>3. CASE next_play' = next_play /\ now < next_play
    BY <1>1, <1>2, <1>6, <1>7, <2>3 DEF TimesInv
  <2>4. CASE next_play' = next_play + period
    BY <1>1, <1>2, <1>6, <1>7, <1>8, <1>10, <2>1, <2>2, <2>4 DEF TimesInv, Regular
  <2> QED
    BY <1>6, <2>3, <2>4
<1>15. PaceInv' /\ Pace'
  <2>1. Regular' => Regular /\ steady
    BY <1>1 DEF Regular
  <2>2. TypeOK'
    BY <1>12, <1>13 DEF TypeOK
  <2>3. CASE UNCHANGED <<next_play, calls, late>>
    BY <1>1, <1>2, <1>6, <1>7, <2>1, <2>2, <2>3, PaceStep DEF SchedInv
  <2>4. CASE /\ now >= next_play /\ next_play' = next_play + period
             /\ ready = 1 /\ calls' = calls + 1
             /\ late' = (late \/ after # "idle")
    <3>1. late => late'
      BY Zenon, <2>4
    <3>2. Regular' => /\ next_play + shortest <= next_play'
                      /\ next_play' <= next_play + longest
                      /\ next_play <= time'
      BY <1>2, <1>6, <1>7, <1>8, <1>10, <2>1, <2>4
    <3> QED
      BY <1>1, <2>1, <2>2, <2>4, <3>1, <3>2, PaceStep DEF SchedInv, Regular
  <2>5. CASE /\ now >= next_play /\ next_play' = next_play + period
             /\ ready # 1 /\ calls' = calls
             /\ late' = (late \/ after # "idle")
    <3>1. after # "idle"
      BY <1>1, <2>5 DEF SchedInv, ReadyInv, SavedOnce
    <3>2. late'
      BY Zenon, <2>5, <3>1
    <3>3. Regular' => /\ elapsed + next_play <= elapsed' + next_play'
                      /\ elapsed + time <= elapsed' + time'
      BY <1>1, <1>2, <1>6, <1>7, <1>8, <1>10, <2>1, <2>5
    <3> QED
      BY <1>1, <2>1, <2>2, <2>5, <3>2, <3>3, PaceStep DEF SchedInv, Regular
  <2> QED
    BY <1>6, <2>3, <2>4, <2>5
<1> QED
  BY <1>11, <1>12, <1>13, <1>14, <1>15 DEF SchedInv, TypeOK

LEMMA StutterInv == SchedInv /\ UNCHANGED vars => SchedInv'
<1> SUFFICES ASSUME SchedInv, UNCHANGED vars PROVE SchedInv'
  OBVIOUS
<1> USE DEF vars, frameVars, nsfVars, ayVars
<1>1. TypeOK'
  BY SameRates DEF SchedInv, TypeOK, NumbersOK, FlagsOK
<1>2. SavedOnce' /\ ReadyInv' /\ TimesInv' /\ FractionInv'
  BY DEF SchedInv, SavedOnce, ReadyInv, TimesInv, FractionInv, Regular
<1>3. PaceInv' /\ Pace'
  BY SameRates DEF SchedInv, PaceInv, Pace, Regular
<1> QED
  BY <1>1, <1>2, <1>3 DEF SchedInv

-----------------------------------------------------------------------------
(***************************************************************************)
(* The theorems.                                                           *)
(***************************************************************************)

\* In every run of every emulator, with every frame, period and routine, the
\* fields of the scheduler are consistent: no interrupted routine's registers
\* are overwritten, no fraction of a clock is lost, and the next play is where
\* the pace puts it (the run_clocks() of the emulators).
THEOREM SchedulerInvariant == Spec => []SchedInv
<1>1. SchedInv /\ [Next]_vars => SchedInv'
  BY StartTrackInv, SetTempoInv, BeginFrameInv, NsfRunInv, GbsRunInv, KssRunInv,
     SapRunInv, AyRunInv, EndFrameInv, StutterInv DEF Next, Step
<1> QED
  BY InitInv, <1>1, PTL DEF Spec

\* No song is played faster than its shortest period, nor, while its routines
\* return in time, slower than its longest.
THEOREM SongKeepsPace == Spec => []Pace
<1>1. SchedInv => Pace
  BY DEF SchedInv
<1> QED
  BY <1>1, SchedulerInvariant, PTL

\* One place is enough for the registers of a routine that NSF interrupts.
THEOREM RegistersSavedOnce == Spec => []SavedOnce
<1>1. SchedInv => SavedOnce
  BY DEF SchedInv
<1> QED
  BY <1>1, SchedulerInvariant, PTL

\* check( next_play >= 0 ) holds at the end of every frame of NSF, KSS and AY.
THEOREM NoPlayIsLeftDue == Spec => []DueIsServed
<1>1. SchedInv => DueIsServed
  BY DEF SchedInv, TimesInv, DueIsServed
<1> QED
  BY <1>1, SchedulerInvariant, PTL

\* NSF at a rate of whole or half clocks stays within one clock of the exact
\* rate, however long the song plays.
THEOREM NoDriftOfTempo == Spec => []TempoKept
<1>1. SchedInv => TempoKept
  <2> SUFFICES ASSUME SchedInv, emu = "nsf", steady, (2 * play_period) % Divisor = 0
               PROVE  drift \in 0..Divisor
    BY DEF TempoKept
  <2> DEFINE f == play_period % Divisor
             q == play_period \div Divisor
  <2>1. Divisor \in Nat \ {0} /\ play_period \in Nat /\ play_extra \in Int
    BY Constants, Numbers DEF SchedInv
  <2>2. q \in Int /\ f \in 0..Divisor - 1 /\ play_period = Divisor * q + f
    BY <2>1, DivMod
  <2>3. /\ f = 0 => drift = 0
        /\ 2 * f = Divisor => drift = IF play_extra = f THEN Divisor ELSE f
    BY DEF SchedInv, FractionInv
  <2>4. (2 * play_period) % Divisor = 0
    OBVIOUS
  <2> HIDE DEF f, q
  <2>5. CASE 2 * f < Divisor
    <3>1. /\ 2 * play_period = Divisor * (2 * q) + 2 * f
          /\ 2 * f \in 0..Divisor - 1 /\ 2 * q \in Int /\ 2 * play_period \in Int
      BY <2>1, <2>2, <2>5
    <3>2. 2 * f = 0
      BY <2>1, <2>4, <3>1, DivUnique
    <3> QED
      BY <2>1, <2>2, <2>3, <3>2
  <2>6. CASE 2 * f >= Divisor
    <3>1. /\ 2 * play_period = Divisor * (2 * q + 1) + (2 * f - Divisor)
          /\ 2 * f - Divisor \in 0..Divisor - 1 /\ 2 * q + 1 \in Int
          /\ 2 * play_period \in Int
      BY <2>1, <2>2, <2>6
    <3>2. 2 * f - Divisor = 0
      BY <2>1, <2>4, <3>1, DivUnique
    <3> QED
      BY <2>1, <2>2, <2>3, <3>2
  <2> QED
    BY <2>1, <2>2, <2>5, <2>6
<1> QED
  BY <1>1, SchedulerInvariant, PTL

-----------------------------------------------------------------------------
(***************************************************************************)
(* The end of every frame.                                                 *)
(***************************************************************************)
Nearer == /\ duration' = duration /\ PlaysLeft' <= PlaysLeft
          /\ \/ PlaysLeft' < PlaysLeft
             \/ TimeLeft' < TimeLeft
             \/ /\ TimeLeft' = TimeLeft
                /\ saved_state # "none" /\ saved_state' = "none"

\* A later play is nearer to the end of the frame if it was within it, and a
\* later time is nearer to it.
LEMMA LaterIsNearer ==
    ASSUME NEW d \in Nat, NEW now \in Nat, NEW next \in Int, now < d,
           TypeOK, duration = d, time = now, next_play = next,
           NEW t \in Nat, NEW n \in Int,
           duration' = d, time' = t, next_play' = n,
           \/ next < n /\ next <= d
           \/ next <= n /\ now < t
           \/ /\ n = next /\ t = now
              /\ saved_state # "none" /\ saved_state' = "none"
    PROVE  Nearer
<1>1. /\ PlaysLeft = d + 1 - Lesser(next, d + 1)
      /\ TimeLeft = d - Lesser(now, d)
      /\ PlaysLeft' = d + 1 - Lesser(n, d + 1)
      /\ TimeLeft' = d - Lesser(t, d)
  BY DEF PlaysLeft, TimeLeft, Lesser
<1> DEFINE plays(x) == d + 1 - Lesser(x, d + 1)
           times(x) == d - Lesser(x, d)
<1>2. CASE next < n /\ next <= d
  <2>1. plays(n) < plays(next)
    BY <1>2 DEF Lesser
  <2>2. plays(n) \in Int /\ plays(next) \in Int
    BY DEF Lesser
  <2> HIDE DEF plays
  <2> QED
    BY <1>1, <2>1, <2>2 DEF Nearer, plays
<1>3. CASE next <= n /\ now < t
  <2>1. plays(n) <= plays(next) /\ times(t) < times(now)
    BY <1>3 DEF Lesser
  <2> HIDE DEF plays, times
  <2> QED
    BY <1>1, <2>1 DEF Nearer, plays, times
<1>4. CASE /\ n = next /\ t = now
           /\ saved_state # "none" /\ saved_state' = "none"
  <2>1. plays(n) <= plays(next)
    BY <1>4 DEF Lesser
  <2> HIDE DEF plays
  <2> QED
    BY <1>1, <1>4, <2>1 DEF Nearer, plays
<1> QED
  BY <1>2, <1>3, <1>4

\* An illegal instruction takes time.
LEMMA IllegalTakesTime ==
    ASSUME TypeOK, NEW end \in Int, NEW stop \in CpuStops(end),
           stop[2] = "illegal"
    PROVE  time < stop[1]
<1>1. time \in Nat
  BY DEF TypeOK, NumbersOK
<1>2. stop \in (time + 1..end - 1) \X {"illegal"}
  BY DEF CpuStops
<1> QED
  BY <1>1, <1>2

LEMMA GbsNearer == SchedInv /\ GbsRun => Nearer
<1> SUFFICES ASSUME SchedInv, GbsRun PROVE Nearer
  OBVIOUS
<1>1. duration' = duration /\ time < duration /\ emu = "gbs"
  BY DEF GbsRun
<1>2. PICK p \in Rates, stop \in CpuStops(duration) :
        \/ /\ stop[2] = "return" /\ next_play > duration
           /\ time' = duration /\ next_play' = next_play
        \/ /\ stop[2] = "return" /\ next_play <= duration
           /\ time' = GbsPlayTime(stop[1]) /\ next_play' = next_play + p
        \/ /\ stop[2] = "illegal"
           /\ time' = stop[1] + IllegalCost /\ next_play' = next_play
        \/ /\ stop[2] = "time"
           /\ time' = duration /\ next_play' = next_play
  BY DEF GbsRun, SchedInv, TypeOK, NumbersOK
<1>3. /\ duration \in Nat /\ time \in Nat /\ next_play \in Int
      /\ IllegalCost \in Nat /\ p \in Nat \ {0} /\ TypeOK
  BY <1>1, Constants, RatesBounded DEF SchedInv, TypeOK, NumbersOK
<1>4. stop[1] \in Nat /\ time <= stop[1]
  BY <1>3, Stops
<1>5. stop[2] = "illegal" => time < stop[1]
  BY <1>3, IllegalTakesTime
<1>6. CASE time' = duration /\ next_play' = next_play
  BY <1>1, <1>3, <1>6, LaterIsNearer
<1>7. CASE /\ next_play <= duration
           /\ time' = GbsPlayTime(stop[1]) /\ next_play' = next_play + p
  <2> DEFINE t == GbsPlayTime(stop[1])
             n == next_play + p
  <2>1. t \in Nat /\ n \in Int /\ next_play < n
    BY <1>3, <1>4 DEF GbsPlayTime
  <2> HIDE DEF t, n
  <2>2. time' = t /\ next_play' = n
    BY <1>7 DEF t, n
  <2> QED
    BY <1>1, <1>3, <1>7, <2>1, <2>2, LaterIsNearer
<1>8. CASE /\ stop[2] = "illegal"
           /\ time' = stop[1] + IllegalCost /\ next_play' = next_play
  <2> DEFINE t == stop[1] + IllegalCost
  <2>1. t \in Nat /\ time < t
    BY <1>3, <1>4, <1>5, <1>8
  <2> HIDE DEF t
  <2>2. time' = t
    BY <1>8 DEF t
  <2> QED
    BY <1>1, <1>3, <1>8, <2>1, <2>2, LaterIsNearer
<1> QED
  BY <1>2, <1>6, <1>7, <1>8

LEMMA KssNearer == SchedInv /\ KssRun => Nearer
<1> SUFFICES ASSUME SchedInv, KssRun PROVE Nearer
  OBVIOUS
<1> DEFINE end == SliceEnd
<1>1. duration' = duration /\ time < duration /\ emu = "kss"
  BY DEF KssRun
<1>2. PICK stop \in CpuStops(end), idle \in BOOLEAN :
        /\ stop[2] = "return" => idle
        /\ time' = IF idle THEN end ELSE stop[1]
        /\ next_play' = IF time' >= next_play THEN next_play + play_period
                                              ELSE next_play
  BY DEF KssRun
<1>3. /\ duration \in Nat /\ time \in Nat /\ next_play \in Int
      /\ play_period \in Nat \ {0} /\ TypeOK /\ time <= next_play
  BY <1>1, RatesBounded DEF SchedInv, TypeOK, NumbersOK, TimesInv, Regular
<1>4. end = time => next_play = time
  BY <1>1, <1>3 DEF SliceEnd, Lesser
<1>5. end \in Nat /\ time <= end
  BY <1>1, <1>3 DEF SliceEnd, Lesser
<1> HIDE DEF end
<1>6. /\ stop[1] \in Nat /\ time <= stop[1]
      /\ stop[2] \in {"time", "return", "illegal"}
      /\ stop[2] = "time" => end <= stop[1]
  BY <1>3, <1>5, Stops
<1>7. stop[2] = "illegal" => time < stop[1]
  BY <1>3, <1>5, IllegalTakesTime
<1>8. PICK t \in Nat :
        /\ time' = t /\ time <= t
        /\ t = time => next_play = time
  BY <1>2, <1>3, <1>4, <1>5, <1>6, <1>7
<1>9. PICK n \in Int :
        /\ next_play' = n /\ next_play <= n
        /\ t >= next_play => next_play < n
  <2>1. next_play + play_period \in Int /\ next_play < next_play + play_period
    BY <1>3
  <2>2. CASE t >= next_play
    <3>1. next_play' = next_play + play_period
      BY Zenon, <1>2, <1>8, <2>2
    <3> DEFINE n == next_play + play_period
    <3>2. n \in Int /\ next_play < n /\ next_play' = n
      BY <2>1, <3>1
    <3> HIDE DEF n
    <3>3. /\ next_play' = n /\ next_play <= n
          /\ t >= next_play => next_play < n
      BY <1>3, <3>2
    <3> QED
      BY Zenon, <3>2, <3>3
  <2>3. CASE ~(t >= next_play)
    BY <1>2, <1>3, <1>8, <2>3
  <2> QED
    BY <2>2, <2>3
<1> QED
  BY <1>1, <1>3, <1>8, <1>9, LaterIsNearer

LEMMA SapNearer == SchedInv /\ SapRun => duration' = 0 \/ Nearer
<1> SUFFICES ASSUME SchedInv, SapRun, ~(duration' = 0) PROVE Nearer
  OBVIOUS
<1>1. PICK stop \in CpuStops(duration), idle \in BOOLEAN :
        /\ duration' = duration
        /\ stop[2] = "return" => idle
        /\ stop[2] # "illegal"
        /\ \/ /\ next_play <= duration
              /\ time' = next_play /\ next_play' = next_play + play_period
           \/ time' = duration /\ next_play' = next_play
           \/ /\ ~idle
              /\ time' = stop[1] /\ next_play' = next_play
  BY DEF SapRun
<1>2. time < duration /\ emu = "sap"
  BY DEF SapRun
<1>3. /\ duration \in Nat /\ time \in Nat /\ next_play \in Nat
      /\ play_period \in Nat \ {0} /\ TypeOK
  BY <1>2, RatesBounded DEF SchedInv, TypeOK, NumbersOK, TimesInv
<1>4. CASE /\ next_play <= duration
           /\ time' = next_play /\ next_play' = next_play + play_period
  <2> DEFINE n == next_play + play_period
  <2>1. n \in Int /\ next_play < n
    BY <1>3
  <2> HIDE DEF n
  <2>2. next_play' = n
    BY <1>4 DEF n
  <2> QED
    BY <1>1, <1>2, <1>3, <1>4, <2>1, <2>2, LaterIsNearer
<1>5. CASE time' = duration /\ next_play' = next_play
  BY <1>1, <1>2, <1>3, <1>5, LaterIsNearer
<1>6. CASE ~idle /\ time' = stop[1] /\ next_play' = next_play
  <2>1. stop[1] \in Nat /\ stop[2] \in {"time", "return", "illegal"}
        /\ (stop[2] = "time" => duration <= stop[1])
    BY <1>3, Stops
  <2>2. time < stop[1]
    BY <1>1, <1>2, <1>3, <1>6, <2>1
  <2> QED
    BY <1>1, <1>2, <1>3, <1>6, <2>1, <2>2, LaterIsNearer
<1> QED
  BY <1>1, <1>4, <1>5, <1>6

LEMMA AyNearer == SchedInv /\ AyRun => Nearer
<1> SUFFICES ASSUME SchedInv, AyRun PROVE Nearer
  OBVIOUS
<1> DEFINE end == SliceEnd
<1>1. duration' = duration /\ time < duration /\ emu = "ay"
  BY DEF AyRun
<1>2. /\ duration \in Nat /\ time \in Nat /\ next_play \in Int
      /\ play_period \in Periods /\ Overshoot \in Nat
      /\ Periods \subseteq Nat \ {0} /\ IntCosts \subseteq Nat
      /\ TypeOK /\ time <= next_play
  BY <1>1, Constants, RatesBounded
     DEF SchedInv, TypeOK, NumbersOK, TimesInv, Regular
<1>3. PICK now \in IF time >= end THEN {time} ELSE end..end + Overshoot,
           m \in {"none", "spectrum", "cpc"} :
        /\ play_period' \in CpcPeriods(m)
        /\ \/ /\ now < next_play
              /\ time' = now /\ next_play' = next_play
           \/ /\ now >= next_play
              /\ \E c \in IntCosts : time' = now + c
              /\ next_play' = next_play + play_period'
           \/ /\ now >= next_play
              /\ time' = now
              /\ next_play' = next_play + play_period'
  <2>1. Modes \subseteq {"none", "spectrum", "cpc"}
        /\ mode \in {"none", "spectrum", "cpc"}
    BY DEF Modes, SchedInv, TypeOK, FlagsOK
  <2>2. PICK now \in IF time >= end THEN {time} ELSE end..end + Overshoot,
             ei \in IF halted \/ time >= end THEN {iff1} ELSE BOOLEAN,
             m \in IF halted \/ time >= end THEN {mode} ELSE Modes :
          /\ play_period' \in CpcPeriods(m)
          /\ \/ /\ now < next_play
                /\ time' = now /\ next_play' = next_play
             \/ /\ now >= next_play
                /\ \E c \in IntCosts : time' = now + c
                /\ next_play' = next_play + play_period'
             \/ /\ now >= next_play
                /\ time' = now
                /\ next_play' = next_play + play_period'
    BY Zenon DEF AyRun
  <2>3. m \in {"none", "spectrum", "cpc"}
    BY <2>1, <2>2
  <2> QED
    BY Zenon, <2>2, <2>3
<1>4. PICK p \in Nat \ {0} : play_period' = p
  BY <1>2, <1>3 DEF CpcPeriods
<1>5. end \in Nat /\ time <= end /\ (end = time => next_play = time)
  BY <1>1, <1>2 DEF SliceEnd, Lesser
<1> HIDE DEF end
<1>6. now \in Nat /\ time <= now /\ (now = time => next_play = time)
  BY <1>2, <1>3, <1>5
<1>7. CASE now < next_play /\ time' = now /\ next_play' = next_play
  <2>1. time < now
    BY <1>2, <1>6, <1>7
  <2> QED
    BY <1>1, <1>2, <1>6, <1>7, <2>1, LaterIsNearer
<1>8. ASSUME now >= next_play, NEW t \in Nat, now <= t, time' = t,
             next_play' = next_play + play_period'
      PROVE  Nearer
  <2> DEFINE n == next_play + p
  <2>1. /\ n \in Int /\ next_play < n
        /\ next_play <= duration \/ time < t
    BY <1>1, <1>2, <1>4, <1>6, <1>8
  <2> HIDE DEF n
  <2>2. next_play' = n
    BY <1>4, <1>8 DEF n
  <2> QED
    BY <1>1, <1>2, <1>8, <2>1, <2>2, LaterIsNearer
<1>9. CASE /\ now >= next_play
           /\ \E c \in IntCosts : time' = now + c
           /\ next_play' = next_play + play_period'
  <2>1. PICK c \in IntCosts : time' = now + c
    BY <1>9
  <2>2. now + c \in Nat /\ now <= now + c
    BY <1>2, <1>6
  <2> QED
    BY <1>8, <1>9, <2>1, <2>2
<1>10. CASE /\ now >= next_play /\ time' = now
            /\ next_play' = next_play + play_period'
  BY <1>6, <1>8, <1>10
<1> QED
  BY <1>3, <1>7, <1>9, <1>10

\* NSF's period is a clock or more, also with the fraction carried over.
LEMMA NsfNearer ==
    ASSUME SchedInv, NsfRun, steady, play_period >= Divisor
    PROVE  Nearer
<1> DEFINE end == Lesser(SliceEnd, time + MaxRun)
           period == (play_period + play_extra) \div Divisor
<1>1. duration' = duration /\ time < duration /\ emu = "nsf"
  BY DEF NsfRun
<1>2. /\ duration \in Nat /\ time \in Nat /\ next_play \in Int
      /\ play_period \in Nat /\ Divisor \in Nat \ {0}
      /\ play_extra \in Int /\ drift \in Int
      /\ MaxRun \in Nat \ {0} /\ TypeOK
      /\ saved_state \in {"none", "init"}
  BY <1>1, Constants, RatesBounded DEF SchedInv, TypeOK, NumbersOK, FlagsOK
<1>3. PICK stop \in CpuStops(end) :
        LET back  == stop[2] = "return"
            now   == IF back /\ saved_state = "none" THEN end ELSE stop[1]
        IN  /\ time' = now
            /\ \/ /\ now < next_play
                  /\ saved_state' = IF back THEN "none" ELSE saved_state
                  /\ next_play' = next_play
               \/ /\ now >= next_play
                  /\ next_play' = next_play + period
  BY DEF NsfRun, NsfIdle
<1> DEFINE back  == stop[2] = "return"
           now   == IF back /\ saved_state = "none" THEN end ELSE stop[1]
<1>4. period \in Nat \ {0}
  <2>1. RegularFraction(play_period, play_extra, drift)
    BY <1>1 DEF SchedInv, FractionInv, RegularFraction
  <2>2. period \in {play_period \div Divisor, play_period \div Divisor + 1}
    BY <1>2, <2>1, NsfPeriod
  <2> DEFINE q == play_period \div Divisor
  <2>3. q \in Nat /\ Divisor \div Divisor <= q
    BY <1>2, DivSmall, DivMonotonic
  <2> HIDE DEF q
  <2>4. Divisor \div Divisor = 1
    <3>1. Divisor = Divisor * 1 + 0 /\ 0 \in 0..Divisor - 1
      BY <1>2
    <3> QED
      BY <1>2, <3>1, DivUnique
  <2> HIDE DEF period
  <2> QED
    BY <2>2, <2>3, <2>4 DEF q
<1>5. /\ end \in Int
      /\ end <= next_play
      /\ end <= time => next_play <= time
  BY <1>1, <1>2 DEF SliceEnd, Lesser
<1> HIDE DEF end, period
<1>6. /\ stop[1] \in Nat /\ time <= stop[1]
      /\ stop[2] \in {"time", "return", "illegal"}
      /\ stop[2] = "time" => end <= stop[1]
      /\ stop[2] = "return" => stop[1] < end
      /\ end <= time => stop[2] = "time" /\ stop[1] = time
  BY <1>2, <1>5, Stops
<1>7. stop[2] = "illegal" => time < stop[1]
  BY <1>2, <1>5, IllegalTakesTime
<1>8. /\ now \in Nat /\ time <= now
      /\ now = time /\ now < next_play => back /\ saved_state # "none"
  BY <1>2, <1>5, <1>6, <1>7
<1>9. /\ time' = now
      /\ \/ /\ now < next_play
            /\ saved_state' = IF back THEN "none" ELSE saved_state
            /\ next_play' = next_play
         \/ now >= next_play /\ next_play' = next_play + period
  BY <1>3
<1> HIDE DEF now
<1>10. CASE /\ now < next_play /\ next_play' = next_play
            /\ saved_state' = IF back THEN "none" ELSE saved_state
  <2>1. \/ time < now
        \/ now = time /\ saved_state # "none" /\ saved_state' = "none"
    BY <1>2, <1>8, <1>10
  <2> QED
    BY <1>1, <1>2, <1>8, <1>9, <1>10, <2>1, LaterIsNearer
<1>11. CASE now >= next_play /\ next_play' = next_play + period
  <2> DEFINE n == next_play + period
  <2>1. /\ n \in Int /\ next_play < n
        /\ next_play <= duration \/ time < now
    BY <1>1, <1>2, <1>4, <1>8, <1>11
  <2> HIDE DEF n
  <2>2. next_play' = n
    BY <1>11 DEF n
  <2> QED
    BY <1>1, <1>2, <1>8, <1>9, <2>1, <2>2, LaterIsNearer
<1> QED
  BY <1>9, <1>10, <1>11

\* Every frame returns: no turn of the loop of run_clocks() is in vain, for
\* any routine, and for NSF at any tempo that has not been changed since the
\* track began, of any period of a clock or more, however short.  All that
\* FrameReturns needs besides is that the loop goes on.
THEOREM FramesGoOn == Spec => FrameProgress
<1>1. SchedInv =>
        [Step /\ (emu = "nsf" => steady /\ play_period >= Divisor)
           => \/ duration' = 0
              \/ /\ duration' = duration /\ PlaysLeft' <= PlaysLeft
                 /\ \/ PlaysLeft' < PlaysLeft
                    \/ TimeLeft' < TimeLeft
                    \/ /\ TimeLeft' = TimeLeft
                       /\ saved_state # "none" /\ saved_state' = "none"]_vars
  <2> SUFFICES ASSUME SchedInv, Step,
                      emu = "nsf" => steady /\ play_period >= Divisor
               PROVE  duration' = 0 \/ Nearer
    BY DEF Nearer
  <2>1. EndFrame => duration' = 0
    BY DEF EndFrame
  <2>2. NsfRun => Nearer
    <3>1. NsfRun => emu = "nsf"
      BY DEF NsfRun
    <3> QED
      BY <3>1, NsfNearer
  <2> QED
    BY <2>1, <2>2, GbsNearer, KssNearer, SapNearer, AyNearer DEF Step
<1> QED
  BY <1>1, SchedulerInvariant, PTL DEF FrameProgress, Spec
=============================================================================
