------------------------- MODULE BufferedEmuProofs -------------------------
(***************************************************************************)
(* The buffers between an emulator and the engine, for every size of frame,*)
(* buffer and impulse: BufferInv is inductive, so that all buffers of a    *)
(* group stay at the same time and no sound is removed as silence, but for *)
(* the end of an impulse in an Effects_Buffer.                             *)
(***************************************************************************)
EXTENDS BufferedEmu, TLAPS

-----------------------------------------------------------------------------
(***************************************************************************)
(* Arithmetic.                                                             *)
(***************************************************************************)

LEMMA Quotient ==
    ASSUME NEW a \in Nat, NEW d \in Nat \ {0}
    PROVE  /\ a \div d \in Nat
           /\ d * (a \div d) <= a /\ a < d * (a \div d) + d
  OBVIOUS

LEMMA QuotientUnique ==
    ASSUME NEW a \in Nat, NEW d \in Nat \ {0}, NEW q \in Nat,
           d * q <= a, a < d * q + d
    PROVE  a \div d = q
  OBVIOUS

LEMMA QuotientMonotonic ==
    ASSUME NEW a \in Nat, NEW b \in Nat, NEW d \in Nat \ {0}, a <= b
    PROVE  a \div d <= b \div d
  OBVIOUS

LEMMA ProductMonotonic ==
    ASSUME NEW a \in Nat, NEW b \in Nat, NEW c \in Nat, NEW d \in Nat, a <= b, c <= d
    PROVE  a * c <= b * d
  OBVIOUS

LEMMA MinMaxOfTwo ==
    ASSUME NEW a \in Int, NEW b \in Int
    PROVE  /\ Min({a, b}) = IF a <= b THEN a ELSE b
           /\ Max({a, b}) = IF a <= b THEN b ELSE a
  BY DEF Min, Max

LEMMA MaxOfNats ==
    ASSUME NEW a \in Nat, NEW b \in Nat
    PROVE  Max({a, b}) \in Nat /\ a <= Max({a, b}) /\ b <= Max({a, b})
<1> DEFINE m == Max({a, b})
<1>1. m = IF a <= b THEN b ELSE a
  BY MinMaxOfTwo
<1> HIDE DEF m
<1>2. m \in Nat /\ a <= m /\ b <= m
  BY <1>1
<1> QED
  BY <1>2 DEF m

LEMMA CountDown ==
    ASSUME NEW a \in Nat, NEW n \in Nat
    PROVE  Max({0, a - n}) = IF n <= a THEN a - n ELSE 0
<1> DEFINE b == a - n
<1>1. b \in Int /\ (n <= a <=> 0 <= b)
  OBVIOUS
<1>2. Max({0, b}) = IF 0 <= b THEN b ELSE 0
  <2> HIDE DEF b
  <2> QED
    BY <1>1, MinMaxOfTwo
<1> QED
  BY <1>1, <1>2

LEMMA Constants ==
    /\ Kinds \subseteq {"stereo", "effects"}
    /\ Unit \in Nat \ {0} /\ Factor \in Nat \ {0} /\ Clocks \in Nat /\ Overshoot \in Nat
    /\ Width \in Nat \ {0} /\ Latency \in Nat /\ Counts \subseteq Nat \ {0}
    /\ Emulators \subseteq {"fixed", "unknown"} /\ BufferSize \in Nat
    /\ (Clocks + 2 * Overshoot) * Factor < BufferSize * Unit
    /\ (Clocks \div 2) * Factor >= (Width + 1) * Unit
  BY BufferAssumption DEF BufferAssumption

\* What Effects_Buffer remembers, and what is short of an impulse.
LEMMA ShortIs == Short \in Nat /\ Width <= Latency + Short
<1> DEFINE d == Width - Latency
<1>1. Width \in Nat /\ Latency \in Nat /\ d \in Int
  BY Constants
<1>2. Short = IF 0 <= d THEN d ELSE 0
  <2>1. Max({0, d}) = IF 0 <= d THEN d ELSE 0
    <3> HIDE DEF d
    <3> QED
      BY <1>1, MinMaxOfTwo
  <2> QED
    BY <2>1 DEF Short
<1> QED
  BY <1>1, <1>2

\* The time of a frame in any mode: it fits into the buffers, and it is longer
\* than an impulse.
LEMMA FrameTime ==
    ASSUME NEW over \in 0..Overshoot, NEW c \in {Clocks, Clocks \div 2},
           NEW f \in {Factor, 2 * Factor}, f = 2 * Factor => c = Clocks \div 2
    PROVE  /\ (c + over) * f \in Nat
           /\ (c + over) * f < BufferSize * Unit
           /\ (Width + 1) * Unit <= (c + over) * f
<1> DEFINE half == Clocks \div 2
<1>1. half \in Nat /\ 2 * half <= Clocks /\ half <= Clocks
  BY Constants
<1>2. /\ Factor \in Nat \ {0} /\ Overshoot \in Nat /\ Clocks \in Nat
      /\ (Clocks + 2 * Overshoot) * Factor < BufferSize * Unit
      /\ half * Factor >= (Width + 1) * Unit
      /\ BufferSize * Unit \in Nat /\ (Width + 1) * Unit \in Nat
  BY Constants
<1> HIDE DEF half
<1>3. (c + over) * f <= (Clocks + 2 * Overshoot) * Factor
  <2>1. CASE f = Factor
    BY <2>1, <1>1, <1>2, ProductMonotonic DEF half
  <2>2. CASE f = 2 * Factor
    <3>1. c = half
      BY <2>2 DEF half
    <3>2. (c + over) * f = (2 * c + 2 * over) * Factor
      BY <2>2, <3>1, <1>1, <1>2
    <3> QED
      BY <3>1, <3>2, <1>1, <1>2, ProductMonotonic
  <2> QED
    BY <2>1, <2>2
<1>4. half * Factor <= (c + over) * f
  <2>1. c \in Nat /\ half <= c /\ f \in Nat /\ Factor <= f
    BY <1>1, <1>2 DEF half
  <2> QED
    BY <2>1, <1>1, <1>2, ProductMonotonic
<1>5. (c + over) * f \in Nat /\ half * Factor \in Int /\ (Clocks + 2 * Overshoot) * Factor \in Int
  BY <1>1, <1>2 DEF half
<1> QED
  BY <1>2, <1>3, <1>4, <1>5

\* What can be read of a buffer that has not overflowed.
LEMMA Available ==
    ASSUME NEW off \in Nat, off < (BufferSize + 1) * Unit
    PROVE  /\ samples_avail(off) = off \div Unit
           /\ samples_avail(off) \in Nat
           /\ Unit * samples_avail(off) <= off
           /\ off < Unit * samples_avail(off) + Unit
<1> DEFINE a == off \div Unit
<1>1. a \in Nat /\ Unit * a <= off /\ off < Unit * a + Unit
  BY Constants, Quotient
<1> HIDE DEF a
<1>2. a <= BufferSize
  <2> SUFFICES ASSUME BufferSize + 1 <= a PROVE FALSE
    BY <1>1, Constants
  <2>1. (BufferSize + 1) * Unit <= a * Unit
    BY <1>1, Constants, ProductMonotonic
  <2> QED
    BY <1>1, <2>1, Constants
<1> QED
  BY <1>1, <1>2 DEF samples_avail, a

LEMMA AvailableIs ==
    ASSUME NEW off \in Nat, off < (BufferSize + 1) * Unit, NEW a \in Nat,
           Unit * a <= off, off < Unit * a + Unit
    PROVE  samples_avail(off) = a
  BY Constants, Available, QuotientUnique

-----------------------------------------------------------------------------
(***************************************************************************)
(* The invariant, action by action.                                        *)
(***************************************************************************)

LEMMA SameBufs == ASSUME kind' = kind PROVE Bufs' = Bufs
  BY DEF Bufs

LEMMA BufFacts ==
    ASSUME BufferInv
    PROVE  /\ 0 \in Bufs /\ Bufs \subseteq 0..6
           /\ offset[0] \in Nat /\ \A i \in Bufs : offset[i] = offset[0]
           /\ offset[0] < (BufferSize + 1) * Unit
           /\ Avail \in Nat
           /\ Unit * Avail <= offset[0] /\ offset[0] < Unit * Avail + Unit
<1>1. 0 \in Bufs /\ Bufs \subseteq 0..6
  BY DEF Bufs
<1>2. /\ offset[0] \in Nat /\ \A i \in Bufs : offset[i] = offset[0]
      /\ offset[0] < (BufferSize + 1) * Unit
  BY <1>1 DEF BufferInv, TypeOK, Fits
<1> QED
  BY <1>1, <1>2, Available DEF Avail

\* Reading n samples moves every buffer by n, and what is in it.
LEMMA Removing ==
    ASSUME BufferInv, kind' = kind, NEW n \in 0..Avail, NEW silent, Remove(n, silent)
    PROVE  /\ offset' \in [Bufs -> Nat] /\ dirty' \in [Bufs -> SUBSET Nat]
           /\ \A i \in Bufs : offset'[i] = offset'[0]
           /\ offset'[0] = offset[0] - n * Unit
           /\ Fits' /\ Avail' = Avail - n
           /\ \A i \in Bufs : \A p \in dirty'[i] :
                /\ dirty[i] # {} /\ p \in Nat
                /\ i \notin silent => p + n \in dirty[i]
                /\ i \in silent => p \in dirty[i]
           /\ lost' = lost \cup UNION {dirty[i] : i \in silent}
<1>1. n \in Nat /\ Unit \in Nat \ {0} /\ n <= Avail /\ BufferSize \in Nat
  BY BufFacts, Constants
<1> DEFINE off == offset[0]
           new == off - n * Unit
           a == Avail
<1>2. off \in Nat /\ off < (BufferSize + 1) * Unit /\ a \in Nat
      /\ Unit * a <= off /\ off < Unit * a + Unit
  BY BufFacts
<1> HIDE DEF off, a
<1>3. /\ n * Unit \in Nat /\ n * Unit <= Unit * a
      /\ Unit * (a - n) = Unit * a - n * Unit /\ Unit * a \in Nat
      /\ a - n \in Nat
  <2>1. n <= a
    BY <1>1 DEF a
  <2>2. n * Unit <= a * Unit
    BY <1>1, <1>2, <2>1, ProductMonotonic
  <2> QED
    BY <1>1, <1>2, <2>1, <2>2
<1>4. /\ new \in Nat /\ new <= off
      /\ Unit * (a - n) <= new /\ new < Unit * (a - n) + Unit
  BY <1>1, <1>2, <1>3
<1>5. offset' = [i \in Bufs |-> offset[i] - n * Unit]
  BY DEF Remove, Removed
<1>6. /\ offset'[0] = new /\ \A i \in Bufs : offset'[i] = new
  BY <1>5, BufFacts DEF off
<1>7. new < (BufferSize + 1) * Unit /\ (BufferSize + 1) * Unit \in Nat
  BY <1>1, <1>2, <1>4
<1> HIDE DEF new
<1>8. samples_avail(new) = a - n
  BY <1>3, <1>4, <1>7, AvailableIs
<1>9. Fits' /\ Avail' = a - n
  BY <1>6, <1>7, <1>8 DEF Fits, Avail, samples_avail
<1>10. dirty' = [i \in Bufs |-> IF i \in silent THEN dirty[i]
                                ELSE {p - n : p \in {q \in dirty[i] : q >= n}}]
  BY DEF Remove
<1>11. \A i \in Bufs : dirty[i] \subseteq Nat
  BY DEF BufferInv, TypeOK
<1>12. ASSUME NEW i \in Bufs, NEW p \in dirty'[i]
       PROVE  /\ dirty[i] # {} /\ p \in Nat
              /\ i \notin silent => p + n \in dirty[i]
              /\ i \in silent => p \in dirty[i]
  <2>1. CASE i \in silent
    BY <1>10, <1>11, <1>12, <2>1
  <2>2. CASE i \notin silent
    <3>1. PICK q \in dirty[i] : q >= n /\ p = q - n
      BY <1>10, <1>12, <2>2
    <3>2. q \in Nat /\ q - n + n = q
      BY <1>1, <1>11, <3>1
    <3>3. /\ p = q - n /\ p \in Nat /\ p + n = q
      BY <1>1, <3>1, <3>2
    <3> QED
      BY <2>2, <3>1, <3>3, Zenon
  <2> QED
    BY <2>1, <2>2
<1>13. dirty' \in [Bufs -> SUBSET Nat]
  BY <1>10, <1>12
<1>14. lost' = lost \cup UNION {dirty[i] : i \in silent}
  BY DEF Remove
<1> QED
  BY <1>4, <1>5, <1>6, <1>9, <1>12, <1>13, <1>14 DEF new, off, a

LEMMA InitInv == Init => BufferInv
<1> SUFFICES ASSUME Init PROVE BufferInv
  OBVIOUS
<1>1. /\ 0 \in Bufs /\ \A i \in Bufs : offset[i] = 0 /\ dirty[i] = {}
      /\ offset = [i \in Bufs |-> 0] /\ dirty = [i \in Bufs |-> {}]
  BY DEF Init, Bufs
<1>2. TypeOK
  <2>1. offset \in [Bufs -> Nat] /\ dirty \in [Bufs -> SUBSET Nat]
    BY <1>1
  <2>2. mode \in {"fixed", "unknown", "cpc"} /\ factor \in Nat /\ config \in BOOLEAN
    BY Constants DEF Init
  <2> QED
    BY <2>1, <2>2 DEF Init, TypeOK
<1>3. Fits
  BY <1>1, Constants DEF Fits
<1>4. PlayInv
  BY Constants DEF Init, PlayInv
<1>5. StereoTail /\ EffectTail /\ NothingDropped
  BY <1>1 DEF Init, StereoTail, EffectTail, NothingDropped
<1> QED
  BY <1>1, <1>2, <1>3, <1>4, <1>5 DEF BufferInv

LEMMA ClearInv == BufferInv /\ Clear => BufferInv'
<1> SUFFICES ASSUME BufferInv, Clear PROVE BufferInv'
  OBVIOUS
<1>1. /\ 0 \in Bufs /\ Bufs' = Bufs
      /\ \A i \in Bufs : offset'[i] = 0 /\ dirty'[i] = {}
      /\ offset' = [i \in Bufs |-> 0] /\ dirty' = [i \in Bufs |-> {}]
  BY DEF Clear, Bufs
<1>2. TypeOK'
  <2>1. offset' \in [Bufs -> Nat] /\ dirty' \in [Bufs -> SUBSET Nat]
    BY <1>1
  <2>2. mode' \in {"fixed", "unknown", "cpc"} /\ factor' \in Nat
    BY Constants DEF Clear
  <2> QED
    BY <1>1, <2>1, <2>2 DEF Clear, BufferInv, TypeOK
<1>3. Fits'
  <2>1. 0 < (BufferSize + 1) * Unit
    BY Constants
  <2> QED
    BY <1>1, <2>1 DEF Fits
<1>4. PlayInv'
  BY DEF Clear, BufferInv, TypeOK, PlayInv
<1>5. StereoTail' /\ EffectTail' /\ NothingDropped'
  BY <1>1 DEF Clear, StereoTail, EffectTail, NothingDropped
<1> QED
  BY <1>1, <1>2, <1>3, <1>4, <1>5 DEF BufferInv

\* Steps that leave the buffers alone.
LEMMA KeepsBuffers ==
    ASSUME BufferInv, UNCHANGED <<kind, mode, factor, offset, dirty, mixVars, lost>>,
           pc' \in {"idle", "read", "mix", "frame", "failed"},
           remain' \in Nat, batch' \in Nat, config' \in BOOLEAN,
           pc' \in {"read", "frame"} => remain' > 0,
           pc' = "mix" => kind = "effects" /\ batch' = Min({remain', Avail}),
           pc' = "frame" => offset[0] < Unit
    PROVE  BufferInv'
<1> USE DEF mixVars
<1>1. Bufs' = Bufs /\ Avail' = Avail /\ BufsUsed' = BufsUsed
  BY DEF Bufs, Avail, samples_avail, BufsUsed
<1>2. TypeOK'
  BY <1>1 DEF BufferInv, TypeOK
<1>3. Fits' /\ (\A i \in Bufs : offset[i] = offset[0])'
  BY <1>1 DEF BufferInv, Fits
<1>4. PlayInv'
  BY <1>1 DEF BufferInv, PlayInv
<1>5. StereoTail' /\ EffectTail' /\ NothingDropped'
  BY <1>1 DEF BufferInv, StereoTail, EffectTail, NothingDropped, Dropped, Short
<1> QED
  BY <1>2, <1>3, <1>4, <1>5 DEF BufferInv

LEMMA QuietSteps ==
    ASSUME BufferInv,
           SetDepth \/ (\E count \in Counts : Play(count)) \/ ReadEffects \/ FrameFails
             \/ UNCHANGED vars
    PROVE  BufferInv'
<1>1. /\ pc \in {"idle", "read", "mix", "frame", "failed"}
      /\ remain \in Nat /\ batch \in Nat /\ config \in BOOLEAN
      /\ pc \in {"read", "frame"} => remain > 0
      /\ pc = "mix" => kind = "effects" /\ batch = Min({remain, Avail})
      /\ pc = "frame" => offset[0] < Unit
  BY DEF BufferInv, TypeOK, PlayInv
<1>2. CASE SetDepth
  BY <1>1, <1>2, KeepsBuffers DEF SetDepth
<1>3. ASSUME NEW count \in Counts, Play(count) PROVE BufferInv'
  BY <1>1, <1>3, Constants, KeepsBuffers DEF Play
<1>4. CASE ReadEffects
  <2>1. Min({remain, Avail}) \in Nat
    BY <1>1, BufFacts, MinMaxOfTwo
  <2> QED
    BY <1>1, <1>4, <2>1, KeepsBuffers DEF ReadEffects
<1>5. CASE FrameFails
  BY <1>1, <1>5, KeepsBuffers DEF FrameFails
<1>6. CASE UNCHANGED vars
  BY <1>1, <1>6, KeepsBuffers DEF vars
<1> QED
  BY <1>2, <1>3, <1>4, <1>5, <1>6

LEMMA ReadStereoInv == BufferInv /\ ReadStereo => BufferInv'
<1> SUFFICES ASSUME BufferInv, ReadStereo PROVE BufferInv'
  OBVIOUS
<1> DEFINE n == Min({remain, Avail})
           quiet == IF BufsUsed \subseteq {0} THEN {1, 2}
                    ELSE IF 0 \in BufsUsed THEN {} ELSE {0}
           silent == IF n = 0 THEN {} ELSE quiet
<1>1. /\ kind = "stereo" /\ kind' = kind /\ Bufs = 0..2 /\ Bufs' = Bufs
      /\ UNCHANGED <<mode, factor, stereo_remain, effect_remain, effects_enabled,
                     config, batch>>
      /\ remain \in Nat /\ remain > 0
  BY DEF ReadStereo, Bufs, BufferInv, TypeOK, PlayInv
<1>2. Avail \in Nat /\ n = (IF remain <= Avail THEN remain ELSE Avail)
  BY <1>1, BufFacts, MinMaxOfTwo
<1>3. /\ Remove(n, silent) /\ Delivered(n)
      /\ IF n > 0 /\ n = Avail
         THEN was_stereo' = stereo_added /\ stereo_added' = {}
         ELSE UNCHANGED <<was_stereo, stereo_added>>
  BY DEF ReadStereo
<1>4. \A i \in silent : i \in Bufs /\ i \notin BufsUsed
  BY <1>1
<1> HIDE DEF n, silent
<1>5. n \in 0..Avail
  BY <1>1, <1>2
<1>6. /\ offset' \in [Bufs -> Nat] /\ dirty' \in [Bufs -> SUBSET Nat]
      /\ \A i \in Bufs : offset'[i] = offset'[0]
      /\ offset'[0] = offset[0] - n * Unit
      /\ Fits' /\ Avail' = Avail - n
      /\ \A i \in Bufs : \A p \in dirty'[i] :
           /\ dirty[i] # {} /\ p \in Nat
           /\ i \notin silent => p + n \in dirty[i]
           /\ i \in silent => p \in dirty[i]
      /\ lost' = lost \cup UNION {dirty[i] : i \in silent}
  BY <1>1, <1>3, <1>5, Removing
<1>7. \A i \in Bufs : \A p \in dirty[i] :
        /\ i \in BufsUsed /\ p \in Nat
        /\ p < Avail + Width
        /\ i \notin stereo_added /\ Avail > 0 => p < Avail
  BY <1>1 DEF BufferInv, TypeOK, StereoTail
<1>8. \A i \in silent : dirty[i] = {}
  BY <1>4, <1>7
<1>9. \A i \in Bufs : \A p \in dirty'[i] : p \in Nat /\ p + n \in dirty[i]
  BY <1>6, <1>8
<1>a. lost' = lost
  BY <1>6, <1>8
<1>10. TypeOK'
  <2>1. remain - n \in Nat /\ remain' = remain - n /\ pc' \in {"idle", "frame"}
    BY <1>1, <1>2, <1>3 DEF Delivered
  <2>2. stereo_added' \subseteq Bufs /\ was_stereo' \subseteq Bufs
    BY <1>3 DEF BufferInv, TypeOK
  <2>3. lost' \subseteq Nat
    BY <1>a DEF BufferInv, TypeOK
  <2> QED
    BY <1>1, <1>6, <2>1, <2>2, <2>3 DEF BufferInv, TypeOK
<1>11. PlayInv'
  <2>1. CASE n = remain
    BY <1>1, <1>3, <2>1 DEF Delivered, BufferInv, PlayInv
  <2>2. CASE n # remain
    <3>1. n = Avail /\ remain - n > 0 /\ n \in Nat /\ Unit * n = n * Unit
          /\ Unit * n \in Nat /\ Unit \in Nat
      BY <1>1, <1>2, <2>2, Constants
    <3>2. offset'[0] < Unit
      BY <1>6, <3>1, BufFacts
    <3> QED
      BY <1>1, <1>3, <2>2, <3>1, <3>2 DEF Delivered, BufferInv, PlayInv
  <2> QED
    BY <2>1, <2>2
<1>12. StereoTail'
  <2>1. Width \in Nat \ {0}
    BY Constants
  <2>2. CASE n > 0 /\ n = Avail
    <3>1. was_stereo' = stereo_added /\ stereo_added' = {} /\ Avail' = 0
      BY <1>2, <1>3, <1>6, <2>2
    <3>2. ASSUME NEW i \in Bufs, NEW p \in dirty'[i]
          PROVE  i \in stereo_added /\ p < Width
      <4>1. p \in Nat /\ p + n \in dirty[i]
        BY <1>9
      <4>2. p + n < Avail + Width /\ (i \notin stereo_added => p + n < Avail)
        BY <1>7, <4>1, <2>2
      <4> QED
        BY <4>1, <4>2, <2>1, <2>2, <1>2
    <3> QED
      BY <1>1, <2>1, <3>1, <3>2 DEF StereoTail, BufsUsed
  <2>3. CASE ~(n > 0 /\ n = Avail)
    <3>1. /\ was_stereo' = was_stereo /\ stereo_added' = stereo_added
          /\ BufsUsed' = BufsUsed
      BY <1>3, <2>3 DEF BufsUsed
    <3>2. Avail - n = 0 => stereo_added = {}
      BY <1>1, <1>2, <2>3 DEF BufferInv, StereoTail
    <3>3. ASSUME NEW i \in Bufs, NEW p \in dirty'[i]
          PROVE  /\ i \in BufsUsed /\ p < Avail - n + Width
                 /\ i \notin stereo_added /\ Avail - n > 0 => p < Avail - n
      <4>1. p \in Nat /\ p + n \in dirty[i]
        BY <1>9
      <4>2. /\ i \in BufsUsed /\ p + n < Avail + Width
            /\ i \notin stereo_added /\ Avail > 0 => p + n < Avail
        BY <1>7, <4>1
      <4> QED
        BY <4>1, <4>2, <1>2, <1>5, <2>1
    <3> QED
      BY <1>1, <1>6, <3>1, <3>2, <3>3 DEF StereoTail
  <2> QED
    BY <2>2, <2>3
<1>13. EffectTail' /\ NothingDropped'
  BY <1>1, <1>a DEF EffectTail, NothingDropped, Dropped, Short, BufferInv
<1> QED
  BY <1>1, <1>6, <1>10, <1>11, <1>12, <1>13 DEF BufferInv

LEMMA MixEffectsInv == BufferInv /\ MixEffects => BufferInv'
<1> SUFFICES ASSUME BufferInv, MixEffects PROVE BufferInv'
  OBVIOUS
<1>1. /\ pc = "mix" /\ kind = "effects" /\ remain \in Nat /\ batch \in Nat /\ Avail \in Nat
      /\ batch = (IF remain <= Avail THEN remain ELSE Avail)
      /\ stereo_remain \in Nat /\ effect_remain \in Nat
      /\ UNCHANGED <<kind, mode, factor, stereo_added, was_stereo, effects_enabled,
                     config>>
  BY BufFacts, MinMaxOfTwo DEF MixEffects, BufferInv, TypeOK, PlayInv
<1>2. CASE batch = 0
  <2>1. /\ UNCHANGED <<remain, offset, dirty, lost, stereo_remain, effect_remain, batch>>
        /\ pc' = IF remain = 0 THEN "idle" ELSE "frame"
    BY <1>2 DEF MixEffects
  <2>2. remain # 0 => remain > 0 /\ offset[0] < Unit
    <3>1. remain # 0 => Avail = 0
      BY <1>1, <1>2
    <3> QED
      BY <1>1, <3>1, BufFacts, Constants
  <2>3. config \in BOOLEAN
    BY DEF BufferInv, TypeOK
  <2> QED
    BY <1>1, <2>1, <2>2, <2>3, KeepsBuffers DEF mixVars
<1>3. CASE batch # 0
  <2> DEFINE n == IF effect_remain > 0 THEN Min({batch, effect_remain}) ELSE batch
             active == IF effect_remain > 0 /\ stereo_remain > 0 THEN 7
                       ELSE IF effect_remain > 0 \/ stereo_remain > 0 THEN 3 ELSE 1
             silent == active..6
  <2>1. /\ Remove(n, silent)
        /\ batch' = batch - n /\ remain' = remain - n
        /\ stereo_remain' = Max({0, stereo_remain - n})
        /\ effect_remain' = Max({0, effect_remain - n})
        /\ UNCHANGED pc
    BY <1>3 DEF MixEffects
  <2>2. /\ n \in Nat /\ n <= batch
        /\ effect_remain > 0 => n <= effect_remain
    BY <1>1, <1>3, MinMaxOfTwo
  <2>3. /\ active \in {1, 3, 7}
        /\ active <= 3 => effect_remain = 0 \/ stereo_remain = 0
        /\ active <= 1 => effect_remain = 0 /\ stereo_remain = 0
    BY <1>1
  <2> HIDE DEF n, active
  <2>4. n \in 0..Avail
    BY <1>1, <2>2
  <2>5. /\ offset' \in [Bufs -> Nat] /\ dirty' \in [Bufs -> SUBSET Nat]
        /\ \A i \in Bufs : offset'[i] = offset'[0]
        /\ Fits' /\ Avail' = Avail - n
        /\ \A i \in Bufs : \A p \in dirty'[i] :
             /\ dirty[i] # {} /\ p \in Nat
             /\ i \notin silent => p + n \in dirty[i]
             /\ i \in silent => p \in dirty[i]
        /\ lost' = lost \cup UNION {dirty[i] : i \in silent}
    BY <1>1, <2>1, <2>4, Removing
  <2>6. /\ stereo_remain' = (IF n <= stereo_remain THEN stereo_remain - n ELSE 0)
        /\ effect_remain' = (IF n <= effect_remain THEN effect_remain - n ELSE 0)
    <3>1. Max({0, stereo_remain - n}) = IF n <= stereo_remain THEN stereo_remain - n ELSE 0
      BY <1>1, <2>2, CountDown
    <3>2. Max({0, effect_remain - n}) = IF n <= effect_remain THEN effect_remain - n ELSE 0
      BY <1>1, <2>2, CountDown
    <3> QED
      BY <2>1, <3>1, <3>2
  <2>7. TypeOK'
    <3>1. /\ remain' \in Nat /\ batch' \in Nat
          /\ stereo_remain' \in Nat /\ effect_remain' \in Nat
      BY <1>1, <2>1, <2>2, <2>6
    <3>2. lost' \subseteq Nat
      <4>1. \A i \in silent : dirty[i] \subseteq Nat
        BY <1>1, <2>3 DEF BufferInv, TypeOK, Bufs
      <4> QED
        BY <2>5, <4>1 DEF BufferInv, TypeOK
    <3> QED
      BY <1>1, <2>1, <2>5, <3>1, <3>2, SameBufs DEF BufferInv, TypeOK
  <2>8. PlayInv'
    <3>1. Min({remain - n, Avail - n}) = batch - n
      BY <1>1, <2>2, MinMaxOfTwo
    <3> QED
      BY <1>1, <2>1, <2>5, <3>1 DEF BufferInv, PlayInv
  <2>9. kind' = kind /\ Bufs = 0..6 /\ Bufs' = Bufs
    BY <1>1 DEF Bufs
  <2>10. EffectTail' /\ NothingDropped'
    <3>0. Short \in Nat /\ Short' = Short
      BY ShortIs DEF Short
    <3>1. \A i \in Bufs : \A p \in dirty[i] :
            /\ p \in Nat
            /\ i \in 1..2 => p < stereo_remain + Short \/ p < effect_remain + Short
            /\ i \in 3..6 => p < stereo_remain + Short /\ p < effect_remain + Short
      BY <1>1 DEF BufferInv, TypeOK, EffectTail
    <3>2. ASSUME NEW i \in silent, NEW p \in dirty[i] PROVE p \in Nat /\ p < Short
      <4>1. i \in Bufs /\ i \in 1..6 /\ (i \in 1..2 => active = 1)
        BY <2>3, <2>9
      <4>2. p \in Nat
        BY <3>1, <4>1
      <4>3. CASE i \in 1..2
        BY <2>3, <3>0, <3>1, <4>1, <4>2, <4>3
      <4>4. CASE i \in 3..6
        BY <2>3, <3>0, <3>1, <4>1, <4>2, <4>4
      <4> QED
        BY <4>1, <4>3, <4>4
    <3>3. NothingDropped'
      <4>1. Dropped = Short /\ Dropped' = Short
        BY <1>1, <2>9, <3>0 DEF Dropped
      <4> QED
        BY <2>5, <3>2, <4>1 DEF BufferInv, NothingDropped
    <3>4. ASSUME NEW i \in Bufs, NEW p \in dirty'[i]
          PROVE  /\ i \in 1..2 => p < stereo_remain' + Short \/ p < effect_remain' + Short
                 /\ i \in 3..6 => p < stereo_remain' + Short /\ p < effect_remain' + Short
      <4> DEFINE s == IF n <= stereo_remain THEN stereo_remain - n ELSE 0
                 e == IF n <= effect_remain THEN effect_remain - n ELSE 0
      <4>0. /\ s \in Nat /\ e \in Nat /\ p \in Nat
            /\ stereo_remain <= s + n /\ effect_remain <= e + n
        BY <1>1, <2>2, <2>5
      <4>1. stereo_remain' = s /\ effect_remain' = e
        BY <2>6
      <4> HIDE DEF s, e
      <4>2. /\ i \in 1..2 => p < s + Short \/ p < e + Short
            /\ i \in 3..6 => p < s + Short /\ p < e + Short
        <5>1. CASE i \in silent
          <6>1. p < Short
            BY <2>5, <3>2, <5>1
          <6> QED
            BY <3>0, <4>0, <6>1
        <5>2. CASE i \notin silent
          <6>1. p + n \in dirty[i]
            BY <2>5, <5>2
          <6>2. /\ i \in 1..2 => \/ p + n < stereo_remain + Short
                                 \/ p + n < effect_remain + Short
                /\ i \in 3..6 => /\ p + n < stereo_remain + Short
                                 /\ p + n < effect_remain + Short
            BY <3>1, <6>1
          <6>3. /\ p + n < stereo_remain + Short => p < s + Short
                /\ p + n < effect_remain + Short => p < e + Short
            BY <1>1, <2>2, <3>0, <4>0
          <6> QED
            BY <6>2, <6>3
        <5> QED
          BY <5>1, <5>2
      <4> QED
        BY <4>1, <4>2, Zenon
    <3> QED
      BY <2>9, <3>0, <3>3, <3>4 DEF EffectTail
  <2>11. StereoTail'
    BY <1>1 DEF StereoTail
  <2> QED
    BY <2>5, <2>7, <2>8, <2>9, <2>10, <2>11 DEF BufferInv
<1> QED
  BY <1>2, <1>3

LEMMA FrameInv == BufferInv /\ Frame => BufferInv'
<1> SUFFICES ASSUME BufferInv, Frame PROVE BufferInv'
  OBVIOUS
<1>1. /\ pc = "frame" /\ pc' = "read"
      /\ UNCHANGED <<kind, remain, config, batch, lost>>
      /\ Bufs' = Bufs /\ 0 \in Bufs /\ Bufs \subseteq 0..6
  BY BufFacts DEF Frame, Bufs
<1>2. PICK over \in 0..Overshoot,
           cpc \in IF mode = "unknown" THEN BOOLEAN ELSE {FALSE},
           modified \in {m \in Places : m \subseteq Connected} :
        /\ factor' = IF cpc THEN 2 * Factor ELSE factor
        /\ mode' = IF cpc THEN "cpc" ELSE mode
        /\ \E t \in {0, Requested + over} :
             dirty' = Written(modified, t, IF cpc THEN 2 * Factor ELSE factor)
        /\ offset' = [i \in Bufs |-> offset[i]
                        + (Requested + over) * (IF cpc THEN 2 * Factor ELSE factor)]
        /\ IF kind = "stereo" THEN StereoFrame(modified)
           ELSE EffectsFrame(modified, samples_avail(offset'[0]))
  BY DEF Frame
<1> DEFINE f == IF cpc THEN 2 * Factor ELSE factor
           length == (Requested + over) * f
           off == offset[0]
           avail == samples_avail(off + length)
<1>3. PICK t \in {0, Requested + over} : dirty' = Written(modified, t, f)
  BY <1>2
<1>4. /\ offset' = [i \in Bufs |-> offset[i] + length]
      /\ mode' = IF cpc THEN "cpc" ELSE mode
      /\ factor' = f
      /\ IF kind = "stereo" THEN StereoFrame(modified)
         ELSE EffectsFrame(modified, samples_avail(offset'[0]))
  BY <1>2
<1>5. /\ mode \in {"fixed", "unknown", "cpc"}
      /\ mode = "cpc" => factor = 2 * Factor
      /\ mode # "cpc" => factor = Factor
      /\ cpc \in BOOLEAN /\ (cpc => mode = "unknown")
      /\ remain > 0
  BY <1>1 DEF BufferInv, TypeOK, PlayInv
<1>6. /\ Requested \in {Clocks, Clocks \div 2} /\ f \in {Factor, 2 * Factor}
      /\ f = 2 * Factor => Requested = Clocks \div 2
  <2>1. Factor # 2 * Factor
    BY Constants
  <2> QED
    BY <1>5, <2>1 DEF Requested
<1>7. /\ length \in Nat /\ length < BufferSize * Unit
      /\ (Width + 1) * Unit <= length
  BY <1>6, FrameTime
<1>8. /\ off \in Nat /\ off < Unit /\ \A i \in Bufs : offset[i] = off
      /\ Avail = 0
  <2>1. off < Unit
    BY <1>1 DEF BufferInv, PlayInv
  <2>2. off \in Nat /\ \A i \in Bufs : offset[i] = off
    BY BufFacts
  <2>3. off < (BufferSize + 1) * Unit
    BY BufFacts
  <2> QED
    BY <2>1, <2>2, <2>3, Constants, AvailableIs DEF Avail
<1>9. t * f \in Nat /\ t * f <= length
  <2>1. Requested + over \in Nat /\ f \in Nat
    BY <1>6, Constants
  <2> QED
    BY <2>1, <1>7
<1>10. /\ Unit \in Nat \ {0} /\ Width \in Nat \ {0} /\ Latency \in Nat /\ BufferSize \in Nat
  BY Constants
<1> HIDE DEF f, length, off
<1>11. /\ off + length \in Nat
       /\ off + length < (BufferSize + 1) * Unit
       /\ (Width + 1) * Unit <= off + length
  BY <1>7, <1>8, <1>10
<1>12. /\ avail \in Nat /\ avail = (off + length) \div Unit
       /\ off + length < Unit * avail + Unit
  BY <1>11, Available
<1> HIDE DEF avail
<1>13. Width < avail
  <2> SUFFICES ASSUME avail <= Width PROVE FALSE
    BY <1>10, <1>12
  <2>1. (avail + 1) * Unit <= (Width + 1) * Unit
    BY <1>10, <1>12, ProductMonotonic
  <2> QED
    BY <2>1, <1>10, <1>11, <1>12
<1>14. /\ offset' \in [Bufs -> Nat]
       /\ \A i \in Bufs : offset'[i] = off + length
       /\ samples_avail(offset'[0]) = avail
       /\ Avail' = avail /\ Fits'
  BY <1>1, <1>4, <1>8, <1>11 DEF Avail, samples_avail, Fits, avail
\* What the chips write lies in the frame, or an impulse behind it.
<1>15. ASSUME NEW i \in Bufs
       PROVE  /\ Impulse(i, t, f) \subseteq Nat
              /\ \A p \in Impulse(i, t, f) : p < avail + Width
  <2>1. /\ off + t * f \in Nat /\ off + t * f <= off + length
    BY <1>8, <1>9, <1>7
  <2>2. (off + t * f) \div Unit \in Nat /\ (off + t * f) \div Unit <= avail
    BY <2>1, <1>10, <1>11, <1>12, Quotient, QuotientMonotonic
  <2>3. Impulse(i, t, f) = (off + t * f) \div Unit..(off + t * f) \div Unit + Width - 1
    BY <1>8 DEF Impulse
  <2> DEFINE first == (off + t * f) \div Unit
  <2>4. first \in Nat /\ first <= avail /\ Impulse(i, t, f) = first..first + Width - 1
    BY <2>2, <2>3
  <2> HIDE DEF first
  <2> QED
    BY <2>4, <1>10, <1>12
<1>16. ASSUME NEW i \in Bufs
       PROVE  /\ dirty[i] \subseteq Nat /\ dirty'[i] \subseteq Nat
              /\ \A p \in dirty'[i] :
                   \/ p \in dirty[i]
                   \/ i \in modified /\ p < avail + Width
  <2>1. dirty[i] \subseteq Nat
    BY DEF BufferInv, TypeOK
  <2>2. dirty'[i] = IF i \in modified THEN dirty[i] \cup Impulse(i, t, f) ELSE dirty[i]
    BY <1>3 DEF Written
  <2> QED
    BY <2>1, <2>2, <1>15
<1>17. TypeOK'
  <2>1. dirty' \in [Bufs -> SUBSET Nat]
    BY <1>3, <1>16 DEF Written
  <2>2. mode' \in {"fixed", "unknown", "cpc"} /\ factor' \in Nat
    BY <1>4, <1>5, <1>6, Constants
  <2>3. modified \subseteq Bufs
    BY DEF Connected, Bufs
  <2>4. /\ stereo_added' \subseteq Bufs /\ was_stereo' \subseteq Bufs
        /\ stereo_remain' \in Nat /\ effect_remain' \in Nat
        /\ effects_enabled' \in BOOLEAN
    <3>1. CASE kind = "stereo"
      BY <3>1, <1>4, <2>3 DEF StereoFrame, BufferInv, TypeOK
    <3>2. CASE kind # "stereo"
      <4>1. EffectsFrame(modified, avail)
        BY <3>2, <1>4, <1>14
      <4>2. /\ stereo_remain \in Nat /\ effect_remain \in Nat /\ avail + Latency \in Nat
            /\ effects_enabled \in BOOLEAN /\ config \in BOOLEAN
        BY <1>10, <1>12 DEF BufferInv, TypeOK
      <4>3. /\ Max({stereo_remain, avail + Latency}) \in Nat
            /\ Max({effect_remain, avail + Latency}) \in Nat
        <5> DEFINE until == avail + Latency
        <5>1. until \in Nat
          BY <4>2
        <5> HIDE DEF until
        <5>2. Max({stereo_remain, until}) \in Nat
          BY <4>2, <5>1, MaxOfNats
        <5>3. Max({effect_remain, until}) \in Nat
          BY <4>2, <5>1, MaxOfNats
        <5> QED
          BY <5>2, <5>3 DEF until
      <4> QED
        BY <4>1, <4>2, <4>3 DEF EffectsFrame, BufferInv, TypeOK
    <3> QED
      BY <3>1, <3>2
  <2> QED
    BY <1>1, <1>14, <2>1, <2>2, <2>4 DEF BufferInv, TypeOK
<1>18. PlayInv'
  <2>1. mode' = "cpc" => factor' = 2 * Factor
    BY <1>4, <1>5 DEF f
  <2>2. mode' # "cpc" => factor' = Factor
    BY <1>4, <1>5 DEF f
  <2> QED
    BY <1>1, <1>5, <2>1, <2>2 DEF PlayInv
<1>19. StereoTail'
  <2>1. CASE kind # "stereo"
    BY <1>1, <2>1 DEF StereoTail
  <2>2. CASE kind = "stereo"
    <3>1. /\ stereo_added = {}
          /\ \A i \in Bufs : \A p \in dirty[i] : i \in was_stereo /\ p < Width
      BY <1>8, <1>10, <2>2 DEF BufferInv, StereoTail, BufsUsed
    <3>2. stereo_added' = modified /\ was_stereo' = was_stereo
      BY <1>4, <2>2 DEF StereoFrame
    <3>3. ASSUME NEW i \in Bufs, NEW p \in dirty'[i]
          PROVE  /\ i \in modified \cup was_stereo
                 /\ p < avail + Width
                 /\ i \notin modified => p < avail
      <4>1. p \in Nat /\ (p \in dirty[i] \/ (i \in modified /\ p < avail + Width))
        BY <1>16
      <4> QED
        BY <3>1, <4>1, <1>10, <1>12, <1>13
    <3> QED
      BY <1>1, <1>10, <1>12, <1>13, <1>14, <3>2, <3>3 DEF StereoTail, BufsUsed
  <2> QED
    BY <2>1, <2>2
<1>20. EffectTail'
  <2> SUFFICES ASSUME kind = "effects", NEW i \in Bufs, NEW p \in dirty'[i]
               PROVE  /\ i \in 1..2 => \/ p < stereo_remain' + Short
                                       \/ p < effect_remain' + Short
                      /\ i \in 3..6 => /\ p < stereo_remain' + Short
                                       /\ p < effect_remain' + Short
    BY <1>1 DEF EffectTail, Short
  <2>0. Short \in Nat /\ Width <= Latency + Short
    BY ShortIs
  <2>1. EffectsFrame(modified, avail)
    BY <1>4, <1>14
  <2>2. /\ stereo_remain \in Nat /\ effect_remain \in Nat /\ avail + Latency \in Nat
        /\ config \in BOOLEAN
    BY <1>10, <1>12 DEF BufferInv, TypeOK
  <2>3. /\ stereo_remain' \in Nat /\ effect_remain' \in Nat
        /\ stereo_remain <= stereo_remain' /\ effect_remain <= effect_remain'
        /\ modified \cap (IF config THEN 3..6 ELSE 1..2) # {}
             => avail + Latency <= stereo_remain'
        /\ config => avail + Latency <= effect_remain'
    <3> DEFINE until == avail + Latency
               stereo == Max({stereo_remain, until})
               effect == Max({effect_remain, until})
    <3>1. until \in Nat
      BY <2>2
    <3>2. /\ stereo_remain' = IF modified \cap (IF config THEN 3..6 ELSE 1..2) = {}
                              THEN stereo_remain ELSE stereo
          /\ effect_remain' = IF effects_enabled \/ config THEN effect ELSE effect_remain
      BY <2>1 DEF EffectsFrame
    <3> HIDE DEF until
    <3>3. stereo \in Nat /\ stereo_remain <= stereo /\ until <= stereo
      BY <2>2, <3>1, MaxOfNats
    <3>4. effect \in Nat /\ effect_remain <= effect /\ until <= effect
      BY <2>2, <3>1, MaxOfNats
    <3> HIDE DEF stereo, effect
    <3>5. /\ stereo_remain' \in Nat /\ stereo_remain <= stereo_remain'
          /\ modified \cap (IF config THEN 3..6 ELSE 1..2) # {} => until <= stereo_remain'
      BY <2>2, <3>2, <3>3
    <3>6. /\ effect_remain' \in Nat /\ effect_remain <= effect_remain'
          /\ config => until <= effect_remain'
      BY <2>2, <3>2, <3>4
    <3> QED
      BY <3>5, <3>6 DEF until
  <2>4. p \in Nat
    BY <1>16
  <2>5. PICK s \in Nat, e \in Nat : s = stereo_remain' /\ e = effect_remain'
    BY <2>3
  <2>6. /\ stereo_remain <= s /\ effect_remain <= e
        /\ modified \cap (IF config THEN 3..6 ELSE 1..2) # {}
             => avail + Latency <= s
        /\ config => avail + Latency <= e
    BY <2>3, <2>5, Zenon
  <2>7. /\ i \in 1..2 => p < s + Short \/ p < e + Short
        /\ i \in 3..6 => p < s + Short /\ p < e + Short
    <3>1. CASE p \in dirty[i]
      <4>1. /\ i \in 1..2 => \/ p < stereo_remain + Short
                             \/ p < effect_remain + Short
            /\ i \in 3..6 => /\ p < stereo_remain + Short
                             /\ p < effect_remain + Short
        BY <3>1 DEF BufferInv, EffectTail
      <4>2. /\ p < stereo_remain + Short => p < s + Short
            /\ p < effect_remain + Short => p < e + Short
        BY <2>0, <2>2, <2>4, <2>6
      <4> QED
        BY <4>1, <4>2
    <3>2. CASE i \in modified /\ p < avail + Width
      <4>1. p < avail + Latency + Short
        BY <2>0, <2>4, <3>2, <1>10, <1>12
      <4>2. ~config => i \in 0..2
        BY <3>2 DEF Connected
      <4>3. CASE config
        <5>1. p < e + Short
          BY <2>0, <2>2, <2>4, <2>6, <4>1, <4>3
        <5>2. i \in 3..6 => p < s + Short
          <6>1. i \in 3..6 => modified \cap 3..6 # {}
            BY <3>2
          <6> QED
            BY <2>0, <2>2, <2>4, <2>6, <4>1, <4>3, <6>1
        <5> QED
          BY <5>1, <5>2
      <4>4. CASE ~config
        <5>1. i \in 1..2 => modified \cap 1..2 # {}
          BY <3>2
        <5> QED
          BY <2>0, <2>2, <2>4, <2>6, <4>1, <4>2, <4>4, <5>1
      <4> QED
        BY <4>3, <4>4
    <3> QED
      BY <1>16, <3>1, <3>2
  <2> QED
    BY <2>5, <2>7, Zenon
<1>21. NothingDropped'
  BY <1>1 DEF BufferInv, NothingDropped, Dropped, Short
<1> QED
  BY <1>1, <1>14, <1>17, <1>18, <1>19, <1>20, <1>21 DEF BufferInv

-----------------------------------------------------------------------------
(***************************************************************************)
(* The theorems.                                                           *)
(***************************************************************************)

\* All buffers of a group are at the same time whichever of them are mixed, a
\* frame fits into them even when a song halves the clock rate in the middle,
\* and what is not silent lies where the multi-buffer still looks for it
\* (Classic_Emu::play_(), Stereo_Buffer and Effects_Buffer).
THEOREM BuffersTogether == Spec => []BufferInv
<1>1. BufferInv /\ [Next]_vars => BufferInv'
  BY ClearInv, QuietSteps, ReadStereoInv, MixEffectsInv, FrameInv DEF Next, Step
<1> QED
  BY InitInv, <1>1, PTL DEF Spec

\* Stereo_Buffer never removes sound as silence, however long its impulses
\* are and however the engine's requests cut up a frame.  Effects_Buffer
\* removes at most the end of an impulse, by which this is longer than the
\* latency that its counters allow for: what it takes for silent is silent
\* from there on.
THEOREM SoundIsKept == Spec => []NothingDropped
<1>1. BufferInv => NothingDropped
  BY DEF BufferInv
<1> QED
  BY <1>1, BuffersTogether, PTL

-----------------------------------------------------------------------------
(***************************************************************************)
(* Why play_() returns.                                                    *)
(***************************************************************************)

\* What a turn comes to: nothing more is asked for, and if nothing has been
\* delivered the next turns are those that lead to it.
Turns ==
    \/ remain' < remain
    \/ remain' = remain /\ TurnsToDeliver' < TurnsToDeliver

LEMMA ReadStereoTurns == BufferInv /\ ReadStereo => Turns
<1> SUFFICES ASSUME BufferInv, ReadStereo PROVE Turns
  OBVIOUS
<1>1. /\ pc = "read" /\ remain \in Nat /\ remain > 0 /\ Avail \in Nat
  BY BufFacts DEF ReadStereo, BufferInv, TypeOK, PlayInv
<1> DEFINE n == Min({remain, Avail})
<1>2. n = IF remain <= Avail THEN remain ELSE Avail
  BY <1>1, MinMaxOfTwo
<1>3. remain' = remain - n /\ pc' = IF remain = n THEN "idle" ELSE "frame"
  BY DEF ReadStereo, Delivered
<1> HIDE DEF n
<1>4. CASE Avail = 0
  <2>1. n = 0 /\ remain' = remain /\ pc' = "frame"
    BY <1>1, <1>2, <1>3, <1>4
  <2>2. TurnsToDeliver' = 3 /\ TurnsToDeliver = 5
    BY <1>1, <1>4, <2>1 DEF TurnsToDeliver
  <2> QED
    BY <2>1, <2>2 DEF Turns
<1>5. CASE Avail # 0
  <2>1. n \in Nat /\ n > 0 /\ remain - n < remain
    BY <1>1, <1>2, <1>5
  <2> QED
    BY <1>3, <2>1 DEF Turns
<1> QED
  BY <1>4, <1>5

LEMMA ReadEffectsTurns == BufferInv /\ ReadEffects => Turns
<1> SUFFICES ASSUME BufferInv, ReadEffects PROVE Turns
  OBVIOUS
<1>1. /\ pc = "read" /\ remain \in Nat /\ remain > 0 /\ Avail \in Nat
  BY BufFacts DEF ReadEffects, BufferInv, TypeOK, PlayInv
<1> DEFINE n == Min({remain, Avail})
<1>2. n = IF remain <= Avail THEN remain ELSE Avail
  BY <1>1, MinMaxOfTwo
<1>3. batch' = n /\ pc' = "mix" /\ remain' = remain
  BY DEF ReadEffects
<1> HIDE DEF n
<1>4. CASE Avail = 0
  <2>1. batch' = 0
    BY <1>1, <1>2, <1>3, <1>4
  <2>2. TurnsToDeliver' = 4 /\ TurnsToDeliver = 5
    BY <1>1, <1>3, <1>4, <2>1 DEF TurnsToDeliver
  <2> QED
    BY <1>3, <2>2 DEF Turns
<1>5. CASE Avail # 0
  <2>1. batch' # 0
    BY <1>1, <1>2, <1>3, <1>5
  <2>2. TurnsToDeliver' = 1 /\ TurnsToDeliver = 2
    BY <1>1, <1>3, <1>5, <2>1 DEF TurnsToDeliver
  <2> QED
    BY <1>3, <2>2 DEF Turns
<1> QED
  BY <1>4, <1>5

LEMMA MixEffectsTurns == BufferInv /\ MixEffects => Turns
<1> SUFFICES ASSUME BufferInv, MixEffects PROVE Turns
  OBVIOUS
<1>1. /\ pc = "mix" /\ remain \in Nat /\ batch \in Nat /\ effect_remain \in Nat
  BY DEF MixEffects, BufferInv, TypeOK
<1>2. CASE batch = 0
  <2>1. remain' = remain /\ pc' \in {"idle", "frame"}
    BY <1>2 DEF MixEffects
  <2>2. TurnsToDeliver' \in {0, 3} /\ TurnsToDeliver = 4
    BY <1>1, <1>2, <2>1 DEF TurnsToDeliver
  <2> QED
    BY <2>1, <2>2 DEF Turns
<1>3. CASE batch # 0
  <2> DEFINE n == IF effect_remain > 0 THEN Min({batch, effect_remain}) ELSE batch
  <2>1. remain' = remain - n
    BY <1>3 DEF MixEffects
  <2>2. n \in Nat /\ n > 0
    BY <1>1, <1>3, MinMaxOfTwo
  <2> HIDE DEF n
  <2>3. remain - n < remain
    BY <1>1, <2>2
  <2> QED
    BY <2>1, <2>3 DEF Turns
<1> QED
  BY <1>2, <1>3

\* A frame is longer than a sample, and fits into the buffers.
LEMMA FrameTurns == BufferInv /\ Frame => Turns
<1> SUFFICES ASSUME BufferInv, Frame PROVE Turns
  OBVIOUS
<1>1. pc = "frame" /\ pc' = "read" /\ remain' = remain /\ 0 \in Bufs
  BY BufFacts DEF Frame
<1>2. PICK over \in 0..Overshoot,
           cpc \in IF mode = "unknown" THEN BOOLEAN ELSE {FALSE} :
        offset' = [i \in Bufs |-> offset[i]
                     + (Requested + over) * (IF cpc THEN 2 * Factor ELSE factor)]
  BY DEF Frame
<1> DEFINE f == IF cpc THEN 2 * Factor ELSE factor
           length == (Requested + over) * f
           off == offset[0]
<1>3. /\ mode = "cpc" => factor = 2 * Factor
      /\ mode # "cpc" => factor = Factor
      /\ cpc \in BOOLEAN /\ (cpc => mode = "unknown")
  BY DEF BufferInv, PlayInv
<1>4. /\ Requested \in {Clocks, Clocks \div 2} /\ f \in {Factor, 2 * Factor}
      /\ f = 2 * Factor => Requested = Clocks \div 2
  <2>1. Factor # 2 * Factor
    BY Constants
  <2> QED
    BY <1>3, <2>1 DEF Requested
<1>5. length \in Nat /\ (Width + 1) * Unit <= length
  BY <1>4, FrameTime
<1>6. off \in Nat /\ offset'[0] = off + length
  BY <1>1, <1>2, BufFacts
<1>7. Fits'
  BY FrameInv DEF BufferInv
<1> HIDE DEF f, length, off
<1> DEFINE new == off + length
<1>8. new \in Nat /\ Unit <= new
  <2>1. Unit <= (Width + 1) * Unit /\ (Width + 1) * Unit \in Nat /\ Unit \in Nat
    BY Constants
  <2> QED
    BY <1>5, <1>6, <2>1
<1>9. new < (BufferSize + 1) * Unit /\ offset'[0] = new
  BY <1>6, <1>7 DEF Fits
<1> HIDE DEF new
<1>10. samples_avail(new) \in Nat /\ new < Unit * samples_avail(new) + Unit
  BY <1>8, <1>9, Available
<1>11. samples_avail(new) # 0
  BY <1>8, <1>10, Constants
<1>12. Avail' # 0
  BY <1>9, <1>11 DEF Avail, samples_avail
<1>13. TurnsToDeliver' = 2 /\ TurnsToDeliver = 3
  BY <1>1, <1>12 DEF TurnsToDeliver
<1> QED
  BY <1>1, <1>13 DEF Turns

\* The loop of play_() never turns in place: whatever the engine asks for and
\* however the counters cut it up, it runs a frame only when nothing can be
\* read, and can read when it has run one (Classic_Emu::play_()).
THEOREM PlayGoesOn == Spec => PlayProgress
<1>1. BufferInv /\ Step => Turns
  <2>1. BufferInv /\ FrameFails => Turns
    BY DEF FrameFails, TurnsToDeliver, Turns
  <2> QED
    BY <2>1, ReadStereoTurns, ReadEffectsTurns, MixEffectsTurns, FrameTurns DEF Step
<1>2. BufferInv /\ [Next]_vars
        => [Step => \/ remain' < remain
                    \/ remain' = remain /\ TurnsToDeliver' < TurnsToDeliver]_vars
  BY <1>1 DEF Turns
<1> QED
  BY BuffersTogether, <1>2, PTL DEF Spec, PlayProgress
=============================================================================
