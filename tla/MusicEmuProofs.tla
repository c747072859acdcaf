--------------------------- MODULE MusicEmuProofs ---------------------------
(***************************************************************************)
(* Theorems about MusicEmu for every value of its constants, for songs of  *)
(* any length and clients that do anything the interface allows.           *)
(***************************************************************************)
EXTENDS MusicEmu, TLAPS, WellFoundedInduction, SequenceTheorems

-----------------------------------------------------------------------------
(***************************************************************************)
(* Blocks and their silence.                                               *)
(***************************************************************************)

\* A non-empty set of naturals up to n has a largest element, and Max is it.
LEMMA MaxOfBoundedSet ==
    ASSUME NEW n \in Nat, NEW S \in SUBSET (0..n), S # {}
    PROVE  /\ Max(S) \in S
           /\ \A i \in S : i <= Max(S)
<1> DEFINE T == {n - i : i \in S}
<1>1. T \subseteq Nat /\ T # {}
  <2>1. \A i \in S : n - i \in Nat
    OBVIOUS
  <2>2. \A t \in T : t \in Nat
    BY <2>1
  <2>3. PICK i \in S : TRUE
    OBVIOUS
  <2>4. n - i \in T
    OBVIOUS
  <2> QED
    BY <2>2, <2>4
<1>2. PICK least \in T : \A t \in T : ~(<<t, least>> \in OpToRel(<, Nat))
  BY <1>1, WFMin, NatLessThanWellFounded
<1>3. \A t \in T : least <= t
  <2> SUFFICES ASSUME NEW t \in T, t < least PROVE FALSE
    BY <1>1
  <2>1. <<t, least>> \in {ss \in Nat \X Nat : ss[1] < ss[2]}
    BY <1>1
  <2> QED
    BY <2>1, <1>2 DEF OpToRel
<1>4. PICK m \in S : least = n - m
  OBVIOUS
<1>5. \A i \in S : m >= i
  <2> SUFFICES ASSUME NEW i \in S PROVE m >= i
    OBVIOUS
  <2>1. n - m <= n - i
    BY <1>3, <1>4
  <2>2. m \in Int /\ i \in Int
    OBVIOUS
  <2> HIDE DEF T
  <2> QED
    BY <2>1, <2>2
<1>6. \E x \in S : \A y \in S : x >= y
  BY <1>5
<1>7. Max(S) \in S /\ \A y \in S : Max(S) >= y
  BY <1>6 DEF Max
<1> QED
  BY <1>7

\* A block is a sequence of its length.
LEMMA BlockIsSequence ==
    ASSUME NEW n \in Nat, NEW blk \in Blocks(n)
    PROVE  blk \in Seq(BOOLEAN) /\ Len(blk) = n
<1>1. blk \in Seq(BOOLEAN)
  BY DEF Blocks
<1> QED
  BY <1>1, LenProperties DEF Blocks

\* A block of silence is a block.
LEMMA SilenceIsBlock ==
    ASSUME NEW n \in Nat
    PROVE  Silence(n) \in Blocks(n) /\ Silence(n) \in Seq(BOOLEAN)
           /\ Len(Silence(n)) = n
<1>1. Silence(n) \in Blocks(n)
  BY DEF Silence, Blocks
<1> QED
  BY <1>1, BlockIsSequence

\* count_silence() counts at least the sample it stops at, and no more than
\* the block has.
LEMMA CountSilenceInBlock ==
    ASSUME NEW n \in Nat \ {0}, NEW blk \in Blocks(n)
    PROVE  count_silence(blk) \in 1..n
<1> DEFINE S == {1} \cup {i \in 1..n : blk[i]}
<1>1. Len(blk) = n
  BY BlockIsSequence
<1>2. S \in SUBSET (0..n) /\ S # {} /\ \A i \in S : i \in 1..n
  OBVIOUS
<1>3. Max(S) \in 1..n
  BY <1>2, MaxOfBoundedSet
<1> QED
  BY <1>1, <1>3 DEF count_silence

-----------------------------------------------------------------------------
(***************************************************************************)
(* Running the emulator.                                                   *)
(***************************************************************************)
USE DEF QuietMax

\* The silence heard stays within its bounds, and adding silence adds to it.
LEMMA QuietAfterType ==
    ASSUME TypeOK, NEW n \in Nat \ {0}, NEW blk \in Blocks(n)
    PROVE  /\ QuietAfter(blk) \in 0..QuietMax
           /\ ~HasSound(blk) => QuietAfter(blk) = Lesser(quiet + n, QuietMax)
<1>1. Len(blk) = n
  BY BlockIsSequence
<1>2. count_silence(blk) \in 1..n
  BY CountSilenceInBlock
<1> QED
  BY <1>1, <1>2, EngineAssumption
  DEF QuietAfter, Lesser, TypeOK, NumbersOK, EngineAssumption

\* What emu_play() does to the variables it writes.
LEMMA EmuPlayType ==
    ASSUME TypeOK, NEW n \in Nat \ {0}, NEW blk \in Blocks(n),
           NEW outcome, emu_play(blk, outcome)
    PROVE  /\ emu_time' = emu_time + n
           /\ emu_track_ended' \in BOOLEAN /\ warning' \in BOOLEAN
           /\ quiet' \in 0..QuietMax
           /\ ~emu_track_ended => quiet' = QuietAfter(blk)
           /\ emu_track_ended => emu_track_ended' /\ quiet' = quiet
<1>1. Len(blk) = n
  BY BlockIsSequence
<1>2. QuietAfter(blk) \in 0..QuietMax
  BY QuietAfterType
<1> QED
  BY <1>1, <1>2 DEF emu_play, end_track_if_error, TypeOK, NumbersOK, FlagsOK

\* fill_buf() generates one block and queues it, on one of its two ways.
LEMMA FillBuf ==
    ASSUME TypeOK, buf_remain = 0, fill_buf
    PROVE  /\ emu_time' \in Nat /\ silence_time' \in Nat
           /\ emu_track_ended' \in BOOLEAN /\ warning' \in BOOLEAN
           /\ silence_count' \in Nat /\ buf_remain' \in 0..BufSize
           /\ buf' \in Blocks(BufSize)
           /\ quiet' \in 0..QuietMax /\ blind' \in BOOLEAN
           /\ BlockIsRecent'
           /\ emu_track_ended => emu_track_ended'
           /\ ~emu_track_ended =>
                /\ emu_time' = emu_time + BufSize
                /\ silence_count' + buf_remain' = silence_count + BufSize
                /\ buf_remain' = 0 /\ quiet >= Lesser(silence_count, QuietMax)
                     => quiet' >= Lesser(silence_count', QuietMax)
<1>0. BufSize \in Nat \ {0} /\ SilenceMax \in Nat
  BY EngineAssumption DEF EngineAssumption
<1>1. CASE emu_track_ended
  BY <1>0, <1>1
  DEF fill_buf, TypeOK, NumbersOK, FlagsOK, DataOK, BlockIsRecent, heardVars
<1>2. CASE ~emu_track_ended
  <2>1. PICK blk \in Blocks(BufSize), outcome \in Outcomes :
          /\ emu_play(blk, outcome)
          /\ buf' = blk
          /\ \/ /\ HasSound(blk)
                /\ silence_time' = emu_time' - count_silence(blk)
                /\ buf_remain' = BufSize
                /\ blind' = FALSE
                /\ UNCHANGED silence_count
             \/ /\ ~HasSound(blk)
                /\ silence_count' = silence_count + BufSize
                /\ UNCHANGED <<silence_time, buf_remain, blind>>
    BY <1>2 DEF fill_buf
  <2>2. count_silence(blk) \in 1..BufSize
    BY <1>0, CountSilenceInBlock
  <2>3. /\ emu_time' = emu_time + BufSize
        /\ emu_track_ended' \in BOOLEAN /\ warning' \in BOOLEAN
        /\ quiet' \in 0..QuietMax
        /\ quiet' = QuietAfter(blk)
    BY <1>0, <1>2, <2>1, EmuPlayType
  <2>4. CASE HasSound(blk)
    <3>1. /\ silence_time' = emu_time' - count_silence(blk)
          /\ buf_remain' = BufSize
          /\ silence_count' = silence_count
      BY <2>1, <2>4
    <3>2. blind' \in BOOLEAN
      BY <2>1, <2>4
    <3>3. silence_time' \in Nat /\ BlockIsRecent'
      BY <1>0, <2>2, <2>3, <3>1 DEF TypeOK, NumbersOK, FlagsOK, BlockIsRecent
    <3> QED
      BY <1>0, <1>2, <2>1, <2>3, <3>1, <3>2, <3>3 DEF TypeOK, NumbersOK
  <2>5. CASE ~HasSound(blk)
    <3>1. quiet' = Lesser(quiet + BufSize, QuietMax)
      BY <1>0, <2>3, <2>5, QuietAfterType
    <3> QED
      BY <1>0, <1>2, <2>1, <2>3, <2>5, <3>1
      DEF TypeOK, NumbersOK, FlagsOK, BlockIsRecent, Lesser
  <2> QED
    BY <2>4, <2>5
<1> QED
  BY <1>1, <1>2

-----------------------------------------------------------------------------
(***************************************************************************)
(* The inductive invariant.                                                *)
(***************************************************************************)
USE DEF clockVars, endVars, fadeVars, queueVars, muteVars, callVars, heardVars

\* What the assumptions say of each constant.
LEMMA EngineConstants ==
    /\ TrackCount \in Nat \ {0} /\ BufSize \in Nat \ {0}
    /\ SilenceMax \in Nat /\ SilenceMax >= BufSize
    /\ InitialSilence \in Nat /\ Lookahead \in Nat \ {0}
    /\ SkipThreshold \in Nat /\ SkipThreshold \div 2 >= BufSize
    /\ NoFade \in Nat
    /\ QuietMax \in Nat /\ QuietMax >= BufSize
  BY EngineAssumption DEF EngineAssumption

\* A new emulator holds nothing, at time 0.
LEMMA EngineInit == Init => EngineInv
<1> SUFFICES ASSUME Init PROVE EngineInv
  OBVIOUS
<1>1. NumbersOK
  BY EngineConstants DEF Init, NumbersOK
<1>2. FlagsOK
  BY DEF Init, FlagsOK
<1>3. DataOK
  BY EngineConstants, SilenceIsBlock DEF Init, DataOK, Phases
<1>4. InStep /\ PhaseInv
  BY DEF Init, InStep, PhaseInv
<1>5. BlockIsRecent /\ SilenceIsQuiet
  BY DEF Init, BlockIsRecent, SilenceIsQuiet
<1> QED
  BY <1>1, <1>2, <1>3, <1>4, <1>5 DEF EngineInv, TypeOK

\* A track that starts, or cannot, begins with an empty queue.
LEMMA StartTrackKeeps ==
    ASSUME EngineInv, NEW track \in Int, NEW target \in SeekTimes \cup {-1},
           pc = "idle", start_track(track, target)
    PROVE  EngineInv'
<1>0. NumbersOK /\ FlagsOK /\ DataOK
  BY DEF EngineInv, TypeOK
<1>1. /\ out_time' = 0 /\ emu_time' = 0
      /\ silence_time' = 0 /\ silence_count' = 0 /\ buf_remain' = 0
      /\ quiet' = 0
      /\ UNCHANGED <<buf, ignore_silence, mute_mask, saved_mute,
                     wanted_mask, mute_lost, count, out>>
  BY DEF start_track, clear_track_vars
<1>2. warning' = FALSE /\ blind' = FALSE
  BY DEF start_track, clear_track_vars
<1>3. /\ current_track' \in -1..TrackCount-1
      /\ \/ /\ pc' = pc /\ seek_to' = seek_to
            /\ track_ended' /\ emu_track_ended'
         \/ pc' = "starting" /\ seek_to' = target /\ ~track_ended'
  BY EngineConstants DEF start_track
<1>4. emu_track_ended' \in BOOLEAN /\ track_ended' \in BOOLEAN
  BY DEF start_track
<1>5. NumbersOK'
  <2>1. fade_start' \in Int /\ fade_step' \in Nat \ {0}
    BY InputAssumption, EngineConstants
    DEF start_track, clear_fade, InputAssumption
  <2>2. seek_to' \in SeekTimes \cup {-1}
    BY <1>0, <1>3 DEF NumbersOK
  <2>3. buf_remain' \in 0..BufSize /\ quiet' \in 0..QuietMax
    BY <1>1, EngineConstants
  <2>4. count' \in Nat
    BY <1>0, <1>1 DEF NumbersOK
  <2> QED
    BY <1>1, <1>3, <2>1, <2>2, <2>3, <2>4 DEF NumbersOK
<1>6. FlagsOK'
  BY <1>0, <1>1, <1>2, <1>4 DEF FlagsOK
<1>7. DataOK'
  BY <1>0, <1>1, <1>3 DEF DataOK, Phases
<1>8. InStep'
  BY <1>1, <1>3 DEF InStep, Delivered
<1>9. PhaseInv'
  BY <1>1, <1>3 DEF PhaseInv
<1>10. BlockIsRecent' /\ SilenceIsQuiet'
  BY <1>1, EngineConstants DEF BlockIsRecent, SilenceIsQuiet, Lesser
<1> QED
  BY <1>5, <1>6, <1>7, <1>8, <1>9, <1>10 DEF EngineInv, TypeOK

\* A skip takes its samples from the queue first, then from the emulator.
LEMMA SkipKeeps ==
    ASSUME EngineInv, NEW n \in Nat, pc \in {"idle", "seeking"},
           seek_to' \in SeekTimes \cup {-1}, skip(n)
    PROVE  EngineInv'
<1> DEFINE left == n - SkipSilence(n) - SkipBuf(n)
<1>0. NumbersOK /\ FlagsOK /\ DataOK
  BY DEF EngineInv, TypeOK
<1>1. /\ SkipSilence(n) \in Nat /\ SkipSilence(n) <= silence_count
      /\ SkipBuf(n) \in Nat /\ SkipBuf(n) <= buf_remain
      /\ left \in Nat
      /\ left > 0 => SkipSilence(n) = silence_count /\ SkipBuf(n) = buf_remain
      /\ SkipBuf(n) > 0 => SkipSilence(n) = silence_count
  BY <1>0, EngineConstants DEF SkipSilence, SkipBuf, Lesser, NumbersOK
<1>2. /\ out_time' = out_time + n
      /\ silence_count' = silence_count - SkipSilence(n)
      /\ buf_remain' = buf_remain - SkipBuf(n)
      /\ UNCHANGED <<current_track, emu_track_ended, fade_start, fade_step,
                     silence_time, buf, ignore_silence, wanted_mask, mute_lost,
                     warning, out, quiet, blind>>
  BY DEF skip
<1> HIDE DEF left
<1>3. \/ /\ left > 0 /\ ~emu_track_ended
         /\ emu_time' = emu_time + left
         /\ count' = left /\ saved_mute' = mute_mask
         /\ \/ mute_mask' = Voices /\ pc' = "muted"
            \/ mute_mask' = mute_mask /\ pc' = "skipping"
         /\ track_ended' = track_ended
      \/ /\ left = 0 \/ emu_track_ended
         /\ track_ended' \in BOOLEAN
         /\ track_ended => track_ended'
         /\ emu_track_ended /\ silence_count' = 0 /\ buf_remain' = 0
              => track_ended'
         /\ track_ended' => track_ended \/ emu_track_ended
         /\ pc' = "idle"
         /\ UNCHANGED <<emu_time, count, mute_mask, saved_mute>>
  BY DEF skip, left
<1>4. \/ left > 0 /\ emu_time' = emu_time + left /\ count' = left
      \/ emu_time' = emu_time /\ count' = count
  BY <1>3
<1>5. NumbersOK'
  <2>1. emu_time' \in Nat /\ count' \in Nat
    BY <1>0, <1>1, <1>4 DEF NumbersOK
  <2>2. out_time' \in Nat /\ silence_count' \in Nat
        /\ buf_remain' \in 0..BufSize
    BY <1>0, <1>1, <1>2, EngineConstants DEF NumbersOK
  <2> QED
    BY <1>0, <1>2, <2>1, <2>2 DEF NumbersOK
<1>6. FlagsOK'
  BY <1>0, <1>2, <1>3 DEF FlagsOK
<1>7. DataOK'
  BY <1>0, <1>2, <1>3 DEF DataOK, Phases
<1>8. silence_count + buf_remain = silence_count' + buf_remain' + (n - left)
  BY <1>0, <1>1, <1>2 DEF NumbersOK, left
<1>9. left > 0 => silence_count' = 0 /\ buf_remain' = 0
  BY <1>0, <1>1, <1>2 DEF NumbersOK
<1>10. ~track_ended' => ~track_ended /\ emu_time' = emu_time + left
  <2>1. CASE left > 0 /\ ~emu_track_ended
    BY <1>3, <2>1
  <2>2. CASE left = 0
    <3>1. emu_time' = emu_time /\ (~track_ended' => ~track_ended)
      BY <1>3, <2>2
    <3> QED
      BY <1>0, <2>2, <3>1 DEF NumbersOK
  <2>3. CASE left > 0 /\ emu_track_ended
    BY <1>3, <1>9, <2>3
  <2> QED
    BY <1>1, <2>1, <2>2, <2>3
<1>11. InStep'
  <2>1. ~track_ended => emu_time = out_time + silence_count + buf_remain
    BY <1>0 DEF EngineInv, InStep, Delivered, NumbersOK
  <2>2. Delivered' = 0
    BY <1>3 DEF Delivered
  <2> QED
    BY <1>0, <1>1, <1>2, <1>8, <1>10, <2>1, <2>2
    DEF InStep, NumbersOK
<1>12. PhaseInv'
  BY <1>2, <1>3, <1>9 DEF PhaseInv, EngineInv
<1>13. BlockIsRecent'
  BY <1>0, <1>1, <1>2, <1>4, <1>9 DEF EngineInv, BlockIsRecent, NumbersOK
<1>14. SilenceIsQuiet'
  <2>1. track_ended => track_ended'
    BY <1>3
  <2>2. buf_remain' = 0 => silence_count' = 0 \/
                           (buf_remain = 0 /\ silence_count' <= silence_count)
    BY <1>0, <1>1, <1>2 DEF NumbersOK
  <2> QED
    BY <1>0, <1>2, <1>5, <2>1, <2>2, EngineConstants
    DEF EngineInv, SilenceIsQuiet, NumbersOK, Lesser
<1> QED
  BY <1>5, <1>6, <1>7, <1>11, <1>12, <1>13, <1>14 DEF EngineInv, TypeOK

\* A block that is generated ahead joins the queue, and the emulator's clock
\* moves with it.
LEMMA FillKeeps ==
    ASSUME EngineInv, buf_remain = 0, fill_buf,
           emu_track_ended => track_ended,
           pc' \in Phases, Delivered' = Delivered,
           UNCHANGED <<current_track, out_time, track_ended, fadeVars,
                       ignore_silence, muteVars, count, seek_to, out>>
    PROVE  TypeOK' /\ InStep' /\ BlockIsRecent' /\ SilenceIsQuiet'
<1>0. NumbersOK /\ FlagsOK /\ DataOK
  BY DEF EngineInv, TypeOK
<1>1. /\ emu_time' \in Nat /\ silence_time' \in Nat
      /\ emu_track_ended' \in BOOLEAN /\ warning' \in BOOLEAN
      /\ silence_count' \in Nat /\ buf_remain' \in 0..BufSize
      /\ buf' \in Blocks(BufSize)
      /\ quiet' \in 0..QuietMax /\ blind' \in BOOLEAN
      /\ BlockIsRecent'
      /\ ~emu_track_ended =>
           /\ emu_time' = emu_time + BufSize
           /\ silence_count' + buf_remain' = silence_count + BufSize
           /\ buf_remain' = 0 /\ quiet >= Lesser(silence_count, QuietMax)
                => quiet' >= Lesser(silence_count', QuietMax)
  BY FillBuf DEF EngineInv
<1>2. NumbersOK'
  BY <1>0, <1>1 DEF NumbersOK
<1>3. FlagsOK'
  BY <1>0, <1>1 DEF FlagsOK
<1>4. DataOK'
  BY <1>0, <1>1 DEF DataOK
<1>5. InStep'
  <2> SUFFICES ASSUME ~track_ended
               PROVE  emu_time' = out_time + Delivered + silence_count'
                                  + buf_remain'
    BY DEF InStep
  <2>1. Delivered \in Nat
    BY <1>0, LenProperties DEF Delivered, DataOK
  <2>2. emu_time = out_time + Delivered + silence_count
    BY <1>0, <2>1 DEF EngineInv, InStep, NumbersOK
  <2>3. /\ emu_time' = emu_time + BufSize
        /\ silence_count' + buf_remain' = silence_count + BufSize
    BY <1>1
  <2>4. /\ out_time \in Nat /\ silence_count \in Nat /\ BufSize \in Nat
        /\ silence_count' \in Nat /\ buf_remain' \in Nat
    BY <1>0, <1>1, EngineConstants DEF NumbersOK
  <2>5. out_time + Delivered + silence_count' + buf_remain'
        = out_time + Delivered + (silence_count' + buf_remain')
    BY <2>1, <2>4
  <2>6. (out_time + Delivered + silence_count) + BufSize
        = out_time + Delivered + (silence_count + BufSize)
    BY <2>1, <2>4
  <2> QED
    BY <2>2, <2>3, <2>5, <2>6
<1>6. SilenceIsQuiet'
  BY <1>1 DEF EngineInv, SilenceIsQuiet
<1> QED
  BY <1>1, <1>2, <1>3, <1>4, <1>5, <1>6 DEF TypeOK

\* The end of the loop of start_track() that skips silence.
LEMMA TrimSilenceKeeps == EngineInv /\ TrimSilence => EngineInv'
<1> SUFFICES ASSUME EngineInv, TrimSilence PROVE EngineInv'
  OBVIOUS
<1>1. /\ pc = "starting" /\ pc' = pc
      /\ buf_remain = 0 /\ ~emu_track_ended /\ fill_buf
      /\ UNCHANGED <<current_track, out_time, track_ended, fadeVars,
                     ignore_silence, muteVars, count, seek_to, out>>
  BY DEF TrimSilence, MustTrim
<1>2. TypeOK' /\ InStep' /\ BlockIsRecent' /\ SilenceIsQuiet'
  BY <1>1, FillKeeps DEF Delivered, Phases
<1>3. PhaseInv'
  BY <1>1 DEF EngineInv, PhaseInv
<1> QED
  BY <1>2, <1>3 DEF EngineInv

\* One block of the look-ahead of play().
LEMMA PlayAheadKeeps == EngineInv /\ PlayAhead => EngineInv'
<1> SUFFICES ASSUME EngineInv, PlayAhead PROVE EngineInv'
  OBVIOUS
<1>1. /\ pc = "ahead" /\ pc' = pc
      /\ buf_remain = 0 /\ ~emu_track_ended /\ fill_buf
      /\ UNCHANGED <<current_track, out_time, track_ended, fadeVars,
                     ignore_silence, muteVars, count, seek_to, out>>
  BY DEF PlayAhead, MustGetAhead
<1>2. TypeOK' /\ InStep' /\ BlockIsRecent' /\ SilenceIsQuiet'
  BY <1>1, FillKeeps DEF Delivered, Phases
<1>3. PhaseInv'
  BY <1>1 DEF EngineInv, PhaseInv
<1> QED
  BY <1>2, <1>3 DEF EngineInv

\* The block that fill_buf() queues at the end of play().
LEMMA PlayRefillKeeps == EngineInv /\ PlayRefill => EngineInv'
<1> SUFFICES ASSUME EngineInv, PlayRefill PROVE EngineInv'
  OBVIOUS
<1>1. /\ pc = "refilling" /\ pc' = "fading" /\ fill_buf
      /\ UNCHANGED <<current_track, out_time, track_ended, fadeVars,
                     ignore_silence, muteVars, count, seek_to, out>>
  BY DEF PlayRefill
<1>2. buf_remain = 0 /\ (emu_track_ended => track_ended)
  BY <1>1 DEF EngineInv, PhaseInv
<1>3. TypeOK' /\ InStep' /\ BlockIsRecent' /\ SilenceIsQuiet'
  BY <1>1, <1>2, FillKeeps DEF Delivered, Phases
<1>4. emu_track_ended => emu_track_ended'
  BY <1>1, <1>2, FillBuf DEF EngineInv
<1>5. PhaseInv'
  BY <1>1, <1>4 DEF EngineInv, PhaseInv
<1> QED
  BY <1>3, <1>5 DEF EngineInv

\* The loop of start_track() ends with the clocks set to what is queued.
LEMMA StartedKeeps == EngineInv /\ Started => EngineInv'
<1> SUFFICES ASSUME EngineInv, Started PROVE EngineInv'
  OBVIOUS
<1>0. NumbersOK /\ FlagsOK /\ DataOK
  BY DEF EngineInv, TypeOK
<1>1. /\ pc = "starting"
      /\ pc' = IF seek_to >= 0 THEN "seeking" ELSE "idle"
      /\ UNCHANGED <<current_track, emu_track_ended, track_ended, fade_start,
                     fade_step, buf_remain, buf, ignore_silence, mute_mask,
                     saved_mute, wanted_mask, mute_lost, warning, count,
                     seek_to, out, quiet, blind>>
  BY DEF Started
<1>2. \/ /\ emu_time' = buf_remain /\ out_time' = 0
         /\ silence_time' = 0 /\ silence_count' = 0
      \/ UNCHANGED <<out_time, emu_time, silence_time, silence_count>>
  BY DEF Started
<1>3. out_time = 0 /\ Delivered = 0 /\ Delivered' = 0
  BY <1>1 DEF EngineInv, PhaseInv, Delivered
<1>4. NumbersOK'
  BY <1>0, <1>1, <1>2, EngineConstants DEF NumbersOK
<1>5. FlagsOK' /\ DataOK'
  BY <1>0, <1>1 DEF FlagsOK, DataOK, Phases
<1>6. InStep'
  BY <1>0, <1>1, <1>2, <1>3 DEF EngineInv, InStep, NumbersOK
<1>7. PhaseInv'
  BY <1>1, <1>2, <1>3 DEF EngineInv, PhaseInv
<1>8. BlockIsRecent'
  BY <1>0, <1>1, <1>2 DEF EngineInv, BlockIsRecent, NumbersOK
<1>9. SilenceIsQuiet'
  BY <1>0, <1>1, <1>2, EngineConstants
  DEF EngineInv, SilenceIsQuiet, Lesser, NumbersOK
<1> QED
  BY <1>4, <1>5, <1>6, <1>7, <1>8, <1>9 DEF EngineInv, TypeOK

-----------------------------------------------------------------------------
\* An end of track by silence finds no block queued.
LEMMA SilenceEndsBehindNoBlock ==
    EngineInv => SilenceEndKeepsSound
<1> SUFFICES ASSUME EngineInv, SilenceEnds PROVE buf_remain = 0
  BY DEF SilenceEndKeepsSound
<1> QED
  BY EngineConstants
  DEF EngineInv, TypeOK, NumbersOK, BlockIsRecent, SilenceEnds

\* A call of play() begins with nothing delivered.
LEMMA PlayKeeps ==
    ASSUME EngineInv, NEW k \in Nat \ {0}, Play(k)
    PROVE  EngineInv'
<1>0. NumbersOK /\ FlagsOK /\ DataOK
  BY DEF EngineInv, TypeOK
<1>1. /\ pc = "idle" /\ ~track_ended
      /\ pc' = "ahead" /\ count' = k /\ out' = <<>>
      /\ UNCHANGED <<current_track, out_time, emu_time, emu_track_ended,
                     track_ended, fade_start, fade_step, silence_time,
                     silence_count, buf_remain, buf, ignore_silence,
                     mute_mask, saved_mute, wanted_mask, mute_lost, warning,
                     seek_to, quiet, blind>>
  BY DEF Play
<1>2. NumbersOK' /\ FlagsOK'
  BY <1>0, <1>1 DEF NumbersOK, FlagsOK
<1>3. DataOK'
  BY <1>0, <1>1 DEF DataOK, Phases
<1>4. InStep' /\ PhaseInv' /\ BlockIsRecent' /\ SilenceIsQuiet'
  BY <1>1 DEF EngineInv, InStep, Delivered, PhaseInv, BlockIsRecent,
              SilenceIsQuiet
<1> QED
  BY <1>2, <1>3, <1>4 DEF EngineInv, TypeOK

\* After the end of the track play() delivers zeros and counts them.
LEMMA PlayEndedKeeps ==
    ASSUME EngineInv, NEW k \in Nat \ {0}, PlayEnded(k)
    PROVE  EngineInv'
<1>0. NumbersOK /\ FlagsOK /\ DataOK
  BY DEF EngineInv, TypeOK
<1>1. /\ pc = "idle" /\ track_ended
      /\ out' = Silence(k) /\ out_time' = out_time + k
      /\ UNCHANGED <<current_track, emu_time, emu_track_ended,
                     track_ended, fade_start, fade_step, silence_time,
                     silence_count, buf_remain, buf, ignore_silence,
                     mute_mask, saved_mute, wanted_mask, mute_lost, warning, pc,
                     count, seek_to, quiet, blind>>
  BY DEF PlayEnded
<1>2. NumbersOK' /\ FlagsOK'
  BY <1>0, <1>1 DEF NumbersOK, FlagsOK
<1>3. DataOK'
  BY <1>0, <1>1, SilenceIsBlock DEF DataOK
<1>4. InStep' /\ PhaseInv' /\ BlockIsRecent' /\ SilenceIsQuiet'
  BY <1>1 DEF EngineInv, InStep, PhaseInv, BlockIsRecent, SilenceIsQuiet
<1> QED
  BY <1>2, <1>3, <1>4 DEF EngineInv, TypeOK

\* The queue is delivered from its front.
LEMMA PlayQueueKeeps == EngineInv /\ PlayQueue => EngineInv'
<1> SUFFICES ASSUME EngineInv, PlayQueue PROVE EngineInv'
  OBVIOUS
<1> DEFINE pos   == Lesser(silence_count, count)
           avail == IF SilenceEnds THEN 0 ELSE buf_remain
           n     == Lesser(avail, count - pos)
<1>0. NumbersOK /\ FlagsOK /\ DataOK
  BY DEF EngineInv, TypeOK
<1>1. /\ pc = "ahead"
      /\ out' = Silence(pos) \o FromBuf(avail, n)
      /\ silence_count' = IF SilenceEnds THEN 0 ELSE silence_count - pos
      /\ buf_remain' = avail - n
      /\ count' = count - pos - n
      /\ pc' = IF pos + n = count THEN "fading" ELSE "generating"
      /\ UNCHANGED <<current_track, out_time, emu_time, fade_start, fade_step,
                     silence_time, buf, ignore_silence, mute_mask, saved_mute,
                     wanted_mask, mute_lost, warning, seek_to, quiet, blind>>
  BY DEF PlayQueue
<1>2. /\ track_ended' = (track_ended \/ SilenceEnds)
      /\ emu_track_ended' = (emu_track_ended \/ SilenceEnds)
  BY DEF PlayQueue
<1>3. /\ pos \in Nat /\ pos <= silence_count /\ pos <= count
      /\ avail \in 0..BufSize /\ avail <= buf_remain
      /\ n \in Nat /\ n <= avail /\ n <= count - pos
      /\ pos < count => pos = silence_count
      /\ n < count - pos => n = avail
      /\ ~SilenceEnds => avail = buf_remain
  BY <1>0, EngineConstants DEF Lesser, NumbersOK
<1>4. FromBuf(avail, n) \in Seq(BOOLEAN) /\ Len(FromBuf(avail, n)) = n
  <2> DEFINE first == BufSize - avail + 1
             last  == BufSize - avail + n
  <2>1. first \in Int /\ last \in Int /\ \A i \in first..last : i \in 1..BufSize
    BY <1>3, EngineConstants
  <2>2. \A i \in first..last : buf[i] \in BOOLEAN
    BY <1>0, <2>1 DEF DataOK, Blocks
  <2> HIDE DEF first, last
  <2>3. /\ SubSeq(buf, first, last) \in Seq(BOOLEAN)
        /\ Len(SubSeq(buf, first, last))
             = IF first <= last THEN last - first + 1 ELSE 0
    BY <2>1, <2>2, SubSeqProperties
  <2> QED
    BY <1>3, <2>3, EngineConstants DEF FromBuf, first, last
<1> HIDE DEF pos, avail, n
<1>5. out' \in Seq(BOOLEAN) /\ Len(out') = pos + n
  <2>1. out' = Silence(pos) \o FromBuf(avail, n)
    BY <1>1
  <2>2. Silence(pos) \in Seq(BOOLEAN) /\ Len(Silence(pos)) = pos
    BY <1>3, SilenceIsBlock
  <2> QED
    BY <1>3, <1>4, <2>1, <2>2, ConcatProperties
<1>6. Delivered = 0 /\ Delivered' = pos + n
  BY <1>1, <1>5 DEF Delivered
<1>7. SilenceEnds => buf_remain = 0
  BY EngineConstants
  DEF EngineInv, TypeOK, NumbersOK, BlockIsRecent, SilenceEnds
<1>8. NumbersOK'
  BY <1>0, <1>1, <1>3, EngineConstants DEF NumbersOK
<1>9. FlagsOK'
  BY <1>0, <1>1, <1>2 DEF FlagsOK
<1>10. DataOK'
  BY <1>0, <1>1, <1>5 DEF DataOK, Phases
<1>11. ~track_ended' => ~track_ended /\ ~SilenceEnds
  BY <1>2
<1>12. InStep'
  BY <1>0, <1>1, <1>3, <1>6, <1>11 DEF EngineInv, InStep, NumbersOK
<1>13. PhaseInv'
  <2>1. pc' = "generating" => /\ silence_count' = 0 /\ buf_remain' = 0
                              /\ count' > 0
    BY <1>0, <1>1, <1>3 DEF NumbersOK
  <2>2. track_ended' => emu_track_ended'
    BY <1>2 DEF EngineInv, PhaseInv
  <2> QED
    BY <1>1, <2>1, <2>2 DEF PhaseInv
<1>14. BlockIsRecent'
  BY <1>0, <1>1, <1>3 DEF EngineInv, BlockIsRecent, NumbersOK
<1>15. SilenceIsQuiet'
  <2>1. ~SilenceEnds /\ buf_remain' = 0
          => silence_count' = 0 \/
             (buf_remain = 0 /\ silence_count' <= silence_count)
    BY <1>0, <1>1, <1>3 DEF NumbersOK
  <2> QED
    BY <1>0, <1>1, <1>8, <1>11, <2>1, EngineConstants
    DEF EngineInv, SilenceIsQuiet, NumbersOK, Lesser
<1> QED
  BY <1>8, <1>9, <1>10, <1>12, <1>13, <1>14, <1>15 DEF EngineInv, TypeOK
\* What play() generates goes to its caller, behind the queue.
LEMMA PlayGenerateKeeps == EngineInv /\ PlayGenerate => EngineInv'
<1> SUFFICES ASSUME EngineInv, PlayGenerate PROVE EngineInv'
  OBVIOUS
<1>0. NumbersOK /\ FlagsOK /\ DataOK
  BY DEF EngineInv, TypeOK
<1>1. PICK blk \in Blocks(count), outcome \in Outcomes \cup {"ok"} :
        /\ emu_play(blk, outcome)
        /\ out' = out \o blk
        /\ \/ /\ Detecting /\ HasSound(blk)
              /\ silence_time' = emu_time' - count_silence(blk)
              /\ blind' = FALSE
           \/ /\ Detecting => ~HasSound(blk)
              /\ blind' = (blind \/ HasSound(blk))
              /\ UNCHANGED silence_time
  BY DEF PlayGenerate
<1>2. /\ pc = "generating"
      /\ track_ended' = EndReported
      /\ count' = 0
      /\ pc' \in {"refilling", "fading"}
      /\ UNCHANGED <<current_track, out_time, fade_start, fade_step,
                     silence_count, buf_remain, buf, ignore_silence,
                     mute_mask, saved_mute, wanted_mask, mute_lost, seek_to>>
  BY DEF PlayGenerate
<1>3. count \in Nat \ {0} /\ silence_count = 0 /\ buf_remain = 0
  BY <1>0, <1>2 DEF EngineInv, PhaseInv, NumbersOK
<1>4. /\ emu_time' = emu_time + count
      /\ emu_track_ended' \in BOOLEAN /\ warning' \in BOOLEAN
      /\ quiet' \in 0..QuietMax
      /\ emu_track_ended => emu_track_ended'
  BY <1>1, <1>3, EmuPlayType DEF EngineInv
<1>5. /\ count_silence(blk) \in 1..count
      /\ blk \in Seq(BOOLEAN) /\ Len(blk) = count
  BY <1>3, CountSilenceInBlock, BlockIsSequence
<1>6. silence_time' \in Nat
  <2>1. emu_time \in Nat /\ silence_time \in Nat
    BY <1>0 DEF NumbersOK
  <2>2. emu_time' - count_silence(blk) \in Nat
    BY <1>3, <1>4, <1>5, <2>1
  <2> QED
    BY <1>1, <2>1, <2>2
<1>7. blind' \in BOOLEAN
  BY <1>1
<1>8. out' \in Seq(BOOLEAN) /\ Len(out') = Len(out) + count
      /\ Len(out) \in Nat
  BY <1>0, <1>1, <1>5, ConcatProperties, LenProperties DEF DataOK
<1>9. NumbersOK'
  BY <1>0, <1>2, <1>4, <1>6 DEF NumbersOK
<1>10. track_ended' \in BOOLEAN /\ (emu_track_ended' => track_ended')
       /\ (track_ended => track_ended')
       /\ (track_ended' => emu_track_ended')
  BY <1>2, <1>4 DEF EndReported, EngineInv, PhaseInv
<1>11. FlagsOK'
  BY <1>0, <1>2, <1>4, <1>7, <1>10 DEF FlagsOK
<1>12. DataOK'
  BY <1>0, <1>2, <1>8 DEF DataOK, Phases
<1>13. InStep'
  <2> SUFFICES ASSUME ~track_ended'
               PROVE  emu_time' = out_time + Len(out') + silence_count
                                  + buf_remain
    BY <1>2 DEF InStep, Delivered
  <2>1. emu_time = out_time + Len(out)
    BY <1>0, <1>2, <1>3, <1>8, <1>10
    DEF EngineInv, InStep, Delivered, NumbersOK
  <2> QED
    BY <1>0, <1>3, <1>4, <1>8, <2>1 DEF NumbersOK
<1>14. PhaseInv'
  BY <1>2, <1>3, <1>10 DEF PhaseInv
<1>15. BlockIsRecent' /\ SilenceIsQuiet'
  BY <1>2, <1>3, <1>4, EngineConstants DEF BlockIsRecent, SilenceIsQuiet, Lesser
<1> QED
  BY <1>9, <1>11, <1>12, <1>13, <1>14, <1>15 DEF EngineInv, TypeOK

\* At its end play() counts what it delivered.
LEMMA PlayFadeKeeps == EngineInv /\ PlayFade => EngineInv'
<1> SUFFICES ASSUME EngineInv, PlayFade PROVE EngineInv'
  OBVIOUS
<1>0. NumbersOK /\ FlagsOK /\ DataOK
  BY DEF EngineInv, TypeOK
<1>1. /\ pc = "fading" /\ pc' = "idle"
      /\ out_time' = out_time + Len(out)
      /\ UNCHANGED <<current_track, emu_time, fade_start, fade_step,
                     silence_time, silence_count, buf_remain, buf,
                     ignore_silence, mute_mask, saved_mute, wanted_mask,
                     mute_lost, warning, count, seek_to, out, quiet, blind>>
  BY DEF PlayFade
<1>2. PICK ends \in BOOLEAN : /\ track_ended' = (track_ended \/ ends)
                              /\ emu_track_ended' = (emu_track_ended \/ ends)
  BY DEF PlayFade, handle_fade
<1>3. Len(out) \in Nat
  BY <1>0, LenProperties DEF DataOK
<1>4. NumbersOK'
  BY <1>0, <1>1, <1>3 DEF NumbersOK
<1>5. FlagsOK' /\ DataOK'
  BY <1>0, <1>1, <1>2 DEF FlagsOK, DataOK, Phases
<1>6. ~track_ended' => ~track_ended
  BY <1>2
<1>7. InStep'
  <2> SUFFICES ASSUME ~track_ended'
               PROVE  emu_time = out_time + Len(out) + silence_count
                                 + buf_remain
    BY <1>0, <1>1, <1>3 DEF InStep, Delivered, NumbersOK
  <2> QED
    BY <1>1, <1>6 DEF EngineInv, InStep, Delivered
<1>8. PhaseInv'
  BY <1>1, <1>2 DEF EngineInv, PhaseInv
<1>9. BlockIsRecent'
  BY <1>1 DEF EngineInv, BlockIsRecent
<1>10. SilenceIsQuiet'
  BY <1>1, <1>6 DEF EngineInv, SilenceIsQuiet
<1> QED
  BY <1>4, <1>5, <1>7, <1>8, <1>9, <1>10 DEF EngineInv, TypeOK

-----------------------------------------------------------------------------
(***************************************************************************)
(* The steps of skip_().                                                   *)
(***************************************************************************)

\* A block that is skipped changes the end of the track and its silence.
LEMMA SkipBlockType ==
    ASSUME TypeOK, NEW n \in Nat, NEW outcome, SkipBlock(n, outcome)
    PROVE  /\ emu_track_ended' \in BOOLEAN /\ warning' \in BOOLEAN
           /\ emu_track_ended => emu_track_ended'
           /\ quiet' \in 0..QuietMax /\ blind' \in BOOLEAN
<1>1. PICK sound \in BOOLEAN :
        /\ quiet' = IF sound THEN 0 ELSE Lesser(quiet + n, QuietMax)
        /\ blind' = (blind \/ sound)
  BY DEF SkipBlock
<1>2. quiet' \in 0..QuietMax
  BY <1>1, EngineConstants DEF TypeOK, NumbersOK, Lesser
<1>3. blind' \in BOOLEAN
  BY <1>1
<1> QED
  BY <1>2, <1>3 DEF SkipBlock, end_track_if_error

\* Both loops of skip_() keep the queue empty and count down.
LEMMA SkippingKeeps ==
    ASSUME EngineInv, pc \in {"muted", "skipping"},
           pc' \in {"muted", "skipping"}, count' \in Nat,
           NEW n \in Nat, NEW outcome, SkipBlock(n, outcome),
           mute_lost' \in BOOLEAN,
           UNCHANGED <<current_track, clockVars, track_ended, fadeVars,
                       silence_time, queueVars, ignore_silence, mute_mask,
                       saved_mute, wanted_mask, seek_to, out>>
    PROVE  EngineInv'
<1>0. NumbersOK /\ FlagsOK /\ DataOK
  BY DEF EngineInv, TypeOK
<1>1. /\ emu_track_ended' \in BOOLEAN /\ warning' \in BOOLEAN
      /\ emu_track_ended => emu_track_ended'
      /\ quiet' \in 0..QuietMax /\ blind' \in BOOLEAN
  BY SkipBlockType DEF EngineInv
<1>2. NumbersOK'
  BY <1>0, <1>1 DEF NumbersOK
<1>3. FlagsOK'
  BY <1>0, <1>1 DEF FlagsOK
<1>4. DataOK'
  BY <1>0 DEF DataOK, Phases
<1>5. InStep'
  BY DEF EngineInv, InStep, Delivered
<1>6. PhaseInv'
  BY <1>1 DEF EngineInv, PhaseInv
<1>7. BlockIsRecent'
  BY DEF EngineInv, BlockIsRecent
<1>8. silence_count' = 0
  BY DEF EngineInv, PhaseInv
<1>9. SilenceIsQuiet'
  BY <1>1, <1>8, EngineConstants DEF SilenceIsQuiet, Lesser
<1> QED
  BY <1>2, <1>3, <1>4, <1>5, <1>6, <1>7, <1>9 DEF EngineInv, TypeOK

\* The muted loop stops while there is a block left to count down.
LEMMA SkipMutedKeeps == EngineInv /\ SkipMuted => EngineInv'
<1> SUFFICES ASSUME EngineInv, SkipMuted PROVE EngineInv'
  OBVIOUS
<1>1. /\ pc = "muted" /\ pc' \in {"muted", "skipping"}
      /\ count' = count \/ count' = count - BufSize
      /\ count > SkipThreshold \div 2
      /\ UNCHANGED <<current_track, clockVars, track_ended, fadeVars,
                     silence_time, queueVars, ignore_silence, mute_mask,
                     saved_mute, wanted_mask, seek_to, out>>
  BY DEF SkipMuted, MustSkipMuted
<1>2. PICK outcome \in Outcomes : SkipBlock(BufSize, outcome)
  BY DEF SkipMuted
<1>3. count' \in Nat
  BY <1>1, EngineConstants DEF EngineInv, TypeOK, NumbersOK
<1>4. mute_lost' \in BOOLEAN
  BY DEF SkipMuted, EngineInv, TypeOK, FlagsOK
<1> QED
  BY <1>1, <1>2, <1>3, <1>4, SkippingKeeps, EngineConstants

\* The last part of a skip, which is shorter than a block.
LEMMA SkipRestKeeps == EngineInv /\ SkipRest => EngineInv'
<1> SUFFICES ASSUME EngineInv, SkipRest PROVE EngineInv'
  OBVIOUS
<1>1. /\ pc = "skipping" /\ pc' = pc
      /\ count' = count - SkipSize
      /\ UNCHANGED <<current_track, clockVars, track_ended, fadeVars,
                     silence_time, queueVars, ignore_silence, muteVars,
                     seek_to, out>>
  BY DEF SkipRest
<1>2. PICK outcome \in Outcomes : SkipBlock(SkipSize, outcome)
  BY DEF SkipRest
<1>3. SkipSize \in Nat /\ SkipSize <= count
  BY EngineConstants DEF EngineInv, TypeOK, NumbersOK, SkipSize, Lesser
<1>4. count' \in Nat
  BY <1>1, <1>3 DEF EngineInv, TypeOK, NumbersOK
<1>5. mute_lost' \in BOOLEAN
  BY <1>1 DEF EngineInv, TypeOK, FlagsOK
<1> QED
  BY <1>1, <1>2, <1>3, <1>4, <1>5, SkippingKeeps

\* A long skip gives the voices back and goes on with the rest.
LEMMA SkipUnmuteKeeps == EngineInv /\ SkipUnmute => EngineInv'
<1> SUFFICES ASSUME EngineInv, SkipUnmute PROVE EngineInv'
  OBVIOUS
<1>0. NumbersOK /\ FlagsOK /\ DataOK
  BY DEF EngineInv, TypeOK
<1>1. /\ pc = "muted" /\ pc' = "skipping" /\ mute_mask' = saved_mute
      /\ UNCHANGED <<current_track, out_time, emu_time, emu_track_ended,
                     track_ended, fade_start, fade_step, silence_time,
                     silence_count, buf_remain, buf, ignore_silence,
                     saved_mute, wanted_mask, mute_lost, warning, count,
                     seek_to, out, quiet, blind>>
  BY DEF SkipUnmute
<1>2. TypeOK'
  BY <1>0, <1>1 DEF TypeOK, NumbersOK, FlagsOK, DataOK, Phases
<1>3. InStep' /\ PhaseInv' /\ BlockIsRecent' /\ SilenceIsQuiet'
  BY <1>1 DEF EngineInv, InStep, Delivered, PhaseInv, BlockIsRecent,
              SilenceIsQuiet
<1> QED
  BY <1>2, <1>3 DEF EngineInv

\* At its end a skip has counted what it skipped.
LEMMA SkippedKeeps == EngineInv /\ Skipped => EngineInv'
<1> SUFFICES ASSUME EngineInv, Skipped PROVE EngineInv'
  OBVIOUS
<1>0. NumbersOK /\ FlagsOK /\ DataOK
  BY DEF EngineInv, TypeOK
<1>1. /\ pc = "skipping" /\ pc' = "idle" /\ count' = 0
      /\ UNCHANGED <<current_track, out_time, emu_time, emu_track_ended,
                     fade_start, fade_step, silence_time, silence_count,
                     buf_remain, buf, ignore_silence, mute_mask, saved_mute,
                     wanted_mask, mute_lost, warning, seek_to, out, quiet,
                     blind>>
  BY DEF Skipped
<1>2. track_ended' = (track_ended \/ (emu_track_ended /\ silence_count = 0
                                                      /\ buf_remain = 0))
  BY DEF Skipped
<1>3. NumbersOK'
  BY <1>0, <1>1 DEF NumbersOK
<1>4. FlagsOK' /\ DataOK'
  BY <1>0, <1>1, <1>2 DEF FlagsOK, DataOK, Phases
<1>5. (~track_ended' => ~track_ended) /\ (track_ended' => emu_track_ended')
  BY <1>1, <1>2 DEF EngineInv, PhaseInv
<1>6. InStep' /\ PhaseInv' /\ BlockIsRecent' /\ SilenceIsQuiet'
  BY <1>1, <1>5 DEF EngineInv, InStep, Delivered, PhaseInv, BlockIsRecent,
                    SilenceIsQuiet
<1> QED
  BY <1>3, <1>4, <1>6 DEF EngineInv, TypeOK

-----------------------------------------------------------------------------
(***************************************************************************)
(* The client's other calls.                                               *)
(***************************************************************************)

\* A client that changes a setting leaves the track and its queue alone.
LEMMA SettingKeeps ==
    ASSUME EngineInv, fade_start' \in Int, fade_step' \in Nat \ {0},
           mute_mask' \in {{}, Voices}, wanted_mask' \in {{}, Voices},
           mute_lost' \in BOOLEAN,
           ignore_silence' \in BOOLEAN,
           UNCHANGED <<current_track, clockVars, endVars, silence_time,
                       queueVars, saved_mute, warning, callVars, heardVars>>
    PROVE  EngineInv'
<1>1. NumbersOK' /\ FlagsOK' /\ DataOK'
  BY DEF EngineInv, TypeOK, NumbersOK, FlagsOK, DataOK, Phases
<1>2. InStep' /\ PhaseInv' /\ BlockIsRecent' /\ SilenceIsQuiet'
  BY DEF EngineInv, InStep, Delivered, PhaseInv, BlockIsRecent,
         SilenceIsQuiet
<1> QED
  BY <1>1, <1>2 DEF EngineInv, TypeOK

\* unload() forgets the track and its queue.
LEMMA UnloadKeeps == EngineInv /\ Unload => EngineInv'
<1> SUFFICES ASSUME EngineInv, Unload PROVE EngineInv'
  OBVIOUS
<1>0. NumbersOK /\ FlagsOK /\ DataOK
  BY DEF EngineInv, TypeOK
<1>1. /\ current_track' = -1
      /\ out_time' = 0 /\ emu_time' = 0
      /\ fade_start' = NoFade /\ fade_step' = 1
      /\ silence_time' = 0 /\ silence_count' = 0 /\ buf_remain' = 0
      /\ quiet' = 0
      /\ pc = "idle"
      /\ UNCHANGED <<buf, ignore_silence, mute_mask, saved_mute,
                     wanted_mask, mute_lost, pc, count, seek_to, out>>
  BY DEF Unload, clear_track_vars, clear_fade
<1>2. /\ warning' = FALSE /\ blind' = FALSE
      /\ emu_track_ended' = TRUE /\ track_ended' = TRUE
  BY DEF Unload, clear_track_vars
<1>3. NumbersOK'
  BY <1>0, <1>1, EngineConstants DEF NumbersOK
<1>4. FlagsOK' /\ DataOK'
  BY <1>0, <1>1, <1>2 DEF FlagsOK, DataOK
<1>5. InStep' /\ PhaseInv' /\ BlockIsRecent' /\ SilenceIsQuiet'
  BY <1>1, <1>2 DEF InStep, PhaseInv, BlockIsRecent, SilenceIsQuiet
<1> QED
  BY <1>3, <1>4, <1>5 DEF EngineInv, TypeOK

\* A seek back restarts the track; a seek forward is a skip.
LEMMA SeekKeeps ==
    ASSUME EngineInv, NEW time \in SeekTimes, Seek(time)
    PROVE  EngineInv'
<1>0. /\ time \in Nat /\ out_time \in Nat /\ current_track \in Int
      /\ seek_to \in SeekTimes \cup {-1} /\ pc = "idle"
  BY InputAssumption, EngineConstants
  DEF InputAssumption, EngineInv, TypeOK, NumbersOK, Seek
<1>1. CASE time < out_time /\ start_track(current_track, time)
  BY <1>0, <1>1, StartTrackKeeps
<1>2. CASE time >= out_time /\ skip(time - out_time) /\ UNCHANGED seek_to
  <2>1. time - out_time \in Nat
    BY <1>0, <1>2
  <2> QED
    BY <1>0, <1>2, <2>1, SkipKeeps
<1> QED
  BY <1>1, <1>2 DEF Seek

\* The second half of a seek: the skip to its target.
LEMMA SeekOnKeeps == EngineInv /\ SeekOn => EngineInv'
<1> SUFFICES ASSUME EngineInv, SeekOn PROVE EngineInv'
  OBVIOUS
<1>1. pc = "seeking" /\ skip(seek_to - out_time) /\ seek_to' = -1
  BY DEF SeekOn
<1>2. seek_to - out_time \in Nat
  BY <1>1, InputAssumption
  DEF InputAssumption, EngineInv, TypeOK, NumbersOK, PhaseInv
<1> QED
  BY <1>1, <1>2, SkipKeeps

\* A call of skip() by the client.
LEMMA SkipCallKeeps ==
    ASSUME EngineInv, NEW n \in SkipCounts, Skip(n)
    PROVE  EngineInv'
<1>1. n \in Nat /\ pc = "idle" /\ skip(n) /\ seek_to' \in SeekTimes \cup {-1}
  BY InputAssumption DEF InputAssumption, Skip, EngineInv, TypeOK, NumbersOK
<1> QED
  BY <1>1, SkipKeeps

-----------------------------------------------------------------------------
(***************************************************************************)
(* The theorems.                                                           *)
(***************************************************************************)

\* Every step of a running call.
LEMMA CallStepKeeps == EngineInv /\ CallStep => EngineInv'
  BY TrimSilenceKeeps, StartedKeeps, SeekOnKeeps, PlayAheadKeeps,
     PlayQueueKeeps, PlayGenerateKeeps, PlayRefillKeeps, PlayFadeKeeps,
     SkipMutedKeeps, SkipUnmuteKeeps, SkipRestKeeps, SkippedKeeps
  DEF CallStep

\* Every step of Next.
LEMMA EngineStep == EngineInv /\ [Next]_vars => EngineInv'
<1> SUFFICES ASSUME EngineInv, [Next]_vars PROVE EngineInv'
  OBVIOUS
<1>0. NumbersOK /\ FlagsOK /\ DataOK
  BY DEF EngineInv, TypeOK
<1>1. CASE CallStep
  BY <1>1, CallStepKeeps
<1>2. CASE PlayCall
  <2>1. PICK n \in PlayCounts : Play(n) \/ PlayEnded(n)
    BY <1>2 DEF PlayCall
  <2>2. n \in Nat \ {0}
    BY InputAssumption DEF InputAssumption
  <2> QED
    BY <2>1, <2>2, PlayKeeps, PlayEndedKeeps
<1>3. CASE \E track \in 0..TrackCount : StartTrack(track)
  <2>1. PICK track \in 0..TrackCount : StartTrack(track)
    BY <1>3
  <2>2. track \in Int /\ pc = "idle" /\ start_track(track, -1)
    BY <2>1, EngineConstants DEF StartTrack
  <2> QED
    BY <2>2, StartTrackKeeps
<1>4. CASE \E n \in SkipCounts : Skip(n)
  BY <1>4, SkipCallKeeps
<1>5. CASE \E time \in SeekTimes : Seek(time)
  BY <1>5, SeekKeeps
<1>6. CASE \E fade \in Fades : SetFade(fade)
  <2>1. PICK fade \in Fades : SetFade(fade)
    BY <1>6
  <2>2. fade[1] \in Int /\ fade[2] \in Nat \ {0}
    BY InputAssumption DEF InputAssumption
  <2>3. /\ fade_start' = fade[1] /\ fade_step' = fade[2]
        /\ UNCHANGED <<current_track, clockVars, endVars, silence_time,
                       queueVars, ignore_silence, muteVars, warning,
                       callVars, heardVars>>
    BY <2>1 DEF SetFade
  <2>4. /\ mute_mask' \in {{}, Voices} /\ wanted_mask' \in {{}, Voices}
        /\ mute_lost' \in BOOLEAN
        /\ ignore_silence' \in BOOLEAN
    BY <1>0, <2>3 DEF FlagsOK, DataOK
  <2> QED
    BY <2>2, <2>3, <2>4, SettingKeeps
<1>7. CASE \E mask \in {{}, Voices} : MuteVoices(mask)
  <2>1. PICK mask \in {{}, Voices} : MuteVoices(mask)
    BY <1>7
  <2>2. /\ mute_mask' = mask /\ wanted_mask' = mask /\ mute_lost' = FALSE
        /\ UNCHANGED <<current_track, clockVars, endVars, fadeVars,
                       silence_time, queueVars, ignore_silence, saved_mute,
                       warning, callVars, heardVars>>
    BY <2>1 DEF MuteVoices
  <2>3. /\ fade_start' \in Int /\ fade_step' \in Nat \ {0}
        /\ ignore_silence' \in BOOLEAN
    BY <1>0, <2>2 DEF NumbersOK, FlagsOK
  <2> QED
    BY <2>2, <2>3, SettingKeeps
<1>8. CASE \E disable \in BOOLEAN : IgnoreSilence(disable)
  <2>1. /\ ignore_silence' \in BOOLEAN
        /\ UNCHANGED <<current_track, clockVars, endVars, fadeVars,
                       silence_time, queueVars, muteVars, warning, callVars,
                       heardVars>>
    BY <1>8 DEF IgnoreSilence
  <2>2. /\ fade_start' \in Int /\ fade_step' \in Nat \ {0}
        /\ mute_mask' \in {{}, Voices} /\ wanted_mask' \in {{}, Voices}
        /\ mute_lost' \in BOOLEAN
    BY <1>0, <2>1 DEF NumbersOK, FlagsOK, DataOK
  <2> QED
    BY <2>1, <2>2, SettingKeeps
<1>9. CASE Unload
  BY <1>9, UnloadKeeps
<1>10. CASE UNCHANGED vars
  <2>1. /\ UNCHANGED <<current_track, clockVars, endVars, fadeVars,
                       silence_time, queueVars, ignore_silence, muteVars,
                       warning, callVars, heardVars>>
    BY <1>10 DEF vars
  <2>2. /\ fade_start' \in Int /\ fade_step' \in Nat \ {0}
        /\ mute_mask' \in {{}, Voices} /\ wanted_mask' \in {{}, Voices}
        /\ ignore_silence' \in BOOLEAN /\ mute_lost' \in BOOLEAN
    BY <1>0, <2>1 DEF NumbersOK, FlagsOK, DataOK
  <2> QED
    BY <2>1, <2>2, SettingKeeps
<1> QED
  BY <1>1, <1>2, <1>3, <1>4, <1>5, <1>6, <1>7, <1>8, <1>9, <1>10 DEF Next

\* In every phase of every call the engine is in the states the client can
\* rely on.
THEOREM EngineInvariance == Spec => []EngineInv
<1>1. Init => EngineInv
  BY EngineInit
<1>2. EngineInv /\ [Next]_vars => EngineInv'
  BY EngineStep
<1> QED
  BY <1>1, <1>2, PTL DEF Spec

\* No count of samples ever becomes negative or exceeds its buffer.
THEOREM TypeCorrect == Spec => []TypeOK
<1>1. EngineInv => TypeOK
  BY DEF EngineInv
<1> QED
  BY <1>1, EngineInvariance, PTL

\* The two clocks of a track that goes on differ by the queue between them:
\* the assertion of play() at Music_Emu.cpp:405, and more.
THEOREM StaysInStep == Spec => []InStep
<1>1. EngineInv => InStep
  BY DEF EngineInv
<1> QED
  BY <1>1, EngineInvariance, PTL

\* Silence that ends a track throws away no block with sound.
THEOREM NoSoundIsCutOff == Spec => []SilenceEndKeepsSound
<1>1. EngineInv => SilenceEndKeepsSound
  BY SilenceEndsBehindNoBlock
<1> QED
  BY <1>1, EngineInvariance, PTL
-----------------------------------------------------------------------------
(***************************************************************************)
(* What the look-ahead has heard when silence ends a track.                *)
(***************************************************************************)

\* e samples after silence_time are generated, of which d are delivered, and
\* the emulator is `rate' times as far as the client: most of e is queued.
LEMMA LookaheadQueue ==
    ASSUME NEW rate \in Nat \ {0}, NEW limit \in Nat, NEW e \in Int,
           NEW d \in Int, e > limit, e > rate * d
    PROVE  rate * (e - d) > (rate - 1) * limit
<1>1. rate * (e - d) = rate * e - rate * d
  OBVIOUS
<1>2. (rate - 1) * e = rate * e - e
  OBVIOUS
<1>3. (rate - 1) * e >= (rate - 1) * limit
  <2>1. rate - 1 \in Nat /\ e - limit \in Nat
    OBVIOUS
  <2>2. \A a, b \in Nat : a * b >= 0
    OBVIOUS
  <2>3. (rate - 1) * (e - limit) >= 0
    BY <2>1, <2>2
  <2>4. (rate - 1) * (e - limit) = (rate - 1) * e - (rate - 1) * limit
    OBVIOUS
  <2>5. (rate - 1) * e \in Int /\ (rate - 1) * limit \in Int
    OBVIOUS
  <2> QED
    BY <2>3, <2>4, <2>5
<1>4. rate * e \in Int /\ rate * d \in Int /\ (rate - 1) * limit \in Int
  OBVIOUS
<1> QED
  BY <1>1, <1>2, <1>3, <1>4

\* The queue holds only silence, and the look-ahead has gone as far as it
\* is to go, when silence ends a track that the emulator has not ended.
LEMMA SilenceEndsAhead ==
    ASSUME EngineInv, PlayQueue, SilenceEnds, ~emu_track_ended
    PROVE  /\ quiet >= Lesser(emu_time - out_time, QuietMax)
           /\ emu_time - silence_time > SilenceMax
           /\ emu_time - silence_time > Lookahead * (out_time - silence_time)
<1>0. NumbersOK
  BY DEF EngineInv, TypeOK
<1>1. pc = "ahead" /\ ~MustGetAhead
  BY DEF PlayQueue
<1>2. ~track_ended /\ count > 0 /\ Delivered = 0
  BY <1>1 DEF EngineInv, PhaseInv, Delivered
<1>3. buf_remain = 0 /\ silence_count > 0
  BY <1>1, SilenceEndsBehindNoBlock DEF SilenceEndKeepsSound, SilenceEnds
<1>4. emu_time = out_time + silence_count
  BY <1>0, <1>2, <1>3 DEF EngineInv, InStep, NumbersOK
<1>5. quiet >= Lesser(silence_count, QuietMax)
  BY <1>2, <1>3 DEF EngineInv, SilenceIsQuiet
<1>6. ~(emu_time < ahead_time)
  BY <1>1, <1>3 DEF MustGetAhead
<1>7. /\ emu_time \in Nat /\ out_time \in Nat /\ silence_time \in Nat
      /\ count \in Nat /\ silence_count \in Nat /\ Lookahead \in Nat \ {0}
  BY <1>0, EngineConstants DEF NumbersOK
<1>8. emu_time - silence_time > Lookahead * (out_time - silence_time)
  <2> DEFINE d == out_time - silence_time
  <2>1. d \in Int /\ ahead_time = Lookahead * (d + count) + silence_time
    BY <1>7 DEF ahead_time
  <2>2. Lookahead * (d + count) = Lookahead * d + Lookahead * count
    BY <1>7, <2>1
  <2>3. Lookahead * count > 0
    BY <1>2, <1>7
  <2>4. Lookahead * d \in Int /\ Lookahead * count \in Int
    BY <1>7, <2>1
  <2> HIDE DEF d
  <2>5. emu_time - silence_time > Lookahead * d
    BY <1>6, <1>7, <2>1, <2>2, <2>3, <2>4
  <2> QED
    BY <2>5 DEF d
<1>9. emu_time - out_time = silence_count
  BY <1>4, <1>7
<1> QED
  BY <1>5, <1>8, <1>9 DEF SilenceEnds

\* When silence ends a track, all of it but a share of 1 / Lookahead has
\* been heard, however stale silence_time is.
THEOREM NoTrackEndsEarly == Spec => NoEarlyEnd
<1>1. EngineInv /\ PlayQueue /\ SilenceEnds /\ ~emu_track_ended
        => Lookahead * quiet > (Lookahead - 1) * SilenceMax
  <2> SUFFICES ASSUME EngineInv, PlayQueue, SilenceEnds, ~emu_track_ended
               PROVE  Lookahead * quiet > (Lookahead - 1) * SilenceMax
    OBVIOUS
  <2> DEFINE e == emu_time - silence_time
             d == out_time - silence_time
  <2>1. /\ emu_time \in Nat /\ out_time \in Nat /\ silence_time \in Nat
        /\ quiet \in Nat /\ Lookahead \in Nat \ {0} /\ SilenceMax \in Nat
        /\ SilenceMax > 0
    BY EngineConstants DEF EngineInv, TypeOK, NumbersOK
  <2>2. /\ quiet >= Lesser(emu_time - out_time, QuietMax)
        /\ e > SilenceMax /\ e > Lookahead * d
    BY SilenceEndsAhead
  <2>3. e \in Int /\ d \in Int /\ e - d = emu_time - out_time
    BY <2>1
  <2> HIDE DEF e, d
  <2>4. CASE quiet >= e - d
    <3>1. Lookahead * (e - d) > (Lookahead - 1) * SilenceMax
      BY <2>1, <2>2, <2>3, LookaheadQueue
    <3>2. Lookahead * quiet >= Lookahead * (e - d)
      <4>1. Lookahead * (quiet - (e - d)) >= 0
        BY <2>1, <2>3, <2>4
      <4>2. Lookahead * (quiet - (e - d))
            = Lookahead * quiet - Lookahead * (e - d)
        BY <2>1, <2>3
      <4>3. Lookahead * quiet \in Int /\ Lookahead * (e - d) \in Int
        BY <2>1, <2>3
      <4> QED
        BY <4>1, <4>2, <4>3
    <3>3. /\ Lookahead * quiet \in Int /\ Lookahead * (e - d) \in Int
          /\ (Lookahead - 1) * SilenceMax \in Int
      BY <2>1, <2>3
    <3> QED
      BY <3>1, <3>2, <3>3
  <2>5. CASE quiet >= 2 * SilenceMax
    <3>1. Lookahead * (quiet - SilenceMax) >= 0
      BY <2>1, <2>5
    <3>2. Lookahead * (quiet - SilenceMax)
          = Lookahead * quiet - Lookahead * SilenceMax
      BY <2>1
    <3>3. (Lookahead - 1) * SilenceMax = Lookahead * SilenceMax - SilenceMax
      BY <2>1
    <3>4. Lookahead * quiet \in Int /\ Lookahead * SilenceMax \in Int
      BY <2>1
    <3> QED
      BY <2>1, <3>1, <3>2, <3>3, <3>4
  <2> QED
    BY <2>1, <2>2, <2>3, <2>4, <2>5 DEF Lesser
<1>2. EngineInv =>
        [PlayQueue /\ SilenceEnds /\ ~emu_track_ended
           => Lookahead * quiet > (Lookahead - 1) * SilenceMax]_vars
  BY <1>1
<1> QED
  BY <1>2, EngineInvariance, PTL DEF NoEarlyEnd, Spec

\* The look-ahead is not in vain: silence ends a track as soon as the share
\* of it that is delivered is long enough.
THEOREM SilenceEndsPromptly == Spec => PromptEnd
<1>1. EngineInv /\ PlayQueue /\ silence_count > 0 /\ ~ignore_silence
        /\ ~track_ended'
      => \/ buf_remain > 0
         \/ emu_track_ended
         \/ Lookahead * (out_time + count - silence_time) <= SilenceMax
  <2> SUFFICES ASSUME EngineInv, PlayQueue, silence_count > 0,
                      ~ignore_silence, ~track_ended', buf_remain = 0,
                      ~emu_track_ended
               PROVE  Lookahead * (out_time + count - silence_time)
                        <= SilenceMax
    BY DEF EngineInv, TypeOK, NumbersOK
  <2>1. ~MustGetAhead /\ ~SilenceEnds
    BY DEF PlayQueue
  <2>2. ~(emu_time < ahead_time) /\ ~(emu_time - silence_time > SilenceMax)
    BY <2>1 DEF MustGetAhead, SilenceEnds
  <2>3. /\ emu_time \in Int /\ silence_time \in Int /\ SilenceMax \in Int
        /\ Lookahead * (out_time + count - silence_time) \in Int
    BY EngineConstants DEF EngineInv, TypeOK, NumbersOK
  <2> QED
    BY <2>2, <2>3 DEF ahead_time
<1>2. EngineInv =>
        [PlayQueue /\ silence_count > 0 /\ ~ignore_silence /\ ~track_ended'
           => \/ buf_remain > 0
              \/ emu_track_ended
              \/ Lookahead * (out_time + count - silence_time)
                   <= SilenceMax]_vars
  BY <1>1
<1> QED
  BY <1>2, EngineInvariance, PTL DEF PromptEnd, Spec

-----------------------------------------------------------------------------
(***************************************************************************)
(* Muting.                                                                 *)
(***************************************************************************)

\* A long skip remembers in saved_mute what the client wanted, or that all
\* voices were left muted.
MuteInv == Restores(IF pc = "muted" THEN saved_mute ELSE mute_mask)

\* skip_() saves the mute mask before it mutes everything.
LEMMA SkipKeepsMute ==
    ASSUME MuteInv, pc \in {"idle", "seeking"}, NEW n, skip(n)
    PROVE  MuteInv'
<1>1. Restores(mute_mask) /\ UNCHANGED <<wanted_mask, mute_lost>>
  BY DEF MuteInv, skip
<1>2. \/ pc' = "muted" /\ saved_mute' = mute_mask
      \/ pc' # "muted" /\ mute_mask' = mute_mask
  BY DEF skip
<1> QED
  BY <1>1, <1>2 DEF MuteInv, Restores

\* start_track() leaves the mute mask alone.
LEMMA StartTrackKeepsMute ==
    ASSUME MuteInv, pc = "idle", NEW track, NEW target,
           start_track(track, target)
    PROVE  MuteInv'
<1>1. /\ UNCHANGED muteVars
      /\ pc' = pc \/ pc' = "starting"
  BY DEF start_track
<1> QED
  BY <1>1 DEF MuteInv, Restores

\* A step of the muted loop leaves what is saved, or fails: then all voices
\* are muted, as MutedAll says.
MutedAll == pc = "muted" => mute_mask = Voices

LEMMA SkipMutedKeepsMute ==
    ASSUME MuteInv, MutedAll, SkipMuted
    PROVE  MuteInv'
<1>1. pc = "muted" /\ UNCHANGED <<mute_mask, saved_mute, wanted_mask>>
  BY DEF SkipMuted
<1>2. CASE pc' = "skipping" /\ mute_lost' = TRUE
  BY <1>1, <1>2 DEF MuteInv, MutedAll, Restores
<1>3. CASE UNCHANGED <<pc, mute_lost>>
  BY <1>1, <1>3 DEF MuteInv, Restores
<1> QED
  BY <1>2, <1>3 DEF SkipMuted

\* Each step keeps both.
LEMMA MuteStep ==
    ASSUME MuteInv, MutedAll, [Next]_vars
    PROVE  MuteInv'
<1>1. CASE CallStep
  <2>1. CASE \/ TrimSilence \/ Started \/ PlayAhead \/ PlayQueue
             \/ PlayGenerate \/ PlayRefill \/ PlayFade
             \/ SkipRest \/ Skipped
    <3>1. UNCHANGED muteVars /\ pc # "muted" /\ pc' # "muted"
      BY <2>1 DEF TrimSilence, Started, PlayAhead, PlayQueue, PlayGenerate,
                  PlayRefill, PlayFade, SkipRest, Skipped
    <3> QED
      BY <3>1 DEF MuteInv, Restores
  <2>2. CASE SeekOn
    BY <2>2, SkipKeepsMute DEF SeekOn
  <2>3. CASE SkipMuted
    BY <2>3, SkipMutedKeepsMute
  <2>4. CASE SkipUnmute
    BY <2>4 DEF SkipUnmute, MuteInv, Restores
  <2> QED
    BY <1>1, <2>1, <2>2, <2>3, <2>4 DEF CallStep
<1>2. CASE PlayCall
  <2>1. UNCHANGED muteVars /\ pc # "muted" /\ pc' # "muted"
    BY <1>2 DEF PlayCall, Play, PlayEnded
  <2> QED
    BY <2>1 DEF MuteInv, Restores
<1>3. CASE \E track \in 0..TrackCount : StartTrack(track)
  BY <1>3, StartTrackKeepsMute DEF StartTrack
<1>4. CASE \E n \in SkipCounts : Skip(n)
  BY <1>4, SkipKeepsMute DEF Skip
<1>5. CASE \E time \in SeekTimes : Seek(time)
  BY <1>5, SkipKeepsMute, StartTrackKeepsMute DEF Seek
<1>6. CASE \E mask \in {{}, Voices} : MuteVoices(mask)
  BY <1>6 DEF MuteVoices, MuteInv, Restores
<1>7. CASE \/ \E fade \in Fades : SetFade(fade)
           \/ \E disable \in BOOLEAN : IgnoreSilence(disable)
           \/ Unload
           \/ UNCHANGED vars
  BY <1>7 DEF SetFade, IgnoreSilence, Unload, vars, MuteInv, Restores
<1> QED
  BY <1>1, <1>2, <1>3, <1>4, <1>5, <1>6, <1>7 DEF Next

\* All voices are muted where a long skip begins, and by nothing else while
\* it runs.
LEMMA MutedAllStep ==
    ASSUME MutedAll, [Next]_vars
    PROVE  MutedAll'
<1>1. ASSUME NEW n, skip(n) PROVE MutedAll'
  BY <1>1 DEF skip, MutedAll
<1>2. ASSUME NEW track, NEW target, pc = "idle", start_track(track, target)
      PROVE  MutedAll'
  BY <1>2 DEF start_track, MutedAll
<1>3. CASE CallStep
  <2>1. CASE SeekOn
    BY <1>1, <2>1 DEF SeekOn
  <2>2. CASE SkipMuted
    BY <2>2 DEF SkipMuted, MutedAll
  <2>3. CASE \/ TrimSilence \/ Started \/ PlayAhead \/ PlayQueue
             \/ PlayGenerate \/ PlayRefill \/ PlayFade
             \/ SkipUnmute \/ SkipRest \/ Skipped
    <3>1. pc' # "muted"
      BY <2>3 DEF TrimSilence, Started, PlayAhead, PlayQueue, PlayGenerate,
                  PlayRefill, PlayFade, SkipUnmute, SkipRest, Skipped
    <3> QED
      BY <3>1 DEF MutedAll
  <2> QED
    BY <1>3, <2>1, <2>2, <2>3 DEF CallStep
<1>4. CASE \/ PlayCall
           \/ \E fade \in Fades : SetFade(fade)
           \/ \E mask \in {{}, Voices} : MuteVoices(mask)
           \/ \E disable \in BOOLEAN : IgnoreSilence(disable)
           \/ Unload
           \/ UNCHANGED vars
  <2>1. pc' # "muted" \/ (pc' = pc /\ mute_mask' = mute_mask)
    BY <1>4 DEF PlayCall, Play, PlayEnded, SetFade, MuteVoices,
                IgnoreSilence, Unload, vars
  <2> QED
    BY <2>1 DEF MutedAll
<1>5. CASE \E track \in 0..TrackCount : StartTrack(track)
  BY <1>2, <1>5 DEF StartTrack
<1>6. CASE \E n \in SkipCounts : Skip(n)
  BY <1>1, <1>6 DEF Skip
<1>7. CASE \E time \in SeekTimes : Seek(time)
  BY <1>1, <1>2, <1>7 DEF Seek
<1> QED
  BY <1>3, <1>4, <1>5, <1>6, <1>7 DEF Next

\* A skip gives the client back the voices it had; only one that fails in
\* its muted loop leaves them muted, and then until the next mute_voices().
THEOREM SkipRestoresMute == Spec => []MuteKept
<1>1. Init => MuteInv /\ MutedAll
  BY DEF Init, MuteInv, MutedAll, Restores
<1>2. MuteInv /\ MutedAll /\ [Next]_vars => MuteInv' /\ MutedAll'
  BY MuteStep, MutedAllStep
<1>3. MuteInv => MuteKept
  BY DEF MuteInv, MuteKept
<1> QED
  BY <1>1, <1>2, <1>3, PTL DEF Spec

-----------------------------------------------------------------------------
(***************************************************************************)
(* The queue as one sequence.                                              *)
(***************************************************************************)

\* k silent samples and the last r of block b.
QueueOf(k, b, r) == Silence(k) \o SubSeq(b, BufSize - r + 1, BufSize)

\* A part of a block is a sequence of its samples.
LEMMA PartOfBlock ==
    ASSUME NEW b \in Blocks(BufSize), NEW r \in 0..BufSize, NEW t \in 0..r
    PROVE  LET part == SubSeq(b, BufSize - r + 1, BufSize - r + t)
           IN  /\ part \in Seq(BOOLEAN) /\ Len(part) = t
               /\ \A i \in 1..t : part[i] = b[BufSize - r + i]
<1> DEFINE first == BufSize - r + 1
           last  == BufSize - r + t
<1>1. /\ first \in Int /\ last \in Int /\ r \in Int /\ t \in Nat
      /\ BufSize \in Int
      /\ \A i \in first..last : i \in 1..BufSize
      /\ last - first + 1 = t /\ (first <= last <=> t > 0)
      /\ \A i \in 1..t : first + i - 1 = BufSize - r + i
  BY EngineConstants
<1>2. \A i \in first..last : b[i] \in BOOLEAN
  BY <1>1 DEF Blocks
<1> HIDE DEF first, last
<1>3. /\ SubSeq(b, first, last) \in Seq(BOOLEAN)
      /\ Len(SubSeq(b, first, last))
           = IF first <= last THEN last - first + 1 ELSE 0
      /\ \A i \in 1..last - first + 1 :
           SubSeq(b, first, last)[i] = b[first + i - 1]
  BY <1>1, <1>2, SubSeqProperties
<1>4. /\ SubSeq(b, first, last) \in Seq(BOOLEAN)
      /\ Len(SubSeq(b, first, last)) = t
      /\ \A i \in 1..t : SubSeq(b, first, last)[i] = b[BufSize - r + i]
  BY <1>1, <1>3
<1> QED
  BY <1>4 DEF first, last

\* The queue has its silence and then its samples of the block.
LEMMA QueueShape ==
    ASSUME NEW k \in Nat, NEW b \in Blocks(BufSize), NEW r \in 0..BufSize
    PROVE  /\ QueueOf(k, b, r) \in Seq(BOOLEAN)
           /\ Len(QueueOf(k, b, r)) = k + r
           /\ \A i \in 1..k + r :
                QueueOf(k, b, r)[i] = IF i <= k THEN FALSE
                                      ELSE b[BufSize - r + (i - k)]
<1> DEFINE rest == SubSeq(b, BufSize - r + 1, BufSize)
<1>1. BufSize - r + r = BufSize /\ r \in 0..r /\ r \in Nat
  BY EngineConstants
<1>2. /\ rest \in Seq(BOOLEAN) /\ Len(rest) = r
      /\ \A i \in 1..r : rest[i] = b[BufSize - r + i]
  BY <1>1, PartOfBlock
<1>3. /\ Silence(k) \in Seq(BOOLEAN) /\ Len(Silence(k)) = k
      /\ \A i \in 1..k : Silence(k)[i] = FALSE
  BY SilenceIsBlock DEF Silence
<1>4. QueueOf(k, b, r) = Silence(k) \o rest
  BY DEF QueueOf
<1> HIDE DEF rest
<1>5. /\ Silence(k) \o rest \in Seq(BOOLEAN)
      /\ Len(Silence(k) \o rest) = k + r
      /\ \A i \in 1..k + r : (Silence(k) \o rest)[i] =
           IF i <= k THEN Silence(k)[i] ELSE rest[i - k]
  <2> DEFINE front == Silence(k)
  <2>1. front \in Seq(BOOLEAN) /\ Len(front) = k
    BY <1>3
  <2> HIDE DEF front
  <2>2. /\ front \o rest \in Seq(BOOLEAN)
        /\ Len(front \o rest) = Len(front) + Len(rest)
        /\ \A i \in 1..Len(front) + Len(rest) : (front \o rest)[i] =
             IF i <= Len(front) THEN front[i] ELSE rest[i - Len(front)]
    BY <1>2, <2>1, ConcatProperties
  <2> QED
    BY <1>2, <2>1, <2>2 DEF front
<1>6. ASSUME NEW i \in 1..k + r
      PROVE  (Silence(k) \o rest)[i] = IF i <= k THEN FALSE
                                       ELSE b[BufSize - r + (i - k)]
  <2>1. CASE i <= k
    <3>1. i \in 1..k /\ (Silence(k) \o rest)[i] = Silence(k)[i]
      BY <1>5, <2>1
    <3> QED
      BY <1>3, <2>1, <3>1
  <2>2. CASE ~(i <= k)
    <3>1. i - k \in 1..r
      BY <1>1, <2>2
    <3> QED
      BY <1>2, <1>5, <2>2, <3>1
  <2> QED
    BY <2>1, <2>2
<1> QED
  BY <1>4, <1>5, <1>6

\* Two sequences that agree on their elements are equal.
LEMMA SameSamples ==
    ASSUME NEW s \in Seq(BOOLEAN), NEW t \in Seq(BOOLEAN), NEW n \in Nat,
           Len(s) = n, Len(t) = n, \A i \in 1..n : s[i] = t[i]
    PROVE  s = t
  BY SeqEqual

\* Without samples the queue is empty.
LEMMA EmptyQueue ==
    ASSUME NEW b \in Blocks(BufSize)
    PROVE  QueueOf(0, b, 0) = <<>>
<1>1. 0 \in Nat /\ 0 \in 0..BufSize /\ 0 + 0 = 0
  BY EngineConstants
<1>2. QueueOf(0, b, 0) \in Seq(BOOLEAN) /\ Len(QueueOf(0, b, 0)) = 0
  BY <1>1, QueueShape
<1> QED
  BY <1>2, EmptySeq

\* A queue without a block is silent.
LEMMA SilentQueue ==
    ASSUME NEW k \in Nat, NEW b \in Blocks(BufSize)
    PROVE  Queue!Quiet(QueueOf(k, b, 0))
<1>1. 0 \in 0..BufSize /\ k + 0 = k
  BY EngineConstants
<1> DEFINE all == QueueOf(k, b, 0)
<1>2. /\ Len(all) = k + 0
      /\ \A i \in 1..k + 0 : all[i] = IF i <= k THEN FALSE
                                      ELSE b[BufSize - 0 + (i - k)]
  BY <1>1, QueueShape
<1> HIDE DEF all
<1>3. Len(all) = k /\ \A i \in 1..k : all[i] = FALSE
  <2>1. \A i \in 1..k : i \in 1..k + 0 /\ i <= k
    BY <1>1
  <2> QED
    BY <1>1, <1>2, <2>1, Zenon
<1> QED
  BY <1>3 DEF Queue!Quiet, all

\* A queue that is taken from its front gives its silence before its block.
LEMMA TakeFront ==
    ASSUME NEW k \in Nat, NEW b \in Blocks(BufSize), NEW r \in 0..BufSize,
           NEW s \in 0..k, NEW t \in 0..r, s = k \/ t = 0
    PROVE  LET all == QueueOf(k, b, r)
           IN  /\ s + t \in 0..Len(all)
               /\ Queue!Front(all, s + t)
                    = Silence(s) \o SubSeq(b, BufSize - r + 1, BufSize - r + t)
<1> DEFINE all   == QueueOf(k, b, r)
           block == SubSeq(b, BufSize - r + 1, BufSize - r + t)
           front == Silence(s)
<1>1. /\ k \in Nat /\ r \in Nat /\ s \in Nat /\ t \in Nat /\ BufSize \in Nat
      /\ s <= k /\ t <= r /\ s + t <= k + r /\ s + t \in Nat
  BY EngineConstants
<1>2. /\ all \in Seq(BOOLEAN) /\ Len(all) = k + r
      /\ \A i \in 1..k + r : all[i] = IF i <= k THEN FALSE
                                      ELSE b[BufSize - r + (i - k)]
  BY QueueShape
<1>3. /\ block \in Seq(BOOLEAN) /\ Len(block) = t
      /\ \A i \in 1..t : block[i] = b[BufSize - r + i]
  BY PartOfBlock
<1>4. /\ front \in Seq(BOOLEAN) /\ Len(front) = s
      /\ \A i \in 1..s : front[i] = FALSE
  BY <1>1, SilenceIsBlock DEF Silence
<1> HIDE DEF all, block, front
<1>5. /\ front \o block \in Seq(BOOLEAN)
      /\ Len(front \o block) = Len(front) + Len(block)
      /\ \A i \in 1..Len(front) + Len(block) : (front \o block)[i] =
           IF i <= Len(front) THEN front[i] ELSE block[i - Len(front)]
  BY <1>3, <1>4, ConcatProperties
<1>6. /\ SubSeq(all, 1, s + t) \in Seq(BOOLEAN)
      /\ Len(SubSeq(all, 1, s + t)) = s + t
      /\ \A i \in 1..s + t : SubSeq(all, 1, s + t)[i] = all[i]
  <2>1. \A i \in 1..s + t : i \in 1..Len(all) /\ 1 + i - 1 = i
    BY <1>1, <1>2
  <2>2. \A i \in 1..s + t : all[i] \in BOOLEAN
    BY <1>2, <2>1, ElementOfSeq
  <2>3. /\ SubSeq(all, 1, s + t) \in Seq(BOOLEAN)
        /\ Len(SubSeq(all, 1, s + t)) = IF 1 <= s + t THEN s + t - 1 + 1 ELSE 0
        /\ \A i \in 1..s + t - 1 + 1 : SubSeq(all, 1, s + t)[i] = all[1 + i - 1]
    BY <1>1, <2>2, SubSeqProperties
  <2>4. s + t - 1 + 1 = s + t /\ (1 <= s + t \/ s + t = 0)
    BY <1>1
  <2> QED
    BY <2>1, <2>3, <2>4
<1>7. ASSUME NEW i \in 1..s + t
      PROVE  SubSeq(all, 1, s + t)[i] = (front \o block)[i]
  <2>1. i \in 1..k + r /\ i \in 1..Len(front) + Len(block)
    BY <1>1, <1>3, <1>4
  <2>2. CASE i <= s
    <3>1. i <= k /\ i \in 1..s /\ i <= Len(front)
      BY <1>1, <1>4, <2>2
    <3> QED
      BY <1>2, <1>4, <1>5, <1>6, <2>1, <3>1, Zenon
  <2>3. CASE ~(i <= s)
    <3>1. /\ s = k /\ ~(i <= k) /\ i - k \in 1..t /\ ~(i <= Len(front))
          /\ i - Len(front) = i - k
      BY <1>1, <1>4, <2>3
    <3> QED
      BY <1>2, <1>3, <1>5, <1>6, <2>1, <3>1, Zenon
  <2> QED
    BY <2>2, <2>3
<1>8. SubSeq(all, 1, s + t) = front \o block
  <2>1. Len(front \o block) = s + t
    BY <1>3, <1>4, <1>5
  <2> QED
    BY <1>1, <1>5, <1>6, <1>7, <2>1, SameSamples
<1>9. s + t \in 0..Len(all)
  BY <1>1, <1>2
<1> QED
  BY <1>8, <1>9 DEF Queue!Front, all, block, front

\* ... and what is left is a queue again.
LEMMA TakeRest ==
    ASSUME NEW k \in Nat, NEW b \in Blocks(BufSize), NEW r \in 0..BufSize,
           NEW s \in 0..k, NEW t \in 0..r, s = k \/ t = 0
    PROVE  Queue!Rest(QueueOf(k, b, r), s + t) = QueueOf(k - s, b, r - t)
<1> DEFINE all  == QueueOf(k, b, r)
           left == QueueOf(k - s, b, r - t)
           n    == k - s + (r - t)
<1>1. /\ k \in Nat /\ r \in Nat /\ s \in Nat /\ t \in Nat /\ BufSize \in Nat
      /\ s <= k /\ t <= r /\ s + t + n = k + r /\ s + t \in Nat
      /\ k - s \in Nat /\ r - t \in 0..BufSize /\ n \in Nat
  BY EngineConstants
<1>2. /\ all \in Seq(BOOLEAN) /\ Len(all) = k + r
      /\ \A i \in 1..k + r : all[i] = IF i <= k THEN FALSE
                                      ELSE b[BufSize - r + (i - k)]
  BY QueueShape
<1>3. /\ left \in Seq(BOOLEAN) /\ Len(left) = n
      /\ \A i \in 1..n : left[i] = IF i <= k - s THEN FALSE
                                   ELSE b[BufSize - (r - t) + (i - (k - s))]
  BY <1>1, QueueShape
<1> HIDE DEF all, left, n
<1> DEFINE rest == SubSeq(all, s + t + 1, Len(all))
<1>4. /\ rest \in Seq(BOOLEAN) /\ Len(rest) = n
      /\ \A i \in 1..n : rest[i] = all[s + t + i]
  <2> DEFINE first == s + t + 1
             last  == Len(all)
  <2>1. /\ first \in Int /\ last \in Int
        /\ \A i \in first..last : i \in 1..Len(all)
        /\ last - first + 1 = n /\ (first <= last \/ n = 0)
        /\ (first <= last => n > 0)
        /\ \A i \in 1..n : first + i - 1 = s + t + i
    BY <1>1, <1>2
  <2>2. \A i \in first..last : all[i] \in BOOLEAN
    BY <1>2, <2>1, ElementOfSeq
  <2> HIDE DEF first, last
  <2>3. /\ SubSeq(all, first, last) \in Seq(BOOLEAN)
        /\ Len(SubSeq(all, first, last))
             = IF first <= last THEN last - first + 1 ELSE 0
        /\ \A i \in 1..last - first + 1 :
             SubSeq(all, first, last)[i] = all[first + i - 1]
    BY <2>1, <2>2, SubSeqProperties
  <2>4. /\ SubSeq(all, first, last) \in Seq(BOOLEAN)
        /\ Len(SubSeq(all, first, last)) = n
        /\ \A i \in 1..n : SubSeq(all, first, last)[i] = all[s + t + i]
    BY <1>1, <2>1, <2>3
  <2> QED
    BY <2>4 DEF first, last
<1>5. ASSUME NEW i \in 1..n
      PROVE  rest[i] = left[i]
  <2>1. s + t + i \in 1..k + r
    BY <1>1
  <2>2. all[s + t + i] = IF s + t + i <= k THEN FALSE
                         ELSE b[BufSize - r + ((s + t + i) - k)]
    BY <1>2, <2>1, Zenon
  <2>3. s + t + i <= k <=> i <= k - s
    BY <1>1
  <2>4. BufSize - r + ((s + t + i) - k) = BufSize - (r - t) + (i - (k - s))
    BY <1>1
  <2> QED
    BY <1>3, <1>4, <2>2, <2>3, <2>4, Zenon
<1> HIDE DEF rest
<1>6. rest = left
  BY <1>1, <1>3, <1>4, <1>5, SameSamples
<1> QED
  BY <1>6 DEF Queue!Rest, all, left, rest

\* A block that is generated behind a silent queue makes a queue again,
\* with the block as it is or as so much silence.
LEMMA JoinBlock ==
    ASSUME NEW k \in Nat, NEW b \in Blocks(BufSize),
           NEW blk \in Blocks(BufSize)
    PROVE  /\ QueueOf(k, b, 0) \o blk = QueueOf(k, blk, BufSize)
           /\ QueueOf(k, b, 0) \o Silence(BufSize)
                = QueueOf(k + BufSize, blk, 0)
<1> DEFINE silent == QueueOf(k, b, 0)
           queued == QueueOf(k, blk, BufSize)
           longer == QueueOf(k + BufSize, blk, 0)
           block  == Silence(BufSize)
<1>1. /\ BufSize \in Nat /\ 0 \in 0..BufSize /\ BufSize \in 0..BufSize
      /\ k + BufSize \in Nat /\ k + 0 = k
      /\ k + BufSize + 0 = k + BufSize
  BY EngineConstants
<1>2. /\ silent \in Seq(BOOLEAN) /\ Len(silent) = k + 0
      /\ \A i \in 1..k + 0 : silent[i] = IF i <= k THEN FALSE
                                         ELSE b[BufSize - 0 + (i - k)]
  BY <1>1, QueueShape
<1>3. /\ queued \in Seq(BOOLEAN) /\ Len(queued) = k + BufSize
      /\ \A i \in 1..k + BufSize : queued[i] =
           IF i <= k THEN FALSE ELSE blk[BufSize - BufSize + (i - k)]
  BY <1>1, QueueShape
<1>4. /\ longer \in Seq(BOOLEAN) /\ Len(longer) = k + BufSize + 0
      /\ \A i \in 1..k + BufSize + 0 : longer[i] =
           IF i <= k + BufSize THEN FALSE
           ELSE blk[BufSize - 0 + (i - (k + BufSize))]
  BY <1>1, QueueShape
<1>5. /\ block \in Seq(BOOLEAN) /\ Len(block) = BufSize
      /\ \A i \in 1..BufSize : block[i] = FALSE
  BY <1>1, SilenceIsBlock DEF Silence
<1>6. blk \in Seq(BOOLEAN) /\ Len(blk) = BufSize
  BY <1>1, BlockIsSequence
<1> HIDE DEF silent, queued, longer, block
<1>7. /\ Len(silent) = k /\ Len(longer) = k + BufSize
      /\ \A i \in 1..k : silent[i] = FALSE
      /\ \A i \in 1..k + BufSize : longer[i] = FALSE
  <2>1. /\ \A i \in 1..k : i \in 1..k + 0 /\ i <= k
        /\ \A i \in 1..k + BufSize : /\ i \in 1..k + BufSize + 0
                                     /\ i <= k + BufSize
    BY <1>1
  <2> QED
    BY <1>1, <1>2, <1>4, <2>1, Zenon
<1>8. silent \o blk = queued
  <2>1. /\ silent \o blk \in Seq(BOOLEAN)
        /\ Len(silent \o blk) = Len(silent) + Len(blk)
        /\ \A i \in 1..Len(silent) + Len(blk) : (silent \o blk)[i] =
             IF i <= Len(silent) THEN silent[i] ELSE blk[i - Len(silent)]
    BY <1>2, <1>6, ConcatProperties
  <2>2. /\ Len(silent \o blk) = k + BufSize
        /\ \A i \in 1..k + BufSize : (silent \o blk)[i] =
             IF i <= k THEN silent[i] ELSE blk[i - k]
    BY <1>6, <1>7, <2>1, Zenon
  <2>3. ASSUME NEW i \in 1..k + BufSize
        PROVE  (silent \o blk)[i] = queued[i]
    <3>1. CASE i <= k
      <4>1. i \in 1..k
        BY <1>1, <3>1
      <4> QED
        BY <1>3, <1>7, <2>2, <3>1, <4>1, Zenon
    <3>2. CASE ~(i <= k)
      <4>1. BufSize - BufSize + (i - k) = i - k
        BY <1>1
      <4> QED
        BY <1>3, <2>2, <3>2, <4>1, Zenon
    <3> QED
      BY <3>1, <3>2
  <2> QED
    BY <1>1, <1>3, <2>1, <2>2, <2>3, SameSamples
<1>9. silent \o block = longer
  <2>1. /\ silent \o block \in Seq(BOOLEAN)
        /\ Len(silent \o block) = Len(silent) + Len(block)
        /\ \A i \in 1..Len(silent) + Len(block) : (silent \o block)[i] =
             IF i <= Len(silent) THEN silent[i] ELSE block[i - Len(silent)]
    BY <1>2, <1>5, ConcatProperties
  <2>2. /\ Len(silent \o block) = k + BufSize
        /\ \A i \in 1..k + BufSize : (silent \o block)[i] =
             IF i <= k THEN silent[i] ELSE block[i - k]
    BY <1>5, <1>7, <2>1, Zenon
  <2>3. ASSUME NEW i \in 1..k + BufSize
        PROVE  (silent \o block)[i] = longer[i]
    <3>1. CASE i <= k
      <4>1. i \in 1..k
        BY <1>1, <3>1
      <4> QED
        BY <1>7, <2>2, <3>1, <4>1, Zenon
    <3>2. CASE ~(i <= k)
      <4>1. i - k \in 1..BufSize
        BY <1>1, <3>2
      <4> QED
        BY <1>5, <1>7, <2>2, <3>2, <4>1, Zenon
    <3> QED
      BY <3>1, <3>2
  <2> QED
    BY <1>1, <1>4, <1>7, <2>1, <2>2, <2>3, SameSamples
<1> QED
  BY <1>8, <1>9 DEF silent, queued, longer, block

\* What is put behind a sequence leaves its front as it was.
LEMMA FrontOfConcat ==
    ASSUME NEW s \in Seq(BOOLEAN), NEW t \in Seq(BOOLEAN)
    PROVE  /\ Queue!Front(s \o t, Len(s)) = s
           /\ Queue!Rest(s \o t, Len(s)) = t
<1> DEFINE m == Len(s)
           n == Len(t)
           u == s \o t
<1>1. /\ m \in Nat /\ n \in Nat
      /\ u \in Seq(BOOLEAN) /\ Len(u) = m + n
      /\ \A i \in 1..m + n : u[i] = IF i <= m THEN s[i] ELSE t[i - m]
  BY ConcatProperties, LenProperties
<1> HIDE DEF m, n, u
<1>2. \A i \in 1..m + n : u[i] \in BOOLEAN
  BY <1>1, ElementOfSeq
<1>3. SubSeq(u, 1, m) = s
  <2>1. /\ 1 \in Int /\ m \in Int /\ \A i \in 1..m : i \in 1..m + n
        /\ m - 1 + 1 = m /\ (1 <= m \/ m = 0)
        /\ \A i \in 1..m : 1 + i - 1 = i
    BY <1>1
  <2>2. \A i \in 1..m : u[i] \in BOOLEAN
    BY <1>2, <2>1
  <2>3. /\ SubSeq(u, 1, m) \in Seq(BOOLEAN)
        /\ Len(SubSeq(u, 1, m)) = IF 1 <= m THEN m - 1 + 1 ELSE 0
        /\ \A i \in 1..m - 1 + 1 : SubSeq(u, 1, m)[i] = u[1 + i - 1]
    BY <2>1, <2>2, SubSeqProperties
  <2>4. Len(SubSeq(u, 1, m)) = m /\ \A i \in 1..m : SubSeq(u, 1, m)[i] = u[i]
    BY <2>1, <2>3
  <2>5. \A i \in 1..m : SubSeq(u, 1, m)[i] = s[i]
    <3>1. \A i \in 1..m : i <= m
      BY <1>1
    <3> QED
      BY <1>1, <2>1, <2>4, <3>1, Zenon
  <2>6. Len(s) = m
    BY DEF m
  <2> QED
    BY <1>1, <2>3, <2>4, <2>5, <2>6, SameSamples
<1>4. SubSeq(u, m + 1, Len(u)) = t
  <2> DEFINE first == m + 1
             last  == m + n
  <2>1. /\ first \in Int /\ last \in Int
        /\ \A i \in first..last : i \in 1..m + n
        /\ last - first + 1 = n /\ (first <= last \/ n = 0)
        /\ (first <= last => n > 0)
        /\ \A i \in 1..n : /\ first + i - 1 = m + i
                           /\ m + i \in 1..m + n
                           /\ ~(m + i <= m) /\ (m + i) - m = i
    BY <1>1
  <2>2. \A i \in first..last : u[i] \in BOOLEAN
    BY <1>2, <2>1
  <2> HIDE DEF first, last
  <2>3. /\ SubSeq(u, first, last) \in Seq(BOOLEAN)
        /\ Len(SubSeq(u, first, last))
             = IF first <= last THEN last - first + 1 ELSE 0
        /\ \A i \in 1..last - first + 1 :
             SubSeq(u, first, last)[i] = u[first + i - 1]
    BY <2>1, <2>2, SubSeqProperties
  <2>4. /\ Len(SubSeq(u, first, last)) = n
        /\ \A i \in 1..n : SubSeq(u, first, last)[i] = u[m + i]
    BY <1>1, <2>1, <2>3
  <2>5. \A i \in 1..n : SubSeq(u, first, last)[i] = t[i]
    BY <1>1, <2>1, <2>4, Zenon
  <2>6. Len(t) = n
    BY DEF n
  <2>7. SubSeq(u, first, last) = t
    BY <1>1, <2>3, <2>4, <2>5, <2>6, SameSamples
  <2> QED
    BY <1>1, <2>7 DEF first, last
<1> QED
  BY <1>3, <1>4 DEF Queue!Front, Queue!Rest, m, u

-----------------------------------------------------------------------------
(***************************************************************************)
(* The engine implements the queue: every step is one of PlaybackQueue's,  *)
(* or leaves the queue alone.                                              *)
(***************************************************************************)

\* A track that has ended has no queue.
LEMMA QueuedIs ==
    /\ Queued = IF track_ended THEN <<>>
                ELSE QueueOf(silence_count, buf, buf_remain)
    /\ Queued' = IF track_ended' THEN <<>>
                 ELSE QueueOf(silence_count', buf', buf_remain')
  BY DEF Queued, QueueOf

\* The engine begins with no queue and no track.
LEMMA QueueInit == Init => Queue!Init
<1> SUFFICES ASSUME Init PROVE Queue!Init
  OBVIOUS
<1>1. Queued = <<>>
  BY QueuedIs DEF Init
<1>2. Fading = FALSE
  BY EngineConstants DEF Init, Fading
<1> QED
  BY <1>1, <1>2 DEF Init, Queue!Init

\* What changes neither the queue, the ends nor the output changes at most
\* whether the fade has begun.
LEMMA StepsAside ==
    ASSUME UNCHANGED <<silence_count, buf_remain, buf, emu_track_ended,
                       track_ended, out>>
    PROVE  Queue!MoveFade
<1>1. Queued' = Queued
  BY DEF Queued
<1>2. Fading' \in BOOLEAN
  BY DEF Fading
<1> QED
  BY <1>1, <1>2 DEF Queue!MoveFade

\* A track that is started has no queue, and its fade is still to come.
LEMMA RestartStep ==
    ASSUME EngineInv, out_time' = 0, fade_start' \in Int,
           silence_count' = 0, buf_remain' = 0, buf' = buf, out' = out,
           track_ended' \in BOOLEAN, emu_track_ended' = track_ended'
    PROVE  Queue!Restart
<1>1. Queued' = <<>>
  <2>1. QueueOf(0, buf, 0) = <<>>
    BY EmptyQueue DEF EngineInv, TypeOK, DataOK
  <2> QED
    BY <2>1, QueuedIs
<1>2. ~Fading'
  <2>1. Fading' = (fade_start' >= 0 /\ 0 > fade_start')
    BY DEF Fading
  <2>2. ~(fade_start' >= 0 /\ 0 > fade_start')
    OBVIOUS
  <2> QED
    BY <2>1, <2>2
<1> QED
  BY <1>1, <1>2 DEF Queue!Restart

\* fill_buf() lets the emulator get ahead: its block joins a silent queue.
LEMMA FillStep ==
    ASSUME EngineInv, fill_buf, buf_remain = 0, ~track_ended,
           ~emu_track_ended,
           UNCHANGED <<out_time, fade_start, track_ended, out>>
    PROVE  Queue!GetAhead
<1>0. /\ silence_count \in Nat /\ buf \in Blocks(BufSize)
      /\ BufSize \in Nat \ {0}
  BY EngineConstants DEF EngineInv, TypeOK, NumbersOK, DataOK
<1>1. Queued = QueueOf(silence_count, buf, 0)
  BY QueuedIs
<1>2. Queue!Quiet(Queued)
  BY <1>0, <1>1, SilentQueue
<1>3. PICK blk \in Blocks(BufSize), outcome \in Outcomes :
        /\ emu_play(blk, outcome)
        /\ buf' = blk
        /\ \/ /\ HasSound(blk)
              /\ buf_remain' = BufSize
              /\ UNCHANGED silence_count
           \/ /\ ~HasSound(blk)
              /\ silence_count' = silence_count + BufSize
              /\ UNCHANGED buf_remain
  BY DEF fill_buf
<1>4. emu_track_ended' \in BOOLEAN
  BY <1>0, <1>3, EmuPlayType DEF EngineInv
<1>5. Fading' = Fading
  BY DEF Fading
<1>6. Queued' = QueueOf(silence_count', buf', buf_remain')
  BY QueuedIs
<1>7. \E block \in Blocks(BufSize) : Queued' = Queued \o block
  <2>1. CASE HasSound(blk)
    <3>1. Queued' = QueueOf(silence_count, blk, BufSize)
      BY <1>3, <1>6, <2>1
    <3>2. Queued' = Queued \o blk
      BY <1>0, <1>1, <3>1, JoinBlock
    <3> QED
      BY <3>2
  <2>2. CASE ~HasSound(blk)
    <3>1. Queued' = QueueOf(silence_count + BufSize, blk, 0)
      BY <1>3, <1>6, <2>2
    <3>2. Queued' = Queued \o Silence(BufSize)
      BY <1>0, <1>1, <3>1, JoinBlock
    <3>3. Silence(BufSize) \in Blocks(BufSize)
      BY <1>0, SilenceIsBlock
    <3> QED
      BY <3>2, <3>3
  <2> QED
    BY <2>1, <2>2
<1> QED
  BY <1>2, <1>4, <1>5, <1>7 DEF Queue!GetAhead, Blocks

\* The loop of start_track() and the look-ahead of play().
LEMMA AheadSteps ==
    ASSUME EngineInv, TrimSilence \/ PlayAhead
    PROVE  Queue!GetAhead
<1>1. /\ pc \in {"starting", "ahead"} /\ fill_buf
      /\ buf_remain = 0 /\ ~emu_track_ended
      /\ UNCHANGED <<out_time, fade_start, track_ended, out>>
  BY DEF TrimSilence, PlayAhead, MustTrim, MustGetAhead
<1>2. ~track_ended
  BY <1>1 DEF EngineInv, PhaseInv
<1> QED
  BY <1>1, <1>2, FillStep

\* The block that play() queues at its end: nothing after the track's end.
LEMMA RefillStep ==
    ASSUME EngineInv, PlayRefill
    PROVE  Queue!GetAhead \/ UNCHANGED Queue!queueVars
<1>1. /\ pc = "refilling" /\ fill_buf
      /\ UNCHANGED <<out_time, fade_start, track_ended, out>>
  BY DEF PlayRefill
<1>2. /\ buf_remain = 0
      /\ track_ended => emu_track_ended
      /\ emu_track_ended => track_ended
  BY <1>1 DEF EngineInv, PhaseInv
<1>3. CASE ~emu_track_ended
  BY <1>1, <1>2, <1>3, FillStep
<1>4. CASE emu_track_ended
  <2>1. emu_track_ended' = emu_track_ended
    BY <1>1, <1>4 DEF fill_buf
  <2>2. Queued = <<>> /\ Queued' = <<>>
    BY <1>1, <1>2, <1>4, QueuedIs
  <2>3. Fading' = Fading
    BY <1>1 DEF Fading
  <2> QED
    BY <1>1, <2>1, <2>2, <2>3 DEF Queue!queueVars
<1> QED
  BY <1>3, <1>4

\* start_track() forgets the silence at the beginning.
LEMMA StartedStep ==
    ASSUME EngineInv, Started
    PROVE  Queue!Trim \/ UNCHANGED Queue!queueVars
<1>0. /\ silence_count \in Nat /\ buf \in Blocks(BufSize)
      /\ buf_remain \in 0..BufSize
  BY DEF EngineInv, TypeOK, NumbersOK, DataOK
<1>1. /\ pc = "starting"
      /\ UNCHANGED <<emu_track_ended, track_ended, fade_start, buf_remain,
                     buf, out>>
      /\ \/ out_time' = 0 /\ silence_count' = 0
         \/ UNCHANGED <<out_time, silence_count>>
  BY DEF Started
<1>2. ~track_ended /\ out_time = 0
  BY <1>1 DEF EngineInv, PhaseInv
<1>3. Fading' = Fading
  BY <1>1, <1>2 DEF Fading
<1>4. CASE UNCHANGED silence_count
  BY <1>1, <1>3, <1>4 DEF Queued, Queue!queueVars
<1>5. CASE silence_count' = 0
  <2> DEFINE all == QueueOf(silence_count, buf, buf_remain)
  <2>1. /\ silence_count \in 0..silence_count /\ 0 \in 0..buf_remain
        /\ silence_count + 0 = silence_count
        /\ silence_count - silence_count = 0
        /\ buf_remain - 0 = buf_remain
    BY <1>0, EngineConstants
  <2>2. /\ silence_count + 0 \in 0..Len(all)
        /\ Queue!Front(all, silence_count + 0)
             = Silence(silence_count) \o
               SubSeq(buf, BufSize - buf_remain + 1, BufSize - buf_remain + 0)
    BY <1>0, <2>1, TakeFront
  <2>3. Queue!Rest(all, silence_count + 0)
          = QueueOf(silence_count - silence_count, buf, buf_remain - 0)
    BY <1>0, <2>1, TakeRest
  <2>4. Queue!Quiet(Queue!Front(all, silence_count))
    <3>1. SubSeq(buf, BufSize - buf_remain + 1, BufSize - buf_remain + 0)
            = <<>>
      BY <1>0, EngineConstants, SubSeqEmpty
    <3>2. /\ Silence(silence_count) \in Seq(BOOLEAN)
          /\ Len(Silence(silence_count)) = silence_count
          /\ \A i \in 1..silence_count : ~Silence(silence_count)[i]
      BY <1>0, SilenceIsBlock DEF Silence
    <3>3. Queue!Front(all, silence_count) = Silence(silence_count)
      BY <2>1, <2>2, <3>1, <3>2, ConcatEmptySeq
    <3> QED
      BY <3>2, <3>3 DEF Queue!Quiet
  <2>5. Queued = all /\ Queued' = QueueOf(0, buf, buf_remain)
    BY <1>1, <1>2, <1>5, QueuedIs
  <2> HIDE DEF all
  <2>6. /\ silence_count \in 0..Len(Queued)
        /\ Queue!Quiet(Queue!Front(Queued, silence_count))
        /\ Queued' = Queue!Rest(Queued, silence_count)
    BY <2>1, <2>2, <2>3, <2>4, <2>5
  <2> QED
    BY <1>1, <1>3, <2>6 DEF Queue!Trim
<1> QED
  BY <1>1, <1>4, <1>5

\* play() begins with nothing delivered.
LEMMA PlayStep == ASSUME NEW k, Play(k) PROVE Queue!BeginPlay
<1>1. /\ ~track_ended /\ out' = <<>>
      /\ UNCHANGED <<out_time, emu_track_ended, track_ended, fade_start,
                     silence_count, buf_remain, buf>>
  BY DEF Play
<1>2. Queued' = Queued /\ Fading' = Fading
  BY <1>1 DEF Queued, Fading
<1> QED
  BY <1>1, <1>2 DEF Queue!BeginPlay

\* After the end of the track play() gives silence.
LEMMA PlayEndedStep ==
    ASSUME NEW k \in Nat \ {0}, PlayEnded(k)
    PROVE  Queue!PlayEnded
<1>1. /\ track_ended /\ out' = Silence(k)
      /\ UNCHANGED <<emu_track_ended, track_ended, silence_count, buf_remain,
                     buf>>
  BY DEF PlayEnded
<1>2. Queued' = Queued /\ Fading' \in BOOLEAN
  BY <1>1 DEF Queued, Fading
<1>3. /\ Silence(k) \in Seq(BOOLEAN) /\ Len(Silence(k)) = k
      /\ \A i \in 1..k : ~Silence(k)[i]
  BY SilenceIsBlock DEF Silence
<1>4. Silence(k) # <<>>
  BY <1>3, EmptySeq
<1> QED
  BY <1>1, <1>2, <1>3, <1>4 DEF Queue!PlayEnded, Queue!Quiet

\* play() delivers the front of the queue, and silence that ends the track
\* throws away a silent rest only.
LEMMA DeliverStep ==
    ASSUME EngineInv, PlayQueue
    PROVE  Queue!Deliver
<1> DEFINE pos   == Lesser(silence_count, count)
           avail == IF SilenceEnds THEN 0 ELSE buf_remain
           n     == Lesser(avail, count - pos)
           all   == QueueOf(silence_count, buf, buf_remain)
<1>0. /\ silence_count \in Nat /\ buf \in Blocks(BufSize)
      /\ buf_remain \in 0..BufSize /\ count \in Nat
      /\ emu_track_ended \in BOOLEAN /\ track_ended \in BOOLEAN
  BY DEF EngineInv, TypeOK, NumbersOK, FlagsOK, DataOK
<1>1. /\ pc = "ahead"
      /\ out' = Silence(pos) \o FromBuf(avail, n)
      /\ silence_count' = IF SilenceEnds THEN 0 ELSE silence_count - pos
      /\ buf_remain' = avail - n
      /\ UNCHANGED <<out_time, fade_start, buf>>
  BY DEF PlayQueue
<1>2. /\ track_ended' = (track_ended \/ SilenceEnds)
      /\ emu_track_ended' = (emu_track_ended \/ SilenceEnds)
  BY DEF PlayQueue
<1>3. ~track_ended /\ Fading' = Fading
  BY <1>1 DEF EngineInv, PhaseInv, Fading
<1>4. SilenceEnds => buf_remain = 0
  BY <1>1, SilenceEndsBehindNoBlock DEF SilenceEndKeepsSound, PlayQueue
<1>5. avail = buf_remain
  BY <1>4
<1>6. pos \in 0..silence_count /\ n \in 0..buf_remain
      /\ (pos = silence_count \/ n = 0)
  BY <1>0, <1>5, EngineConstants DEF Lesser
<1>7. Queued = all
  BY <1>3, QueuedIs
<1> HIDE DEF pos, avail, n
<1>8. /\ pos + n \in 0..Len(all)
      /\ Queue!Front(all, pos + n) = Silence(pos) \o FromBuf(buf_remain, n)
  BY <1>0, <1>6, TakeFront DEF FromBuf
<1>9. Queue!Rest(all, pos + n)
        = QueueOf(silence_count - pos, buf, buf_remain - n)
  BY <1>0, <1>6, TakeRest
<1>10. out' = Queue!Front(Queued, pos + n) /\ pos + n \in 0..Len(Queued)
  BY <1>1, <1>5, <1>7, <1>8
<1>11. CASE ~SilenceEnds
  <2>1. Queued' = QueueOf(silence_count', buf', buf_remain')
    BY <1>2, <1>3, <1>11, QueuedIs
  <2>2. Queued' = Queue!Rest(Queued, pos + n)
    BY <1>1, <1>5, <1>7, <1>9, <1>11, <2>1
  <2>3. track_ended' = track_ended /\ emu_track_ended' = emu_track_ended
    BY <1>0, <1>2, <1>11
  <2> QED
    BY <1>3, <1>10, <2>2, <2>3 DEF Queue!Deliver
<1>12. CASE SilenceEnds
  <2>1. Queue!Quiet(Queued)
    BY <1>0, <1>4, <1>7, <1>12, SilentQueue DEF all
  <2>2. track_ended' /\ emu_track_ended'
    BY <1>2, <1>12
  <2>3. Queued' = <<>>
    BY <2>2, QueuedIs
  <2> QED
    BY <1>3, <1>10, <2>1, <2>2, <2>3 DEF Queue!Deliver
<1> QED
  BY <1>11, <1>12

\* Behind an empty queue play() generates, and a dry emulator is silent.
LEMMA GenerateStep ==
    ASSUME EngineInv, PlayGenerate
    PROVE  Queue!Generate
<1>1. PICK blk \in Blocks(count), outcome \in Outcomes \cup {"ok"} :
        emu_play(blk, outcome) /\ out' = out \o blk
  BY DEF PlayGenerate
<1>2. /\ pc = "generating"
      /\ track_ended' = EndReported
      /\ UNCHANGED <<out_time, fade_start, silence_count, buf_remain, buf>>
  BY DEF PlayGenerate
<1>3. /\ count \in Nat \ {0} /\ silence_count = 0 /\ buf_remain = 0
      /\ buf \in Blocks(BufSize) /\ out \in Seq(BOOLEAN)
      /\ track_ended => emu_track_ended
  BY <1>2 DEF EngineInv, PhaseInv, TypeOK, NumbersOK, DataOK
<1>4. Queued = <<>> /\ Queued' = <<>>
  <2>1. QueueOf(0, buf, 0) = <<>>
    BY <1>3, EmptyQueue
  <2> QED
    BY <1>2, <1>3, <2>1, QueuedIs
<1>5. Fading' = Fading
  BY <1>2 DEF Fading
<1>6. emu_track_ended' \in BOOLEAN /\ (emu_track_ended => emu_track_ended')
  BY <1>1, <1>3, EmuPlayType DEF EngineInv
<1>7. track_ended' = emu_track_ended'
  BY <1>2, <1>3, <1>6 DEF EndReported
<1>8. blk \in Seq(BOOLEAN) /\ Len(blk) = count
  BY <1>3, BlockIsSequence
<1>9. out' \in Seq(BOOLEAN) /\ Len(out') > Len(out)
  BY <1>1, <1>3, <1>8, ConcatProperties, LenProperties
<1>10. Queue!Front(out', Len(out)) = out /\ Queue!Rest(out', Len(out)) = blk
  BY <1>1, <1>3, <1>8, FrontOfConcat
<1>11. emu_track_ended => Queue!Quiet(blk)
  <2> SUFFICES ASSUME emu_track_ended PROVE Queue!Quiet(blk)
    OBVIOUS
  <2>1. blk = Silence(count)
    BY <1>1, <1>8 DEF emu_play
  <2>2. \A i \in 1..count : ~Silence(count)[i]
    BY DEF Silence
  <2> QED
    BY <1>8, <2>1, <2>2 DEF Queue!Quiet
<1> QED
  BY <1>4, <1>5, <1>6, <1>7, <1>9, <1>10, <1>11 DEF Queue!Generate

\* At its end play() moves the clock; a fade that is over ends the track.
LEMMA FadeStep ==
    ASSUME EngineInv, PlayFade
    PROVE  Queue!FadeOut \/ Queue!MoveFade
<1>1. PICK ends \in IF Fading THEN handle_fade(Len(out)) ELSE {FALSE} :
        /\ track_ended' = (track_ended \/ ends)
        /\ emu_track_ended' = (emu_track_ended \/ ends)
  BY DEF PlayFade
<1>2. UNCHANGED <<silence_count, buf_remain, buf, out>>
  BY DEF PlayFade
<1>3. track_ended \in BOOLEAN /\ emu_track_ended \in BOOLEAN
  BY DEF EngineInv, TypeOK, FlagsOK
<1>4. ends \in BOOLEAN /\ (ends => Fading)
  BY <1>1 DEF handle_fade
<1>5. CASE ends
  <2>1. track_ended' /\ emu_track_ended' /\ Fading' \in BOOLEAN
    BY <1>1, <1>5 DEF Fading
  <2>2. Queued' = <<>>
    BY <2>1, QueuedIs
  <2> QED
    BY <1>2, <1>4, <1>5, <2>1, <2>2 DEF Queue!FadeOut
<1>6. CASE ~ends
  <2>1. track_ended' = track_ended /\ emu_track_ended' = emu_track_ended
    BY <1>1, <1>3, <1>6
  <2> QED
    BY <1>2, <2>1, StepsAside
<1> QED
  BY <1>4, <1>5, <1>6

\* skip( n ) takes the front of the queue away, and reports the end only of
\* a track with nothing queued.
LEMMA SkipStep ==
    ASSUME EngineInv, NEW n \in Nat, skip(n)
    PROVE  Queue!Skip
<1> DEFINE s   == SkipSilence(n)
           t   == SkipBuf(n)
           all == QueueOf(silence_count, buf, buf_remain)
<1>0. /\ silence_count \in Nat /\ buf \in Blocks(BufSize)
      /\ buf_remain \in 0..BufSize
      /\ emu_track_ended \in BOOLEAN /\ track_ended \in BOOLEAN
  BY DEF EngineInv, TypeOK, NumbersOK, FlagsOK, DataOK
<1>1. /\ s \in 0..silence_count /\ t \in 0..buf_remain
      /\ s = silence_count \/ t = 0
  BY <1>0, EngineConstants DEF SkipSilence, SkipBuf, Lesser
<1>2. /\ silence_count' = silence_count - s
      /\ buf_remain' = buf_remain - t
      /\ UNCHANGED <<emu_track_ended, buf, out>>
      /\ \/ track_ended' = track_ended
         \/ track_ended' = (track_ended \/
                            (emu_track_ended /\ silence_count' = 0
                                             /\ buf_remain' = 0))
  BY DEF skip
<1> HIDE DEF s, t
<1>3. /\ track_ended' \in BOOLEAN /\ (track_ended => track_ended')
      /\ track_ended' # track_ended =>
           /\ ~track_ended /\ track_ended' /\ emu_track_ended
           /\ silence_count' = 0 /\ buf_remain' = 0
  BY <1>0, <1>2
<1>4. /\ s + t \in 0..Len(all)
      /\ Queue!Rest(all, s + t)
           = QueueOf(silence_count - s, buf, buf_remain - t)
  BY <1>0, <1>1, TakeFront, TakeRest
<1>5. Fading' \in BOOLEAN
  BY DEF Fading
<1>6. \E m \in 0..Len(Queued) : Queued' = Queue!Rest(Queued, m)
  <2>1. CASE track_ended
    <3>1. Queued = <<>> /\ Queued' = <<>>
      BY <1>3, <2>1, QueuedIs
    <3>2. /\ Len(Queued) = 0 /\ 0 \in 0..Len(Queued)
      BY <3>1, EmptySeq
    <3>3. Queue!Rest(Queued, 0) = <<>>
      BY <3>1, <3>2, SubSeqEmpty DEF Queue!Rest
    <3> QED
      BY <3>1, <3>2, <3>3
  <2>2. CASE ~track_ended
    <3>1. Queued = all
      BY <2>2, QueuedIs
    <3>2. Queued' = QueueOf(silence_count - s, buf, buf_remain - t)
      <4>1. CASE ~track_ended'
        BY <1>2, <4>1, QueuedIs
      <4>2. CASE track_ended'
        <5>1. silence_count' = 0 /\ buf_remain' = 0
          BY <1>3, <2>2, <4>2
        <5>2. silence_count - s = 0 /\ buf_remain - t = 0
          BY <1>2, <5>1
        <5> QED
          BY <1>0, <4>2, <5>2, EmptyQueue, QueuedIs
      <4> QED
        BY <4>1, <4>2
    <3> QED
      BY <1>4, <3>1, <3>2
  <2> QED
    BY <2>1, <2>2
<1>7. track_ended' # track_ended => Queued' = <<>>
  BY <1>3, QueuedIs
<1> QED
  BY <1>2, <1>3, <1>5, <1>6, <1>7 DEF Queue!Skip

\* While skip_() runs nothing is queued, and the emulator may run dry.
LEMMA SkippingStep ==
    ASSUME EngineInv, SkipMuted \/ SkipRest
    PROVE  Queue!RunDry \/ UNCHANGED Queue!queueVars
<1>1. PICK outcome \in Outcomes :
        emu_track_ended' = (emu_track_ended \/ outcome # "ok")
  BY DEF SkipMuted, SkipRest, SkipBlock, end_track_if_error
<1>2. /\ pc \in {"muted", "skipping"}
      /\ UNCHANGED <<out_time, fade_start, track_ended, silence_count,
                     buf_remain, buf, out>>
  BY DEF SkipMuted, SkipRest
<1>3. /\ silence_count = 0 /\ buf_remain = 0 /\ buf \in Blocks(BufSize)
      /\ emu_track_ended \in BOOLEAN
  BY <1>2 DEF EngineInv, PhaseInv, TypeOK, FlagsOK, DataOK
<1>4. Queued = <<>>
  <2>1. QueueOf(0, buf, 0) = <<>>
    BY <1>3, EmptyQueue
  <2> QED
    BY <1>3, <2>1, QueuedIs
<1>5. Queued' = Queued /\ Fading' = Fading
  BY <1>2 DEF Queued, Fading
<1>6. CASE emu_track_ended'
  BY <1>2, <1>4, <1>5, <1>6 DEF Queue!RunDry
<1>7. CASE ~emu_track_ended'
  <2>1. emu_track_ended' = emu_track_ended
    BY <1>1, <1>3, <1>7
  <2> QED
    BY <1>2, <1>5, <2>1 DEF Queue!queueVars
<1> QED
  BY <1>6, <1>7

\* At its end skip() reports the end of the track.
LEMMA SkippedStep ==
    ASSUME EngineInv, Skipped
    PROVE  Queue!Skip
<1>1. /\ pc = "skipping"
      /\ UNCHANGED <<out_time, emu_track_ended, fade_start, silence_count,
                     buf_remain, buf, out>>
      /\ track_ended' = (track_ended \/
                         (emu_track_ended /\ silence_count = 0
                                          /\ buf_remain = 0))
  BY DEF Skipped
<1>2. /\ silence_count = 0 /\ buf_remain = 0 /\ buf \in Blocks(BufSize)
      /\ emu_track_ended \in BOOLEAN /\ track_ended \in BOOLEAN
  BY <1>1 DEF EngineInv, PhaseInv, TypeOK, FlagsOK, DataOK
<1>3. Queued = <<>> /\ Queued' = <<>>
  <2>1. QueueOf(0, buf, 0) = <<>>
    BY <1>2, EmptyQueue
  <2> QED
    BY <1>1, <1>2, <2>1, QueuedIs
<1>4. 0 \in 0..Len(Queued) /\ Queue!Rest(Queued, 0) = <<>>
  <2>1. Len(Queued) = 0
    BY <1>3, EmptySeq
  <2> QED
    BY <1>3, <2>1, SubSeqEmpty DEF Queue!Rest
<1>5. Fading' \in BOOLEAN
  BY DEF Fading
<1>6. /\ track_ended' \in BOOLEAN /\ (track_ended => track_ended')
      /\ track_ended' # track_ended => emu_track_ended
  BY <1>1, <1>2
<1> QED
  BY <1>1, <1>3, <1>4, <1>5, <1>6 DEF Queue!Skip

\* A track that is started, or cannot be, and unload().
LEMMA StartTrackStep ==
    ASSUME EngineInv, NEW track \in Int, NEW target,
           start_track(track, target)
    PROVE  Queue!Restart
<1>1. /\ out_time' = 0 /\ silence_count' = 0 /\ buf_remain' = 0
      /\ buf' = buf /\ out' = out
  BY DEF start_track, clear_track_vars
<1>2. track_ended' \in BOOLEAN /\ emu_track_ended' = track_ended'
  BY DEF start_track
<1>3. fade_start' \in Int
  BY InputAssumption, EngineConstants
  DEF start_track, clear_fade, InputAssumption
<1> QED
  BY <1>1, <1>2, <1>3, RestartStep

LEMMA UnloadStep ==
    ASSUME EngineInv, Unload
    PROVE  Queue!Restart
<1>1. /\ out_time' = 0 /\ silence_count' = 0 /\ buf_remain' = 0
      /\ buf' = buf /\ out' = out
      /\ track_ended' = TRUE /\ emu_track_ended' = TRUE
      /\ fade_start' = NoFade
  BY DEF Unload, clear_track_vars, clear_fade
<1>2. fade_start' \in Int /\ track_ended' \in BOOLEAN
  BY <1>1, EngineConstants
<1> QED
  BY <1>1, <1>2, RestartStep

\* Every step of Next.
LEMMA QueueStep ==
    ASSUME EngineInv, [Next]_vars
    PROVE  [Queue!Next]_Queue!queueVars
<1>1. CASE CallStep
  <2>1. CASE TrimSilence \/ PlayAhead
    BY <2>1, AheadSteps DEF Queue!Next
  <2>2. CASE Started
    BY <2>2, StartedStep DEF Queue!Next
  <2>3. CASE SeekOn
    <3>1. seek_to - out_time \in Nat /\ skip(seek_to - out_time)
      BY <2>3, InputAssumption
      DEF SeekOn, InputAssumption, EngineInv, TypeOK, NumbersOK, PhaseInv
    <3> QED
      BY <3>1, SkipStep DEF Queue!Next
  <2>4. CASE PlayQueue
    BY <2>4, DeliverStep DEF Queue!Next
  <2>5. CASE PlayGenerate
    BY <2>5, GenerateStep DEF Queue!Next
  <2>6. CASE PlayRefill
    BY <2>6, RefillStep DEF Queue!Next
  <2>7. CASE PlayFade
    BY <2>7, FadeStep DEF Queue!Next
  <2>8. CASE SkipMuted \/ SkipRest
    BY <2>8, SkippingStep DEF Queue!Next
  <2>9. CASE SkipUnmute
    BY <2>9, StepsAside DEF SkipUnmute, Queue!Next
  <2>10. CASE Skipped
    BY <2>10, SkippedStep DEF Queue!Next
  <2> QED
    BY <1>1, <2>1, <2>2, <2>3, <2>4, <2>5, <2>6, <2>7, <2>8, <2>9, <2>10
    DEF CallStep
<1>2. CASE PlayCall
  <2>1. PICK n \in PlayCounts : Play(n) \/ PlayEnded(n)
    BY <1>2 DEF PlayCall
  <2>2. n \in Nat \ {0}
    BY InputAssumption DEF InputAssumption
  <2> QED
    BY <2>1, <2>2, PlayStep, PlayEndedStep DEF Queue!Next
<1>3. CASE \E track \in 0..TrackCount : StartTrack(track)
  <2>1. PICK track \in 0..TrackCount : start_track(track, -1)
    BY <1>3 DEF StartTrack
  <2>2. track \in Int
    BY EngineConstants
  <2> QED
    BY <2>1, <2>2, StartTrackStep DEF Queue!Next
<1>4. CASE \E n \in SkipCounts : Skip(n)
  BY <1>4, InputAssumption, SkipStep DEF InputAssumption, Skip, Queue!Next
<1>5. CASE \E time \in SeekTimes : Seek(time)
  <2>1. PICK time \in SeekTimes : Seek(time)
    BY <1>5
  <2>2. time \in Nat /\ out_time \in Nat /\ current_track \in Int
    BY InputAssumption, EngineConstants
    DEF InputAssumption, EngineInv, TypeOK, NumbersOK
  <2>3. CASE start_track(current_track, time)
    BY <2>2, <2>3, StartTrackStep DEF Queue!Next
  <2>4. CASE time >= out_time /\ skip(time - out_time)
    <3>1. time - out_time \in Nat
      BY <2>2, <2>4
    <3> QED
      BY <2>4, <3>1, SkipStep DEF Queue!Next
  <2> QED
    BY <2>1, <2>3, <2>4 DEF Seek
<1>6. CASE \/ \E fade \in Fades : SetFade(fade)
           \/ \E mask \in {{}, Voices} : MuteVoices(mask)
           \/ \E disable \in BOOLEAN : IgnoreSilence(disable)
           \/ UNCHANGED vars
  BY <1>6, StepsAside
  DEF SetFade, MuteVoices, IgnoreSilence, vars, Queue!Next
<1>7. CASE Unload
  BY <1>7, UnloadStep DEF Queue!Next
<1> QED
  BY <1>1, <1>2, <1>3, <1>4, <1>5, <1>6, <1>7 DEF Next

\* Music_Emu's look-ahead, with its clocks, loops and silence detection, is
\* a queue of samples: what the client gets is what the emulator generated,
\* in order, and no sound is lost, repeated or cut off.
THEOREM EngineImplementsQueue == Spec => ImplementsQueue
<1>1. Init => Queue!Init
  BY QueueInit
<1>2. EngineInv /\ [Next]_vars => [Queue!Next]_Queue!queueVars
  BY QueueStep
<1> QED
  BY <1>1, <1>2, EngineInvariance, PTL
  DEF Spec, ImplementsQueue, Queue!Spec

-----------------------------------------------------------------------------
(***************************************************************************)
(* What has been heard since silence_time.                                 *)
(***************************************************************************)

\* A client's call counts nothing as skipped before it skips.
LEMMA UnskippedType == EngineInv => Unskipped \in Nat
  BY DEF EngineInv, TypeOK, NumbersOK, Unskipped

\* What moves neither the emulator nor silence_time changes nothing.
LEMMA HeardStays ==
    ASSUME SilenceIsHeard, ~track_ended' => ~track_ended,
           UNCHANGED <<emu_time, silence_time, quiet, blind>>,
           ~track_ended' => Unskipped' = Unskipped
    PROVE  SilenceIsHeard'
  BY DEF SilenceIsHeard, Lesser

\* Where silence_time is not older than a block nothing need be heard.
LEMMA HeardNothing ==
    ASSUME EngineInv', emu_time' - silence_time' <= BufSize
    PROVE  SilenceIsHeard'
<1>1. /\ emu_time' \in Nat /\ silence_time' \in Nat /\ quiet' \in Nat
      /\ BufSize \in Nat /\ QuietMax \in Nat /\ Unskipped' \in Nat
  BY EngineConstants DEF EngineInv, TypeOK, NumbersOK, Unskipped
<1>2. \A e, s, q, u \in Nat : e - s <= BufSize
        => q + u >= Lesser(e - s - BufSize, QuietMax)
  BY <1>1 DEF Lesser
<1>3. quiet' + Unskipped'
        >= Lesser(emu_time' - silence_time' - BufSize, QuietMax)
  BY <1>1, <1>2, Zenon
<1> QED
  BY <1>3 DEF SilenceIsHeard

\* A block whose sound is looked for: silence_time is in the block.
LEMMA HeardSound ==
    ASSUME TypeOK, NEW n \in Nat \ {0}, NEW blk \in Blocks(n), HasSound(blk),
           quiet' = QuietAfter(blk), Unskipped' \in Nat,
           silence_time' = emu_time' - count_silence(blk),
           emu_time' = emu_time + n
    PROVE  SilenceIsHeard'
<1> DEFINE c == count_silence(blk)
<1>1. c \in 1..n
  BY CountSilenceInBlock
<1>2. quiet' = Lesser(c - 1, QuietMax)
  BY DEF QuietAfter
<1> HIDE DEF c
<1>3. emu_time' - silence_time' = c
  BY <1>1 DEF TypeOK, NumbersOK, c
<1> SUFFICES quiet' + Unskipped' >= Lesser(c - BufSize, QuietMax)
  BY <1>3 DEF SilenceIsHeard
<1>4. Lesser(c - 1, QuietMax) >= Lesser(c - BufSize, QuietMax)
      /\ Lesser(c - 1, QuietMax) \in Int
      /\ Lesser(c - BufSize, QuietMax) \in Int
  BY <1>1, EngineConstants DEF Lesser
<1> QED
  BY <1>2, <1>4

\* n samples of silence are heard as they are generated.
LEMMA HeardSilence ==
    ASSUME EngineInv, SilenceIsHeard, ~track_ended' => ~track_ended,
           NEW n \in Nat, quiet' = Lesser(quiet + n, QuietMax),
           blind \in BOOLEAN, ~blind' => ~blind,
           Unskipped' \in Nat,
           silence_time' = silence_time,
           \/ emu_time' = emu_time + n /\ Unskipped' = Unskipped
           \/ emu_time' = emu_time /\ Unskipped = Unskipped' + n
    PROVE  SilenceIsHeard'
<1> DEFINE e == emu_time - silence_time - BufSize
           f == emu_time' - silence_time' - BufSize
<1>1. /\ emu_time \in Nat /\ silence_time \in Nat /\ quiet \in Nat
      /\ quiet <= QuietMax
      /\ BufSize \in Nat /\ QuietMax \in Nat /\ Unskipped \in Nat
  BY EngineConstants, UnskippedType DEF EngineInv, TypeOK, NumbersOK
<1>2. /\ e \in Int
      /\ \/ f = e + n /\ Unskipped' = Unskipped
         \/ f = e /\ Unskipped = Unskipped' + n
  <2>1. CASE emu_time' = emu_time + n /\ Unskipped' = Unskipped
    <3>1. emu_time + n - silence_time - BufSize
            = emu_time - silence_time - BufSize + n
      BY <1>1
    <3> QED
      BY <1>1, <2>1, <3>1
  <2>2. CASE emu_time' = emu_time /\ Unskipped = Unskipped' + n
    BY <1>1, <2>2
  <2> QED
    BY <2>1, <2>2
<1> HIDE DEF e, f
<1>3. ASSUME quiet + Unskipped >= Lesser(e, QuietMax)
      PROVE  quiet' + Unskipped' >= Lesser(f, QuietMax)
  <2>1. CASE f = e + n /\ Unskipped' = Unskipped
    <3>1. Lesser(quiet + n, QuietMax) + Unskipped >= Lesser(e + n, QuietMax)
      BY <1>1, <1>2, <1>3 DEF Lesser
    <3> QED
      BY <2>1, <3>1
  <2>2. CASE f = e /\ Unskipped = Unskipped' + n
    <3>1. PICK u \in Nat : u = Unskipped'
      OBVIOUS
    <3>2. Lesser(quiet + n, QuietMax) + u >= Lesser(e, QuietMax)
      BY <1>1, <1>2, <1>3, <2>2, <3>1 DEF Lesser
    <3> QED
      BY <2>2, <3>1, <3>2
  <2> QED
    BY <1>2, <2>1, <2>2
<1> QED
  BY <1>3 DEF SilenceIsHeard, e, f

\* A block that fill_buf() generates is listened to.
LEMMA FillIsHeard ==
    ASSUME EngineInv, EngineInv', SilenceIsHeard, fill_buf,
           ~emu_track_ended \/ track_ended, track_ended' = track_ended,
           Unskipped = 0, Unskipped' = 0
    PROVE  SilenceIsHeard'
<1>0. BufSize \in Nat \ {0} /\ blind \in BOOLEAN /\ TypeOK
  BY EngineConstants DEF EngineInv, TypeOK, FlagsOK
<1>1. CASE track_ended
  BY <1>1 DEF SilenceIsHeard
<1>2. CASE ~emu_track_ended
  <2>1. PICK blk \in Blocks(BufSize), outcome \in Outcomes :
          /\ emu_play(blk, outcome)
          /\ \/ /\ HasSound(blk)
                /\ silence_time' = emu_time' - count_silence(blk)
             \/ /\ ~HasSound(blk)
                /\ UNCHANGED <<silence_time, blind>>
    BY <1>2 DEF fill_buf
  <2>2. emu_time' = emu_time + BufSize /\ quiet' = QuietAfter(blk)
    BY <1>0, <1>2, <2>1, EmuPlayType
  <2>3. CASE HasSound(blk)
    BY <1>0, <2>1, <2>2, <2>3, HeardSound
  <2>4. CASE ~HasSound(blk)
    <3>1. quiet' = Lesser(quiet + BufSize, QuietMax)
      BY <1>0, <2>2, <2>4, QuietAfterType
    <3> QED
      BY <1>0, <2>1, <2>2, <2>4, <3>1, HeardSilence
  <2> QED
    BY <2>1, <2>3, <2>4
<1> QED
  BY <1>1, <1>2

\* A block that play() generates is listened to, or the sound in it makes
\* silence_time blind.
LEMMA GenerateIsHeard ==
    ASSUME EngineInv, EngineInv', SilenceIsHeard, PlayGenerate
    PROVE  SilenceIsHeard'
<1>1. PICK blk \in Blocks(count), outcome \in Outcomes \cup {"ok"} :
        /\ emu_play(blk, outcome)
        /\ \/ /\ Detecting /\ HasSound(blk)
              /\ silence_time' = emu_time' - count_silence(blk)
           \/ /\ Detecting => ~HasSound(blk)
              /\ blind' = (blind \/ HasSound(blk))
              /\ UNCHANGED silence_time
  BY DEF PlayGenerate
<1>2. /\ pc = "generating" /\ track_ended' = EndReported
      /\ pc' \in {"refilling", "fading"}
  BY DEF PlayGenerate
<1>3. /\ count \in Nat \ {0} /\ TypeOK /\ blind \in BOOLEAN
      /\ Unskipped = 0 /\ Unskipped' = 0
  BY <1>2 DEF EngineInv, TypeOK, NumbersOK, FlagsOK, PhaseInv, Unskipped
<1>4. /\ emu_time' = emu_time + count
      /\ ~emu_track_ended => quiet' = QuietAfter(blk)
      /\ emu_track_ended => emu_track_ended'
  BY <1>1, <1>3, EmuPlayType
<1>5. CASE track_ended'
  BY <1>5 DEF SilenceIsHeard
<1>6. CASE ~track_ended'
  <2>1. ~track_ended /\ ~emu_track_ended
    BY <1>2, <1>4, <1>6 DEF EndReported
  <2>2. quiet' = QuietAfter(blk)
    BY <1>4, <2>1
  <2>3. CASE HasSound(blk) /\ silence_time' = emu_time' - count_silence(blk)
    BY <1>3, <1>4, <2>2, <2>3, HeardSound
  <2>4. CASE HasSound(blk) /\ blind'
    BY <2>4 DEF SilenceIsHeard
  <2>5. CASE ~HasSound(blk) /\ silence_time' = silence_time
    <3>1. quiet' = Lesser(quiet + count, QuietMax)
      BY <1>3, <2>2, <2>5, QuietAfterType
    <3>2. ~blind' => ~blind
      BY <1>1, <2>5
    <3> QED
      BY <1>3, <1>4, <2>1, <2>5, <3>1, <3>2, HeardSilence
  <2> QED
    BY <1>1, <2>3, <2>4, <2>5
<1> QED
  BY <1>5, <1>6

\* What a skip asks of the emulator is still to be heard when skip_() begins.
LEMMA SkipIsHeard ==
    ASSUME EngineInv, SilenceIsHeard, NEW n \in Nat,
           pc \in {"idle", "seeking"}, skip(n)
    PROVE  SilenceIsHeard'
<1> DEFINE left == n - SkipSilence(n) - SkipBuf(n)
<1>0. left \in Nat /\ TypeOK /\ Unskipped = 0
  BY EngineConstants
  DEF EngineInv, TypeOK, NumbersOK, SkipSilence, SkipBuf, Lesser, Unskipped
<1>1. UNCHANGED <<silence_time, quiet, blind>>
  BY DEF skip
<1> HIDE DEF left
<1>2. \/ /\ ~emu_track_ended /\ track_ended' = track_ended
         /\ emu_time' = emu_time + left /\ count' = left
         /\ pc' \in {"muted", "skipping"}
      \/ /\ track_ended => track_ended'
         /\ emu_time' = emu_time /\ pc' = "idle"
  BY DEF skip, left
<1>3. CASE /\ track_ended' = track_ended
           /\ emu_time' = emu_time + left /\ count' = left
           /\ pc' \in {"muted", "skipping"}
  <2>1. /\ emu_time \in Nat /\ silence_time \in Nat /\ quiet \in Nat
        /\ BufSize \in Nat /\ QuietMax \in Nat
    BY <1>0, EngineConstants DEF TypeOK, NumbersOK
  <2>2. Unskipped' = left
    BY <1>3 DEF Unskipped
  <2>3. quiet + 0 >= Lesser(emu_time - silence_time - BufSize, QuietMax)
          => quiet + left >= Lesser((emu_time + left) - silence_time - BufSize,
                                    QuietMax)
    BY <1>0, <2>1 DEF Lesser
  <2>4. Unskipped = 0 /\ ~(track_ended /\ ~track_ended')
    BY <1>0, <1>3
  <2>5. ~track_ended /\ ~blind
          => quiet + 0 >= Lesser(emu_time - silence_time - BufSize, QuietMax)
    BY <2>4 DEF SilenceIsHeard
  <2>6. /\ quiet' + Unskipped' = quiet + left
        /\ Lesser(emu_time' - silence_time' - BufSize, QuietMax)
             = Lesser((emu_time + left) - silence_time - BufSize, QuietMax)
    BY <1>1, <1>3, <2>2, Zenon
  <2>7. ~track_ended' /\ ~blind' => ~track_ended /\ ~blind
    BY <1>1, <2>4
  <2> QED
    BY <2>3, <2>5, <2>6, <2>7, Zenon DEF SilenceIsHeard
<1>4. CASE (track_ended => track_ended') /\ emu_time' = emu_time /\ pc' = "idle"
  <2>1. Unskipped' = Unskipped
    BY <1>0, <1>4 DEF Unskipped
  <2> QED
    BY <1>1, <1>4, <2>1, HeardStays
<1> QED
  BY <1>2, <1>3, <1>4

\* Each block of skip_() is heard, or its sound makes silence_time blind.
LEMMA SkippingIsHeard ==
    ASSUME EngineInv, EngineInv', SilenceIsHeard, SkipMuted \/ SkipRest
    PROVE  SilenceIsHeard'
<1>0. /\ quiet \in 0..QuietMax /\ count \in Nat /\ blind \in BOOLEAN
      /\ BufSize \in Nat \ {0} /\ QuietMax \in Nat
      /\ SkipThreshold \div 2 \in Nat /\ SkipThreshold \div 2 >= BufSize
      /\ count' \in Nat
  BY EngineConstants DEF EngineInv, TypeOK, NumbersOK, FlagsOK
<1>1. /\ pc \in {"muted", "skipping"} /\ pc' \in {"muted", "skipping"}
      /\ UNCHANGED <<emu_time, track_ended, silence_time>>
  BY DEF SkipMuted, SkipRest
<1>2. Unskipped = count /\ Unskipped' = count'
  BY <1>1 DEF Unskipped
<1>3. PICK n \in Nat, outcome \in Outcomes :
        /\ SkipBlock(n, outcome)
        /\ count' = count - n \/ count' = count
  <2>1. CASE SkipMuted
    BY <1>0, <2>1 DEF SkipMuted
  <2>2. CASE SkipRest
    <3>1. SkipSize \in Nat
      BY <1>0 DEF SkipSize, Lesser
    <3> QED
      BY <2>2, <3>1 DEF SkipRest
  <2> QED
    BY <2>1, <2>2
<1>4. PICK sound \in BOOLEAN :
        /\ quiet' = IF sound THEN 0 ELSE Lesser(quiet + n, QuietMax)
        /\ blind' = (blind \/ sound)
  BY <1>3 DEF SkipBlock
<1>5. CASE sound
  BY <1>4, <1>5 DEF SilenceIsHeard
<1>6. CASE ~sound /\ count' = count - n
  <2>1. Unskipped = Unskipped' + n
    BY <1>0, <1>2, <1>6
  <2> QED
    BY <1>0, <1>1, <1>2, <1>4, <1>6, <2>1, HeardSilence
<1>7. CASE ~sound /\ count' = count
  <2>1. quiet' >= quiet
    <3>1. Lesser(quiet + n, QuietMax) >= quiet
      BY <1>0 DEF Lesser
    <3> QED
      BY <1>4, <1>7, <3>1
  <2>2. /\ emu_time \in Nat /\ silence_time \in Nat /\ quiet' \in Nat
    BY DEF EngineInv, TypeOK, NumbersOK
  <2>3. \A a, b, c, x \in Int : b >= a /\ a + c >= x => b + c >= x
    OBVIOUS
  <2>4. Lesser(emu_time - silence_time - BufSize, QuietMax) \in Int
    BY <1>0, <2>2 DEF Lesser
  <2>5. quiet \in Int /\ quiet' \in Int /\ count \in Int
    BY <1>0, <2>2
  <2>6. /\ emu_time' = emu_time /\ silence_time' = silence_time
        /\ Unskipped' = Unskipped /\ (~blind' => ~blind)
    BY <1>1, <1>2, <1>4, <1>7
  <2> QED
    BY <1>1, <1>2, <2>1, <2>3, <2>4, <2>5, <2>6, Zenon DEF SilenceIsHeard
<1> QED
  BY <1>3, <1>5, <1>6, <1>7

\* Every step of a running call.
LEMMA CallStepIsHeard ==
    ASSUME EngineInv, EngineInv', SilenceIsHeard, CallStep
    PROVE  SilenceIsHeard'
<1>1. CASE TrimSilence \/ PlayAhead \/ PlayRefill
  <2>1. /\ fill_buf /\ track_ended' = track_ended
        /\ pc \in {"starting", "ahead", "refilling"}
        /\ pc' \in {"starting", "ahead", "fading"}
        /\ pc # "refilling" => ~emu_track_ended
    BY <1>1
    DEF TrimSilence, PlayAhead, PlayRefill, MustTrim, MustGetAhead
  <2>2. ~emu_track_ended \/ track_ended
    BY <2>1 DEF EngineInv, PhaseInv, TypeOK, FlagsOK
  <2>3. Unskipped = 0 /\ Unskipped' = 0
    BY <2>1 DEF Unskipped
  <2> QED
    BY <2>1, <2>2, <2>3, FillIsHeard
<1>2. CASE Started
  <2>1. CASE emu_time' = buf_remain /\ silence_time' = 0
    <3>1. buf_remain - 0 <= BufSize
      BY EngineConstants DEF EngineInv, TypeOK, NumbersOK
    <3> QED
      BY <2>1, <3>1, HeardNothing
  <2>2. CASE UNCHANGED <<emu_time, silence_time>>
    <3>1. /\ UNCHANGED <<quiet, blind, track_ended>>
          /\ Unskipped' = 0 /\ Unskipped = 0
      BY <1>2 DEF Started, Unskipped
    <3> QED
      BY <2>2, <3>1, HeardStays
  <2> QED
    BY <1>2, <2>1, <2>2 DEF Started
<1>3. CASE SeekOn
  <2>1. seek_to - out_time \in Nat /\ skip(seek_to - out_time) /\ pc = "seeking"
    BY <1>3, InputAssumption
    DEF SeekOn, InputAssumption, EngineInv, TypeOK, NumbersOK, PhaseInv
  <2> QED
    BY <2>1, SkipIsHeard
<1>4. CASE PlayQueue \/ PlayFade
  <2>1. /\ track_ended => track_ended'
        /\ UNCHANGED <<emu_time, silence_time, quiet, blind>>
    BY <1>4 DEF PlayQueue, PlayFade
  <2>2. Unskipped' = 0 /\ Unskipped = 0
    BY <1>4 DEF PlayQueue, PlayFade, Unskipped
  <2> QED
    BY <2>1, <2>2, HeardStays
<1>5. CASE PlayGenerate
  BY <1>5, GenerateIsHeard
<1>6. CASE SkipMuted \/ SkipRest
  BY <1>6, SkippingIsHeard
<1>7. CASE SkipUnmute
  <2>1. /\ UNCHANGED <<emu_time, track_ended, silence_time, quiet, blind>>
        /\ Unskipped' = Unskipped
    BY <1>7 DEF SkipUnmute, Unskipped
  <2> QED
    BY <2>1, HeardStays
<1>8. CASE Skipped
  <2>1. /\ pc = "skipping" /\ pc' = "idle" /\ ~MustSkip
        /\ UNCHANGED <<emu_time, silence_time, quiet, blind>>
        /\ track_ended' = (track_ended \/
                           (emu_track_ended /\ silence_count = 0
                                            /\ buf_remain = 0))
    BY <1>8 DEF Skipped
  <2>2. silence_count = 0 /\ buf_remain = 0 /\ count \in Nat
    BY <2>1 DEF EngineInv, TypeOK, NumbersOK, PhaseInv
  <2>3. ~track_ended' => ~track_ended /\ ~emu_track_ended
    BY <2>1, <2>2
  <2>4. ~track_ended' => count = 0
    BY <2>1, <2>2, <2>3 DEF MustSkip
  <2>5. ~track_ended' => Unskipped' = Unskipped
    BY <2>1, <2>4 DEF Unskipped
  <2> QED
    BY <2>1, <2>3, <2>5, HeardStays
<1> QED
  BY <1>1, <1>2, <1>3, <1>4, <1>5, <1>6, <1>7, <1>8 DEF CallStep

\* Every step of Next.
LEMMA HeardStep ==
    ASSUME EngineInv, SilenceIsHeard, [Next]_vars
    PROVE  SilenceIsHeard'
<1>0. EngineInv'
  BY EngineStep
<1>1. CASE CallStep
  BY <1>0, <1>1, CallStepIsHeard
<1>2. CASE \E track \in 0..TrackCount : StartTrack(track)
  BY <1>0, <1>2, HeardNothing, EngineConstants
  DEF StartTrack, start_track, clear_track_vars
<1>3. CASE \E n \in SkipCounts : Skip(n)
  BY <1>3, InputAssumption, SkipIsHeard DEF InputAssumption, Skip
<1>4. CASE \E time \in SeekTimes : Seek(time)
  <2>1. PICK time \in SeekTimes : Seek(time)
    BY <1>4
  <2>2. time \in Nat /\ out_time \in Nat /\ pc = "idle"
    BY <2>1, InputAssumption
    DEF InputAssumption, EngineInv, TypeOK, NumbersOK, Seek
  <2>3. CASE start_track(current_track, time)
    BY <1>0, <2>3, HeardNothing, EngineConstants
    DEF start_track, clear_track_vars
  <2>4. CASE time >= out_time /\ skip(time - out_time)
    <3>1. time - out_time \in Nat
      BY <2>2, <2>4
    <3> QED
      BY <2>2, <2>4, <3>1, SkipIsHeard
  <2> QED
    BY <2>1, <2>3, <2>4 DEF Seek
<1>5. CASE Unload
  BY <1>0, <1>5, HeardNothing, EngineConstants DEF Unload, clear_track_vars
<1>6. CASE \/ PlayCall
           \/ \E fade \in Fades : SetFade(fade)
           \/ \E mask \in {{}, Voices} : MuteVoices(mask)
           \/ \E disable \in BOOLEAN : IgnoreSilence(disable)
           \/ UNCHANGED vars
  <2>1. UNCHANGED <<emu_time, track_ended, silence_time, quiet, blind>>
    BY <1>6
    DEF PlayCall, Play, PlayEnded, SetFade, MuteVoices, IgnoreSilence, vars
  <2>2. \/ pc = "idle" /\ pc' \in {"idle", "ahead"}
        \/ pc' = pc /\ count' = count
    BY <1>6
    DEF PlayCall, Play, PlayEnded, SetFade, MuteVoices, IgnoreSilence, vars
  <2>3. Unskipped' = Unskipped
    BY <2>2 DEF Unskipped
  <2> QED
    BY <2>1, <2>3, HeardStays
<1> QED
  BY <1>1, <1>2, <1>3, <1>4, <1>5, <1>6 DEF Next

\* Unless a sound passed that nobody looked for, silence that ends a track
\* has lasted for SilenceMax samples, less one block of look-ahead.
THEOREM OnlyLongSilenceEnds == Spec => LongSilenceEnds
<1>1. Init => SilenceIsHeard
  BY DEF Init, SilenceIsHeard
<1>2. EngineInv /\ SilenceIsHeard /\ [Next]_vars => SilenceIsHeard'
  BY HeardStep
<1>3. EngineInv /\ SilenceIsHeard
        => [PlayQueue /\ SilenceEnds /\ ~blind
              => quiet >= SilenceMax - BufSize]_vars
  <2> SUFFICES ASSUME EngineInv, SilenceIsHeard, PlayQueue, SilenceEnds,
                      ~blind
               PROVE  quiet >= SilenceMax - BufSize
    OBVIOUS
  <2>1. pc = "ahead" /\ emu_time - silence_time > SilenceMax
    BY DEF PlayQueue, SilenceEnds
  <2>2. ~track_ended /\ Unskipped = 0
    BY <2>1 DEF EngineInv, PhaseInv, Unskipped
  <2>3. /\ emu_time \in Nat /\ silence_time \in Nat /\ quiet \in Nat
        /\ BufSize \in Nat /\ SilenceMax \in Nat /\ SilenceMax >= BufSize
    BY EngineConstants DEF EngineInv, TypeOK, NumbersOK
  <2>4. quiet >= Lesser(emu_time - silence_time - BufSize, QuietMax)
    BY <2>2, <2>3 DEF SilenceIsHeard
  <2> QED
    BY <2>1, <2>3, <2>4 DEF Lesser
<1> QED
  BY <1>1, <1>2, <1>3, EngineInvariance, PTL DEF LongSilenceEnds, Spec

-----------------------------------------------------------------------------
(***************************************************************************)
(* The end of a fade.                                                      *)
(***************************************************************************)

\* A set of naturals that has 0 and with each number the next has them all.
LEMMA Induction ==
    ASSUME NEW S \in SUBSET Nat, 0 \in S, \A n \in S : n + 1 \in S
    PROVE  \A n \in Nat : n \in S
<1> SUFFICES ASSUME NEW n \in Nat, n \notin S PROVE FALSE
  OBVIOUS
<1> DEFINE T == {k \in Nat : k \notin S}
<1>1. T \subseteq Nat /\ T # {}
  OBVIOUS
<1>2. PICK least \in T : \A t \in T : ~(<<t, least>> \in OpToRel(<, Nat))
  BY <1>1, WFMin, NatLessThanWellFounded
<1>3. \A t \in T : least <= t
  <2> SUFFICES ASSUME NEW t \in T, t < least PROVE FALSE
    BY <1>1
  <2>1. <<t, least>> \in {ss \in Nat \X Nat : ss[1] < ss[2]}
    BY <1>1
  <2> QED
    BY <2>1, <1>2 DEF OpToRel
<1>4. least # 0
  OBVIOUS
<1>5. least - 1 \in Nat /\ (least - 1) + 1 = least
  BY <1>4
<1>6. least - 1 \in S
  BY <1>3, <1>5
<1> QED
  BY <1>5, <1>6

\* A table of the powers of two up to n.
IsTable(n, g) == g = [k \in 0..n |-> IF k = 0 THEN 1 ELSE 2 * g[k - 1]]
Table(n) == CHOOSE g : IsTable(n, g)

LEMMA TableExists == \A n \in Nat : \E g : IsTable(n, g)
<1> DEFINE S == {n \in Nat : \E g : IsTable(n, g)}
<1>1. 0 \in S
  <2> DEFINE g == [k \in 0..0 |-> 1]
  <2>1. IsTable(0, g)
    BY DEF IsTable
  <2> QED
    BY <2>1
<1>2. ASSUME NEW n \in S PROVE n + 1 \in S
  <2>1. PICK g : IsTable(n, g)
    OBVIOUS
  <2> DEFINE h == [k \in 0..n + 1 |-> IF k <= n THEN g[k] ELSE 2 * g[n]]
  <2>2. ASSUME NEW k \in 0..n + 1
        PROVE  h[k] = IF k = 0 THEN 1 ELSE 2 * h[k - 1]
    <3>1. CASE k = 0
      BY <2>1, <3>1 DEF IsTable
    <3>2. CASE k \in 1..n
      <4>1. g[k] = 2 * g[k - 1]
        BY <2>1, <3>2 DEF IsTable
      <4>2. h[k] = g[k] /\ h[k - 1] = g[k - 1]
        BY <3>2
      <4> QED
        BY <3>2, <4>1, <4>2
    <3>3. CASE k = n + 1
      <4>1. h[k] = 2 * g[n] /\ h[k - 1] = g[n]
        BY <3>3
      <4> QED
        BY <3>3, <4>1
    <3> QED
      BY <3>1, <3>2, <3>3
  <2>3. IsTable(n + 1, h)
    BY <2>2 DEF IsTable
  <2> QED
    BY <2>3
<1> HIDE DEF S
<1>3. \A n \in Nat : n \in S
  <2>1. S \in SUBSET Nat
    BY DEF S
  <2> QED
    BY <1>1, <1>2, <2>1, Induction
<1> QED
  BY <1>3 DEF S

LEMMA TableIs ==
    ASSUME NEW n \in Nat
    PROVE  /\ Table(n)[0] = 1
           /\ \A k \in 0..n - 1 : Table(n)[k + 1] = 2 * Table(n)[k]
<1>1. \E g : IsTable(n, g)
  BY TableExists
<1>2. IsTable(n, Table(n))
  BY <1>1 DEF Table
<1> DEFINE g == Table(n)
<1> HIDE DEF g
<1>3. g = [k \in 0..n |-> IF k = 0 THEN 1 ELSE 2 * g[k - 1]]
  BY <1>2 DEF IsTable, g
<1>4. g[0] = 1
  BY <1>3
<1>5. ASSUME NEW k \in 0..n - 1 PROVE g[k + 1] = 2 * g[k]
  <2>1. k + 1 \in 0..n /\ k + 1 # 0 /\ (k + 1) - 1 = k
    OBVIOUS
  <2> QED
    BY <1>3, <2>1
<1> QED
  BY <1>4, <1>5 DEF g

\* A table and the next one agree where both are defined.
LEMMA TablesAgree ==
    ASSUME NEW n \in Nat
    PROVE  Table(n + 1)[n] = Table(n)[n]
<1> DEFINE S == {k \in Nat : k <= n => Table(n + 1)[k] = Table(n)[k]}
<1>1. 0 \in S
  BY TableIs
<1>2. ASSUME NEW k \in S PROVE k + 1 \in S
  <2> SUFFICES ASSUME k + 1 <= n PROVE Table(n + 1)[k + 1] = Table(n)[k + 1]
    OBVIOUS
  <2>1. k \in 0..n - 1 /\ k \in 0..(n + 1) - 1
    OBVIOUS
  <2>2. Table(n + 1)[k] = Table(n)[k]
    OBVIOUS
  <2> QED
    BY <2>1, <2>2, TableIs
<1> HIDE DEF S
<1>3. \A k \in Nat : k \in S
  <2>1. S \in SUBSET Nat
    BY DEF S
  <2> QED
    BY <1>1, <1>2, <2>1, Induction
<1> QED
  BY <1>3 DEF S

\* Pow2 is what its definition says: there is such a function.
LEMMA Pow2Is ==
    /\ Pow2[0] = 1
    /\ \A n \in Nat : Pow2[n + 1] = 2 * Pow2[n]
<1> DEFINE IsPow2(g) ==
             g = [n \in Nat |-> IF n = 0 THEN 1 ELSE 2 * g[n - 1]]
           h == [n \in Nat |-> Table(n)[n]]
<1>1. ASSUME NEW n \in Nat
      PROVE  h[n] = IF n = 0 THEN 1 ELSE 2 * h[n - 1]
  <2>1. CASE n = 0
    BY <2>1, TableIs
  <2>2. CASE n # 0
    <3>1. n - 1 \in Nat /\ n - 1 \in 0..n - 1 /\ (n - 1) + 1 = n
      BY <2>2
    <3>2. Table(n)[n] = 2 * Table(n)[n - 1]
      BY <3>1, TableIs
    <3>3. Table(n)[n - 1] = Table(n - 1)[n - 1]
      BY <3>1, TablesAgree
    <3> QED
      BY <2>2, <3>1, <3>2, <3>3
  <2> QED
    BY <2>1, <2>2
<1>2. IsPow2(h)
  BY <1>1
<1>3. Pow2 = CHOOSE g : IsPow2(g)
  BY DEF Pow2
<1> HIDE DEF h
<1>4. IsPow2(CHOOSE g : IsPow2(g))
  BY <1>2
<1>5. IsPow2(Pow2)
  BY <1>3, <1>4
<1>6. ASSUME NEW n \in Nat PROVE Pow2[n] = IF n = 0 THEN 1 ELSE 2 * Pow2[n - 1]
  BY <1>5
<1>7. Pow2[0] = 1
  BY <1>6
<1>8. ASSUME NEW n \in Nat PROVE Pow2[n + 1] = 2 * Pow2[n]
  <2>1. n + 1 \in Nat /\ n + 1 # 0 /\ (n + 1) - 1 = n
    OBVIOUS
  <2> QED
    BY <1>6, <2>1
<1> QED
  BY <1>7, <1>8

LEMMA Pow2Type == \A n \in Nat : Pow2[n] \in Nat \ {0}
<1> DEFINE S == {n \in Nat : Pow2[n] \in Nat \ {0}}
<1>1. 0 \in S
  BY Pow2Is
<1>2. \A n \in S : n + 1 \in S
  BY Pow2Is
<1>3. S \in SUBSET Nat
  OBVIOUS
<1> HIDE DEF S
<1>4. \A n \in Nat : n \in S
  BY <1>1, <1>2, <1>3, Induction
<1> QED
  BY <1>4 DEF S

\* A shift by more than n divides by twice 1 << n at least.
LEMMA Pow2Grows ==
    ASSUME NEW n \in Nat, NEW m \in Nat, m > n
    PROVE  Pow2[m] >= 2 * Pow2[n]
<1> DEFINE S == {k \in Nat : Pow2[n + 1 + k] >= 2 * Pow2[n]}
<1>1. 0 \in S
  BY Pow2Is, Pow2Type
<1>2. ASSUME NEW k \in S PROVE k + 1 \in S
  <2> DEFINE j == n + 1 + k
  <2>1. j \in Nat /\ n + 1 + (k + 1) = j + 1
    OBVIOUS
  <2>2. Pow2[j] \in Nat /\ Pow2[j + 1] = 2 * Pow2[j] /\ Pow2[n] \in Nat
    BY <2>1, Pow2Is, Pow2Type
  <2>3. Pow2[j] >= 2 * Pow2[n]
    OBVIOUS
  <2> HIDE DEF j
  <2>4. Pow2[j + 1] >= 2 * Pow2[n]
    BY <2>2, <2>3
  <2> QED
    BY <2>1, <2>4
<1>3. S \in SUBSET Nat
  OBVIOUS
<1> HIDE DEF S
<1>4. \A k \in Nat : k \in S
  BY <1>1, <1>2, <1>3, Induction
<1>5. m - (n + 1) \in Nat /\ n + 1 + (m - (n + 1)) = m
  OBVIOUS
<1>6. m - (n + 1) \in S
  BY <1>4, <1>5
<1> QED
  BY <1>5, <1>6 DEF S

\* At a shift of more than FadeShift int_log() is below the gain at which
\* handle_fade() ends the track.
LEMMA GainBelowEnd ==
    ASSUME NEW x \in Nat, NEW step \in Nat \ {0},
           x \div step > FadeShift, x \div step < ShiftWidth,
           NEW gain \in int_log(x, step, FadeUnit)
    PROVE  gain < FadeUnit \div Pow2[FadeShift]
<1> DEFINE shift    == x \div step
           rest     == x % step
           fraction == (rest * FadeUnit) \div step
           mantissa == (FadeUnit - fraction) + fraction \div 2
<1>1. /\ FadeUnit \in Nat /\ FadeShift \in Nat
      /\ FadeUnit >= Pow2[FadeShift]
  BY EngineAssumption DEF EngineAssumption
<1>2. shift \in Nat /\ rest \in 0..step - 1
  OBVIOUS
<1>3. fraction \in Nat /\ fraction <= FadeUnit
  <2> HIDE DEF rest
  <2>1. rest * FadeUnit \in Nat /\ rest * FadeUnit <= FadeUnit * step
    BY <1>1, <1>2
  <2> DEFINE product == rest * FadeUnit
             bound   == FadeUnit * step
  <2>2. product \in Nat /\ bound \in Nat /\ product <= bound
    BY <1>1, <2>1
  <2>3. bound \div step = FadeUnit
    BY <1>1
  <2> HIDE DEF product, bound
  <2>4. product \div step \in Nat /\ product \div step <= bound \div step
    BY <2>2
  <2> QED
    BY <2>3, <2>4 DEF product
<1>4. mantissa \in Nat /\ mantissa <= FadeUnit
  <2> HIDE DEF fraction
  <2> QED
    BY <1>1, <1>3
<1>5. gain = mantissa \div Pow2[shift]
  BY DEF int_log
<1> DEFINE P == Pow2[FadeShift]
           Q == Pow2[shift]
<1>6. P \in Nat \ {0} /\ Q \in Nat \ {0} /\ Q >= 2 * P /\ FadeUnit >= P
  BY <1>1, <1>2, Pow2Type, Pow2Grows
<1> HIDE DEF shift, rest, fraction, mantissa, P, Q
<1>7. mantissa \div Q < FadeUnit \div P
  <2> DEFINE a == FadeUnit \div P
             b == mantissa \div Q
  <2>1. a \in Nat /\ b \in Nat /\ a >= 1
    BY <1>1, <1>4, <1>6
  <2>2. FadeUnit < (a + 1) * P /\ b * Q <= mantissa
    BY <1>1, <1>4, <1>6
  <2> HIDE DEF a, b
  <2>3. b * Q >= b * (2 * P) /\ (a + 1) * P <= (2 * a) * P
    BY <1>6, <2>1
  <2>4. (2 * b) * P < (2 * a) * P
    BY <1>1, <1>4, <1>6, <2>1, <2>2, <2>3
  <2>5. b < a
    BY <1>6, <2>1, <2>4
  <2> QED
    BY <2>5 DEF a, b
<1> QED
  BY <1>5, <1>7 DEF P, Q

\* The phases behind the queue of play() have samples for its caller.
LEMMA SomethingPlayedInit == Init => SomethingPlayed
  BY DEF Init, SomethingPlayed

LEMMA SomethingPlayedStep ==
    ASSUME EngineInv, SomethingPlayed, [Next]_vars
    PROVE  SomethingPlayed'
<1>1. CASE PlayQueue
  <2> DEFINE pos   == Lesser(silence_count, count)
             avail == IF SilenceEnds THEN 0 ELSE buf_remain
             n     == Lesser(avail, count - pos)
  <2>1. /\ out' = Silence(pos) \o FromBuf(avail, n)
        /\ pc' = IF pos + n = count THEN "fading" ELSE "generating"
    BY <1>1 DEF PlayQueue
  <2>2. /\ silence_count \in Nat /\ count \in Nat \ {0}
        /\ avail \in 0..BufSize /\ BufSize \in Nat /\ buf \in Blocks(BufSize)
    BY <1>1, EngineConstants
    DEF PlayQueue, EngineInv, PhaseInv, TypeOK, NumbersOK, DataOK
  <2> HIDE DEF avail
  <2>3. pos \in Nat /\ n \in 0..avail
    BY <2>2 DEF Lesser
  <2> HIDE DEF pos, n
  <2>4. Silence(pos) \in Seq(BOOLEAN) /\ Len(Silence(pos)) = pos
    BY <2>3, SilenceIsBlock
  <2>5. FromBuf(avail, n) \in Seq(BOOLEAN) /\ Len(FromBuf(avail, n)) = n
    BY <2>2, <2>3, PartOfBlock DEF FromBuf
  <2>6. Len(out') = pos + n
    BY <2>1, <2>4, <2>5, ConcatProperties
  <2> QED
    BY <2>1, <2>2, <2>6 DEF SomethingPlayed
<1>2. CASE PlayGenerate
  <2>1. PICK blk \in Blocks(count) : out' = out \o blk
    BY <1>2 DEF PlayGenerate
  <2>2. count \in Nat \ {0} /\ out \in Seq(BOOLEAN)
    BY <1>2 DEF PlayGenerate, EngineInv, PhaseInv, TypeOK, NumbersOK, DataOK
  <2>3. blk \in Seq(BOOLEAN) /\ Len(blk) = count
    BY <2>2, BlockIsSequence
  <2>4. Len(out') = Len(out) + count
    BY <2>1, <2>2, <2>3, ConcatProperties
  <2>5. Len(out) \in Nat /\ Len(out') > 0
    BY <2>2, <2>4
  <2> QED
    BY <2>5 DEF SomethingPlayed
<1>3. CASE PlayRefill
  BY <1>3 DEF PlayRefill, SomethingPlayed
<1>4. CASE UNCHANGED vars
  BY <1>4 DEF vars, callVars, SomethingPlayed
<1>5. CASE pc' \notin {"refilling", "fading"}
  BY <1>5 DEF SomethingPlayed
<1>6. [Next]_vars => \/ PlayQueue \/ PlayGenerate \/ PlayRefill
                     \/ UNCHANGED vars \/ pc' \notin {"refilling", "fading"}
  <2>1. CallStep => \/ PlayQueue \/ PlayGenerate \/ PlayRefill
                    \/ pc' \notin {"refilling", "fading"}
    BY DEF CallStep, TrimSilence, Started, SeekOn, skip, PlayAhead, PlayFade,
           SkipMuted, SkipUnmute, SkipRest, Skipped, callVars
  <2>2. PlayCall => pc' \notin {"refilling", "fading"}
    BY DEF PlayCall, Play, PlayEnded
  <2>3. (\E track \in 0..TrackCount : StartTrack(track))
          => pc' \notin {"refilling", "fading"}
    BY DEF StartTrack, start_track
  <2>4. (\E n \in SkipCounts : Skip(n)) => pc' \notin {"refilling", "fading"}
    BY DEF Skip, skip
  <2>5. (\E time \in SeekTimes : Seek(time))
          => pc' \notin {"refilling", "fading"}
    BY DEF Seek, start_track, skip
  <2>6. \/ \E fade \in Fades : SetFade(fade)
        \/ \E mask \in {{}, Voices} : MuteVoices(mask)
        \/ \E disable \in BOOLEAN : IgnoreSilence(disable)
        \/ Unload
        => pc' \notin {"refilling", "fading"}
    BY DEF SetFade, MuteVoices, IgnoreSilence, Unload, callVars
  <2> QED
    BY <2>1, <2>2, <2>3, <2>4, <2>5, <2>6 DEF Next
<1> QED
  BY <1>1, <1>2, <1>3, <1>4, <1>5, <1>6

\* Once a fade ends, track_ended() returns true: a play() that begins so far
\* behind fade_start that the gain is below 1 / 2^FadeShift ends the track.
THEOREM FadeEndsTrack == Spec => FadeEnds
<1>1. EngineInv /\ SomethingPlayed =>
        [PlayFade /\ Fading
           /\ out_time - fade_start
                >= FadeBlock * fade_step * (FadeShift + 1)
           /\ out_time - fade_start < FadeBlock * fade_step * ShiftWidth
          => track_ended']_vars
  <2> SUFFICES ASSUME EngineInv, SomethingPlayed, PlayFade, Fading,
                      out_time - fade_start
                        >= FadeBlock * fade_step * (FadeShift + 1),
                      out_time - fade_start
                        < FadeBlock * fade_step * ShiftWidth
               PROVE  track_ended'
    OBVIOUS
  <2> DEFINE late == out_time - fade_start
             x    == late \div FadeBlock
  <2>1. /\ FadeBlock \in Nat \ {0} /\ FadeShift \in Nat
        /\ ShiftWidth \in Nat /\ fade_step \in Nat \ {0}
        /\ late \in Nat /\ out_time \in Int /\ fade_start \in Int
        /\ out_time + 0 - fade_start = late
    BY EngineAssumption
    DEF EngineAssumption, EngineInv, TypeOK, NumbersOK, Fading
  <2>2. /\ late >= FadeBlock * fade_step * (FadeShift + 1)
        /\ late < FadeBlock * fade_step * ShiftWidth
    OBVIOUS
  <2>3. late >= (fade_step * (FadeShift + 1)) * FadeBlock
        /\ late < (fade_step * ShiftWidth) * FadeBlock
    <3> HIDE DEF late
    <3> QED
      BY <2>1, <2>2
  <2>4. x \in Nat /\ x >= (FadeShift + 1) * fade_step
        /\ x < ShiftWidth * fade_step
    <3> HIDE DEF late
    <3> DEFINE low == fade_step * (FadeShift + 1)
               high == fade_step * ShiftWidth
    <3>1. low \in Nat /\ high \in Nat
      BY <2>1
    <3>2. late >= low * FadeBlock /\ late < high * FadeBlock
      BY <2>3
    <3> HIDE DEF low, high
    <3>3. x \in Nat /\ x >= low /\ x < high
      BY <2>1, <3>1, <3>2
    <3> HIDE DEF x
    <3> QED
      BY <2>1, <3>3 DEF low, high
  <2> HIDE DEF x
  <2>5. x \div fade_step > FadeShift /\ x \div fade_step < ShiftWidth
    BY <2>1, <2>4
  <2>6. \A gain \in int_log(x, fade_step, FadeUnit) :
          gain < FadeUnit \div Pow2[FadeShift]
    BY <2>1, <2>4, <2>5, GainBelowEnd
  <2>7. FALSE \notin handle_fade(Len(out))
    <3>1. Len(out) \in Nat /\ Len(out) > 0
      BY DEF SomethingPlayed, PlayFade, EngineInv, TypeOK, DataOK
    <3>2. 0 \in {i \in 0..Len(out) - 1 : i % FadeBlock = 0}
      BY <2>1, <3>1
    <3>3. (out_time + 0 - fade_start) \div FadeBlock = x
      BY <2>1 DEF x
    <3> HIDE DEF late
    <3> QED
      BY <2>6, <3>2, <3>3 DEF handle_fade
  <2>8. PICK ends \in handle_fade(Len(out)) :
          track_ended' = (track_ended \/ ends)
    BY DEF PlayFade
  <2>9. ends = TRUE
    BY <2>7, <2>8 DEF handle_fade
  <2> QED
    BY <2>8, <2>9
<1>2. EngineInv /\ SomethingPlayed /\ [Next]_vars => SomethingPlayed'
  BY SomethingPlayedStep
<1> QED
  BY <1>1, <1>2, SomethingPlayedInit, EngineInvariance, PTL
  DEF FadeEnds, Spec

-----------------------------------------------------------------------------
(***************************************************************************)
(* The end of every call, and of every track.                              *)
(***************************************************************************)
Closer == \/ PhasesLeft[pc'] < PhasesLeft[pc]
          \/ pc' = pc /\ 0 <= LoopLeft' /\ LoopLeft' < LoopLeft

\* Where a number has been brought to by the steps of a loop, a number that
\* the loop compares it with is nearer.
LEMMA Nearer ==
    \A a, b, n \in Int : a < b /\ n > 0 => b - (a + n) < b - a
  OBVIOUS

\* The loop of start_track() stops when the emulator has generated
\* InitialSilence samples, at the latest.
LEMMA TrimSilenceProgress == EngineInv /\ TrimSilence => Closer
<1> SUFFICES ASSUME EngineInv, TrimSilence PROVE Closer
  OBVIOUS
<1>1. /\ pc = "starting" /\ pc' = pc /\ MustTrim /\ fill_buf
      /\ buf_remain = 0 /\ ~emu_track_ended
  BY DEF TrimSilence, MustTrim
<1>2. emu_time' = emu_time + BufSize
  BY <1>1, FillBuf DEF EngineInv
<1>3. /\ emu_time \in Int /\ BufSize \in Int /\ BufSize > 0
      /\ InitialSilence \in Int /\ emu_time < InitialSilence
  BY <1>1, EngineConstants DEF EngineInv, TypeOK, NumbersOK, MustTrim
<1> DEFINE next == emu_time + BufSize
<1>4. LoopLeft = InitialSilence - emu_time /\ LoopLeft > 0
  BY <1>1, <1>3 DEF LoopLeft
<1>5. LoopLeft' = InitialSilence - next \/ LoopLeft' = 0
  BY <1>1, <1>2 DEF LoopLeft
<1>6. LoopLeft' = InitialSilence - next
        => next < InitialSilence \/ LoopLeft' = 0
  BY <1>1, <1>2 DEF LoopLeft, MustTrim
<1>7. next \in Int /\ InitialSilence - next < InitialSilence - emu_time
  BY <1>3
<1> HIDE DEF next
<1>8. 0 <= LoopLeft' /\ LoopLeft' < LoopLeft
  BY <1>3, <1>4, <1>5, <1>6, <1>7
<1> QED
  BY <1>1, <1>8 DEF Closer

\* The look-ahead stops when the emulator is ahead_time ahead, or has found
\* sound or the end of the track.
LEMMA PlayAheadProgress == EngineInv /\ PlayAhead => Closer
<1> SUFFICES ASSUME EngineInv, PlayAhead PROVE Closer
  OBVIOUS
<1>1. /\ pc = "ahead" /\ pc' = pc /\ MustGetAhead /\ fill_buf
      /\ buf_remain = 0 /\ ~emu_track_ended
      /\ out_time' = out_time /\ count' = count
  BY DEF PlayAhead, MustGetAhead
<1>2. emu_time' = emu_time + BufSize
  BY <1>1, FillBuf DEF EngineInv
<1>3. BufSize \in Nat \ {0}
  BY EngineConstants
<1>4. silence_time' = silence_time \/ buf_remain' = BufSize
  BY <1>1 DEF fill_buf
<1>5. MustGetAhead' => ahead_time' = ahead_time
  <2>1. MustGetAhead' => buf_remain' = 0
    BY DEF MustGetAhead
  <2>2. MustGetAhead' => silence_time' = silence_time
    BY <1>3, <1>4, <2>1
  <2> QED
    BY <1>1, <2>2 DEF ahead_time
<1> DEFINE next == emu_time + BufSize
           goal == ahead_time
<1>6. goal \in Int /\ emu_time \in Int /\ BufSize \in Int /\ BufSize > 0
      /\ emu_time < goal
  BY <1>1, <1>3, EngineConstants
  DEF EngineInv, TypeOK, NumbersOK, MustGetAhead, ahead_time
<1>7. LoopLeft = goal - emu_time
  BY <1>1 DEF LoopLeft
<1>8. IF MustGetAhead' THEN LoopLeft' = goal - next /\ next < goal
                       ELSE LoopLeft' = 0
  <2>1. MustGetAhead' => emu_time' < ahead_time'
    BY DEF MustGetAhead
  <2>2. LoopLeft' = IF MustGetAhead' THEN ahead_time' - emu_time' ELSE 0
    BY <1>1 DEF LoopLeft
  <2> QED
    BY <1>2, <1>5, <2>1, <2>2
<1>9. next \in Int /\ goal - next < goal - emu_time
  BY <1>6
<1> HIDE DEF next, goal
<1>10. 0 <= LoopLeft' /\ LoopLeft' < LoopLeft
  BY <1>6, <1>7, <1>8, <1>9
<1> QED
  BY <1>1, <1>10 DEF Closer

\* The loops of skip_() count down.
LEMMA SkippingProgress == EngineInv /\ (SkipMuted \/ SkipRest) => Closer
<1> SUFFICES ASSUME EngineInv, SkipMuted \/ SkipRest PROVE Closer
  OBVIOUS
<1>1. /\ count \in Nat /\ BufSize \in Nat \ {0}
      /\ SkipThreshold \in Nat /\ SkipThreshold \div 2 >= BufSize
  BY EngineConstants DEF EngineInv, TypeOK, NumbersOK
<1>2. CASE SkipMuted
  <2>1. pc = "muted" /\ count > SkipThreshold \div 2
    BY <1>2 DEF SkipMuted, MustSkipMuted
  <2>2. CASE pc' = "skipping"
    BY <2>1, <2>2 DEF Closer, PhasesLeft
  <2>3. CASE pc' = pc
    <3>1. count' = count - BufSize
      BY <1>2, <2>1, <2>3 DEF SkipMuted
    <3> DEFINE next == count - BufSize
    <3>2. LoopLeft = count /\ LoopLeft' = next
      BY <2>1, <2>3, <3>1 DEF LoopLeft
    <3>3. next \in Nat /\ next < count
      BY <1>1, <2>1
    <3> HIDE DEF next
    <3> QED
      BY <1>1, <2>3, <3>2, <3>3 DEF Closer
  <2> QED
    BY <1>2, <2>2, <2>3 DEF SkipMuted
<1>3. CASE SkipRest
  <2>1. /\ pc = "skipping" /\ pc' = pc /\ count > 0
        /\ count' = count - SkipSize
    BY <1>3 DEF SkipRest, MustSkip
  <2> DEFINE next == count - SkipSize
  <2>2. LoopLeft = count /\ LoopLeft' = next
    BY <2>1 DEF LoopLeft
  <2>3. next \in Nat /\ next < count
    BY <1>1, <2>1 DEF SkipSize, Lesser
  <2> HIDE DEF next
  <2> QED
    BY <1>1, <2>1, <2>2, <2>3 DEF Closer
<1> QED
  BY <1>2, <1>3

\* Each step of a call brings it closer to its end.
LEMMA CallStepProgress == EngineInv /\ CallStep => Closer
<1>1. EngineInv /\ Started => Closer
  <2> SUFFICES ASSUME Started PROVE Closer
    OBVIOUS
  <2>1. pc = "starting" /\ pc' \in {"seeking", "idle"}
    BY DEF Started
  <2> QED
    BY <2>1 DEF Closer, PhasesLeft
<1>2. EngineInv /\ SeekOn => Closer
  <2> SUFFICES ASSUME SeekOn PROVE Closer
    OBVIOUS
  <2>1. pc = "seeking" /\ pc' \in {"muted", "skipping", "idle"}
    BY DEF SeekOn, skip
  <2> QED
    BY <2>1 DEF Closer, PhasesLeft
<1>3. EngineInv /\ (PlayQueue \/ PlayGenerate \/ PlayRefill \/ PlayFade)
        => Closer
  <2> SUFFICES ASSUME PlayQueue \/ PlayGenerate \/ PlayRefill \/ PlayFade
               PROVE  Closer
    OBVIOUS
  <2>1. \/ pc = "ahead" /\ pc' \in {"fading", "generating"}
        \/ pc = "generating" /\ pc' \in {"refilling", "fading"}
        \/ pc = "refilling" /\ pc' = "fading"
        \/ pc = "fading" /\ pc' = "idle"
    <3>1. PlayQueue => pc = "ahead" /\ pc' \in {"fading", "generating"}
      BY DEF PlayQueue
    <3>2. PlayGenerate => pc = "generating" /\ pc' \in {"refilling", "fading"}
      BY DEF PlayGenerate
    <3>3. PlayRefill => pc = "refilling" /\ pc' = "fading"
      BY DEF PlayRefill
    <3>4. PlayFade => pc = "fading" /\ pc' = "idle"
      BY DEF PlayFade
    <3> QED
      BY <3>1, <3>2, <3>3, <3>4
  <2> QED
    BY <2>1 DEF Closer, PhasesLeft
<1>4. EngineInv /\ (SkipUnmute \/ Skipped) => Closer
  <2> SUFFICES ASSUME SkipUnmute \/ Skipped PROVE Closer
    OBVIOUS
  <2>1. \/ pc = "muted" /\ pc' = "skipping"
        \/ pc = "skipping" /\ pc' = "idle"
    BY DEF SkipUnmute, Skipped
  <2> QED
    BY <2>1 DEF Closer, PhasesLeft
<1> QED
  BY <1>1, <1>2, <1>3, <1>4, TrimSilenceProgress, PlayAheadProgress,
     SkippingProgress
  DEF CallStep

\* Every call returns: no step of a call goes back or stays where it is,
\* whatever the emulator does and wherever the clocks are.  All that
\* CallsReturn needs besides is that a call that can go on does so.
THEOREM CallsGoOn == Spec => CallsProgress
<1>1. EngineInv =>
        [CallStep => \/ PhasesLeft[pc'] < PhasesLeft[pc]
                     \/ pc' = pc /\ 0 <= LoopLeft' /\ LoopLeft' < LoopLeft]_vars
  BY CallStepProgress DEF Closer
<1> QED
  BY <1>1, EngineInvariance, PTL DEF CallsProgress, Spec

\* play() takes what it delivers out of the queue.
LEMMA PlayQueueDrains ==
    ASSUME EngineInv, PlayQueue, ~track_ended'
    PROVE  /\ QueueLeft' <= QueueLeft
           /\ QueueLeft' < QueueLeft \/ pc' = "generating"
<1>1. ~SilenceEnds
  BY DEF PlayQueue
<1> DEFINE pos == Lesser(silence_count, count)
           n   == Lesser(buf_remain, count - pos)
           s   == silence_count - pos
           r   == buf_remain - n
<1>2. /\ silence_count' = s /\ buf_remain' = r
      /\ pc' = IF pos + n = count THEN "fading" ELSE "generating"
  BY <1>1 DEF PlayQueue
<1>3. silence_count \in Nat /\ buf_remain \in Nat /\ count \in Nat \ {0}
  BY DEF PlayQueue, EngineInv, PhaseInv, TypeOK, NumbersOK
<1>4. /\ s \in Nat /\ r \in Nat
      /\ s + r <= silence_count + buf_remain
      /\ pos + n = count => s + r < silence_count + buf_remain
  <2>1. pos \in Nat /\ pos <= silence_count /\ pos <= count
    BY <1>3 DEF Lesser
  <2> HIDE DEF pos
  <2>2. n \in Nat /\ n <= buf_remain
    BY <1>3, <2>1 DEF Lesser
  <2> HIDE DEF n
  <2> QED
    BY <1>3, <2>1, <2>2
<1>5. QueueLeft' = s + r /\ QueueLeft = silence_count + buf_remain
  BY <1>2 DEF QueueLeft
<1> HIDE DEF s, r, pos, n
<1> QED
  BY <1>2, <1>4, <1>5

\* So does skip().
LEMMA SkipDrains ==
    ASSUME EngineInv, NEW n \in Nat, skip(n)
    PROVE  QueueLeft' <= QueueLeft
<1> DEFINE s == silence_count - SkipSilence(n)
           r == buf_remain - SkipBuf(n)
<1>1. silence_count' = s /\ buf_remain' = r
  BY DEF skip
<1>2. silence_count \in Nat /\ buf_remain \in Nat
  BY DEF EngineInv, TypeOK, NumbersOK
<1>3. s \in Nat /\ r \in Nat /\ s <= silence_count /\ r <= buf_remain
  <2>1. SkipSilence(n) \in Nat /\ SkipSilence(n) <= silence_count
        /\ SkipSilence(n) <= n
    BY <1>2 DEF SkipSilence, Lesser
  <2>2. SkipBuf(n) \in Nat /\ SkipBuf(n) <= buf_remain
    BY <1>2, <2>1 DEF SkipBuf, Lesser
  <2> QED
    BY <1>2, <2>1, <2>2
<1> HIDE DEF s, r
<1>4. QueueLeft' = s + r
  BY <1>1 DEF QueueLeft
<1> QED
  BY <1>2, <1>3, <1>4 DEF QueueLeft

\* Nothing is put in the queue of an emulator that has ended.
LEMMA EndedQueueDrains ==
    ASSUME EngineInv, [Next]_vars,
           emu_track_ended, emu_track_ended', ~track_ended'
    PROVE  /\ QueueLeft' <= QueueLeft
           /\ PlayQueue => QueueLeft' < QueueLeft \/ pc' = "generating"
           /\ ~PlayGenerate
<1>0. /\ silence_count \in Nat /\ buf_remain \in Nat
      /\ out_time \in Nat /\ QueueLeft \in Nat
  BY DEF EngineInv, TypeOK, NumbersOK, QueueLeft
<1>1. ~PlayGenerate
  BY DEF PlayGenerate, EndReported
<1>2. ~TrimSilence /\ ~PlayAhead /\ ~PlayRefill
  BY DEF TrimSilence, MustTrim, PlayAhead, MustGetAhead, PlayRefill,
         EngineInv, PhaseInv
<1>3. ASSUME NEW track, NEW target, start_track(track, target) PROVE FALSE
  BY <1>3 DEF start_track
<1>4. QueueLeft' <= QueueLeft
  <2>1. CASE UNCHANGED <<silence_count, buf_remain>>
    BY <1>0, <2>1 DEF QueueLeft
  <2>2. CASE Started
    <3>1. /\ buf_remain' = buf_remain
          /\ silence_count' = silence_count \/ silence_count' = 0
      BY <2>2 DEF Started
    <3> QED
      BY <1>0, <3>1 DEF QueueLeft
  <2>3. CASE PlayQueue
    BY <2>3, PlayQueueDrains
  <2>4. CASE SeekOn
    <3>1. seek_to - out_time \in Nat
      <4>1. seek_to \in Nat /\ out_time = 0
        BY <2>4, InputAssumption
        DEF InputAssumption, SeekOn, EngineInv, PhaseInv, TypeOK, NumbersOK
      <4> QED
        BY <4>1
    <3> QED
      BY <2>4, <3>1, SkipDrains DEF SeekOn
  <2>5. ASSUME NEW n \in SkipCounts, Skip(n) PROVE QueueLeft' <= QueueLeft
    BY <2>5, SkipDrains, InputAssumption DEF Skip, InputAssumption
  <2>6. ASSUME NEW time \in SeekTimes, Seek(time)
        PROVE  QueueLeft' <= QueueLeft
    <3>1. time >= out_time /\ skip(time - out_time)
      BY <1>3, <2>6 DEF Seek
    <3>2. time - out_time \in Nat
      BY <1>0, <3>1, InputAssumption DEF InputAssumption
    <3> QED
      BY <3>1, <3>2, SkipDrains
  <2>7. ASSUME NEW track, StartTrack(track) PROVE FALSE
    BY <1>3, <2>7 DEF StartTrack
  <2>8. ~Unload
    BY DEF Unload
  <2>9. CallStep => \/ Started \/ PlayQueue \/ SeekOn
                    \/ UNCHANGED <<silence_count, buf_remain>>
    BY <1>1, <1>2
    DEF CallStep, PlayFade, SkipMuted, SkipUnmute, SkipRest, Skipped
  <2>10. \/ PlayCall
         \/ \E fade \in Fades : SetFade(fade)
         \/ \E mask \in {{}, Voices} : MuteVoices(mask)
         \/ \E disable \in BOOLEAN : IgnoreSilence(disable)
         \/ UNCHANGED vars
         => UNCHANGED <<silence_count, buf_remain>>
    BY DEF PlayCall, Play, PlayEnded, SetFade, MuteVoices, IgnoreSilence, vars
  <2> QED
    BY <2>1, <2>2, <2>3, <2>4, <2>5, <2>6, <2>7, <2>8, <2>9, <2>10 DEF Next
<1> QED
  BY <1>1, <1>4, PlayQueueDrains

\* The end of a track reaches the client: when the emulator has ended the
\* queue only gets shorter, and a play() that finds it too short reports it.
THEOREM EndIsNear == Spec => EndComesNearer
<1>1. EngineInv /\ [Next]_vars =>
        [emu_track_ended /\ emu_track_ended' /\ ~track_ended'
           => /\ QueueLeft' <= QueueLeft
              /\ PlayQueue => QueueLeft' < QueueLeft \/ pc' = "generating"
              /\ ~PlayGenerate]_vars
  BY EndedQueueDrains
<1> QED
  BY <1>1, EngineInvariance, PTL DEF EndComesNearer, Spec
=============================================================================
