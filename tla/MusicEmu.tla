------------------------------ MODULE MusicEmu ------------------------------
(***************************************************************************)
(* The playback engine of gme/Music_Emu.cpp: the part of every emulator    *)
(* that starts tracks, plays, skips and seeks, fades out, and looks for    *)
(* the silence that ends a track.                                          *)
(*                                                                         *)
(* The engine owns a look-ahead queue in front of the emulator: a run of   *)
(* `silence_count' silent samples followed by the last `buf_remain'        *)
(* samples of the block `buf'.  play() delivers the queue first and then   *)
(* lets the emulator (play_(), virtual, unknown here) write to the caller. *)
(*                                                                         *)
(* Samples are BOOLEAN: TRUE is an audible sample, FALSE a silent one      *)
(* (within silence_threshold / 2 of zero).  Time is counted in samples of  *)
(* all channels, as in the code.  A call of the public interface is atomic *)
(* for its client, and a sequence of steps here: pc is "idle" between      *)
(* calls, and every loop of the code that runs the emulator is a loop of   *)
(* steps.                                                                  *)
(***************************************************************************)
EXTENDS Integers, Sequences, FiniteSetsExt

CONSTANTS
    TrackCount,     \* tracks of the loaded file; remap_track_ refuses others
    Voices,         \* voices of the emulator; muting all of them is mask ~0
    Outcomes,       \* what play_() may do: "ok", end the track, or fail
    BufSize,        \* buf_size
    SilenceMax,     \* silence_max * out_channels() * sample_rate()
    InitialSilence, \* max_initial_silence * out_channels() * sample_rate()
    Lookahead,      \* silence_lookahead
    SkipThreshold,  \* threshold of skip_()
    FadeBlock,      \* fade_block_size
    FadeShift,      \* fade_shift
    FadeUnit,       \* the gain of 1.0 in handle_fade()
    ShiftWidth,     \* width of int: a longer shift is undefined
    NoFade,         \* fade_start of a track without fade: INT_MAX / 2 + 1
    PlayCounts,     \* sample counts the client gives to play()
    SkipCounts,     \* ... to skip()
    SeekTimes,      \* ... to seek_samples()
    Fades,          \* pairs <<fade_start, fade_step>> set_fade() computes
    TrackFades,     \* ... for start_track_(), from the length in the file
    SongLength,     \* bound: play_() ends the track when emu_time gets here
    LastFade,       \* bound: the client calls set_fade() no later than this
    MaxTime         \* bound: the client starts no call that plays beyond it

\* 1 << n.
Pow2[n \in Nat] == IF n = 0 THEN 1 ELSE 2 * Pow2[n - 1]

ASSUME EngineAssumption ==
    /\ TrackCount \in Nat \ {0}
    /\ Outcomes \subseteq {"ok", "end", "error"}
    /\ BufSize \in Nat \ {0}
    /\ SilenceMax \in Nat /\ SilenceMax >= BufSize
    /\ InitialSilence \in Nat
    /\ Lookahead \in Nat \ {0}
    /\ SkipThreshold \in Nat /\ SkipThreshold \div 2 >= BufSize
    /\ FadeBlock \in Nat \ {0}
    /\ FadeShift \in Nat
    /\ FadeUnit \in Nat \ {0} /\ FadeUnit >= Pow2[FadeShift]
    /\ ShiftWidth \in Nat \ {0}
    /\ NoFade \in Nat
    /\ SongLength \in Nat /\ LastFade \in Nat
    /\ MaxTime \in Nat

ASSUME InputAssumption ==
    /\ PlayCounts \subseteq Nat \ {0}
    /\ SkipCounts \subseteq Nat
    /\ SeekTimes \subseteq Nat
    /\ Fades \subseteq Int \X (Nat \ {0})
    /\ TrackFades \subseteq Int \X (Nat \ {0})

VARIABLES
    current_track,   \* track given to start_track, -1 if none
    out_time,        \* samples delivered to the client
    emu_time,        \* samples generated by the emulator
    emu_track_ended, \* the emulator reached the end of the track
    track_ended,     \* the client is told that the track ended
    fade_start, fade_step,
    silence_time,    \* where the most recent silence is believed to begin
    silence_count,   \* silent samples to deliver before buf
    buf_remain,      \* samples of buf not delivered yet
    buf,
    ignore_silence,
    mute_mask,       \* voices muted in the emulator
    saved_mute,      \* the local saved_mute of skip_()
    warning,         \* a warning waits for the client
    pc,              \* where the running call is
    count,           \* samples the running call still has to produce
    seek_to,         \* target of a seek that had to restart, or -1
    out,             \* what the last play() wrote to its caller
    \* History, read by properties only:
    quiet,           \* silent samples the emulator last generated in a row
    blind,           \* an audible sample passed that silence_time ignores
    wanted_mask,     \* mask of the last mute_voices() of the client
    mute_lost        \* a skip has failed since, with all voices muted

clockVars == <<out_time, emu_time>>
endVars   == <<emu_track_ended, track_ended>>
fadeVars  == <<fade_start, fade_step>>
queueVars == <<silence_count, buf_remain, buf>>
muteVars  == <<mute_mask, saved_mute, wanted_mask, mute_lost>>
callVars  == <<pc, count, seek_to, out>>
heardVars == <<quiet, blind>>
vars == <<current_track, clockVars, endVars, fadeVars, silence_time,
          queueVars, ignore_silence, muteVars, warning, callVars, heardVars>>

Phases == {"idle", "starting", "seeking", "ahead", "generating", "refilling",
           "fading", "muted", "skipping"}

-----------------------------------------------------------------------------
(***************************************************************************)
(* Blocks of samples.                                                      *)
(***************************************************************************)
Lesser(a, b) == IF a <= b THEN a ELSE b

Blocks(n)  == [1..n -> BOOLEAN]
Silence(n) == [i \in 1..n |-> FALSE]

\* count_silence() scans down from the end of the block and stops at an
\* audible sample or at the first one, where it wrote a sentinel.  The
\* sample it stops at is counted too.
count_silence(blk) ==
    Len(blk) + 1 - Max({1} \cup {i \in 1..Len(blk) : blk[i]})

HasSound(blk) == count_silence(blk) < Len(blk)

\* History: how many silent samples the emulator has generated in a row, by
\* the measure of count_silence(); no property asks for more than QuietMax.
QuietMax == 2 * SilenceMax

QuietAfter(blk) ==
    Lesser(IF HasSound(blk) THEN count_silence(blk) - 1 ELSE quiet + Len(blk),
           QuietMax)

-----------------------------------------------------------------------------
(***************************************************************************)
(* Running the emulator.                                                   *)
(***************************************************************************)

\* end_track_if_error() around a call of play_() that had this outcome;
\* play_() itself may have called set_track_ended().
end_track_if_error(outcome) ==
    /\ emu_track_ended' = (emu_track_ended \/ outcome # "ok")
    /\ warning' = (warning \/ outcome = "error")

\* The song that is being emulated is finite.
CanReturn(outcome, time) == time >= SongLength => outcome # "ok"

\* emu_play(): blk is what it writes.  current_track >= 0 in every caller.
emu_play(blk, outcome) ==
    /\ emu_time' = emu_time + Len(blk)
    /\ \/ /\ ~emu_track_ended
          /\ CanReturn(outcome, emu_time')
          /\ end_track_if_error(outcome)
          /\ quiet' = QuietAfter(blk)
       \/ /\ emu_track_ended
          /\ blk = Silence(Len(blk)) /\ outcome = "ok"
          /\ UNCHANGED <<emu_track_ended, warning, quiet>>

\* fill_buf(): generate a block and queue it, as silence if it is silent.
fill_buf ==
    \/ /\ ~emu_track_ended
       /\ \E blk \in Blocks(BufSize), outcome \in Outcomes :
            /\ emu_play(blk, outcome)
            /\ buf' = blk
            /\ \/ /\ HasSound(blk)
                  /\ silence_time' = emu_time' - count_silence(blk)
                  /\ buf_remain' = BufSize
                  /\ blind' = FALSE
                  /\ UNCHANGED silence_count
               \/ /\ ~HasSound(blk)
                  /\ silence_count' = silence_count + BufSize
                  /\ UNCHANGED <<silence_time, buf_remain, blind>>
    \/ /\ emu_track_ended
       /\ silence_count' = silence_count + BufSize
       /\ UNCHANGED <<emu_time, emu_track_ended, warning, silence_time,
                      buf_remain, buf, heardVars>>

-----------------------------------------------------------------------------
(***************************************************************************)
(* Starting a track.                                                       *)
(***************************************************************************)

\* clear_track_vars(), the parts no caller overwrites at once.
clear_fade == fade_start' = NoFade /\ fade_step' = 1

clear_track_vars ==
    /\ out_time' = 0 /\ emu_time' = 0
    /\ silence_time' = 0
    /\ silence_count' = 0 /\ buf_remain' = 0
    /\ warning' = FALSE
    /\ quiet' = 0 /\ blind' = FALSE

Init ==
    /\ current_track = -1
    /\ out_time = 0 /\ emu_time = 0
    /\ emu_track_ended = TRUE /\ track_ended = TRUE
    /\ fade_start = NoFade /\ fade_step = 1
    /\ silence_time = 0 /\ silence_count = 0
    /\ buf_remain = 0 /\ buf = Silence(BufSize)
    /\ ignore_silence = FALSE
    /\ mute_mask = {} /\ saved_mute = {} /\ wanted_mask = {}
    /\ mute_lost = FALSE
    /\ warning = FALSE
    /\ pc = "idle" /\ count = 0 /\ seek_to = -1 /\ out = <<>>
    /\ quiet = 0 /\ blind = FALSE

\* unload(), before another file is loaded.
Unload ==
    /\ pc = "idle"
    /\ clear_track_vars /\ clear_fade
    /\ current_track' = -1
    /\ emu_track_ended' = TRUE /\ track_ended' = TRUE
    /\ UNCHANGED <<buf, ignore_silence, muteVars, callVars>>

\* start_track( track ) up to its loop, for a client that then wants to be
\* at time `target' (or -1).  remap_track_ refuses a track of no file; the
\* emulator's start_track_ may fail, which leaves the track set and both
\* ended flags up; Spc_Emu's sets the fade of a file with a length.
start_track(track, target) ==
    /\ clear_track_vars
    /\ \/ /\ track \notin 0..TrackCount-1
          /\ current_track' = -1
          /\ emu_track_ended' = TRUE /\ track_ended' = TRUE
          /\ clear_fade
          /\ UNCHANGED <<pc, seek_to>>
       \/ /\ track \in 0..TrackCount-1
          /\ "error" \in Outcomes
          /\ current_track' = track
          /\ emu_track_ended' = TRUE /\ track_ended' = TRUE
          /\ clear_fade
          /\ UNCHANGED <<pc, seek_to>>
       \/ /\ track \in 0..TrackCount-1
          /\ current_track' = track
          /\ emu_track_ended' = FALSE /\ track_ended' = FALSE
          /\ \/ clear_fade
             \/ \E fade \in TrackFades :
                  fade_start' = fade[1] /\ fade_step' = fade[2]
          /\ pc' = "starting"
          /\ seek_to' = target
    /\ UNCHANGED <<buf, ignore_silence, muteVars, count, out>>

StartTrack(track) == pc = "idle" /\ start_track(track, -1)

\* The loop of start_track(): play until sound or the end of the track.
MustTrim == /\ ~ignore_silence
            /\ emu_time < InitialSilence
            /\ buf_remain = 0 /\ ~emu_track_ended

TrimSilence ==
    /\ pc = "starting"
    /\ MustTrim
    /\ fill_buf
    /\ UNCHANGED <<current_track, out_time, track_ended, fadeVars,
                   ignore_silence, muteVars, callVars>>

Started ==
    /\ pc = "starting"
    /\ ~MustTrim
    /\ \/ /\ ~ignore_silence
          /\ emu_time' = buf_remain
          /\ out_time' = 0
          /\ silence_time' = 0
          /\ silence_count' = 0
       \/ /\ ignore_silence
          /\ UNCHANGED <<clockVars, silence_time, silence_count>>
    /\ pc' = IF seek_to >= 0 THEN "seeking" ELSE "idle"
    /\ UNCHANGED <<current_track, endVars, fadeVars, buf_remain, buf,
                   ignore_silence, muteVars, warning, count, seek_to, out,
                   heardVars>>

-----------------------------------------------------------------------------
(***************************************************************************)
(* Playing.                                                                *)
(***************************************************************************)

\* play() of a track that has ended.
PlayEnded(n) ==
    /\ pc = "idle"
    /\ track_ended
    /\ out_time + n <= MaxTime
    /\ out' = Silence(n)
    /\ out_time' = out_time + n
    /\ UNCHANGED <<current_track, emu_time, endVars, fadeVars, silence_time,
                   queueVars, ignore_silence, muteVars, warning, pc, count,
                   seek_to, heardVars>>

Play(n) ==
    /\ pc = "idle"
    /\ ~track_ended
    /\ out_time + n <= MaxTime
    /\ pc' = "ahead" /\ count' = n /\ out' = <<>>
    /\ UNCHANGED <<current_track, clockVars, endVars, fadeVars, silence_time,
                   queueVars, ignore_silence, muteVars, warning, seek_to,
                   heardVars>>

\* During a run of silence the emulator gets ahead of the client.
ahead_time_faulty == out_time + count   \* mutant: at normal speed
ahead_time == Lookahead * (out_time + count - silence_time) + silence_time

\* mutant: the look-ahead of the previous call will do
MustGetAhead_faulty == /\ silence_count = BufSize
                       /\ emu_time < out_time + count
                       /\ buf_remain = 0 /\ ~emu_track_ended
\* mutant: past the end of the track too
MustGetAhead_endless == /\ silence_count > 0
                        /\ emu_time < ahead_time
                        /\ buf_remain = 0
MustGetAhead == /\ silence_count > 0
                /\ emu_time < ahead_time
                /\ buf_remain = 0 /\ ~emu_track_ended

PlayAhead ==
    /\ pc = "ahead"
    /\ MustGetAhead
    /\ fill_buf
    /\ UNCHANGED <<current_track, out_time, track_ended, fadeVars,
                   ignore_silence, muteVars, callVars>>

\* mutants: the time since the start; a limit for one channel
SilenceEnds_late  == silence_count > 0 /\ ~ignore_silence
                     /\ emu_time > SilenceMax
SilenceEnds_short == silence_count > 0 /\ ~ignore_silence
                     /\ emu_time - silence_time > SilenceMax \div 2

\* The silence found is long enough to be the end of the track.
SilenceEnds == /\ silence_count > 0
               /\ ~ignore_silence
               /\ emu_time - silence_time > SilenceMax

\* The first n of the last avail samples of buf.
FromBuf_faulty(avail, n) == SubSeq(buf, 1, n)   \* mutant: from its begin
FromBuf(avail, n) == SubSeq(buf, BufSize - avail + 1, BufSize - avail + n)

\* Deliver the queue: its silence, the decision whether the track ends
\* here, and then the block behind the silence.
PlayQueue ==
    /\ pc = "ahead"
    /\ ~MustGetAhead
    /\ LET pos   == Lesser(silence_count, count)
           avail == IF SilenceEnds THEN 0 ELSE buf_remain
           n     == Lesser(avail, count - pos)
       IN  /\ out' = Silence(pos) \o FromBuf(avail, n)
           /\ silence_count' = IF SilenceEnds THEN 0 ELSE silence_count - pos
           /\ buf_remain' = avail - n
           /\ count' = count - pos - n
           /\ pc' = IF pos + n = count THEN "fading" ELSE "generating"
    /\ track_ended' = (track_ended \/ SilenceEnds)
    /\ emu_track_ended' = (emu_track_ended \/ SilenceEnds)
    /\ UNCHANGED <<current_track, clockVars, fadeVars, silence_time, buf,
                   ignore_silence, muteVars, warning, seek_to, heardVars>>

\* The end of the generated samples is checked for a new run of silence.
Detecting == ~ignore_silence /\ out_time > fade_start

EndReported_faulty == track_ended   \* mutant: only skip() reports the end
EndReported == track_ended \/ emu_track_ended'

PlayGenerate ==
    /\ pc = "generating"
    /\ \E blk \in Blocks(count), outcome \in Outcomes \cup {"ok"} :
         /\ emu_play(blk, outcome)
         /\ out' = out \o blk
         /\ \/ /\ Detecting /\ HasSound(blk)
               /\ silence_time' = emu_time' - count_silence(blk)
               /\ blind' = FALSE
            \/ /\ Detecting => ~HasSound(blk)
               /\ blind' = (blind \/ HasSound(blk))
               /\ UNCHANGED silence_time
    /\ track_ended' = EndReported
    /\ count' = 0
    /\ pc' = IF Detecting /\ emu_time' - silence_time' >= BufSize
             THEN "refilling" ELSE "fading"
    /\ UNCHANGED <<current_track, out_time, fadeVars, queueVars,
                   ignore_silence, muteVars, seek_to>>

\* Cause silence detection on the next play().
PlayRefill ==
    /\ pc = "refilling"
    /\ fill_buf
    /\ pc' = "fading"
    /\ UNCHANGED <<current_track, out_time, track_ended, fadeVars,
                   ignore_silence, muteVars, count, seek_to, out>>

-----------------------------------------------------------------------------
(***************************************************************************)
(* Fading.                                                                 *)
(***************************************************************************)

\* int_log(): unit / 2^(x / step), by a shift.  The results the build can
\* give: a shift by the width of int or more wraps on most processors and
\* gives zero on others.
int_log_faulty(x, step, unit) ==   \* mutant: the shift is clamped
    {unit \div Pow2[Lesser(x \div step, FadeShift)]}
int_log(x, step, unit) ==
    LET shift    == x \div step
        fraction == ((x % step) * unit) \div step
        mantissa == (unit - fraction) + fraction \div 2
    IN  IF shift < ShiftWidth
        THEN {mantissa \div Pow2[shift]}
        ELSE {0, mantissa \div Pow2[shift % ShiftWidth]}

\* handle_fade() looks at the gain once per block of the output.  These are
\* its possible answers to: did the fade reach its end?
handle_fade(n) ==
    LET blocks   == {i \in 0..n-1 : i % FadeBlock = 0}
        gains(i) == int_log((out_time + i - fade_start) \div FadeBlock,
                            fade_step, FadeUnit)
        faded(g) == g < FadeUnit \div Pow2[FadeShift]
    IN  {ends \in BOOLEAN :
           IF ends THEN \E i \in blocks : \E g \in gains(i) : faded(g)
                   ELSE \A i \in blocks : \E g \in gains(i) : ~faded(g)}

Fading == fade_start >= 0 /\ out_time > fade_start

\* The rest of play(): fade what was written, advance the client's clock.
PlayFade ==
    /\ pc = "fading"
    /\ \E ends \in IF Fading THEN handle_fade(Len(out)) ELSE {FALSE} :
         /\ track_ended' = (track_ended \/ ends)
         /\ emu_track_ended' = (emu_track_ended \/ ends)
    /\ out_time' = out_time + Len(out)
    /\ pc' = "idle"
    /\ UNCHANGED <<current_track, emu_time, fadeVars, silence_time,
                   queueVars, ignore_silence, muteVars, warning, count,
                   seek_to, out, heardVars>>

SetFade(fade) ==
    /\ pc = "idle"
    /\ out_time <= LastFade
    /\ fade_start' = fade[1] /\ fade_step' = fade[2]
    /\ UNCHANGED <<current_track, clockVars, endVars, silence_time,
                   queueVars, ignore_silence, muteVars, warning, callVars,
                   heardVars>>

-----------------------------------------------------------------------------
(***************************************************************************)
(* Skipping and seeking.                                                   *)
(***************************************************************************)

\* What skip( n ) takes from the silence and then from buf.
SkipSilence(n) == Lesser(n, silence_count)
SkipBuf_faulty(n) == 0   \* mutant: the block is not skipped
SkipBuf(n) == Lesser(n - SkipSilence(n), buf_remain)

\* skip( n ) up to its call of skip_(), and all of it if the queue has
\* enough or the emulator has ended.  A long skip_() begins by muting.
skip(n) ==
    LET left == n - SkipSilence(n) - SkipBuf(n)
    IN  /\ out_time' = out_time + n
        /\ silence_count' = silence_count - SkipSilence(n)
        /\ buf_remain' = buf_remain - SkipBuf(n)
        /\ \/ /\ left > 0 /\ ~emu_track_ended
              /\ emu_time' = emu_time + left
              /\ count' = left
              /\ saved_mute' = mute_mask
              /\ \/ /\ left > SkipThreshold
                    /\ mute_mask' = Voices
                    /\ pc' = "muted"
                 \/ /\ left <= SkipThreshold
                    /\ pc' = "skipping"
                    /\ UNCHANGED mute_mask
              /\ UNCHANGED track_ended
           \/ /\ left = 0 \/ emu_track_ended
              /\ track_ended' = (track_ended \/
                                 (emu_track_ended /\ silence_count' = 0
                                                  /\ buf_remain' = 0))
              /\ pc' = "idle"
              /\ UNCHANGED <<emu_time, count, mute_mask, saved_mute>>
        /\ UNCHANGED <<current_track, emu_track_ended, fadeVars, silence_time,
                       buf, ignore_silence, wanted_mask, mute_lost, warning,
                       out, heardVars>>

Skip(n) ==
    /\ pc = "idle"
    /\ current_track >= 0
    /\ out_time + n <= MaxTime
    /\ skip(n)
    /\ UNCHANGED seek_to

\* One play_() of skip_(), of n samples into buf that nobody hears.  Asked
\* for nothing, an emulator does nothing.
SkipBlock(n, outcome) ==
    /\ n = 0 => outcome = "ok"
    /\ CanReturn(outcome, emu_time - count + n)
    /\ end_track_if_error(outcome)
    /\ \E sound \in BOOLEAN :
         /\ quiet' = IF sound THEN 0 ELSE Lesser(quiet + n, QuietMax)
         /\ blind' = (blind \/ sound)

MustSkipMuted == count > SkipThreshold \div 2 /\ ~emu_track_ended

\* The muted loop of skip_(); an error returns from skip_() at once.
SkipMuted ==
    /\ pc = "muted"
    /\ MustSkipMuted
    /\ \E outcome \in Outcomes :
         /\ SkipBlock(BufSize, outcome)
         /\ \/ /\ outcome = "error"
               /\ pc' = "skipping"
               /\ mute_lost' = TRUE
               /\ UNCHANGED count
            \/ /\ outcome # "error"
               /\ count' = count - BufSize
               /\ UNCHANGED <<pc, mute_lost>>
    /\ UNCHANGED <<current_track, clockVars, track_ended, fadeVars,
                   silence_time, queueVars, ignore_silence, mute_mask,
                   saved_mute, wanted_mask, seek_to, out>>

SkipUnmute_faulty ==   \* mutant: the mask is not restored
    /\ pc = "muted" /\ ~MustSkipMuted
    /\ pc' = "skipping"
    /\ UNCHANGED <<current_track, clockVars, endVars, fadeVars, silence_time,
                   queueVars, ignore_silence, muteVars, warning, count,
                   seek_to, out, heardVars>>
SkipUnmute ==
    /\ pc = "muted"
    /\ ~MustSkipMuted
    /\ mute_mask' = saved_mute
    /\ pc' = "skipping"
    /\ UNCHANGED <<current_track, clockVars, endVars, fadeVars, silence_time,
                   queueVars, ignore_silence, saved_mute, wanted_mask,
                   mute_lost, warning, count, seek_to, out, heardVars>>

\* The last loop of skip_(), and the block that it takes at a time.
MustSkip == count > 0 /\ ~emu_track_ended

SkipSize_faulty == BufSize * (count \div BufSize)   \* mutant: whole blocks
SkipSize == Lesser(BufSize, count)

SkipRest ==
    /\ pc = "skipping"
    /\ MustSkip
    /\ \E outcome \in Outcomes : SkipBlock(SkipSize, outcome)
    /\ count' = count - SkipSize
    /\ UNCHANGED <<current_track, clockVars, track_ended, fadeVars,
                   silence_time, queueVars, ignore_silence, muteVars, pc,
                   seek_to, out>>

\* The end of skip(): caught up with the emulator.
Skipped ==
    /\ pc = "skipping"
    /\ ~MustSkip
    /\ track_ended' = (track_ended \/
                       (emu_track_ended /\ silence_count = 0
                                        /\ buf_remain = 0))
    /\ count' = 0
    /\ pc' = "idle"
    /\ UNCHANGED <<current_track, clockVars, emu_track_ended, fadeVars,
                   silence_time, queueVars, ignore_silence, muteVars, warning,
                   seek_to, out, heardVars>>

\* seek_samples(): forward is a skip, backward restarts the track first.
Seek(time) ==
    /\ pc = "idle"
    /\ current_track >= 0
    /\ time <= MaxTime
    /\ \/ /\ time < out_time
          /\ start_track(current_track, time)
       \/ /\ time >= out_time
          /\ skip(time - out_time)
          /\ UNCHANGED seek_to

SeekOn ==
    /\ pc = "seeking"
    /\ skip(seek_to - out_time)
    /\ seek_to' = -1

-----------------------------------------------------------------------------
(***************************************************************************)
(* Settings of the client.                                                 *)
(***************************************************************************)
MuteVoices(mask) ==
    /\ pc = "idle"
    /\ mute_mask' = mask /\ wanted_mask' = mask /\ mute_lost' = FALSE
    /\ UNCHANGED <<current_track, clockVars, endVars, fadeVars, silence_time,
                   queueVars, ignore_silence, saved_mute, warning, callVars,
                   heardVars>>

IgnoreSilence(disable) ==
    /\ pc = "idle"
    /\ ignore_silence' = disable
    /\ UNCHANGED <<current_track, clockVars, endVars, fadeVars, silence_time,
                   queueVars, muteVars, warning, callVars, heardVars>>

-----------------------------------------------------------------------------
\* The steps of the call that is running.
CallStep ==
    \/ TrimSilence \/ Started \/ SeekOn
    \/ PlayAhead \/ PlayQueue \/ PlayGenerate \/ PlayRefill \/ PlayFade
    \/ SkipMuted \/ SkipUnmute \/ SkipRest \/ Skipped

PlayCall == \E n \in PlayCounts : Play(n) \/ PlayEnded(n)

Next ==
    \/ CallStep
    \/ PlayCall
    \/ \E track \in 0..TrackCount : StartTrack(track)
    \/ \E n \in SkipCounts : Skip(n)
    \/ \E time \in SeekTimes : Seek(time)
    \/ \E fade \in Fades : SetFade(fade)
    \/ \E mask \in {{}, Voices} : MuteVoices(mask)
    \/ \E disable \in BOOLEAN : IgnoreSilence(disable)
    \/ Unload

Spec == Init /\ [][Next]_vars

\* A call that is running returns, and the client keeps calling play().
PlayingSpec == Spec /\ WF_vars(CallStep) /\ WF_vars(PlayCall)
-----------------------------------------------------------------------------
(***************************************************************************)
(* Properties.                                                             *)
(***************************************************************************)

\* Every variable has its type: counts of samples never become negative,
\* and buf never holds more than a block.
NumbersOK ==
    /\ current_track \in -1..TrackCount-1
    /\ out_time \in Nat /\ emu_time \in Nat
    /\ fade_start \in Int /\ fade_step \in Nat \ {0}
    /\ silence_time \in Nat /\ silence_count \in Nat
    /\ buf_remain \in 0..BufSize
    /\ count \in Nat /\ seek_to \in SeekTimes \cup {-1}
    /\ quiet \in 0..QuietMax

FlagsOK ==
    /\ emu_track_ended \in BOOLEAN /\ track_ended \in BOOLEAN
    /\ ignore_silence \in BOOLEAN /\ warning \in BOOLEAN
    /\ blind \in BOOLEAN /\ mute_lost \in BOOLEAN

DataOK ==
    /\ buf \in Blocks(BufSize) /\ out \in Seq(BOOLEAN)
    /\ mute_mask \in {{}, Voices} /\ saved_mute \in {{}, Voices}
    /\ wanted_mask \in {{}, Voices}
    /\ pc \in Phases

TypeOK == NumbersOK /\ FlagsOK /\ DataOK

\* What play() has produced and out_time does not count yet.
Delivered == IF pc \in {"generating", "refilling", "fading"}
             THEN Len(out) ELSE 0

\* Until the client is told of the end of the track, the emulator is ahead
\* of the client by exactly the samples in the queue, in every phase of
\* every call.  play() asserts a part of it: emu_time >= out_time.
InStep == ~track_ended =>
            emu_time = out_time + Delivered + silence_count + buf_remain

\* What else is true between any two steps: which phases have drained the
\* queue (fill_buf() asserts it) or belong to a track that goes on, that a
\* queued block is recent, and that queued silence was generated as such.
PhaseInv ==
    /\ pc \in {"generating", "refilling", "muted", "skipping"} =>
         silence_count = 0 /\ buf_remain = 0
    /\ pc \in {"starting", "ahead", "muted", "skipping"} => ~track_ended
    /\ pc \in {"starting", "seeking"} => out_time = 0
    /\ pc = "seeking" => seek_to >= 0
    /\ track_ended => emu_track_ended
    /\ pc = "refilling" /\ emu_track_ended => track_ended
    /\ pc \in {"ahead", "generating"} => count > 0

BlockIsRecent == buf_remain > 0 => emu_time - silence_time <= BufSize

SilenceIsQuiet == buf_remain = 0 /\ ~track_ended =>
                    quiet >= Lesser(silence_count, QuietMax)

\* play() hands at least one sample to handle_fade(), which looks at the
\* gain at the first of them.
SomethingPlayed ==
    pc \in {"refilling", "fading"} => Len(out) > 0

\* Samples that emu_time counts and skip_() has not generated yet.
Unskipped == IF pc \in {"muted", "skipping"} THEN count ELSE 0

\* Since silence_time the emulator has generated silence, less the block
\* whose end silence_time is in, unless a sound passed that nobody looked for.
SilenceIsHeard ==
    ~track_ended /\ ~blind =>
      quiet + Unskipped >= Lesser(emu_time - silence_time - BufSize, QuietMax)

\* The inductive invariant behind the safety properties.
EngineInv == TypeOK /\ InStep /\ PhaseInv /\ BlockIsRecent /\ SilenceIsQuiet

\* The end of track by silence empties the queue: it never throws away a
\* block that has sound in it, whatever was skipped, ignored or seeked
\* before, although silence_time may be stale.
SilenceEndKeepsSound ==
    pc = "ahead" /\ ~MustGetAhead /\ SilenceEnds => buf_remain = 0

\* As long as no sound passed unseen, silence ends a track only after a
\* silence of silence_max seconds, less one block of look-ahead.
LongSilenceEnds ==
    [][PlayQueue /\ SilenceEnds /\ ~blind => quiet >= SilenceMax - BufSize]_vars

\* However stale silence_time is, after a skip, a time with detection off
\* or before the fade, the look-ahead has heard most of silence_max seconds
\* of silence before it ends a track the emulator has not ended.
NoEarlyEnd ==
    [][PlayQueue /\ SilenceEnds /\ ~emu_track_ended
         => Lookahead * quiet > (Lookahead - 1) * SilenceMax]_vars

\* The look-ahead pays: when silence is delivered and the track goes on,
\* less than 1 / Lookahead of SilenceMax of silence has been heard, or the
\* emulator found sound or its end in the look-ahead.
PromptEnd ==
    [][PlayQueue /\ silence_count > 0 /\ ~ignore_silence /\ ~track_ended'
         => \/ buf_remain > 0
            \/ emu_track_ended
            \/ Lookahead * (out_time + count - silence_time) <= SilenceMax]_vars

\* gme.txt:181: "By default it also continually checks for 6 or more
\* seconds of silence to mark the end of a track": with default settings no
\* track goes on when it has been silent for twice as long.
SilenceIsNoticed ==
    pc = "idle" /\ ~track_ended /\ ~ignore_silence => quiet < QuietMax

\* Between calls the voices the client muted are muted, and no others: a
\* long skip mutes all of them only while it runs.  If the emulator fails in
\* its muted loop they stay muted, through any more skips and tracks, until
\* the client mutes again; no other error does that.
Restores(mask) == mask = wanted_mask \/ (mute_lost /\ mask = Voices)

MuteKept == pc = "idle" => Restores(mute_mask)

\* Not so: that a skip that fails gives the client's mask back as well.
MuteAlwaysKept == pc = "idle" => mute_mask = wanted_mask

\* gme.h:56: "Once fade ends track_ended() returns true": a play() that
\* begins where the gain has fallen below 1 / 2^FadeShift ends the track, as
\* long as int_log() shifts by less than the width of int.
FadeEnds ==
    [][PlayFade /\ Fading
          /\ out_time - fade_start >= FadeBlock * fade_step * (FadeShift + 1)
          /\ out_time - fade_start < FadeBlock * fade_step * ShiftWidth
         => track_ended']_vars

\* What lies ahead of a call: phases it may still pass through, and samples
\* that the loop of its phase has to go.
PhasesLeft ==
    [idle |-> 0, fading |-> 1, refilling |-> 2, generating |-> 3, ahead |-> 4,
     skipping |-> 1, muted |-> 2, seeking |-> 3, starting |-> 4]

LoopLeft ==
    CASE pc = "starting" /\ MustTrim   -> InitialSilence - emu_time
      [] pc = "ahead" /\ MustGetAhead  -> ahead_time - emu_time
      [] pc \in {"muted", "skipping"} -> count
      [] OTHER                         -> 0

\* Every call returns, if its thread goes on: each step of it enters a later
\* phase, or shortens the loop of its phase, whatever the emulator and the
\* times are; and a loop cannot be shortened for ever.
CallsProgress ==
    [][CallStep => \/ PhasesLeft[pc'] < PhasesLeft[pc]
                   \/ pc' = pc /\ 0 <= LoopLeft' /\ LoopLeft' < LoopLeft]_vars

\* Why the end is reported: when the emulator has reached the end of the
\* track, nothing makes the queue longer, and each play() makes it shorter
\* or, if it has run out, tells the client.
QueueLeft == silence_count + buf_remain

EndComesNearer ==
    [][emu_track_ended /\ emu_track_ended' /\ ~track_ended'
         => /\ QueueLeft' <= QueueLeft
            /\ PlayQueue => QueueLeft' < QueueLeft \/ pc' = "generating"
            /\ ~PlayGenerate]_vars

\* When the emulator has reached the end of the track, a client that keeps
\* playing is told so, unless it restarts the track.
EndIsReported == emu_track_ended ~> (track_ended \/ ~emu_track_ended)

-----------------------------------------------------------------------------
(***************************************************************************)
(* The abstract queue that the engine implements.                          *)
(***************************************************************************)

\* The queue that play() delivers: silence, then the rest of buf.  Nothing
\* of it will be heard once the track has ended.
Queued == IF track_ended THEN <<>>
          ELSE Silence(silence_count) \o
               SubSeq(buf, BufSize - buf_remain + 1, BufSize)

Queue == INSTANCE PlaybackQueue WITH
            queue <- Queued,
            dry   <- emu_track_ended,
            ended <- track_ended,
            faded <- Fading

\* Every step of the engine is a step of the abstract queue or leaves it
\* alone: no queued sound is lost, repeated or reordered.
ImplementsQueue == Queue!Spec
=============================================================================
