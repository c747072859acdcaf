---------------------------- MODULE BufferedEmu ----------------------------
(***************************************************************************)
(* Classic_Emu::play_() and the buffers between an emulator and the        *)
(* engine.  The chips add impulses to a group of Blip_Buffers, which turn  *)
(* clocks into samples: a buffer's offset_ is the time up to which it is   *)
(* complete, in 1 / Unit samples.  To mix only what sounds, a multi-buffer *)
(* (Stereo_Buffer, or the Effects_Buffer that gme_new_emu() sets) removes  *)
(* the samples of buffers it takes for silent without looking at them.     *)
(*                                                                         *)
(* Of a buffer's content only the places that are not zero are kept; the   *)
(* level that the reader integrates (reader_accum_) is left out.           *)
(***************************************************************************)
EXTENDS Integers, FiniteSetsExt

CONSTANTS
    Kinds,       \* which of "stereo", "effects"
    Unit,        \* 1 << BLIP_BUFFER_ACCURACY
    Factor,      \* factor_: 1 / Unit samples in a clock
    Clocks,      \* clocks of a full frame, msec * clock_rate_ / 1000
    Overshoot,   \* run_clocks() may run so much longer
    BufferSize,  \* buffer_size_, in samples
    Width,       \* samples an impulse covers
    Latency,     \* output_latency(), half of the widest impulse
    Counts,      \* sample pairs the engine asks for
    Places,      \* sets of buffers the chips write to in a frame
    Emulators    \* "fixed": any but AY; "unknown": AY until a song shows
                 \* which machine it is for

ASSUME BufferAssumption ==
    /\ Kinds \subseteq {"stereo", "effects"}
    /\ Unit \in Nat \ {0} /\ Factor \in Nat \ {0}
    /\ Clocks \in Nat /\ Overshoot \in Nat
    /\ Width \in Nat \ {0} /\ Latency \in Nat
    /\ Counts \subseteq Nat \ {0}
    /\ Places \subseteq SUBSET (0..6)
    /\ Emulators \subseteq {"fixed", "unknown"}
    \* set_sample_rate() gives a buffer room for a millisecond more than a
    \* frame, which is much longer than an impulse.
    /\ BufferSize \in Nat
    /\ (Clocks + 2 * Overshoot) * Factor < BufferSize * Unit
    /\ (Clocks \div 2) * Factor >= (Width + 1) * Unit

VARIABLES
    kind,
    pc,            \* play_(): "idle", "read" or "mix" (read_samples()), "frame"
    remain,        \* sample pairs the engine still wants
    mode, factor,
    offset, dirty, \* of each buffer: offset_, and the samples not zero
    stereo_added, was_stereo,                        \* Stereo_Buffer
    stereo_remain, effect_remain, effects_enabled,   \* Effects_Buffer
    config,        \* its config_.effects_enabled
    batch,         \* what its read_samples() still has to mix
    \* History, read by properties only:
    lost           \* places that were not zero in a buffer taken for silent

mixVars == <<stereo_added, was_stereo, stereo_remain, effect_remain,
             effects_enabled>>
vars == <<kind, pc, remain, mode, factor, offset, dirty, mixVars, config,
          batch, lost>>

Bufs == IF kind = "stereo" THEN 0..2 ELSE 0..6

\* A buffer that holds more than its size has nothing to read.
samples_avail(off) == IF off \div Unit <= BufferSize THEN off \div Unit ELSE 0
Avail == samples_avail(offset[0])

Init ==
    /\ kind \in Kinds
    /\ pc = "idle" /\ remain = 0
    /\ mode \in Emulators /\ factor = Factor
    /\ offset = [i \in Bufs |-> 0] /\ dirty = [i \in Bufs |-> {}]
    /\ stereo_added = {} /\ was_stereo = {}
    /\ stereo_remain = 0 /\ effect_remain = 0 /\ effects_enabled = FALSE
    /\ config \in IF kind = "effects" THEN BOOLEAN ELSE {FALSE}
    /\ batch = 0
    /\ lost = {}

\* start_track_(): clear() of all buffers; AY starts at spectrum_clock.
Clear ==
    /\ pc \in {"idle", "failed"}
    /\ pc' = "idle" /\ remain' = 0
    /\ mode' = IF mode = "fixed" THEN "fixed" ELSE "unknown"
    /\ factor' = Factor
    /\ offset' = [i \in Bufs |-> 0] /\ dirty' = [i \in Bufs |-> {}]
    /\ stereo_added' = {} /\ was_stereo' = {}
    /\ stereo_remain' = 0 /\ effect_remain' = 0
    /\ lost' = {}
    /\ UNCHANGED <<kind, effects_enabled, config, batch>>

\* Effects_Buffer::set_depth(), by the client.
SetDepth ==
    /\ pc = "idle" /\ kind = "effects"
    /\ config' \in BOOLEAN
    /\ UNCHANGED <<kind, pc, remain, mode, factor, offset, dirty, mixVars,
                   batch, lost>>

\* play_( count )
Play(count) ==
    /\ pc = "idle"
    /\ pc' = "read" /\ remain' = count
    /\ UNCHANGED <<kind, mode, factor, offset, dirty, mixVars, config, batch,
                   lost>>

-----------------------------------------------------------------------------
(***************************************************************************)
(* Reading                                                                 *)
(***************************************************************************)

\* mutant: buffers that are not mixed fall behind
Removed_faulty(n, silent) ==
    [i \in Bufs |-> IF i \in silent THEN offset[i] ELSE offset[i] - n * Unit]
Removed(n, silent) == [i \in Bufs |-> offset[i] - n * Unit]

\* remove_samples() moves what is left to the front, remove_silence() does
\* not.
Remove(n, silent) ==
    /\ offset' = Removed(n, silent)
    /\ dirty' = [i \in Bufs |->
                   IF i \in silent THEN dirty[i]
                   ELSE {p - n : p \in {q \in dirty[i] : q >= n}}]
    /\ lost' = lost \cup UNION {dirty[i] : i \in silent}

\* mutant: what was read is not counted
Delivered_faulty(n) == UNCHANGED remain /\ pc' = "frame" /\ n \in Nat
\* play_() goes on to the next frame if the engine wants more.
Delivered(n) ==
    /\ remain' = remain - n
    /\ pc' = IF remain = n THEN "idle" ELSE "frame"

BufsUsed == stereo_added \cup was_stereo

\* Stereo_Buffer::read_samples()
ReadStereo ==
    /\ pc = "read" /\ kind = "stereo"
    /\ LET n == Min({remain, Avail})
           silent == IF BufsUsed \subseteq {0} THEN {1, 2}
                     ELSE IF 0 \in BufsUsed THEN {} ELSE {0}
       IN  /\ Remove(n, IF n = 0 THEN {} ELSE silent)
           /\ Delivered(n)
           /\ IF n > 0 /\ n = Avail
              THEN was_stereo' = stereo_added /\ stereo_added' = {}
              ELSE UNCHANGED <<was_stereo, stereo_added>>
    /\ UNCHANGED <<kind, mode, factor, stereo_remain, effect_remain,
                   effects_enabled, config, batch>>

\* Effects_Buffer::read_samples() up to its loop, and one turn of it.
ReadEffects ==
    /\ pc = "read" /\ kind = "effects"
    /\ batch' = Min({remain, Avail})
    /\ pc' = "mix"
    /\ UNCHANGED <<kind, remain, mode, factor, offset, dirty, mixVars, config,
                   lost>>

MixEffects ==
    /\ pc = "mix"
    /\ IF batch = 0
       THEN /\ pc' = IF remain = 0 THEN "idle" ELSE "frame"
            /\ UNCHANGED <<remain, offset, dirty, lost, stereo_remain,
                           effect_remain, batch>>
       ELSE LET n == IF effect_remain > 0 THEN Min({batch, effect_remain})
                     ELSE batch
                active == IF effect_remain > 0 /\ stereo_remain > 0 THEN 7
                          ELSE IF effect_remain > 0 \/ stereo_remain > 0 THEN 3
                          ELSE 1
            IN  /\ Remove(n, active..6)
                /\ batch' = batch - n
                /\ remain' = remain - n
                /\ stereo_remain' = Max({0, stereo_remain - n})
                /\ effect_remain' = Max({0, effect_remain - n})
                /\ UNCHANGED pc
    /\ UNCHANGED <<kind, mode, factor, stereo_added, was_stereo,
                   effects_enabled, config>>

-----------------------------------------------------------------------------
(***************************************************************************)
(* Frames                                                                  *)
(***************************************************************************)

\* The clocks of a frame; CPC has half the clock rate.
Requested == IF mode = "fixed" THEN Clocks ELSE Clocks \div 2

\* Blip_Synth::offset(): an impulse at time t covers Width samples.
Impulse(i, t, f) ==
    LET p == (offset[i] + t * f) \div Unit IN p..p + Width - 1

\* The buffers that remute_voices() has connected the chips to.
Connected == IF kind = "effects" /\ ~config THEN 0..2 ELSE Bufs

\* The chips write to some buffers, at the beginning or the end of the frame,
\* and set_modified() them.
Written(modified, t, f) ==
    [i \in Bufs |-> IF i \in modified THEN dirty[i] \cup Impulse(i, t, f)
                    ELSE dirty[i]]

\* end_frame() of both multi-buffers.
StereoFrame(modified) ==
    /\ stereo_added' = modified
    /\ UNCHANGED <<was_stereo, stereo_remain, effect_remain, effects_enabled>>

EffectsFrame(modified, avail) ==
    LET stereo == IF config THEN 3..6 ELSE 1..2 IN
    /\ stereo_remain' = IF modified \cap stereo = {} THEN stereo_remain
                        ELSE Max({stereo_remain, avail + Latency})
    /\ effect_remain' = IF effects_enabled \/ config
                        THEN Max({effect_remain, avail + Latency})
                        ELSE effect_remain
    /\ effects_enabled' = config
    /\ UNCHANGED <<stereo_added, was_stereo>>

\* run_clocks() and end_frame().  The AY's song may show itself to be for the
\* CPC in the middle, which changes the rate of all buffers.
Frame ==
    /\ pc = "frame"
    /\ \E over \in 0..Overshoot,
          cpc \in IF mode = "unknown" THEN BOOLEAN ELSE {FALSE},
          modified \in {m \in Places : m \subseteq Connected} :
         LET duration == Requested + over
             f == IF cpc THEN 2 * Factor ELSE factor
         IN  /\ factor' = f
             /\ mode' = IF cpc THEN "cpc" ELSE mode
             /\ \E t \in {0, duration} : dirty' = Written(modified, t, f)
             /\ offset' = [i \in Bufs |-> offset[i] + duration * f]
             /\ IF kind = "stereo" THEN StereoFrame(modified)
                ELSE EffectsFrame(modified, samples_avail(offset'[0]))
    /\ pc' = "read"
    /\ UNCHANGED <<kind, remain, config, batch, lost>>

\* run_clocks() fails: play_() returns at once and the track ends, until
\* start_track_() clears the buffers.
FrameFails ==
    /\ pc = "frame"
    /\ pc' = "failed"
    /\ UNCHANGED <<kind, remain, mode, factor, offset, dirty, mixVars, config,
                   batch, lost>>

-----------------------------------------------------------------------------
Step == ReadStereo \/ ReadEffects \/ MixEffects \/ Frame \/ FrameFails

Next ==
    \/ Clear
    \/ SetDepth
    \/ \E count \in Counts : Play(count)
    \/ Step

Spec == Init /\ [][Next]_vars

-----------------------------------------------------------------------------
(***************************************************************************)
(* Properties                                                              *)
(***************************************************************************)
TypeOK ==
    /\ kind \in Kinds
    /\ pc \in {"idle", "read", "mix", "frame", "failed"}
    /\ remain \in Nat /\ batch \in Nat
    /\ mode \in {"fixed", "unknown", "cpc"} /\ factor \in Nat
    /\ offset \in [Bufs -> Nat] /\ dirty \in [Bufs -> SUBSET Nat]
    /\ stereo_added \subseteq Bufs /\ was_stereo \subseteq Bufs
    /\ stereo_remain \in Nat /\ effect_remain \in Nat
    /\ effects_enabled \in BOOLEAN /\ config \in BOOLEAN
    /\ lost \subseteq Nat

\* A frame fits into the buffers: samples_avail() never hides samples because
\* there are too many, even when a song halves the clock rate in mid-frame.
Fits == offset[0] < (BufferSize + 1) * Unit

\* The rate of the buffers is that of the machine; a turn of the loop in
\* Effects_Buffer::read_samples() leaves what the others have to mix.  A frame
\* begins only when less than a sample is left.
PlayInv ==
    /\ mode = "cpc" => factor = 2 * Factor
    /\ mode # "cpc" => factor = Factor
    /\ pc \in {"read", "frame"} => remain > 0
    /\ pc = "mix" => kind = "effects" /\ batch = Min({remain, Avail})
    /\ pc = "frame" => offset[0] < Unit

\* Stereo_Buffer: what is not silent is in a buffer that is known to be used.
\* What an earlier frame than the last has left in a buffer will have been
\* read when the last frame has.
StereoTail ==
    kind = "stereo" =>
        /\ Avail = 0 => stereo_added = {}
        /\ \A i \in Bufs : \A p \in dirty[i] :
             /\ i \in BufsUsed
             /\ p < Avail + Width
             /\ i \notin stereo_added /\ Avail > 0 => p < Avail

\* By so much an impulse is longer than Effects_Buffer thinks.
Short == Max({0, Width - Latency})

\* Effects_Buffer: what is not silent will be read before the counters of the
\* buffer's kind have run down, but for the end of the last impulse.
EffectTail ==
    kind = "effects" =>
        \A i \in Bufs : \A p \in dirty[i] :
            /\ i \in 1..2 => p < stereo_remain + Short \/ p < effect_remain + Short
            /\ i \in 3..6 => p < stereo_remain + Short /\ p < effect_remain + Short

\* A buffer that is removed as silence is silent.  Stereo_Buffer remembers
\* for a frame that a buffer was written, because the last impulse may reach
\* into the next frame.  Effects_Buffer remembers Latency samples, which is
\* half of its longest impulse: it may drop the rest of one, and no more.
Dropped == IF kind = "stereo" THEN 0 ELSE Short

NothingDropped == \A p \in lost : p < Dropped

\* All buffers of a group are at the same time, whichever of them were mixed:
\* samples_avail() of the first speaks for all, and no left or right channel
\* drifts against the others.  With what is needed for this, the inductive
\* invariant.
BufferInv ==
    /\ TypeOK
    /\ \A i \in Bufs : offset[i] = offset[0]
    /\ Fits /\ PlayInv /\ StereoTail /\ EffectTail /\ NothingDropped

\* Comment at Effects_Buffer.cpp:310: only channels which had nothing added
\* are skipped.
EffectsKeepTail == lost = {}

\* The turns that the loop of play_() may take before it delivers a sample:
\* a frame is run only when nothing can be read, and when it has been run
\* something can.
TurnsToDeliver ==
    CASE pc = "read"  -> IF Avail = 0 THEN 5 ELSE 2
      [] pc = "mix"   -> IF batch = 0 THEN 4 ELSE 1
      [] pc = "frame" -> 3
      [] OTHER        -> 0

\* play_() returns, if its thread goes on: no turn delivers less than nothing,
\* and each that delivers nothing is nearer to one that does.
PlayProgress ==
    [][Step => \/ remain' < remain
               \/ remain' = remain /\ TurnsToDeliver' < TurnsToDeliver]_vars
=============================================================================
