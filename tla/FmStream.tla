------------------------------- MODULE FmStream -------------------------------
(***************************************************************************)
(* The emulators that play a log of writes to sound chips, one of them an  *)
(* FM chip: VGM with FM, and GYM.  The FM chip runs at its own rate, ahead *)
(* of the client by what is in the resampler (Fir_Resampler), and a log    *)
(* has a clock of its own.  Dual_Resampler plays both in frames of a fixed *)
(* number of pairs and hands out what the client asks for.                 *)
(*                                                                         *)
(* Samples come in pairs (left, right), and are counted in pairs here.     *)
(* Their values are left out: the properties are about which sample goes   *)
(* where, and when.                                                        *)
(***************************************************************************)
EXTENDS Integers, Sequences, FiniteSets, FiniteSetsExt

CONSTANTS
    Systems,     \* "vgm", "gym"
    Ratios,      \* <<p, q>>: ratio() of the resampler, q is its res
    Sizes,       \* sample_buf_size / 2: GYM has one for each tempo
    Tempos,      \* VGM: [fm |-> fm_time_factor, blip |-> blip_time_factor]
    One,         \* 1 << fm_time_bits, and 1 << blip_time_bits
    BlipFactor,  \* factor_ of the Blip_Buffer: samples in BlipOne clocks
    BlipOne,     \* 1 << BLIP_BUFFER_ACCURACY
    Logs,        \* VGM: [cmds |-> <<...>>, loop |-> an index or 0]
    Songs,       \* GYM: [frames |-> n, loop_start |-> the header's field]
    Requests     \* pairs the client asks for

\* A command is <<"psg">>, <<"fm">>, <<"end">> or <<"delay", ticks>>.
Delay(cmd) == IF cmd[1] = "delay" THEN cmd[2] ELSE 0

\* Whether a log ends with its end command, as the format demands.  Nothing in
\* the code insists on it: run_commands() also stops at the end of the data.
Closed(l) == l.cmds[Len(l.cmds)][1] = "end"

ASSUME StreamAssumption ==
    /\ Systems \subseteq {"vgm", "gym"}
    \* The FM chip is not slower than the output.  (It could be: without
    \* oversampling, above some 53 kHz.  A frame is then a pair short.)
    /\ \A r \in Ratios : r[1] \in Nat \ {0} /\ r[2] \in 1..32 /\ r[1] >= r[2]
    /\ Sizes \subseteq Nat \ {0}
    /\ \E most \in Sizes : \A s \in Sizes : s <= most
    /\ One \in Nat \ {0} /\ BlipOne \in Nat \ {0} /\ BlipFactor \in Nat \ {0}
    /\ \A t \in Tempos : t.fm \in Nat \ {0} /\ t.blip \in Nat \ {0}
    /\ \E fastest \in Tempos : \A t \in Tempos : t.fm <= fastest.fm
    /\ Requests \subseteq Nat \ {0}
    \* The resampler's spare room is more than the FM pairs of a tick.
    /\ \A r \in Ratios, t \in Tempos, s \in Sizes :
         4 * (t.fm \div One + 2) <= (s * r[1]) \div r[2]
    \* Of a log that has an end command, only what comes before it counts.  If
    \* it loops, there is a delay in the loop: one without would never reach
    \* the end of a frame.
    /\ \A l \in Logs :
         /\ Len(l.cmds) \in Nat \ {0}
         /\ \A i \in 1..Len(l.cmds) : Delay(l.cmds[i]) \in Nat
         /\ \A i \in 1..Len(l.cmds) - 1 : l.cmds[i][1] # "end"
         /\ l.loop \in 0..Len(l.cmds)
         /\ l.loop # 0 =>
              \E i \in l.loop..Len(l.cmds) : Delay(l.cmds[i]) > 0
    /\ \A s \in Songs : s.frames \in Nat \ {0} /\ s.loop_start \in Nat

VARIABLES
    system, ratio,
    size, tempo,         \* set by set_tempo_()
    written, phase,      \* Fir_Resampler: pairs in it, imp_phase
    buf_pos,             \* pairs of sample_buf that have been handed out
    log, pos,            \* the file, and the next command (GYM: frame)
    loop_remain, loop_begin,          \* GYM
    vgm_time,            \* of the next command, in the frame
    fm_time_offset,      \* fraction of an FM pair carried to the next frame
    ended,               \* set_track_ended()
    count,               \* dual_play(): pairs still to be handed out
    in_frame,            \* play_frame() runs
    pairs, end_time,     \* its locals: FM pairs and ticks of the frame
    last_time,           \* Ym_Emu: FM pairs generated in the frame
    psg_time,            \* Sms_Apu::last_time
    offset_,             \* Blip_Buffer: fraction of a sample past its end
    \* History, read by properties only:
    owed,                \* pairs made and not handed out
    lead                 \* FM time generated less time played

rateVars  == <<system, ratio, size, tempo>>
firVars   == <<written, phase>>
songVars  == <<log, loop_remain, loop_begin>>
frameVars == <<pairs, end_time, last_time>>
psgVars   == <<psg_time, offset_>>
vars == <<rateVars, firVars, buf_pos, songVars, pos, vgm_time, fm_time_offset,
          ended, count, in_frame, frameVars, psgVars, owed, lead>>

-----------------------------------------------------------------------------
(***************************************************************************)
(* Fir_Resampler.  A cycle of res pairs advances by `step' input pairs     *)
(* each, and by one more at those whose bit is set in skip_bits.           *)
(***************************************************************************)
step == ratio[1] \div ratio[2]
SkipBits == {i \in 0..ratio[2] - 1 :
               LET f == ratio[1] % ratio[2]
               IN  (i * f) \div ratio[2] < ((i + 1) * f) \div ratio[2]}

\* The input pairs that n output pairs advance by.
Consumed(n) ==
    n * step
    + Cardinality({i \in 0..n - 1 : (phase + i) % ratio[2] \in SkipBits})

\* read( n ): pairs it delivers when w are there.  The filter needs the pair
\* at its position and those of the write offset before it.
ReadCount(n, w) == Max({0} \cup {k \in 1..n : Consumed(k - 1) + 1 <= w})

\* Dual_Resampler::resize() and reset()
oversamples_per_frame == (size * ratio[1]) \div ratio[2] + 1
resampler_size ==
    LET max_pairs == IF system = "vgm" THEN size ELSE Max(Sizes)
        most == 2 * ((max_pairs * ratio[1]) \div ratio[2]) + 2
    IN  most + most \div 4

\* Dual_Resampler::clear() and Fir_Resampler_::clear()
clear(pairs_per_frame) == /\ buf_pos' = pairs_per_frame
                          /\ written' = 0 /\ phase' = 0
                          /\ owed' = 0 /\ lead' = 0

-----------------------------------------------------------------------------
to_fm_time(t) == (t * tempo.fm + fm_time_offset) \div One
to_blip_time(t) == (t * tempo.blip) \div One

\* Blip_Buffer::count_clocks(): the clocks of a frame.
blip_time == (size * BlipOne - offset_ + BlipFactor - 1) \div BlipFactor

Init ==
    /\ system \in Systems
    /\ ratio \in Ratios
    /\ size \in Sizes /\ tempo \in Tempos
    /\ log \in IF system = "vgm" THEN Logs ELSE Songs
    /\ pos = 1
    /\ loop_remain = IF system = "gym" THEN log.loop_start ELSE 0
    /\ loop_begin = 0
    /\ written = 0 /\ phase = 0 /\ buf_pos = size
    /\ vgm_time = 0 /\ fm_time_offset = 0
    /\ ended = FALSE
    /\ count = 0 /\ in_frame = FALSE
    /\ pairs = 0 /\ end_time = 0 /\ last_time = 0
    /\ psg_time = 0 /\ offset_ = 0
    /\ owed = 0 /\ lead = 0

\* start_track_()
StartTrack ==
    /\ count = 0
    /\ pos' = 1
    /\ loop_remain' = IF system = "gym" THEN log.loop_start ELSE 0
    /\ vgm_time' = 0 /\ fm_time_offset' = 0
    /\ ended' = FALSE
    /\ psg_time' = 0 /\ offset_' = 0
    /\ clear(size)
    /\ UNCHANGED <<rateVars, log, loop_begin, count, in_frame, frameVars>>

\* set_tempo_(), by the client between two calls: VGM's frames keep their
\* size, and hold more or fewer ticks; GYM's change it (resize()).
SetTempo ==
    /\ count = 0
    /\ IF system = "vgm"
       THEN /\ tempo' \in Tempos
            /\ UNCHANGED <<size, firVars, buf_pos, owed, lead>>
       ELSE /\ size' \in Sizes \ {size}
            /\ clear(size')
            /\ UNCHANGED tempo
    /\ UNCHANGED <<system, ratio, songVars, pos, vgm_time, fm_time_offset,
                   ended, count, in_frame, frameVars, psgVars>>

-----------------------------------------------------------------------------
(***************************************************************************)
(* Dual_Resampler::dual_play( n ): what is left in sample_buf, entire      *)
(* frames, and the beginning of one more.                                  *)
(***************************************************************************)
FromBuffer_faulty(n) == size - buf_pos \* mutant: not limited by the request
FromBuffer(n) == Min({size - buf_pos, n})

DualPlay(n) ==
    /\ count = 0 /\ ~ended
    /\ count' = n - FromBuffer(n)
    /\ buf_pos' = buf_pos + FromBuffer(n)
    /\ owed' = owed - FromBuffer(n)
    /\ UNCHANGED <<rateVars, firVars, songVars, pos, vgm_time, fm_time_offset,
                   ended, in_frame, frameVars, psgVars, lead>>

\* Pairs still needed for a frame: `sample_count' of play_frame().
min_pairs == oversamples_per_frame - written

\* The ticks of a frame: the fewest that give enough FM pairs, counted from
\* an estimate.
EndTime ==
    LET t0 == (min_pairs * One) \div tempo.fm - 1
    IN  t0 + Min({i \in 0..One + 1 : to_fm_time(t0 + i) >= min_pairs})

VgmBeginFrame ==
    /\ system = "vgm"
    /\ count > 0 /\ ~in_frame
    /\ in_frame' = TRUE
    /\ end_time' = EndTime
    /\ pairs' = to_fm_time(end_time')
    /\ last_time' = 0
    /\ ended' = (ended \/ pos > Len(log.cmds))
    /\ UNCHANGED <<rateVars, firVars, buf_pos, songVars, pos, vgm_time,
                   fm_time_offset, count, psgVars, owed, lead>>

\* cmd_end: if the log does not loop, loop_begin is the end of the data.
AfterEnd_faulty == pos + 1 \* mutant: the loop is ignored
AfterEnd_stuck == IF log.loop = 0 THEN pos ELSE log.loop \* mutant: it stays there
AfterEnd_again == IF log.loop = 0 THEN 1 ELSE log.loop \* mutant: it begins again
AfterEnd == IF log.loop = 0 THEN Len(log.cmds) + 1 ELSE log.loop

MoreCommands == vgm_time < end_time /\ pos <= Len(log.cmds)

\* One command of run_commands().  An FM write first runs the chip.
RunCommand ==
    /\ system = "vgm"
    /\ in_frame
    /\ MoreCommands
    /\ LET cmd == log.cmds[pos]
       IN  /\ pos' = IF cmd[1] = "end" THEN AfterEnd ELSE pos + 1
           /\ vgm_time' = vgm_time + Delay(cmd)
           /\ last_time' = IF cmd[1] = "fm"
                           THEN Max({last_time, to_fm_time(vgm_time)})
                           ELSE last_time
           /\ psg_time' = IF cmd[1] = "psg" THEN Max({psg_time, to_blip_time(vgm_time)})
                          ELSE psg_time
    /\ UNCHANGED <<rateVars, firVars, buf_pos, songVars, fm_time_offset, ended,
                   count, in_frame, pairs, end_time, offset_, owed, lead>>

\* The end of play_frame_(): write(), read() and mix_samples().  The frame
\* goes to the client, or to sample_buf and what is asked for from there.
ExtraPos == count

Deliver(n, ticks) ==
    /\ written' = written + n - Consumed(size)
    /\ phase' = (phase + size) % ratio[2]
    /\ lead' = lead + ratio[2] * ticks - ratio[1] * size * One
    /\ psg_time' = Max({psg_time, blip_time}) - blip_time
    /\ offset_' = offset_ + blip_time * BlipFactor - size * BlipOne
    /\ IF count >= size
       THEN count' = count - size /\ UNCHANGED <<buf_pos, owed>>
       ELSE /\ buf_pos' = ExtraPos
            /\ owed' = owed + size - count
            /\ count' = 0
    /\ in_frame' = FALSE

\* mutant: the fraction of a pair is lost
FmOffset_faulty == 0
FmOffset == end_time * tempo.fm + fm_time_offset - pairs * One

VgmEndFrame ==
    /\ system = "vgm"
    /\ in_frame
    /\ ~MoreCommands
    /\ vgm_time' = vgm_time - end_time
    /\ fm_time_offset' = FmOffset
    /\ last_time' = Max({last_time, pairs})
    /\ Deliver(pairs, end_time * tempo.fm)
    /\ UNCHANGED <<rateVars, songVars, pos, ended, pairs, end_time>>

-----------------------------------------------------------------------------
(***************************************************************************)
(* GYM: a frame of the resampler plays one frame of the song.  The header  *)
(* numbers the frame at which the loop begins, and the code finds it when  *)
(* it comes by.                                                            *)
(***************************************************************************)
parse_frame ==
    LET begin == IF loop_remain = 1 THEN pos ELSE loop_begin
        last  == pos = log.frames
    IN  /\ loop_remain' = IF loop_remain > 0 THEN loop_remain - 1 ELSE 0
        /\ loop_begin' = begin
        /\ pos' = IF last /\ begin # 0 THEN begin ELSE pos + 1
        /\ ended' = (last /\ begin = 0)

\* All of play_frame_() for GYM.
GymFrame ==
    /\ system = "gym"
    /\ count > 0
    /\ IF ended THEN UNCHANGED <<pos, loop_remain, loop_begin, ended>>
       ELSE parse_frame
    /\ pairs' = min_pairs
    /\ Deliver(min_pairs, min_pairs * One)
    /\ UNCHANGED <<rateVars, log, vgm_time, fm_time_offset, end_time,
                   last_time>>

-----------------------------------------------------------------------------
Step == VgmBeginFrame \/ RunCommand \/ VgmEndFrame \/ GymFrame

Next ==
    \/ StartTrack
    \/ SetTempo
    \/ \E n \in Requests : DualPlay(n)
    \/ Step

Spec == Init /\ [][Next]_vars

\* play() runs on the client's thread and waits for nothing.
FairSpec == Spec /\ WF_vars(Step)

-----------------------------------------------------------------------------
(***************************************************************************)
(* Properties                                                              *)
(***************************************************************************)
TypeOK ==
    /\ system \in Systems /\ ratio \in Ratios
    /\ size \in Sizes /\ tempo \in Tempos
    /\ written \in Nat /\ phase \in 0..ratio[2] - 1 /\ buf_pos \in 0..size
    /\ pos \in Nat \ {0} /\ loop_remain \in Nat /\ loop_begin \in Nat
    /\ vgm_time \in Int /\ fm_time_offset \in 0..One - 1
    /\ ended \in BOOLEAN /\ count \in Nat /\ in_frame \in BOOLEAN
    /\ pairs \in Int /\ end_time \in Int
    /\ last_time \in Nat /\ psg_time \in Nat /\ offset_ \in 0..BlipFactor
    /\ owed \in Nat /\ lead \in Int

\* dual_play() hands out every sample once and in order, whatever amounts the
\* client asks for: what has been made and not handed out is exactly what is
\* left in sample_buf, and no frame is made before that is used up.
EverySampleOnce ==
    /\ count = 0 => owed = size - buf_pos
    /\ count > 0 => owed = 0 /\ buf_pos = size

\* The assertions of play_frame_() and Fir_Resampler_::write(): what a frame
\* generates has room in the resampler, and what it reads from there is whole.
FrameFits ==
    count > 0 /\ (system = "vgm" => in_frame) =>
        LET n == IF system = "vgm" THEN pairs ELSE min_pairs
        IN  /\ 0 <= n /\ 2 * n < resampler_size
            /\ 2 * (written + n) <= resampler_size
            /\ ReadCount(size, written + n) = size

\* The FM chip generates each pair of a frame once and none beyond its end:
\* a write to it, which comes at the log's time, stays within the frame.
FmInFrame ==
    system = "vgm" => /\ last_time <= pairs
                      /\ pairs >= to_fm_time(0)

\* What may be left of a log when its data is at an end: its last delay if
\* that is the last command, and nothing if it is closed.
CutShort == Delay(log.cmds[Len(log.cmds)])

\* The file that is played is one of the system's, and where the log is at
\* its end: a command is only run within the frame.
LogInv ==
    /\ log \in IF system = "vgm" THEN Logs ELSE Songs
    /\ system = "vgm" =>
         /\ pos > Len(log.cmds) =>
              /\ Closed(log) => log.loop = 0
              /\ in_frame => vgm_time < end_time + CutShort
              /\ ~in_frame => vgm_time < CutShort
         /\ ended => pos > Len(log.cmds) /\ vgm_time < CutShort
    /\ system = "gym" /\ log.loop_start \in 1..log.frames =>
         /\ ~ended
         /\ \/ loop_begin # 0
            \/ loop_remain > 0 /\ pos = log.loop_start - loop_remain + 1

\* What a frame leaves in the resampler is a pair more than a tick at most,
\* and what is generated for the next is enough, and a tick too much at most.
FrameInv ==
    /\ \E t \in Tempos : (written - 1) * One < t.fm
    /\ pairs \in Nat
    /\ in_frame =>
         /\ system = "vgm" /\ count > 0
         /\ end_time \in Nat \ {0} /\ pairs = to_fm_time(end_time)
         /\ pairs >= min_pairs
         /\ (pairs - min_pairs) * One < tempo.fm

\* Where the FM chip is ahead of the client is the resampler: the pairs in
\* it, less the part of one that its phase stands for, and the fraction of
\* a pair that is carried.
LeadInv ==
    /\ system = "gym" => fm_time_offset = 0
    /\ lead = ratio[2] * (written * One + fm_time_offset)
              - One * ((phase * (ratio[1] % ratio[2])) % ratio[2])

\* The safety of a frame, of one buffer after the other.
StreamInv == /\ TypeOK /\ LogInv /\ EverySampleOnce
             /\ FrameInv /\ FrameFits /\ FmInFrame /\ LeadInv

\* The log keeps time with the client's samples for ever: what has been
\* generated is ahead of what has been handed out by the filter's lead and
\* what one tick amounts to, and never falls behind.
InStep ==
    /\ lead > -ratio[2] * One
    /\ lead <= ratio[2] * (2 * One + tempo.fm + Max({t.fm : t \in Tempos}))

\* A track that is closed ends only if it does not loop, and not before its
\* last delay has been played.  One that breaks off ends in the frame after
\* that of its last command, whether it loops or not, and even so no more
\* than the delay that it breaks off with is left.
EndIsHeard ==
    ended => IF system = "vgm"
             THEN (Closed(log) => log.loop = 0) /\ vgm_time < CutShort
             ELSE log.loop_start \notin 1..log.frames

\* Not of every file: a log that breaks off with a delay ends although some
\* of the delay is still to come.
DelaysAreHeard == ended /\ system = "vgm" => vgm_time < 0

\* What run_commands() has left in a frame: ticks, and the commands up to the
\* next delay of the log or its end, which may lie behind the loop.
TicksLeft == IF vgm_time < end_time THEN end_time - vgm_time ELSE 0

ToDelay(i) ==
    LET last == Len(log.cmds)
    IN  Min({j \in i..last : Delay(log.cmds[j]) > 0} \cup {last + 1}) - i

CommandsLeft ==
    IF log.loop = 0 \/ pos + ToDelay(pos) <= Len(log.cmds)
    THEN ToDelay(pos) ELSE ToDelay(pos) + ToDelay(log.loop)

\* Why play() returns, although commands without a delay take no time and a
\* log may loop: each frame hands out samples, and each command takes a frame
\* to a later time, or is one fewer to the next that does.
PlayProgress ==
    [][Step => \/ count' < count
               \/ /\ count' = count /\ in_frame'
                  /\ \/ ~in_frame
                     \/ TicksLeft' < TicksLeft
                     \/ /\ TicksLeft' = TicksLeft
                        /\ CommandsLeft' < CommandsLeft]_vars

\* play() returns.
PlayReturns == (count > 0) ~> (count = 0)

\* A write to the PSG is not before the end of the frame before: the
\* assertion of Sms_Apu::run_until().
PsgInOrder ==
    system = "vgm" /\ in_frame /\ MoreCommands /\ log.cmds[pos][1] = "psg" =>
        psg_time <= to_blip_time(vgm_time)
=============================================================================
