------------------------------- MODULE NesApu -------------------------------
(***************************************************************************)
(* The sound of the NES: gme/Nes_Apu.cpp and gme/Nes_Oscs.cpp.             *)
(*                                                                         *)
(* The chip is run lazily, from one access of the CPU to the next and to   *)
(* the end of each frame; the frame sequencer cuts these runs again.  Each *)
(* oscillator turns a run into changes of level in its Blip_Buffer and     *)
(* keeps what is left of its period.  The oscillators share nothing but    *)
(* the sequencer, so one of them is modelled at a time.  Times are         *)
(* relative to the time that the CPU has reached.                          *)
(***************************************************************************)
EXTENDS Oscillator

CONSTANTS
    Kinds,         \* which oscillators
    Modes,         \* pal_mode
    FramePeriod,   \* clocks between frames, about 7458
    TriRange,      \* Nes_Triangle::phase_range, 16
    EnvMax,        \* 15
    MinPeriod,     \* 8: squares of a shorter period are silent ...
    PeriodLimit,   \* 0x800: ... and those that sweep to this one
    LfsrWidth,     \* 15
    ShortTap,      \* 6: the bit that feeds back in the noise's short mode
    ByteBits,      \* 8
    DacMax,        \* 127
    DmcLengths,    \* 16: bytes of a sample by its register, less one
    Memory,        \* the bytes of samples, as integers
    Runs,          \* clocks between two accesses
    Controls,      \* what is written: registers 0 (of each kind) ...
    Sweeps,        \* ... 1 of the squares ...
    Periods,       \* ... 2 and 3 as a period (of each kind) ...
    Lengths,       \* ... and the length that register 3 loads
    Dacs,          \* levels written to the DMC
    MaxClocks,     \* the chip is run for
    MaxCalls,      \* writes and mutings in a behaviour, beside those of its start
    NoIrq          \* no_irq, a time that never comes

VARIABLES
    kind, pal_mode,
    osc,             \* the oscillator
    output,          \* has it a buffer, or is it muted?
    frame_delay, frame, frame_mode,
    irq_flag, next_irq, earliest_irq,
    clocks, calls,   \* so far, up to MaxClocks and MaxCalls
    left,            \* clocks that run_until_() has still to run
    \* History, read by properties only:
    segment,         \* clocks that the last step ran the oscillator, or -1
    heard,           \* changes of level at each of them
    level            \* what the buffer's level has come to

seqVars == <<frame_delay, frame, frame_mode, irq_flag, next_irq, earliest_irq>>
history == <<segment, heard>>
vars    == <<kind, pal_mode, osc, output, seqVars, clocks, calls, left, history, level>>

IsSquare == kind \in {"square1", "square2"}

-----------------------------------------------------------------------------
(***************************************************************************)
(* Envelope, length and sweep.                                             *)
(***************************************************************************)
clock_length(o) ==
    [o EXCEPT !.length = IF @ > 0 /\ ~o.reg0.halt THEN @ - 1 ELSE @]

clock_envelope(o) ==
    IF o.written3
    THEN [o EXCEPT !.written3 = FALSE, !.env_delay = o.reg0.vol, !.envelope = EnvMax]
    ELSE IF o.env_delay > 0 THEN [o EXCEPT !.env_delay = @ - 1]
    ELSE [o EXCEPT !.env_delay = o.reg0.vol,
                   !.envelope = IF @ > 0 \/ o.reg0.halt THEN (@ - 1) % (EnvMax + 1)
                                                        ELSE @]

volume(o) == IF o.length = 0 THEN 0
             ELSE IF o.reg0.constant THEN o.reg0.vol ELSE o.envelope

Swept(o) ==
    LET offset == o.period \div 2^o.sweep.shift
        to == o.period +
              (IF o.sweep.negate THEN (IF kind = "square1" THEN -1 ELSE 0) - offset
                                 ELSE offset)
    IN  IF o.sweep.shift > 0 /\ o.sweep.on /\ o.period >= MinPeriod /\ to < PeriodLimit
        THEN to ELSE o.period

clock_sweep(o) ==
    LET expired == o.sweep_delay = 0
    IN  [o EXCEPT !.period = IF expired THEN Swept(o) ELSE @,
                  !.sweep_delay = IF expired \/ o.written1 THEN o.sweep.period ELSE @ - 1,
                  !.written1 = FALSE]

clock_linear_counter(o) ==
    [o EXCEPT !.linear = IF o.written3 THEN o.reg0.linear
                         ELSE IF @ > 0 THEN @ - 1 ELSE 0,
              !.written3 = @ /\ o.reg0.halt]

\* What a frame does to the oscillator: the even ones clock length and sweep.
Framed(o) ==
    LET even == frame \in {0, 2}
        counted == IF even THEN clock_length(o) ELSE o
        swept   == IF even /\ IsSquare THEN clock_sweep(counted) ELSE counted
    IN  CASE kind = "dmc" -> o
          [] kind = "triangle" -> clock_linear_counter(counted)
          [] OTHER -> clock_envelope(swept)

-----------------------------------------------------------------------------
(***************************************************************************)
(* The oscillators: each runs for k clocks.                                *)
(***************************************************************************)
PhaseRange == 8
Duties == <<1, 2, 4, 2>>

duty(o) == Duties[o.reg0.duty + 1]

Silent(o) ==
    \/ volume(o) = 0
    \/ o.period < MinPeriod
    \/ o.period + (IF o.sweep.negate THEN 0 ELSE o.period \div 2^o.sweep.shift)
         >= PeriodLimit

\* maintain_phase()
SquareKept(o, k) ==
    LET period == (o.period + 1) * 2
    IN  [o EXCEPT !.phase = (@ + Len(Ticks(o.delay, period, k))) % PhaseRange,
                  !.delay = Remaining(o.delay, period, k)]

SquareLoop(o, vol, st, t) ==
    LET phase == (st.phase + 1) % PhaseRange
    IN  IF phase \in {0, duty(o)}
        THEN [phase |-> phase, delta |-> -st.delta, out |-> Offset(st.out, t, -st.delta)]
        ELSE [st EXCEPT !.phase = phase]

SquareRun(o, k) ==
    LET vol == volume(o)
        amp == IF (o.phase < duty(o)) # (o.reg0.duty = 3) THEN vol ELSE 0
        st  == FoldLeft(LAMBDA s, t : SquareLoop(o, vol, s, t),
                        [phase |-> o.phase, delta |-> amp * 2 - vol,
                         out |-> Offset(Empty(k), 0, amp - o.last_amp)],
                        Ticks(o.delay, (o.period + 1) * 2, k))
    IN  IF ~output THEN Ran(SquareKept(o, k), Empty(k))
        ELSE IF Silent(o)
        THEN Ran([SquareKept(o, k) EXCEPT !.last_amp = 0],
                 Offset(Empty(k), 0, -o.last_amp))
        ELSE Ran([SquareKept(o, k) EXCEPT !.phase = st.phase,
                                          !.last_amp = (st.delta + vol) \div 2], st.out)

\* Nes_Triangle: phase counts down from 2 * TriRange to 1.
calc_amp(o) == IF o.phase <= TriRange THEN TriRange - o.phase ELSE o.phase - TriRange - 1

TriangleRuns(o) == o.length > 0 /\ o.linear > 0 /\ o.period + 1 >= 3

\* ((unsigned) phase + 1 - count) & (phase_range * 2 - 1), and one more.
TriangleKept(o, k) ==
    [o EXCEPT !.phase = IF o.delay < k
                        THEN ((@ + 1 - Len(Ticks(o.delay, o.period + 1, k)))
                                  % (2 * TriRange)) + 1
                        ELSE @,
              !.delay = Remaining(@, o.period + 1, k)]

TriangleLoop(st, t) ==
    IF st.phase = 1
    THEN [st EXCEPT !.phase = TriRange, !.volume = -@]
    ELSE [st EXCEPT !.phase = @ - 1, !.out = Offset(@, t, st.volume)]

TriangleRun_faulty(o, k) ==   \* mutant: the half is forgotten after a run
    LET high  == o.phase > TriRange
        ticks == Ticks(o.delay, o.period + 1, k)
        st    == FoldLeft(TriangleLoop,
                          [phase |-> IF high THEN o.phase - TriRange ELSE o.phase,
                           volume |-> IF high THEN -1 ELSE 1,
                           out |-> Offset(Empty(k), 0, calc_amp(o) - o.last_amp)], ticks)
        ended == [o EXCEPT !.phase = st.phase,
                           !.delay = Remaining(@, o.period + 1, k)]
    IN  IF ~output THEN Ran(IF TriangleRuns(o) THEN TriangleKept(o, k)
                                               ELSE [o EXCEPT !.delay = 0], Empty(k))
        ELSE IF ~TriangleRuns(o)
        THEN Ran([o EXCEPT !.delay = 0, !.last_amp = calc_amp(o)], st.out)
        ELSE Ran([ended EXCEPT !.last_amp = calc_amp(ended)], st.out)
TriangleRun(o, k) ==
    LET high  == o.phase > TriRange
        ticks == Ticks(o.delay, o.period + 1, k)
        start == Offset(Empty(k), 0, calc_amp(o) - o.last_amp)
        st    == FoldLeft(TriangleLoop,
                          [phase |-> IF high THEN o.phase - TriRange ELSE o.phase,
                           volume |-> IF high THEN -1 ELSE 1, out |-> start], ticks)
        ended == [o EXCEPT !.phase = IF st.volume < 0 THEN st.phase + TriRange ELSE st.phase,
                           !.delay = Remaining(@, o.period + 1, k)]
    IN  IF ~output THEN Ran(IF TriangleRuns(o) THEN TriangleKept(o, k)
                                               ELSE [o EXCEPT !.delay = 0], Empty(k))
        ELSE IF ~TriangleRuns(o)
        THEN Ran([o EXCEPT !.delay = 0, !.last_amp = calc_amp(o)], start)
        ELSE Ran([ended EXCEPT !.last_amp = calc_amp(ended)], st.out)

\* Nes_Noise: a shift register whose lowest bit is heard.
Shifted(n, short) ==
    n \div 2 + (IF Bit(n, 0) # Bit(n, IF short THEN ShortTap ELSE 1)
                THEN 2^(LfsrWidth - 1) ELSE 0)

TruncDiv(a, b) == IF a >= 0 THEN a \div b ELSE -((-a) \div b)

NoiseLoop(short, st, t) ==
    LET delta == IF Bit(st.noise, 0) # Bit(st.noise, 1) THEN -st.delta ELSE st.delta
    IN  [noise |-> Shifted(st.noise, short), delta |-> delta,
         out |-> IF delta # st.delta THEN Offset(st.out, t, delta) ELSE st.out]

NoiseRun(o, k) ==
    LET vol   == volume(o)
        amp   == IF Bit(o.noise, 0) = 1 THEN vol ELSE 0
        start == Offset(Empty(k), 0, amp - o.last_amp)
        ticks == Ticks(o.delay, o.period, k)
        st    == FoldLeft(LAMBDA s, t : NoiseLoop(o.short, s, t),
                          [noise |-> o.noise, delta |-> amp * 2 - vol, out |-> start], ticks)
        timed == [o EXCEPT !.delay = Remaining(@, o.period, k)]
    IN  IF ~output
        THEN Ran([o EXCEPT !.delay = @ + TruncDiv(k - @ + o.period - 1, o.period) * o.period
                                       - k], Empty(k))
        ELSE IF vol = 0
        THEN Ran([timed EXCEPT !.last_amp = 0,
                               !.noise = IF ticks # <<>> /\ ~o.short THEN Shifted(@, FALSE)
                                                                     ELSE @], start)
        ELSE Ran([timed EXCEPT !.noise = st.noise, !.last_amp = (st.delta + vol) \div 2],
                 st.out)

-----------------------------------------------------------------------------
(***************************************************************************)
(* Nes_Dmc: a sample, read byte by byte ahead of the bits that it plays.   *)
(***************************************************************************)
loop_flag(o) == o.reg0.halt

reload_sample(o) ==
    [o EXCEPT !.address = o.start, !.length = o.size * DmcLengths + 1]

Counted(o) ==
    IF o.length > 1 THEN [o EXCEPT !.length = @ - 1]
    ELSE IF loop_flag(o) THEN reload_sample(o)
    ELSE [o EXCEPT !.length = 0, !.enabled = FALSE, !.next_irq = NoIrq,
                   !.irq_flag = o.irq_enabled, !.changed = TRUE]

fill_buffer(o) ==
    IF o.buf_full \/ o.length = 0 THEN o
    ELSE Counted([o EXCEPT !.buf = Memory[o.address + 1], !.buf_full = TRUE,
                           !.address = (@ + 1) % Len(Memory), !.reads = @ + 1])

\* irq_changed() is called if changed is set.
recalc_irq_faulty(o) ==   \* mutant: the bits of the byte that plays are missed
    LET irq == IF o.irq_enabled /\ o.length > 0
               THEN o.delay + (o.length - 1) * ByteBits * o.period + 1
               ELSE NoIrq
    IN  [o EXCEPT !.next_irq = irq, !.changed = @ \/ irq # o.next_irq]
recalc_irq(o) ==
    LET irq == IF o.irq_enabled /\ o.length > 0
               THEN o.delay + ((o.length - 1) * ByteBits + o.bits_remain - 1) * o.period + 1
               ELSE NoIrq
    IN  [o EXCEPT !.next_irq = irq, !.changed = @ \/ irq # o.next_irq]

\* A bit, and then the next byte if it was the last one.
PlayBit(o) ==
    LET step == IF o.bits % 2 = 1 THEN 2 ELSE -2
    IN  IF o.silence THEN o
        ELSE [o EXCEPT !.bits = @ \div 2,
                       !.dac = IF @ + step \in 0..DacMax THEN @ + step ELSE @]

NextByte(o) ==
    IF ~o.buf_full THEN [o EXCEPT !.silence = TRUE]
    ELSE fill_buffer([o EXCEPT !.bits = o.buf, !.buf_full = FALSE, !.silence = ~output])

DmcLoop(st, t) ==
    LET o == PlayBit(st.osc)
        c == [o EXCEPT !.bits_remain = IF @ = 1 THEN ByteBits ELSE @ - 1]
    IN  Ran(IF o.bits_remain = 1 THEN NextByte(c) ELSE c,
            Offset(st.out, t, o.dac - st.osc.dac))

\* next_irq is an absolute time and comes nearer by itself.
DmcRun(o, k) ==
    LET ticks == Ticks(o.delay, o.period, k)
        begun == [o EXCEPT !.silence = @ \/ ~output, !.last_amp = o.dac, !.reads = 0,
                           !.changed = FALSE,
                           !.next_irq = IF @ = NoIrq THEN NoIrq ELSE @ - k]
        start == Offset(Empty(k), 0, IF output THEN o.dac - o.last_amp ELSE 0)
        st    == FoldLeft(DmcLoop, Ran(begun, start), ticks)
        idle  == begun.silence /\ ~begun.buf_full
        ended == IF idle
                 THEN [begun EXCEPT !.bits_remain =
                         ((@ - 1 + ByteBits - (Len(ticks) % ByteBits)) % ByteBits) + 1]
                 ELSE [st.osc EXCEPT !.last_amp = st.osc.dac]
    IN  Ran([ended EXCEPT !.delay = Remaining(o.delay, o.period, k)],
            IF idle THEN start ELSE st.out)

\* count_reads(): the reads that running for k clocks would do.
count_reads(o, k) ==
    LET avail == k - (o.delay + (o.bits_remain - 1) * o.period)
        count == (avail - 1) \div (o.period * ByteBits) + 1
    IN  IF o.length = 0 \/ avail <= 0 THEN 0
        ELSE IF loop_flag(o) THEN count ELSE Lesser(count, o.length)

Run(o, k) == CASE IsSquare -> SquareRun(o, k)
               [] kind = "triangle" -> TriangleRun(o, k)
               [] kind = "noise" -> NoiseRun(o, k)
               [] kind = "dmc" -> DmcRun(o, k)

-----------------------------------------------------------------------------
(***************************************************************************)
(* Nes_Apu.                                                                *)
(***************************************************************************)
Later(irq, k) == IF irq = NoIrq THEN NoIrq ELSE irq - k

\* earliest_irq_ is 0, irq_waiting, if it is not in the future.
Waiting(irq) == IF irq < 0 THEN 0 ELSE irq

\* irq_changed(), with these flags and times.
irq_changed(o, flag, next) ==
    LET dmc == kind = "dmc"
    IN  IF flag \/ (dmc /\ o.irq_flag) THEN 0
        ELSE Waiting(IF dmc THEN Lesser(o.next_irq, next) ELSE next)

Heard(ran, k) ==
    /\ segment' = k
    /\ heard' = ran.out
    /\ level' = level + FoldFunction(+, 0, ran.out)

\* run_until_( time + k ): the DMC first, for all of it.
RunUntil(k) ==
    /\ left = 0
    /\ k > 0
    /\ clocks + k <= MaxClocks
    /\ clocks' = clocks + k
    /\ left' = k
    /\ next_irq' = Later(next_irq, k)
    /\ \/ /\ kind = "dmc"
          /\ LET ran == DmcRun(osc, k)
             IN  /\ osc' = ran.osc
                 /\ Heard(ran, k)
                 /\ earliest_irq' = IF ran.osc.changed
                                    THEN irq_changed(ran.osc, irq_flag, Later(next_irq, k))
                                    ELSE Waiting(Later(earliest_irq, k))
       \/ /\ kind # "dmc"
          /\ segment' = -1 /\ heard' = <<>>
          /\ earliest_irq' = Waiting(Later(earliest_irq, k))
          /\ UNCHANGED <<osc, level>>
    /\ UNCHANGED <<kind, pal_mode, output, frame_delay, frame, frame_mode, irq_flag, calls>>

\* Clocks to the frame after this one.
NextFrame == FramePeriod +
    CASE frame = 1 /\ ~pal_mode -> -2
      [] frame = 2 /\ pal_mode -> -2
      [] frame = 3 /\ frame_mode.five -> FramePeriod - (IF pal_mode THEN 2 ELSE 6)
      [] OTHER -> 0

\* To the next frame, or to the end.
RunSegment ==
    /\ left > 0
    /\ LET k   == Lesser(frame_delay, left)
           ran == IF kind = "dmc" THEN Ran(osc, Empty(k)) ELSE Run(osc, k)
           raises == k < left /\ frame = 0 /\ ~frame_mode.five /\ ~frame_mode.inhibit
       IN  /\ left' = left - k
           /\ Heard(ran, IF kind = "dmc" THEN -1 ELSE k)
           /\ osc' = IF k < left THEN Framed(ran.osc) ELSE ran.osc
           /\ frame' = IF k < left THEN (frame + 1) % 4 ELSE frame
           /\ frame_delay' = IF k < left THEN NextFrame ELSE frame_delay - k
           /\ irq_flag' = (irq_flag \/ raises)
           /\ next_irq' = IF raises THEN FramePeriod * 4 + 2 - (left - k) ELSE next_irq
    /\ UNCHANGED <<kind, pal_mode, output, frame_mode, earliest_irq, clocks, calls>>

\* A call, at the time that the chip has been run to.
Client ==
    /\ left = 0
    /\ calls < MaxCalls
    /\ calls' = calls + 1
    /\ segment' = -1 /\ heard' = <<>>
    /\ UNCHANGED <<kind, pal_mode, clocks, left, level>>

Write(o) ==
    /\ osc' = o
    /\ Client
    /\ UNCHANGED <<output, frame_delay, frame, frame_mode, irq_flag, next_irq>>

WriteOsc(o) == Write(o) /\ UNCHANGED earliest_irq

\* Register 0.  On the DMC it also sets the period and recalculates.
Write0(c) ==
    \/ /\ kind # "dmc"
       /\ WriteOsc([osc EXCEPT !.reg0 = c])
    \/ /\ kind = "dmc"
       /\ LET o == recalc_irq([osc EXCEPT !.reg0 = c, !.period = c.period,
                                 !.irq_enabled = c.irq /\ ~c.halt,
                                 !.irq_flag = @ /\ c.irq /\ ~c.halt,
                                 !.changed = FALSE])
          IN  /\ Write(o)
              /\ earliest_irq' = IF o.changed THEN irq_changed(o, irq_flag, next_irq)
                                              ELSE earliest_irq

WriteSweep(s) ==
    /\ IsSquare
    /\ WriteOsc([osc EXCEPT !.sweep = s, !.written1 = TRUE])

\* Registers 2 and 3; 3 loads the length and starts envelope and phase.
WritePeriod(p) ==
    /\ kind # "dmc"
    /\ WriteOsc(IF kind = "noise" THEN [osc EXCEPT !.period = p.period, !.short = p.short]
                                  ELSE [osc EXCEPT !.period = p.period])

WriteLength(n) ==
    /\ kind # "dmc"
    /\ LET o == [osc EXCEPT !.written3 = TRUE,
                            !.length = IF osc.enabled THEN n ELSE @]
       IN  WriteOsc(IF IsSquare THEN [o EXCEPT !.phase = PhaseRange - 1] ELSE o)

\* The DMC's level: last_amp is changed so that the jump is a smaller one
\* (by how much is in a table that is left out here).
WriteDac(d) ==
    /\ kind = "dmc"
    /\ \E amp \in {osc.last_amp, d} : WriteOsc([osc EXCEPT !.dac = d, !.last_amp = amp])

\* The DMC's sample.
WriteSample(start, size) ==
    /\ kind = "dmc"
    /\ WriteOsc([osc EXCEPT !.start = start, !.size = size])

\* 0x4015, for this oscillator's bit.
WriteEnable(on) ==
    \/ /\ kind # "dmc"
       /\ WriteOsc([osc EXCEPT !.enabled = on, !.length = IF on THEN @ ELSE 0])
    \/ /\ kind = "dmc"
       /\ LET cleared == [osc EXCEPT !.irq_flag = FALSE, !.enabled = on,
                                     !.length = IF on THEN @ ELSE 0,
                                     !.next_irq = IF on THEN @ ELSE NoIrq,
                                     !.changed = osc.irq_flag \/ ~on]
              o == IF on /\ ~osc.enabled THEN recalc_irq(fill_buffer(reload_sample(cleared)))
                                         ELSE cleared
          IN  /\ Write(o)
              /\ earliest_irq' = IF o.changed THEN irq_changed(o, irq_flag, next_irq)
                                              ELSE earliest_irq

\* 0x4017
WriteFrameMode(m) ==
    /\ Client
    /\ frame_mode' = m
    /\ irq_flag' = (irq_flag /\ ~m.inhibit)
    /\ frame' = IF m.five THEN 0 ELSE 1
    /\ frame_delay' = (frame_delay % 2) + (IF m.five THEN 0 ELSE FramePeriod)
    /\ next_irq' = IF m.five \/ m.inhibit THEN NoIrq
                   ELSE frame_delay' + FramePeriod * 3 + 1
    /\ earliest_irq' = irq_changed(osc, irq_flag', next_irq')
    /\ UNCHANGED <<osc, output>>

\* read_status(): acknowledges the frame's interrupt.
ReadStatus ==
    /\ Client
    /\ irq_flag
    /\ irq_flag' = FALSE
    /\ earliest_irq' = irq_changed(osc, FALSE, next_irq)
    /\ UNCHANGED <<osc, output, frame_delay, frame, frame_mode, next_irq>>

\* osc_output(): the client mutes or unmutes.
Mute ==
    /\ Client
    /\ output' = ~output
    /\ UNCHANGED <<osc, seqVars>>

-----------------------------------------------------------------------------
\* Nes_Apu::reset(), the NSF player's writes of 0x4015 and 0x4017 and
\* those of a song's init routine, before the chip has run for a clock.
ResetOsc == [delay |-> 0, last_amp |-> IF kind = "triangle" THEN TriRange - 1 ELSE 0,
             length |-> 0, enabled |-> kind # "dmc",
             reg0 |-> [halt |-> FALSE, constant |-> kind # "dmc", vol |-> 0, duty |-> 0,
                       linear |-> 0, period |-> 0, irq |-> FALSE],
             written3 |-> TRUE, written1 |-> TRUE, envelope |-> 0, env_delay |-> 0,
             sweep |-> [on |-> FALSE, period |-> 0, negate |-> FALSE, shift |-> 0],
             sweep_delay |-> 0,
             period |-> 0,
             phase |-> IF IsSquare THEN PhaseRange - 1 ELSE 1, linear |-> 0,
             noise |-> 2^(LfsrWidth - 1), short |-> FALSE,
             dac |-> 0, bits |-> 0, bits_remain |-> 1, buf |-> 0, buf_full |-> FALSE,
             silence |-> TRUE, address |-> 0, start |-> 0, size |-> 0,
             irq_enabled |-> FALSE, irq_flag |-> FALSE, next_irq |-> NoIrq,
             changed |-> FALSE, reads |-> 0]

Init ==
    /\ kind \in Kinds
    /\ pal_mode \in Modes
    /\ \E c \in Controls[kind], s \in Sweeps, p \in Periods[kind], n \in Lengths :
         osc = [ResetOsc EXCEPT !.reg0 = c, !.sweep = IF IsSquare THEN s ELSE @,
                  !.period = p.period, !.short = IF kind = "noise" THEN p.short ELSE @,
                  !.irq_enabled = kind = "dmc" /\ c.irq /\ ~c.halt,
                  !.length = IF kind = "dmc" THEN 0 ELSE n]
    /\ output = TRUE
    /\ clocks = 0 /\ calls = 0
    /\ frame_mode = [five |-> FALSE, inhibit |-> FALSE]
    /\ frame_delay = FramePeriod + 1
    /\ frame = 1
    /\ irq_flag = FALSE
    /\ next_irq = frame_delay + FramePeriod * 3 + 1
    /\ earliest_irq = next_irq
    /\ left = 0
    /\ segment = -1 /\ heard = <<>> /\ level = osc.last_amp

Next ==
    \/ \E k \in Runs : RunUntil(k)
    \/ RunSegment
    \/ \E c \in Controls[kind] : Write0(c)
    \/ \E s \in Sweeps : WriteSweep(s)
    \/ \E p \in Periods[kind] : WritePeriod(p)
    \/ \E n \in Lengths : WriteLength(n)
    \/ \E d \in Dacs : WriteDac(d)
    \/ \E a \in 0..(Len(Memory) - 1), n \in 0..1 : WriteSample(a, n)
    \/ \E on \in BOOLEAN : WriteEnable(on)
    \/ \E m \in [five : BOOLEAN, inhibit : BOOLEAN] : WriteFrameMode(m)
    \/ ReadStatus
    \/ Mute

Spec == Init /\ [][Next]_vars

-----------------------------------------------------------------------------
(***************************************************************************)
(* The oscillators as the chip has them: a timer that counts every clock.  *)
(***************************************************************************)
Amplitude(o) ==
    CASE IsSquare -> IF ~Silent(o) /\ ((o.phase < duty(o)) # (o.reg0.duty = 3))
                     THEN volume(o) ELSE 0
      [] kind = "triangle" -> calc_amp(o)
      [] kind = "noise" -> Bit(o.noise, 0) * volume(o)

Expired(o) ==
    CASE IsSquare -> [o EXCEPT !.phase = (@ + 1) % PhaseRange,
                               !.delay = 2 * o.period + 1]
      [] kind = "triangle" -> [o EXCEPT !.phase = IF @ = 1 THEN 2 * TriRange ELSE @ - 1,
                                        !.delay = o.period]
      [] kind = "noise" -> [o EXCEPT !.noise = Shifted(@, o.short),
                                     !.delay = o.period - 1]

\* A triangle that does not run starts at once when it does.
Held(o) == IF kind = "triangle" /\ ~TriangleRuns(o) THEN [o EXCEPT !.delay = 0] ELSE o

Clock(o) == IF kind = "triangle" /\ ~TriangleRuns(o) THEN o
            ELSE IF o.delay > 0 THEN [o EXCEPT !.delay = @ - 1] ELSE Expired(o)

\* What the code says it leaves out: the noise's register while its volume is 0.
Heeded(o) == IF kind = "noise" /\ volume(osc) = 0 THEN [o EXCEPT !.noise = 0] ELSE o

-----------------------------------------------------------------------------
(***************************************************************************)
(* Properties                                                              *)
(***************************************************************************)

\* However the runs are cut, by accesses, frames and ends of frames, what is
\* heard and what is kept is what counting every clock gives.  A square that
\* is muted keeps its phase; what is muted is not heard.
Waveform ==
    (segment' >= 0 /\ kind # "dmc") =>
        LET k     == segment'
            ended == ClockedOsc(Held(osc), k, Clock, Amplitude)
            kept  == IF left' > 0 THEN Framed(ended) ELSE ended
        IN  IF output THEN /\ heard' = ClockedWave(Held(osc), k, Clock, Amplitude)
                           /\ Heeded(osc') = Heeded(kept)
            ELSE /\ \A t \in 0..k : heard'[t] = 0
                 /\ IsSquare => osc' = [kept EXCEPT !.last_amp = osc.last_amp]

\* The buffer's level is the amplitude that the oscillator remembers, also
\* after it was muted.  (The DMC's differ on purpose when its level is written.)
LevelKept == kind # "dmc" => level = osc.last_amp

\* The emulator may run the CPU past the DMC's reads and its interrupt because
\* both can be foretold: a run reads as often, and interrupts if, it was said.
DmcForetold ==
    (kind = "dmc" /\ left = 0 /\ left' > 0) =>
        /\ osc'.reads = count_reads(osc, left')
        /\ (osc'.irq_flag # osc.irq_flag) = (osc.next_irq # NoIrq /\ osc.next_irq <= left')

\* The next byte is there before the last one has been played.
DmcFilled == (kind = "dmc" /\ osc.length > 0) => osc.buf_full /\ osc.next_irq >= 0

\* earliest_irq(), which is only brought up to date when a flag or a time is
\* changed by a write: it is never later than an interrupt that is pending, give
\* or take the 4 clocks by which the frame's comes early.
EarliestIrq ==
    left = 0 =>
        LET dmc == kind = "dmc" /\ osc.irq_flag
        IN  IF irq_flag \/ dmc THEN earliest_irq <= 4
            ELSE earliest_irq <= irq_changed(osc, FALSE, next_irq)

ApuInv == LevelKept /\ DmcFilled /\ EarliestIrq
=============================================================================
