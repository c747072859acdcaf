-------------------------------- MODULE GbApu --------------------------------
(***************************************************************************)
(* The sound of the Game Boy: gme/Gb_Apu.cpp and gme/Gb_Oscs.cpp.          *)
(*                                                                         *)
(* As in NesApu one of the oscillators is modelled at a time, with the     *)
(* 256 Hz sequencer that they share.  An oscillator is panned by the       *)
(* program to one of three buffers or to none, and the client mutes it by  *)
(* taking its buffers away: each change of the buffer must take the level  *)
(* that the oscillator has left there back.                                *)
(***************************************************************************)
EXTENDS Oscillator

CONSTANTS
    Kinds,         \* of "square1", "square2", "wave", "noise"
    FramePeriod,   \* clocks at 256 Hz
    FreqLimit,     \* 2048
    SquareHigh,    \* 7 and 3: this near to the limit a pitch is too high ...
    WaveHigh,
    SquareStep,    \* 4 and 2: clocks of a period by the distance to the limit
    WaveStep,
    VolMax,        \* 15
    LongTap,       \* 13 and 5: taps of the noise
    ShortTap,
    WaveSize,      \* 32
    LengthOf,      \* length counted after a trigger with none left
    NoisePeriod,   \* the period of noise that power-up leaves
    Wave,          \* what the wave's memory may hold
    Runs,          \* clocks between two accesses
    Setups,        \* what a tune's first writes leave (see Init)
    Sweeps, Lengths, Envelopes, Pitches, \* what registers 0 ... 4 are written
    MaxClocks, MaxCalls

VARIABLES
    kind,
    osc,
    select,          \* output_select: 0 is none
    muted,           \* outputs[] are null
    next_frame_time, frame_count,
    clocks, calls,   \* so far, up to MaxClocks and MaxCalls
    left,            \* clocks that run_until() has still to run
    \* History:
    segment, heard,  \* of the last run, as in NesApu
    level,           \* of each buffer
    lost             \* was last_amp forgotten where it could not be taken back?

vars == <<kind, osc, select, muted, next_frame_time, frame_count, clocks, calls, left,
          segment, heard, level, lost>>

IsSquare == kind \in {"square1", "square2"}
output   == IF muted THEN 0 ELSE select

-----------------------------------------------------------------------------
clock_length(o) ==
    [o EXCEPT !.length = IF o.len_enabled /\ @ > 0 THEN @ - 1 ELSE @]

clock_envelope(o) ==
    LET v == o.volume + (IF o.env.up THEN 1 ELSE -1)
    IN  IF o.env_delay = 0 THEN o
        ELSE IF o.env_delay > 1 THEN [o EXCEPT !.env_delay = @ - 1]
        ELSE [o EXCEPT !.env_delay = o.env.period,
                       !.volume = IF v \in 0..(VolMax - 1) THEN v ELSE @]

clock_sweep(o) ==
    LET offset == o.sweep_freq \div 2^o.sweep.shift
        freq   == o.sweep_freq + (IF o.sweep.down THEN -offset ELSE offset)
    IN  IF o.sweep.period = 0 \/ o.sweep_delay = 0 THEN o
        ELSE IF o.sweep_delay > 1 THEN [o EXCEPT !.sweep_delay = @ - 1]
        ELSE [o EXCEPT !.freq = o.sweep_freq % FreqLimit,
                       !.sweep_freq = IF freq >= FreqLimit THEN FreqLimit ELSE freq,
                       !.sweep_delay = IF freq >= FreqLimit THEN 0 ELSE o.sweep.period]

\* A frame: lengths at 256 Hz, the envelope at 64 Hz, the sweep at 128 Hz.
Framed(o) ==
    LET count == (frame_count + 1) % 4
        timed == clock_length(o)
        faded == IF count = 0 /\ kind # "wave" THEN clock_envelope(timed) ELSE timed
    IN  IF count % 2 = 1 /\ kind = "square1" THEN clock_sweep(faded) ELSE faded

-----------------------------------------------------------------------------
Playing(o) == o.enabled /\ o.volume # 0 /\ (~o.len_enabled \/ o.length > 0)

Duties  == <<1, 2, 4, 6>>
duty(o) == Duties[o.duty + 1]

TooHigh(o) ==
    CASE IsSquare -> o.freq = 0 \/ o.freq > FreqLimit - SquareHigh
      [] kind = "wave" -> o.freq = 0 \/ o.freq > FreqLimit - WaveHigh
      [] kind = "noise" -> FALSE

Sounding(o) == Playing(o) /\ ~TooHigh(o) /\ (IsSquare => o.sweep_freq # FreqLimit)

Period(o) == CASE IsSquare -> (FreqLimit - o.freq) * SquareStep
               [] kind = "wave" -> (FreqLimit - o.freq) * WaveStep
               [] kind = "noise" -> o.noise_period

SquareRun(o, k) ==
    LET amp == IF TooHigh(o) THEN o.volume \div 2
               ELSE IF ~Sounding(o) THEN 0
               ELSE IF o.phase >= duty(o) THEN -o.volume ELSE o.volume
        loop(st, t) == LET phase == (st.phase + 1) % 8
                           delta == IF phase \in {0, duty(o)} THEN -st.delta ELSE st.delta
                       IN  [phase |-> phase, delta |-> delta,
                            out |-> IF delta = st.delta THEN st.out
                                    ELSE Offset(st.out, t, delta)]
        st == FoldLeft(loop, [phase |-> o.phase, delta |-> 2 * amp,
                              out |-> Offset(Empty(k), 0, amp - o.last_amp)],
                       IF Sounding(o) THEN Ticks(o.delay, Period(o), k) ELSE <<>>)
    IN  Ran([o EXCEPT !.phase = st.phase, !.last_amp = IF Sounding(o) THEN st.delta \div 2 ELSE amp,
                      !.delay = IF Sounding(o) THEN Remaining(@, Period(o), k) ELSE 0], st.out)

tap(o)     == IF o.short THEN ShortTap ELSE LongTap
NoiseRun(o, k) ==
    LET amp == IF ~Playing(o) THEN 0
               ELSE IF Bit(o.bits, tap(o) + 1) = 1 THEN -o.volume ELSE o.volume
        loop(st, t) == LET changed == Bit(st.bits, tap(o)) # Bit(st.bits, tap(o) + 1)
                       IN  [bits |-> (2 * st.bits + (IF changed THEN 1 ELSE 0))
                                         % 2^(LongTap + 2),
                            delta |-> IF changed THEN -st.delta ELSE st.delta,
                            out |-> IF changed THEN Offset(st.out, t, -st.delta) ELSE st.out]
        st == FoldLeft(loop, [bits |-> o.bits, delta |-> 2 * amp,
                              out |-> Offset(Empty(k), 0, amp - o.last_amp)],
                       IF Playing(o) THEN Ticks(o.delay, Period(o), k) ELSE <<>>)
    IN  Ran([o EXCEPT !.bits = st.bits, !.last_amp = st.delta \div 2,
                      !.delay = IF Playing(o) THEN Remaining(@, Period(o), k) ELSE 0], st.out)

volume_shift(o) == (o.volume - 1) % 8
Sample(o, pos)  == 2 * (o.wave[pos + 1] \div 2^volume_shift(o))

WaveRun(o, k) ==
    LET amp == IF ~Playing(o) THEN 0
               ELSE IF TooHigh(o) THEN (2 * VolMax) \div 2^volume_shift(o)
               ELSE Sample(o, o.wave_pos)
        loop(st, t) == LET a == Sample(o, st.pos)
                       IN  [pos |-> (st.pos + 1) % WaveSize, amp |-> a,
                            out |-> Offset(st.out, t, a - st.amp)]
        ticks == IF Sounding(o) THEN Ticks(o.delay, Period(o), k) ELSE <<>>
        st == FoldLeft(loop, [pos |-> (o.wave_pos + 1) % WaveSize, amp |-> amp,
                              out |-> Offset(Empty(k), 0, amp - o.last_amp)], ticks)
    IN  Ran([o EXCEPT !.wave_pos = (st.pos - 1) % WaveSize, !.last_amp = st.amp,
                      !.delay = IF Sounding(o) THEN Remaining(@, Period(o), k) ELSE 0], st.out)

Run(o, k) == CASE IsSquare -> SquareRun(o, k)
               [] kind = "noise" -> NoiseRun(o, k)
               [] kind = "wave" -> WaveRun(o, k)

-----------------------------------------------------------------------------
(***************************************************************************)
(* Gb_Apu.                                                                 *)
(***************************************************************************)
RunUntil(k) ==
    /\ left = 0
    /\ clocks + k <= MaxClocks
    /\ clocks' = clocks + k
    /\ left' = k
    /\ segment' = -1 /\ heard' = <<>>
    /\ UNCHANGED <<kind, osc, select, muted, next_frame_time, frame_count, calls, level, lost>>

RunSegment ==
    /\ left > 0
    /\ LET k     == Lesser(next_frame_time, left)
           ran   == IF output = 0 THEN Ran(osc, Empty(k)) ELSE Run(osc, k)
           frame == k < left
       IN  /\ left' = left - k
           /\ segment' = k /\ heard' = ran.out
           /\ level' = IF output = 0 THEN level
                       ELSE [level EXCEPT ![output] = @ + FoldFunction(+, 0, ran.out)]
           /\ osc' = IF frame THEN Framed(ran.osc) ELSE ran.osc
           /\ frame_count' = IF frame THEN (frame_count + 1) % 4 ELSE frame_count
           /\ next_frame_time' = IF frame THEN FramePeriod ELSE next_frame_time - k
    /\ UNCHANGED <<kind, select, muted, clocks, calls, lost>>

\* A call, at the time that the chip has been run to.
Client ==
    /\ left = 0
    /\ calls < MaxCalls
    /\ calls' = calls + 1
    /\ segment' = -1 /\ heard' = <<>>
    /\ UNCHANGED <<kind, next_frame_time, frame_count, clocks, left>>

Write(o) == Client /\ osc' = o /\ UNCHANGED <<select, muted, level, lost>>

\* Register 0: the sweep, or the wave's converter.
WriteSweep(s) == kind = "square1" /\ Write([osc EXCEPT !.sweep = s])
WriteWaveOn(on) ==
    kind = "wave" /\ Write([osc EXCEPT !.on = on, !.enabled = @ /\ on])

\* Register 1: length and duty.
WriteLength(n, d) ==
    Write([osc EXCEPT !.length = n, !.duty = IF IsSquare THEN d ELSE @])

\* Register 2: the envelope, or the wave's volume.
WriteEnvelope(e) ==
    Write(IF kind = "wave" THEN [osc EXCEPT !.volume = Lesser(3, e.vol)]
          ELSE [osc EXCEPT !.env = e, !.enabled = @ /\ e.vol # 0])

\* write_osc() of register 4 with its trigger bit.
Triggered(o) ==
    LET begun == [o EXCEPT !.enabled = TRUE,
                           !.length = IF @ = 0 THEN LengthOf ELSE @]
        env   == [begun EXCEPT !.env_delay = o.env.period, !.volume = o.env.vol]
        swept == [env EXCEPT !.sweep_freq = o.freq]
    IN  CASE kind = "wave" -> IF o.on THEN [begun EXCEPT !.wave_pos = 0] ELSE o
          [] kind = "noise" -> [env EXCEPT !.bits = 2^(LongTap + 2) - 1]
          [] kind = "square2" -> env
          [] kind = "square1" ->
               IF o.sweep.period > 0 /\ o.sweep.shift > 0
               THEN clock_sweep([swept EXCEPT !.sweep_delay = 1]) ELSE swept

\* Registers 3 and 4: pitch, whether the length counts, and the trigger.
WritePitch(p, counts, trigger) ==
    LET o == [osc EXCEPT !.freq = p.freq, !.short = p.short, !.noise_period = p.period,
                         !.len_enabled = counts]
    IN  Write(IF trigger THEN Triggered(o) ELSE o)

WriteWave(w) == kind = "wave" /\ Write([osc EXCEPT !.wave = w])

\* Register 0xFF24, if it changes: back to zero in the volume of before.
WriteVolume ==
    /\ Client
    /\ LET amp   == osc.last_amp
           taken == osc.enabled /\ output # 0
       IN  /\ osc' = [osc EXCEPT !.last_amp = 0]
           /\ level' = IF taken THEN [level EXCEPT ![output] = @ - amp] ELSE level
           /\ lost' = (lost \/ (amp # 0 /\ ~taken))
    /\ UNCHANGED <<select, muted>>

\* What 0xFF25 and 0xFF26 do: another buffer, or none.
Panned_faulty(o, to) ==   \* mutant: the new buffer is told of the old level
    /\ select' = to
    /\ osc' = o
    /\ UNCHANGED <<level, lost>>
Panned(o, to) ==
    LET moved == ~muted /\ to # select \* if muted, both are null
    IN  /\ select' = to
        /\ osc' = IF moved THEN [o EXCEPT !.last_amp = 0] ELSE o
        /\ level' = IF moved /\ select # 0 THEN [level EXCEPT ![select] = @ - osc.last_amp]
                                           ELSE level
        /\ lost' = (lost \/ (muted /\ to # select /\ osc.last_amp # 0))

WritePan(to) == Client /\ Panned(osc, to) /\ UNCHANGED muted

\* Power off writes every register with its value at power up.
PoweredUp(o) ==
    LET silent == [o EXCEPT !.sweep = [period |-> 0, shift |-> 0, down |-> FALSE],
                            !.duty = 0, !.length = 1, !.freq = FreqLimit - 1,
                            !.len_enabled = FALSE, !.volume = 0, !.short = FALSE,
                            !.noise_period = NoisePeriod,
                            !.on = FALSE, !.enabled = FALSE,
                            !.env = [vol |-> 0, up |-> FALSE, period |-> 0]]
    IN  Triggered(silent)

PowerOff == Client /\ Panned(PoweredUp(osc), 0) /\ UNCHANGED muted

\* osc_output()
Mute == Client /\ muted' = ~muted /\ UNCHANGED <<osc, select, level, lost>>

-----------------------------------------------------------------------------
\* reset(), power on, and the first notes of the tune.
Init ==
    /\ kind \in Kinds
    /\ \E s \in Setups, w \in Wave :
         osc = Triggered([delay |-> 0, last_amp |-> 0, length |-> s.length,
                 len_enabled |-> s.len_enabled, enabled |-> FALSE, env_delay |-> 0,
                 env |-> s.env, volume |-> Lesser(3, s.env.vol), sweep |-> s.sweep,
                 sweep_freq |-> 0, sweep_delay |-> 0, freq |-> s.freq, duty |-> s.duty,
                 phase |-> 0, wave_pos |-> 0, wave |-> w, on |-> TRUE, bits |-> 0,
                 short |-> s.short, noise_period |-> s.period])
    /\ select = 3
    /\ muted = FALSE
    /\ next_frame_time = 0 /\ frame_count = 0
    /\ clocks = 0 /\ calls = 0 /\ left = 0
    /\ segment = -1 /\ heard = <<>> /\ level = [b \in 1..3 |-> 0] /\ lost = FALSE

Next ==
    \/ \E k \in Runs : RunUntil(k)
    \/ RunSegment
    \/ \E s \in Sweeps : WriteSweep(s)
    \/ \E on \in BOOLEAN : WriteWaveOn(on)
    \/ \E n \in Lengths, d \in {0, 3} : WriteLength(n, d)
    \/ \E e \in Envelopes : WriteEnvelope(e)
    \/ \E p \in Pitches, counts, trigger \in BOOLEAN : WritePitch(p, counts, trigger)
    \/ \E w \in Wave : WriteWave(w)
    \/ WriteVolume
    \/ \E to \in 0..3 : WritePan(to)
    \/ PowerOff
    \/ Mute

Spec == Init /\ [][Next]_vars

-----------------------------------------------------------------------------
(***************************************************************************)
(* The oscillators clock by clock.                                         *)
(***************************************************************************)
Amplitude(o) ==
    CASE IsSquare -> IF TooHigh(o) THEN o.volume \div 2
                     ELSE IF ~Sounding(o) THEN 0
                     ELSE IF o.phase < duty(o) THEN o.volume ELSE -o.volume
      [] kind = "noise" -> IF ~Playing(o) THEN 0
                           ELSE (1 - 2 * Bit(o.bits, tap(o) + 1)) * o.volume
      [] kind = "wave" -> IF ~Playing(o) THEN 0
                          ELSE IF TooHigh(o) THEN (2 * VolMax) \div 2^volume_shift(o)
                          ELSE Sample(o, o.wave_pos)

Held(o) == IF Sounding(o) THEN o ELSE [o EXCEPT !.delay = 0]

Expired(o) ==
    LET b == tap(o)
        n == [o EXCEPT !.delay = Period(o) - 1]
    IN  CASE IsSquare -> [n EXCEPT !.phase = (@ + 1) % 8]
          [] kind = "wave" -> [n EXCEPT !.wave_pos = (@ + 1) % WaveSize]
          [] kind = "noise" ->
               [n EXCEPT !.bits = (2 * @ + (IF Bit(@, b) # Bit(@, b + 1) THEN 1 ELSE 0))
                                      % 2^(LongTap + 2)]

Clock(o) == IF ~Sounding(o) THEN o
            ELSE IF o.delay > 0 THEN [o EXCEPT !.delay = @ - 1] ELSE Expired(o)

-----------------------------------------------------------------------------
(***************************************************************************)
(* Properties                                                              *)
(***************************************************************************)

\* However the runs are cut, what is heard and kept is what counting every clock
\* gives: the edges of the duty, the register of the noise, the wave's memory.
Waveform ==
    (segment' >= 0 /\ output # 0) =>
        LET k     == segment'
            ended == ClockedOsc(Held(osc), k, Clock, Amplitude)
        IN  /\ heard' = ClockedWave(Held(osc), k, Clock, Amplitude)
            /\ osc' = IF left' > 0 THEN Framed(ended) ELSE ended

\* The oscillator's amplitude is in the buffer that it is panned to and in no
\* other, through panning, volume, power and muting: what it has left in a
\* buffer, no later change would take back.  (It stays there when a muted
\* oscillator is panned or the volume is written while it is muted or disabled.)
LevelKept ==
    ~lost => \A b \in 1..3 : level[b] = IF b = select THEN osc.last_amp ELSE 0
=============================================================================
