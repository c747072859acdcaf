-------------------------------- MODULE AyApu --------------------------------
(***************************************************************************)
(* The AY-3-8910 of Spectrum, Amstrad and MSX music: gme/Ay_Apu.cpp.       *)
(*                                                                         *)
(* Every channel is run by itself from one access to the next: its tone,   *)
(* the noise that the channels share and the envelope that they share are  *)
(* interleaved, each catching up with the others, and what a channel did   *)
(* with the noise is kept by whichever used it last.                       *)
(***************************************************************************)
EXTENDS Oscillator

CONSTANTS
    Channels,      \* numbers of the oscs: 1 to 3
    Factor,        \* period_factor, 16
    Inaudible,     \* tones of a period up to this one are at half volume
    EnvSize,       \* 16 steps in each of the three parts of an envelope
    LfsrWidth,     \* 17: the bit that feeds back, and the second one ...
    LfsrTap,       \* ... 13 (0x12000)
    Stray,         \* the bytes that may lie before the table of envelopes
    Runs,          \* clocks between two accesses
    Tones, Mixers, Volumes, NoisePeriods, EnvPeriods, EnvModes, \* what is written
    Setups,        \* registers that a tune's first writes leave
    MaxClocks, MaxCalls

VARIABLES
    oscs,            \* channel -> tone, volume and mixer bits
    noise, env,
    stray,           \* what reading before the table gives
    clocks, calls,   \* so far
    \* History:
    segment,         \* clocks of the last run, or -1
    heard,           \* channel -> changes of level
    ran,             \* oscs and noise when it ended, before anything was written
    level            \* channel -> what its buffer has come to

vars == <<oscs, noise, env, stray, clocks, calls, segment, heard, ran, level>>

VolMax == EnvSize - 1

-----------------------------------------------------------------------------
\* The upper 8 envelopes: start and end of each of their three parts.
modes == << <<1,0, 1,0, 1,0>>, <<1,0, 0,0, 0,0>>, <<1,0, 0,1, 1,0>>, <<1,0, 1,1, 1,1>>,
            <<0,1, 0,1, 0,1>>, <<0,1, 1,1, 1,1>>, <<0,1, 1,0, 0,1>>, <<0,1, 0,0, 0,0>> >>

Shape(mode, pos) ==
    LET part == (pos + 3 * EnvSize) \div EnvSize
        amp  == modes[mode - 7][2 * part + 1]
        end  == modes[mode - 7][2 * part + 2]
    IN  amp * VolMax + (end - amp) * ((pos + 3 * EnvSize) % EnvSize)

\* env.wave points behind an envelope and pos is negative; behind the last one
\* is (data - 7) & 7 = 0, the start of the table.
EnvWave(pos) == IF (env.mode - 7) % 8 = 0 THEN stray ELSE Shape(env.mode, pos)

NextPos(pos) == IF pos + 1 >= 0 THEN pos + 1 - 2 * EnvSize ELSE pos + 1

PosAfter(n) == LET pos[i \in 0..n] == IF i = 0 THEN env.pos ELSE NextPos(pos[i - 1])
               IN  pos[n]

\* A delay of 0 becomes a period at the next run.
EnvDelay == IF env.delay = 0 THEN env.period ELSE env.delay

-----------------------------------------------------------------------------
(***************************************************************************)
(* One channel in run_until().                                             *)
(***************************************************************************)
Half(o) == o.period <= Inaudible /\ ~o.tone_off

Volume(o, pos) == (IF o.vol.env THEN EnvWave(pos) ELSE o.vol.level)
                      \div (IF Half(o) THEN 2 ELSE 1)

\* A repeating wave, or a ramp that has not finished.
Stepping(o) == o.vol.env /\ (env.mode % 2 = 0 \/ env.pos < -2 * EnvSize)

\* Nothing to hear: only the tone's phase is maintained.
Still(o) == ~Stepping(o) /\ Volume(o, env.pos) = 0

ToneOff(o)  == o.tone_off \/ Half(o) \/ Still(o)
NoiseOff(o) == o.noise_off \/ Still(o)

\* From one step of the envelope to the next: its time and volume.
Steps(o, k) ==
    LET at == IF Stepping(o) THEN Ticks(EnvDelay, env.period, k) ELSE <<>>
        n  == Len(at)
    IN  [i \in 1..(n + 1) |-> [start  |-> IF i = 1 THEN 0 ELSE at[i - 1],
                               end    |-> IF i > n THEN k ELSE at[i],
                               volume |-> Volume(o, PosAfter(i - 1))]]

Shifted(n) ==
    LET half == n \div 2
        tap  == 2^LfsrTap
    IN  IF n % 2 = 0 THEN half
        ELSE half + 2^(LfsrWidth - 1) + (IF Bit(half, LfsrTap) = 1 THEN -tap ELSE tap)

Turned(st, t) == [st EXCEPT !.delta = -@, !.out = Offset(@, t, -st.delta)]

NoiseTick(st, t) ==
    LET turned == IF Bit(st.lfsr, 0) # Bit(st.lfsr, 1) THEN Turned(st, t) ELSE st
    IN  [turned EXCEPT !.lfsr = Shifted(@)]

\* The noise, up to the next turn of the tone (it must advance past it).
RunNoise(st, end, volume) ==
    LET ticks == Ticks(st.ntime, noise.period, Lesser(end, st.time) + 1)
        past  == st.ntime + Len(ticks) * noise.period
    IN  IF st.phase = 1 /\ volume # 0
        THEN [FoldLeft(NoiseTick, st, ticks) EXCEPT !.ntime = past]
        ELSE [st EXCEPT !.ntime = past]

\* The tone, up to the next step of the noise.
RunTone(st, end, period, volume) ==
    LET ticks == Ticks(st.time, period, Lesser(end, st.ntime))
        past  == st.time + Len(ticks) * period
        turned == FoldLeft(Turned, st, ticks)
    IN  IF st.lfsr % 2 = 1 /\ volume # 0
        THEN [turned EXCEPT !.time = past, !.phase = IF turned.delta > 0 THEN 1 ELSE 0]
        ELSE [st EXCEPT !.time = past, !.phase = (@ + Len(ticks)) % 2]

\* Noise and tone in turns until both are at the end of the step.
InTurns(st, s, period) ==
    LET pass[n \in 0..(s.end - s.start + 1)] ==
            IF n = 0 THEN st
            ELSE LET last == pass[n - 1]
                 IN  IF last.time >= s.end /\ last.ntime >= s.end THEN last
                     ELSE RunTone(RunNoise(last, s.end, s.volume), s.end, period, s.volume)
    IN  pass[s.end - s.start + 1]

StepEnds(st, s) == [st EXCEPT !.last_amp = (st.delta + s.volume) \div 2]

RunStep(o, st, s) ==
    LET amp   == IF st.phase = 1 /\ st.lfsr % 2 = 1 THEN s.volume ELSE 0
        start == [st EXCEPT !.out = Offset(@, s.start, amp - st.last_amp),
                            !.delta = amp * 2 - s.volume, !.last_amp = amp]
    IN  StepEnds(InTurns(start, s, o.period), s)

\* The tone's phase is maintained when it is off.
ToneTicks(o, k) == IF k - o.delay + o.period - 1 < 0 THEN 0
                   ELSE (k - o.delay + o.period - 1) \div o.period

ChannelEnds(o, st, n, k) ==
    [osc |-> [o EXCEPT !.delay = st.time - k, !.last_amp = st.last_amp,
                       !.phase = IF ToneOff(o) THEN (@ + n) % 2 ELSE st.phase],
     out |-> st.out,
     noise |-> [noise EXCEPT !.delay = st.ntime - k, !.lfsr = st.lfsr]]

ChannelRun(o, k) ==
    LET n  == ToneTicks(o, k)
        st == [time  |-> IF ToneOff(o) THEN o.delay + n * o.period ELSE o.delay,
               ntime |-> IF NoiseOff(o) THEN k ELSE noise.delay,
               lfsr  |-> IF NoiseOff(o) THEN 1 ELSE noise.lfsr,
               phase |-> IF ToneOff(o) THEN 1 ELSE o.phase,
               last_amp |-> o.last_amp, delta |-> 0, out |-> Empty(k)]
    IN  ChannelEnds(o, FoldLeft(LAMBDA t, s : RunStep(o, t, s), st, Steps(o, k)), n, k)

\* The phase of the envelope is maintained.
EnvRun(k) ==
    LET remain == k - EnvDelay
        count  == IF remain >= 0 THEN (remain + env.period) \div env.period ELSE 0
        pos    == env.pos + count
    IN  [env EXCEPT !.pos = IF pos >= 0 THEN (pos % (2 * EnvSize)) - 2 * EnvSize ELSE pos,
                    !.delay = count * env.period - remain]

\* run_until(): the noise is what the last channel that uses it leaves.
NoiseUsers == {c \in Channels : oscs[c].output /\ ~NoiseOff(oscs[c])}

AllRan(runs, k) ==
    [oscs |-> [c \in Channels |-> runs[c].osc],
     heard |-> [c \in Channels |-> runs[c].out],
     noise |-> IF NoiseUsers = {} THEN noise
               ELSE runs[CHOOSE c \in NoiseUsers : \A d \in NoiseUsers : d <= c].noise,
     env |-> EnvRun(k)]

RunUntil(k) ==
    AllRan([c \in Channels |-> IF oscs[c].output THEN ChannelRun(oscs[c], k)
                               ELSE [osc |-> oscs[c], out |-> Empty(k), noise |-> noise]], k)

-----------------------------------------------------------------------------
(***************************************************************************)
(* write(): run_until(), also for no time at all, and then write_data_().  *)
(* end_frame() does the first of them only.                                *)
(***************************************************************************)
RunFor(k, run) ==
    /\ clocks + k <= MaxClocks
    /\ clocks' = clocks + k
    /\ segment' = k
    /\ heard' = run.heard
    /\ ran' = [oscs |-> run.oscs, noise |-> run.noise]
    /\ level' = [c \in Channels |-> level[c] + FoldFunction(+, 0, run.heard[c])]
    /\ stray' \in Stray

EndFrame(run) ==
    /\ segment' > 0
    /\ oscs' = run.oscs /\ noise' = run.noise /\ env' = run.env
    /\ UNCHANGED calls

Write == calls < MaxCalls /\ calls' = calls + 1

\* Registers 0 to 5.
WriteTone(run, c, p) ==
    /\ Write
    /\ LET o == run.oscs[c]
           period == IF p = 0 THEN Factor ELSE p * Factor
           delay  == o.delay + period - o.period
       IN  oscs' = [run.oscs EXCEPT ![c] = [o EXCEPT !.period = period,
                                                     !.delay = IF delay < 0 THEN 0 ELSE delay]]
    /\ noise' = run.noise /\ env' = run.env

\* Register 7, and 8 to 10.
WriteMixer(run, c, m) ==
    /\ Write
    /\ oscs' = [run.oscs EXCEPT ![c].tone_off = m.tone_off, ![c].noise_off = m.noise_off]
    /\ noise' = run.noise /\ env' = run.env

WriteVolume(run, c, v) ==
    /\ Write
    /\ oscs' = [run.oscs EXCEPT ![c].vol = v]
    /\ noise' = run.noise /\ env' = run.env

\* Registers 6, and 11 and 12: they count from the next reload.
PeriodOf(n) == (IF n = 0 THEN 1 ELSE n) * Factor * 2

WriteNoise(run, n) ==
    /\ Write
    /\ noise' = [run.noise EXCEPT !.period = PeriodOf(n)]
    /\ oscs' = run.oscs /\ env' = run.env

WriteEnvPeriod(run, n) ==
    /\ Write
    /\ env' = [run.env EXCEPT !.period = PeriodOf(n)]
    /\ oscs' = run.oscs /\ noise' = run.noise

\* Register 13 starts the envelope again.
WriteEnvMode(run, data) ==
    /\ Write
    /\ env' = [run.env EXCEPT !.pos = -3 * EnvSize, !.delay = 0,
                 !.mode = IF data >= 8 THEN data ELSE IF data >= 4 THEN 15 ELSE 9]
    /\ oscs' = run.oscs /\ noise' = run.noise

\* osc_output()
Mute(c) ==
    /\ calls < MaxCalls
    /\ calls' = calls + 1
    /\ oscs' = [oscs EXCEPT ![c].output = ~@]
    /\ segment' = -1 /\ heard' = <<>> /\ ran' = <<>>
    /\ UNCHANGED <<noise, env, stray, clocks, level>>

-----------------------------------------------------------------------------
\* reset() and what a tune writes at first.
Init ==
    /\ \E s \in Setups :
         /\ oscs = [c \in Channels |->
                      [period |-> s.tone[c] * Factor, delay |-> (s.tone[c] - 1) * Factor,
                       last_amp |-> 0, phase |-> 0, output |-> TRUE,
                       vol |-> s.vol[c], tone_off |-> s.mixer[c].tone_off,
                       noise_off |-> s.mixer[c].noise_off]]
         /\ noise = [delay |-> 0, lfsr |-> 1, period |-> s.noise * Factor * 2]
         /\ env = [delay |-> 0, pos |-> -3 * EnvSize, period |-> s.env * Factor * 2,
                   mode |-> s.mode]
    /\ stray \in Stray
    /\ clocks = 0 /\ calls = 0
    /\ segment = -1 /\ heard = <<>> /\ ran = <<>> /\ level = [c \in Channels |-> 0]

Next ==
    \/ \E k \in Runs : \E run \in {RunUntil(k)} :
         /\ RunFor(k, run)
         /\ \/ EndFrame(run)
            \/ \E c \in Channels, p \in Tones : WriteTone(run, c, p)
            \/ \E c \in Channels, m \in Mixers : WriteMixer(run, c, m)
            \/ \E c \in Channels, v \in Volumes : WriteVolume(run, c, v)
            \/ \E n \in NoisePeriods : WriteNoise(run, n)
            \/ \E n \in EnvPeriods : WriteEnvPeriod(run, n)
            \/ \E m \in EnvModes : WriteEnvMode(run, m)
    \/ \E c \in Channels : Mute(c)

Spec == Init /\ [][Next]_vars

-----------------------------------------------------------------------------
(***************************************************************************)
(* Tone and envelope clock by clock.                                       *)
(***************************************************************************)
ToneClock(o) == IF o.delay > 0 THEN [o EXCEPT !.delay = @ - 1]
                ELSE [o EXCEPT !.delay = o.period - 1, !.phase = 1 - @]

EnvClock(e) == IF e.delay > 1 THEN [e EXCEPT !.delay = @ - 1]
               ELSE [e EXCEPT !.delay = env.period, !.pos = NextPos(@)]

\* In each clock of a run: is the tone high, and the volume that it is heard at.
Playing(o, k) ==
    LET tone == Clocked(o, k, ToneClock)
        wave == Clocked([env EXCEPT !.delay = EnvDelay], k, EnvClock)
    IN  [t \in 0..(k - 1) |-> [high |-> o.tone_off \/ Half(o) \/ tone[t + 1].phase = 1,
                               volume |-> Volume(o, wave[t].pos)]]

\* What has been heard by then.
Amps(o, out, k) ==
    LET amp[t \in -1..(k - 1)] == IF t < 0 THEN o.last_amp ELSE amp[t - 1] + out[t]
    IN  amp

Played == IF segment' > 0 THEN {c \in Channels : oscs[c].output} ELSE {}

-----------------------------------------------------------------------------
(***************************************************************************)
(* Properties                                                              *)
(***************************************************************************)

\* A channel without noise is heard exactly as its tone and the envelope have it
\* clock by clock, and every channel keeps its tone's phase, heard or not.  Noise
\* is heard only while the tone is high, at the volume that the envelope has
\* then, and while neither changes it turns on and off at the noise's own pace,
\* whatever the other channel does with it.
Waveform ==
    \A c \in Played :
        LET o    == oscs[c]
            k    == segment'
            tone == Clocked(o, k, ToneClock)[k]
            is   == Playing(o, k)
            amp  == Amps(o, heard'[c], k)
        IN  /\ ran'.oscs[c].phase = tone.phase
            /\ ran'.oscs[c].delay = tone.delay
            /\ \A t \in 0..(k - 1) :
                 /\ amp[t] = 0 \/ (is[t].high /\ amp[t] = is[t].volume)
                 /\ o.noise_off => amp[t] = IF is[t].high THEN is[t].volume ELSE 0
                 /\ (t > 0 /\ amp[t] # amp[t - 1]) =>
                       is[t] # is[t - 1] \/ (t - noise.delay) % noise.period = 0

\* What a channel remembers of its level is what its buffer has; the envelope is
\* where the assertions of run_until() want it.
AyInv ==
    /\ \A c \in Channels : level[c] = oscs[c].last_amp
    /\ env.pos \in (-3 * EnvSize)..(-1)
    /\ \A c \in Channels : oscs[c].delay \in 0..oscs[c].period
=============================================================================
