------------------------------- MODULE SmallApus -------------------------------
(***************************************************************************)
(* The smaller sound chips: Konami's VRC6, the Namco 106 and Sunsoft's     *)
(* FME-7 of NES cartridges, Konami's SCC of MSX cartridges, and the        *)
(* SN76489 of the Master System (gme/Nes_Vrc6_Apu.cpp, Nes_Namco_Apu.cpp,  *)
(* Nes_Fme7_Apu.cpp, Kss_Scc_Apu.*, Sms_Apu.cpp).                          *)
(*                                                                         *)
(* One of their oscillators at a time, run lazily as in NesApu.  They      *)
(* differ in what a silent one does: it stands still, keeps its phase, or  *)
(* keeps the level that it has.                                            *)
(***************************************************************************)
EXTENDS Oscillator

CONSTANTS
    Kinds,         \* of "vrc6_square", "vrc6_saw", "namco", "fme7", "scc",
                   \* "sms_square", "sms_noise"
    SquareSteps,   \* 16: phases of a VRC6 square
    SawSteps,      \* 7: additions in a tooth of the VRC6 saw ...
    SawRange,      \* ... 256, in its accumulator ...
    SawShift,      \* ... 8, and what is left of it
    TooHigh,       \* kind -> periods up to this one are silent
    Factor,        \* 16: clocks of a unit of the FME-7's period
    NamcoBeyond,   \* samples that may lie behind the Namco's 256
    NoiseWidth,    \* 16, and the tap of the Master System's noise
    NoiseTap,
    NoiseShortest, \* 16: the period of noise if the square's is 0
    Runs,          \* clocks between two accesses
    Setups,        \* kind -> registers that a tune's first writes leave
    Writes,        \* kind -> what one register is written later
    MaxClocks, MaxCalls

VARIABLES
    kind, osc,
    select, muted,   \* as in GbApu
    clocks, calls,
    segment, heard, level, lost \* history

vars == <<kind, osc, select, muted, clocks, calls, segment, heard, level, lost>>

IsSms  == kind \in {"sms_square", "sms_noise"}
output == IF muted THEN 0 ELSE select

-----------------------------------------------------------------------------
(***************************************************************************)
(* VRC6.                                                                   *)
(***************************************************************************)
Vrc6Volume(o)  == IF o.regs.on THEN o.regs.vol ELSE 0
Vrc6Amp(o)     == IF o.regs.gate \/ o.phase < o.regs.duty THEN Vrc6Volume(o) ELSE 0
Vrc6Playing(o) == Vrc6Volume(o) # 0 /\ ~o.regs.gate /\ o.regs.period > TooHigh[kind]

\* The edges of the duty only; 0 is never one of its lengths.
run_square(o, k) ==
    LET edge(phase) == CASE phase = 0 -> Vrc6Volume(o)
                         [] phase = o.regs.duty -> -Vrc6Volume(o)
                         [] OTHER -> 0
        loop(st, t) == LET phase == (st.phase + 1) % SquareSteps
                       IN  [phase |-> phase, amp |-> st.amp + edge(phase),
                            out |-> Offset(st.out, t, edge(phase))]
        st == FoldLeft(loop, [phase |-> o.phase, amp |-> Vrc6Amp(o),
                              out |-> Offset(Empty(k), 0, Vrc6Amp(o) - o.last_amp)],
                       IF Vrc6Playing(o) THEN Ticks(o.delay, o.regs.period, k) ELSE <<>>)
    IN  Ran([o EXCEPT !.phase = st.phase, !.last_amp = st.amp,
                      !.delay = IF Vrc6Playing(o) THEN Remaining(@, o.regs.period, k) ELSE 0],
            st.out)

SawPlaying(o) == o.regs.on /\ (o.regs.step # 0 \/ o.amp # 0)

run_saw(o, k) ==
    LET loop(st, t) == LET over == st.phase = 1
                           amp  == IF over THEN 0 ELSE st.amp
                       IN  [phase |-> IF over THEN SawSteps ELSE st.phase - 1,
                            amp |-> (amp + o.regs.step) % SawRange,
                            last |-> amp \div SawShift,
                            out |-> Offset(st.out, t, amp \div SawShift - st.last)]
        period == 2 * o.regs.period
        st == FoldLeft(loop, [phase |-> o.phase, amp |-> o.amp, last |-> o.last_amp,
                              out |-> Empty(k)], Ticks(o.delay, period, k))
        amp == o.amp \div SawShift
    IN  IF SawPlaying(o)
        THEN Ran([o EXCEPT !.phase = st.phase, !.amp = st.amp, !.last_amp = st.last,
                           !.delay = Remaining(@, period, k)], st.out)
        ELSE Ran([o EXCEPT !.delay = 0, !.last_amp = amp],
                 Offset(Empty(k), 0, amp - o.last_amp))

-----------------------------------------------------------------------------
(***************************************************************************)
(* Namco 106.  The registers give where the wave is in its memory; one     *)
(* that reaches beyond the end is read on.  A channel that is silent keeps *)
(* its level, and one that is not among the active ones its delay, too.    *)
(***************************************************************************)
NamcoPlaying(o) == o.regs.on /\ o.regs.vol # 0 /\ ~o.regs.slow

NamcoSample(o, pos) ==
    LET addr == pos + o.regs.addr
    IN  (IF addr < Len(o.mem) THEN o.mem[addr + 1] ELSE o.beyond) * o.regs.vol

NamcoRun(o, k) ==
    LET loop(st, t) == LET amp == NamcoSample(o, st.pos)
                       IN  [pos |-> IF st.pos + 1 >= o.regs.size THEN 0 ELSE st.pos + 1,
                            amp |-> amp, out |-> Offset(st.out, t, amp - st.amp)]
        st == FoldLeft(loop, [pos |-> o.phase, amp |-> o.last_amp, out |-> Empty(k)],
                       Ticks(o.delay, o.regs.period, k))
    IN  IF ~o.regs.active THEN Ran(o, Empty(k))
        ELSE IF o.delay >= k THEN Ran([o EXCEPT !.delay = @ - k], Empty(k))
        ELSE IF ~NamcoPlaying(o) THEN Ran([o EXCEPT !.delay = 0], Empty(k))
        ELSE Ran([o EXCEPT !.phase = st.pos, !.last_amp = st.amp,
                           !.delay = Remaining(@, o.regs.period, k)], st.out)

-----------------------------------------------------------------------------
(***************************************************************************)
(* Squares that turn at every tick: FME-7, Master System.                  *)
(***************************************************************************)
Period(o) == CASE kind = "fme7" -> (IF o.regs.period = 0 THEN 1 ELSE o.regs.period) * Factor
               [] kind = "sms_noise" -> IF o.regs.period = 0 THEN NoiseShortest
                                        ELSE 2 * o.regs.period
               [] OTHER -> o.regs.period

Audible(o) == o.regs.vol # 0 /\
    (CASE kind = "fme7" -> o.regs.period * Factor >= TooHigh[kind]
       [] kind = "scc" -> o.regs.on /\ o.regs.period > TooHigh[kind]
       [] kind = "sms_square" -> o.regs.period > TooHigh[kind]
       [] kind = "sms_noise" -> TRUE)

Volume(o) == IF Audible(o) THEN o.regs.vol ELSE 0

\* The level that a square's phase stands for: the FME-7's falls to nothing.
Level(o, phase) == IF phase = 1 THEN Volume(o) ELSE IF kind = "fme7" THEN 0 ELSE -Volume(o)

Stopped(o) == kind = "sms_square" /\ o.regs.period = 0

TurningRun(o, k) ==
    LET amp    == Level(o, o.phase)
        swing  == Level(o, 1) - Level(o, 0)
        ticks  == IF Stopped(o) THEN <<>> ELSE Ticks(o.delay, Period(o), k)
        loop(st, t) == [delta |-> -st.delta, out |-> Offset(st.out, t, -st.delta)]
        st == FoldLeft(loop, [delta |-> IF o.phase = 1 THEN swing ELSE -swing,
                              out |-> Offset(Empty(k), 0, amp - o.last_amp)],
                       IF Audible(o) THEN ticks ELSE <<>>)
        phase == (o.phase + Len(ticks)) % 2
    IN  Ran([o EXCEPT !.phase = phase, !.last_amp = Level(o, phase),
                      !.delay = IF Stopped(o) THEN 0 ELSE Remaining(@, Period(o), k)],
            st.out)

-----------------------------------------------------------------------------
(***************************************************************************)
(* The SCC's wave, in memory that the program writes; it keeps its phase.  *)
(***************************************************************************)
SccAmp(o, phase) == o.wave[phase + 1] * Volume(o)

SccRun(o, k) ==
    LET loop(st, t) == LET phase == (st.phase + 1) % Len(o.wave)
                           delta == o.wave[phase + 1] - o.wave[st.phase + 1]
                       IN  [phase |-> phase, out |-> Offset(st.out, t, delta * Volume(o))]
        ticks == Ticks(o.delay, o.regs.period, k)
        phase == (o.phase + Len(ticks)) % Len(o.wave)
        st == FoldLeft(loop, [phase |-> o.phase,
                              out |-> Offset(Empty(k), 0, SccAmp(o, o.phase) - o.last_amp)],
                       IF Audible(o) THEN ticks ELSE <<>>)
    IN  Ran([o EXCEPT !.phase = phase, !.last_amp = SccAmp(o, phase),
                      !.delay = Remaining(@, o.regs.period, k)], st.out)

-----------------------------------------------------------------------------
(***************************************************************************)
(* The Master System's noise stands still while its volume is 0.           *)
(***************************************************************************)
NoiseAmp(o) == IF o.shifter % 2 = 1 THEN -o.regs.vol ELSE o.regs.vol

Shifted(o) ==
    LET half == o.shifter \div 2
        tap  == IF ~o.white THEN 0 ELSE IF Bit(half, NoiseTap) = 1 THEN -2^NoiseTap ELSE 2^NoiseTap
    IN  IF o.shifter % 2 = 0 THEN half ELSE half + 2^(NoiseWidth - 1) + tap

NoiseRun(o, k) ==
    LET loop(st, t) ==
            LET delta == IF Bit(st.osc.shifter, 0) # Bit(st.osc.shifter, 1) THEN -st.delta
                         ELSE st.delta
            IN  [osc |-> [st.osc EXCEPT !.shifter = Shifted(st.osc)], delta |-> delta,
                 out |-> IF delta = st.delta THEN st.out ELSE Offset(st.out, t, delta)]
        st == FoldLeft(loop, [osc |-> o, delta |-> 2 * NoiseAmp(o),
                              out |-> Offset(Empty(k), 0, NoiseAmp(o) - o.last_amp)],
                       IF Audible(o) THEN Ticks(o.delay, Period(o), k) ELSE <<>>)
    IN  Ran([st.osc EXCEPT !.last_amp = st.delta \div 2,
                           !.delay = IF Audible(o) THEN Remaining(@, Period(o), k) ELSE 0],
            st.out)

Run(o, k) == CASE kind = "vrc6_square" -> run_square(o, k)
               [] kind = "vrc6_saw" -> run_saw(o, k)
               [] kind = "namco" -> NamcoRun(o, k)
               [] kind \in {"fme7", "sms_square"} -> TurningRun(o, k)
               [] kind = "scc" -> SccRun(o, k)
               [] kind = "sms_noise" -> NoiseRun(o, k)

-----------------------------------------------------------------------------
(***************************************************************************)
(* An access: run_until(), for no time at all if two are at the same time, *)
(* and then the register.                                                  *)
(***************************************************************************)
RunUntil(k) == IF output = 0 \/ (IsSms /\ k = 0) THEN Ran(osc, Empty(k)) ELSE Run(osc, k)

RunFor(k, run) ==
    /\ clocks + k <= MaxClocks
    /\ clocks' = clocks + k
    /\ segment' = k /\ heard' = run.out
    /\ UNCHANGED kind

Played(run) == IF output = 0 THEN level
               ELSE [level EXCEPT ![output] = @ + FoldFunction(+, 0, run.out)]

end_frame(k) ==
    LET run == RunUntil(k)
    IN  /\ k > 0 /\ RunFor(k, run)
        /\ osc' = run.osc /\ level' = Played(run)
        /\ UNCHANGED <<select, muted, calls, lost>>

Access == calls < MaxCalls /\ calls' = calls + 1

\* write_osc(), write_data(), write(): the fields of one register.  Any write
\* to the noise's register starts its shifter again.
Written(o, w) ==
    [o EXCEPT !.regs = w.regs @@ @,
              !.white = IF "white" \in DOMAIN w THEN w.white ELSE @,
              !.shifter = IF "white" \in DOMAIN w THEN 2^(NoiseWidth - 1) ELSE @]

write_osc(k, w) ==
    LET run == RunUntil(k)
    IN  /\ Access /\ RunFor(k, run)
        /\ osc' = Written(run.osc, w) /\ level' = Played(run)
        /\ UNCHANGED <<select, muted, lost>>

\* The memory of the wave: the Namco's is read by every channel, the SCC's is
\* the channel's own.
write_wave(k, pos, sample) ==
    LET run == RunUntil(k)
    IN  /\ kind \in {"namco", "scc"}
        /\ Access /\ RunFor(k, run)
        /\ osc' = IF kind = "scc" THEN [run.osc EXCEPT !.wave[pos] = sample]
                  ELSE [run.osc EXCEPT !.mem[pos] = sample]
        /\ level' = Played(run)
        /\ UNCHANGED <<select, muted, lost>>

\* The Master System's panning takes the level back from the old buffer.
write_ggstereo(k, to) ==
    LET run   == RunUntil(k)
        moved == ~muted /\ to # select \* if muted, both are null
        amp   == run.osc.last_amp
    IN  /\ IsSms
        /\ Access /\ RunFor(k, run)
        /\ select' = to
        /\ osc' = IF moved THEN [run.osc EXCEPT !.last_amp = 0] ELSE run.osc
        /\ level' = IF moved /\ select # 0 THEN [Played(run) EXCEPT ![select] = @ - amp]
                                           ELSE Played(run)
        /\ lost' = (lost \/ (muted /\ to # select /\ amp # 0))
        /\ UNCHANGED muted

\* osc_output(), between two calls of play().
osc_output ==
    /\ Access
    /\ muted' = ~muted
    /\ segment' = -1 /\ heard' = <<>>
    /\ UNCHANGED <<kind, osc, select, clocks, level, lost>>

-----------------------------------------------------------------------------
\* reset() and what a tune writes at first.
Init ==
    /\ kind \in Kinds
    /\ \E s \in Setups[kind], beyond \in NamcoBeyond :
         osc = [delay |-> 0, last_amp |-> 0, amp |-> 0, regs |-> s.regs,
                phase |-> CASE kind = "vrc6_square" -> 1
                            [] kind = "vrc6_saw" -> 1
                            [] OTHER -> 0,
                mem |-> s.mem, wave |-> s.wave, beyond |-> beyond,
                shifter |-> 2^(NoiseWidth - 1), white |-> s.white]
    /\ select = 3 /\ muted = FALSE
    /\ clocks = 0 /\ calls = 0
    /\ segment = -1 /\ heard = <<>> /\ level = [b \in 1..3 |-> 0] /\ lost = FALSE

Next ==
    \/ \E k \in Runs : end_frame(k)
    \/ \E k \in Runs : \E w \in Writes[kind] : write_osc(k, w)
    \/ \E k \in Runs, pos \in {1, 2}, sample \in {1, 3} : write_wave(k, pos, sample)
    \/ \E k \in Runs, to \in 0..3 : write_ggstereo(k, to)
    \/ osc_output

Spec == Init /\ [][Next]_vars

-----------------------------------------------------------------------------
(***************************************************************************)
(* The oscillators clock by clock: a timer that stands at 0 expires, and   *)
(* what it does is to step; Standing is a timer that is held.              *)
(***************************************************************************)
Standing(o) ==
    CASE kind = "vrc6_square" -> ~Vrc6Playing(o)
      [] kind = "vrc6_saw" -> ~SawPlaying(osc) \* as the run found it
      [] kind = "sms_square" -> Stopped(o)
      [] kind = "sms_noise" -> ~Audible(o)
      [] OTHER -> FALSE

Expired(o) ==
    CASE kind = "vrc6_square" -> [o EXCEPT !.phase = (@ + 1) % SquareSteps]
      [] kind = "vrc6_saw" ->
           LET amp == IF o.phase = 1 THEN 0 ELSE o.amp
           IN  [o EXCEPT !.phase = IF @ = 1 THEN SawSteps ELSE @ - 1,
                         !.amp = (amp + o.regs.step) % SawRange,
                         !.last_amp = amp \div SawShift]
      [] kind = "namco" -> [o EXCEPT !.phase = IF @ + 1 < o.regs.size THEN @ + 1 ELSE 0,
                                     !.last_amp = NamcoSample(o, o.phase)]
      [] kind \in {"fme7", "sms_square"} -> [o EXCEPT !.phase = 1 - @]
      [] kind = "scc" -> [o EXCEPT !.phase = (@ + 1) % Len(o.wave)]
      [] kind = "sms_noise" -> [o EXCEPT !.shifter = Shifted(o)]

TimerOf(o) == CASE kind = "vrc6_saw" -> 2 * o.regs.period
                [] OTHER -> Period(o)

Clock(o) ==
    IF Standing(o) \/ (kind = "namco" /\ ~o.regs.active) THEN o
    ELSE IF o.delay > 0 THEN [o EXCEPT !.delay = @ - 1]
    ELSE IF kind = "namco" /\ ~NamcoPlaying(o) THEN o
    ELSE [Expired(o) EXCEPT !.delay = TimerOf(o) - 1]

Amplitude(o) ==
    CASE kind = "vrc6_square" -> Vrc6Amp(o)
      [] kind = "vrc6_saw" -> IF SawPlaying(osc) THEN o.last_amp ELSE o.amp \div SawShift
      [] kind = "namco" -> o.last_amp
      [] kind \in {"fme7", "sms_square"} -> Level(o, o.phase)
      [] kind = "scc" -> SccAmp(o, o.phase)
      [] kind = "sms_noise" -> NoiseAmp(o)

Held(o) == IF Standing(o) THEN [o EXCEPT !.delay = 0] ELSE o

-----------------------------------------------------------------------------
(***************************************************************************)
(* Properties                                                              *)
(***************************************************************************)

\* However accesses cut the runs, an oscillator is heard as its timer, counted
\* clock by clock, steps it; and it keeps what the next run goes on from.
Waveform ==
    (segment' > 0 /\ output # 0) =>
        /\ heard' = ClockedWave(Held(osc), segment', Clock, Amplitude)
        /\ calls' = calls => osc' = ClockedOsc(Held(osc), segment', Clock, Amplitude)

\* The level of a buffer is that of the oscillator that plays there, and an
\* oscillator that was panned elsewhere has left nothing (as in GbApu, unless
\* it was panned while it was muted).
LevelKept ==
    ~lost => \A b \in 1..3 : level[b] = IF b = select THEN osc.last_amp ELSE 0
=============================================================================
