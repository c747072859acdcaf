-------------------------------- MODULE SapApu --------------------------------
(***************************************************************************)
(* The POKEY of Atari music: gme/Sap_Apu.cpp.                              *)
(*                                                                         *)
(* Four channels divide the clock; at each tick a channel takes its next   *)
(* bit from its own phase or from a polynomial counter, if poly5 lets it.  *)
(* Two channels may be joined to one of 16 bits, and the first two may be  *)
(* filtered by the ticks of the other two: a flip-flop takes the channel's *)
(* bit, and what is heard is where the two differ.  The code has no        *)
(* flip-flop: it turns the volume to its negative.                         *)
(***************************************************************************)
EXTENDS Oscillator

CONSTANTS
    SlowDivider, SlowestDivider, \* 28 and 114
    ReloadRange,  \* 256
    Inaudible,    \* pure tones of a shorter period are at half volume
    Poly4, Poly9, Poly17, \* width and tap of the polynomials
    Poly5,        \* the bits of poly5, lowest first
    Runs,         \* clocks between two accesses
    Setups,       \* reloads, what the channels do, and control, at first
    Reloads, Channels, Controls, \* what is written
    MaxClocks, MaxCalls

VARIABLES
    oscs,         \* 0..3 -> an oscillator
    control,      \* the bits of 0xD208
    poly4_pos, poly5_pos, polym_pos,
    clocks, calls,
    \* History:
    segment, heard, \* of the last run, the latter by channel
    ran,          \* oscs at its end, before anything was written
    level         \* channel -> what its buffer has come to

vars == <<oscs, control, poly4_pos, poly5_pos, polym_pos, clocks, calls, segment, heard,
          ran, level>>

-----------------------------------------------------------------------------
\* gen_poly(), in "Galois configuration": the bits that come out.
gen_poly(poly) ==
    LET length == 2^poly.width - 1
        Next(n) == LET half == n \div 2
                       tap  == 2^(poly.width - 1 - poly.tap)
                   IN  IF n % 2 = 0 THEN half
                       ELSE half + 2^(poly.width - 1)
                                + (IF (half \div tap) % 2 = 1 THEN -tap ELSE tap)
        reg[i \in 1..length] == IF i = 1 THEN 1 ELSE Next(reg[i - 1])
    IN  [i \in 1..length |-> reg[i] % 2]

poly4 == gen_poly(Poly4)
polym == gen_poly(IF control.poly9 THEN Poly9 ELSE Poly17)

\* run_poly5() turns to the left, and the lowest bit is looked at.
Poly5Bit(shift) == Poly5[((-shift) % Len(Poly5)) + 1]

-----------------------------------------------------------------------------
Divider == IF control.slowest THEN SlowestDivider ELSE SlowDivider

\* calc_periods(): the second and the fourth may be the high byte of a pair.
Period(i) ==
    LET joined == oscs[i].reload * ReloadRange + oscs[i - 1].reload
    IN  IF ~(i \in control.fast) THEN (oscs[i].reload + 1) * Divider
        ELSE IF i % 2 = 0 THEN oscs[i].reload + 4
        ELSE IF i - 1 \in control.fast THEN joined + 7
        ELSE (joined + 1) * Divider

\* Silent, a level that is written, or a frequency that nobody hears.
Steady(i) ==
    LET o == oscs[i]
    IN  \/ o.vol = 0
        \/ o.dac
        \/ o.pure /\ o.tone /\ Period(i) < Inaudible

SteadyAmp(o) == IF o.dac THEN 2 * o.vol ELSE o.vol

Filtered(i) == i \in control.hipass

\* The source of a channel's bits: the square has just two.
Source(o) == IF o.tone THEN <<1, 0>> ELSE IF o.poly4 THEN poly4 ELSE polym

SourcePos(o) ==
    IF o.tone THEN o.phase % 2
    ELSE ((IF o.poly4 THEN poly4_pos ELSE polym_pos) + o.delay) % Len(Source(o))

-----------------------------------------------------------------------------
(***************************************************************************)
(* The wave of a channel, to the end of the run or to the next tick of the *)
(* filter (st is what the inner loop keeps in registers).                  *)
(***************************************************************************)
WaveTick(o, period, st, t) ==
    LET source == Source(o)
        amp    == IF source[st.pos + 1] = 1 THEN st.volume ELSE 0
        gated  == [st EXCEPT !.wave = @ + period]
    IN  IF ~o.pure /\ Poly5Bit(st.wave) = 0 THEN gated
        ELSE [gated EXCEPT !.pos = (@ + (IF o.tone THEN 1 ELSE period)) % Len(source),
                           !.amp = amp, !.out = Offset(@, t, amp - st.amp)]

RunWave(st, o, period, end) ==
    LET ticks == Ticks(st.time, period, end)
    IN  [FoldLeft(LAMBDA s, t : WaveTick(o, period, s, t), st, ticks)
            EXCEPT !.time = st.time + Len(ticks) * period]

\* A tick of the filter: to zero, and from then on the other way round.
RunFilter(st) ==
    LET delta == -st.amp + (IF st.volume < 0 THEN st.volume ELSE 0)
    IN  IF delta = 0 THEN st
        ELSE [st EXCEPT !.amp = @ + delta - st.volume, !.volume = -@,
                        !.out = Offset(@, st.time2, delta)]

Past(time2, time, period2) ==
    IF time2 > time THEN time2
    ELSE time2 + ((time - time2) \div period2 + 1) * period2

\* Wave and filter, each catching up with the other.
InTurns(st, o, i, k) ==
    LET period  == Period(i)
        period2 == IF Filtered(i) THEN Period(i + 2) ELSE k + 1
        Turn(s) ==
            LET filtered == IF s.time2 < s.time THEN RunFilter(s) ELSE s
                time2    == Past(s.time2, s.time, period2)
            IN  RunWave([filtered EXCEPT !.time2 = time2], o, period, Lesser(k, time2))
        turn[n \in 0..(k + 1)] ==
            IF n = 0 THEN st
            ELSE LET s == turn[n - 1]
                 IN  IF s.time >= k /\ s.time2 >= k THEN s ELSE Turn(s)
    IN  turn[k + 1]

\* A channel that is steady, or is not heard, keeps its divider.
Kept(o, period, k) ==
    LET n == Len(Ticks(o.delay, period, k))
    IN  [o EXCEPT !.phase = (@ + n) % 2, !.delay = @ + n * period - k]

PlayedWave(o, i, k) ==
    LET inverted == Filtered(i) /\ o.invert
        volume   == IF inverted THEN -2 * o.vol ELSE 2 * o.vol
        st == InTurns([time |-> o.delay, pos |-> SourcePos(o), wave |-> o.delay + poly5_pos,
                       time2 |-> IF Filtered(i) THEN oscs[i + 2].delay ELSE k,
                       volume |-> volume, out |-> Empty(k),
                       amp |-> IF inverted THEN o.last_amp + volume ELSE o.last_amp], o, i, k)
        entered == o.delay < k \/ (Filtered(i) /\ oscs[i + 2].delay < k)
    IN  Ran([o EXCEPT !.delay = st.time - k, !.invert = st.volume < 0,
                      !.last_amp = IF st.volume < 0 THEN st.amp - st.volume ELSE st.amp,
                      !.phase = IF entered THEN st.pos % 2 ELSE @], st.out)

ChannelRun(i, k) ==
    LET o == oscs[i]
    IN  IF ~o.output THEN Ran(Kept(o, Period(i), k), Empty(k))
        ELSE IF Steady(i)
        THEN Ran([Kept(o, Period(i), k) EXCEPT !.last_amp = SteadyAmp(o)],
                 Offset(Empty(k), 0, SteadyAmp(o) - o.last_amp))
        ELSE PlayedWave(o, i, k)

-----------------------------------------------------------------------------
\* run_until(): every channel from where all of them were, then the polynomials.
run_until(k) ==
    /\ clocks + k <= MaxClocks
    /\ clocks' = clocks + k
    /\ LET runs == [i \in 0..3 |-> ChannelRun(i, k)]
       IN  /\ ran' = [i \in 0..3 |-> runs[i].osc]
           /\ heard' = [i \in 0..3 |-> runs[i].out]
           /\ level' = [i \in 0..3 |-> level[i] + FoldFunction(+, 0, runs[i].out)]
    /\ segment' = k
    /\ poly4_pos' = (poly4_pos + k) % Len(poly4)
    /\ poly5_pos' = (poly5_pos + k) % Len(Poly5)
    /\ polym_pos' = (polym_pos % Len(polym)) + k

end_frame(k) == k > 0 /\ run_until(k) /\ oscs' = ran' /\ UNCHANGED <<control, calls>>

Write(k) == calls < MaxCalls /\ calls' = calls + 1 /\ run_until(k)

\* 0xD200 to 0xD207
WriteReload(k, i, n) ==
    Write(k) /\ oscs' = [ran' EXCEPT ![i].reload = n] /\ UNCHANGED control
WriteChannel(k, i, c) ==
    /\ Write(k)
    /\ oscs' = [ran' EXCEPT ![i] = c @@ @]
    /\ UNCHANGED control

\* 0xD208
WriteControl(k, c) == Write(k) /\ control' = c /\ oscs' = ran'

\* 0xD209: all dividers start again.
WriteTimers(k) ==
    /\ Write(k)
    /\ oscs' = [i \in 0..3 |-> [ran'[i] EXCEPT !.delay = 0]]
    /\ UNCHANGED control

osc_output(i) ==
    /\ calls < MaxCalls /\ calls' = calls + 1
    /\ oscs' = [oscs EXCEPT ![i].output = ~@]
    /\ segment' = -1 /\ heard' = <<>> /\ ran' = <<>>
    /\ UNCHANGED <<control, poly4_pos, poly5_pos, polym_pos, clocks, level>>

-----------------------------------------------------------------------------
\* reset() and what a tune writes at first.
Init ==
    /\ \E s \in Setups :
         /\ oscs = [i \in 0..3 |->
                      s.channels[i + 1] @@
                      [reload |-> s.reloads[i + 1], phase |-> 0, invert |-> FALSE,
                       last_amp |-> 0, delay |-> 0, output |-> TRUE]]
         /\ control = s.control
    /\ poly4_pos = 0 /\ poly5_pos = 0 /\ polym_pos = 0
    /\ clocks = 0 /\ calls = 0
    /\ segment = -1 /\ heard = <<>> /\ ran = <<>> /\ level = [i \in 0..3 |-> 0]

Next ==
    \/ \E k \in Runs : end_frame(k)
    \/ \E k \in Runs, i \in 0..3, n \in Reloads : WriteReload(k, i, n)
    \/ \E k \in Runs, i \in 0..3, c \in Channels : WriteChannel(k, i, c)
    \/ \E k \in Runs, c \in Controls : WriteControl(k, c)
    \/ \E k \in Runs : WriteTimers(k)
    \/ \E i \in 0..3 : osc_output(i)

Spec == Init /\ [][Next]_vars

-----------------------------------------------------------------------------
(***************************************************************************)
(* A channel clock by clock, with a flip-flop (taken) behind it.  st is    *)
(* the channel, with the time t and the divider of its filter.             *)
(***************************************************************************)
BitAt(o, t) ==
    IF o.tone THEN 1 - o.phase
    ELSE Source(o)[(((IF o.poly4 THEN poly4_pos ELSE polym_pos) + t) % Len(Source(o))) + 1]

Tick(st) ==
    LET o     == st.osc
        bit   == BitAt(o, st.t)
        heard_ == IF (bit = 1) # st.taken THEN 2 * o.vol ELSE 0
        opened == o.pure \/ Poly5Bit(poly5_pos + st.t) = 1
    IN  IF opened THEN [st EXCEPT !.osc.last_amp = heard_, !.osc.phase = 1 - @] ELSE st

\* The flip-flop takes the bit: nothing is heard until the bit changes.
Take(st) == IF st.osc.last_amp = 0 THEN st
            ELSE [st EXCEPT !.taken = ~@, !.osc.last_amp = 0]

Clock(i, st) ==
    LET due    == st.osc.delay = 0
        taking == Filtered(i) /\ st.delay2 = 0 /\ ~due \* a tick at the same time wins
        next   == IF due THEN Tick(st) ELSE IF taking THEN Take(st) ELSE st
    IN  [next EXCEPT !.t = @ + 1,
                     !.osc.delay = IF due THEN Period(i) - 1 ELSE @ - 1,
                     !.delay2 = IF ~Filtered(i) THEN 0
                                ELSE IF @ = 0 THEN Period(i + 2) - 1 ELSE @ - 1]

Clocks(i, k) ==
    LET o == oscs[i]
    IN  Clocked([osc |-> [o EXCEPT !.phase = @ % 2], t |-> 0, taken |-> Filtered(i) /\ o.invert,
                 delay2 |-> IF Filtered(i) THEN oscs[i + 2].delay ELSE 0],
                k, LAMBDA st : Clock(i, st))

\* Noise that poly5 lets through falls behind the counter until the run's end.
Exact(i) == oscs[i].pure \/ oscs[i].tone

-----------------------------------------------------------------------------
(***************************************************************************)
(* Properties                                                              *)
(***************************************************************************)

\* However accesses cut the runs, a channel is heard as divider, counters and
\* flip-flop give it clock by clock, and keeps what they have come to: turning
\* the volume around is the same as a flip-flop.
Waveform ==
    segment' > 0 =>
        /\ \A i \in 0..3 : ran'[i].delay = Clocks(i, segment')[segment'].osc.delay
        /\ \A i \in {c \in 0..3 : oscs[c].output /\ ~Steady(c) /\ Exact(c)} :
               LET at == Clocks(i, segment')
                   end == at[segment']
               IN  /\ heard'[i] = [t \in 0..segment' |->
                           IF t = segment' THEN 0
                           ELSE at[t + 1].osc.last_amp - at[t].osc.last_amp]
                   /\ ran'[i].last_amp = end.osc.last_amp
                   /\ ran'[i].invert = end.taken
                   /\ oscs[i].tone => ran'[i].phase = end.osc.phase

\* The divider goes on, heard or not, and a buffer's level is what its channel
\* remembers.
PokeyInv == \A i \in 0..3 : level[i] = oscs[i].last_amp /\ oscs[i].delay >= 0
=============================================================================
