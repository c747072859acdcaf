-------------------------------- MODULE HesApu --------------------------------
(***************************************************************************)
(* The sound of the PC Engine: gme/Hes_Apu.cpp.                            *)
(*                                                                         *)
(* Every oscillator has a time of its own that it has been run to: an      *)
(* access runs the one that it is for, the end of a frame and a change of  *)
(* the main balance run them all.  An oscillator whose two volumes are the *)
(* same plays to the center, else to left and right.  Its wave is centered *)
(* on half of its range: a new volume is not heard until the wave moves.   *)
(***************************************************************************)
EXTENDS Oscillator

CONSTANTS
    Oscs,         \* numbers of the oscillators, from 0
    NoiseOscs,    \* those that may play noise: 4 and 5
    LogTable,     \* volume by index, from 0
    BalanceMax,   \* 15
    Center,       \* 16
    DacMax,       \* 31
    MinPeriod,    \* 14: a wave of a shorter period is not heard
    LfsrWidth,    \* 16, and the lower taps of the noise (0xE008)
    LfsrTaps,
    Runs,         \* clocks between two accesses
    Setups,       \* oscillators after a tune's first writes
    Periods, Controls, Balances, Samples, Noises, \* what is written
    MaxClocks, MaxCalls

VARIABLES
    oscs,         \* number -> oscillator; last_time is in clocks from the start
    balance,      \* the main balance, left and right
    clocks, calls,
    \* History:
    segment,      \* oscillator -> clocks of its last run, or -1
    heard,        \* oscillator -> side -> changes of level
    ran,          \* oscs at their end, before anything was written
    level,        \* oscillator -> what the three buffers have come to from it
    lost          \* oscillators that were moved between buffers while they had a level

vars == <<oscs, balance, clocks, calls, segment, heard, ran, level, lost>>

Sides == {1, 2}

Both(Value(_)) == <<Value(1), Value(2)>>

-----------------------------------------------------------------------------
(***************************************************************************)
(* Hes_Osc::run_until().                                                   *)
(***************************************************************************)
Playing(o) == ~o.muted /\ o.on
Silent(o)  == \A s \in Sides : o.volume[s] = 0
IsNoise(o) == o.noise.on
IsWave(o)  == ~o.noise.on /\ ~o.dda

Heard(o) == ~Silent(o) /\ (IsWave(o) => 2 * o.period >= MinPeriod)

Period(o) == IF IsNoise(o) THEN o.noise.period
             ELSE IF o.period = 0 THEN 1 ELSE 2 * o.period

\* Direct output has no timer, and that of silent noise stands still.
Timed(o) == IsWave(o) \/ (IsNoise(o) /\ Heard(o))

Shifted(n) ==
    LET half == n \div 2
    IN  IF n % 2 = 0 THEN half
        ELSE half + 2^(LfsrWidth - 1)
                  + FoldSet(LAMBDA tap, sum : sum + (IF Bit(half, tap) = 1 THEN -(2^tap) ELSE 2^tap),
                            0, LfsrTaps)

\* One tick: the next output of the converter.
Tick(o) ==
    CASE IsNoise(o) -> [o EXCEPT !.dac = DacMax * Bit(o.lfsr, 1), !.lfsr = Shifted(@)]
      [] IsWave(o)  -> LET phase == (o.phase + 1) % Len(o.wave)
                       IN  [o EXCEPT !.phase = phase,
                                     !.dac = IF Heard(o) THEN o.wave[phase + 1] ELSE @]

\* What was not heard of an access is heard at the start of the run.
Started(o, k) == Both(LAMBDA s : Offset(Empty(k), 0, o.dac * o.volume[s] - o.last_amp[s]))

RunEnds(st, o, k, n) ==
    LET after == o.delay + n * Period(o) - k
    IN  [osc |-> [st.osc EXCEPT !.delay = IF after < 0 THEN 0 ELSE after,
                                !.last_amp = Both(LAMBDA s : st.osc.dac * o.volume[s])],
         out |-> st.out]

PlayedFor(o, k) ==
    LET ticks == IF Timed(o) THEN Ticks(o.delay, Period(o), k) ELSE <<>>
        loop(st, t) ==
            LET next == Tick(st.osc)
            IN  [osc |-> next,
                 out |-> Both(LAMBDA s :
                            Offset(st.out[s], t, (next.dac - st.osc.dac) * o.volume[s]))]
    IN  RunEnds(FoldLeft(loop, [osc |-> o, out |-> Started(o, k)], ticks), o, k, Len(ticks))

Run(o, time) ==
    LET k   == time - o.last_time
        was == [o EXCEPT !.last_time = time]
    IN  IF Playing(o) THEN PlayedFor(was, k)
        ELSE [osc |-> was, out |-> Both(LAMBDA s : Empty(k))]

-----------------------------------------------------------------------------
(***************************************************************************)
(* balance_changed(): by the volume and both balances, to a volume of each *)
(* side; the level that is remembered follows, the buffer does not.        *)
(***************************************************************************)
VolumeOf(o, main, s) ==
    LET index == o.vol - 4 * BalanceMax + 2 * o.balance[s] + 2 * main[s]
    IN  LogTable[(IF index < 0 THEN 0 ELSE index) + 1]

balance_changed(o, main) ==
    [o EXCEPT !.volume = Both(LAMBDA s : VolumeOf(o, main, s)),
              !.last_amp = Both(LAMBDA s : o.last_amp[s]
                                           + (VolumeOf(o, main, s) - o.volume[s]) * Center)]

Centered(o) == o.volume[1] = o.volume[2]

\* Which buffer a side goes to: 3 is the center's, and then there is no other.
Buffer(o, s) == IF ~Centered(o) THEN s ELSE IF s = 1 THEN 3 ELSE 0

-----------------------------------------------------------------------------
(***************************************************************************)
(* Accesses.  Ran(is, run) is what playing the oscillators of the set from *)
(* their own times to the access leaves.                                   *)
(***************************************************************************)
RunsAt(is, who, time) == [i \in Oscs |-> IF i \in is THEN Run(who[i], time)
                                         ELSE [osc |-> who[i], out |-> <<>>]]

Leveled(old, o, out) ==
    [b \in 1..3 |->
        old[b] + FoldSet(LAMBDA s, sum : sum + FoldFunction(+, 0, out[s]), 0,
                         {s \in Sides : Buffer(o, s) = b})]

\* who: the oscillators as the run finds them (see WriteMainBalance).
RunAll(k, is, who) ==
    /\ clocks + k <= MaxClocks
    /\ clocks' = clocks + k
    /\ \E runs \in {RunsAt(is, who, clocks + k)} :
         /\ ran' = [i \in Oscs |-> runs[i].osc]
         /\ heard' = [i \in Oscs |-> runs[i].out]
         /\ level' = [i \in Oscs |-> IF i \in is /\ Playing(who[i])
                                     THEN Leveled(level[i], who[i], runs[i].out)
                                     ELSE level[i]]
    /\ segment' = [i \in Oscs |-> IF i \in is /\ Playing(who[i])
                                  THEN clocks + k - who[i].last_time ELSE -1]

Moved(i, from, to) ==
    /\ Centered(from) # Centered(to)
    /\ \E b \in 1..3 : level'[i][b] # 0

Becomes(new) ==
    /\ oscs' = new
    /\ lost' = lost \cup {i \in Oscs : Moved(i, oscs[i], new[i])}

end_frame(k) ==
    /\ k > 0 /\ RunAll(k, Oscs, oscs) /\ Becomes(ran')
    /\ UNCHANGED <<balance, calls>>

Access == calls < MaxCalls /\ calls' = calls + 1

\* 0x802 to 0x807, of the oscillator that is latched.
Write(k, i) == Access /\ RunAll(k, {i}, oscs) /\ UNCHANGED balance

WritePeriod(k, i, p) == Write(k, i) /\ Becomes([ran' EXCEPT ![i].period = p])

WriteControl(k, i, c) ==
    /\ Write(k, i)
    /\ Becomes([ran' EXCEPT ![i] =
            balance_changed([@ EXCEPT !.phase = IF ran'[i].dda /\ ~c.dda THEN 0 ELSE @,
                                      !.on = c.on, !.dda = c.dda, !.vol = c.vol], balance)])

WriteBalance(k, i, b) ==
    /\ Write(k, i)
    /\ Becomes([ran' EXCEPT ![i] = balance_changed([@ EXCEPT !.balance = b], balance)])

\* The memory of the wave is written where it is played from.
WriteWave(k, i, data) ==
    /\ Write(k, i)
    /\ LET o == ran'[i]
       IN  Becomes([ran' EXCEPT ![i] =
               IF ~o.dda THEN [o EXCEPT !.wave[o.phase + 1] = data,
                                        !.phase = (@ + 1) % Len(o.wave)]
               ELSE IF o.on THEN [o EXCEPT !.dac = data] ELSE o])

WriteNoise(k, i, n) ==
    /\ i \in NoiseOscs
    /\ Write(k, i) /\ Becomes([ran' EXCEPT ![i].noise = n])

\* 0x801: in its loop over the oscillators, last to first, the code tells the
\* first one each time - and that before it has been run to this time.
WriteMainBalance(k, b) ==
    /\ b # balance
    /\ Access
    /\ balance' = b
    /\ RunAll(k, Oscs, IF Oscs = {0} THEN oscs ELSE [oscs EXCEPT ![0] = balance_changed(@, b)])
    /\ Becomes([ran' EXCEPT ![0] = balance_changed(@, b)])

\* osc_output(): tells all of them, those too that missed a main balance.
Mute(i) ==
    /\ Access
    /\ UNCHANGED <<balance, clocks, level>>
    /\ Becomes([j \in Oscs |-> balance_changed([oscs[j] EXCEPT !.muted = IF j = i THEN ~@ ELSE @],
                                               balance)])
    /\ segment' = [j \in Oscs |-> -1] /\ heard' = <<>> /\ ran' = <<>>

-----------------------------------------------------------------------------
\* reset() and what a tune writes at first.
Init ==
    /\ balance = <<BalanceMax, BalanceMax>>
    /\ \E setup \in Setups :
         oscs = [i \in Oscs |->
                   balance_changed(
                     setup[i] @@ [volume |-> <<0, 0>>, last_amp |-> <<0, 0>>,
                                  delay |-> 0, phase |-> 0, dac |-> 0, last_time |-> 0, lfsr |-> 1,
                                  muted |-> FALSE],
                     <<BalanceMax, BalanceMax>>)]
    /\ clocks = 0 /\ calls = 0
    /\ segment = [i \in Oscs |-> -1] /\ heard = <<>> /\ ran = <<>>
    /\ level = [i \in Oscs |-> [b \in 1..3 |-> 0]] /\ lost = {}

Next ==
    \/ \E k \in Runs : end_frame(k)
    \/ \E k \in Runs, i \in Oscs, p \in Periods : WritePeriod(k, i, p)
    \/ \E k \in Runs, i \in Oscs, c \in Controls : WriteControl(k, i, c)
    \/ \E k \in Runs, i \in Oscs, b \in Balances : WriteBalance(k, i, b)
    \/ \E k \in Runs, i \in Oscs, data \in Samples : WriteWave(k, i, data)
    \/ \E k \in Runs, i \in NoiseOscs, n \in Noises : WriteNoise(k, i, n)
    \/ \E k \in Runs, b \in Balances : WriteMainBalance(k, b)
    \/ \E i \in Oscs : Mute(i)

Spec == Init /\ [][Next]_vars

-----------------------------------------------------------------------------
\* An oscillator clock by clock.
Clock(o) == IF o.delay > 0 THEN [o EXCEPT !.delay = @ - 1]
            ELSE IF ~Timed(o) THEN o
            ELSE [Tick(o) EXCEPT !.delay = Period(o) - 1]

\* As the run finds it: the first one is told of a new main balance before.
Found(i) == IF i = 0 /\ balance' # balance /\ Oscs # {0} THEN balance_changed(oscs[0], balance')
            ELSE oscs[i]

-----------------------------------------------------------------------------
(***************************************************************************)
(* Properties                                                              *)
(***************************************************************************)

\* However the runs of an oscillator and those of the others are cut, both sides
\* hear its converter, as its timer steps it clock by clock, at their volumes;
\* and it keeps what its timer has come to.
Waveform ==
    \A i \in {j \in Oscs : segment'[j] > 0} :
        LET o     == Found(i)
            k     == segment'[i]
            after == Clocked(o, k, Clock)
            dac   == [t \in -1..(k - 1) |-> IF t < 0 THEN o.dac ELSE after[t + 1].dac]
        IN  /\ \A s \in Sides :
                 heard'[i][s] = [t \in 0..k |->
                     (IF t < k THEN (dac[t] - dac[t - 1]) * o.volume[s] ELSE 0)
                     + (IF t = 0 THEN o.dac * o.volume[s] - o.last_amp[s] ELSE 0)]
            /\ ran'[i].delay = after[k].delay /\ ran'[i].phase = after[k].phase
            /\ ran'[i].dac = after[k].dac /\ ran'[i].lfsr = after[k].lfsr

\* What an oscillator has left in its buffers is what it remembers, less what
\* centering put there for its volume, and the other buffers have nothing - if
\* it was never moved between center and sides: then its level stays behind.
LevelKept ==
    \A i \in Oscs \ lost :
        LET o == oscs[i]
            kept(s) == o.last_amp[s] - Center * o.volume[s]
        IN  IF Centered(o)
            THEN level[i] = [b \in 1..3 |-> IF b = 3 THEN kept(1) ELSE 0]
            ELSE level[i] = [b \in 1..3 |-> IF b = 3 THEN 0 ELSE kept(b)]
=============================================================================
