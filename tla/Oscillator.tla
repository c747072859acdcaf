------------------------------ MODULE Oscillator ------------------------------
(***************************************************************************)
(* What the sound chips have in common: an oscillator is run for the k     *)
(* clocks from one access of the CPU to the next, turns them into changes  *)
(* of the level in its Blip_Buffer (synth.offset()), and keeps in delay    *)
(* what is left of its period.  The state of an oscillator is a record     *)
(* with delay, last_amp and what its chip adds to them.                    *)
(***************************************************************************)
EXTENDS Integers, Sequences, SequencesExt, Functions

Lesser(a, b) == IF a < b THEN a ELSE b
Bit(n, i) == (n \div 2^i) % 2

\* Changes of level, by the clock at which they are heard.
Empty(k)              == [t \in 0..k |-> 0]
Offset(out, t, delta) == [out EXCEPT ![t] = @ + delta]

\* do ... time += period while ( time < end ): the times of the passes.
Ticks(delay, period, end) ==
    LET n == IF delay < end THEN (end - delay + period - 1) \div period ELSE 0
    IN  [i \in 1..n |-> delay + (i - 1) * period]

\* delay = time - end_time, after them.
Remaining(delay, period, end) == delay + Len(Ticks(delay, period, end)) * period - end

Ran(o, out) == [osc |-> o, out |-> out]

-----------------------------------------------------------------------------
(***************************************************************************)
(* The same oscillator as the chip has it, with a timer that counts every  *)
(* clock: Clock(o) is its state one clock later, Amp(o) what it outputs.   *)
(***************************************************************************)
Clocked(o, k, Clock(_)) ==
    LET after[t \in 0..k] == IF t = 0 THEN o ELSE Clock(after[t - 1])
    IN  after

ClockedWave(o, k, Clock(_), Amp(_)) ==
    LET after == Clocked(o, k, Clock)
        amp   == [t \in -1..(k - 1) |-> IF t < 0 THEN o.last_amp ELSE Amp(after[t + 1])]
    IN  IF k = 0 THEN [t \in {0} |-> Amp(o) - o.last_amp]
        ELSE [t \in 0..k |-> IF t = k THEN 0 ELSE amp[t] - amp[t - 1]]

ClockedOsc(o, k, Clock(_), Amp(_)) ==
    LET ended == Clocked(o, k, Clock)[k]
    IN  [ended EXCEPT !.last_amp = Amp(ended)]
=============================================================================
