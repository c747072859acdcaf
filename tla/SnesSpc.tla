-------------------------------- MODULE SnesSpc --------------------------------
(***************************************************************************)
(* The SNES sound module: a CPU, its timers and a DSP that makes a pair of *)
(* samples every ClocksPerSample clocks.  To save time, none of them runs  *)
(* in step with the others: timers and DSP are caught up when the CPU's    *)
(* program looks at them, and a DSP register that is used early or late in *)
(* a sample is treated as if that were the time of the access (reg_times). *)
(* The CPU stops up to Lag clocks before the end of a frame.  So the DSP   *)
(* makes more or fewer pairs than a frame has, and a small buffer evens    *)
(* that out.                                                               *)
(*                                                                         *)
(* The program is unknown; instructions take clocks and access registers.  *)
(* Pairs are numbered from the next one the client is to get; the silence  *)
(* a buffer begins with counts as pairs.                                   *)
(***************************************************************************)
EXTENDS Integers, Sequences, FiniteSetsExt

CONSTANTS
    ClocksPerSample,
    InstrClocks,     \* clocks of an instruction
    RegTimes,        \* values of reg_times
    MaxRegTime,      \* max_reg_time, the greatest of them
    SkippingTime,
    ExtraPairs,      \* extra_size / 2
    Requests, Skips, \* pairs the client asks for, or asks to skip
    LongSkip,        \* longer skips do not run the DSP ...
    SkipRest,        \* ... but for about this many pairs at their end
    Programs,        \* what the programs look at: sets of "dsp", "timer"
    Prescalers, Targets, DividerSize, CounterSize

Lag == Max(InstrClocks) - 1
\* How far before its time a register can be used, at least a clock.
Earliest == Max({-t : t \in RegTimes} \cup {1})

ASSUME SpcAssumption ==
    /\ ClocksPerSample \in Nat \ {0}
    /\ InstrClocks \subseteq Nat \ {0} /\ \E c \in InstrClocks : \A d \in InstrClocks : d <= c
    /\ RegTimes \subseteq Int /\ \E t \in RegTimes : \A u \in RegTimes : t <= u
    /\ \A t \in RegTimes : t <= MaxRegTime
    /\ MaxRegTime \in 1..ClocksPerSample - 1 /\ Lag < ClocksPerSample
    /\ SkippingTime \in Int /\ SkippingTime > Earliest
    /\ ExtraPairs \in Nat /\ ExtraPairs % 2 = 0
    \* Half of the extra buffer evens out what the DSP can be early and late.
    /\ (ExtraPairs \div 2) * ClocksPerSample
          >= ClocksPerSample + Earliest + MaxRegTime + Lag
    /\ Requests \subseteq Nat \ {0} /\ Skips \subseteq Nat \ {0}
    /\ LongSkip \in Nat /\ LongSkip > SkipRest + 1 /\ SkipRest \in Nat \ {0}
    /\ Programs \subseteq SUBSET {"dsp", "timer"}
    /\ Prescalers \subseteq Nat \ {0} /\ Targets \subseteq 0..DividerSize - 1
    /\ DividerSize \in Nat \ {0} /\ CounterSize \in Nat \ {0}

VARIABLES
    program,
    frame,       \* "none", "play", "mute" (no output) or "fast" (no DSP)
    end_time,    \* of the frame that runs
    rel_time,    \* the CPU's time, relative to that
    spc_time,    \* its time between frames, relative to the next
    dsp_time,    \* when the DSP is to run next
    timer,       \* one of the three timers
    out,         \* the caller's buffer
    out_size,
    dsp_extra,   \* Spc_Dsp's extra
    extra_buf,   \* what has been saved for the next call
    pending,     \* skip(): pairs that follow the fast part
    old_dsp_time,
    \* History, read by properties only:
    next_pair,   \* number of the next pair the DSP makes
    ref          \* the timer, run clock by clock

outVars == <<out, out_size, dsp_extra, extra_buf>>
vars == <<program, frame, end_time, rel_time, spc_time, dsp_time, timer,
          outVars, pending, old_dsp_time, next_pair, ref>>

-----------------------------------------------------------------------------
(***************************************************************************)
(* Timers.  Every prescaler clocks the divider is incremented; when it     *)
(* meets the period it starts again and the counter is incremented.        *)
(***************************************************************************)
If0Then256(n) == ((n - 1) % DividerSize) + 1

\* run_timer(): all at once what has happened until `time'.
Remain(t) == If0Then256(t.period - t.divider)

RunTimer(t, time) ==
    IF time < t.next_time THEN t
    ELSE LET elapsed == (time - t.next_time) \div t.prescaler + 1
             over    == elapsed - Remain(t)
             n       == over \div t.period
             ran     == [t EXCEPT !.next_time = @ + elapsed * t.prescaler]
         IN  IF t.enabled = 0 THEN ran
             ELSE IF over < 0 THEN [ran EXCEPT !.divider = (@ + elapsed) % DividerSize]
             ELSE [ran EXCEPT !.counter = (@ + 1 + n) % CounterSize,
                              !.divider = (over - n * t.period) % DividerSize]

\* The same tick by tick, as the hardware does it.
Tick(t) ==
    LET divider == (t.divider + 1) % DividerSize
        match   == divider = t.period % DividerSize
        ticked  == [t EXCEPT !.next_time = @ + t.prescaler]
    IN  IF t.enabled = 0 THEN ticked
        ELSE [ticked EXCEPT !.divider = IF match THEN 0 ELSE divider,
                            !.counter = IF match THEN (@ + 1) % CounterSize ELSE @]

RefTimer(r, time) ==
    LET ticks == IF time < r.next_time THEN 0
                 ELSE (time - r.next_time) \div r.prescaler + 1
        run[k \in 0..ticks] == IF k = 0 THEN r ELSE Tick(run[k - 1])
    IN  run[ticks]

\* What the CPU can do to a timer: each takes the timer and the time to the
\* timer after it.  A read clears the counter.
Accesses == {<<"read">>, <<"clear">>}
            \cup ({"target"} \X {If0Then256(d) : d \in Targets})
            \cup ({"control"} \X {0, 1})

AccessTime(acc, time) == IF acc[1] = "clear" THEN time - 1 ELSE time
Changed(t, acc) ==
    CASE acc[1] \in {"read", "clear"} -> [t EXCEPT !.counter = 0]
      [] acc[1] = "target" -> [t EXCEPT !.period = acc[2]]
      [] acc[1] = "control" /\ acc[2] = 1 /\ t.enabled = 0 ->
            [t EXCEPT !.enabled = 1, !.divider = 0, !.counter = 0]
      [] OTHER -> [t EXCEPT !.enabled = IF acc[1] = "control" THEN acc[2] ELSE @]

\* A write that changes nothing does not run the timer.
NoChange(t, acc) == \/ acc[1] = "target" /\ t.period = acc[2]
                    \/ acc[1] = "control" /\ t.enabled = acc[2]

Access_faulty(t, acc, time) == Changed(t, acc) \* mutant: not caught up before
Access(t, acc, time) ==
    IF NoChange(t, acc) THEN t
    ELSE Changed(RunTimer(t, AccessTime(acc, time)), acc)

RefAccess(r, acc, time) ==
    Changed(RefTimer(r, AccessTime(acc, time)), acc)

-----------------------------------------------------------------------------
(***************************************************************************)
(* The DSP and its output.                                                 *)
(***************************************************************************)

\* RUN_DSP( time, offset ): the pairs it makes.
DspPairs(time, offset) ==
    LET count == time - offset - dsp_time
    IN  IF count >= 0 THEN count \div ClocksPerSample + 1 ELSE 0

\* n pairs from the one with number first on.
Pairs(first, n) == [i \in 1..n |-> first + i - 1]

\* WRITE_SAMPLES: to the caller's buffer, then round and round in dsp_extra.
DspRun(k) ==
    LET made == Pairs(next_pair, k)
        fit  == Min({k, out_size - Len(out)})
        rest == dsp_extra \o SubSeq(made, fit + 1, k)
    IN  /\ dsp_time' = dsp_time + k * ClocksPerSample
        /\ out' = out \o SubSeq(made, 1, fit)
        /\ dsp_extra' = SubSeq(rest, (Len(rest) \div ExtraPairs) * ExtraPairs + 1,
                               Len(rest))
        /\ next_pair' = next_pair + k

\* reset_buf(): half of the extra buffer is silence.
Silence_faulty == ExtraPairs \div 8 \* mutant: too little
Silence == ExtraPairs \div 2
FirstPairs(k) == Pairs(0, k)

reset_buf == /\ extra_buf' = FirstPairs(Silence)
             /\ out' = <<>> /\ out_size' = 0 /\ dsp_extra' = <<>>
             /\ next_pair' = Silence

\* set_output( buffer of n pairs )
set_output(n) ==
    LET fit == Min({n, Len(extra_buf)})
    IN  /\ out' = SubSeq(extra_buf, 1, fit)
        /\ out_size' = n
        /\ dsp_extra' = SubSeq(extra_buf, fit + 1, Len(extra_buf))
        /\ UNCHANGED <<extra_buf, next_pair>>

-----------------------------------------------------------------------------
(***************************************************************************)
(* Loading, tempo, and the beginning of a frame.                           *)
(***************************************************************************)
LoadedTimer(p, e, presc) ==
    [next_time |-> 1, prescaler |-> presc, period |-> If0Then256(p),
     divider |-> 0, enabled |-> e, counter |-> 0]

Init ==
    /\ program \in Programs
    /\ frame = "none" /\ end_time = 0 /\ rel_time = 0
    /\ spc_time = 0 /\ dsp_time = ClocksPerSample + 1
    /\ timer \in {LoadedTimer(p, e, s) : p \in Targets, e \in {0, 1},
                                         s \in Prescalers}
    /\ extra_buf = FirstPairs(Silence) /\ out = <<>> /\ out_size = 0
    /\ dsp_extra = <<>>
    /\ pending = 0 /\ old_dsp_time = 0
    /\ next_pair = Silence
    /\ ref = timer

\* set_tempo(): the prescalers change, their present period does not.
SetTempo ==
    /\ frame = "none" /\ pending = 0
    /\ \E s \in Prescalers :
         /\ timer' = [timer EXCEPT !.prescaler = s]
         /\ ref' = [ref EXCEPT !.prescaler = s]
    /\ UNCHANGED <<program, frame, end_time, rel_time, spc_time, dsp_time,
                   outVars, pending, old_dsp_time, next_pair>>

\* run_until_( end ): all times are made relative to the end.
RunUntil(end, dsp) ==
    /\ end_time' = end
    /\ rel_time' = spc_time - end
    /\ dsp_time' = dsp + rel_time'
    /\ timer' = [timer EXCEPT !.next_time = @ + rel_time']
    /\ ref' = [ref EXCEPT !.next_time = @ + rel_time']

Play(n) ==
    /\ frame = "none" /\ pending = 0
    /\ frame' = "play"
    /\ set_output(n)
    /\ RunUntil(n * ClocksPerSample, dsp_time)
    /\ UNCHANGED <<program, spc_time, pending, old_dsp_time>>

\* skip( n ): a short one plays without output.
ShortSkip(n) ==
    /\ frame = "none"
    /\ frame' = "mute"
    /\ reset_buf
    /\ RunUntil(n * ClocksPerSample, dsp_time)
    /\ pending' = 0
    /\ UNCHANGED <<program, spc_time, old_dsp_time>>

\* A long one first runs the CPU and the timers only, for an even number of
\* pairs; the DSP is put out of reach.
FastSkip(n) ==
    /\ frame = "none" /\ pending = 0
    /\ n > LongSkip
    /\ frame' = "fast"
    /\ reset_buf
    /\ pending' = (n % 2) + SkipRest
    /\ old_dsp_time' = dsp_time + spc_time
    /\ LET end == (n - pending') * ClocksPerSample
       IN  RunUntil(end, end - spc_time + SkippingTime)
    /\ UNCHANGED <<program, spc_time>>

Skip(n) == \/ pending = 0 /\ n <= LongSkip /\ ShortSkip(n)
           \/ FastSkip(n)

-----------------------------------------------------------------------------
(***************************************************************************)
(* The CPU.  An instruction that takes c clocks is not begun if it would   *)
(* end after the frame; the register it accesses, if any, is accessed at   *)
(* its end (in the code up to four clocks before it).                      *)
(***************************************************************************)
Instruction(c) ==
    /\ frame # "none"
    /\ rel_time + c <= 0
    /\ rel_time' = rel_time + c
    /\ UNCHANGED <<program, frame, end_time, spc_time, out_size, extra_buf,
                   pending, old_dsp_time>>

InternalInstruction(c) ==
    /\ Instruction(c)
    /\ ref' = RefTimer(ref, rel_time')
    /\ UNCHANGED <<dsp_time, timer, out, dsp_extra, next_pair>>

TimerInstruction(c, acc) ==
    /\ "timer" \in program
    /\ Instruction(c)
    /\ timer' = Access(timer, acc, rel_time')
    /\ ref' = RefAccess(ref, acc, rel_time')
    /\ UNCHANGED <<dsp_time, out, dsp_extra, next_pair>>

DspInstruction(c, offset) ==
    /\ "dsp" \in program
    /\ Instruction(c)
    /\ DspRun(DspPairs(rel_time', offset))
    /\ ref' = RefTimer(ref, rel_time')
    /\ UNCHANGED timer

\* save_extra(): the pairs beyond the buffer, numbered from the next call on.
SaveExtra(rest) == [i \in DOMAIN rest |-> rest[i] - out_size]

\* mutant: the time the CPU is early is forgotten
LagKept_faulty == 0
LagKept == rel_time

\* The rest of run_until_() and end_frame(): all times are made relative to
\* the CPU's, timers and DSP catch up with it, and what was made for the next
\* frame is saved (save_extra()).
EndFrame ==
    /\ frame # "none"
    /\ rel_time + Max(InstrClocks) > 0
    /\ spc_time' = LagKept
    /\ LET t == RunTimer(timer, rel_time)
       IN  timer' = [t EXCEPT !.next_time = @ - rel_time]
    /\ ref' = [RefTimer(ref, rel_time) EXCEPT !.next_time = @ - rel_time]
    /\ LET now   == dsp_time - rel_time
           count == 0 - MaxRegTime - now
           k     == IF frame # "fast" /\ now < 0 /\ count >= 0
                    THEN count \div ClocksPerSample + 1 ELSE 0
           made  == Pairs(next_pair, k)
           fit   == Min({k, out_size - Len(out)})
           rest  == dsp_extra \o SubSeq(made, fit + 1, k)
       IN  /\ dsp_time' = IF frame = "fast"
                          THEN now - SkippingTime + old_dsp_time
                          ELSE now + k * ClocksPerSample
           /\ IF frame = "play"
              THEN /\ out' = out \o SubSeq(made, 1, fit)
                   /\ extra_buf' = SaveExtra(rest)
                   /\ next_pair' = next_pair + k - out_size
              ELSE /\ next_pair' = Silence
                   /\ UNCHANGED <<out, extra_buf>>
    /\ dsp_extra' = <<>>
    /\ frame' = "none" /\ end_time' = 0 /\ rel_time' = 0 /\ old_dsp_time' = 0
    /\ UNCHANGED <<program, out_size, pending>>

\* skip() goes on after its fast part.
SkipOn == pending > 0 /\ ShortSkip(pending)

-----------------------------------------------------------------------------
Next ==
    \/ SetTempo
    \/ \E n \in Requests : Play(n)
    \/ \E n \in Skips : Skip(n)
    \/ SkipOn
    \/ \E c \in InstrClocks :
          \/ InternalInstruction(c)
          \/ \E acc \in Accesses : TimerInstruction(c, acc)
          \/ \E t \in RegTimes : DspInstruction(c, t)
    \/ EndFrame

Spec == Init /\ [][Next]_vars

-----------------------------------------------------------------------------
(***************************************************************************)
(* Properties                                                              *)
(***************************************************************************)
Timers ==
    [next_time : Int, prescaler : Prescalers, period : 1..DividerSize,
     divider : 0..DividerSize - 1, enabled : {0, 1}, counter : 0..CounterSize - 1]
TypeOK ==
    /\ program \in Programs
    /\ frame \in {"none", "play", "mute", "fast"}
    /\ end_time \in Nat /\ rel_time \in Int /\ dsp_time \in Int
    /\ spc_time \in Int /\ out_size \in Nat /\ pending \in Nat
    /\ out \in Seq(Int) /\ dsp_extra \in Seq(Int) /\ extra_buf \in Seq(Int)
    /\ next_pair \in Nat /\ old_dsp_time \in Int
    /\ timer \in Timers /\ ref \in Timers

\* By how much the DSP's time may differ from the end of a frame.
Apart(time) == -MaxRegTime - Lag < time /\ time <= ClocksPerSample + Earliest

\* The assertion of end_frame(), and that the clocks the CPU stopped early are
\* not lost: between frames, DSP and CPU are apart by no more than a sample
\* and the limits of reg_times, however often they ran and skipped.
ClocksKept ==
    frame = "none" =>
        -Lag <= spc_time /\ spc_time <= 0 /\ Apart(dsp_time + spc_time)

\* In a frame the DSP is not ahead of the CPU by more than a sample, unless the
\* frame began so, and while it is out of reach its time says so (dsp_write()
\* knows by it that it must note what is keyed on).
FrameInv ==
    /\ frame # "none" => rel_time <= 0
    /\ frame \in {"play", "mute"} =>
          dsp_time <= ClocksPerSample + Earliest + rel_time \/ dsp_time <= Earliest
    /\ frame = "fast" => dsp_time = SkippingTime /\ Apart(old_dsp_time)

\* play() hands out every pair the DSP makes, once and in order: the caller's
\* buffer is full at the end of the frame, nothing in it is missing or
\* doubled, and the pairs kept for the next call are those that follow.
EveryPairOnce ==
    frame = "none" =>
        /\ out = FirstPairs(out_size)
        /\ extra_buf = FirstPairs(next_pair)
        /\ next_pair <= ExtraPairs

\* What has been made and not handed out is what the DSP is ahead, in clocks,
\* and half a buffer; so the pairs beyond the caller's buffer find room.
Surplus(pairs, time) ==
    LET more == (pairs - Silence) * ClocksPerSample - time
    IN  -(ClocksPerSample + Earliest) <= more /\ more < MaxRegTime + Lag
PairsInv ==
    /\ EveryPairOnce
    /\ frame = "none" => Surplus(next_pair, dsp_time + spc_time)
    /\ frame = "play" =>
          /\ out = FirstPairs(Min({next_pair, out_size}))
          /\ dsp_extra = Pairs(out_size, next_pair - out_size)
          /\ Surplus(next_pair - out_size, dsp_time)
    /\ frame \in {"mute", "fast"} =>
          out = <<>> /\ out_size = 0 /\ extra_buf = FirstPairs(Silence)

\* A timer that is only looked at now and then is what it would be if it had
\* run with every clock.
TimerExact ==
    LET now == IF frame = "none" THEN 0 ELSE rel_time
    IN  RunTimer(timer, now) = RefTimer(ref, now)
\* Between frames it is up to date.
TimerInv == TimerExact /\ (frame = "none" => timer = ref /\ timer.next_time > 0)

\* The inductive invariant.
SpcInv == TypeOK /\ ClocksKept /\ FrameInv /\ PairsInv /\ TimerInv
=============================================================================
