---------------------------- MODULE PlaySchedule ----------------------------
(***************************************************************************)
(* The play schedulers: run_clocks() of the emulators that call a song's   *)
(* play routine at a fixed rate (NSF, GBS, KSS, SAP), or give its driver a *)
(* periodic interrupt (AY).                                                *)
(*                                                                         *)
(* A frame is one call of run_clocks( duration ).  Inside it the emulated  *)
(* CPU runs in slices.  The CPU knows nothing of frames or periods: it is  *)
(* in the song's init or play routine, or idle after one has returned, and *)
(* an instruction that begins before the end of a slice is finished, so a  *)
(* slice may end up to Overshoot clocks late.  What the routines do and    *)
(* how long they take is unknown.  All times are clocks since the start of *)
(* the frame, as in the code.                                              *)
(***************************************************************************)
EXTENDS Integers, FiniteSetsExt

CONSTANTS
    Emus,          \* which of the five emulators
    Frames,        \* durations Classic_Emu::play_() asks for
    Periods,       \* values of play_period; NSF's are in 1 / Divisor clocks
    TimerPeriods,  \* values it has for GBS besides, from the timer's registers
    ShortPeriods,  \* NSF: those of a header that asks for a play sooner than
                   \* the CPU finishes an instruction, 0 for instance
    Divisor,       \* clock_divisor of NSF
    PlayDelay,     \* play periods NSF waits for init before it interrupts it
    MaxRun,        \* NSF's limit of a slice (16-bit time)
    Overshoot,     \* the longest instruction is one clock longer
    IllegalCost,   \* clocks GBS charges for an illegal instruction
    IntCosts,      \* clocks of AY's interrupt, by mode
    MaxElapsed     \* bound: no frame begins after this

ASSUME ScheduleAssumption ==
    /\ Emus \subseteq {"nsf", "gbs", "kss", "sap", "ay"}
    /\ Divisor \in Nat \ {0} /\ PlayDelay \in Nat \ {0}
    /\ MaxRun \in Nat \ {0} /\ Overshoot \in Nat /\ IllegalCost \in Nat \ {0}
    /\ Frames \subseteq {d \in Nat : d >= 2}
    /\ IntCosts \subseteq Nat /\ IntCosts # {}
    /\ MaxElapsed \in Nat
    /\ TimerPeriods \subseteq Nat \ {0}
    \* Fields of headers and timers are a few bits wide.
    /\ \A usual \in {Periods, Periods \cup TimerPeriods} :
         \E p, q \in usual : \A r \in usual : p <= r /\ r <= q
    /\ ShortPeriods \subseteq Nat
    \* Any other period is longer than an overshoot: set_tempo() is limited
    \* to 4.0.
    /\ Periods \subseteq {p \in Nat : p >= Divisor}
    /\ \A p \in Periods, c \in IntCosts :
         p \div Divisor > Overshoot + c + IllegalCost + 1

VARIABLES
    emu,
    duration,    \* of the frame that runs, 0 between frames
    time,        \* time() of the CPU
    next_play, play_period,
    routine,     \* what the CPU is in: "init", "play" or "idle"
    failed,      \* run_clocks() has failed: the engine ends the track
    saved_state, \* NSF: the routine that play interrupted, or "none"
    play_ready, play_extra,
    iff1, halted,             \* AY: interrupts enabled, CPU in HALT
    mode,                     \* AY: "none", "spectrum" or "cpc"
    \* History, read by properties only:
    elapsed,     \* clocks of all frames before this one
    calls,       \* play routines (AY: interrupts) begun
    late,        \* a play came due while a routine ran
    drift,       \* NSF: the exact time of the next play less next_play,
                 \* in 1 / Divisor clocks
    steady       \* the tempo has not been changed since the track began

frameVars == <<duration, time, failed>>
nsfVars   == <<saved_state, play_ready, play_extra, drift>>
ayVars    == <<iff1, halted, mode>>
vars == <<emu, frameVars, next_play, play_period, routine, nsfVars, ayVars,
          elapsed, calls, late, steady>>

Lesser(a, b) == IF a <= b THEN a ELSE b

\* What set_tempo() or the song may make of play_period.
Usual == IF emu = "gbs" THEN Periods \cup TimerPeriods ELSE Periods
Rates == IF emu = "nsf" THEN Usual \cup ShortPeriods ELSE Usual

\* The end of a slice: the end of the frame or the next play.
SliceEnd_faulty == duration \* mutant: plays in the middle of a frame are late
SliceEnd == Lesser(next_play, duration)

\* The clocks of a period: NSF carries the fraction over in play_extra.
PeriodClocks(p) == IF emu = "nsf" THEN p \div Divisor ELSE p

-----------------------------------------------------------------------------
(***************************************************************************)
(* Starting a track: what start_track_() of each emulator sets up.  init   *)
(* runs in the first frames, but SAP runs it (with a limit) at once.       *)
(***************************************************************************)
nsf_start == /\ routine' = "init"
             /\ play_ready' = PlayDelay /\ play_extra' = 0
             /\ saved_state' = "none"
             /\ next_play' = play_period \div Divisor
             /\ drift' = play_period % Divisor
\* update_timer() reads the timer of the file's header.
gbs_start == /\ routine' = "init"
             /\ next_play' = play_period'
kss_start == routine' = "init" /\ next_play' = play_period
sap_start == routine' \in {"init", "idle"} /\ next_play' = play_period
\* The driver begins with DI and CALL init.  Its first period is that of the
\* machine of the track before.
ay_start  == routine' = "init" /\ next_play' = play_period

StartTrack ==
    /\ duration = 0
    /\ play_period' \in IF emu \in {"gbs", "ay"} THEN Rates ELSE {play_period}
    /\ IF emu = "nsf" THEN nsf_start
       ELSE /\ CASE emu = "gbs" -> gbs_start [] emu = "kss" -> kss_start
                 [] emu = "sap" -> sap_start [] emu = "ay"  -> ay_start
            /\ UNCHANGED nsfVars
    /\ iff1' = FALSE /\ halted' = FALSE /\ mode' = "none"
    /\ duration' = 0 /\ time' = 0 /\ failed' = FALSE
    /\ elapsed' = 0 /\ calls' = 0 /\ late' = FALSE /\ steady' = TRUE
    /\ UNCHANGED emu

Init ==
    /\ emu \in Emus
    /\ play_period \in Rates
    /\ next_play = PeriodClocks(play_period)
    /\ routine = "init"
    /\ saved_state = "none" /\ play_ready = PlayDelay /\ play_extra = 0
    /\ drift = IF emu = "nsf" THEN play_period % Divisor ELSE 0
    /\ iff1 = FALSE /\ halted = FALSE /\ mode = "none"
    /\ duration = 0 /\ time = 0 /\ failed = FALSE
    /\ elapsed = 0 /\ calls = 0 /\ late = FALSE /\ steady = TRUE

\* set_tempo(), by the client between frames.
SetTempo ==
    /\ duration = 0 /\ elapsed <= MaxElapsed
    /\ play_period' \in Rates
    /\ steady' = FALSE
    /\ UNCHANGED <<emu, frameVars, next_play, routine, nsfVars, ayVars,
                   elapsed, calls, late>>

\* run_clocks( d ) up to its loop.  AY halves the frame until the song has
\* shown which machine it is for.
BeginFrame(d) ==
    /\ duration = 0 /\ ~failed
    /\ elapsed <= MaxElapsed
    /\ duration' = IF emu = "ay" /\ mode = "none" THEN d \div 2 ELSE d
    /\ time' = 0
    /\ UNCHANGED <<emu, failed, next_play, play_period, routine, nsfVars,
                   ayVars, elapsed, calls, late, steady>>

-----------------------------------------------------------------------------
(***************************************************************************)
(* The emulated CPU: the results of cpu::run( end ), by the time at which  *)
(* the CPU stops and the reason.  An instruction that is illegal takes its *)
(* time, or is followed by one that does.                                  *)
(***************************************************************************)
CpuStops(end) ==
    IF time >= end THEN {<<time, "time">>}
    ELSE IF routine = "idle" THEN {<<time, "return">>}
    ELSE ((end..end + Overshoot) \X {"time"})
         \cup ((time..end - 1) \X {"return"})
         \cup ((time + 1..end - 1) \X {"illegal"})

-----------------------------------------------------------------------------
(***************************************************************************)
(* One turn of the loop of each run_clocks().                              *)
(***************************************************************************)

\* mutant: a play that comes due interrupts whatever is running
NsfCalls_faulty(ready) == ready >= 0
NsfCalls(ready) == ready = 1

\* mutant: the fraction is lost
nsf_extra_faulty(period) == 0 * period
nsf_extra(period) == play_period - period * Divisor

\* Nothing runs until the next play: the rest of the slice is skipped.
NsfIdle_faulty(now, end) == now \* mutant: it is not
NsfIdle(now, end) == end

\* NSF: a play that is due begins when play_ready counts down to zero; a
\* routine that returns makes it one.  It may interrupt init, whose
\* registers are then saved until play returns.
NsfRun ==
    /\ emu = "nsf"
    /\ time < duration
    /\ LET end == Lesser(SliceEnd, time + MaxRun)
       IN  \E stop \in CpuStops(end) :
             LET back  == stop[2] = "return"
                 now   == IF back /\ saved_state = "none"
                          THEN NsfIdle(stop[1], end) ELSE stop[1]
                 after == IF ~back THEN routine
                          ELSE IF saved_state = "none" THEN "idle"
                          ELSE saved_state
                 saved == IF back THEN "none" ELSE saved_state
                 ready == IF back THEN 1 ELSE play_ready
                 period == (play_period + play_extra) \div Divisor
             IN  /\ time' = now
                 /\ \/ /\ now < next_play
                       /\ routine' = after /\ saved_state' = saved
                       /\ play_ready' = ready
                       /\ UNCHANGED <<next_play, play_extra, calls, late,
                                      drift>>
                    \/ /\ now >= next_play
                       /\ next_play' = next_play + period
                       /\ play_extra' = nsf_extra(period)
                       /\ drift' = drift + play_period - period * Divisor
                       /\ late' = (late \/ after # "idle")
                       /\ play_ready' = IF ready > 0 THEN ready - 1 ELSE 0
                       /\ IF NsfCalls(ready)
                          THEN /\ routine' = "play"
                               /\ saved_state' = IF after = "idle" THEN saved
                                                 ELSE after
                               /\ calls' = calls + 1
                          ELSE /\ routine' = after /\ saved_state' = saved
                               /\ UNCHANGED calls
    /\ UNCHANGED <<emu, duration, failed, play_period, ayVars, elapsed, steady>>

\* Not before it is due.
GbsPlayTime(now) == IF now < next_play THEN next_play ELSE now

\* GBS: the CPU runs to the end of the frame.  The routine may write the
\* timer's registers, which changes the period (update_timer()).
GbsRun ==
    /\ emu = "gbs"
    /\ time < duration
    /\ \E p \in IF routine = "idle" THEN {play_period} ELSE Rates,
          stop \in CpuStops(duration) :
         /\ play_period' = p
         /\ \/ /\ stop[2] = "return" /\ next_play > duration
               /\ time' = duration
               /\ routine' = "idle"
               /\ UNCHANGED <<next_play, calls, late>>
            \/ /\ stop[2] = "return" /\ next_play <= duration
               /\ time' = GbsPlayTime(stop[1])
               /\ next_play' = next_play + p
               /\ routine' = "play" /\ calls' = calls + 1
               /\ late' = (late \/ stop[1] > next_play)
            \/ /\ stop[2] = "illegal"
               /\ time' = stop[1] + IllegalCost
               /\ UNCHANGED <<next_play, routine, calls, late>>
            \/ /\ stop[2] = "time"
               /\ time' = duration
               /\ UNCHANGED <<next_play, routine, calls, late>>
    /\ UNCHANGED <<emu, duration, failed, nsfVars, ayVars, elapsed, steady>>

\* KSS: a play that comes due while a routine runs is dropped.  The RET of
\* a routine may be the instruction that ends the slice.
KssRun ==
    /\ emu = "kss"
    /\ time < duration
    /\ LET end == SliceEnd
       IN  \E stop \in CpuStops(end), idle \in BOOLEAN :
             /\ stop[2] = "return" => idle
             /\ time >= end => idle = (routine = "idle")
             /\ time' = IF idle THEN end ELSE stop[1]
             /\ IF time' >= next_play
                THEN /\ next_play' = next_play + play_period
                     /\ routine' = IF idle THEN "play" ELSE routine
                     /\ calls' = IF idle THEN calls + 1 ELSE calls
                     /\ late' = (late \/ ~idle)
                ELSE /\ routine' = IF idle THEN "idle" ELSE routine
                     /\ UNCHANGED <<next_play, calls, late>>
    /\ UNCHANGED <<emu, duration, failed, play_period, nsfVars, ayVars,
                   elapsed, steady>>

\* SAP: a play that comes due while a routine runs begins when it returns,
\* at the time it was due.  An illegal instruction is an error.
SapRun ==
    /\ emu = "sap"
    /\ time < duration
    /\ \/ \E stop \in CpuStops(duration), idle \in BOOLEAN :
            /\ stop[2] = "return" => idle
            /\ stop[2] # "illegal"
            /\ \/ /\ idle /\ next_play <= duration
                  /\ time' = next_play
                  /\ next_play' = next_play + play_period
                  /\ routine' = "play" /\ calls' = calls + 1
                  /\ late' = (late \/ stop[1] > next_play)
               \/ /\ idle /\ next_play > duration
                  /\ time' = duration
                  /\ routine' = "idle"
                  /\ UNCHANGED <<next_play, calls, late>>
               \/ /\ ~idle
                  /\ time' = stop[1]
                  /\ UNCHANGED <<next_play, routine, calls, late>>
            /\ UNCHANGED <<duration, failed>>
       \/ /\ routine # "idle"
          /\ failed' = TRUE /\ duration' = 0
          /\ UNCHANGED <<time, next_play, routine, calls, late>>
    /\ UNCHANGED <<emu, play_period, nsfVars, ayVars, elapsed, steady>>

-----------------------------------------------------------------------------
(***************************************************************************)
(* AY: the song's driver waits in HALT for an interrupt at every period.   *)
(***************************************************************************)

\* The machine the song turns out to be for in this slice: its first write
\* to a port of one of them (cpu_out_misc(), and the Spectrum's beeper).
Modes == IF mode = "none" THEN {"none", "spectrum", "cpc"} ELSE {mode}

\* change_clock_rate( cpc_clock ) halves the rate, and so the period.
CpcPeriods(m) == IF m = "cpc" /\ mode # "cpc"
                 THEN {p \in Periods : p <= play_period} ELSE {play_period}

AyRun ==
    /\ emu = "ay"
    /\ time < duration
    /\ LET end == SliceEnd
       IN  \E now \in IF time >= end THEN {time} ELSE end..end + Overshoot,
              ei \in IF halted \/ time >= end THEN {iff1} ELSE BOOLEAN,
              halt \in IF halted \/ time >= end THEN {halted} ELSE BOOLEAN,
              m \in IF halted \/ time >= end THEN {mode} ELSE Modes :
             /\ mode' = m
             /\ play_period' \in CpcPeriods(m)
             /\ \/ /\ now < next_play
                   /\ time' = now /\ iff1' = ei /\ halted' = halt
                   /\ routine' = IF halt THEN "idle" ELSE routine
                   /\ UNCHANGED <<next_play, calls, late>>
                \/ /\ now >= next_play /\ ei
                   /\ \E c \in IntCosts : time' = now + c
                   /\ iff1' = FALSE /\ halted' = FALSE
                   /\ routine' = "play" /\ calls' = calls + 1
                   /\ next_play' = next_play + play_period'
                   /\ late' = (late \/ ~halt)
                \/ /\ now >= next_play /\ ~ei
                   /\ time' = now /\ iff1' = ei /\ halted' = halt
                   /\ routine' = IF halt THEN "idle" ELSE routine
                   /\ next_play' = next_play + play_period'
                   /\ late' = TRUE
                   /\ UNCHANGED calls
    /\ UNCHANGED <<emu, duration, failed, nsfVars, elapsed, steady>>

-----------------------------------------------------------------------------
(***************************************************************************)
(* The end of a frame: the clocks that were run are subtracted.  NSF, GBS  *)
(* and SAP do not let next_play become negative.                           *)
(***************************************************************************)
NextFrame(next) == IF emu \in {"nsf", "gbs", "sap"} THEN Max({0, next})
                   ELSE next

EndFrame ==
    /\ duration > 0
    /\ time >= duration
    /\ next_play' = NextFrame(next_play - time)
    /\ elapsed' = elapsed + time
    /\ late' = (late \/ next_play < time)
    /\ duration' = 0 /\ time' = 0
    /\ UNCHANGED <<emu, failed, play_period, routine, nsfVars, ayVars, calls,
                   steady>>

-----------------------------------------------------------------------------
Step == NsfRun \/ GbsRun \/ KssRun \/ SapRun \/ AyRun \/ EndFrame

Next ==
    \/ StartTrack
    \/ SetTempo
    \/ \E d \in Frames : BeginFrame(d)
    \/ Step

Spec == Init /\ [][Next]_vars

\* run_clocks() runs on the client's thread and waits for nothing.
FairSpec == Spec /\ WF_vars(Step)

-----------------------------------------------------------------------------
(***************************************************************************)
(* Properties                                                              *)
(***************************************************************************)
Routines == {"init", "play", "idle"}

NumbersOK ==
    /\ duration \in Nat /\ time \in Nat /\ elapsed \in Nat /\ calls \in Nat
    /\ next_play \in Int /\ play_period \in Rates
    /\ play_ready \in 0..PlayDelay /\ play_extra \in Int /\ drift \in Int

FlagsOK ==
    /\ emu \in Emus /\ failed \in BOOLEAN
    /\ routine \in Routines /\ saved_state \in {"none", "init"}
    /\ iff1 \in BOOLEAN /\ halted \in BOOLEAN
    /\ mode \in {"none", "spectrum", "cpc"}
    /\ late \in BOOLEAN /\ steady \in BOOLEAN

TypeOK == NumbersOK /\ FlagsOK

\* There is one place for the registers of an interrupted routine
\* (saved_state, Nsf_Emu.cpp:654).  It is only ever init that is interrupted,
\* and not a second time before play has returned: the registers that wait
\* there are not overwritten, and a play is never nested in another.
SavedOnce ==
    saved_state # "none" =>
        /\ emu = "nsf"
        /\ saved_state = "init" /\ routine = "play" /\ play_ready = 0

\* NSF's play waits for its return, and is called as soon as nothing runs.
ReadyInv == emu = "nsf" => /\ routine = "play" => play_ready = 0
                           /\ routine = "idle" => play_ready = 1

\* The period of NSF and the fraction it carries are those of one tempo.  (A
\* change of tempo leaves a fraction of the old one behind, which the next
\* periods take for theirs: after many changes it may be worth several clocks.)
\* And it is not so short that a play is overdue before the CPU notices.
Regular == emu = "nsf" => steady /\ play_period \in Periods

\* Where the next play is: ahead of the CPU, if the emulator calls it at once.
\* A frame begins at time 0.
TimesInv ==
    /\ duration = 0 /\ ~failed => time = 0
    /\ emu \in {"gbs", "sap"} => next_play >= 0
    /\ emu \in {"nsf", "kss", "ay"} /\ Regular => next_play >= time

\* The fraction that NSF carries is that of one period or, if two make a whole
\* clock, what is missing to one; then the exact time is a clock ahead at most.
FractionInv ==
    LET f == play_period % Divisor
    IN  emu = "nsf" /\ steady =>
            /\ \/ play_extra \in {0, f}
               \/ 2 * f >= Divisor /\ play_extra = f - Divisor
            /\ f = 0 => drift = 0
            /\ 2 * f = Divisor => drift = IF play_extra = f THEN Divisor ELSE f

\* The next play is one shortest period behind those that have been called
\* and, while none was left out, at most one longest.
shortest == PeriodClocks(Min(Usual))
longest  == PeriodClocks(Max(Usual)) + IF emu = "nsf" THEN 1 ELSE 0
PaceInv ==
    Regular =>
        /\ (calls + 1) * shortest <= elapsed + next_play
        /\ ~late => elapsed + next_play <= (calls + 1) * longest

\* A song is not played too fast: no emulator has called play more often than
\* its shortest period allows; and not too slow: as long as no play came due
\* while a routine ran, none was left out.
Pace ==
    LET now == elapsed + time
    IN  Regular =>
            /\ calls * shortest <= now
            /\ ~late /\ next_play >= time => now <= (calls + 1) * longest

\* The inductive invariant.
SchedInv == TypeOK /\ SavedOnce /\ ReadyInv /\ TimesInv /\ FractionInv /\ PaceInv /\ Pace

\* NSF at the rates of NTSC and PAL, which are whole or half clocks (and while
\* the tempo is not changed, which may leave a wrong fraction behind): the
\* fraction of the period that the code carries over (play_extra) is all of
\* it, so that the play routine does not drift away from the exact rate.
TempoKept ==
    emu = "nsf" /\ steady /\ 2 * play_period % Divisor = 0 =>
        drift \in 0..Divisor

\* A frame of NSF, KSS or AY ends with the next play ahead of it, whatever the
\* routines did: check( next_play >= 0 ) holds before any correction.
DueIsServed ==
    /\ duration > 0 /\ time >= duration
    /\ emu \in {"nsf", "kss", "ay"} /\ Regular
    => next_play >= time

\* What a frame has left: clocks from the next play on, and from now on.
PlaysLeft == duration + 1 - Lesser(next_play, duration + 1)
TimeLeft  == duration - Lesser(time, duration)

\* Why run_clocks() returns, although the CPU may take no time (a routine that
\* returns at once) and may be set back to the time of a play that is overdue
\* (SAP): each turn of the loop brings the next play nearer to the end of the
\* frame, or else the CPU, or takes NSF back to the init that was interrupted.
\* That needs a period of a clock at least, which no NSF header is kept from
\* undercutting, but no more: a play may be overdue before the CPU notices.
FrameProgress ==
    [][Step /\ (emu = "nsf" => steady /\ play_period >= Divisor)
         => \/ duration' = 0
            \/ /\ duration' = duration /\ PlaysLeft' <= PlaysLeft
               /\ \/ PlaysLeft' < PlaysLeft
                  \/ TimeLeft' < TimeLeft
                  \/ /\ TimeLeft' = TimeLeft
                     /\ saved_state # "none" /\ saved_state' = "none"]_vars

\* run_clocks() returns, whatever the song's routines do and the client made
\* of the tempo, if the period is a clock at least.
FrameReturns ==
    (duration > 0 /\ PeriodClocks(play_period) > 0) ~> (duration = 0)

\* Not of every file: with a period of no clocks NSF's loop calls play at one
\* and the same time for ever.
AlwaysReturns == (duration > 0) ~> (duration = 0)

\* The same assertion in Sap_Emu.cpp:436.
SapDueIsServed ==
    emu = "sap" /\ duration > 0 /\ time >= duration => next_play >= time
=============================================================================
