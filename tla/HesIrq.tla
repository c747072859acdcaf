-------------------------------- MODULE HesIrq --------------------------------
(***************************************************************************)
(* Time and interrupts in the PC Engine emulator: Hes_Emu's timer, video   *)
(* interrupt and mask, and how Hes_Cpu::run() learns of them.              *)
(*                                                                         *)
(* The CPU never looks at an interrupt line.  It keeps its time relative   *)
(* to a base, the earlier of the end of the run and irq_time, which counts *)
(* only while interrupts are enabled; an instruction begins while that     *)
(* relative time is negative.  Every instruction that changes the I flag   *)
(* and every access that changes a line moves the base.  The devices run   *)
(* lazily, up to the time of an access.                                    *)
(*                                                                         *)
(* The program is any sequence of instructions; those that matter here are *)
(* actions, Op is any other.  Times are clocks from the frame's start.     *)
(***************************************************************************)
EXTENDS Integers, FiniteSetsExt

CONSTANTS
    Frames,       \* durations asked for
    OpClocks,     \* clocks of an instruction
    AccessClocks, \* clocks of an instruction that accesses a device
    EntryClocks,  \* clocks of entering an interrupt
    Loads,        \* timer.load, for the values of the register
    PlayPeriod,   \* play_period, the time between vertical blanks
    Future,       \* future_hes_time
    NDEBUG,       \* a release build
    MaxLag        \* bound: no frame begins with a count or an irq_time more below 0

ASSUME HesAssumption ==
    /\ Frames \subseteq Nat \ {0} /\ Loads \subseteq Nat \ {0} /\ Loads # {}
    /\ OpClocks \subseteq Nat \ {0} /\ AccessClocks \in Nat \ {0}
    /\ EntryClocks \in Nat \ {0} /\ PlayPeriod \in Nat \ {0} /\ MaxLag \in Nat
    /\ Future \in Nat /\ NDEBUG \in BOOLEAN
    /\ \A n \in Frames \cup Loads \cup OpClocks
                 \cup {AccessClocks, EntryClocks, PlayPeriod, MaxLag} : 8 * n < Future
    \* An instruction takes a few clocks, the timer's register has seven bits.
    /\ \E c \in OpClocks : \A d \in OpClocks : d <= c
    /\ \E n \in Loads : \A l \in Loads : l <= n

VARIABLES
    m,       \* the registers and times that run() and the devices keep, and
             \* m.postponed (history): a write that does nothing worked out the
             \* timer's interrupt after the counter was brought up to date
    running, \* in run_clocks()
    \* History, read by properties only:
    before,  \* the instruction before: "cli" if it enabled interrupts, or "other"
    loaded   \* when the timer was loaded last, less whole periods
vars == <<m, running, before, loaded>>

Lines == {"timer", "vdp"}
Time(s) == s.base + s.s_time

\* update_end_time(): i is the I flag of the status visible outside run().
SetBase(s, t) == [s EXCEPT !.base = t, !.s_time = @ + s.base - t]
EarlierOf(s, end, irq) == IF irq < end /\ ~s.i THEN irq ELSE end
set_irq_time(s, t) == [SetBase(s, EarlierOf(s, s.end_time, t)) EXCEPT !.irq_time = t]
set_end_time(s, t) == [SetBase(s, EarlierOf(s, t, s.irq_time)) EXCEPT !.end_time = t]

\* The devices up to the present.
run_until_faulty(s, present) ==
    LET elapsed == present - s.last_time
        blanks == (present - s.next_vbl + PlayPeriod - 1) \div PlayPeriod
        counted == s.count - elapsed
    IN  [s EXCEPT !.next_vbl = IF @ < present THEN @ + blanks * PlayPeriod ELSE @,
                  !.last_time = IF elapsed > 0 /\ s.enabled THEN present ELSE @,
                  !.count = IF elapsed > 0 /\ s.enabled
                            THEN counted + IF counted <= 0 THEN s.load ELSE 0
                            ELSE @]
run_until(s, present) ==
    LET elapsed == present - s.last_time
        blanks == (present - s.next_vbl + PlayPeriod - 1) \div PlayPeriod
        counted == s.count - elapsed
    IN  [s EXCEPT !.next_vbl = IF @ < present THEN @ + blanks * PlayPeriod ELSE @,
                  !.last_time = IF elapsed > 0 THEN present ELSE @,
                  !.count = IF elapsed > 0 /\ s.enabled
                            THEN counted + IF counted <= 0 THEN s.load ELSE 0
                            ELSE @]
RunUntilNow(s) == run_until(s, Time(s))

Line(s, line) == IF line = "timer" THEN s.irq_timer ELSE s.irq_vdp
DueAt(s) == Min({Future} \cup {Line(s, l) : l \in Lines \ s.disables})
irq_changed(s) ==
    LET present == Time(s)
        t == [s EXCEPT
              !.irq_timer = IF @ <= present THEN @
                            ELSE IF s.enabled /\ ~s.fired THEN present + s.count ELSE Future,
              !.irq_vdp = IF @ <= present THEN @
                          ELSE IF s.control THEN s.next_vbl ELSE Future]
    IN  set_irq_time(t, DueAt(t))
\* After run_until(): the timer's interrupt is worked out from a current count.
Rescheduled(s) == irq_changed([s EXCEPT !.postponed = FALSE])

-----------------------------------------------------------------------------
(***************************************************************************)
(* A track starts, a frame begins.                                         *)
(***************************************************************************)
AtStart(count, load) ==
    [base |-> 0, s_time |-> 0, i |-> TRUE, irq_time |-> Future, end_time |-> Future,
     last_time |-> 0, count |-> count, load |-> load, enabled |-> FALSE, fired |-> FALSE,
     next_vbl |-> 0, control |-> FALSE, irq_timer |-> Future, irq_vdp |-> Future,
     disables |-> Lines, postponed |-> FALSE]
InitialLoad == Max(Loads)

Init ==
    /\ m = AtStart(InitialLoad, InitialLoad)
    /\ running = FALSE /\ before = "other" /\ loaded = 0

start_track ==
    /\ ~running
    /\ m' = AtStart(m.load, InitialLoad)
    /\ before' = "other" /\ loaded' = 0
    /\ UNCHANGED running

run_clocks == \E duration \in Frames :
    /\ ~running /\ m.count >= -MaxLag /\ m.irq_time >= -MaxLag
    /\ m' = set_end_time(m, duration)
    /\ running' = TRUE
    /\ UNCHANGED <<before, loaded>>

-----------------------------------------------------------------------------
(***************************************************************************)
(* Instructions.  s is the machine after the instruction's clocks.         *)
(***************************************************************************)
Begins(clocks) == running /\ m.s_time < 0
After(clocks) == [m EXCEPT !.s_time = @ + clocks]
Executed(s) ==
    /\ m' = s /\ before' = "other"
    /\ UNCHANGED <<running, loaded>>

Op == \E c \in OpClocks : Begins(c) /\ Executed(After(c))

\* CLI, and PLP that clears I: an interrupt that is due waits for one instruction.
Enabled_faulty(s) ==
    LET u == [s EXCEPT !.i = FALSE]
        delta == u.base - u.irq_time
        v == SetBase(u, u.irq_time)
    IN  IF delta <= 0 THEN u
        ELSE IF v.s_time < 0 \/ delta < v.s_time + 1 THEN v
        ELSE [v EXCEPT !.base = @ + v.s_time + 1, !.s_time = -1]
Enabled(s) ==
    LET u == [s EXCEPT !.i = FALSE]
        delta == u.base - u.irq_time
        v == SetBase(u, u.irq_time)
    IN  IF delta <= 0 THEN u
        ELSE IF v.s_time < 0 \/ delta < v.s_time + 1 THEN v
        ELSE [v EXCEPT !.base = @ + v.s_time + 1, !.s_time = -1,
                       !.irq_time = v.base + v.s_time + 1]
CLI == \E c \in OpClocks :
    /\ Begins(c) /\ m.i
    /\ m' = Enabled(After(c)) /\ before' = "cli"
    /\ UNCHANGED <<running, loaded>>
\* SEI, and PLP that sets I.
Inhibited(s) == SetBase([s EXCEPT !.i = TRUE], s.end_time)
SEI == \E c \in OpClocks : Begins(c) /\ ~m.i /\ Executed(Inhibited(After(c)))
\* RTI enables interrupts at once.
Returned_faulty(s, inhibit) == [s EXCEPT !.i = inhibit]
Returned(s, inhibit) ==
    LET t == [s EXCEPT !.i = inhibit]
    IN  IF inhibit = s.i THEN t ELSE SetBase(t, EarlierOf(t, t.end_time, t.irq_time))
RTI == \E c \in OpClocks, inhibit \in BOOLEAN :
    Begins(c) /\ Executed(Returned(After(c), inhibit))
Entered(s) == SetBase([s EXCEPT !.s_time = @ + EntryClocks, !.i = TRUE], s.end_time)
BRK == Begins(1) /\ Executed(Entered(After(1)))

-----------------------------------------------------------------------------
(***************************************************************************)
(* Accesses to the devices.                                                *)
(***************************************************************************)
Now == RunUntilNow(After(AccessClocks))
Access == Begins(AccessClocks)

\* 0x0C00 and 0x0C01: the timer's period; on and off.
WriteLoad == \E load \in Loads :
    /\ Access
    /\ m' = Rescheduled([Now EXCEPT !.load = load, !.count = load])
    /\ before' = "other" /\ loaded' = Time(Now)
    /\ UNCHANGED running
WriteEnable == \E on \in BOOLEAN :
    /\ Access
    /\ m' = IF on = m.enabled THEN After(AccessClocks)
            ELSE Rescheduled([Now EXCEPT !.enabled = on, !.count = IF on THEN Now.load ELSE @])
    /\ loaded' = IF on /\ ~m.enabled THEN Time(Now) ELSE loaded
    /\ before' = "other"
    /\ UNCHANGED running
\* 0x1402: which lines are disabled.
WriteDisables == \E masked \in SUBSET Lines :
    Access /\ Executed(Rescheduled([Now EXCEPT !.disables = masked]))
\* 0x1403: the timer's interrupt is acknowledged and its period begins anew.
Acknowledge ==
    /\ Access
    /\ m' = Rescheduled([Now EXCEPT !.count = IF Now.enabled THEN Now.load ELSE @,
                                    !.fired = FALSE])
    /\ loaded' = IF m.enabled THEN Time(Now) ELSE loaded
    /\ before' = "other"
    /\ UNCHANGED running
\* Register 5 of the video chip: its interrupt on and off.
WriteControl == \E on \in BOOLEAN :
    Access /\ Executed(Rescheduled([Now EXCEPT !.control = on]))
\* Its status: reading it acknowledges a vertical blank.
ReadVdp ==
    LET s == After(AccessClocks)
    IN  /\ Access
        /\ Executed(IF s.irq_vdp > Time(s) THEN s
                    ELSE Rescheduled(RunUntilNow([s EXCEPT !.irq_vdp = Future])))
\* The timer's counter.
ReadTimer == Access /\ Executed(Now)
\* Any other address that is neither the sound chip's nor the ADPCM's.  A debug
\* build returns; a release build has no such cases and goes on to irq_changed(),
\* which adds to the present a count that was not brought up to it.
WriteOther ==
    LET s == After(AccessClocks)
    IN  /\ Access
        /\ Executed(IF NDEBUG THEN irq_changed([s EXCEPT !.postponed = TRUE]) ELSE s)

-----------------------------------------------------------------------------
(***************************************************************************)
(* Out of time: an interrupt is entered, or run() returns.                 *)
(***************************************************************************)
AtIdle(s) == [s EXCEPT !.s_time = IF @ < 0 THEN 0 ELSE @]
Pending(s, line) == ~s.i /\ line \notin s.disables /\ Line(s, line) <= Time(s)
OutOfTime(s) == running /\ s.s_time >= 0

Interrupt(s) ==
    /\ OutOfTime(s)
    /\ \/ /\ Pending(s, "timer")
          /\ Executed(Entered(irq_changed([s EXCEPT !.fired = TRUE, !.irq_timer = Future])))
       \/ /\ Pending(s, "vdp") /\ ~Pending(s, "timer")
          /\ Executed(Entered(s))

adjust_time(t, delta) == IF t < Future THEN Max({t - delta, 0}) ELSE t
Earlier(t, delta) == IF t < Future THEN t - delta ELSE t
EndFrame(s, duration) ==
    [s EXCEPT !.last_time = @ - duration, !.next_vbl = @ - duration,
              !.base = @ - duration,
              !.irq_time = Earlier(@, duration), !.end_time = Earlier(@, duration),
              !.irq_timer = adjust_time(@, duration), !.irq_vdp = adjust_time(@, duration)]
Return(s) ==
    /\ OutOfTime(s) /\ \A l \in Lines : ~Pending(s, l)
    /\ m' = EndFrame(run_until(s, s.end_time), s.end_time)
    /\ loaded' = -((s.end_time - loaded) % s.load)
    /\ running' = FALSE
    /\ UNCHANGED before

\* At idle_addr run() passes the time to its base at once.
Idle == m.s_time < 0 /\ (Interrupt(AtIdle(m)) \/ Return(AtIdle(m)))
OutOfClocks == Interrupt(m) \/ Return(m)

Step == \/ Op \/ CLI \/ SEI \/ RTI \/ BRK
        \/ WriteLoad \/ WriteEnable \/ WriteDisables \/ Acknowledge
        \/ WriteControl \/ ReadVdp \/ ReadTimer \/ WriteOther
        \/ Idle \/ OutOfClocks
Next == start_track \/ run_clocks \/ Step
Spec == Init /\ [][Next]_vars

-----------------------------------------------------------------------------
Machine ==
    [base : Int, s_time : Int, i : BOOLEAN, irq_time : Int, end_time : Int,
     last_time : Int, count : Int, load : Loads, enabled : BOOLEAN, fired : BOOLEAN,
     next_vbl : Int, control : BOOLEAN, irq_timer : Int, irq_vdp : Int,
     disables : SUBSET Lines, postponed : BOOLEAN]
TypeOK ==
    /\ m \in Machine
    /\ running \in BOOLEAN /\ before \in {"cli", "other"} /\ loaded \in Int

\* The longest instruction.
Longest == Max(OpClocks \cup {AccessClocks, 1})
\* The CPU is at most an instruction late and, while interrupts are inhibited,
\* the entry of one.
FrameInv ==
    /\ m.end_time \in IF running THEN Frames ELSE {0, Future}
    /\ Time(m) < (IF running THEN m.end_time ELSE 0) + Longest
                   + (IF m.i THEN EntryClocks ELSE 0)
\* The counter was brought up to date at last_time and keeps step with its
\* loading.  The timer's interrupt, if it is still to come, comes when the counter
\* will have counted to 0, or was postponed, within a period from now.
CounterInv ==
    /\ m.last_time <= Time(m) /\ m.count <= m.load
    /\ m.enabled => (m.last_time + m.count - loaded) % m.load = 0
    /\ m.postponed => NDEBUG
    /\ m.irq_timer <= Time(m)
       \/ IF m.enabled /\ ~m.fired
          THEN /\ m.irq_timer <= Time(m) + m.load
               /\ m.postponed \/ m.irq_timer = m.last_time + m.count
          ELSE m.irq_timer = Future

\* The base that instructions are measured against is the one the loop's own
\* check expects (the check runs in debug builds only).
BaseCorrect == running => m.base = EarlierOf(m, m.end_time, m.irq_time)
\* irq_time, which was worked out at some access in the past, tells when the
\* first line that is not disabled is due; once one is due it asks for an
\* interrupt, after CLI one instruction later.
IrqTimeCurrent ==
    LET now == Time(m)
    IN  IF DueAt(m) > now THEN m.irq_time = DueAt(m)
        ELSE m.irq_time <= now + IF before = "cli" THEN 1 ELSE 0
\* The timer's interrupt is scheduled for the end of the period that runs,
\* however often the counter was brought up to date in between, over frames.  In
\* a release build a write that does nothing may put it off, within a period from now,
\* until the next access to the timer, the interrupts or the video chip.
EndOfPeriod == Time(m) + m.load - ((Time(m) - loaded) % m.load)
Scheduled == running /\ m.irq_timer \in (Time(m) + 1)..(Future - 1)
TimerExact ==
    Scheduled => IF m.postponed THEN m.irq_timer <= Time(m) + m.load
                 ELSE m.irq_timer = EndOfPeriod
\* What a debug build promises, where such a write is "unmapped" and does
\* nothing: the interrupt keeps its period.  A release build does not.
UnmappedIsIgnored == Scheduled => m.irq_timer = EndOfPeriod
\* The inductive invariant.
HesInv == TypeOK /\ FrameInv /\ BaseCorrect /\ IrqTimeCurrent /\ CounterInv

\* No instruction begins while an interrupt it must wait for is due, except
\* the one after CLI, and an interrupt is entered only then.  run() returns no
\* earlier than asked (a check in run_clocks()) and late by less than an
\* instruction and the entry of an interrupt ("time() - duration < 20", which is
\* commented out there).
Prompt ==
    [][/\ (running /\ running' /\ Time(m') > Time(m) /\ ~m.i /\ DueAt(m) <= Time(m)) =>
              before = "cli" \/ (m'.i /\ m'.end_time = m'.base)
       /\ (running /\ ~running') =>
              Time(m') \in 0..(Longest + EntryClocks - 1)]_vars
=============================================================================
