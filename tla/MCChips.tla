------------------------------- MODULE MCChips -------------------------------
(***************************************************************************)
(* The sound chips, one oscillator (of the AY and the PC Engine two, of    *)
(* the POKEY all four) per behaviour, with periods of a few clocks and     *)
(* frames of a few more.                                                   *)
(***************************************************************************)
EXTENDS Integers, TLC

VARIABLES chip,
          kind, osc, clocks, calls, left, segment, heard, level,
          \* NES
          pal_mode, output, frame_delay, frame, frame_mode, irq_flag, next_irq,
          earliest_irq,
          \* Game Boy
          select, muted, next_frame_time, frame_count, lost,
          \* AY
          oscs, noise, env, stray, ran,
          \* POKEY and PC Engine
          control, poly4_pos, poly5_pos, polym_pos, balance

nesVars == <<pal_mode, output, frame_delay, frame, frame_mode, irq_flag, next_irq,
             earliest_irq>>
frameVars == <<next_frame_time, frame_count>>
gbOnly  == <<select, muted>>
ayVars  == <<noise, env, stray>>
sapVars == <<control, poly4_pos, poly5_pos, polym_pos>>
single  == <<kind, osc>>
several == <<oscs, ran>>
vars    == <<chip, single, several, clocks, calls, left, segment, heard, level, lost, balance,
             nesVars, frameVars, gbOnly, ayVars, sapVars>>

NesControl(halt, constant, vol, duty, linear, period, irq) ==
    [halt |-> halt, constant |-> constant, vol |-> vol, duty |-> duty, linear |-> linear,
     period |-> period, irq |-> irq]
SquareControls == {NesControl(FALSE, TRUE, 2, 1, 0, 0, FALSE),
                   NesControl(TRUE, FALSE, 1, 3, 0, 0, FALSE)}
Nes == INSTANCE NesApu WITH
    Kinds <- {"square1", "square2", "triangle", "noise", "dmc"}, Modes <- {FALSE},
    FramePeriod <- 6, TriRange <- 3, EnvMax <- 2, MinPeriod <- 1, PeriodLimit <- 4,
    LfsrWidth <- 4, ShortTap <- 2, ByteBits <- 2, DacMax <- 6, DmcLengths <- 2,
    Memory <- <<1, 2>>, Runs <- {1, 4, 13}, MaxClocks <- 22, MaxCalls <- 2, NoIrq <- 1000,
    Controls <- [square1 |-> SquareControls, square2 |-> SquareControls,
                 noise |-> {NesControl(FALSE, TRUE, 2, 0, 0, 0, FALSE),
                            NesControl(TRUE, FALSE, 1, 0, 0, 0, FALSE)},
                 triangle |-> {NesControl(FALSE, FALSE, 0, 0, 2, 0, FALSE),
                               NesControl(TRUE, FALSE, 0, 0, 1, 0, FALSE)},
                 dmc |-> {NesControl(FALSE, FALSE, 0, 0, 0, 2, TRUE),
                          NesControl(TRUE, FALSE, 0, 0, 0, 3, TRUE)}],
    Sweeps <- {[on |-> TRUE, period |-> 1, negate |-> n, shift |-> 1] : n \in BOOLEAN},
    Periods <- [square1 |-> {[period |-> p] : p \in {1, 2}}, square2 |-> {[period |-> 1]},
                triangle |-> {[period |-> p] : p \in {1, 2, 3}},
                noise |-> {[period |-> 2, short |-> FALSE], [period |-> 3, short |-> TRUE]},
                dmc |-> {[period |-> 2]}],
    Lengths <- {2}, Dacs <- {0, 5}

GbEnv(v, u, p)   == [vol |-> v, up |-> u, period |-> p]
GbSweep(p, s, d) == [period |-> p, shift |-> s, down |-> d]
Gb == INSTANCE GbApu WITH
    Kinds <- {"square1", "square2", "wave", "noise"}, FramePeriod <- 4, FreqLimit <- 8,
    SquareHigh <- 2, WaveHigh <- 1, SquareStep <- 1, WaveStep <- 1, VolMax <- 3,
    LongTap <- 3, ShortTap <- 1, WaveSize <- 3, LengthOf <- 2, NoisePeriod <- 2,
    Wave <- {<<0, 3, 1>>, <<2, 2, 3>>}, Runs <- {1, 3, 9}, MaxClocks <- 14, MaxCalls <- 2,
    Setups <- {[length |-> 1, len_enabled |-> FALSE, env |-> GbEnv(3, FALSE, 1),
                sweep |-> GbSweep(1, 1, FALSE), freq |-> 5, duty |-> 1, short |-> FALSE,
                period |-> 2],
               [length |-> 2, len_enabled |-> TRUE, env |-> GbEnv(1, TRUE, 0),
                sweep |-> GbSweep(1, 2, TRUE), freq |-> 6, duty |-> 2, short |-> TRUE,
                period |-> 3]},
    Sweeps <- {GbSweep(0, 0, FALSE)}, Lengths <- {0, 2},
    Envelopes <- {GbEnv(0, FALSE, 0), GbEnv(2, TRUE, 1)},
    Pitches <- {[freq |-> 7, short |-> FALSE, period |-> 1],
                [freq |-> 4, short |-> TRUE, period |-> 3]}

Mix(t, n)      == [tone_off |-> t, noise_off |-> n]
AyVolume(l, e) == [level |-> l, env |-> e]
AySetup(t, v, m, n, e, mode) ==
    [tone |-> t, vol |-> v, mixer |-> m, noise |-> n, env |-> e, mode |-> mode]
Ay == INSTANCE AyApu WITH
    Channels <- {1, 2}, Factor <- 1, Inaudible <- 1, EnvSize <- 3, LfsrWidth <- 4,
    LfsrTap <- 1, Stray <- {0}, Runs <- {0, 1, 5}, Tones <- {0, 2, 3},
    Mixers <- {Mix(FALSE, FALSE)}, Volumes <- {AyVolume(0, FALSE), AyVolume(2, TRUE)},
    NoisePeriods <- {1}, EnvPeriods <- {2}, EnvModes <- {9, 14}, MaxClocks <- 14,
    MaxCalls <- 2,
    Setups <- {
        AySetup(<<2, 3>>, <<AyVolume(2, FALSE), AyVolume(0, TRUE)>>,
                <<Mix(FALSE, TRUE), Mix(FALSE, FALSE)>>, 1, 1, 10),
        AySetup(<<3, 2>>, <<AyVolume(1, FALSE), AyVolume(2, TRUE)>>,
                <<Mix(FALSE, FALSE), Mix(TRUE, FALSE)>>, 2, 1, 8),
        AySetup(<<1, 2>>, <<AyVolume(2, FALSE), AyVolume(2, TRUE)>>,
                <<Mix(FALSE, TRUE), Mix(FALSE, TRUE)>>, 2, 2, 13)}

Small(r) == [regs |-> r, mem |-> <<2, 0, 1>>, wave |-> <<1, 3, -2>>, white |-> TRUE]
Changes(rs) == {[regs |-> r] : r \in rs}
Smalls == INSTANCE SmallApus WITH
    Kinds <- {"vrc6_square", "vrc6_saw", "namco", "fme7", "scc", "sms_square", "sms_noise"},
    SquareSteps <- 4, SawSteps <- 3, SawRange <- 8, SawShift <- 2,
    TooHigh <- [vrc6_square |-> 1, fme7 |-> 2, scc |-> 1, sms_square |-> 1],
    Factor <- 2, NamcoBeyond <- {0, 3}, NoiseWidth <- 4, NoiseTap <- 1, NoiseShortest <- 1,
    Runs <- {0, 1, 3, 8}, MaxClocks <- 14, MaxCalls <- 2,
    Setups <- [vrc6_square |-> {Small([on |-> TRUE, vol |-> 2, gate |-> FALSE, duty |-> d,
                                       period |-> 2]) : d \in {1, 2}},
               vrc6_saw |-> {Small([on |-> TRUE, step |-> 3, period |-> 1])},
               namco |-> {Small([on |-> TRUE, vol |-> 2, slow |-> FALSE, active |-> TRUE,
                                 period |-> 2, size |-> 3, addr |-> a]) : a \in {0, 1}},
               fme7 |-> {Small([vol |-> 2, period |-> 1])},
               scc |-> {Small([on |-> TRUE, vol |-> 2, period |-> 2])},
               sms_square |-> {Small([vol |-> 2, period |-> 2])},
               sms_noise |-> {Small([vol |-> 2, period |-> 1])}],
    Writes <- [vrc6_square |-> Changes({[vol |-> 1, gate |-> g, duty |-> 2] : g \in BOOLEAN}
                                 \cup {[period |-> 1], [period |-> 3], [on |-> FALSE]}),
               vrc6_saw |-> Changes({[step |-> 0], [period |-> 2], [on |-> FALSE]}),
               namco |-> Changes({[vol |-> 0], [active |-> FALSE], [slow |-> TRUE],
                                  [size |-> 1, on |-> TRUE, slow |-> FALSE]}),
               fme7 |-> Changes({[vol |-> 0], [period |-> 0], [period |-> 2]}),
               scc |-> Changes({[on |-> FALSE], [period |-> 1], [vol |-> 1]}),
               sms_square |-> Changes({[vol |-> 0], [period |-> 0], [period |-> 3]}),
               sms_noise |-> Changes({[vol |-> 0]})
                   \cup {[regs |-> [period |-> 0], white |-> FALSE],
                         [regs |-> [period |-> 2], white |-> TRUE]}]

Pokey(tone, pure, p4, vol) ==
    [tone |-> tone, pure |-> pure, poly4 |-> p4, dac |-> FALSE, vol |-> vol]
PokeyControl(fast, hipass, slowest, p9) ==
    [fast |-> fast, hipass |-> hipass, slowest |-> slowest, poly9 |-> p9]
Sap == INSTANCE SapApu WITH
    SlowDivider <- 2, SlowestDivider <- 3, ReloadRange <- 4, Inaudible <- 2,
    Poly4 <- [width |-> 2, tap |-> 1], Poly9 <- [width |-> 3, tap |-> 2],
    Poly17 <- [width |-> 4, tap |-> 2], Poly5 <- <<1, 0, 1>>,
    Runs <- {0, 1, 5}, MaxClocks <- 14, MaxCalls <- 1,
    Reloads <- {1},
    Channels <- {Pokey(TRUE, TRUE, FALSE, 1), Pokey(FALSE, TRUE, TRUE, 2),
                 [vol |-> 0, dac |-> TRUE]},
    Controls <- {PokeyControl({}, {0}, FALSE, TRUE), PokeyControl({0, 1}, {1}, FALSE, FALSE)},
    Setups <- {[channels |-> <<Pokey(TRUE, TRUE, FALSE, 1), Pokey(FALSE, TRUE, FALSE, 1),
                               Pokey(TRUE, FALSE, FALSE, 2), Pokey(FALSE, FALSE, TRUE, 1)>>,
                reloads |-> <<0, 1, 2, 1>>,
                control |-> PokeyControl({2}, {0, 1}, FALSE, FALSE)],
               [channels |-> <<Pokey(TRUE, TRUE, FALSE, 1), Pokey(TRUE, FALSE, FALSE, 1),
                               [Pokey(TRUE, FALSE, FALSE, 2) EXCEPT !.dac = TRUE],
                               Pokey(FALSE, TRUE, TRUE, 1)>>,
                reloads |-> <<1, 1, 0, 0>>,
                control |-> PokeyControl({1, 3}, {0, 1}, TRUE, TRUE)]}

HesNoise(on, period) == [on |-> on, period |-> period]
HesControl(on, dda, vol) == [on |-> on, dda |-> dda, vol |-> vol]
HesWave(vol, period, noise_, sides) ==
    [on |-> TRUE, dda |-> FALSE, vol |-> vol, period |-> period, wave |-> <<1, 3, 0>>,
     noise |-> noise_, balance |-> sides]
Hes == INSTANCE HesApu WITH
    Oscs <- {0, 1}, NoiseOscs <- {1}, LogTable <- <<0, 1, 1, 2>>, BalanceMax <- 1,
    Center <- 2, DacMax <- 3, MinPeriod <- 3, LfsrWidth <- 4, LfsrTaps <- {1},
    Runs <- {0, 1, 6}, MaxClocks <- 10, MaxCalls <- 2,
    Periods <- {0, 1}, Balances <- {<<1, 0>>, <<1, 1>>}, Samples <- {2},
    Controls <- {HesControl(TRUE, TRUE, 3), HesControl(FALSE, FALSE, 3),
                 HesControl(TRUE, FALSE, 1)},
    Noises <- {HesNoise(TRUE, 3), HesNoise(FALSE, 3)},
    Setups <- {0 :> HesWave(3, 2, HesNoise(FALSE, 3), <<1, 1>>)
                   @@ 1 :> HesWave(3, 3, HesNoise(TRUE, 2), <<1, 0>>),
               0 :> HesWave(2, 2, HesNoise(FALSE, 3), <<1, 0>>)
                   @@ 1 :> HesWave(3, 2, HesNoise(FALSE, 2), <<1, 1>>)}

Unused(v) == v = <<>>

NoNes     == /\ Unused(pal_mode) /\ Unused(output) /\ Unused(frame_delay) /\ Unused(frame)
             /\ Unused(frame_mode) /\ Unused(irq_flag) /\ Unused(next_irq)
             /\ Unused(earliest_irq)
NoFrames  == Unused(next_frame_time) /\ Unused(frame_count)
NoGb      == Unused(select) /\ Unused(muted)
NoAy      == Unused(noise) /\ Unused(env) /\ Unused(stray)
NoSap     == Unused(control) /\ Unused(poly4_pos) /\ Unused(poly5_pos) /\ Unused(polym_pos)
NoSingle  == Unused(kind) /\ Unused(osc)
NoSeveral == Unused(oscs) /\ Unused(ran)

Init ==
    \/ /\ chip = "nes" /\ Nes!Init
       /\ NoFrames /\ NoGb /\ NoAy /\ NoSap /\ NoSeveral /\ Unused(lost) /\ Unused(balance)
    \/ /\ chip = "gb" /\ Gb!Init
       /\ NoNes /\ NoAy /\ NoSap /\ NoSeveral /\ Unused(balance)
    \/ /\ chip = "ay" /\ Ay!Init
       /\ NoNes /\ NoFrames /\ NoGb /\ NoSap /\ NoSingle /\ Unused(left) /\ Unused(lost)
       /\ Unused(balance)
    \/ /\ chip = "small" /\ Smalls!Init
       /\ NoNes /\ NoFrames /\ NoAy /\ NoSap /\ NoSeveral /\ Unused(left) /\ Unused(balance)
    \/ /\ chip = "sap" /\ Sap!Init
       /\ NoNes /\ NoFrames /\ NoGb /\ NoAy /\ NoSingle /\ Unused(left) /\ Unused(lost)
       /\ Unused(balance)
    \/ /\ chip = "hes" /\ Hes!Init
       /\ NoNes /\ NoFrames /\ NoGb /\ NoAy /\ NoSap /\ NoSingle /\ Unused(left)

Next ==
    /\ UNCHANGED chip
    /\ \/ /\ chip = "nes" /\ Nes!Next
          /\ UNCHANGED <<frameVars, gbOnly, ayVars, sapVars, several, lost, balance>>
       \/ /\ chip = "gb" /\ Gb!Next
          /\ UNCHANGED <<nesVars, ayVars, sapVars, several, balance>>
       \/ /\ chip = "ay" /\ Ay!Next
          /\ UNCHANGED <<nesVars, frameVars, gbOnly, sapVars, single, left, lost, balance>>
       \/ /\ chip = "small" /\ Smalls!Next
          /\ UNCHANGED <<nesVars, frameVars, ayVars, sapVars, several, left, balance>>
       \/ /\ chip = "sap" /\ Sap!Next
          /\ UNCHANGED <<nesVars, frameVars, gbOnly, ayVars, single, left, lost, balance>>
       \/ /\ chip = "hes" /\ Hes!Next
          /\ UNCHANGED <<nesVars, frameVars, gbOnly, ayVars, sapVars, single, left>>

Spec == Init /\ [][Next]_vars

\* What the next step depends on (segment, heard and ran describe the last one).
ChipView == <<chip, single, oscs, clocks, calls, left, level, lost, balance, nesVars, frameVars,
              gbOnly, noise, env, sapVars>>

-----------------------------------------------------------------------------
(***************************************************************************)
(* Properties                                                              *)
(***************************************************************************)

\* Running lazily, in pieces that accesses, frames and mutes cut anywhere, an
\* oscillator of each chip makes the waveform that counting every clock gives.
Waveforms == [][/\ chip = "nes" => Nes!Waveform
                /\ chip = "gb" => Gb!Waveform
                /\ chip = "ay" => Ay!Waveform
                /\ chip = "small" => Smalls!Waveform
                /\ chip = "sap" => Sap!Waveform
                /\ chip = "hes" => Hes!Waveform]_vars

\* The level in a Blip_Buffer is what the oscillators there remember of it (else
\* a direct current stays behind), the DMC's next byte and the interrupts that
\* the CPU is told of are right, the AY's envelope is where its code asserts.
ChipInv == /\ chip = "nes" => Nes!ApuInv
           /\ chip = "gb" => Gb!LevelKept
           /\ chip = "ay" => Ay!AyInv
           /\ chip = "small" => Smalls!LevelKept
           /\ chip = "sap" => Sap!PokeyInv
           /\ chip = "hes" => Hes!LevelKept

\* Reads and interrupts of the DMC come when they were foretold.
DmcForetold == [][chip = "nes" => Nes!DmcForetold]_vars
=============================================================================
