# Game_Music_Emu in TLA+

TLA+ modules of [Game_Music_Emu](../src) (library `gme/`, player `player/`),
the TLC configurations that check them and the TLAPS proofs about them. The
modules are translated from the C++ source; `PROJECT.json` maps every
definition to the lines it stands for.

- [1. The system](#1-the-system)
- [2. What is modelled](#2-what-is-modelled)
- [3. What TLC checks](#3-what-tlc-checks)
- [4. What TLAPS proves](#4-what-tlaps-proves)
- [5. Disagreements between code and documentation](#5-disagreements-between-code-and-documentation)
- [6. What is not modelled](#6-what-is-not-modelled)
- [7. Plan](#7-plan)

To repeat a check: `tlc -config MusicEmu_engine.cfg MCMusicEmu`; to repeat a
proof: `tlapm MusicEmuProofs.tla`.

## 1. The system

The library plays the music files of old game consoles by emulating their
sound hardware. A client (in C, through `gme.h`) loads a file, starts a track
and asks for samples, as many as it likes at a time. Everything runs on the
client's thread; the library has no locks. The demo player adds a second
thread, SDL's audio callback.

| Component | State it keeps | Operations | Works with |
|---|---|---|---|
| Playback engine, `Music_Emu` | two clocks in samples (`out_time` of the client, `emu_time` of the emulator), the look-ahead queue (`silence_count`, `buf`, `buf_remain`), `silence_time`, the fade, two ended flags, the mute mask | `start_track` `play` `skip` `seek` `set_fade` `mute_voices` `ignore_silence` `set_tempo` | calls the virtual `start_track_` `play_` `skip_` of one emulator; is called by the C interface |
| Files and playlists, `Gme_File` `M3u_Playlist` `Nsfe_Info` | two track counts, the m3u entries, the playlist in an NSFE file | `load*` `load_tracks` `load_m3u` `clear_playlist` `disable_playlist` `remap_track_` | base class of the engine; calls virtual `load_` `unload` `clear_playlist_`, and NSFE calls back |
| Data readers | bytes that remain | `read` `read_avail` `skip` | wrap one another; give `Gme_File` its data |
| Play schedulers (`Nsf` `Gbs` `Kss` `Sap` `Ay`) | CPU registers, next call of the play routine, its period | `run_clocks` | run a CPU core up to the next event, call the chips' `end_frame` |
| HES's timer and video interrupts | lines, `irq_time`, the base the CPU counts from | `run_clocks`, accesses by the program | the CPU core takes them |
| `Classic_Emu` + `Stereo_Buffer` or `Effects_Buffer` + `Blip_Buffer` | clocks and samples in three to seven buffers, which of them were written | `play_` `end_frame` `read_samples` | between scheduler and engine |
| Resamplers | positions in two buffers | `dual_play` `play_frame_` `read` `write` | between FM chips or SPC DSP and engine |
| Streams (`Vgm` `Gym`) | position, loop point, time carried over | `run_commands` | chips, resampler |
| SPC | samples beyond the caller's buffer, timers, DSP time | `play` `skip` `set_output` `save_extra` | CPU, DSP, resampler, engine |
| CPU cores (seven) | registers, flags in forms that are cheap to compute | one instruction at a time | memory maps of the emulators |
| Chips | period, phase and level of each oscillator, up to the last access | register writes, `end_frame`, muting | buffers; the NES's DMC reads memory and interrupts the CPU |
| FM and DSP cores | registers | one sample at a time | resampler |
| Demo player, `main()` + `Music_Player` | pause flags, track number, fade flag; SDL's pause state | keys, `start_track` `pause` `suspend` `resume` `set_fadeout` `stop` | changes the engine on one thread while SDL's thread plays it |

What is hard in this system, and what makes each part correct:

- *The look-ahead.* To find the end of a track the engine runs the emulator
  ahead of the client and keeps the result as a count of silent samples and
  one block. Three clocks are kept in three loops, a skip takes from all of
  them, and `silence_time` may be stale. Correct means: no sample is lost,
  repeated or reordered; the track ends after long silence, but not before,
  and never with sound still queued; the end is told to a client that keeps
  playing; every loop ends.
- *Errors in the middle.* `play_()` may fail in any loop. What the loop had
  changed for its own use (the mute mask) must be put back.
- *Three numberings of tracks.* m3u lines, raw tracks and songs, each layer
  loaded, cleared and switched off by itself. Correct means that what the
  client may start is a song of the loaded file.
- *Two threads in the player.* The engine has no locks, so the player must
  stop the audio before it touches the engine, and wait for a callback that
  is under way.
- *Periods and fractions* in schedulers, buffers and resamplers: what is
  carried over to the next frame must be all of the rest, or the tempo drifts
  and a buffer runs over.
- *Everything runs late.* Timers, interrupts, oscillators and the DSP are
  brought up to date only when somebody looks. Correct means: whatever cuts
  the time into runs, the result is that of hardware that never stopped.
- *Cheap flags.* A CPU core keeps the last result instead of the flags.
  Correct means that every instruction leaves a form that the next branch,
  push or interrupt understands.

The complete list, each at its line, is `hazards` in `PROJECT.json`.

## 2. What is modelled

### MusicEmu: the engine (`gme/Music_Emu.cpp`)

Variables have the names of the fields. A public call is a sequence of steps:
`pc` is `"idle"` between calls, and each loop of the code that runs the
emulator is a loop of steps, so that the emulator may do something else each
time round.

| Code | Actions |
|---|---|
| `start_track` and its loop | `StartTrack`, `TrimSilence`, `Started` |
| `play` | `PlayEnded`; `Play`, `PlayAhead` (the look-ahead), `PlayQueue` (deliver it, decide about the end), `PlayGenerate`, `PlayRefill`, `PlayFade` |
| `skip`, `skip_` | `Skip`, `SkipMuted`, `SkipUnmute`, `SkipRest`, `Skipped` |
| `seek_samples` | `Seek`, `SeekOn` |
| `set_fade`, `mute_voices`, `ignore_silence`, `unload` | `SetFade`, `MuteVoices`, `IgnoreSilence`, `Unload` |

The emulator is unknown: `play_()` writes any block and is fine, ends the
track or fails (`Outcomes`). A sample is a `BOOLEAN`, sound or silence, which
is all that the engine tells apart. `count_silence()` counts as the code does,
sentinel included; `int_log()` has its shift, and both results that a shift
beyond the width of `int` may have. Stereo pairs, gain and tempo are left out.

*History variables*, read by properties only: `quiet` (silent samples in a row
that the emulator really made), `blind` (a sound passed that `silence_time`
does not know of), `wanted_mask` (what the client muted) and `mute_lost` (the
muted loop of a skip has failed since).

**PlaybackQueue** is the abstract specification of what the engine promises:
a queue between emulator and client. The emulator runs ahead only behind
silence; the client gets the front of the queue, then what the emulator makes,
in order and once; the track does not end while a sound is queued, unless it
has been faded out. It has no clocks, no loops and no silence detection.
`MusicEmu` states the refinement mapping (`Queue`) and the property
`ImplementsQueue`.

### GmeFile: files and playlists (`gme/Gme_File.cpp`, `Nsfe_Emu.cpp`, `M3u_Playlist.cpp`)

One action for each public operation: `Load` (`load_mem`, `load`, `load_file`,
with `pre_load` and `post_load`), `OpenFails`, `LoadTracks`, `LoadM3u`,
`ClearPlaylist`, `DisablePlaylist`, `StartTrack`, `SeekBack`. They are atomic
because nothing can run in the middle of one; the NSFE loader that calls itself
is one step with the outcome of both passes. A file is a record of what loading
it finds: the songs of its music data (none without that data), its playlist,
the count in its INFO block, if there is one that is read, and whether it is
corrupt. Nothing in the code keeps an NSFE file without an INFO block or without
music data from being loaded: `info_count` is then what the last file left, or
what memory held (`Garbage`). An m3u file is the list of its lines'
track numbers with the way they were written, and `<<>>` if it cannot be
parsed. `Types` are the emulators: each says whether it is NSFE, whether it has
a fixed count and whether its tracks count from 0 (`gme_type_t`). The history
variables are `songs`, those that are there, `counted`, whether the file said
how many, and `song`, the one that was started.

### MusicPlayer: two threads (`player/player.cpp`, `Music_Player.cpp`)

`main()` is at `mpc`: at the top of its loop (`CheckEnded`), taking keys, or in
a call of `Music_Player`, which goes through `"stopping"` (`SDL_PauseAudio`),
`"waiting"` (`SDL_LockAudio`), `"operating"` (the emulator is changed) and
`"resuming"`. The callback is at `apc`: `Callback`, `AudioPlay` (up to the
decision to fade), `AudioFade` (which reads `fade_start` again), `AudioCount`.
Any step of one thread may come between two steps of the other. SDL's lock is
external: it is held while a callback runs, and a callback starts only if the
audio is not paused. Of the engine the model keeps the time, the fade and the
end.

### PlaySchedule: the play routine at its rate (`run_clocks()` of NSF, GBS, KSS, SAP, AY)

`StartTrack`, `SetTempo`, `BeginFrame` (a call of `run_clocks`) and `Step`, one
pass of its loop. The CPU is unknown: it stays in a routine for as long as it
likes, may overrun the slice it was given by the length of an instruction, and
returns at any time. The five loops are alternatives of `Step` and differ in
what they do when a play comes due while the last has not returned: NSF lets it
interrupt `init` and saves the registers once, GBS waits, KSS drops it, SAP
sets the clock back, AY interrupts. NSF's period comes from its header and may be
shorter than an instruction, or nothing (`ShortPeriods`). Times are relative to the frame's start, as
in the code; history variables count the plays in absolute time.

### HesIrq: interrupts that are worked out beforehand (`Hes_Emu.cpp`, `Hes_Cpu.cpp`)

The CPU only compares its time with a base. Every instruction that touches the
I flag, and every access to timer, video chip or mask, must recompute the next
interrupt and move the base. `Step` is any of these; the timer and the vertical
blank are brought up to date by the access, as in `run_until()`. `WriteOther` is
the access that does not: with `NDEBUG` defined, the cases of an unmapped address
have no `return` (`Hes_Emu.cpp:349`), and the write goes on to `irq_changed()`
with the count as it was left (`postponed`, history).

### BufferedEmu: `Classic_Emu::play_()` over `Stereo_Buffer` or `Effects_Buffer`

`Play` is a call of the engine, `Step` one pass of its loop (a frame, then a
read), `Clear` a new track, `SetDepth` turns the effects on or off. A
`Blip_Buffer` is its time in fractions of a sample and the set of places where
it holds sound; a frame writes into any of the buffers, may overrun or fail,
and an AY file may turn out to be for the CPC in the middle of it. Which
buffers are mixed and which are removed as silent is decided as in the code,
from flags that cover two frames.

### FmStream: VGM with FM, GYM and `Dual_Resampler`

`StartTrack`, `SetTempo`, `DualPlay` (a request) and the frames that serve it:
`VgmBeginFrame` (how many ticks and FM pairs), `RunCommand` (one of the log),
`VgmEndFrame` (what the resampler makes of the pairs, what is copied out
directly and what is kept), and `GymFrame` for all of that in a song without
commands. Samples are counted in pairs: `owed` is what has been made and not
handed out, `lead` the FM time generated less the time played. `Logs` and
`Songs` are small lists with delays and loops; a log need not have its end
command (`Closed`), and then breaks off, after a delay or a write.
`Fir_Resampler` is the pairs in it and its phase.

### SnesSpc: the SNES sound module (`Snes_Spc.cpp`, `Spc_Cpu.cpp`)

`Play`, `Skip` and `SkipOn`, the CPU's `InternalInstruction`,
`TimerInstruction` and `DspInstruction`, `EndFrame` and `SetTempo`. A program
looks at the timers or at the DSP, at any time; both are caught up at that
moment. Pairs of samples are numbered, silence at the beginning included.

### The CPU cores

| Abstract processor | Cores |
|---|---|
| `Mos6502` | `NesCpu`, `SapCpu` |
| `HuC6280` (extends `Mos6502`) | `HesCpu` |
| `LR35902` | `GbCpu` |
| `Spc700` | `SpcCpu` |
| `Z80` | `KssCpu`, `AyCpu` |

An abstract module has the registers and the flags of the manual and says for
each instruction what it does to them, what it reads and what it stores. A core
has the code's variables (`nz`, `c`, a stack pointer that is one too high, and
so on), one action per group of instructions, and an operator `Decoded` that
gives the registers as a program sees them; the property says that each step of the
core is a step of the processor. `LR35902` states the flags of the Game Boy's processor;
where the code is known to set another (ADC and SBC of 0xFF with carry, ADD SP
and LD HL,SP, RLCA and its like) that flag is open, in just the cases in which
they differ, unless `Exact` is TRUE. Memory is not kept: what an instruction reads
comes with it (`bus`), in any value from `Operands`. `MCCpus` composes them, one
core per behaviour; its view leaves out `bus`, which only describes the last
step, and TLC checks action properties on every transition, so that this loses
nothing.

### The sound chips

`Oscillator` has what they share: the times at which an oscillator ticks in a
run, the rest that is carried over, and the changes of level in its buffer.
`NesApu`, `GbApu`, `AyApu`, `SapApu` (POKEY) and `HesApu` (PC Engine) model one
chip each; `SmallApus` has VRC6, Namco 106, FME-7, SCC and the Master System's
SN76489, which need little more than an oscillator.

Their actions are the accesses of a program: a write with the run that precedes
it, a frame's end, muting and panning. A run is translated with its shortcuts
(an inaudible oscillator is not run but moved on by a division). The reference
beside it counts every clock. `segment`, `heard` and `ran` describe the last
run, `level` what a buffer has come to. NES and Game Boy have their frame
sequencers, the NES its DMC with the memory reads and the interrupt foretold to
the CPU. `MCChips` composes the chips, one per behaviour, with periods of a few
clocks.

## 3. What TLC checks

| Run | Question | Bounds |
|---|---|---|
| `engine` (`MusicEmu_engine.cfg`) | in every order of play, skip, seek, fade, mute, silence settings and restarts, with an emulator that may fail: the inductive invariant, with the clocks in step (`EngineInv`); no end by silence cuts off sound (`SilenceEndKeepsSound`); the mute mask is put back, unless the muted loop of a skip fails (`MuteKept`); refinement of `PlaybackQueue`; a faded track ends (`FadeEnds`); each step of a call shortens it and the end of the song comes nearer (`CallsProgress`, `EndComesNearer`); the end is reported | blocks of 2 samples, silence of 4, look-ahead 2, 8 samples of client time, song of 5 |
| `engine_silence` | when does silence end a track: not early (`NoEarlyEnd`), only after long silence if nothing was missed (`LongSilenceEnds`), and promptly (`PromptEnd`) | silence of 10, look-ahead 4, 12 samples, song of 36 |
| `player` (`MusicPlayer_safe.cfg`) | every key in every order against the callback: no callback on a deleted emulator, none while a stopped player changes it, flags and track in agreement, the inductive invariant; a player left alone comes to rest | 2 tracks, 3 keys |
| `player_forever` | the finding of 5: TLC must find the violation | 1 key |
| `file` (`GmeFile.cfg`) | whatever is started is a song and the counts are current, as far as the file counts its songs (`FileInv`); an m3u playlist is what is counted; no count without a file | three types: NSFE (10 files: playlists of 0 to 257 entries, without an INFO block, without music data, corrupt before and after the INFO block; an `int` never set holds 0, 1 or 5), a fixed count of 4 songs instead of 256 with tracks from 0 (KSS), one song; m3u lines decimal, hexadecimal, missing and impossible; up to 5 files of one track, also out of memory |
| `schedule` | an interrupted `init` is saved once; play comes neither too often nor too seldom; the tempo does not drift; what is due at a frame's end has been served; each turn of the loop gets on (`FrameProgress`), so that a frame returns if the period is a clock at least (`FrameReturns`) | frames of 5 and 20 clocks, periods of 12 and 13 half clocks, NSF's also of 0 and 3, 18 clocks |
| `buffers` | all buffers at the same time and never too full; no sound removed, but for the end of an impulse in an `Effects_Buffer`; each turn of `play_()` gets on (`PlayProgress`) | 2 units a sample, frames of 8 samples and buffers of 10, impulses of 3 and a latency of 2, requests of 1, 2 and 7 |
| `streams` | every sample once and in order, the assertions of `Dual_Resampler`, log in step with the samples, the end after the last delay (of a log that breaks off: in the course of it); each step of `play()` gets on (`PlayProgress`), so that it returns | ratios 1, 3/2 and 9/5, frames of 16 and 18 pairs, requests of 5 and 37 |
| `spc` | clocks carried over, every pair once and the extra buffer never full (`SpcInv`), timers exact | 4 clocks a pair, 8 spare pairs |
| `hes` | next interrupt and base always current, the timer exact over frames but for what a release build postpones, no interrupt late and no run too short | frames of 5, vertical blank every 3, release build |
| `cpus` | every instruction of every core does what its processor does, also after any other | registers and operands at the boundaries of sign, carry, page, stack and memory; two instructions |
| `chips` | waveform of every oscillator whatever cuts its runs; levels in the buffers; the DMC as foretold | NES 22 clocks, Game Boy and the others 14, PC Engine 10; up to two writes or mutings (POKEY one) after those a tune begins with |

*Why the bounds are enough.* The engine's decisions compare sums of blocks with
limits: with a block of 2 the client's requests (1, 3) are less than and more
than a block, a skip (5) is long enough to be muted and leaves a
rest, and the silence limit is two blocks or five, so that a silence can begin,
be looked ahead of and end inside and across calls. `engine_silence` gives the
look-ahead room to run several blocks ahead of the client. Time is bounded by
`MaxTime` in the guards of the calls; what a longer time could add is what the
proofs cover, for every time. The player's model is finite without its bound
on keys but for the counter `presses`; three keys reach every pair of calls
with a callback between them. `ShiftWidth` is 8 instead of 32.

In `schedule` a frame of 5 is shorter than a period and one of 20 holds three,
so that plays fall before, on and behind a frame's end; the two `ShortPeriods`
are none and one that an instruction outlasts; `Divisor` is 2 because
NSF's real rates are whole or half clocks when measured in its units. `buffers`
and `streams` have no bound on time at all: their times are relative, so their
state spaces are finite, and `InStep` says that nothing grows. The three ratios
are one that divides a frame, one that leaves a rest and one that alternates
between two rests. In `spc` the timers' dividers and counters wrap at 3, and
skips are shorter and longer than the one that stops the DSP. In `hes` the
counts of a stopped timer fall without end, as in the code; `MaxLag` begins no
frame beyond 2, and `NDEBUG` is TRUE because that build has every access of the
other and one more (the proofs are for both). In `buffers` an impulse of 3
outlasts the latency of 2, as one of 16 does the program's of 8. `cpus` runs two
instructions because a wrong form of a flag is
seen by the next one. In `chips` periods are of 1 to 4 clocks and runs of 0 to 13,
so that a run holds none, one and several ticks; shift registers have 4 bits.

*Views.* `CpuView` and `ChipView` leave out variables that only describe the
last step. Their properties are about steps, and TLC evaluates those on every
transition, so nothing is missed; the invariants of `chips` do not read them.

*`CHECK_DEADLOCK FALSE`* in `engine`, `engine_silence`, `streams`, `spc`, `cpus`
and `chips`: a client whose calls would all pass the bound has stopped, a VGM
track that has ended takes no more requests, the last instruction has been
executed. In the player's: `mpc = "done"` is the end of the program. The other
runs check deadlock.

*Fairness.* `PlayingSpec` has weak fairness of `CallStep`: a call that runs on
the client's thread goes on, there is nothing it could wait for. It has weak
fairness of `PlayCall` because `EndIsReported` is about a client that keeps
playing; no such promise is made to one that does not. `FairSpec` of the player
has weak fairness of both threads: `main()` polls with `SDL_Delay`, and SDL's
audio thread calls back for as long as it is not paused. The user need not
press anything, and no key is fair. `FairSpec` of `PlaySchedule` and
`FmStream` is weak fairness of `Step`, the loop of a call that has begun;
the client need not call. `FrameReturns` and `PlayReturns` have premises that the
code does not ensure: a period of a clock at least, and a log whose loop has a
delay (`StreamAssumption`). `buffers`, `hes`, `spc`, `cpus` and `chips` have no
liveness property and no fairness.

That a call returns has two parts. Every step makes a measure smaller that
cannot fall for ever, whatever is scheduled: `CallsProgress`, `FrameProgress`,
`PlayProgress`, action properties. And the steps are taken: fairness, which is
the code's having nothing to wait for. `FrameReturns` and `PlayReturns` (of
streams) check the two together; for the engine and the buffers the measure is
the stronger statement and stands alone. The measures are what TLAPS can prove,
see 4. Likewise what is a part of an inductive invariant or follows from it at
once is not checked again: `OneAtATime` from `PlayerInv`, `Pace` in `SchedInv`,
`NothingDropped` in `BufferInv`.

*Mutants.* Each module holds definitions named `..._faulty` (or
`SilenceEnds_late`, `MustGetAhead_endless`, `AfterEnd_stuck` and the like),
plausible mistakes in the code in front of the definition they would change.
They are used by no action. `PROJECT.json` says which property finds which.

*Configurations that refute something* are kept for section 5 beside the runs,
or are one line away from a run's:

| Configuration | Module | Refuted |
|---|---|---|
| `MusicEmu_unnoticed.cfg` | `MCMusicEmu` | `SilenceIsNoticed` |
| `GmeFile_stale.cfg` | `MCGmeFile` | `SongExists` |
| `GmeFile_stale.cfg` with `Types <- MCZeroTypes` | `MCGmeFile` | `SongExists` |
| `BufferedEmu_tail.cfg` | `BufferedEmu` | `EffectsKeepTail` |
| `FmStream_psg.cfg` | `MCFmStream` | `PsgInOrder` |
| `MusicEmu_engine.cfg` with `MuteAlwaysKept` among the `INVARIANTS` | `MCMusicEmu` | `MuteAlwaysKept` |
| `GmeFile.cfg` with `SongIsInFile` among the `INVARIANTS` | `MCGmeFile` | `SongIsInFile` |
| `HesIrq.cfg` with `UnmappedIsIgnored` among the `INVARIANTS` | `HesIrq` | `UnmappedIsIgnored` |
| `FmStream.cfg` with `DelaysAreHeard` among the `INVARIANTS` | `MCFmStream` | `DelaysAreHeard` |
| `PlaySchedule.cfg` with `AlwaysReturns` among the `PROPERTIES` | `PlaySchedule` | `AlwaysReturns` |
| `MCCpus.cfg` with `GameBoyIsExact` among the `PROPERTIES` | `MCCpus` | `GameBoyIsExact` |
| `MCCpus.cfg` with `AlternatesAddress` among the `PROPERTIES` | `MCCpus` | `AlternatesAddress` |
| `PlaySchedule.cfg` with `SapDueIsServed` among the `INVARIANTS` | `PlaySchedule` | `SapDueIsServed` |

## 4. What TLAPS proves

All theorems are for every value of the constants that satisfies the
assumptions of the module: `EngineAssumption` (sizes are positive, a silence
is at least a block, half of the skip threshold too, as `Music_Emu.h` has it, and a unit of the fade
is not shifted away by `FadeShift`),
`InputAssumption` (the client asks for positive counts), `PlayerAssumption`,
`FileAssumption`, `ScheduleAssumption`, `BufferAssumption`, `HesAssumption`,
`SpcAssumption`, `StreamAssumption`. The last five say of sets of numbers that
may be infinite that they are bounded where the code's tables and types bound
them; TLC evaluates every one of them on its instances.

**Engine** (`MusicEmuProofs`). `InStep` is the property everything rests on:
until the track ends `emu_time = out_time + (delivered in this call) +
silence_count + buf_remain`. It is not inductive alone: `skip()` sets
`emu_time` directly, which is right only if the queue is empty in the phases
behind it; the end by silence throws the queue away, which is right only if no
block is left. `EngineInv` adds `PhaseInv` (which phases have drained the queue
and belong to a track that goes on), `BlockIsRecent` (a queued block lies
within a block of `silence_time`, so a silence long enough to end the track
cannot have one in front of it) and `SilenceIsQuiet` (queued silence was made
as silence). One lemma per action shows that it is kept. From it:

- `EngineInvariance`, `TypeCorrect`, `StaysInStep`;
- `NoSoundIsCutOff`: an end by silence has no block in the queue;
- `NoTrackEndsEarly`: however stale `silence_time`, `Lookahead * quiet >
  (Lookahead - 1) * SilenceMax` when silence ends a track: with the default
  look-ahead of 3, two thirds of the silence were really heard; the argument
  is that the loop ran until `ahead_time`, and all of that is queued silence;
- `SilenceEndsPromptly`; and `SkipRestoresMute`: between calls the mask is the
  client's, or an emulator that failed in the muted loop of a skip has left all
  voices muted (`Restores`). The second alternative is what the code does, see
  5; it is inductive through later skips and tracks because a skip saves and
  restores whatever mask it finds, and only `mute_voices()` ends it;
- `OnlyLongSilenceEnds`, from one more invariant, `SilenceIsHeard`: what the
  emulator has generated since `silence_time` is silence, less the block whose
  end `silence_time` is in, unless a sound passed where nobody looked (`blind`).
  It counts what a running `skip_()` has yet to generate (`Unskipped`), because
  `skip()` moves `emu_time` before the emulator runs;
- `EngineImplementsQueue`: the engine refines `PlaybackQueue`. The queue is
  `silence_count` silent samples and then the last `buf_remain` of `buf`
  (`QueueOf`); `TakeFront`, `TakeRest` and `JoinBlock` say, sample by sample,
  that the code's arithmetic on the two counters takes the front of that one
  sequence and appends to it. Then each action is mapped: the loops of
  `start_track()` and `play()` to `GetAhead`, the end of the first to `Trim`,
  `skip()` to `Skip`, its loops to `RunDry` or to nothing, and so on. It needs
  `PhaseInv` (the queue is empty where the code writes past it) and
  `NoSoundIsCutOff` (an end by silence drops a silent queue);
- `FadeEndsTrack`: a block that is played behind the fade's last halving ends
  the track, whatever the fade's step and the time. `int_log()` halves the unit
  once for each step of the fade and interpolates between two powers; behind
  `FadeShift` halvings the gain is below the threshold (`GainBelowEnd`). `Pow2`
  is a recursive function, and that it is what its equation says is proved from
  tables that agree as far as they go (`TableExists`, `TablesAgree`, `Pow2Is`).
  There must be a block to fade: `SomethingPlayed`. Fades so far behind that
  the shift reaches the width of `int` are excepted, see 5;
- `CallsGoOn` (`CallsProgress`): a step of a call goes to a later phase, or its
  loop gets shorter by at least a sample; it needs that `emu_time` is never
  behind where a loop begins. `EndIsNear` (`EndComesNearer`): once the emulator
  has reached the end, nothing makes the queue longer, and a `play()` that
  finds it empty reports the end.

**Player** (`MusicPlayerProofs`). `PlayerInv` adds `StoppedInv` (past the lock
the sound is stopped and no callback runs, and stays so while paused) and
`AgreeInv` (in which calls the flags agree already). From it
`PlayerInvariance`, `NeverUsedAfterDelete`, `PlayerInSync` and
`OneThreadAtATime`, which excepts `set_fadeout()`.

**Files** (`GmeFileProofs`). `FileInv` relates the layers: in the m3u playlist
no line is track 0 in decimal, the NSFE playlist names songs, and a track
behind the m3u playlist is a raw track. `LayersAgree` and `EveryTrackIsASong`
assume `GoodInputs`, which excludes just the inputs of two refutations (a
decimal track 0, a playlist that cannot be parsed) and NSFE files whose INFO block
or playlist contradicts their music data, which nothing in the code checks. Files
without an INFO block or without music data are included: for the first the
theorems say that what is started lies below `actual_track_count`, whatever that
was before, and not more, since more is false (`SongIsInFile`).
`PlaylistIsCounted` and `NoFileNoTracks` are for the types without an NSFE
playlist; with one they are false, see 5.

**Schedulers** (`PlayScheduleProofs`), for any frames, periods, tempos and
routines. What is wanted is `Pace`: calls against time. It needs to know where
the next play is (`TimesInv`), that NSF's waiting play is called as soon as
nothing runs (`ReadyInv`) and what its fraction may be (`FractionInv`); the
inductive form of `Pace` is `PaceInv`, which measures up to `next_play`, since
that moves by a period exactly when a play is called or left out. Loops that
add a period until it is not behind (GBS, KSS) are handled by the bounds of
a period only. From `SchedInv`:

- `SongKeepsPace`, `RegistersSavedOnce`, `NoPlayIsLeftDue`;
- `NoDriftOfTempo`: at rates of whole or half units NSF is never more than a
  clock ahead of the exact rate. `Regular` excepts NSF after changes of tempo,
  for which these are false (see 5), and with a period that the end of an
  instruction may overrun;
- `FramesGoOn` (`FrameProgress`): each turn of the loop brings the next play
  nearer to the frame's end, or the CPU, or takes NSF back to the `init` that was
  interrupted, which happens once. It is for every period of a clock or more,
  the short ones included; with a period of nothing a turn may change nothing at
  all (`AlwaysReturns`, refuted).

**Buffers** (`BufferedEmuProofs`). `BufferInv` adds to the equal offsets what
each buffer may hold: `StereoTail` and `EffectTail` place the sound that is
left behind the last frame by the counters of the multi-buffer, which is what
makes `NothingDropped` inductive; `PlayInv` is about the frame under way.
`BuffersTogether` and `SoundIsKept`: for every length of frame, impulse, latency
and request no group of buffers gets out of step, `Stereo_Buffer` removes no sound
as silence, and `Effects_Buffer` at most the end of an impulse: `Short`, the samples
by which an impulse is longer than the latency (that they are not nought is
shown by `BufferedEmu_tail.cfg`). `PlayGoesOn` (`PlayProgress`): the loop runs a
frame only when nothing can be read, and a frame, being longer than a sample
and never too long for the buffer, leaves something to read.

**PC Engine** (`HesIrqProofs`). `HesInv` says that base and `irq_time` are
those that recomputing them would give, after every instruction and access,
that no frame is longer than its end plus an instruction (`FrameInv`), and what
the timer's counter may be (`CounterInv`). The theorems are for debug and release
builds. In a release build a write to an unmapped address adds a stale count to
the present: `CounterInv` keeps that the count is in step with its loading, though
the interrupt is not (`postponed`), so that the next access that brings the timer
up to date finds its period again; `Rescheduled` marks these. `InterruptsInvariant`,
`TimerKeepsPeriod`, and `InterruptsArePrompt`, an action property.

**SNES** (`SnesSpcProofs`). Two arguments. *Timers:* a tick is a function, so
`RefTimer` is that function applied so many times (`RunExists`, `RunIs`,
`TickedTwice`: the recursive function exists and may be cut anywhere), and
`AtOnceStep` shows by residues that one tick more of `RunTimer`'s division is a
tick; by induction over a set of naturals they agree (`CaughtUp`), and catching
up twice is catching up (`CaughtUpTwice`). An access of the program to a lazy
timer then leaves what it would leave of one that always ran
(`AccessIsExact`). *Pairs:* what the DSP has made too much is, in clocks, what
it is ahead of the frame's end and half of the extra buffer (`Surplus`).
Running it or moving the frame changes both alike (`SurplusMoved`), and how far
DSP and CPU are apart at the end is bounded by `reg_times` and an instruction
(`EndTimes`), so half a buffer is enough (`Room`); `SpcAssumption` says how much
that is: 32 + 36 + 29 + 11 clocks in the program, of 128. Hence
`SoundModuleInvariant`, `PairsAreHandedOutOnce`, `LazyTimersAreExact`.

**Streams** (`FmStreamProofs`), for every ratio of rates, tempo, size of frame
and log, and every request. *The resampler in closed form:* the bits of
`skip_bits` are where the whole part of `x * f / q` steps (`BitIs`), and a cycle
repeats (`ExtraPeriod`); so what n pairs consume is `n * p / q` up to the
fractions at both ends (`ConsumedExact`), one of two whole numbers
(`ConsumedBounds`), and what `oversamples_per_frame` asks for is enough to read a
frame whole (`ReadsAll`). *A frame:* `EndTime` gives the pairs it needs and less
than a tick more (`EndTimeIs`), so that what is left behind is a pair and a tick
at most (`Keeps`), a fourth of a frame (`LittleIsLeft`), which is the resampler's
spare room (`RoomForFrame`). *Time:* `lead` is the pairs in the resampler, less
what its phase stands for, and the fraction carried (`LeadInv`). `LeadAfter`
says that a frame keeps that exactly: no rounding is lost, whence no drift.
`LogInv` says where a log is at its end, with an end command or without. Hence `FramesFit`,
`TracksEndWhenHeard`, `LogKeepsTime`. *Progress:* `StreamGoesOn`
(`PlayProgress`). A frame hands out samples (`DeliverProgress`); a command
without a delay is one fewer to the next delay (`OneFewer`), which may lie
behind the loop, where there is one (`BehindTheEnd`, `LeftFromNext`).
`StreamAssumption` has the FM chip not
slower than the output, and the spare room more than the FM pairs of a tick.

*Only model-checked:*

- The chips (`ChipInv`, `Waveforms`, `DmcForetold`): their references fold a
  step over the clocks of a run, and what a fold computes for every length is
  an induction over data, for which the library's theorems take operators.
- The CPU cores (`Family6502`, `FamilySpc700`, `FamilyZ80`), which use
  `Bitwise`.
- All liveness: there are no rules here for fairness and `ENABLED`. Of
  `EndIsReported`, `FrameReturns` and `PlayReturns` the part that does not
  need them is proved, by the progress theorems above; of the player's
  `ComesToRest` nothing is, since `main()` polls, and a step of it need not
  bring the rest any nearer.

## 5. Disagreements between code and documentation

The first one is a run that must find its violation, the next ones the
configurations listed in 3.

| Where | What happens |
|---|---|
| `player_forever` | The loop key changes the fade under a running callback, which may then end the track that was to loop (`Music_Player.cpp:339`; `:229` says "Sound must not be running when operating on emulator"). |
| `MusicEmu_unnoticed.cfg` | `play()` looks for silence only behind `fade_start` (`Music_Emu.cpp:450`), which is never reached by default. gme.txt:181: "continually checks for 6 or more seconds of silence". |
| `MuteAlwaysKept` | An error in the muted loop of a long skip leaves all voices muted (`Music_Emu.cpp:302`), through later tracks, until the client sets the mask again. |
| `SongIsInFile` | An NSFE file without an INFO block is loaded: `check( phase == 1 )` (`Nsfe_Emu.cpp:211`) does nothing, `actual_track_count_` is that of the last file or was never set (`:42`), and tracks can be started that are no songs. |
| `UnmappedIsIgnored` | `Hes_Emu.cpp:358` calls it an "unmapped write"; a debug build returns, a release build does not and goes on to `irq_changed()` with a count that was not brought up to date. The timer's interrupt is postponed, by every such write again. |
| `DelaysAreHeard` | A VGM log that breaks off without an end command (`WARN_STREAM_END_EVENT_MISSING` is for a position behind the data only) ends the track with some of its last delay to come, even if it has a loop (`Vgm_Emu_Impl.cpp:125`). |
| `AlwaysReturns` | An NSF header with a rate of 1 µs gives, at tempo 4, a period of 5 twelfths of a clock (`Nsf_Emu.cpp:177`), which rounds to none; the loop of `run_clocks()` then calls play at one time for ever. |
| `GameBoyIsExact` | The carry of ADC and SBC of 0xFF with carry (a TODO asks, `Gb_Cpu.cpp:770`), that of ADD SP and LD HL,SP, and z of RLCA and its like are not the processor's. |
| `SongExists` of `MCZeroTypes` | Track 0 in decimal in an m3u file starts song -1 (`Gme_File.cpp:186`). |
| `GmeFile_stale.cfg` | An m3u file that cannot be parsed clears the entries but not their count (`M3u_Playlist.cpp:463`); tracks beyond the file can be started. |
| `BufferedEmu_tail.cfg` | `Effects_Buffer` remembers that a buffer was written for its latency only, half of an impulse (`Effects_Buffer.cpp:279`): the second half may be removed as silence, against the comment at `:310`. |
| `FmStream_psg.cfg` | With the program's own rates a write to the PSG may come before the end of its last frame (`Vgm_Emu_Impl.cpp:320`), which `Sms_Apu::run_until()` asserts it does not. |
| `AlternatesAddress` | The PC Engine's TIA and TAI never alternate: the increment of the side that should is 0, and its negative too (`Hes_Cpu.cpp:1176`). |
| `SapDueIsServed` | `check( next_play >= 0 )` of `Sap_Emu.cpp:436` fails whenever a routine overran its period. |

Met in the same way and not kept as configurations:

*Engine, files and player*

- `silence_lookahead = 1` (VGM, GYM): a silence of one block behind sound that
  was not looked at may end a track (`quiet` far below `SilenceMax`), because
  `silence_time` is stale.
- `int_log()` more than 31 steps behind `fade_start`, after a long skip: the
  shift is undefined, and on most processors the faded track is loud again.
- `count_silence()` takes a block whose only sound is its first sample for
  silence, and overwrites it.
- After the loop key the next track fades again: `start_track()` always sets
  the fade, and `fading_out` stays.
- An NSFE emulator counts tracks without a file after `clear_playlist()`, from
  a field that may not be initialised.
- `disable_playlist()` with an m3u playlist loaded lets the client start tracks
  that are not in the playlist, where the code has `check( !playlist.size() )`.
- A backward seek after `load_m3u()` or `clear_playlist()` restarts the number
  of the current track, which is now another song.

*Schedulers and streams*

- GBS files may set timer periods nearly as small as those of an NSF header.
- A VGM log whose loop has no delay never reaches the end of its frame
  (`Vgm_Emu_Impl.cpp:139`); `StreamAssumption` excludes it.
- NSF's `play_extra` is computed without the old fraction (`Nsf_Emu.cpp:648`),
  which is right only because the real rates are whole or half units
  (`TempoKept`). A change of tempo leaves the fraction of the old period behind,
  and changes at the right moments add up: `play_extra` can grow until a period
  is shortened to nothing, and then `check( next_play >= 0 )` fails
  (`DueIsServed` without `Regular`). With the real divisor of 12 a change of
  tempo is worth a clock at most, so that it takes thousands of them.
- AY's first period of a track is that of the machine before it.
- `StreamAssumption` has an FM chip that is not slower than the output; without
  oversampling, above some 53 kHz, it is, and a frame is a pair short.
- HES: reading the video chip's status in the very clock of a vertical blank
  acknowledges it and raises it again; the fast write path masks the address to
  its page before the map is looked up.

*CPU cores* (the modules have what the code does; where the processor's manual
says otherwise, the abstract module leaves it open and says so)

- Game Boy: ADC and SBC of 0xFF with carry lose the carry, ADD SP and LD HL,SP
  have that out of 16 bits instead of 8, RLCA and its like set z of a 0
  (`GameBoyIsExact`); DEC inverts the half-carry, which is not modelled, because
  DAA is not emulated.
- SPC-700: a pointer at 0xFF of the direct page is read across its end; MUL
  takes z from the whole product.
- Z80: words are written past `kss_cpu_write` in KSS, EI takes effect at once,
  R does not count; the test for an idle RST in `Ay_Cpu` cannot be true.
- 6502: BRK and IRQ of the SAP core clear d, and an IRQ pushes the B flag (TODO
  in the code).
- HuC6280: pc and indexed addresses do not wrap at 64K; the clock for crossing a
  page is never added; TMA of several bits and the T flag are not supported.

*Chips*

- NES: a muted triangle is two steps of its phase behind after each run, and
  muted noise is moved on by a division that truncates; noise at volume 0 approximates its
  register on purpose. Clearing the DMC's interrupt by a write to 0x4010 does
  not call `irq_changed`, which `Nes_Apu.h:73` promises. The frame interrupt
  comes 3 to 4 clocks before the time that was told.
- Game Boy: a volume written to a disabled oscillator, and panning while muted,
  leave a level behind in the buffer (Master System: the latter too), excepted
  by `lost`; an envelope going up stops at 14.
- AY: the noise stands still while no channel plays it, each channel runs its
  own copy of it, and the last to use it wins. Shapes 15 and 4 to 7 of the
  envelope read before the table (`Ay_Apu.cpp:137`): `EnvWave` has whatever may
  lie there (`Stray`), and the run leaves these shapes out.
- VRC6: a saw that is disabled is one addition ahead. Namco 106: a wave may run
  past its 256 samples. Master System: noise stands still at volume 0.
- POKEY: noise gated by poly5 depends on where runs are cut (`Exact` excepts
  it); ticks of the high-pass that coincide are skipped; a steady channel does
  not keep its flip-flop (TODO in the code).
- PC Engine: a new main balance calls `balance_changed( *oscs )` for each
  oscillator (`Hes_Apu.cpp:247`), so that only the first follows, and before it
  has been run to the time of the write; an oscillator that moves between center
  and sides leaves its level behind (`lost`).

## 6. What is not modelled

- FM cores and the SPC's DSP: signal processing without control between actors,
  much of it taken from other projects. When they run, and for how long, is in
  `FmStream` and `SnesSpc`.
- FDS, MMC5 and VRC7, the PC Engine's ADPCM, the NES's nonlinear mixer, saved
  states of chips; the DMC seen through `run_until()`.
- Most undocumented opcodes, and instructions of which the cores themselves warn
  that they are not supported; flags the manuals leave unspecified.
- Memory maps, bank switching and `start_track_()`'s set-up of memory.
- HES: changes of tempo, block transfers into the I/O page, the video chip's
  latch. VGM: PCM data blocks; GYM: the placement of DAC samples.
- Wave forms, filter kernels, equalizers, gains, reverb and echo: the engine's
  properties tell sound from silence only, those of buffers and streams which
  sample goes where.
- The engine's `set_tempo()` and the scaled clock of
  `tell_scaled()`/`seek_scaled()`; the voices of effect buffers; `track_info()`;
  user data.
- Parsing of m3u lines, NSFE blocks and headers: what it may return is an input.
- Data readers, `Rom_Data`, the C wrappers: sequential, without state that
  anything else changes. That any of them may fail is in `GmeFile`.
- Archives and the oscilloscope of the player, demos, tests, SDL itself.

## 7. Plan

The modules of the first plan are there, the data readers excepted. What is
left, in this order:

1. `LevelKept` of `GbApu`, and what else of `ChipInv` is about one chip.
2. The engine's scaled clock; the data readers; the composition of `MusicEmu`
   with `GmeFile` (tracks and songs) and with `BufferedEmu` as its `play_()`.
