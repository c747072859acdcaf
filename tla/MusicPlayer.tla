---------------------------- MODULE MusicPlayer ----------------------------
(***************************************************************************)
(* The demo player: main() of player/player.cpp on one thread, and SDL's   *)
(* audio thread, which calls Music_Player::fill_buffer() and so gme_play() *)
(* on the same emulator.                                                   *)
(*                                                                         *)
(* The emulator is not thread safe.  Music_Player keeps the two apart with *)
(* sound_stop(), which pauses the audio and then takes and releases SDL's  *)
(* audio lock.  A call of main() into Music_Player is a sequence of steps  *)
(* here (mpc), and so is a callback (apc); between any two steps the other *)
(* thread may run.  Of the emulator only its time, its fade and its end    *)
(* are left; see MusicEmu for the rest.  One callback is one unit of time. *)
(***************************************************************************)
EXTENDS Integers

CONSTANTS
    TrackCount,   \* tracks of the file
    Keys,         \* what the user may press
    Length,       \* fade_start of a track: its length, or 2.5 minutes
    FadeLength,   \* time from there until the fade ends the track
    SongEnds,     \* may a song end by itself?
    MaxKeys,      \* bound: keys the user presses
    MaxTime       \* bound: out_time stays there

ASSUME PlayerAssumption ==
    /\ TrackCount \in Nat \ {0}
    /\ Keys \subseteq {"left", "right", "space", "setting", "loop", "quit"}
    /\ Length \in Nat /\ FadeLength \in Nat \ {0}
    /\ SongEnds \in BOOLEAN
    /\ MaxKeys \in Nat
    /\ MaxTime \in Nat /\ MaxTime > Length + FadeLength

VARIABLES
    \* main()
    running, track, ui_paused, fading_out,
    mpc,          \* where it is: in its loop, or in a call of Music_Player
    op,           \* what the call will do to the emulator
    presses,
    \* Music_Player
    paused,
    loaded,       \* emu_ is not null
    \* the emulator
    emu_track, out_time, fade_start, track_ended,
    \* SDL
    sdl_paused,
    apc           \* where the callback is; "idle" when none runs

mainVars   == <<running, track, ui_paused, fading_out, presses>>
playerVars == <<paused, loaded>>
emuVars    == <<emu_track, out_time, fade_start, track_ended>>
vars == <<mainVars, mpc, op, playerVars, emuVars, sdl_paused, apc>>

\* The fade_start that set_fade( -1 ) computes: never reached by a check.
Forever == -1

\* main() has loaded the file and calls start_track( 1 ).
Init ==
    /\ running = TRUE /\ track = 1 /\ ui_paused = FALSE /\ fading_out = TRUE
    /\ presses = 0
    /\ mpc = "stopping" /\ op = "start"
    /\ paused = FALSE /\ loaded = TRUE
    /\ emu_track = 0 /\ out_time = 0 /\ fade_start = Length
    /\ track_ended = TRUE
    /\ sdl_paused = TRUE /\ apc = "idle"

-----------------------------------------------------------------------------
(***************************************************************************)
(* Calls of Music_Player.                                                  *)
(***************************************************************************)

\* A call that begins with sound_stop().
stopThen(what) == mpc' = "stopping" /\ op' = what

\* ... with suspend(), which leaves a paused player alone.
suspendThen(what) == /\ mpc' = IF paused THEN "operating" ELSE "stopping"
                     /\ op' = what

\* resume(), or the return to main().
resumed_faulty == "resuming"   \* mutant: starts the sound of a paused player
resumed == IF paused THEN "keys" ELSE "resuming"

\* sound_stop(): SDL_PauseAudio( true ), then "be sure audio thread is not
\* active".
Stop ==
    /\ mpc = "stopping"
    /\ sdl_paused' = TRUE
    /\ mpc' = "waiting"
    /\ UNCHANGED <<mainVars, op, playerVars, emuVars, apc>>

Wait ==
    /\ mpc = "waiting"
    /\ apc = "idle"
    /\ mpc' = "operating"
    /\ UNCHANGED <<mainVars, op, playerVars, emuVars, sdl_paused, apc>>

\* start_track(): an error of the emulator ends the program.
StartTrack_faulty ==   \* mutant: no gme_set_fade_msecs()
    /\ mpc = "operating" /\ op = "start"
    /\ emu_track' = track /\ out_time' = 0 /\ track_ended' = FALSE
    /\ fade_start' = MaxTime + 1
    /\ paused' = FALSE
    /\ mpc' = "resuming"
    /\ UNCHANGED <<mainVars, op, loaded, sdl_paused, apc>>
StartTrack ==
    /\ mpc = "operating" /\ op = "start"
    /\ \/ /\ emu_track' = track /\ out_time' = 0 /\ track_ended' = FALSE
          /\ fade_start' = Length
          /\ paused' = FALSE
          /\ mpc' = "resuming"
       \/ /\ mpc' = "done"
          /\ UNCHANGED <<emuVars, paused>>
    /\ UNCHANGED <<mainVars, op, loaded, sdl_paused, apc>>

\* pause( 1 ) has nothing to do once the sound has stopped.
PauseTrack ==
    /\ mpc = "operating" /\ op = "pause"
    /\ mpc' = "keys"
    /\ UNCHANGED <<mainVars, op, playerVars, emuVars, sdl_paused, apc>>

\* set_tempo(), mute_voices(), enable_accuracy(), set_stereo_depth() and
\* set_echo_disable(): the emulator is told, the track goes on.
Set ==
    /\ mpc = "operating" /\ op = "set"
    /\ mpc' = resumed
    /\ UNCHANGED <<mainVars, op, playerVars, emuVars, sdl_paused, apc>>

\* set_fadeout(): fade_step is written too, with the value it has.
SetFadeout ==
    /\ mpc = "operating" /\ op = "fade"
    /\ fade_start' = IF fading_out THEN Length ELSE Forever
    /\ mpc' = "keys"
    /\ UNCHANGED <<mainVars, op, playerVars, emu_track, out_time, track_ended,
                   sdl_paused, apc>>

\* stop() by ~Music_Player().
Delete ==
    /\ mpc = "operating" /\ op = "quit"
    /\ loaded' = FALSE
    /\ mpc' = "done"
    /\ UNCHANGED <<mainVars, op, paused, emuVars, sdl_paused, apc>>

\* sound_start()
Start ==
    /\ mpc = "resuming"
    /\ sdl_paused' = FALSE
    /\ mpc' = "keys"
    /\ UNCHANGED <<mainVars, op, playerVars, emuVars, apc>>

-----------------------------------------------------------------------------
(***************************************************************************)
(* The loop of main().                                                     *)
(***************************************************************************)

\* start_track() of player.cpp
startTrack(number) ==
    /\ track' = number
    /\ ui_paused' = FALSE
    /\ stopThen("start")

\* "Automatically go to next track when current one ends"; the flag is read
\* while the audio thread may be writing it.
CheckEnded ==
    /\ mpc = "top"
    /\ \/ /\ ~track_ended
          /\ mpc' = "keys"
          /\ UNCHANGED <<track, ui_paused, op, paused>>
       \/ /\ track_ended /\ track < TrackCount
          /\ startTrack(track + 1)
          /\ UNCHANGED paused
       \/ /\ track_ended /\ track >= TrackCount
          /\ ui_paused' = TRUE /\ paused' = TRUE
          /\ stopThen("pause")
          /\ UNCHANGED track
    /\ UNCHANGED <<running, fading_out, presses, loaded, emuVars, sdl_paused,
                   apc>>

\* No more events: SDL_Delay(), and the next round if the user did not quit.
NextRound ==
    /\ mpc = "keys"
    /\ \/ running /\ mpc' = "top" /\ UNCHANGED op
       \/ ~running /\ stopThen("quit")
    /\ UNCHANGED <<mainVars, playerVars, emuVars, sdl_paused, apc>>

Press(key) ==
    /\ mpc = "keys"
    /\ key \in Keys
    /\ presses < MaxKeys
    /\ presses' = presses + 1
    /\ UNCHANGED <<loaded, emuVars, sdl_paused, apc>>

\* The previous track, unless paused: then the same one again.
Left ==
    /\ Press("left")
    /\ startTrack(IF ui_paused \/ track = 1 THEN track ELSE track - 1)
    /\ UNCHANGED <<running, fading_out, paused>>

Right ==
    /\ Press("right")
    /\ \/ track < TrackCount /\ startTrack(track + 1)
       \/ track >= TrackCount /\ UNCHANGED <<track, ui_paused, mpc, op>>
    /\ UNCHANGED <<running, fading_out, paused>>

\* pause(): sets the flag, then stops or starts the sound.
Space ==
    /\ Press("space")
    /\ ui_paused' = ~ui_paused /\ paused' = ~ui_paused
    /\ \/ ~ui_paused /\ stopThen("pause")
       \/ ui_paused /\ mpc' = "resuming" /\ UNCHANGED op
    /\ UNCHANGED <<running, track, fading_out>>

Setting ==
    /\ Press("setting")
    /\ suspendThen("set")
    /\ UNCHANGED <<running, track, ui_paused, fading_out, paused>>

\* set_fadeout() stops nothing.
Loop ==
    /\ Press("loop")
    /\ fading_out' = ~fading_out
    /\ mpc' = "operating" /\ op' = "fade"
    /\ UNCHANGED <<running, track, ui_paused, paused>>

Quit ==
    /\ Press("quit")
    /\ running' = FALSE
    /\ UNCHANGED <<track, ui_paused, fading_out, mpc, op, paused>>

-----------------------------------------------------------------------------
(***************************************************************************)
(* The audio thread.                                                       *)
(***************************************************************************)

\* SDL calls back while it is not paused; fill_buffer() looks at emu_.
Callback ==
    /\ apc = "idle"
    /\ ~sdl_paused
    /\ loaded
    /\ apc' = "playing"
    /\ UNCHANGED <<mainVars, mpc, op, playerVars, emuVars, sdl_paused>>

\* gme_play() up to its decision to fade.
AudioPlay ==
    /\ apc = "playing"
    /\ \/ /\ track_ended
          /\ apc' = "counting"
          /\ UNCHANGED track_ended
       \/ /\ ~track_ended
          /\ track_ended' \in (IF SongEnds THEN BOOLEAN ELSE {FALSE})
          /\ apc' = IF fade_start >= 0 /\ out_time > fade_start
                    THEN "fading" ELSE "counting"
    /\ UNCHANGED <<mainVars, mpc, op, playerVars, emu_track, out_time,
                   fade_start, sdl_paused>>

\* handle_fade() reads fade_start again.
AudioFade ==
    /\ apc = "fading"
    /\ track_ended' = (track_ended \/ out_time - fade_start >= FadeLength)
    /\ apc' = "counting"
    /\ UNCHANGED <<mainVars, mpc, op, playerVars, emu_track, out_time,
                   fade_start, sdl_paused>>

AudioCount ==
    /\ apc = "counting"
    /\ out_time' = IF out_time < MaxTime THEN out_time + 1 ELSE out_time
    /\ apc' = "idle"
    /\ UNCHANGED <<mainVars, mpc, op, playerVars, emu_track, fade_start,
                   track_ended, sdl_paused>>

-----------------------------------------------------------------------------
Operate == StartTrack \/ PauseTrack \/ Set \/ SetFadeout \/ Delete
Main    == Stop \/ Wait \/ Operate \/ Start \/ CheckEnded \/ NextRound
User    == Left \/ Right \/ Space \/ Setting \/ Loop \/ Quit
Audio   == Callback \/ AudioPlay \/ AudioFade \/ AudioCount

Next == Main \/ User \/ Audio

Spec == Init /\ [][Next]_vars

\* Both threads run; the user need not press anything.
FairSpec == Spec /\ WF_vars(Main) /\ WF_vars(Audio)
-----------------------------------------------------------------------------
(***************************************************************************)
(* Properties.                                                             *)
(***************************************************************************)
NumbersOK ==
    /\ track \in 1..TrackCount /\ emu_track \in 0..TrackCount
    /\ presses \in 0..MaxKeys
    /\ out_time \in 0..MaxTime
    /\ fade_start \in {Length, Forever}

FlagsOK ==
    /\ running \in BOOLEAN /\ ui_paused \in BOOLEAN
    /\ fading_out \in BOOLEAN /\ paused \in BOOLEAN /\ loaded \in BOOLEAN
    /\ track_ended \in BOOLEAN /\ sdl_paused \in BOOLEAN

PhasesOK ==
    /\ mpc \in {"top", "keys", "stopping", "waiting", "operating",
                "resuming", "done"}
    /\ op \in {"start", "pause", "set", "fade", "quit"}
    /\ apc \in {"idle", "playing", "fading", "counting"}

TypeOK == NumbersOK /\ FlagsOK /\ PhasesOK

\* "Sound must not be running when operating on emulator"
\* (Music_Player.cpp:229): no callback is under way while main() is about
\* to change the emulator, by any call but set_fadeout(); see LoopsForever.
OneAtATime == mpc = "operating" /\ op \notin {"pause", "fade"} => apc = "idle"

\* The emulator that a callback plays has not been deleted.
NoUseAfterDelete == apc # "idle" => loaded

\* Between calls the sound runs unless the player is paused, both copies of
\* the flag agree, and the track shown is the one that plays.
InSync == mpc \in {"top", "keys"} =>
            /\ sdl_paused = paused
            /\ paused = ui_paused
            /\ emu_track = track

\* In a call of Music_Player the sound is stopped once it has waited, and
\* it stays so while the player is paused.
Stopped == sdl_paused /\ apc = "idle"

InCall(what) == mpc \in {"stopping", "waiting", "operating"} /\ op = what

StoppedInv ==
    /\ mpc = "waiting" => sdl_paused
    /\ mpc = "operating" /\ op # "fade" => Stopped
    /\ mpc \in {"top", "keys"} /\ paused => Stopped
    /\ InCall("fade") /\ paused => Stopped
    /\ InCall("fade") => mpc = "operating" /\ sdl_paused = paused
    /\ mpc = "resuming" => ~paused

\* What main() and the player agree on, through every call.
AgreeInv ==
    /\ InCall("start") => ~ui_paused
    /\ InCall("pause") => paused
    /\ mpc \in {"top", "keys", "resuming"} \/ InCall("pause")
         \/ InCall("set") \/ InCall("fade")
       => paused = ui_paused /\ emu_track = track

\* The inductive invariant behind the safety properties.
PlayerInv == TypeOK /\ NoUseAfterDelete /\ InSync /\ StoppedInv /\ AgreeInv

\* Music_Player.h:66: "if not used, loop forever": once the fadeout is
\* switched off, an endless song does not end.  (It does: set_fadeout()
\* changes the emulator while the audio thread is in it.)
LoopsForever ==
    [][~fading_out /\ mpc # "operating" /\ ~track_ended /\ ~SongEnds
         => ~track_ended']_vars

\* A player that nobody touches any more comes to rest, at the end of the
\* last track or where it was paused or quit, unless it loops forever.
ComesToRest ==
    <>[](mpc = "done" \/ (ui_paused /\ sdl_paused) \/ fade_start = Forever)
=============================================================================
