------------------------- MODULE MusicPlayerProofs -------------------------
(***************************************************************************)
(* Theorems about MusicPlayer, for files of any length, users with any     *)
(* keys and callbacks at any time.                                         *)
(***************************************************************************)
EXTENDS MusicPlayer, TLAPS

USE DEF mainVars, playerVars, emuVars

\* What the assumption says of each constant.
LEMMA PlayerConstants ==
    /\ TrackCount \in Nat \ {0} /\ MaxKeys \in Nat /\ MaxTime \in Nat
    /\ Length \in Nat /\ FadeLength \in Nat \ {0}
  BY PlayerAssumption DEF PlayerAssumption

\* The program starts in a call with the sound stopped.
LEMMA PlayerInit == Init => PlayerInv
<1> SUFFICES ASSUME Init PROVE PlayerInv
  OBVIOUS
<1>1. NumbersOK
  BY PlayerConstants DEF Init, NumbersOK
<1>2. FlagsOK /\ PhasesOK
  BY DEF Init, FlagsOK, PhasesOK
<1>3. NoUseAfterDelete /\ InSync /\ StoppedInv /\ AgreeInv
  BY DEF Init, NoUseAfterDelete, InSync, StoppedInv, AgreeInv, InCall
<1> QED
  BY <1>1, <1>2, <1>3 DEF PlayerInv, TypeOK

\* The audio thread changes nothing of main()'s.
LEMMA AudioFrame ==
    Audio => UNCHANGED <<running, track, ui_paused, fading_out, presses, mpc,
                         op, paused, loaded, emu_track, fade_start, sdl_paused>>
  BY DEF Audio, Callback, AudioPlay, AudioFade, AudioCount

\* Every step keeps the types.
LEMMA PlayerType == TypeOK /\ [Next]_vars => TypeOK'
<1> SUFFICES ASSUME TypeOK, [Next]_vars PROVE TypeOK'
  OBVIOUS
<1>0. NumbersOK /\ FlagsOK /\ PhasesOK
  BY DEF TypeOK
<1>1. CASE Main
  <2>1. NumbersOK'
    BY <1>0, <1>1, PlayerConstants
    DEF Main, Stop, Wait, Start, NextRound, CheckEnded, Operate, StartTrack,
        PauseTrack, Set, SetFadeout, Delete, startTrack, NumbersOK
  <2>2. FlagsOK'
    BY <1>0, <1>1
    DEF Main, Stop, Wait, Start, NextRound, CheckEnded, Operate, StartTrack,
        PauseTrack, Set, SetFadeout, Delete, startTrack, FlagsOK
  <2>3. PhasesOK'
    BY <1>0, <1>1
    DEF Main, Stop, Wait, Start, NextRound, CheckEnded, Operate, StartTrack,
        PauseTrack, Set, SetFadeout, Delete, startTrack, stopThen, resumed,
        PhasesOK
  <2> QED
    BY <2>1, <2>2, <2>3 DEF TypeOK
<1>2. CASE User
  <2>1. NumbersOK'
    BY <1>0, <1>2, PlayerConstants
    DEF User, Left, Right, Space, Setting, Loop, Quit, Press, startTrack,
        NumbersOK
  <2>2. FlagsOK'
    <3>1. CASE Left \/ Right
      BY <1>0, <3>1 DEF Left, Right, Press, startTrack, FlagsOK
    <3>2. CASE Space \/ Setting \/ Quit \/ Loop
      BY <1>0, <3>2 DEF Space, Setting, Quit, Loop, Press, FlagsOK
    <3> QED
      BY <1>2, <3>1, <3>2 DEF User
  <2>3. PhasesOK'
    BY <1>0, <1>2
    DEF User, Left, Right, Space, Setting, Loop, Quit, Press, startTrack,
        stopThen, suspendThen, PhasesOK
  <2> QED
    BY <2>1, <2>2, <2>3 DEF TypeOK
<1>3. CASE Audio
  <2>1. NumbersOK'
    <3>1. UNCHANGED <<track, emu_track, presses, fade_start>>
      BY <1>3, AudioFrame
    <3>2. out_time' \in 0..MaxTime
      <4>1. UNCHANGED out_time \/ AudioCount
        BY <1>3 DEF Audio, Callback, AudioPlay, AudioFade
      <4>2. CASE AudioCount
        BY <1>0, <4>2, PlayerConstants DEF AudioCount, NumbersOK
      <4> QED
        BY <1>0, <4>1, <4>2 DEF NumbersOK
    <3> QED
      BY <1>0, <3>1, <3>2 DEF NumbersOK, Forever
  <2>2. FlagsOK'
    BY <1>0, <1>3
    DEF Audio, Callback, AudioPlay, AudioFade, AudioCount, FlagsOK
  <2>3. PhasesOK'
    BY <1>0, <1>3
    DEF Audio, Callback, AudioPlay, AudioFade, AudioCount, PhasesOK
  <2> QED
    BY <2>1, <2>2, <2>3 DEF TypeOK
<1>4. CASE UNCHANGED vars
  BY <1>0, <1>4 DEF vars, TypeOK, NumbersOK, FlagsOK, PhasesOK
<1> QED
  BY <1>1, <1>2, <1>3, <1>4 DEF Next

\* What a step does to the two threads keeps them apart.
LEMMA PlayerStopped == PlayerInv /\ [Next]_vars => StoppedInv'
<1> SUFFICES ASSUME PlayerInv, [Next]_vars PROVE StoppedInv'
  OBVIOUS
<1>0. TypeOK
  BY DEF PlayerInv
<1> USE DEF PlayerInv, StoppedInv, InCall, Stopped
<1>1. CASE Stop \/ Wait \/ Start \/ NextRound
  BY <1>0, <1>1 DEF Stop, Wait, Start, NextRound, stopThen
<1>2. CASE Operate
  BY <1>0, <1>2 DEF Operate, StartTrack, PauseTrack, Set, SetFadeout, Delete,
                    resumed
<1>3. CASE CheckEnded
  BY <1>0, <1>3 DEF CheckEnded, startTrack, stopThen
<1>4. CASE Left \/ Right
  BY <1>0, <1>4 DEF Left, Right, Press, startTrack, stopThen
<1>5. CASE Space
  <2>1. /\ mpc = "keys" /\ UNCHANGED <<sdl_paused, apc>>
        /\ \/ mpc' = "stopping" /\ op' = "pause"
           \/ ui_paused /\ mpc' = "resuming"
    BY <1>5 DEF Space, Press, stopThen
  <2>2. ui_paused => ~paused'
    BY <1>5 DEF Space
  <2> QED
    BY <2>1, <2>2
<1>8. CASE Setting \/ Loop \/ Quit
  BY <1>0, <1>8 DEF Setting, Loop, Quit, Press, stopThen, suspendThen, InSync
<1>6. CASE Audio
  <2>1. UNCHANGED <<mpc, op, paused, sdl_paused>>
    BY <1>6, AudioFrame
  <2>2. Stopped => Stopped'
    BY <1>6, <2>1 DEF Audio, Callback, AudioPlay, AudioFade, AudioCount
  <2> QED
    BY <2>1, <2>2
<1>7. CASE UNCHANGED vars
  BY <1>7 DEF vars
<1> QED
  BY <1>1, <1>2, <1>3, <1>4, <1>5, <1>6, <1>7, <1>8 DEF Next, Main, User

\* ... and main() in agreement with its player.
LEMMA PlayerAgree == PlayerInv /\ [Next]_vars => AgreeInv' /\ InSync'
<1> SUFFICES ASSUME PlayerInv, [Next]_vars PROVE AgreeInv' /\ InSync'
  OBVIOUS
<1>0. TypeOK
  BY DEF PlayerInv
<1> USE DEF PlayerInv, AgreeInv, InSync, InCall
<1>1. CASE Stop \/ Wait \/ Start \/ NextRound
  <2>1. CASE Stop \/ Wait
    BY <2>1 DEF Stop, Wait
  <2>2. CASE Start
    <3>1. ~paused /\ paused' = paused /\ paused' = FALSE /\ sdl_paused' = FALSE
      BY <1>0, <2>2 DEF Start, StoppedInv, TypeOK, FlagsOK
    <3> QED
      BY <2>2, <3>1 DEF Start
  <2>3. CASE NextRound
    BY <2>3 DEF NextRound, stopThen
  <2> QED
    BY <1>1, <2>1, <2>2, <2>3
<1>2. CASE Operate
  <2>1. CASE StartTrack
    <3>1. \/ /\ paused' = FALSE /\ ui_paused' = FALSE /\ emu_track' = track'
             /\ mpc' = "resuming" /\ op' = "start"
          \/ mpc' = "done"
      BY <1>0, <2>1 DEF StartTrack, TypeOK, FlagsOK
    <3> QED
      BY <3>1
  <2>2. CASE PauseTrack \/ Set \/ SetFadeout
    <3>1. /\ UNCHANGED <<op, paused, ui_paused, sdl_paused, track, emu_track>>
          /\ paused = ui_paused /\ emu_track = track
          /\ mpc' \in {"keys", "resuming"}
          /\ mpc' = "keys" => (paused /\ sdl_paused) \/ sdl_paused = paused
      BY <2>2 DEF PauseTrack, Set, SetFadeout, resumed, StoppedInv, Stopped
    <3>2. mpc' = "keys" => sdl_paused' = paused'
      BY <1>0, <3>1 DEF TypeOK, FlagsOK
    <3> QED
      BY <3>1, <3>2
  <2>3. CASE Delete
    BY <2>3 DEF Delete
  <2> QED
    BY <1>2, <2>1, <2>2, <2>3 DEF Operate
<1>3. CASE CheckEnded
  BY <1>0, <1>3 DEF CheckEnded, startTrack, stopThen
<1>4. CASE Left \/ Right \/ Space
  <2>1. CASE Left \/ Right
    BY <2>1 DEF Left, Right, Press, startTrack, stopThen
  <2>2. CASE Space
    <3>1. /\ mpc = "keys" /\ UNCHANGED <<sdl_paused, emu_track, track>>
          /\ \/ mpc' = "stopping" /\ op' = "pause" /\ ~ui_paused
             \/ mpc' = "resuming"
      BY <2>2 DEF Space, Press, stopThen
    <3>2. paused' = ui_paused' /\ (~ui_paused => paused')
      BY <2>2 DEF Space
    <3> QED
      BY <3>1, <3>2
  <2> QED
    BY <1>4, <2>1, <2>2
<1>5. CASE Setting \/ Loop \/ Quit
  BY <1>0, <1>5 DEF Setting, Loop, Quit, Press, stopThen, suspendThen
<1>6. CASE Audio
  BY <1>6, AudioFrame
<1>7. CASE UNCHANGED vars
  BY <1>7 DEF vars
<1> QED
  BY <1>1, <1>2, <1>3, <1>4, <1>5, <1>6, <1>7 DEF Next, Main, User

\* The emulator is deleted while no callback runs, and none begins after.
LEMMA PlayerLoaded == PlayerInv /\ [Next]_vars => NoUseAfterDelete'
<1> SUFFICES ASSUME PlayerInv, [Next]_vars PROVE NoUseAfterDelete'
  OBVIOUS
<1> USE DEF PlayerInv, NoUseAfterDelete
<1>1. CASE Main
  BY <1>1 DEF Main, Stop, Wait, Start, NextRound, Operate, StartTrack,
              PauseTrack, Set, SetFadeout, Delete, CheckEnded, StoppedInv,
              Stopped
<1>2. CASE User
  BY <1>2 DEF User, Left, Right, Space, Setting, Loop, Quit, Press
<1>3. CASE Audio
  BY <1>3 DEF Audio, Callback, AudioPlay, AudioFade, AudioCount
<1>4. CASE UNCHANGED vars
  BY <1>4 DEF vars
<1> QED
  BY <1>1, <1>2, <1>3, <1>4 DEF Next

\* The player and its audio thread are in the states that main() relies on.
THEOREM PlayerInvariance == Spec => []PlayerInv
<1>1. PlayerInv /\ [Next]_vars => PlayerInv'
  BY PlayerType, PlayerStopped, PlayerAgree, PlayerLoaded DEF PlayerInv
<1> QED
  BY <1>1, PlayerInit, PTL DEF Spec

\* No callback ever plays a deleted emulator.
THEOREM NeverUsedAfterDelete == Spec => []NoUseAfterDelete
<1>1. PlayerInv => NoUseAfterDelete
  BY DEF PlayerInv
<1> QED
  BY <1>1, PlayerInvariance, PTL

\* Between calls the sound, the pause flags and the track shown agree.
THEOREM PlayerInSync == Spec => []InSync
<1>1. PlayerInv => InSync
  BY DEF PlayerInv
<1> QED
  BY <1>1, PlayerInvariance, PTL

\* The emulator is never changed while a callback runs, except by
\* set_fadeout().
THEOREM OneThreadAtATime == Spec => []OneAtATime
<1>1. PlayerInv => OneAtATime
  BY DEF PlayerInv, StoppedInv, Stopped, OneAtATime
<1> QED
  BY <1>1, PlayerInvariance, PTL
=============================================================================
