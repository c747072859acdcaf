----------------------------- MODULE MCMusicEmu -----------------------------
(***************************************************************************)
(* MusicEmu on small instances.                                            *)
(***************************************************************************)
EXTENDS MusicEmu

CONSTANTS v1

MCFades   == {<<-1, 1>>, <<1, 1>>}
MCNoFades == {}
MCTrackFades == {<<2, 1>>}
MCEarly   == {<<0, 1>>}
MCSilence == {<<-1, 1>>, <<3, 8>>}
=============================================================================
