------------------------------ MODULE GmeFile ------------------------------
(***************************************************************************)
(* Loading music files and playlists: gme/Gme_File.cpp, with the virtual   *)
(* functions of Music_Emu.cpp and Nsfe_Emu.cpp that it calls and that call *)
(* it back, and M3u_Playlist.cpp.                                          *)
(*                                                                         *)
(* Three numberings of the tracks of a file meet here.  The client counts  *)
(* from 0 to track_count - 1.  An m3u playlist maps these to raw tracks,   *)
(* and the playlist inside an NSFE file maps raw tracks to songs of the    *)
(* music data.  Each layer may be switched off while the others stay.      *)
(***************************************************************************)
EXTENDS Integers, Sequences

CONSTANTS
    Types,       \* the types of music file that the client may open
    TrackCounts, \* numbers of files that load_tracks() is given
    Garbage,     \* what an int that is never set may hold, as a byte
    MayFail      \* may there be no such file, or no memory?

NoInfo == -1

\* A file: the songs of the music data in it (none without that data), the
\* playlist in it, the count of songs that its INFO block gives, if there
\* is one that was read, and whether it is found corrupt.  Nothing checks
\* that an NSFE file has an INFO block, or music data: check() does nothing.
FileType(f) ==
    /\ f.songs \in Nat
    /\ f.playlist \in Seq(Nat)
    /\ f.count \in 0..255 \cup {NoInfo}
    /\ f.corrupt \in BOOLEAN

\* A line of an m3u file; a track that is not given is -1.
Entries == [track : Nat \cup {-1}, decimal : BOOLEAN]

\* A type: is its emulator an Nsfe_Emu, how many songs has each of its files
\* (0 if they say themselves), does no track number start at 1 (0x02), which
\* files may be loaded, and what parse_() may make of the m3u files beside
\* them (<<>> is an error).
TypeType(t) ==
    /\ t.nsfe \in BOOLEAN /\ t.zero_based \in BOOLEAN
    /\ t.count \in Nat
    /\ t.nsfe => t.count = 0
    /\ \A f \in t.files :
         /\ FileType(f)
         /\ t.count # 0 => f.songs = t.count
         /\ ~t.nsfe => f.playlist = <<>>
         /\ t.nsfe /\ f.count = NoInfo => f.songs <= 1   \* base_header
    /\ \A list \in t.playlists : list \in Seq(Entries)

ASSUME FileAssumption ==
    /\ \A t \in Types : TypeType(t)
    /\ TrackCounts \subseteq Nat \ {0}
    /\ Garbage \subseteq 0..255
    /\ MayFail \in BOOLEAN

VARIABLES
    type,                \* of the emulator: gme_new_emu() chooses it
    \* Gme_File
    track_count, raw_track_count,
    playlist,            \* the m3u playlist
    \* Nsfe_Info
    nsfe_playlist, playlist_disabled,
    actual_track_count,  \* songs, by the INFO block
    \* Music_Emu
    current_track,
    \* History, read by properties only:
    songs,               \* songs of the music data that is loaded, 0 if none
    counted,             \* did the file that is loaded count them?
    song                 \* what start_track_() was told to play

countVars == <<track_count, raw_track_count>>
nsfeVars  == <<nsfe_playlist, playlist_disabled, actual_track_count>>
vars == <<type, countVars, playlist, nsfeVars, current_track, songs, counted,
          song>>

NoSong == -2

Nsfe       == type.nsfe
FixedCount == type.count
ZeroBased  == type.zero_based
Files      == type.files
Playlists  == type.playlists

\* Gme_File(), Nsfe_Info(): actual_track_count_ is not set.
Init ==
    /\ type \in Types
    /\ track_count = 0 /\ raw_track_count = 0
    /\ playlist = <<>>
    /\ nsfe_playlist = <<>> /\ playlist_disabled = FALSE
    /\ actual_track_count \in Garbage
    /\ current_track = -1
    /\ songs = 0 /\ counted = TRUE /\ song = NoSong

-----------------------------------------------------------------------------
(***************************************************************************)
(* Playlists.                                                              *)
(***************************************************************************)
set_track_count(n) == track_count' = n /\ raw_track_count' = n

\* Nsfe_Info::disable_playlist( disabled ), for this list and this count.
\* The count goes through info.track_count, a byte.
nsfe_count(disabled, list, count) ==
    LET size == Len(list) % 256
    IN  IF size = 0 \/ disabled THEN count ELSE size

\* clear_playlist(): clear_playlist_() tells the count first.
clear_playlist_faulty ==   \* mutant: the old count is restored
    /\ playlist' = <<>>
    /\ playlist_disabled' = TRUE
    /\ raw_track_count' = IF Nsfe THEN actual_track_count ELSE raw_track_count
    /\ track_count' = raw_track_count
clear_playlist ==
    /\ playlist' = <<>>
    /\ IF Nsfe
       THEN playlist_disabled' = TRUE /\ set_track_count(actual_track_count)
       ELSE set_track_count(raw_track_count) /\ UNCHANGED playlist_disabled

ClearPlaylist ==
    /\ clear_playlist
    /\ UNCHANGED <<type, nsfe_playlist, actual_track_count, current_track,
                   songs, counted, song>>

\* Nsfe_Emu::disable_playlist(), which leaves an m3u playlist in place.
DisablePlaylist(disabled) ==
    /\ Nsfe
    /\ playlist_disabled' = disabled
    /\ set_track_count(nsfe_count(disabled, nsfe_playlist, actual_track_count))
    /\ UNCHANGED <<type, playlist, nsfe_playlist, actual_track_count,
                   current_track, songs, counted, song>>

\* load_m3u(), after a file.  A playlist that cannot be opened changes
\* nothing; one that cannot be parsed clears the entries, not their count.
LoadM3u_faulty(list) ==   \* mutant: counts only if there was no playlist
    /\ raw_track_count > 0
    /\ list # <<>>
    /\ playlist' = list
    /\ track_count' = IF playlist = <<>> THEN Len(list) ELSE track_count
    /\ UNCHANGED <<type, raw_track_count, nsfeVars, current_track, songs,
                   counted, song>>
LoadM3u(list) ==
    /\ raw_track_count > 0
    /\ \/ /\ list # <<>>
          /\ playlist' = list
          /\ track_count' = Len(list)
       \/ /\ list = <<>>
          /\ playlist' = <<>>
          /\ UNCHANGED track_count
    /\ UNCHANGED <<type, raw_track_count, nsfeVars, current_track, songs,
                   counted, song>>

-----------------------------------------------------------------------------
(***************************************************************************)
(* Loading.                                                                *)
(***************************************************************************)

\* unload(), by pre_load() or after an error: the counts end as 0 whatever
\* clear_playlist() made of them.  An NSFE file keeps its count of songs.
unloaded ==
    /\ set_track_count(0)
    /\ playlist' = <<>>
    /\ nsfe_playlist' = <<>>
    /\ playlist_disabled' = (Nsfe \/ playlist_disabled)
    /\ current_track' = -1
    /\ songs' = 0 /\ counted' = TRUE /\ song' = NoSong

\* Nsfe_Info::load(): actual_track_count_ behind it, set by an INFO block only.
info_count(f) == IF f.count = NoInfo THEN actual_track_count ELSE f.count

\* load_mem(), load() and load_file() of a file that can be opened: a file
\* of a fixed count gets it from post_load().  For an NSFE file this is the
\* outcome of both loads, the inner one of its music data and the outer
\* one, whose disable_playlist( false ) sets the count.
loaded(f) ==
    /\ playlist' = <<>>
    /\ nsfe_playlist' = f.playlist
    /\ playlist_disabled' = (~Nsfe /\ playlist_disabled)
    /\ set_track_count(IF Nsfe THEN nsfe_count(FALSE, f.playlist, info_count(f))
                               ELSE f.songs)
    /\ current_track' = -1
    /\ songs' = f.songs /\ counted' = (Nsfe => f.count # NoInfo)
    /\ song' = NoSong

Load_faulty(f) ==   \* mutant: post_load() unloads before it sets the count
    /\ \/ ~f.corrupt /\ loaded(f)
       \/ /\ f.corrupt
          /\ set_track_count(FixedCount)
          /\ playlist' = <<>> /\ nsfe_playlist' = <<>>
          /\ playlist_disabled' = (Nsfe \/ playlist_disabled)
          /\ current_track' = -1 /\ songs' = 0 /\ song' = NoSong
          /\ counted' = TRUE
    /\ UNCHANGED <<type, actual_track_count>>
Load(f) ==
    /\ \/ ~f.corrupt /\ loaded(f)
       \/ f.corrupt /\ unloaded
    /\ actual_track_count' = IF Nsfe THEN info_count(f) ELSE actual_track_count
    /\ UNCHANGED type

\* load_file() of a file that cannot be opened: no post_load().
OpenFails ==
    /\ MayFail
    /\ unloaded
    /\ UNCHANGED <<type, actual_track_count>>

\* load_tracks(): only for files of one track, and load_mem_() may find
\* the first of them corrupt.  Without memory it returns between pre_load()
\* and post_load(), with the count of tracks set.
LoadTracks(n) ==
    /\ \/ unloaded
       \/ /\ FixedCount = 1
          /\ songs' = n \/ (MayFail /\ songs' = 0)
          /\ set_track_count(n)
          /\ playlist' = <<>> /\ current_track' = -1 /\ song' = NoSong
          /\ counted' = TRUE
          /\ UNCHANGED <<nsfe_playlist, playlist_disabled>>
    /\ UNCHANGED <<type, actual_track_count>>

-----------------------------------------------------------------------------
(***************************************************************************)
(* Tracks.                                                                 *)
(***************************************************************************)

\* The raw track of a line of the m3u playlist: a track given in decimal
\* starts at 1, unless the type says that its tracks do not.
m3u_track(track) ==
    LET e == playlist[track + 1]
    IN  IF e.track < 0 THEN 0
        ELSE IF e.decimal /\ ~ZeroBased THEN e.track - 1 ELSE e.track

\* remap_track_()
InPlaylist(track) == track < Len(playlist)

accepted(track) ==
    /\ track \in 0..track_count-1
    /\ InPlaylist(track) => m3u_track(track) < raw_track_count

remapped(track) == IF InPlaylist(track) THEN m3u_track(track) ELSE track

\* Nsfe_Info::remap_track()
nsfe_remapped(track) ==
    IF ~playlist_disabled /\ track \in 0..Len(nsfe_playlist)-1
    THEN nsfe_playlist[track + 1] ELSE track

\* start_track(): a refused track leaves no track, one that start_track_()
\* has no memory for is left as the current one.
start_track(track) ==
    \/ /\ accepted(track)
       /\ current_track' = track
       /\ \/ song' = nsfe_remapped(remapped(track))
          \/ MayFail /\ song' = NoSong
    \/ /\ ~accepted(track)
       /\ current_track' = -1
       /\ song' = NoSong

StartTrack(track) ==
    /\ start_track(track)
    /\ UNCHANGED <<type, countVars, playlist, nsfeVars, songs, counted>>

\* seek() to an earlier time restarts the current track.
SeekBack ==
    /\ current_track >= 0
    /\ start_track(current_track)
    /\ UNCHANGED <<type, countVars, playlist, nsfeVars, songs, counted>>

-----------------------------------------------------------------------------
Next ==
    \/ \E f \in Files : Load(f)
    \/ OpenFails
    \/ \E n \in TrackCounts : LoadTracks(n)
    \/ \E list \in Playlists : LoadM3u(list)
    \/ ClearPlaylist
    \/ \E disabled \in BOOLEAN : DisablePlaylist(disabled)
    \/ \E track \in -1..track_count : StartTrack(track)
    \/ SeekBack

Spec == Init /\ [][Next]_vars
-----------------------------------------------------------------------------
(***************************************************************************)
(* Properties.                                                             *)
(***************************************************************************)
TypeOK ==
    /\ type \in Types
    /\ track_count \in Nat /\ raw_track_count \in Nat
    /\ playlist \in Seq(Entries)
    /\ nsfe_playlist \in Seq(Nat)
    /\ playlist_disabled \in BOOLEAN
    /\ actual_track_count \in 0..255
    /\ current_track \in Nat \cup {-1}
    /\ songs \in Nat /\ counted \in BOOLEAN /\ song \in Nat \cup {NoSong}

\* What a client may start is a song of the music that is loaded, through
\* both playlists and whatever was loaded and cleared before
\* (ERR_M3U_TRACK_INVALID: "invalid track in m3u playlist").  Of an NSFE
\* file without an INFO block it may be any song below the count that an
\* earlier file, or nobody, has set.
SongExists ==
    songs > 0 /\ song # NoSong =>
        \/ song \in 0..songs-1
        \/ ~counted /\ song \in 0..actual_track_count-1

\* Not so: that it is always a song (Nsfe_Emu.cpp:211 only "checks" that the
\* INFO block came before the music data).
SongIsInFile == songs > 0 /\ song # NoSong => song \in 0..songs-1

\* check( !playlist.size() ) of remap_track_() (Gme_File.cpp:193): a track
\* behind the m3u playlist means that there is none.  Nsfe_Emu's own
\* playlist may be switched while an m3u playlist is loaded.
PlaylistCovers == ~Nsfe /\ track_count > Len(playlist) => playlist = <<>>

\* "Number of tracks or 0 if no file has been loaded" (Gme_File.h:105).  An
\* NSFE emulator keeps its count and loads files without music data, and
\* load_tracks() without memory leaves a count.
LosesCount == Nsfe \/ (MayFail /\ FixedCount = 1)

NothingLoaded == ~LosesCount /\ songs = 0 => track_count = 0

\* Without an m3u playlist the client counts what the NSFE playlist, or the
\* file, has: no count of an earlier playlist or file is left, unless the
\* file counts nothing.
SongCount == IF counted THEN songs ELSE actual_track_count

CountIsCurrent ==
    songs > 0 =>
      /\ raw_track_count =
           nsfe_count(playlist_disabled, nsfe_playlist, SongCount)
      /\ playlist = <<>> => track_count = raw_track_count

\* Inputs that are what they should be: the INFO block of an NSFE file, if
\* there is one, counts the songs of its music data, if there is any, and
\* the playlist in it names them; an m3u playlist can be parsed and starts
\* at track 1.
lineOK(t, e) == ~(e.track = 0 /\ e.decimal /\ ~t.zero_based)

GoodInputs ==
    \A t \in Types :
      /\ \A f \in t.files : f.songs > 0 =>
           /\ t.nsfe => f.count \in {NoInfo, f.songs}
           /\ \A i \in 1..Len(f.playlist) : f.playlist[i] < f.songs
      /\ <<>> \notin t.playlists
      /\ \A list \in t.playlists : \A i \in 1..Len(list) : lineOK(t, list[i])

\* The inductive invariant behind SongExists, for good inputs.
LayersInv ==
    /\ \A i \in 1..Len(playlist) : lineOK(type, playlist[i])
    /\ ~Nsfe => nsfe_playlist = <<>> /\ counted
    /\ songs > 0 =>
         /\ Nsfe /\ counted => actual_track_count = songs
         /\ \A i \in 1..Len(nsfe_playlist) : nsfe_playlist[i] < songs
         /\ track_count <= raw_track_count \/ track_count <= Len(playlist)

FileInv == TypeOK /\ LayersInv /\ CountIsCurrent /\ SongExists

=============================================================================
