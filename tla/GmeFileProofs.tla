--------------------------- MODULE GmeFileProofs ---------------------------
(***************************************************************************)
(* Theorems about GmeFile, for every set of files and playlists that       *)
(* satisfies the assumption each of them names.                            *)
(***************************************************************************)
EXTENDS GmeFile, TLAPS

USE DEF countVars, nsfeVars, Nsfe, ZeroBased, FixedCount, Files, Playlists

\* What the assumption says of a type, its files and its playlists.
LEMMA FileInputs ==
    ASSUME type \in Types
    PROVE  /\ Nsfe \in BOOLEAN /\ ZeroBased \in BOOLEAN
           /\ Nsfe => FixedCount = 0
           /\ \A f \in Files :
                /\ f.songs \in Nat /\ f.playlist \in Seq(Nat)
                /\ f.count \in 0..255 \cup {NoInfo}
                /\ f.corrupt \in BOOLEAN
                /\ ~Nsfe => f.playlist = <<>>
           /\ \A list \in Playlists : list \in Seq(Entries)
           /\ TrackCounts \subseteq Nat \ {0}
  BY FileAssumption
  DEF FileAssumption, TypeType, FileType, Nsfe, ZeroBased, FixedCount, Files,
      Playlists

\* ... and what it says of good ones.
LEMMA GoodOfType ==
    ASSUME GoodInputs, type \in Types
    PROVE  /\ \A f \in Files : f.songs > 0 =>
                /\ Nsfe => f.count \in {NoInfo, f.songs}
                /\ \A i \in 1..Len(f.playlist) : f.playlist[i] < f.songs
           /\ <<>> \notin Playlists
           /\ \A list \in Playlists : \A i \in 1..Len(list) : lineOK(type, list[i])
  BY DEF GoodInputs, Files, Playlists

\* The byte of the playlist's length is at most the length, and nothing else
\* than the count stands for an empty list.
LEMMA NsfeCount ==
    ASSUME NEW list \in Seq(Nat), NEW count \in Nat, NEW disabled \in BOOLEAN
    PROVE  /\ nsfe_count(disabled, list, count) \in Nat
           /\ nsfe_count(disabled, list, count) <= Len(list)
              \/ nsfe_count(disabled, list, count) = count
           /\ disabled \/ list = <<>> =>
                nsfe_count(disabled, list, count) = count
<1> DEFINE size == Len(list) % 256
<1>1. Len(list) \in Nat
  OBVIOUS
<1>2. size \in Nat /\ size <= Len(list) /\ (Len(list) = 0 => size = 0)
  BY <1>1, SMT
<1>3. nsfe_count(disabled, list, count) =
        IF size = 0 \/ disabled THEN count ELSE size
  BY DEF nsfe_count
<1> HIDE DEF size
<1> QED
  BY <1>1, <1>2, <1>3

\* A line of a good playlist is a raw track from 0.
LEMMA M3uTrack ==
    ASSUME TypeOK, LayersInv, NEW track \in Nat, InPlaylist(track)
    PROVE  m3u_track(track) \in Nat
<1> DEFINE e == playlist[track + 1]
<1>1. e \in Entries /\ lineOK(type, e)
  BY DEF TypeOK, LayersInv, InPlaylist
<1>2. e.track \in Nat \cup {-1} /\ e.decimal \in BOOLEAN
  BY <1>1 DEF Entries
<1> QED
  BY <1>1, <1>2 DEF m3u_track, lineOK, ZeroBased

\* A track that is accepted is a raw track of the file.
LEMMA AcceptedTrack ==
    ASSUME TypeOK, LayersInv, NEW track, accepted(track)
    PROVE  /\ track \in Nat
           /\ remapped(track) \in Nat
           /\ songs > 0 => remapped(track) < raw_track_count
<1>1. track \in Nat
  BY DEF accepted, TypeOK
<1>2. CASE InPlaylist(track)
  BY <1>1, <1>2, M3uTrack DEF accepted, remapped, TypeOK
<1>3. CASE ~InPlaylist(track)
  BY <1>1, <1>3 DEF accepted, remapped, InPlaylist, LayersInv, TypeOK
<1> QED
  BY <1>1, <1>2, <1>3

\* ... and, through the playlist in the file, one of its songs, or below the
\* count that is left over.
LEMMA AcceptedSong ==
    ASSUME TypeOK, LayersInv, CountIsCurrent, NEW track, accepted(track)
    PROVE  /\ nsfe_remapped(remapped(track)) \in Nat
           /\ songs > 0 =>
                \/ nsfe_remapped(remapped(track)) < songs
                \/ ~counted /\ nsfe_remapped(remapped(track)) < actual_track_count
<1> DEFINE raw == remapped(track)
<1>1. raw \in Nat /\ (songs > 0 => raw < raw_track_count)
  BY AcceptedTrack
<1> HIDE DEF raw
<1>2. CASE ~playlist_disabled /\ raw \in 0..Len(nsfe_playlist)-1
  <2>1. nsfe_playlist[raw + 1] \in Nat
        /\ (songs > 0 => nsfe_playlist[raw + 1] < songs)
    BY <1>1, <1>2 DEF TypeOK, LayersInv
  <2> QED
    BY <1>2, <2>1 DEF nsfe_remapped, raw
<1>3. CASE ~(~playlist_disabled /\ raw \in 0..Len(nsfe_playlist)-1)
  <2>1. nsfe_remapped(raw) = raw
    BY <1>3 DEF nsfe_remapped
  <2> DEFINE n == nsfe_count(playlist_disabled, nsfe_playlist, SongCount)
  <2>2. SongCount \in Nat
    BY DEF SongCount, TypeOK
  <2>3. /\ n \in Nat
        /\ n <= Len(nsfe_playlist) \/ n = SongCount
        /\ playlist_disabled => n = SongCount
    BY <2>2, NsfeCount DEF TypeOK
  <2>4. songs > 0 => raw_track_count = n
    BY DEF CountIsCurrent
  <2> HIDE DEF n
  <2>5. Len(nsfe_playlist) \in Nat
    BY DEF TypeOK
  <2>6. songs > 0 => raw < SongCount
    BY <1>1, <1>3, <2>2, <2>3, <2>4, <2>5
  <2>7. songs > 0 => raw < songs \/ (~counted /\ raw < actual_track_count)
    BY <2>6 DEF SongCount
  <2> QED
    BY <1>1, <2>1, <2>7 DEF raw
<1> QED
  BY <1>2, <1>3

\* A new emulator has no file.
LEMMA FileInit == Init => FileInv
<1> SUFFICES ASSUME Init PROVE FileInv
  OBVIOUS
<1>1. TypeOK
  <2>1. playlist_disabled \in BOOLEAN
    BY DEF Init
  <2>2. playlist \in Seq(Entries) /\ nsfe_playlist \in Seq(Nat)
    BY DEF Init
  <2>3. /\ track_count \in Nat /\ raw_track_count \in Nat
        /\ actual_track_count \in 0..255
        /\ current_track \in Nat \cup {-1}
        /\ songs \in Nat /\ counted \in BOOLEAN /\ song \in Nat \cup {NoSong}
    BY FileAssumption DEF Init, FileAssumption
  <2>4. type \in Types
    BY DEF Init
  <2> QED
    BY <2>1, <2>2, <2>3, <2>4 DEF TypeOK
<1>2. LayersInv /\ CountIsCurrent /\ SongExists
  BY DEF Init, LayersInv, CountIsCurrent, SongExists
<1> QED
  BY <1>1, <1>2 DEF FileInv

\* After unload() and after a successful load nothing old is left.
LEMMA UnloadedKeeps ==
    ASSUME unloaded, TypeOK, actual_track_count' \in 0..255, UNCHANGED type
    PROVE  FileInv'
<1>1. Nsfe \in BOOLEAN
  BY FileInputs DEF TypeOK
<1> QED
  BY <1>1 DEF unloaded, set_track_count, FileInv, TypeOK, LayersInv,
                    CountIsCurrent, SongExists, NoSong

\* A file that is loaded, or found corrupt, brings its own counts.
LEMMA LoadKeeps ==
    ASSUME GoodInputs, FileInv, NEW f \in Files, Load(f)
    PROVE  FileInv'
<1>0. TypeOK /\ type \in Types /\ type' = type
  BY DEF FileInv, TypeOK, Load
<1>1. info_count(f) \in 0..255 /\ actual_track_count' \in 0..255
      /\ (Nsfe => actual_track_count' = info_count(f))
  BY <1>0, FileInputs DEF Load, TypeOK, info_count
<1>2. CASE f.corrupt /\ unloaded
  BY <1>0, <1>1, <1>2, UnloadedKeeps
<1>3. CASE ~f.corrupt /\ loaded(f)
  <2> DEFINE n == nsfe_count(FALSE, f.playlist, info_count(f))
  <2>0. f.songs \in Nat /\ f.playlist \in Seq(Nat)
        /\ (~Nsfe => f.playlist = <<>>) /\ Nsfe \in BOOLEAN
    BY <1>0, FileInputs
  <2>1. n \in Nat
    <3>1. info_count(f) \in Nat
      BY <1>1
    <3> QED
      BY <2>0, <3>1, NsfeCount
  <2>2. /\ raw_track_count' = IF Nsfe THEN n ELSE f.songs
        /\ track_count' = raw_track_count'
        /\ playlist' = <<>> /\ nsfe_playlist' = f.playlist
        /\ playlist_disabled' = (~Nsfe /\ playlist_disabled)
        /\ current_track' = -1 /\ songs' = f.songs /\ song' = NoSong
    BY <1>3 DEF loaded, set_track_count
  <2>3. counted' = (Nsfe => f.count # NoInfo)
    BY <1>3 DEF loaded
  <2>4. songs' > 0 /\ Nsfe /\ counted' => actual_track_count' = songs'
    <3> SUFFICES ASSUME f.songs > 0, Nsfe, counted'
                 PROVE  actual_track_count' = f.songs
      BY <2>2
    <3>1. f.count # NoInfo
      BY <2>3
    <3>2. f.count = f.songs
      BY <1>0, <3>1, GoodOfType
    <3> QED
      BY <1>1, <3>1, <3>2 DEF info_count
  <2> HIDE DEF n
  <2>5. TypeOK'
    <3>1. playlist_disabled' \in BOOLEAN /\ counted' \in BOOLEAN
      BY <2>2, <2>3
    <3>2. track_count' \in Nat /\ raw_track_count' \in Nat
      BY <2>0, <2>1, <2>2
    <3>3. /\ playlist' \in Seq(Entries) /\ nsfe_playlist' \in Seq(Nat)
          /\ songs' \in Nat
      BY <2>0, <2>2
    <3> QED
      BY <1>0, <1>1, <2>2, <3>1, <3>2, <3>3 DEF TypeOK
  <2>6. LayersInv'
    <3>1. songs' > 0 => \A i \in 1..Len(nsfe_playlist') :
                          nsfe_playlist'[i] < songs'
      BY <1>0, <2>0, <2>2, GoodOfType
    <3>2. ~Nsfe => nsfe_playlist' = <<>> /\ counted'
      BY <2>0, <2>2, <2>3
    <3>3. songs' > 0 /\ Nsfe /\ counted' => actual_track_count' = songs'
      BY <2>4
    <3>4. track_count' <= raw_track_count'
      BY <2>2, <2>5 DEF TypeOK
    <3> QED
      BY <1>0, <2>2, <3>1, <3>2, <3>3, <3>4 DEF LayersInv
  <2>7. CountIsCurrent'
    <3>1. CASE Nsfe
      <4>1. songs' > 0 => SongCount' = info_count(f)
        BY <1>1, <2>4, <3>1, Zenon DEF SongCount
      <4>2. playlist_disabled' = FALSE
        BY <2>2, <3>1
      <4> QED
        BY <2>2, <3>1, <4>1, <4>2 DEF CountIsCurrent, n
    <3>2. CASE ~Nsfe
      <4>1. SongCount' = f.songs
        BY <2>2, <2>3, <3>2 DEF SongCount
      <4>2. nsfe_count(playlist_disabled', nsfe_playlist', SongCount') = f.songs
        BY <2>0, <2>2, <2>5, <3>2, <4>1, NsfeCount DEF TypeOK
      <4> QED
        BY <2>2, <3>2, <4>2 DEF CountIsCurrent
    <3> QED
      BY <2>0, <3>1, <3>2
  <2>8. SongExists'
    BY <2>2 DEF SongExists
  <2> QED
    BY <2>5, <2>6, <2>7, <2>8 DEF FileInv
<1> QED
  BY <1>2, <1>3 DEF Load

\* So do several files of one track each.
LEMMA LoadTracksKeeps ==
    ASSUME FileInv, NEW n \in TrackCounts, LoadTracks(n)
    PROVE  FileInv'
<1>0. TypeOK /\ LayersInv /\ type \in Types /\ type' = type
  BY DEF FileInv, TypeOK, LoadTracks
<1>1. CASE unloaded
  BY <1>0, <1>1, UnloadedKeeps DEF LoadTracks, TypeOK
<1>2. CASE ~unloaded
  <2>1. ~Nsfe /\ nsfe_playlist = <<>>
    BY <1>0, <1>2, FileInputs DEF LoadTracks, LayersInv
  <2>2. /\ n \in Nat /\ songs' \in {n, 0} /\ song' = NoSong
        /\ track_count' = n /\ raw_track_count' = n
        /\ playlist' = <<>> /\ current_track' = -1
        /\ counted' = TRUE
        /\ UNCHANGED nsfeVars
    BY <1>0, <1>2, FileInputs DEF LoadTracks, set_track_count
  <2>3. TypeOK'
    BY <1>0, <2>2 DEF TypeOK
  <2>4. LayersInv' /\ SongExists'
    BY <1>0, <2>1, <2>2 DEF LayersInv, SongExists
  <2>5. nsfe_count(playlist_disabled', nsfe_playlist', SongCount') = SongCount'
    BY <2>1, <2>2, <2>3, NsfeCount DEF TypeOK, SongCount
  <2>6. CountIsCurrent'
    BY <2>2, <2>5 DEF CountIsCurrent, SongCount
  <2> QED
    BY <2>3, <2>4, <2>6 DEF FileInv
<1> QED
  BY <1>1, <1>2

\* A playlist that is loaded or cleared changes the counts with it.
LEMMA PlaylistKeeps ==
    ASSUME GoodInputs, FileInv,
           \/ \E list \in Playlists : LoadM3u(list)
           \/ ClearPlaylist
           \/ \E disabled \in BOOLEAN : DisablePlaylist(disabled)
    PROVE  FileInv'
<1>0. /\ TypeOK /\ LayersInv /\ CountIsCurrent /\ SongExists
      /\ type \in Types /\ type' = type
  BY DEF FileInv, TypeOK, LoadM3u, ClearPlaylist, DisablePlaylist
<1>1. ASSUME NEW list \in Playlists, LoadM3u(list) PROVE FileInv'
  <2>1. list \in Seq(Entries) /\ list # <<>> /\ playlist' = list
        /\ track_count' = Len(list)
        /\ \A i \in 1..Len(list) : lineOK(type, list[i])
    BY <1>0, <1>1, FileInputs, GoodOfType DEF LoadM3u
  <2>2. UNCHANGED <<raw_track_count, nsfeVars, current_track, songs, counted,
                    song>>
    BY <1>1 DEF LoadM3u
  <2>3. TypeOK' /\ LayersInv' /\ SongExists'
    BY <1>0, <2>1, <2>2 DEF TypeOK, LayersInv, SongExists
  <2>4. CountIsCurrent'
    BY <1>0, <2>1, <2>2 DEF CountIsCurrent, SongCount
  <2> QED
    BY <2>3, <2>4 DEF FileInv
<1>2. CASE ClearPlaylist
  <2>1. /\ playlist' = <<>>
        /\ UNCHANGED <<nsfe_playlist, actual_track_count, current_track,
                       songs, counted, song>>
        /\ track_count' = raw_track_count'
    BY <1>2 DEF ClearPlaylist, clear_playlist, set_track_count
  <2>2. /\ Nsfe => playlist_disabled' = TRUE
                   /\ raw_track_count' = actual_track_count
        /\ ~Nsfe => UNCHANGED <<playlist_disabled, raw_track_count>>
    BY <1>2 DEF ClearPlaylist, clear_playlist, set_track_count
  <2>3. TypeOK'
    <3>1. playlist_disabled' \in BOOLEAN
      BY <1>0, <2>2, FileInputs DEF TypeOK
    <3>2. raw_track_count' \in Nat /\ track_count' \in Nat
      BY <1>0, <2>1, <2>2, FileInputs DEF TypeOK
    <3> QED
      BY <1>0, <2>1, <3>1, <3>2 DEF TypeOK
  <2>4. LayersInv' /\ SongExists'
    BY <1>0, <2>1, <2>2, <2>3 DEF LayersInv, SongExists, TypeOK
  <2>5. CountIsCurrent'
    <3>1. SongCount \in Nat /\ SongCount' = SongCount
      BY <1>0, <2>1 DEF SongCount, TypeOK
    <3>2. CASE Nsfe
      <4>1. songs > 0 => SongCount = actual_track_count
        BY <1>0, <3>2 DEF SongCount, LayersInv
      <4>2. nsfe_count(TRUE, nsfe_playlist, SongCount) = SongCount
        BY <1>0, <3>1, NsfeCount DEF TypeOK
      <4> QED
        BY <2>1, <2>2, <3>1, <3>2, <4>1, <4>2 DEF CountIsCurrent
    <3>3. CASE ~Nsfe
      BY <1>0, <2>1, <2>2, <3>1, <3>3 DEF CountIsCurrent
    <3> QED
      BY <3>2, <3>3
  <2> QED
    BY <2>3, <2>4, <2>5 DEF FileInv
<1>3. ASSUME NEW disabled \in BOOLEAN, DisablePlaylist(disabled) PROVE FileInv'
  <2> DEFINE n == nsfe_count(disabled, nsfe_playlist, actual_track_count)
  <2>1. /\ Nsfe /\ playlist_disabled' = disabled
        /\ track_count' = n /\ raw_track_count' = n
        /\ UNCHANGED <<playlist, nsfe_playlist, actual_track_count,
                       current_track, songs, counted, song>>
    BY <1>3 DEF DisablePlaylist, set_track_count
  <2>2. n \in Nat
    <3>1. actual_track_count \in Nat /\ nsfe_playlist \in Seq(Nat)
      BY <1>0 DEF TypeOK
    <3> QED
      BY <3>1, NsfeCount
  <2>3. songs > 0 => SongCount = actual_track_count /\ SongCount' = SongCount
    BY <1>0, <2>1 DEF SongCount, LayersInv
  <2> HIDE DEF n
  <2>4. TypeOK'
    <3>1. playlist_disabled' \in BOOLEAN
      BY <2>1
    <3>2. track_count' \in Nat /\ raw_track_count' \in Nat
      BY <2>1, <2>2
    <3> QED
      BY <1>0, <2>1, <3>1, <3>2 DEF TypeOK
  <2>5. LayersInv' /\ SongExists'
    BY <1>0, <2>1, <2>2 DEF LayersInv, SongExists
  <2>6. CountIsCurrent'
    BY <2>1, <2>3 DEF CountIsCurrent, n
  <2> QED
    BY <2>4, <2>5, <2>6 DEF FileInv
<1> QED
  BY <1>1, <1>2, <1>3

\* A track that is started, by the client or by seek(), is a song.
LEMMA StartKeeps ==
    ASSUME FileInv, NEW track, StartTrack(track) \/ SeekBack
    PROVE  FileInv'
<1>0. TypeOK /\ LayersInv /\ CountIsCurrent
  BY DEF FileInv
<1>1. UNCHANGED <<type, countVars, playlist, nsfeVars, songs, counted>>
  BY DEF StartTrack, SeekBack
<1>2. /\ current_track' \in Nat \cup {-1}
      /\ song' \in Nat \cup {NoSong}
      /\ songs > 0 /\ song' # NoSong =>
           song' < songs \/ (~counted /\ song' < actual_track_count)
  <2>1. ASSUME NEW t, start_track(t) PROVE <1>2!:
    BY <1>0, <2>1, AcceptedTrack, AcceptedSong DEF start_track
  <2> QED
    BY <2>1 DEF StartTrack, SeekBack
<1>3. TypeOK' /\ LayersInv'
  BY <1>0, <1>1, <1>2 DEF TypeOK, LayersInv, lineOK
<1>4. CountIsCurrent'
  BY <1>0, <1>1 DEF CountIsCurrent, SongCount
<1>5. SongExists'
  BY <1>0, <1>1, <1>2 DEF TypeOK, SongExists, NoSong
<1> QED
  BY <1>3, <1>4, <1>5 DEF FileInv

\* With good inputs the layers of playlists agree, whatever is loaded,
\* cleared and switched in whatever order.
THEOREM LayersAgree ==
    ASSUME GoodInputs
    PROVE  Spec => []FileInv
<1>1. FileInv /\ [Next]_vars => FileInv'
  <2> SUFFICES ASSUME FileInv, [Next]_vars PROVE FileInv'
    OBVIOUS
  <2>1. CASE \E f \in Files : Load(f)
    BY <2>1, LoadKeeps
  <2>2. CASE OpenFails
    BY <2>2, UnloadedKeeps DEF OpenFails, FileInv, TypeOK
  <2>3. CASE \E n \in TrackCounts : LoadTracks(n)
    BY <2>3, LoadTracksKeeps
  <2>4. CASE \/ \E list \in Playlists : LoadM3u(list)
             \/ ClearPlaylist
             \/ \E disabled \in BOOLEAN : DisablePlaylist(disabled)
    BY <2>4, PlaylistKeeps
  <2>5. CASE SeekBack \/ \E track \in -1..track_count : StartTrack(track)
    BY <2>5, StartKeeps
  <2>6. CASE UNCHANGED vars
    <3>1. CountIsCurrent'
      BY <2>6 DEF vars, FileInv, CountIsCurrent, SongCount
    <3> QED
      BY <2>6, <3>1 DEF vars, FileInv, TypeOK, LayersInv, SongExists, lineOK
  <2> QED
    BY <2>1, <2>2, <2>3, <2>4, <2>5, <2>6 DEF Next
<1> QED
  BY <1>1, FileInit, PTL DEF Spec

\* What a client can start is a song of the file, or, if the file does not
\* count its songs, below the count that is left over.
THEOREM EveryTrackIsASong ==
    ASSUME GoodInputs
    PROVE  Spec => []SongExists
<1>1. FileInv => SongExists
  BY DEF FileInv
<1> QED
  BY <1>1, LayersAgree, PTL

\* An m3u playlist that is loaded is what the client counts, if no NSFE
\* playlist is switched under it and every m3u file can be parsed: the check
\* in remap_track_() then holds.
CoversInv == type \in Types /\ PlaylistCovers

THEOREM PlaylistIsCounted ==
    ASSUME \A t \in Types : <<>> \notin t.playlists
    PROVE  Spec => []PlaylistCovers
<1>1. Init => CoversInv
  BY DEF Init, CoversInv, PlaylistCovers
<1>2. CoversInv /\ [Next]_vars => CoversInv'
  <2> SUFFICES ASSUME CoversInv, [Next]_vars PROVE CoversInv'
    OBVIOUS
  <2> USE DEF CoversInv
  <2>0. type' \in Types /\ type' = type
    BY DEF Next, Load, OpenFails, LoadTracks, LoadM3u, ClearPlaylist,
           DisablePlaylist, StartTrack, SeekBack, vars
  <2>1. ASSUME NEW f \in Files, Load(f) PROVE CoversInv'
    BY <2>0, <2>1 DEF Load, loaded, unloaded, PlaylistCovers
  <2>2. CASE OpenFails
    BY <2>0, <2>2 DEF OpenFails, unloaded, PlaylistCovers
  <2>3. ASSUME NEW n \in TrackCounts, LoadTracks(n) PROVE CoversInv'
    BY <2>0, <2>3 DEF LoadTracks, unloaded, PlaylistCovers
  <2>4. ASSUME NEW list \in Playlists, LoadM3u(list) PROVE CoversInv'
    <3>1. playlist' = list /\ track_count' = Len(list) /\ list \in Seq(Entries)
      BY <2>4, FileInputs DEF LoadM3u
    <3> QED
      BY <2>0, <3>1 DEF PlaylistCovers
  <2>5. CASE ClearPlaylist
    BY <2>0, <2>5 DEF ClearPlaylist, clear_playlist, PlaylistCovers
  <2>6. CASE \/ SeekBack \/ UNCHANGED vars
             \/ \E track \in -1..track_count : StartTrack(track)
    BY <2>0, <2>6 DEF SeekBack, StartTrack, vars, PlaylistCovers
  <2>7. CASE \E disabled \in BOOLEAN : DisablePlaylist(disabled)
    BY <2>0, <2>7 DEF DisablePlaylist, PlaylistCovers
  <2> QED
    BY <2>1, <2>2, <2>3, <2>4, <2>5, <2>6, <2>7 DEF Next
<1>3. CoversInv => PlaylistCovers
  BY DEF CoversInv
<1> QED
  BY <1>1, <1>2, <1>3, PTL DEF Spec

\* Without a file there are no tracks, if the type keeps no counts of its own
\* and load_tracks() has memory: neither count outlives what it counted.
NoCounts ==
    /\ type \in Types
    /\ ~LosesCount /\ songs = 0 => track_count = 0 /\ raw_track_count = 0

THEOREM NoFileNoTracks == Spec => []NothingLoaded
<1>1. Init => NoCounts
  BY DEF Init, NoCounts
<1>2. NoCounts /\ [Next]_vars => NoCounts'
  <2> SUFFICES ASSUME NoCounts, [Next]_vars PROVE NoCounts'
    OBVIOUS
  <2> USE DEF NoCounts, LosesCount
  <2>0. type' \in Types /\ type' = type
    BY DEF Next, Load, OpenFails, LoadTracks, LoadM3u, ClearPlaylist,
           DisablePlaylist, StartTrack, SeekBack, vars
  <2>1. ASSUME NEW f \in Files, Load(f) PROVE NoCounts'
    BY <2>0, <2>1, FileInputs DEF Load, loaded, unloaded, set_track_count
  <2>2. ASSUME NEW n \in TrackCounts, LoadTracks(n) PROVE NoCounts'
    <3>1. CASE unloaded
      BY <2>0, <3>1 DEF unloaded, set_track_count
    <3>2. CASE ~unloaded
      <4>1. FixedCount = 1 /\ (songs' = n \/ MayFail)
        BY <2>2, <3>2 DEF LoadTracks
      <4>2. n # 0
        BY FileInputs
      <4> QED
        BY <2>0, <4>1, <4>2
    <3> QED
      BY <3>1, <3>2
  <2>3. ASSUME NEW list \in Playlists, LoadM3u(list) PROVE NoCounts'
    BY <2>0, <2>3 DEF LoadM3u
  <2>4. CASE ClearPlaylist
    BY <2>0, <2>4 DEF ClearPlaylist, clear_playlist, set_track_count
  <2>5. CASE \/ SeekBack \/ UNCHANGED vars
             \/ \E track \in -1..track_count : StartTrack(track)
    BY <2>0, <2>5 DEF SeekBack, StartTrack, vars
  <2>6. CASE OpenFails
    BY <2>0, <2>6 DEF OpenFails, unloaded, set_track_count
  <2>7. CASE \E disabled \in BOOLEAN : DisablePlaylist(disabled)
    BY <2>0, <2>7 DEF DisablePlaylist
  <2> QED
    BY <2>1, <2>2, <2>3, <2>4, <2>5, <2>6, <2>7 DEF Next
<1>3. NoCounts => NothingLoaded
  BY DEF NoCounts, NothingLoaded
<1> QED
  BY <1>1, <1>2, <1>3, PTL DEF Spec
=============================================================================
