------------------------------ MODULE MCGmeFile ------------------------------
(***************************************************************************)
(* GmeFile on a small instance: three types, their files and playlists.    *)
(***************************************************************************)
EXTENDS GmeFile

File(n, list, info, isCorrupt) ==
    [songs |-> n, playlist |-> list, count |-> info, corrupt |-> isCorrupt]

Corrupt(n, list, info) == File(n, list, info, TRUE)
Good(n, list, info)    == File(n, list, info, FALSE)
Plain(n)               == Good(n, <<>>, n)

\* NSFE files without and with a playlist, that one longer or shorter than
\* the songs, or as long as, or longer than, a byte can count; without an
\* INFO block, without music data, and corrupt ones.
Long(n) == [i \in 1..n |-> i % 2]

MCNsfeFiles == {Plain(2), Good(2, <<1, 0, 1>>, 2), Good(3, <<2>>, 3),
                Good(2, Long(256), 2), Good(2, Long(257), 2),
                Good(1, <<>>, NoInfo), Good(1, <<0, 0>>, NoInfo),
                Good(0, <<>>, 3),
                Corrupt(3, <<0>>, 3), Corrupt(1, <<>>, NoInfo)}

\* Files of a type that has a fixed count of songs: 256, small here, or 1.
MCFixedFiles == {Plain(4), Corrupt(4, <<>>, 4)}
MCTrackFiles == {Plain(1), Corrupt(1, <<>>, 1)}

Line(n, isDecimal) == [track |-> n, decimal |-> isDecimal]

\* Tracks in decimal, in hexadecimal, not given, and not in the file.
MCPlaylists == {<<Line(1, TRUE)>>, <<Line(2, TRUE), Line(1, FALSE)>>,
                <<Line(0, FALSE), Line(-1, FALSE), Line(3, TRUE), Line(4, FALSE)>>}

\* ... and, for a type whose tracks all start at 0, track 0 in decimal.
MCZeroPlaylists ==
    MCPlaylists \cup {<<Line(0, TRUE), Line(3, TRUE), Line(4, TRUE)>>,
                      <<Line(3, TRUE), Line(0, TRUE), Line(2, TRUE),
                        Line(1, TRUE), Line(5, TRUE), Line(2, FALSE)>>}

MCType(isNsfe, n, isZeroBased, files, playlists) ==
    [nsfe |-> isNsfe, count |-> n, zero_based |-> isZeroBased,
     files |-> files, playlists |-> playlists]

MCTypes == {MCType(TRUE, 0, FALSE, MCNsfeFiles, MCPlaylists),
            MCType(FALSE, 4, TRUE, MCFixedFiles, MCZeroPlaylists),
            MCType(FALSE, 1, FALSE, MCTrackFiles, MCPlaylists)}

\* Playlists that are not what they should be: a track 0 in decimal, and one
\* that cannot be parsed after one that can.  SongExists fails.
MCOneFile   == {Plain(2)}
MCZeroTypes == {MCType(FALSE, 0, FALSE, MCOneFile, {<<Line(0, TRUE)>>})}
MCStaleTypes == {MCType(FALSE, 0, FALSE, MCOneFile,
                   {<<Line(1, TRUE), Line(2, TRUE), Line(1, TRUE)>>, <<>>})}
=============================================================================
