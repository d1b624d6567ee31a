------------------------------ MODULE MCLibrary ------------------------------
(* Two directories, the name of one a prefix of the other's, a link to the   *)
(* first, and a name of nothing: music, music2, link -> music and nowhere.   *)
EXTENDS Library, TLC

CONSTANTS music, music2, link, nowhere, musicA, music2B, linkA, fileA, fileB

MCDirectories == {music, music2, link}
MCDirs == MCDirectories \cup {nowhere}
MCCanon == (music :> music) @@ (music2 :> music2) @@ (link :> music) @@ (nowhere :> nowhere)
MCUris == {musicA, music2B, linkA}
MCFileOf == (musicA :> fileA) @@ (music2B :> fileB) @@ (linkA :> fileA)
MCIn == (music :> {musicA}) @@ (music2 :> {music2B}) @@ (link :> {linkA}) @@ (nowhere :> {})
MCBegins ==
    (music :> {musicA, music2B}) @@ (music2 :> {music2B}) @@ (link :> {linkA}) @@ (nowhere :> {})
MCSettings == {{music, music2}, {music2, nowhere}, {link}}
=============================================================================
