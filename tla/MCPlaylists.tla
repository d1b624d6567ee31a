----------------------------- MODULE MCPlaylists -----------------------------
(* Three playlists, the first of them the one the model starts with.         *)
EXTENDS Playlists

CONSTANTS first, second, third
MCLists == {first, second, third}
=============================================================================
