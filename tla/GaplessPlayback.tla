---------------------------- MODULE GaplessPlayback ----------------------------
(***************************************************************************)
(* What the player promises a listener who presses play and waits: the     *)
(* buffers of the playlist's tracks reach the device in order, each once,  *)
(* none left out between tracks, and then playback stops.                  *)
(***************************************************************************)
EXTENDS Naturals, Sequences

CONSTANTS
    Playlists,
    NoPlaylist,
    Program     \* the buffers of a playlist, in order

VARIABLES
    list,       \* the playlist that is or will be played
    heard,      \* the buffers the device has taken since playback began
    playing

vars == <<list, heard, playing>>

Init == list = NoPlaylist /\ heard = <<>> /\ playing = FALSE

Choose == ~playing /\ list' \in Playlists /\ UNCHANGED <<heard, playing>>

Start == ~playing /\ list # NoPlaylist /\ playing' = TRUE /\ heard' = <<>> /\ UNCHANGED list

Emit ==
    /\ playing /\ Len(heard) < Len(Program[list])
    /\ heard' = Append(heard, Program[list][Len(heard) + 1])
    /\ UNCHANGED <<list, playing>>

Finish == playing /\ heard = Program[list] /\ playing' = FALSE /\ UNCHANGED <<list, heard>>

Next == Choose \/ Start \/ Emit \/ Finish

Spec == Init /\ [][Next]_vars

\* Playback ends: with Finish, after the last buffer.
Ends == playing ~> ~playing
=============================================================================
