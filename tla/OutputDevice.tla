----------------------------- MODULE OutputDevice -----------------------------
(***************************************************************************)
(* What the player expects of an output device, whatever plugin it comes   *)
(* from (asio/audio_impl.hpp, Output::DeviceState): the device plays only  *)
(* after it has been set up, or when it was paused, and it can be set up   *)
(* again after any failure or stop.  Player's own device (DevPrepare,      *)
(* DevPlay, DevPause, DevStop, CreateDevice) is made of these steps.       *)
(***************************************************************************)
VARIABLES st, ready

DeviceStates == {"Error", "Ready", "Playing", "Paused", "Stopped", "Initial"}

Init == st \in DeviceStates /\ ready = FALSE

Prepares == st' = "Ready" /\ ready' = TRUE
PrepareFails == st' = "Error" /\ ready' \in {ready, FALSE}
Plays == st \in {"Ready", "Paused"} /\ ready /\ st' = "Playing" /\ UNCHANGED ready
Pauses == st = "Playing" /\ ready /\ st' = "Paused" /\ UNCHANGED ready
Stops == st' = "Stopped" /\ ready' = FALSE
\* Another device takes its place; nothing says what state it believes in.
Replaced == st' \in DeviceStates /\ ready' = FALSE

Next == Prepares \/ PrepareFails \/ Plays \/ Pauses \/ Stops \/ Replaced

Spec == Init /\ [][Next]_<<st, ready>>
=============================================================================
