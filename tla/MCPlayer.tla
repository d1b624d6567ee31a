------------------------------- MODULE MCPlayer -------------------------------
(* Instances of Player for TLC.                                            *)
EXTENDS Player, TLC

CONSTANTS ta, tb, tc, p1, p2

CD == [rate |-> 44, bps |-> 16]
Studio == [rate |-> 96, bps |-> 24]

MCTracks == {ta, tb, tc}
MCPlaylists == {p1, p2}

\* p1 is played through; p2 is what the user switches to.
TwoLists == (p1 :> <<ta, tb>>) @@ (p2 :> <<tc>>)
MCFull == (ta :> 1) @@ (tb :> 0) @@ (tc :> 1)
AllRest == [t \in MCTracks |-> TRUE]
\* The second track of p1 is a WavPack file.
TwoCodecs == (ta :> "flac") @@ (tb :> "wavpack") @@ (tc :> "flac")
MCSpecs == {CD, Studio}
MCSpecsOf == (ta :> CD) @@ (tb :> Studio) @@ (tc :> CD)
\* The device plays CD audio only.
OnlyCD == [s \in MCSpecs |-> CD]
=============================================================================
