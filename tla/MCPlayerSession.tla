--------------------------- MODULE MCPlayerSession ---------------------------
(* Instances of PlayerSession for TLC.                                     *)
EXTENDS PlayerSession, TLC

CONSTANTS ta, tb, tc, p1, p2, p3

CD == [rate |-> 44, bps |-> 16]
Studio == [rate |-> 96, bps |-> 16]

MCTracks == {ta, tb, tc}
MCPlaylists == {p1, p2, p3}

\* A long track, one shorter than a buffer, and one with another rate; p3 is empty.
TwoOrders == (p1 :> <<ta, tb, tc>>) @@ (p2 :> <<tc, ta, tb>>) @@ (p3 :> <<>>)
MCFull == (ta :> 2) @@ (tb :> 0) @@ (tc :> 1)
AllRest == [t \in MCTracks |-> TRUE]
AllFlac == [t \in MCTracks |-> "flac"]
MCSpecs == {CD, Studio}
MCSpecsOf == (ta :> CD) @@ (tb :> CD) @@ (tc :> Studio)
AsAsked == [s \in MCSpecs |-> s]

\* What the theorems about sessions assume.
ASSUME MCServed == WellServed /\ NoneDropped
=============================================================================
