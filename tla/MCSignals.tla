------------------------------ MODULE MCSignals ------------------------------
(* An instance of Signals for TLC: Config's loaded signal, whose slot in     *)
(* Output::Manager emits playerSinkChanged, and the slots of both that hold  *)
(* weak pointers.                                                            *)
EXTENDS Signals, TLC

CONSTANTS loaded, sinkChanged, output, plugins, player, observer

MCSigs == {loaded, sinkChanged}
MCConns == {output, plugins, player, observer}
MCSigOf == (output :> loaded) @@ (plugins :> loaded)
             @@ (player :> sinkChanged) @@ (observer :> sinkChanged)
MCEmits == [c \in MCConns |-> IF c = output THEN sinkChanged ELSE NoSig]
MCBound == {plugins, player}
=============================================================================
