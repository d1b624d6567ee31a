------------------------------ MODULE MCDecoding ------------------------------
(* Tracks of five samples in blocks of two: whole, cut short, or with a       *)
(* corrupt block, of one channel or two, asked for by two, three or four.    *)
EXTENDS Decoding

MCFiles == [kind : {"flac", "wavpack", "other", "cue"}, channels : {1, 2}, block : {2},
            total : {5}, data : {0, 3, 5}, bad : {-1, 2}, ask : {2, 3, 4}]
=============================================================================
