----------------------------- MODULE MCSettings -----------------------------
(* Three managers over three sections.  The player also listens to Output,   *)
(* as in player.cpp; a negative time is a number its spin box cannot show.   *)
(* Of the lists, bad is no regular expression, a directory in it holds a     *)
(* plugin with a provider of a foreign type and one in shut cannot be read;  *)
(* mixed is lib followed by what is no string.  One plugin is too old.       *)
EXTENDS Settings, TLC

CONSTANTS plug, out, play, pluginSec, outputSec, playerSec,
          paths, blacklist, device, bufferTime, preload,
          lib, more, bad, shut, mixed, zero, second, negative, default,
          flac, wavpack, old, foreign

MCSecs == {pluginSec, outputSec, playerSec}
MCSecOf == (paths :> pluginSec) @@ (blacklist :> pluginSec) @@ (device :> outputSec)
             @@ (bufferTime :> outputSec) @@ (preload :> playerSec)
MCNodes == DOMAIN MCSecOf
MCMgrs == <<plug, out, play>>
MCOwn == (plug :> pluginSec) @@ (out :> outputSec) @@ (play :> playerSec)
MCAlso == (plug :> NoSec) @@ (out :> NoSec) @@ (play :> outputSec)
MCKeys == (plug :> {paths, blacklist}) @@ (out :> {device}) @@ (play :> {bufferTime, preload})
Lists == {lib, more, bad, shut, mixed, Nothing}
Numbers == {zero, second, negative}
MCVals == Lists \cup Numbers \cup {default}
MCWidgets == {Lists, Numbers, {default}}
MCFits == (paths :> Lists) @@ (blacklist :> Lists) @@ (device :> {default})
            @@ (bufferTime :> Numbers) @@ (preload :> Numbers)
MCDefault == (paths :> lib) @@ (blacklist :> None) @@ (device :> default)
               @@ (bufferTime :> second) @@ (preload :> second)
MCStrings == [v \in MCVals |-> IF v \in Lists \ {mixed} THEN v
                                ELSE IF v = mixed THEN lib ELSE Nothing]
MCShown == [v \in MCVals |-> IF v = mixed THEN more ELSE IF v = negative THEN zero ELSE v]
MCFlagged == {paths, blacklist}
MCFound ==
    [v \in MCVals |-> IF v = lib THEN {flac, old}
                      ELSE IF v \in {more, shut} THEN {flac, wavpack, old}
                      ELSE IF v = bad THEN {flac, foreign} ELSE {}]
MCBars == [v \in MCVals |-> IF v = more THEN {flac} ELSE {}]
MCInfo ==
    [p \in {flac, wavpack, old, foreign} |->
        [current |-> p # old, decoder |-> TRUE, typed |-> p # foreign]]
MCMalformed == {bad}
MCUnreadable == {shut}
File(p, b, t) ==
    [secs |-> MCSecs, nodes |-> (paths :> p) @@ (blacklist :> b) @@ (device :> default)
                              @@ (bufferTime :> t) @@ (preload :> second)]
MCFiles == {File(mixed, None, lib), File(zero, more, negative), File(lib, zero, second)}
=============================================================================
