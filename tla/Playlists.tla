------------------------------ MODULE Playlists ------------------------------
(***************************************************************************)
(* The playlists and who follows them: Playlist::Manager                   *)
(* (melin/playlist.cpp), the list model of the GUI                         *)
(* (gui/playlistmanagermodel.cpp), the player and the player controls.     *)
(* The GUI thread changes the manager, which signals with its lock         *)
(* released; the signal thread brings the news to the others, and the      *)
(* model's slot sets the current playlist again while it holds the model's *)
(* mutex.                                                                  *)
(***************************************************************************)
EXTENDS Naturals, Sequences, SequencesExt

CONSTANTS
    Lists,      \* playlists ever made
    Default,    \* the one the model inserts when it is constructed
    None,
    MaxOps      \* bound on what the user does

ASSUME PlaylistsAssumption == Default \in Lists /\ None \notin Lists /\ MaxOps \in Nat

VARIABLES
    lists,      \* playlists of the manager, in order
    current,    \* its current one
    models,     \* playlists the GUI's model knows
    mCurrent,   \* whose PlaylistModel is current
    mu,         \* who holds the model's mutex: None or "signals"
    on, place,  \* what the player plays: playlist and track
    control,    \* currentPlaylist of PlayerControls
    gui,        \* what the GUI thread is doing
    queue,      \* calls on the signal thread
    frames,     \* calls of currentPlaylistChanged it is inside
    used, ops,  \* playlists made so far, operations begun
    halt,       \* an assert failed
    crossed     \* history: one change was made before another was heard of

vars == <<lists, current, models, mCurrent, mu, on, place, control, gui, queue, frames, used,
          ops, halt, crossed>>
followers == <<models, mu, on, place, control, frames>>
-----------------------------------------------------------------------------
InList(p) == \E i \in DOMAIN lists : lists[i] = p
Idle == [at |-> "idle", list |-> None, then |-> "idle"]
\* A call of the manager's insert, erase or setCurrent that the GUI thread has
\* begun; the manager's lock is given up while it signals.
Busy(at, p, then) == [at |-> at, list |-> p, then |-> then]
At(a) == gui.at = a /\ ~halt

Call(s, p) == [sig |-> s, list |-> p]
Frame(p) == [list |-> p, slot |-> "player"]
Pending == frames # <<>> \/ \E i \in DOMAIN queue : queue[i].sig = "current"

\* A call made by a slot runs at once and keeps the signal's mutex.
SignalHeld == Len(frames) > 1

Top == frames[Len(frames)]
TopAt(s) == frames # <<>> /\ Top.slot = s /\ ~halt
SetTop(f) == [frames EXCEPT ![Len(frames)] = f]

\* The model's slot has nobody to wait for but itself.
Stuck == TopAt("model") /\ mu # None
-----------------------------------------------------------------------------
\* The model's constructor has inserted "Default".
Init ==
    /\ lists = <<Default>> /\ current = Default /\ used = {Default}
    /\ models = {} /\ mCurrent = None /\ mu = None
    /\ on = None /\ place = 0 /\ control = Default
    /\ gui = Idle
    /\ queue = <<Call("added", Default), Call("current", Default)>> /\ frames = <<>>
    /\ ops = 0 /\ halt = FALSE /\ crossed = FALSE

Begins == At("idle") /\ ops < MaxOps /\ ops' = ops + 1

\* insertRows(row, 1): the playlist is there before anybody is told.
InsertList ==
    /\ Begins
    /\ \E p \in Lists \ used, row \in 1..(Len(lists) + 1) :
          /\ lists' = InsertAt(lists, row, p)
          /\ used' = used \cup {p}
          /\ gui' = Busy("added", p, "read")
    /\ UNCHANGED <<current, mCurrent, followers, queue, halt, crossed>>

EmitAdded ==
    /\ At("added")
    /\ queue' = Append(queue, Call("added", gui.list))
    /\ gui' = [gui EXCEPT !.at = "first"]
    /\ UNCHANGED <<lists, current, mCurrent, followers, used, ops, halt, crossed>>

\* The only playlist becomes the current one.
First ==
    /\ At("first")
    /\ IF Len(lists) = 1 THEN gui' = [gui EXCEPT !.at = "set"]
                         ELSE gui' = [gui EXCEPT !.at = gui.then]
    /\ UNCHANGED <<lists, current, mCurrent, followers, queue, used, ops, halt, crossed>>

\* setCurrent of the playlist that is current does nothing.
SetCurrent ==
    /\ At("set")
    /\ current' = gui.list
    /\ gui' = [gui EXCEPT !.at = IF current = gui.list THEN gui.then ELSE "emit"]
    /\ crossed' = (crossed \/ (current # gui.list /\ Pending))
    /\ UNCHANGED <<lists, mCurrent, followers, queue, used, ops, halt>>

EmitCurrent ==
    /\ At("emit") /\ ~SignalHeld
    /\ queue' = Append(queue, Call("current", gui.list))
    /\ gui' = [gui EXCEPT !.at = gui.then]
    /\ UNCHANGED <<lists, current, mCurrent, followers, used, ops, halt, crossed>>

\* removeRows(row, 1): what is current stays so.
RemoveList ==
    /\ Begins
    /\ \E row \in DOMAIN lists :
          /\ lists' = RemoveAt(lists, row)
          /\ gui' = Busy("removed", lists[row], "idle")
    /\ UNCHANGED <<current, mCurrent, followers, queue, used, halt, crossed>>

EmitRemoved ==
    /\ At("removed")
    /\ queue' = Append(queue, Call("removed", gui.list))
    /\ gui' = Idle
    /\ UNCHANGED <<lists, current, mCurrent, followers, used, ops, halt, crossed>>

\* The user chooses a playlist's tab, or a track in it: setCurrentPlaylistModel,
\* without the model's mutex, and then, for a track, jumpTo and play.
Choose(then) ==
    /\ Begins
    /\ \E p \in models :
          /\ InList(p)
          /\ mCurrent' = p
          /\ gui' = IF mCurrent = p THEN Busy(then, p, then) ELSE Busy("set", p, then)
    /\ UNCHANGED <<lists, current, followers, queue, used, halt, crossed>>

ChooseList == Choose("idle")
ChooseTrack == Choose("jump")

Jump ==
    /\ At("jump")
    /\ place' = IF on = None THEN 0 ELSE 1
    /\ gui' = Idle
    /\ UNCHANGED <<lists, current, models, mCurrent, mu, on, control, queue, frames, used, ops,
                   halt, crossed>>

\* A view asks for the rows' data.
Repaint ==
    /\ At("idle") /\ lists # <<>>
    /\ gui' = Busy("read", None, "idle")
    /\ UNCHANGED <<lists, current, mCurrent, followers, queue, used, ops, halt, crossed>>

\* data() asserts that the model knows as many playlists as there are.
Read ==
    /\ At("read") /\ mu = None
    /\ halt' = (Len(lists) # Cardinality(models))
    /\ gui' = Idle
    /\ UNCHANGED <<lists, current, mCurrent, followers, queue, used, ops, crossed>>
-----------------------------------------------------------------------------
Idles == frames = <<>> /\ ~halt
Takes(s) == Idles /\ queue # <<>> /\ Head(queue).sig = s

HearAdded ==
    /\ Takes("added") /\ mu = None
    /\ models' = models \cup {Head(queue).list}
    /\ queue' = Tail(queue)
    /\ UNCHANGED <<lists, current, mCurrent, mu, on, place, control, gui, frames, used, ops,
                   halt, crossed>>

HearRemoved ==
    /\ Takes("removed") /\ mu = None
    /\ models' = models \ {Head(queue).list}
    /\ queue' = Tail(queue)
    /\ UNCHANGED <<lists, current, mCurrent, mu, on, place, control, gui, frames, used, ops,
                   halt, crossed>>

HearCurrent ==
    /\ Takes("current")
    /\ frames' = <<Frame(Head(queue).list)>>
    /\ queue' = Tail(queue)
    /\ UNCHANGED <<lists, current, models, mCurrent, mu, on, place, control, gui, used, ops,
                   halt, crossed>>

\* The player takes the playlist and jumps to its start.
PlayerSlot ==
    /\ TopAt("player")
    /\ on' = Top.list
    /\ place' = 0
    /\ frames' = SetTop([Top EXCEPT !.slot = "model"])
    /\ UNCHANGED <<lists, current, models, mCurrent, mu, control, gui, queue, used, ops, halt,
                   crossed>>

\* A faulty ModelSlot: the playlist is set again without a comparison.
ModelSlot_sets_again ==
    /\ TopAt("model") /\ mu = None
    /\ mCurrent' = IF Top.list \in models THEN Top.list ELSE mCurrent
    /\ current' = IF Top.list \in models THEN Top.list ELSE current
    /\ IF Top.list \in models
       THEN mu' = "signals" /\ frames' = Append(frames, Frame(Top.list))
       ELSE UNCHANGED mu /\ frames' = SetTop([Top EXCEPT !.slot = "controls"])
    /\ UNCHANGED <<lists, models, on, place, control, gui, queue, used, ops, halt, crossed>>

\* The slot makes the model of a known playlist current; if the manager's
\* current playlist is another by now, that is set back, and the signal it
\* emits runs at once with the mutex held.
ModelSlot ==
    /\ TopAt("model") /\ mu = None
    /\ LET p == Top.list
           known == p \in models /\ mCurrent # p
       IN  /\ mCurrent' = IF known THEN p ELSE mCurrent
           /\ current' = IF known THEN p ELSE current
           /\ IF known /\ current # p
              THEN mu' = "signals" /\ frames' = Append(frames, Frame(p))
              ELSE UNCHANGED mu /\ frames' = SetTop([Top EXCEPT !.slot = "controls"])
    /\ UNCHANGED <<lists, models, on, place, control, gui, queue, used, ops, halt, crossed>>

\* A faulty ControlsSlot: the controls keep the first playlist they had.
ControlsSlot_once ==
    /\ TopAt("controls")
    /\ frames' = <<>>
    /\ UNCHANGED <<lists, current, models, mCurrent, mu, on, place, control, gui, queue, used,
                   ops, halt, crossed>>

ControlsSlot ==
    /\ TopAt("controls")
    /\ control' = Top.list
    /\ frames' = <<>>
    /\ UNCHANGED <<lists, current, models, mCurrent, mu, on, place, gui, queue, used, ops, halt,
                   crossed>>
-----------------------------------------------------------------------------
User == InsertList \/ RemoveList \/ ChooseList \/ ChooseTrack \/ Repaint

Gui == EmitAdded \/ First \/ SetCurrent \/ EmitCurrent \/ EmitRemoved \/ Jump \/ Read

SignalThread ==
    HearAdded \/ HearRemoved \/ HearCurrent \/ PlayerSlot \/ ModelSlot \/ ControlsSlot

Next == User \/ Gui \/ SignalThread

Spec == Init /\ [][Next]_vars /\ WF_vars(Gui) /\ WF_vars(SignalThread)
-----------------------------------------------------------------------------
Quiet == gui.at \in {"idle", "read"} /\ queue = <<>> /\ frames = <<>> /\ ~halt

\* At rest the model knows just the playlists there are, each of them once, so
\* that data() finds it (playlistmanagermodel.cpp:87, 103); and everybody follows
\* the manager's current one, unless two changes crossed: player, controls and
\* the model's current PlaylistModel.
AllFollow ==
    Quiet =>
        /\ IsInjective(lists) /\ models = ToSet(lists)
        /\ ~crossed => on = current /\ control = current /\ mCurrent = current

\* The signal thread waits for itself only after two changes crossed
\* (playlistmanagermodel.cpp:68-71, signal_core.hpp:104).
StuckOnlyIfCrossed == Stuck => crossed

\* Whoever is at work comes to rest, or changes crossed, or an assert failed.
ComesToRest == []<>(Quiet \/ crossed \/ halt)
=============================================================================
