-------------------------------- MODULE Player --------------------------------
(***************************************************************************)
(* The player of melosic (core/player.cpp): the state machine Stopped,     *)
(* Playing, Paused, Error; the playlist iterator with its current and      *)
(* pre-loaded PCM sources; the chain of asynchronous writes that feeds the *)
(* output device; and the threads that enter it.                           *)
(*                                                                         *)
(* Everything Player::impl protects with its mutex `mu' is one record, the *)
(* variable `player'.  A critical section is one action: it computes the   *)
(* next record with the operators below, which have the names of the       *)
(* functions they model and are composed in the order of the calls.  Each  *)
(* takes an outcome o, what the environment does in that section: which    *)
(* kind of call fails (o.fault) and what the uninitialised state of a new  *)
(* device happens to be (o.fresh).  A C++ exception on its way up is       *)
(* thrown = TRUE; a failed assert, a null dereference or a mutex locked    *)
(* twice by its thread ends the program and is named by `halt'.            *)
(***************************************************************************)
EXTENDS Naturals, Sequences

CONSTANTS
    Tracks,       \* tracks the playlists refer to
    NoTrack,      \* the track of a null PCMSource
    Playlists,    \* identities of playlists
    NoPlaylist,   \* nullopt
    TracksOf,     \* the tracks of a playlist, in order
    FullBuffers,  \* how many whole buffers (buffer_time) a track decodes to
    HasRest,      \* whether a shorter last buffer follows them
    Codec,        \* the decoder plugin that opens a track
    Specs,        \* audio specs of tracks and devices: [rate, bps]
    SpecsOf,      \* the specs a track decodes to
    Settled,      \* the specs prepare() settles on when asked for some
    Broken,       \* tracks Decoder::Manager::open returns nullptr for
    Failures,     \* kinds of calls that may fail
    Garbage,      \* what an uninitialised m_state may read as
    PreloadAt,    \* gapless preload time, in buffers
    Ops,          \* commands given to the player
    MaxOps        \* bound: how many commands are given

DeviceStates == {"Error", "Ready", "Playing", "Paused", "Stopped", "Initial"}

FailureKinds == {"create", "prepare", "play", "pause", "stop", "write",
                 "underrun", "decode"}

Commands == {"play", "pause", "stop", "next", "previous", "jumpTo", "seek",
             "playlist", "sink"}

\* AudioSpecs{}, the specs of a device nobody has prepared.
NoSpecs == [rate |-> 0, bps |-> 0]

ASSUME NullAssumption == NoTrack \notin Tracks /\ NoPlaylist \notin Playlists
ASSUME PlaylistAssumption == TracksOf \in [Playlists -> Seq(Tracks)]
ASSUME SpecsAssumption == /\ Specs \subseteq [rate : Nat, bps : Nat]
                          /\ NoSpecs \notin Specs
ASSUME TrackAssumption == /\ FullBuffers \in [Tracks -> Nat]
                          /\ HasRest \in [Tracks -> BOOLEAN]
                          /\ Codec \in [Tracks -> {"flac", "wavpack"}]
                          /\ SpecsOf \in [Tracks -> Specs]
                          /\ Broken \subseteq Tracks
ASSUME DeviceAssumption == /\ Settled \in [Specs -> Specs]
                           /\ Garbage \subseteq DeviceStates
                           /\ Failures \subseteq FailureKinds
ASSUME BoundAssumption == PreloadAt \in Nat /\ MaxOps \in Nat /\ Ops \subseteq Commands

VARIABLES
    player,    \* the members of Player::impl that mu protects, and the device
    call,      \* per thread: the write_handler call it is about to make
    sig,       \* the signal thread: inside currentPlaylistChangedSlot or not
    sinkSlot,  \* sinkChangeSlot is still connected
    commands   \* how many commands have been given

vars == <<player, call, sig, sinkSlot, commands>>

-----------------------------------------------------------------------------
(* Types *)

\* What a source has left: whole buffers from pos on, then a shorter one if rest.
Source == [track : Tracks \cup {NoTrack}, pos : Nat, rest : BOOLEAN]
NoSource == [track |-> NoTrack, pos |-> 0, rest |-> FALSE]

Iterator == [list : Playlists \cup {NoPlaylist}, at : Nat]
NoIterator == [list |-> NoPlaylist, at |-> 0]

Buffer == [track : Tracks, idx : Nat]
Completion == [buf : Buffer, ec : {"canceled", "failed"}]

\* st is m_state; fd says the ALSA handle is open with its descriptor assigned;
\* id tells a device from the one created before it.
Device == [st : DeviceStates \cup {"None"}, fd : BOOLEAN,
           specs : Specs \cup {NoSpecs}, id : {0, 1}]
NoDevice == [st |-> "None", fd |-> FALSE, specs |-> NoSpecs, id |-> 0]

Halts == {"none", "terminated", "relock", "no playlist", "iterator", "source",
          "handle", "device state", "preload", "buffered", "drained", "widen",
          "recursion"}

PlayerRecord ==
    [state : {"Stopped", "Playing", "Paused", "Error"},
     playlist : Playlists \cup {NoPlaylist},
     iter : Iterator,
     cur : Source,                \* m_current_source
     nxt : Source,                \* m_next_source
     dev : Device,                \* asioOutput
     in_buf : Seq(Buffer),
     posted : Seq(Buffer),        \* lambdas given to asio::post
     writing : Seq(Buffer),       \* async_writes waiting for the device
     done : Seq(Completion),      \* handlers queued with an error
     thrown : BOOLEAN,
     halt : Halts]

Threads == {"gui", "audio"}
Calls == {"none", "ok", "canceled", "failed", "dead"}

Outcomes == [fault : Failures \cup {"none"}, fresh : Garbage]

TypeOK ==
    /\ player \in PlayerRecord
    /\ call \in [Threads -> Calls]
    /\ sig \in {"idle", "assigned"}
    /\ sinkSlot \in BOOLEAN
    /\ commands \in 0..MaxOps

-----------------------------------------------------------------------------
(* Control flow: nothing runs after a throw or the end of the program *)

Ok(p) == ~p.thrown /\ p.halt = "none"
Throw(p) == [p EXCEPT !.thrown = TRUE]
Halt(p, why) == [p EXCEPT !.halt = why]
Then(p, F(_)) == IF Ok(p) THEN F(p) ELSE p
Catch(p, F(_)) == IF p.thrown /\ p.halt = "none" THEN F([p EXCEPT !.thrown = FALSE]) ELSE p

-----------------------------------------------------------------------------
(* Iterators and sources *)

Length(pl) == Len(TracksOf[pl])
Begin(pl) == [list |-> pl, at |-> 1]
End(pl) == [list |-> pl, at |-> Length(pl) + 1]

\* An iterator keeps to its own playlist: past the end it stays at the end.
Succ(it) == IF it = NoIterator \/ it = End(it.list) THEN it ELSE [it EXCEPT !.at = @ + 1]

\* Comparing or dereferencing needs a live iterator that is not at the end.
OnTrack(it) == it.list # NoPlaylist /\ it.at \in 1..Length(it.list)
TrackAt(it) == TracksOf[it.list][it.at]

\* Decoder::Manager::open: nullptr, not an exception, when it cannot decode.
Open(t) == IF t \in Broken THEN NoSource
           ELSE [track |-> t, pos |-> 0, rest |-> HasRest[t]]

Remaining(s) == FullBuffers[s.track] + (IF s.rest THEN 1 ELSE 0) - s.pos

\* Where seek(ms) can leave a source: what is left of the track then is any number
\* of whole buffers, with or without a shorter one.
Places(t) == {s \in [track : {t}, pos : 0..FullBuffers[t], rest : BOOLEAN] :
                 HasRest[t] \/ s.pos > 0 \/ ~s.rest}

\* Where reset() leaves it: WavPack's does nothing; FLAC's seeks to the start and
\* drops the first block, which seeking has decoded.
Rewound(s) == IF s = NoSource \/ Codec[s.track] = "wavpack" THEN {s}
              ELSE {r \in Places(s.track) : r.pos <= 1}

-----------------------------------------------------------------------------
(* The output device (AudioOutputBase over output_service_impl) *)

\* Cancelling queues every waiting handler with operation_aborted.
DevCancel(p) ==
    [p EXCEPT !.writing = <<>>,
              !.done = p.done \o [i \in 1..Len(p.writing) |->
                                    [buf |-> p.writing[i], ec |-> "canceled"]]]

\* Variant: the waiting writes are not cancelled.
DevStop_keeps_writes(p, o) == [p EXCEPT !.dev = [@ EXCEPT !.st = "Stopped", !.fd = FALSE]]

DevStop(p, o) ==
    IF p.dev.st \notin {"Stopped", "Error"} /\ p.dev.fd /\ o.fault = "stop"
    THEN Throw(DevCancel(p))
    ELSE [DevCancel(p) EXCEPT !.dev = [@ EXCEPT !.st = "Stopped", !.fd = FALSE]]

DevPrepare(p, as, o) ==
    IF o.fault = "prepare" \/ as = NoSpecs
    THEN Throw([p EXCEPT !.dev = [@ EXCEPT !.st = "Error", !.fd = FALSE, !.specs = as]])
    ELSE [p EXCEPT !.dev = [@ EXCEPT !.st = "Ready", !.fd = TRUE, !.specs = Settled[as]]]

DevPlay(p, o) ==
    CASE p.dev.st \in {"Stopped", "Error"} -> DevPrepare(p, p.dev.specs, o)
      [] p.dev.st \in {"Ready", "Paused"} ->
            IF ~p.dev.fd THEN Halt(p, "handle")
            ELSE IF o.fault = "play" THEN Throw(p)
            ELSE [p EXCEPT !.dev = [@ EXCEPT !.st = "Playing"]]
      [] OTHER -> p

DevPause(p, o) ==
    CASE p.dev.st = "Playing" ->
            IF ~p.dev.fd THEN Halt(p, "handle")
            ELSE IF o.fault = "pause" THEN Throw(p)
            ELSE [DevCancel(p) EXCEPT !.dev = [@ EXCEPT !.st = "Paused"]]
      [] p.dev.st = "Paused" -> DevPlay(p, o)
      [] OTHER -> p

\* The old device is stopped; the new one is unprepared and does not initialise
\* m_state.
DropDevice(p, o) == IF p.dev.st = "None" THEN p ELSE DevStop(p, o)

CreateDevice(p, o) ==
    IF o.fault = "create" THEN Throw(p)
    ELSE [p EXCEPT !.dev = [st |-> o.fresh, fd |-> FALSE, specs |-> NoSpecs,
                            id |-> 1 - p.dev.id]]

ChangeDevice(p, o) == Then(DropDevice(p, o), LAMBDA q : CreateDevice(q, o))

-----------------------------------------------------------------------------
(* Moving in the playlist *)

CloseSource(p) == [p EXCEPT !.cur = NoSource]

Unset(p) == [p EXCEPT !.cur = NoSource, !.nxt = NoSource, !.iter = NoIterator]

\* n counts from 0.  Jumping to 1 takes the pre-loaded source, whatever it is.
jumpTo_impl(p, n) ==
    IF p.playlist = NoPlaylist THEN Unset(p)
    ELSE LET to == IF n < Length(p.playlist)
                   THEN [list |-> p.playlist, at |-> n + 1] ELSE End(p.playlist)
         IN IF n = 1 THEN [p EXCEPT !.iter = to, !.cur = p.nxt, !.nxt = NoSource]
                     ELSE [p EXCEPT !.iter = to, !.cur = NoSource]

\* Variant: the playlist's end is not checked after advancing.
next_impl_unchecked(p) ==
    IF p.playlist = NoPlaylist THEN [p EXCEPT !.cur = NoSource, !.iter = NoIterator]
    ELSE IF p.iter = End(p.playlist) THEN CloseSource(p)
    ELSE LET q == [p EXCEPT !.iter = Succ(p.iter), !.cur = p.nxt, !.nxt = NoSource]
         IN IF p.nxt # NoSource THEN q
            ELSE IF OnTrack(q.iter) THEN [q EXCEPT !.cur = Open(TrackAt(q.iter))]
            ELSE Halt(q, "iterator")

next_impl(p) ==
    IF p.playlist = NoPlaylist THEN [p EXCEPT !.cur = NoSource, !.iter = NoIterator]
    ELSE IF p.iter = End(p.playlist) THEN CloseSource(p)
    ELSE IF p.iter = NoIterator THEN Halt(p, "iterator")
    ELSE LET q == [p EXCEPT !.iter = Succ(p.iter), !.cur = NoSource]
         IN CASE p.nxt # NoSource -> [q EXCEPT !.cur = p.nxt, !.nxt = NoSource]
              [] p.nxt = NoSource /\ q.iter = End(p.playlist) -> q
              [] p.nxt = NoSource /\ q.iter # End(p.playlist) ->
                    IF OnTrack(q.iter) THEN [q EXCEPT !.cur = Open(TrackAt(q.iter))]
                    ELSE Halt(q, "iterator")

\* Variant: the iterator steps back whatever it points to.
previous_impl_unclamped(p, rewound) ==
    IF p.iter = NoIterator THEN p
    ELSE [p EXCEPT !.nxt = NoSource, !.cur = NoSource, !.iter = [p.iter EXCEPT !.at = @ - 1]]

\* Variant: the pre-loaded source survives a step back.
previous_impl_keeps_next(p, rewound) ==
    IF p.iter = NoIterator \/ p.iter.at = 1 THEN CloseSource(p)
    ELSE [p EXCEPT !.cur = NoSource, !.iter = [p.iter EXCEPT !.at = @ - 1]]

\* On the first track the open source is reset, to rewound.
previous_impl(p, rewound) ==
    IF p.playlist = NoPlaylist THEN Unset(p)
    ELSE IF p.iter = Begin(p.playlist) THEN [p EXCEPT !.nxt = NoSource, !.cur = rewound]
    ELSE IF p.iter = NoIterator THEN Halt(p, "iterator")
    ELSE [p EXCEPT !.nxt = NoSource, !.cur = NoSource,
                   !.iter = IF p.iter.at = 1 THEN p.iter ELSE [p.iter EXCEPT !.at = @ - 1]]

-----------------------------------------------------------------------------
(* The states *)

ToError(p) == [p EXCEPT !.state = "Error"]
ToStopped(p) == [p EXCEPT !.state = "Stopped"]
ToPaused(p) == [p EXCEPT !.state = "Paused"]

\* The constructor of Playing asserts that the device plays.
ToPlaying(p) ==
    IF p.dev.st = "Playing" THEN [p EXCEPT !.state = "Playing"]
    ELSE Halt(p, "device state")

\* Stopped::play up to the open source: no source when there is nothing to play.
OpenTrack(p, o) ==
    IF p.iter = End(p.playlist) THEN p
    ELSE Then(ChangeDevice(p, o), LAMBDA q :
            IF OnTrack(q.iter) THEN [q EXCEPT !.cur = Open(TrackAt(q.iter))]
            ELSE Halt(q, "iterator"))

OpenForPlay(p, o) ==
    IF p.playlist = NoPlaylist THEN Halt(p, "no playlist")
    ELSE OpenTrack(IF p.iter = End(p.playlist) THEN jumpTo_impl(p, 0) ELSE p, o)

StartDevice(p, o) ==
    IF p.cur = NoSource THEN p
    ELSE Then(Then(DevPrepare(p, SpecsOf[p.cur.track], o), LAMBDA q : DevPlay(q, o)),
              ToPlaying)

StoppedPlay(p, o) ==
    Catch(Then(OpenForPlay(p, o), LAMBDA q : StartDevice(q, o)), ToError)

\* Error::sinkChange: Stopped when a device could be created.
ErrorSinkChange(p, o) == Catch(Then(ChangeDevice(p, o), ToStopped), ToError)

ErrorPlay(p, o) ==
    Then(ErrorSinkChange(p, o), LAMBDA q :
         IF q.state = "Error" THEN q ELSE StoppedPlay(q, o))

PausedPlay(p, o) == Then(DevPlay(p, o), ToPlaying)

play_impl(p, o) ==
    CASE p.state = "Stopped" -> StoppedPlay(p, o)
      [] p.state = "Error"   -> ErrorPlay(p, o)
      [] p.state = "Paused"  -> PausedPlay(p, o)
      [] p.state = "Playing" -> p

PlayingPause(p, o) == Then(DevPause(p, o), ToPaused)

\* Error::pause calls pause_impl again, which calls it again while play fails.
ErrorPause(p, o) ==
    Then(ErrorSinkChange(p, o), LAMBDA q :
         IF q.state = "Error" THEN q
         ELSE Then(StoppedPlay(q, o), LAMBDA r :
                   CASE r.state = "Playing" -> PlayingPause(r, o)
                     [] r.state = "Error"   -> Halt(r, "recursion")
                     [] OTHER -> r))

pause_impl(p, o) ==
    CASE p.state = "Playing" -> PlayingPause(p, o)
      [] p.state = "Error"   -> ErrorPause(p, o)
      [] OTHER -> p

\* Variant: only a playing device is stopped, not a paused one.
StateStop_playing_only(p, o) ==
    IF p.state = "Playing" THEN Then(DevStop(p, o), ToStopped) ELSE ToStopped(p)

StateStop(p, o) ==
    CASE p.state \in {"Playing", "Paused"} -> Then(DevStop(p, o), ToStopped)
      [] p.state = "Error"   -> ErrorSinkChange(p, o)
      [] p.state = "Stopped" -> p

JumpToEnd(p) ==
    IF p.playlist = NoPlaylist THEN Halt(p, "no playlist")
    ELSE jumpTo_impl(p, Length(p.playlist))

stop_impl(p, o) == Then(StateStop(p, o), JumpToEnd)

-----------------------------------------------------------------------------
(* Playback.  Both handlers run with mu held; read_handler either posts the *)
(* first buffer to be written or ends playback.                             *)

\* Variant: the end of the playlist does not stop the player.
read_handler_never_stops(p, ec, o) ==
    IF ec = "ok" /\ p.in_buf # <<>>
    THEN [p EXCEPT !.posted = Append(p.posted, Head(p.in_buf)), !.in_buf = Tail(p.in_buf)]
    ELSE p

read_handler(p, ec, o) ==
    CASE ec = "ok" /\ p.in_buf # <<>> ->
            [p EXCEPT !.posted = Append(p.posted, Head(p.in_buf)),
                      !.in_buf = Tail(p.in_buf)]
      \* write_handler locks mu, which this thread holds.
      [] ec = "eof" /\ p.cur # NoSource -> Halt(p, "relock")
      [] ec = "eof" /\ p.cur = NoSource /\ p.in_buf # <<>> -> Halt(p, "drained")
      [] OTHER -> stop_impl(p, o)

\* The next track is opened while the current one has PreloadAt buffers left.
Preload(p) ==
    IF p.cur = NoSource \/ p.playlist = NoPlaylist \/ Remaining(p.cur) > PreloadAt
    THEN p
    ELSE IF p.iter = NoIterator THEN Halt(p, "iterator")
    ELSE LET nt == Succ(p.iter)
         IN IF nt = End(p.playlist) \/ p.nxt # NoSource THEN p
            ELSE IF ~OnTrack(nt) THEN Halt(p, "iterator")
            ELSE IF TrackAt(nt) \in Broken THEN Halt(p, "preload")
            ELSE [p EXCEPT !.nxt = Open(TrackAt(nt))]

\* The pre-loaded source if there is one, otherwise the iterator's track.
ChooseSource(p) ==
    CASE p.cur # NoSource -> p
      [] p.cur = NoSource /\ p.nxt # NoSource -> [p EXCEPT !.cur = p.nxt, !.nxt = NoSource]
      [] p.cur = NoSource /\ p.nxt = NoSource ->
            IF ~OnTrack(p.iter) THEN Halt(p, "iterator")
            ELSE IF TrackAt(p.iter) \in Broken THEN Halt(p, "source")
            ELSE [p EXCEPT !.cur = Open(TrackAt(p.iter))]

\* One decode: a whole buffer, the shorter last one, or nothing.
Amount(s) ==
    CASE s.pos < FullBuffers[s.track] -> "full"
      [] s.pos = FullBuffers[s.track] /\ s.rest -> "rest"
      [] OTHER -> "nothing"

\* FLAC reports eof with an empty last decode only, WavPack with any short one.
DecodeError(s) ==
    IF \/ Amount(s) = "nothing"
       \/ Amount(s) = "rest" /\ Codec[s.track] = "wavpack"
    THEN "eof" ELSE "ok"

\* Only the FLAC decoder turns invalid at its end, and only then is next_impl
\* called: before the buffer just decoded is queued.
Advanced(p) ==
    IF Amount(p.cur) = "nothing" THEN p ELSE [p EXCEPT !.cur = [p.cur EXCEPT !.pos = @ + 1]]

Decode(p) ==
    IF Amount(p.cur) # "full" /\ Codec[p.cur.track] = "flac" THEN next_impl(Advanced(p))
    ELSE Advanced(p)

SameLayout(as, bs) == as.rate = bs.rate

Queue(p, s) ==
    [p EXCEPT !.in_buf = Append(p.in_buf, [track |-> s.track, idx |-> s.pos])]

\* catch(...) of write_handler: skip to the next track and play it.
PlayFromIterator(p, o) == IF p.iter = End(p.playlist) THEN p ELSE play_impl(p, o)

Recover(p, o) ==
    Then(Then(stop_impl(p, o), next_impl), LAMBDA q : PlayFromIterator(q, o))

AtTrack(p) == p.playlist # NoPlaylist /\ p.iter # End(p.playlist)

\* What write_handler does with an empty in_buf, the device having the specs.
DecodeFailed(p, o) ==
    Then(Recover(p, o), LAMBDA q :
         read_handler(q, IF Codec[p.cur.track] = "wavpack" THEN "eof" ELSE "ok", o))

\* widen aborts where it would have to trim the samples.
Narrows(p, s) == SpecsOf[s.track].bps > p.dev.specs.bps

Post(p, s, o) ==
    IF Amount(s) = "nothing" THEN Halt(p, "buffered")
    ELSE IF Narrows(p, s) THEN Halt(p, "widen")
    ELSE read_handler(Queue(p, s), DecodeError(s), o)

DecodeAndPost(p, o) ==
    IF o.fault = "decode" THEN DecodeFailed(p, o)
    ELSE Then(Decode(p), LAMBDA q : Post(q, p.cur, o))

\* Variant: stop_impl, which also moves the iterator, instead of the State's stop.
Restart_by_stop_impl(p, o) ==
    Then(stop_impl(Decode(p), o), LAMBDA q : play_impl(q, o))

\* The buffer is dropped and the device prepared again: the State's stop and
\* play, not stop_impl and play_impl.
Restart(p, o) ==
    Then(Then(Decode(p), LAMBDA q : StateStop(q, o)), LAMBDA q : play_impl(q, o))

Reprepare(p, o) ==
    Catch(Restart(p, o),
          LAMBDA q : Then(Recover(q, o), LAMBDA r : read_handler(r, DecodeError(p.cur), o)))

\* The call of write_handler that follows, with the error code of the decode.
Again(p, o) ==
    IF Restart(p, o).thrown THEN "none"
    ELSE IF DecodeError(p.cur) = "ok" THEN "ok" ELSE "failed"

Mismatch(p, o) ==
    /\ o.fault # "decode"
    /\ Amount(p.cur) # "nothing"
    /\ ~SameLayout(SpecsOf[p.cur.track], p.dev.specs)

-----------------------------------------------------------------------------
(* Actions.  An exception leaves a GUI command through main, ends the audio *)
(* thread, and disconnects a slot.                                          *)

Enter(t) == player.halt = "none" /\ call[t] \in {"ok", "canceled", "failed"}

Leave(t, q, again) ==
    /\ player' = IF q.thrown /\ t = "gui" THEN Halt([q EXCEPT !.thrown = FALSE], "terminated")
                 ELSE [q EXCEPT !.thrown = FALSE]
    /\ call' = [call EXCEPT ![t] = IF q.thrown THEN (IF t = "audio" THEN "dead" ELSE "none")
                                   ELSE again]
    /\ UNCHANGED <<sig, sinkSlot, commands>>

\* write_handler finds the player not playing.
WriteIgnored(t) ==
    /\ Enter(t) /\ player.state # "Playing"
    /\ Leave(t, player, "none")

\* Variant: the state is not looked at.
WriteFailed_any_state(t) ==
    /\ Enter(t) /\ call[t] # "ok"
    /\ \E o \in Outcomes :
          \E q \in {Then(Preload(player), LAMBDA p :
                        IF call[t] = "canceled" THEN p ELSE stop_impl(p, o))} :
             Leave(t, q, "none")

\* write_handler is told of an error; a cancelled write ends its chain silently.
WriteFailed(t) ==
    /\ Enter(t) /\ player.state = "Playing" /\ call[t] # "ok"
    /\ \E o \in Outcomes :
          \E q \in {Then(Preload(player), LAMBDA p :
                        IF call[t] = "canceled" THEN p ELSE stop_impl(p, o))} :
             Leave(t, q, "none")

\* No current track: playback ends.
WriteAtEnd(t) ==
    /\ Enter(t) /\ player.state = "Playing" /\ call[t] = "ok" /\ ~AtTrack(player)
    /\ \E o \in Outcomes :
          \E q \in {Then(Preload(player), LAMBDA p : read_handler(p, "eof", o))} :
             Leave(t, q, "none")

\* The source to play from, unless opening it or pre-loading ends the program.
Chosen(p) == Then(p, ChooseSource)

\* A remainder left in in_buf goes first.
WriteQueued(t) ==
    /\ Enter(t) /\ player.state = "Playing" /\ call[t] = "ok" /\ AtTrack(player)
    /\ player.in_buf # <<>>
    /\ \E o \in Outcomes :
          \E q \in {Then(Chosen(Preload(player)), LAMBDA p : read_handler(p, "ok", o))} :
             Leave(t, q, "none")

\* Otherwise one buffer is decoded.
WriteDecoded(t) ==
    /\ Enter(t) /\ player.state = "Playing" /\ call[t] = "ok" /\ AtTrack(player)
    /\ player.in_buf = <<>>
    /\ \E o \in Outcomes : \E p \in {Chosen(Preload(player))} :
          IF Ok(p) /\ Mismatch(p, o)
          THEN \E q \in {Reprepare(p, o)} : Leave(t, q, Again(p, o))
          ELSE \E q \in {Then(p, LAMBDA r : DecodeAndPost(r, o))} : Leave(t, q, "none")

WriteHandler(t) ==
    \/ WriteIgnored(t) \/ WriteFailed(t) \/ WriteAtEnd(t)
    \/ WriteQueued(t) \/ WriteDecoded(t)

\* A pool thread runs a posted lambda: async_write on the device of that moment.
StartWrite(i) ==
    /\ player.halt = "none"
    /\ LET buf == player.posted[i]
           rest == [j \in 1..(Len(player.posted) - 1) |->
                       player.posted[IF j < i THEN j ELSE j + 1]]
       IN player' = IF player.dev.fd
                    THEN [player EXCEPT !.posted = rest, !.writing = Append(@, buf)]
                    ELSE [player EXCEPT !.posted = rest,
                             !.done = Append(@, [buf |-> buf, ec |-> "failed"])]
    /\ UNCHANGED <<call, sig, sinkSlot, commands>>

\* The device takes the oldest waiting buffer; its handler calls write_handler.
DeviceWrite ==
    /\ player.halt = "none" /\ call["audio"] = "none"
    /\ player.writing # <<>> /\ player.dev.st = "Playing"
    /\ player' = [player EXCEPT !.writing = Tail(@)]
    /\ call' = [call EXCEPT !["audio"] = "ok"]
    /\ UNCHANGED <<sig, sinkSlot, commands>>

\* It takes less, and what is left goes back to the front of in_buf.
TakesLess(ec) ==
    /\ player.halt = "none" /\ call["audio"] = "none" /\ player.writing # <<>>
    /\ player' = [player EXCEPT !.writing = Tail(@), !.in_buf = <<Head(player.writing)>> \o @]
    /\ call' = [call EXCEPT !["audio"] = ec]
    /\ UNCHANGED <<sig, sinkSlot, commands>>

\* The device refuses it.
DeviceFail == "write" \in Failures /\ TakesLess("failed")

\* It had run out of data: write_some recovers it and reports nothing written and
\* no error, with which async_write ends.
DeviceUnderrun == "underrun" \in Failures /\ player.dev.st = "Playing" /\ TakesLess("ok")

\* The handler of a write that did not finish: what is left goes back to the
\* front of in_buf under mu; write_handler then takes mu again.
HandleError ==
    /\ player.halt = "none" /\ call["audio"] = "none" /\ player.done # <<>>
    /\ LET c == Head(player.done)
       IN /\ player' = [player EXCEPT !.done = Tail(@), !.in_buf = <<c.buf>> \o @]
          /\ call' = [call EXCEPT !["audio"] = c.ec]
    /\ UNCHANGED <<sig, sinkSlot, commands>>

-----------------------------------------------------------------------------
(* Commands of the GUI thread, which makes one call at a time *)

Command(op) ==
    /\ op \in Ops /\ commands < MaxOps /\ commands' = commands + 1
    /\ player.halt = "none" /\ call["gui"] = "none"
    /\ UNCHANGED <<sig, sinkSlot>>

Return(q) ==
    player' = IF q.thrown THEN Halt([q EXCEPT !.thrown = FALSE], "terminated") ELSE q

\* Variant: only a start from Stopped sets off a chain of writes.
Play_from_stopped_only ==
    /\ Command("play")
    /\ \E o \in Outcomes : \E q \in {play_impl(player, o)} :
          /\ Return(q)
          /\ call' = IF Ok(q) /\ q.state = "Playing" /\ player.state = "Stopped"
                     THEN [call EXCEPT !["gui"] = "ok"] ELSE call

\* mu is released between play_impl and write_handler.
Play ==
    /\ Command("play")
    /\ \E o \in Outcomes : \E q \in {play_impl(player, o)} :
          /\ Return(q)
          /\ call' = IF Ok(q) /\ q.state = "Playing" THEN [call EXCEPT !["gui"] = "ok"] ELSE call

Pause ==
    /\ Command("pause")
    /\ \E o \in Outcomes : \E q \in {pause_impl(player, o)} : Return(q)
    /\ UNCHANGED call

\* The queued buffers are thrown away.
Stop ==
    /\ Command("stop")
    /\ \E o \in Outcomes :
          \E q \in {Then(stop_impl(player, o), LAMBDA p : [p EXCEPT !.in_buf = <<>>])} :
             Return(q)
    /\ UNCHANGED call

\* Variant: next() sets off a chain of writes as play() does.
NextTrack_writes ==
    /\ Command("next") /\ Return(next_impl(player))
    /\ call' = IF player.state = "Playing" THEN [call EXCEPT !["gui"] = "ok"] ELSE call

NextTrack == Command("next") /\ Return(next_impl(player)) /\ UNCHANGED call

PreviousTrack ==
    /\ Command("previous")
    /\ \E s \in Rewound(player.cur) : Return(previous_impl(player, s))
    /\ UNCHANGED call

JumpTo ==
    /\ Command("jumpTo")
    /\ \E n \in 0..(IF player.playlist = NoPlaylist THEN 0 ELSE Length(player.playlist)) :
          Return(jumpTo_impl(player, n))
    /\ UNCHANGED call

\* Without mu.
Seek ==
    /\ Command("seek") /\ player.cur # NoSource
    /\ \E s \in Places(player.cur.track) : player' = [player EXCEPT !.cur = s]
    /\ UNCHANGED call

(* Slots on the signal thread *)

\* currentPlaylistChangedSlot assigns m_current_playlist without mu ...
ChangePlaylist ==
    /\ "playlist" \in Ops /\ commands < MaxOps /\ commands' = commands + 1
    /\ player.halt = "none" /\ sig = "idle" /\ sig' = "assigned"
    /\ \E pl \in Playlists : player' = [player EXCEPT !.playlist = pl]
    /\ UNCHANGED <<call, sinkSlot>>

\* ... and then jumps to its first track.
EnterPlaylist ==
    /\ player.halt = "none" /\ sig = "assigned" /\ sig' = "idle"
    /\ player' = jumpTo_impl(player, 0)
    /\ UNCHANGED <<call, sinkSlot, commands>>

\* A null m_current_source is dereferenced to seek back.
SeekBack(p) == IF p.cur = NoSource THEN Halt(p, "source") ELSE p

SwitchDevice(p, o) ==
    Then(Then(Then(DevStop(p, o), LAMBDA q : ChangeDevice(q, o)),
              LAMBDA q : play_impl(q, o)),
         SeekBack)

StateSinkChange(p, o) ==
    CASE p.state = "Stopped" -> p
      [] p.state = "Error"   -> ErrorSinkChange(p, o)
      [] p.state = "Playing" -> SwitchDevice(p, o)
      [] p.state = "Paused"  -> Then(SwitchDevice(p, o), LAMBDA q : pause_impl(q, o))

sinkChangeSlot(p, o) ==
    Catch(StateSinkChange(p, o), LAMBDA q : Then(stop_impl(q, o), ToError))

ChangeSink ==
    /\ "sink" \in Ops /\ commands < MaxOps /\ commands' = commands + 1
    /\ player.halt = "none" /\ sig = "idle" /\ sinkSlot
    /\ \E o \in Outcomes : \E q \in {sinkChangeSlot(player, o)} :
          /\ player' = [q EXCEPT !.thrown = FALSE]
          /\ sinkSlot' = ~q.thrown
    /\ UNCHANGED <<call, sig>>

-----------------------------------------------------------------------------
Init ==
    /\ player = [state |-> "Stopped", playlist |-> NoPlaylist, iter |-> NoIterator,
                 cur |-> NoSource, nxt |-> NoSource, dev |-> NoDevice,
                 in_buf |-> <<>>, posted |-> <<>>, writing |-> <<>>, done |-> <<>>,
                 thrown |-> FALSE, halt |-> "none"]
    /\ call = [t \in Threads |-> "none"]
    /\ sig = "idle"
    /\ sinkSlot = TRUE
    /\ commands = 0

AudioStep == DeviceWrite \/ DeviceFail \/ DeviceUnderrun \/ HandleError \/ WriteHandler("audio")
PoolStep == \E i \in 1..Len(player.posted) : StartWrite(i)
GuiCommand == Play \/ Pause \/ Stop \/ NextTrack \/ PreviousTrack \/ JumpTo \/ Seek
SignalStep == ChangePlaylist \/ EnterPlaylist \/ ChangeSink

Next ==
    \/ AudioStep
    \/ PoolStep
    \/ GuiCommand
    \/ WriteHandler("gui")
    \/ SignalStep

Spec == Init /\ [][Next]_vars

-----------------------------------------------------------------------------
(* Safety.  The device is "set up" once it has been prepared; a device that *)
(* sinkChange created is not, and its m_state means nothing.                *)

\* The state the player reports is what its device does: a set-up device plays
\* exactly when the player is Playing and is paused exactly when it is Paused,
\* through every failing device call and every late completion.
StateMatchesDevice ==
    player.dev.fd /\ player.halt = "none" =>
        /\ player.state = "Playing" <=> player.dev.st = "Playing"
        /\ player.state = "Paused" <=> player.dev.st = "Paused"

\* No asynchronous write waits on a descriptor that is gone: whatever closes or
\* replaces the device cancels the waiting writes first (stop, changeDevice).
NoOrphanedWrite == player.writing # <<>> => player.dev.fd

\* A completion that arrives when the player is not Playing (it was stopped or
\* paused meanwhile) changes neither its state nor its place nor its device.
LateCompletionIsHarmless ==
    [][ player.state # "Playing" /\ commands' = commands /\ sig' = sig =>
          /\ player'.state = player.state
          /\ player'.iter = player.iter
          /\ player'.cur = player.cur
          /\ player'.nxt = player.nxt
          /\ player'.dev = player.dev ]_vars

Live == player.halt = "none" /\ call["audio"] # "dead" /\ sinkSlot

\* A buffer is on its way to the device, or a call of write_handler is about to
\* fetch one or to stop the player.
Fed ==
    \/ player.posted # <<>>
    \/ player.writing # <<>>
    \/ \E t \in Threads : call[t] \in {"ok", "failed"}
    \/ \E i \in 1..Len(player.done) : player.done[i].ec = "failed"

\* The player believes in a device that nobody has set up.
Detached == player.state \in {"Playing", "Paused"} /\ ~player.dev.fd

\* A player that is Playing is fed, or it is Playing on a device nobody set up; and
\* nothing but a change of sink under a Playing player brings it there:
\* Playing::sinkChange replaces the device and calls play_impl, which does nothing
\* in Playing, while the write that waited ends as cancelled.  An exception that
\* ended the audio thread or disconnected sinkChangeSlot is the other exception.
PlayingIsFed ==
    /\ [](player.state = "Playing" /\ Live => Fed \/ Detached)
    /\ [][ player'.halt = "none" /\ Detached' =>
              \/ Detached
              \/ player.state = "Playing" /\ player'.dev.id # player.dev.id ]_vars

\* The open source decodes the track the iterator is on, and the pre-loaded one
\* the track after it ("Pre-loading next track in list").
SourceMatchesIterator ==
    /\ player.cur # NoSource /\ OnTrack(player.iter)
          => player.cur.track = TrackAt(player.iter)
    /\ player.nxt # NoSource /\ OnTrack(Succ(player.iter))
          => player.nxt.track = TrackAt(Succ(player.iter))

=============================================================================
