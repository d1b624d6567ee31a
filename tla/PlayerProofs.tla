----------------------------- MODULE PlayerProofs -----------------------------
(***************************************************************************)
(* Proofs about Player for every value of its constants, and about what a  *)
(* session makes of it.  The invariant of Player is a property Good of the *)
(* record that mu protects; each operator of Player preserves it, and so   *)
(* does each action.  Sessions come second: their steps are steps of       *)
(* Player, so that all that is proved of it holds of them too.             *)
(***************************************************************************)
EXTENDS PlayerSession, SequenceTheorems, WellFoundedInduction, TLAPS

SourceSound(s) == s = NoSource \/ s.track \in Tracks

IteratorSound(it) ==
    it = NoIterator \/ (it.list \in Playlists /\ it.at \in 1..(Length(it.list) + 1))

\* A device is set up only while it is Ready, Playing or Paused, and only then
\* do writes wait for it.
Sound(p) ==
    /\ p \in PlayerRecord
    /\ IteratorSound(p.iter)
    /\ SourceSound(p.cur)
    /\ SourceSound(p.nxt)
    /\ p.dev.fd => p.dev.st \in {"Ready", "Playing", "Paused"}
    /\ p.writing # <<>> => p.dev.fd

Agree(p) ==
    p.dev.fd /\ p.halt = "none" =>
        /\ p.state = "Playing" <=> p.dev.st = "Playing"
        /\ p.state = "Paused" <=> p.dev.st = "Paused"

Good(p) == Sound(p) /\ Agree(p)

Inv ==
    /\ TypeOK
    /\ Good(player)
    /\ ~player.thrown

-----------------------------------------------------------------------------
(* Numbers *)

\* A non-empty set of numbers has a least one.
LEMMA NatMin ==
    ASSUME NEW S \in SUBSET Nat, S # {}
    PROVE  \E n \in S : \A m \in S : n <= m
<1>1. PICK n \in S : \A m \in S : ~ (<<m, n>> \in OpToRel(<, Nat))
  BY NatLessThanWellFounded, WFMin
<1>2. \A m \in S : ~ (m < n)  BY <1>1 DEF OpToRel
<1> QED  BY <1>2

-----------------------------------------------------------------------------
(* Playlists, iterators and sources *)

LEMMA LengthNat == ASSUME NEW pl \in Playlists PROVE Length(pl) \in Nat
<1>1. TracksOf[pl] \in Seq(Tracks) BY PlaylistAssumption
<1> QED BY <1>1, LenProperties DEF Length

LEMMA NothingSound == SourceSound(NoSource) /\ NoSource \in Source /\ NoIterator \in Iterator
BY DEF SourceSound, NoSource, Source, NoIterator, Iterator

LEMMA TrackAtTrack ==
    ASSUME NEW it \in Iterator, OnTrack(it)
    PROVE  TrackAt(it) \in Tracks
<1>1. it.list \in Playlists /\ it.at \in 1..Length(it.list) BY DEF Iterator, OnTrack
<1>2. TracksOf[it.list] \in Seq(Tracks) BY <1>1, PlaylistAssumption
<1> QED BY <1>1, <1>2, ElementOfSeq DEF TrackAt, Length

LEMMA OpenSound ==
    ASSUME NEW t \in Tracks
    PROVE  Open(t) \in Source /\ SourceSound(Open(t))
BY TrackAssumption DEF Open, NoSource, Source, SourceSound

LEMMA SuccSound ==
    ASSUME NEW it \in Iterator, IteratorSound(it)
    PROVE  Succ(it) \in Iterator /\ IteratorSound(Succ(it))
<1>1. CASE it = NoIterator \/ it = End(it.list) BY <1>1 DEF Succ
<1>2. CASE it # NoIterator /\ it # End(it.list)
  <2>1. it.list \in Playlists /\ it.at \in 1..(Length(it.list) + 1)
    BY <1>2 DEF IteratorSound
  <2>2. Length(it.list) \in Nat BY <2>1, LengthNat
  <2>3. it.at # Length(it.list) + 1 BY <1>2 DEF End, Iterator
  <2>4. Succ(it) = [it EXCEPT !.at = @ + 1] BY <1>2 DEF Succ
  <2>5. Succ(it).list = it.list /\ Succ(it).at = it.at + 1 BY <2>4 DEF Iterator
  <2>6. Succ(it) \in Iterator BY <2>4 DEF Iterator
  <2>7. Succ(it).at \in 1..(Length(it.list) + 1) BY <2>1, <2>2, <2>3, <2>5
  <2> QED BY <2>1, <2>5, <2>6, <2>7 DEF IteratorSound
<1> QED BY <1>1, <1>2

LEMMA PlacesSound ==
    ASSUME NEW pl \in Playlists, NEW n \in Nat, n < Length(pl)
    PROVE  /\ [list |-> pl, at |-> n + 1] \in Iterator
           /\ IteratorSound([list |-> pl, at |-> n + 1])
BY LengthNat DEF Iterator, IteratorSound

LEMMA EndSound ==
    ASSUME NEW pl \in Playlists
    PROVE  End(pl) \in Iterator /\ IteratorSound(End(pl))
BY LengthNat DEF Iterator, IteratorSound, End

-----------------------------------------------------------------------------
(* The device *)

\* The part of the record the device operations leave alone.
SamePlace(p, q) ==
    /\ q.state = p.state /\ q.playlist = p.playlist /\ q.iter = p.iter
    /\ q.cur = p.cur /\ q.nxt = p.nxt

LEMMA DevCancelSound ==
    ASSUME NEW p, Sound(p)
    PROVE  /\ Sound(DevCancel(p)) /\ SamePlace(p, DevCancel(p))
           /\ DevCancel(p).writing = <<>> /\ DevCancel(p).dev = p.dev
           /\ DevCancel(p).thrown = p.thrown /\ DevCancel(p).halt = p.halt
<1> DEFINE cs == [i \in 1..Len(p.writing) |-> [buf |-> p.writing[i], ec |-> "canceled"]]
<1>1. p \in PlayerRecord BY DEF Sound
<1>2. p.writing \in Seq(Buffer) /\ p.done \in Seq(Completion) BY <1>1 DEF PlayerRecord
<1>3. cs \in Seq(Completion)
  <2>1. Len(p.writing) \in Nat /\ p.writing \in [1..Len(p.writing) -> Buffer]
    BY <1>2, LenProperties
  <2>2. cs \in [1..Len(p.writing) -> Completion] BY <2>1 DEF Completion
  <2>3. cs \in UNION {[1..n -> Completion] : n \in Nat} BY <2>1, <2>2
  <2> QED BY <2>3, SeqDef
<1>4. p.done \o cs \in Seq(Completion) BY <1>2, <1>3, ConcatProperties
<1>5. DevCancel(p) = [p EXCEPT !.writing = <<>>, !.done = p.done \o cs] BY DEF DevCancel
<1>6. <<>> \in Seq(Buffer) BY EmptySeq
<1> HIDE DEF cs
<1>7. DevCancel(p) \in PlayerRecord BY <1>1, <1>4, <1>5, <1>6 DEF PlayerRecord
<1> QED BY <1>1, <1>5, <1>7 DEF Sound, SamePlace, PlayerRecord

LEMMA OutcomeType ==
    ASSUME NEW o \in Outcomes
    PROVE  o.fresh \in DeviceStates /\ o.fresh # "None"
BY DeviceAssumption DEF Outcomes, DeviceStates

\* DevStop throws with the device as it was, or leaves it closed.
LEMMA DevStopSound ==
    ASSUME NEW p, Sound(p), NEW o \in Outcomes
    PROVE  /\ Sound(DevStop(p, o)) /\ SamePlace(p, DevStop(p, o))
           /\ DevStop(p, o).writing = <<>>
           /\ DevStop(p, o).dev = p.dev \/ ~DevStop(p, o).dev.fd
           /\ ~DevStop(p, o).thrown => ~DevStop(p, o).dev.fd
<1> DEFINE q == DevCancel(p)
<1>1. /\ Sound(q) /\ SamePlace(p, q) /\ q.writing = <<>> /\ q.dev = p.dev
      /\ q \in PlayerRecord
  BY DevCancelSound DEF Sound
<1> HIDE DEF q
<1>2. CASE DevStop(p, o) = Throw(q)
  BY <1>1, <1>2 DEF Throw, Sound, SamePlace, PlayerRecord
<1>3. CASE DevStop(p, o) = [q EXCEPT !.dev = [@ EXCEPT !.st = "Stopped", !.fd = FALSE]]
  <2>1. q.dev \in Device BY <1>1 DEF PlayerRecord
  <2>2. [q.dev EXCEPT !.st = "Stopped", !.fd = FALSE] \in Device
    BY <2>1 DEF Device, DeviceStates
  <2>3. DevStop(p, o) \in PlayerRecord BY <1>1, <1>3, <2>2 DEF PlayerRecord
  <2>4. DevStop(p, o).dev.fd = FALSE BY <1>1, <1>3, <2>1 DEF PlayerRecord, Device
  <2> QED BY <1>1, <1>3, <2>3, <2>4 DEF Sound, SamePlace, PlayerRecord
<1> QED BY <1>2, <1>3 DEF DevStop, q

\* DevPrepare throws and closes the device, or leaves it Ready.
LEMMA DevPrepareSound ==
    ASSUME NEW p, Sound(p), p.writing = <<>>, NEW o \in Outcomes,
           NEW as \in Specs \cup {NoSpecs}
    PROVE  /\ Sound(DevPrepare(p, as, o)) /\ SamePlace(p, DevPrepare(p, as, o))
           /\ DevPrepare(p, as, o).thrown /\ ~p.thrown => ~DevPrepare(p, as, o).dev.fd
           /\ ~DevPrepare(p, as, o).thrown => DevPrepare(p, as, o).dev.st = "Ready"
<1> DEFINE q == DevPrepare(p, as, o)
<1>1. p \in PlayerRecord /\ p.dev \in Device BY DEF Sound, PlayerRecord
<1>2. CASE q = Throw([p EXCEPT !.dev = [@ EXCEPT !.st = "Error", !.fd = FALSE, !.specs = as]])
  <2> DEFINE d == [p.dev EXCEPT !.st = "Error", !.fd = FALSE, !.specs = as]
  <2>1. d \in Device BY <1>1 DEF Device, DeviceStates
  <2>2. q \in PlayerRecord BY <1>1, <1>2, <2>1 DEF PlayerRecord, Throw
  <2>3. q.dev.fd = FALSE
    <3>1. q.dev = d BY <1>1, <1>2 DEF PlayerRecord, Throw
    <3>2. d.fd = FALSE BY <1>1 DEF Device
    <3> QED BY <3>1, <3>2
  <2>4. q.thrown = TRUE BY <1>1, <1>2 DEF PlayerRecord, Throw
  <2> QED BY <1>1, <1>2, <2>2, <2>3, <2>4 DEF Sound, SamePlace, PlayerRecord, Throw
<1>3. CASE /\ as \in Specs
           /\ q = [p EXCEPT !.dev = [@ EXCEPT !.st = "Ready", !.fd = TRUE, !.specs = Settled[as]]]
  <2>1. Settled[as] \in Specs BY <1>3, DeviceAssumption
  <2> DEFINE d == [p.dev EXCEPT !.st = "Ready", !.fd = TRUE, !.specs = Settled[as]]
  <2>2. d \in Device BY <1>1, <2>1 DEF Device, DeviceStates
  <2>3. q \in PlayerRecord BY <1>1, <1>3, <2>2 DEF PlayerRecord
  <2>4. q.dev.st = "Ready" /\ q.dev.fd = TRUE
    <3>1. q.dev = d BY <1>1, <1>3 DEF PlayerRecord
    <3>2. d.st = "Ready" /\ d.fd = TRUE BY <1>1 DEF Device
    <3> QED BY <3>1, <3>2
  <2>5. q.thrown = p.thrown BY <1>1, <1>3 DEF PlayerRecord
  <2> QED BY <1>1, <1>3, <2>3, <2>4, <2>5 DEF Sound, SamePlace, PlayerRecord
<1> QED BY <1>2, <1>3 DEF DevPrepare

\* DevPlay throws with the device as it was or closed; otherwise the device that
\* was set up plays.
LEMMA DevPlaySound ==
    ASSUME NEW p, Sound(p), ~p.thrown, NEW o \in Outcomes
    PROVE  /\ Sound(DevPlay(p, o)) /\ SamePlace(p, DevPlay(p, o))
           /\ DevPlay(p, o).thrown =>
                 DevPlay(p, o).dev = p.dev \/ ~DevPlay(p, o).dev.fd
           /\ Ok(DevPlay(p, o)) /\ p.dev.fd => DevPlay(p, o).dev.st = "Playing"
<1> DEFINE q == DevPlay(p, o)
<1>1. p \in PlayerRecord /\ p.dev \in Device BY DEF Sound, PlayerRecord
<1>2. CASE p.dev.st \in {"Stopped", "Error"}
  <2>1. ~p.dev.fd /\ p.writing = <<>> BY <1>2 DEF Sound
  <2>2. p.dev.specs \in Specs \cup {NoSpecs} BY <1>1 DEF Device
  <2>3. q = DevPrepare(p, p.dev.specs, o) BY <1>2 DEF DevPlay
  <2> QED BY <2>1, <2>2, <2>3, DevPrepareSound
<1>3. CASE p.dev.st \in {"Ready", "Paused"}
  <2>1. CASE q = Halt(p, "handle") /\ ~p.dev.fd
    BY <1>1, <2>1 DEF Sound, SamePlace, Halt, PlayerRecord, Halts
  <2>2. CASE q = Throw(p)
    BY <1>1, <2>2 DEF Sound, SamePlace, Throw, PlayerRecord, Ok
  <2>3. CASE p.dev.fd /\ q = [p EXCEPT !.dev = [@ EXCEPT !.st = "Playing"]]
    <3>1. [p.dev EXCEPT !.st = "Playing"] \in Device BY <1>1 DEF Device, DeviceStates
    <3>2. q \in PlayerRecord BY <1>1, <2>3, <3>1 DEF PlayerRecord
    <3>3. q.dev.st = "Playing" /\ q.dev.fd = p.dev.fd /\ q.thrown = p.thrown
      BY <1>1, <2>3 DEF PlayerRecord, Device
    <3> QED BY <1>1, <2>3, <3>2, <3>3 DEF Sound, SamePlace, PlayerRecord
  <2> QED BY <1>3, <2>1, <2>2, <2>3 DEF DevPlay
<1>4. CASE p.dev.st \notin {"Stopped", "Error", "Ready", "Paused"}
  <2>1. q = p BY <1>4 DEF DevPlay
  <2>2. p.dev.fd => p.dev.st = "Playing" BY <1>4 DEF Sound
  <2> QED BY <2>1, <2>2 DEF SamePlace
<1> QED BY <1>2, <1>3, <1>4

LEMMA DropDeviceSound ==
    ASSUME NEW p, Sound(p), NEW o \in Outcomes
    PROVE  /\ Sound(DropDevice(p, o)) /\ SamePlace(p, DropDevice(p, o))
           /\ DropDevice(p, o).writing = <<>>
           /\ DropDevice(p, o).dev = p.dev \/ ~DropDevice(p, o).dev.fd
           /\ ~DropDevice(p, o).thrown => ~DropDevice(p, o).dev.fd
<1>1. CASE p.dev.st = "None"
  <2>1. ~p.dev.fd /\ p.writing = <<>> BY <1>1 DEF Sound
  <2>2. DropDevice(p, o) = p BY <1>1 DEF DropDevice
  <2> QED BY <2>1, <2>2 DEF SamePlace
<1>2. CASE p.dev.st # "None"
  BY <1>2, DevStopSound DEF DropDevice
<1> QED BY <1>1, <1>2

LEMMA CreateDeviceSound ==
    ASSUME NEW p, Sound(p), p.writing = <<>>, NEW o \in Outcomes
    PROVE  /\ Sound(CreateDevice(p, o)) /\ SamePlace(p, CreateDevice(p, o))
           /\ CreateDevice(p, o).writing = <<>>
           /\ ~p.dev.fd => ~CreateDevice(p, o).dev.fd
<1>1. p \in PlayerRecord /\ p.dev \in Device BY DEF Sound, PlayerRecord
<1>2. CASE CreateDevice(p, o) = Throw(p)
  BY <1>1, <1>2 DEF Sound, SamePlace, PlayerRecord, Throw
<1> DEFINE d == [st |-> o.fresh, fd |-> FALSE, specs |-> NoSpecs, id |-> 1 - p.dev.id]
<1>3. CASE CreateDevice(p, o) = [p EXCEPT !.dev = d]
  <2>1. d \in Device BY <1>1, OutcomeType DEF Device
  <2>2. d.fd = FALSE OBVIOUS
  <2> HIDE DEF d
  <2> QED BY <1>1, <1>3, <2>1, <2>2 DEF Sound, SamePlace, PlayerRecord
<1> QED BY <1>2, <1>3 DEF CreateDevice

\* No write waits for a device that was just created, and it is not set up.
LEMMA ChangeDeviceSound ==
    ASSUME NEW p, Sound(p), NEW o \in Outcomes
    PROVE  /\ Sound(ChangeDevice(p, o)) /\ SamePlace(p, ChangeDevice(p, o))
           /\ ChangeDevice(p, o).writing = <<>>
           /\ ChangeDevice(p, o).dev = p.dev \/ ~ChangeDevice(p, o).dev.fd
<1> DEFINE q == DropDevice(p, o)
<1>1. /\ Sound(q) /\ SamePlace(p, q) /\ q.writing = <<>>
      /\ q.dev = p.dev \/ ~q.dev.fd
      /\ ~q.thrown => ~q.dev.fd
  BY DropDeviceSound
<1>2. /\ Sound(CreateDevice(q, o)) /\ SamePlace(q, CreateDevice(q, o))
      /\ CreateDevice(q, o).writing = <<>>
      /\ ~q.dev.fd => ~CreateDevice(q, o).dev.fd
  BY <1>1, CreateDeviceSound
<1>3. ChangeDevice(p, o) = IF Ok(q) THEN CreateDevice(q, o) ELSE q
  BY DEF ChangeDevice, Then
<1> QED BY <1>1, <1>2, <1>3 DEF Ok, SamePlace

\* Pausing a device that plays throws with the device as it was, or pauses it.
LEMMA DevPauseSound ==
    ASSUME NEW p, Sound(p), Ok(p), NEW o \in Outcomes
    PROVE  /\ Sound(DevPause(p, o)) /\ SamePlace(p, DevPause(p, o))
           /\ ~p.dev.fd /\ Ok(DevPause(p, o)) => ~DevPause(p, o).dev.fd
           /\ p.dev.fd /\ p.dev.st = "Playing" =>
                 \/ DevPause(p, o).dev = p.dev /\ ~Ok(DevPause(p, o))
                 \/ DevPause(p, o).dev.st = "Paused"
           /\ DevPause(p, o).thrown =>
                 DevPause(p, o).dev = p.dev \/ ~DevPause(p, o).dev.fd
<1> DEFINE q == DevPause(p, o)
<1>1. p \in PlayerRecord /\ p.dev \in Device BY DEF Sound, PlayerRecord
<1>2. CASE p.dev.st = "Playing"
  <2>1. CASE q = Halt(p, "handle") /\ ~p.dev.fd
    BY <1>1, <2>1 DEF Sound, SamePlace, Halt, PlayerRecord, Halts, Ok
  <2>2. CASE q = Throw(p)
    BY <1>1, <2>2 DEF Sound, SamePlace, Throw, PlayerRecord, Ok
  <2>3. CASE p.dev.fd /\ q = [DevCancel(p) EXCEPT !.dev = [@ EXCEPT !.st = "Paused"]]
    <3> DEFINE c == DevCancel(p)
    <3>1. Sound(c) /\ SamePlace(p, c) /\ c.dev = p.dev /\ c.writing = <<>> /\ c.thrown = p.thrown
      BY DevCancelSound
    <3> HIDE DEF c
    <3>2. c \in PlayerRecord BY <3>1 DEF Sound
    <3>3. [c.dev EXCEPT !.st = "Paused"] \in Device BY <1>1, <3>1 DEF Device, DeviceStates
    <3>4. q = [c EXCEPT !.dev = [@ EXCEPT !.st = "Paused"]] BY <2>3 DEF c
    <3>5. q \in PlayerRecord BY <3>2, <3>3, <3>4 DEF PlayerRecord
    <3>6. q.dev.st = "Paused" /\ q.dev.fd = p.dev.fd /\ q.thrown = p.thrown
      BY <1>1, <3>1, <3>2, <3>4 DEF PlayerRecord, Device
    <3>7. SamePlace(c, q) /\ q.writing = c.writing
      BY <3>2, <3>4 DEF PlayerRecord, SamePlace
    <3>8. Sound(q) BY <2>3, <3>1, <3>5, <3>6, <3>7 DEF Sound, SamePlace
    <3>9. SamePlace(p, q) BY <3>1, <3>7 DEF SamePlace
    <3> QED BY <2>3, <3>1, <3>6, <3>8, <3>9 DEF Ok
  <2>4. \/ q = Halt(p, "handle") /\ ~p.dev.fd
        \/ q = Throw(p)
        \/ p.dev.fd /\ q = [DevCancel(p) EXCEPT !.dev = [@ EXCEPT !.st = "Paused"]]
    BY <1>2 DEF DevPause
  <2> QED BY <2>1, <2>2, <2>3, <2>4
<1>3. CASE p.dev.st = "Paused"
  <2>1. q = DevPlay(p, o) BY <1>3 DEF DevPause
  <2>2. ~p.dev.fd => q = Halt(p, "handle") BY <1>3, <2>1 DEF DevPlay
  <2>3. ~p.dev.fd => ~Ok(q) BY <1>1, <2>2 DEF Halt, PlayerRecord, Ok
  <2> QED BY <1>3, <2>1, <2>3, DevPlaySound DEF Ok
<1>4. CASE p.dev.st \notin {"Playing", "Paused"}
  <2>1. q = p BY <1>4 DEF DevPause
  <2> QED BY <1>4, <2>1 DEF SamePlace, Ok
<1> QED BY <1>2, <1>3, <1>4

-----------------------------------------------------------------------------
(* Moving in the playlist leaves the state and the device alone *)

SameDevice(p, q) ==
    /\ q.state = p.state /\ q.dev = p.dev /\ q.thrown = p.thrown
    /\ q.playlist = p.playlist /\ q.writing = p.writing
    /\ q.halt = "none" => p.halt = "none"

LEMMA GoodPlace ==
    ASSUME NEW p, NEW q, Good(p), q \in PlayerRecord, SameDevice(p, q),
           IteratorSound(q.iter), SourceSound(q.cur), SourceSound(q.nxt)
    PROVE  Good(q)
BY DEF Good, Sound, Agree, SameDevice

LEMMA HaltGood ==
    ASSUME NEW p, Sound(p), NEW why \in Halts \ {"none"}
    PROVE  Good(Halt(p, why)) /\ SamePlace(p, Halt(p, why)) /\ ~Ok(Halt(p, why))
           /\ Halt(p, why).thrown = p.thrown /\ Halt(p, why).dev = p.dev
           /\ Halt(p, why).writing = p.writing
<1>1. p \in PlayerRecord BY DEF Sound
<1>2. Halt(p, why) = [p EXCEPT !.halt = why] BY DEF Halt
<1>3. Halt(p, why) \in PlayerRecord BY <1>1, <1>2 DEF PlayerRecord
<1>4. Halt(p, why).halt # "none" BY <1>1, <1>2 DEF PlayerRecord
<1>5. /\ SamePlace(p, Halt(p, why)) /\ Halt(p, why).thrown = p.thrown
      /\ Halt(p, why).dev = p.dev /\ Halt(p, why).writing = p.writing
  BY <1>1, <1>2 DEF PlayerRecord, SamePlace
<1> QED BY <1>3, <1>4, <1>5 DEF Good, Sound, Agree, SamePlace, Ok

LEMMA UnsetGood ==
    ASSUME NEW p, Good(p)
    PROVE  Good(Unset(p)) /\ SameDevice(p, Unset(p)) /\ Unset(p).cur = NoSource
<1>1. Sound(p) /\ p \in PlayerRecord BY DEF Good, Sound
<1>2. Unset(p) \in PlayerRecord BY <1>1, NothingSound DEF Unset, PlayerRecord
<1>3. SameDevice(p, Unset(p)) BY <1>1 DEF Unset, PlayerRecord, SameDevice
<1>4. Unset(p).iter = NoIterator /\ Unset(p).cur = NoSource /\ Unset(p).nxt = NoSource
  BY <1>1 DEF Unset, PlayerRecord
<1> QED BY <1>1, <1>2, <1>3, <1>4, GoodPlace, NothingSound DEF IteratorSound

LEMMA jumpTo_implGood ==
    ASSUME NEW p, Good(p), NEW n \in Nat
    PROVE  /\ Good(jumpTo_impl(p, n)) /\ SameDevice(p, jumpTo_impl(p, n))
           /\ n = 0 => jumpTo_impl(p, n).cur = NoSource
<1>1. Sound(p) BY DEF Good
<1>2. p \in PlayerRecord BY <1>1 DEF Sound
<1>3. CASE p.playlist = NoPlaylist
  BY <1>3, UnsetGood DEF jumpTo_impl
<1>4. CASE p.playlist # NoPlaylist
  <2> DEFINE to == IF n < Length(p.playlist)
                   THEN [list |-> p.playlist, at |-> n + 1] ELSE End(p.playlist)
  <2>1. p.playlist \in Playlists BY <1>2, <1>4 DEF PlayerRecord
  <2>2. to \in Iterator /\ IteratorSound(to) BY <2>1, PlacesSound, EndSound
  <2> HIDE DEF to
  <2>3. CASE n = 1
    <3>1. jumpTo_impl(p, n) = [p EXCEPT !.iter = to, !.cur = p.nxt, !.nxt = NoSource]
      BY <1>4, <2>3 DEF jumpTo_impl, to
    <3>2. jumpTo_impl(p, n) \in PlayerRecord
      BY <1>2, <2>2, <3>1, NothingSound DEF PlayerRecord
    <3>3. /\ jumpTo_impl(p, n).iter = to
          /\ jumpTo_impl(p, n).cur = p.nxt /\ jumpTo_impl(p, n).nxt = NoSource
      BY <1>2, <3>1 DEF PlayerRecord
    <3>4. SameDevice(p, jumpTo_impl(p, n)) BY <1>2, <3>1 DEF PlayerRecord, SameDevice
    <3> QED BY <1>1, <2>2, <2>3, <3>2, <3>3, <3>4, GoodPlace, NothingSound DEF Sound
  <2>4. CASE n # 1
    <3>1. jumpTo_impl(p, n) = [p EXCEPT !.iter = to, !.cur = NoSource]
      BY <1>4, <2>4 DEF jumpTo_impl, to
    <3>2. jumpTo_impl(p, n) \in PlayerRecord
      BY <1>2, <2>2, <3>1, NothingSound DEF PlayerRecord
    <3>3. /\ jumpTo_impl(p, n).iter = to
          /\ jumpTo_impl(p, n).cur = NoSource /\ jumpTo_impl(p, n).nxt = p.nxt
      BY <1>2, <3>1 DEF PlayerRecord
    <3>4. SameDevice(p, jumpTo_impl(p, n)) BY <1>2, <3>1 DEF PlayerRecord, SameDevice
    <3> QED BY <1>1, <2>2, <2>4, <3>2, <3>3, <3>4, GoodPlace, NothingSound DEF Sound
  <2> QED BY <2>3, <2>4
<1> QED BY <1>3, <1>4

LEMMA CloseSourceGood ==
    ASSUME NEW p, Good(p)
    PROVE  Good(CloseSource(p)) /\ SameDevice(p, CloseSource(p))
<1>1. Sound(p) BY DEF Good
<1>2. CloseSource(p) \in PlayerRecord
  BY <1>1, NothingSound DEF CloseSource, PlayerRecord, Sound
<1>3. SameDevice(p, CloseSource(p)) BY <1>1 DEF CloseSource, PlayerRecord, SameDevice, Sound
<1>4. /\ CloseSource(p).iter = p.iter /\ CloseSource(p).nxt = p.nxt
      /\ CloseSource(p).cur = NoSource
  BY <1>1 DEF CloseSource, PlayerRecord, Sound
<1> QED BY <1>1, <1>2, <1>3, <1>4, GoodPlace, NothingSound DEF Sound

\* The record after a move of the iterator and the sources.
Moved(p, it, c, n) == [p EXCEPT !.iter = it, !.cur = c, !.nxt = n]

LEMMA MoveGood ==
    ASSUME NEW p, Good(p), NEW it \in Iterator, IteratorSound(it),
           NEW c \in Source, SourceSound(c), NEW n \in Source, SourceSound(n)
    PROVE  /\ Good(Moved(p, it, c, n)) /\ SameDevice(p, Moved(p, it, c, n))
           /\ Moved(p, it, c, n).iter = it /\ Moved(p, it, c, n).cur = c
           /\ Moved(p, it, c, n).nxt = n
<1> DEFINE q == Moved(p, it, c, n)
<1>1. p \in PlayerRecord BY DEF Good, Sound
<1>2. q = [p EXCEPT !.iter = it, !.cur = c, !.nxt = n] BY DEF Moved
<1> HIDE DEF q
<1>3. q \in PlayerRecord BY <1>1, <1>2 DEF PlayerRecord
<1>4. SameDevice(p, q) BY <1>1, <1>2 DEF PlayerRecord, SameDevice
<1>5. q.iter = it /\ q.cur = c /\ q.nxt = n BY <1>1, <1>2 DEF PlayerRecord
<1>6. IteratorSound(q.iter) /\ SourceSound(q.cur) /\ SourceSound(q.nxt) BY <1>5
<1>7. Good(q) BY <1>3, <1>4, <1>6, GoodPlace
<1> QED BY <1>4, <1>5, <1>7 DEF q

LEMMA HaltedGood ==
    ASSUME NEW p, Good(p), NEW why \in Halts \ {"none"}
    PROVE  Good(Halt(p, why)) /\ SameDevice(p, Halt(p, why)) /\ ~Ok(Halt(p, why))
<1>1. Sound(p) /\ p \in PlayerRecord BY DEF Good, Sound
<1>2. Halt(p, why).halt # "none" BY <1>1 DEF Halt, PlayerRecord
<1> QED BY <1>1, <1>2, HaltGood DEF SameDevice, SamePlace

LEMMA next_implGood ==
    ASSUME NEW p, Good(p)
    PROVE  Good(next_impl(p)) /\ SameDevice(p, next_impl(p))
<1> DEFINE q == next_impl(p)
           to == Succ(p.iter)
<1>1. /\ p \in PlayerRecord /\ IteratorSound(p.iter) /\ p.iter \in Iterator
      /\ p.nxt \in Source /\ SourceSound(p.nxt)
  BY DEF Good, Sound, PlayerRecord
<1>2. to \in Iterator /\ IteratorSound(to) BY <1>1, SuccSound
<1>3. CASE p.playlist = NoPlaylist
  <2>1. q = [p EXCEPT !.cur = NoSource, !.iter = NoIterator] BY <1>3 DEF next_impl
  <2>2. q = Moved(p, NoIterator, NoSource, p.nxt) BY <1>1, <2>1 DEF Moved, PlayerRecord
  <2>3. IteratorSound(NoIterator) BY DEF IteratorSound
  <2> HIDE DEF q
  <2> QED BY <1>1, <2>2, <2>3, MoveGood, NothingSound DEF q
<1>4. CASE p.playlist # NoPlaylist /\ p.iter = End(p.playlist)
  BY <1>4, CloseSourceGood DEF next_impl
<1>5. CASE p.playlist # NoPlaylist /\ p.iter # End(p.playlist) /\ p.iter = NoIterator
  BY <1>5, HaltedGood DEF next_impl, Halts
<1>6. CASE p.playlist # NoPlaylist /\ p.iter # End(p.playlist) /\ p.iter # NoIterator
  <2> DEFINE r == [p EXCEPT !.iter = to, !.cur = NoSource]
  <2>1. Good(r) /\ SameDevice(p, r) /\ r.iter = to
    <3>1. r = Moved(p, to, NoSource, p.nxt) BY <1>1 DEF Moved, PlayerRecord
    <3> HIDE DEF r, to
    <3> QED BY <1>1, <1>2, <3>1, MoveGood, NothingSound
  <2>2. CASE p.nxt # NoSource
    <3>1. q = [r EXCEPT !.cur = p.nxt, !.nxt = NoSource] BY <1>6, <2>2 DEF next_impl
    <3>2. q = Moved(p, to, p.nxt, NoSource) BY <1>1, <3>1 DEF Moved, PlayerRecord
    <3> HIDE DEF q, to
    <3> QED BY <1>1, <1>2, <3>2, MoveGood, NothingSound DEF q
  <2>3. CASE p.nxt = NoSource /\ to = End(p.playlist)
    <3>1. q = r BY <1>6, <2>1, <2>3 DEF next_impl
    <3> QED BY <2>1, <3>1
  <2>4. CASE p.nxt = NoSource /\ to # End(p.playlist) /\ OnTrack(to)
    <3> DEFINE s == Open(TrackAt(to))
    <3>1. q = [r EXCEPT !.cur = s] BY <1>6, <2>1, <2>4 DEF next_impl
    <3>2. q = Moved(p, to, s, p.nxt) BY <1>1, <3>1 DEF Moved, PlayerRecord
    <3>3. s \in Source /\ SourceSound(s) BY <1>2, <2>4, TrackAtTrack, OpenSound
    <3> HIDE DEF q, to, s
    <3> QED BY <1>1, <1>2, <3>2, <3>3, MoveGood, NothingSound DEF q
  <2>5. CASE p.nxt = NoSource /\ to # End(p.playlist) /\ ~OnTrack(to)
    <3>1. q = Halt(r, "iterator") BY <1>6, <2>1, <2>5 DEF next_impl
    <3>2. Good(q) /\ SameDevice(r, q) BY <2>1, <3>1, HaltedGood DEF Halts
    <3> HIDE DEF q, r
    <3> QED BY <2>1, <3>2 DEF SameDevice, q
  <2> QED BY <2>2, <2>3, <2>4, <2>5
<1> QED BY <1>3, <1>4, <1>5, <1>6

\* Seeking and resetting stay on the track.
LEMMA PlacesOnTrack ==
    ASSUME NEW t \in Tracks, NEW r \in Places(t)
    PROVE  /\ r \in Source /\ SourceSound(r) /\ r # NoSource
           /\ r.track = t /\ r.pos \in 0..FullBuffers[t]
<1>1. /\ r \in [track : {t}, pos : 0..FullBuffers[t], rest : BOOLEAN]
      /\ FullBuffers[t] \in Nat
  BY TrackAssumption DEF Places
<1>2. r.track = t /\ r.pos \in 0..FullBuffers[t] /\ r.rest \in BOOLEAN  BY <1>1
<1>3. r \in Source  BY <1>1 DEF Source
<1>4. r # NoSource  BY <1>2, NullAssumption DEF NoSource
<1> QED  BY <1>2, <1>3, <1>4 DEF SourceSound

LEMMA RewoundOnTrack ==
    ASSUME NEW s \in Source, SourceSound(s), NEW r \in Rewound(s)
    PROVE  /\ r \in Source /\ SourceSound(r) /\ r.track = s.track
           /\ r # s => s # NoSource /\ r # NoSource /\ r.pos \in 0..FullBuffers[s.track]
<1>1. CASE s = NoSource \/ Codec[s.track] = "wavpack"  BY <1>1 DEF Rewound
<1>2. CASE ~(s = NoSource \/ Codec[s.track] = "wavpack")
  <2>1. s.track \in Tracks /\ r \in Places(s.track)  BY <1>2 DEF Rewound, SourceSound
  <2> QED  BY <1>2, <2>1, PlacesOnTrack
<1> QED  BY <1>1, <1>2

LEMMA previous_implGood ==
    ASSUME NEW p, Good(p), NEW w \in Source, SourceSound(w)
    PROVE  Good(previous_impl(p, w)) /\ SameDevice(p, previous_impl(p, w))
<1> DEFINE q == previous_impl(p, w)
<1>1. /\ p \in PlayerRecord /\ IteratorSound(p.iter) /\ p.iter \in Iterator
      /\ p.cur \in Source /\ SourceSound(p.cur)
  BY DEF Good, Sound, PlayerRecord
<1>2. CASE p.playlist = NoPlaylist
  BY <1>2, UnsetGood DEF previous_impl
<1>3. CASE p.playlist # NoPlaylist /\ p.iter = Begin(p.playlist)
  <2>1. q = [p EXCEPT !.nxt = NoSource, !.cur = w] BY <1>3 DEF previous_impl
  <2>2. q = Moved(p, p.iter, w, NoSource) BY <1>1, <2>1 DEF Moved, PlayerRecord
  <2> HIDE DEF q
  <2> QED BY <1>1, <2>2, MoveGood, NothingSound DEF q
<1>4. CASE p.playlist # NoPlaylist /\ p.iter # Begin(p.playlist) /\ p.iter = NoIterator
  BY <1>4, HaltedGood DEF previous_impl, Halts
<1>5. CASE p.playlist # NoPlaylist /\ p.iter # Begin(p.playlist) /\ p.iter # NoIterator
  <2> DEFINE to == IF p.iter.at = 1 THEN p.iter ELSE [p.iter EXCEPT !.at = @ - 1]
  <2>1. to \in Iterator /\ IteratorSound(to)
    <3>1. p.iter.list \in Playlists /\ p.iter.at \in 1..(Length(p.iter.list) + 1)
      BY <1>1, <1>5 DEF IteratorSound
    <3>2. Length(p.iter.list) \in Nat BY <3>1, LengthNat
    <3>3. CASE p.iter.at = 1 BY <1>1, <3>3
    <3>4. CASE p.iter.at # 1
      <4>1. to = [p.iter EXCEPT !.at = @ - 1] BY <3>4
      <4>2. to.list = p.iter.list /\ to.at = p.iter.at - 1 BY <1>1, <4>1 DEF Iterator
      <4>3. to.at \in 1..(Length(to.list) + 1) BY <3>1, <3>2, <3>4, <4>2
      <4>4. p.iter.at - 1 \in Nat BY <3>1, <3>2
      <4>5. to \in Iterator BY <1>1, <4>1, <4>4 DEF Iterator
      <4> QED BY <3>1, <4>2, <4>3, <4>5 DEF IteratorSound
    <3> QED BY <3>3, <3>4
  <2>2. q = [p EXCEPT !.nxt = NoSource, !.cur = NoSource, !.iter = to] BY <1>5 DEF previous_impl
  <2> HIDE DEF to
  <2>3. q = Moved(p, to, NoSource, NoSource) BY <1>1, <2>2 DEF Moved, PlayerRecord
  <2> HIDE DEF q
  <2> QED BY <2>1, <2>3, MoveGood, NothingSound DEF q
<1> QED BY <1>2, <1>3, <1>4, <1>5

-----------------------------------------------------------------------------
(* The states *)

\* What catch hands to its handler.
Cleared(p) == [p EXCEPT !.thrown = FALSE]

LEMMA ClearedGood ==
    ASSUME NEW p, Good(p)
    PROVE  /\ Good(Cleared(p)) /\ SamePlace(p, Cleared(p)) /\ ~Cleared(p).thrown
           /\ Cleared(p).dev = p.dev /\ Cleared(p).halt = p.halt
           /\ Cleared(p).writing = p.writing
<1>1. p \in PlayerRecord /\ Sound(p) BY DEF Good, Sound
<1>2. Cleared(p) \in PlayerRecord BY <1>1 DEF Cleared, PlayerRecord
<1>3. /\ SamePlace(p, Cleared(p)) /\ Cleared(p).thrown = FALSE
      /\ Cleared(p).dev = p.dev /\ Cleared(p).halt = p.halt
      /\ Cleared(p).writing = p.writing
  BY <1>1 DEF Cleared, PlayerRecord, SamePlace
<1>4. Sound(Cleared(p)) BY <1>1, <1>2, <1>3 DEF Sound, SamePlace
<1> QED BY <1>3, <1>4 DEF Good, Agree, SamePlace

\* Good is kept by what leaves the state alone and leaves the device as it was
\* or closes it.
LEMMA KeepsGood ==
    ASSUME NEW p, NEW q, Good(p), p.halt = "none", Sound(q), q.state = p.state,
           q.dev = p.dev \/ ~q.dev.fd
    PROVE  Good(q)
BY DEF Good, Agree

\* A record whose state is set.
InState(p, s) == [p EXCEPT !.state = s]

LEMMA InStateSound ==
    ASSUME NEW p, Sound(p), NEW s \in {"Stopped", "Playing", "Paused", "Error"}
    PROVE  /\ Sound(InState(p, s)) /\ InState(p, s).state = s
           /\ InState(p, s).dev = p.dev /\ InState(p, s).halt = p.halt
           /\ InState(p, s).thrown = p.thrown
<1>1. p \in PlayerRecord BY DEF Sound
<1>2. InState(p, s) \in PlayerRecord BY <1>1 DEF InState, PlayerRecord
<1>3. /\ InState(p, s).state = s
      /\ InState(p, s).dev = p.dev /\ InState(p, s).halt = p.halt
      /\ InState(p, s).thrown = p.thrown /\ InState(p, s).writing = p.writing
      /\ InState(p, s).iter = p.iter /\ InState(p, s).cur = p.cur
      /\ InState(p, s).nxt = p.nxt
  BY <1>1 DEF InState, PlayerRecord
<1> QED BY <1>2, <1>3 DEF Sound

\* Idle: neither Playing nor Paused.
Idle(p) == p.state \in {"Stopped", "Error"}

LEMMA ToErrorGood ==
    ASSUME NEW p, Good(p), Idle(p)
    PROVE  Good(ToError(p)) /\ ToError(p).state = "Error" /\ ToError(p).thrown = p.thrown
<1>1. ToError(p) = InState(p, "Error") BY DEF ToError, InState
<1>2. /\ Sound(ToError(p)) /\ ToError(p).state = "Error" /\ ToError(p).dev = p.dev
      /\ ToError(p).halt = p.halt /\ ToError(p).thrown = p.thrown
  BY <1>1, InStateSound DEF Good
<1> QED BY <1>2 DEF Good, Agree, Idle

LEMMA ToStoppedGood ==
    ASSUME NEW p, Sound(p), ~p.dev.fd
    PROVE  Good(ToStopped(p)) /\ ToStopped(p).state = "Stopped"
           /\ ToStopped(p).thrown = p.thrown
<1>1. ToStopped(p) = InState(p, "Stopped") BY DEF ToStopped, InState
<1> QED BY <1>1, InStateSound DEF Good, Agree

LEMMA ToPlayingGood ==
    ASSUME NEW p, Sound(p)
    PROVE  Good(ToPlaying(p)) /\ ToPlaying(p).thrown = p.thrown
<1>1. CASE p.dev.st = "Playing"
  <2>1. ToPlaying(p) = InState(p, "Playing") BY <1>1 DEF ToPlaying, InState
  <2> QED BY <1>1, <2>1, InStateSound DEF Good, Agree
<1>2. CASE p.dev.st # "Playing"
  BY <1>2, HaltGood DEF ToPlaying, Halts
<1> QED BY <1>1, <1>2

LEMMA OpenTrackGood ==
    ASSUME NEW p, Good(p), Ok(p), NEW o \in Outcomes,
           p.iter = End(p.playlist) => p.cur = NoSource
    PROVE  /\ Good(OpenTrack(p, o)) /\ OpenTrack(p, o).state = p.state
           /\ Ok(OpenTrack(p, o)) /\ OpenTrack(p, o).cur # NoSource
                 => OpenTrack(p, o).writing = <<>>
<1> DEFINE q == ChangeDevice(p, o)
           r == OpenTrack(p, o)
<1>1. CASE p.iter = End(p.playlist)
  BY <1>1 DEF OpenTrack
<1>2. CASE p.iter # End(p.playlist)
  <2>1. Sound(q) /\ SamePlace(p, q) /\ q.writing = <<>> /\ (q.dev = p.dev \/ ~q.dev.fd)
    BY ChangeDeviceSound DEF Good
  <2>2. Good(q) /\ q.state = p.state BY <2>1, KeepsGood DEF Ok, SamePlace
  <2>3. CASE ~Ok(q)
    <3>1. r = q BY <1>2, <2>3 DEF OpenTrack, Then
    <3> HIDE DEF q
    <3> QED BY <2>2, <2>3, <3>1
  <2>4. CASE Ok(q) /\ OnTrack(q.iter)
    <3> DEFINE s == Open(TrackAt(q.iter))
    <3>1. r = [q EXCEPT !.cur = s] BY <1>2, <2>4 DEF OpenTrack, Then
    <3> HIDE DEF q
    <3>2. q \in PlayerRecord /\ q.iter \in Iterator /\ IteratorSound(q.iter)
          /\ q.nxt \in Source /\ SourceSound(q.nxt)
      BY <2>1 DEF Sound, PlayerRecord
    <3>3. s \in Source /\ SourceSound(s) BY <2>4, <3>2, TrackAtTrack, OpenSound
    <3>4. r = Moved(q, q.iter, s, q.nxt) BY <3>1, <3>2 DEF Moved, PlayerRecord
    <3>5. Good(r) /\ SameDevice(q, r)
      <4> HIDE DEF r, s
      <4> QED BY <2>2, <3>2, <3>3, <3>4, MoveGood
    <3> QED BY <2>1, <2>2, <3>5 DEF SameDevice
  <2>5. CASE Ok(q) /\ ~OnTrack(q.iter)
    <3>1. r = Halt(q, "iterator") BY <1>2, <2>5 DEF OpenTrack, Then
    <3> HIDE DEF q
    <3>2. Good(r) /\ SameDevice(q, r) /\ ~Ok(r)
      BY <2>2, <3>1, HaltedGood DEF Halts
    <3> QED BY <2>2, <3>2 DEF SameDevice
  <2> QED BY <2>3, <2>4, <2>5
<1> QED BY <1>1, <1>2

LEMMA OpenForPlayGood ==
    ASSUME NEW p, Good(p), Ok(p), NEW o \in Outcomes
    PROVE  /\ Good(OpenForPlay(p, o)) /\ OpenForPlay(p, o).state = p.state
           /\ Ok(OpenForPlay(p, o)) /\ OpenForPlay(p, o).cur # NoSource
                 => OpenForPlay(p, o).writing = <<>>
<1>1. CASE p.playlist = NoPlaylist
  <2>1. OpenForPlay(p, o) = Halt(p, "no playlist") BY <1>1 DEF OpenForPlay
  <2>2. Good(OpenForPlay(p, o)) /\ SameDevice(p, OpenForPlay(p, o)) /\ ~Ok(OpenForPlay(p, o))
    BY <2>1, HaltedGood DEF Halts
  <2> QED BY <2>2 DEF SameDevice
<1>2. CASE p.playlist # NoPlaylist /\ p.iter = End(p.playlist)
  <2> DEFINE q == jumpTo_impl(p, 0)
  <2>1. Good(q) /\ SameDevice(p, q) /\ q.cur = NoSource BY jumpTo_implGood
  <2>2. OpenForPlay(p, o) = OpenTrack(q, o) BY <1>2 DEF OpenForPlay
  <2>3. Ok(q)
    <3>1. p.playlist \in Playlists /\ p \in PlayerRecord
      BY <1>2 DEF Good, Sound, PlayerRecord
    <3>2. q.halt = p.halt BY <1>2, <3>1 DEF jumpTo_impl, PlayerRecord
    <3> QED BY <2>1, <3>2 DEF Ok, SameDevice
  <2> HIDE DEF q
  <2>4. /\ Good(OpenTrack(q, o)) /\ OpenTrack(q, o).state = q.state
        /\ Ok(OpenTrack(q, o)) /\ OpenTrack(q, o).cur # NoSource
              => OpenTrack(q, o).writing = <<>>
    BY <2>1, <2>3, OpenTrackGood
  <2> QED BY <2>1, <2>2, <2>4 DEF SameDevice
<1>3. CASE p.playlist # NoPlaylist /\ p.iter # End(p.playlist)
  <2>1. OpenForPlay(p, o) = OpenTrack(p, o) BY <1>3 DEF OpenForPlay
  <2> QED BY <1>3, <2>1, OpenTrackGood
<1> QED BY <1>1, <1>2, <1>3

LEMMA StartDeviceGood ==
    ASSUME NEW p, Good(p), Ok(p), p.state = "Stopped", NEW o \in Outcomes,
           p.cur # NoSource => p.writing = <<>>
    PROVE  /\ Good(StartDevice(p, o))
           /\ StartDevice(p, o).thrown => StartDevice(p, o).state = "Stopped"
<1>1. CASE p.cur = NoSource
  BY <1>1 DEF StartDevice
<1>2. CASE p.cur # NoSource
  <2> DEFINE as == SpecsOf[p.cur.track]
             q == DevPrepare(p, as, o)
             r == DevPlay(q, o)
             s == Then(q, LAMBDA x : DevPlay(x, o))
  <2>1. as \in Specs
    <3>1. p.cur.track \in Tracks BY <1>2 DEF Good, Sound, SourceSound
    <3> QED BY <3>1, TrackAssumption
  <2>2. /\ Sound(q) /\ SamePlace(p, q)
        /\ q.thrown => ~q.dev.fd
        /\ ~q.thrown => q.dev.st = "Ready"
    <3> HIDE DEF as
    <3> QED BY <1>2, <2>1, DevPrepareSound DEF Good, Ok
  <2>3. StartDevice(p, o) = IF Ok(s) THEN ToPlaying(s) ELSE s
    BY <1>2 DEF StartDevice, Then
  <2>4. CASE ~Ok(q)
    <3>1. s = q BY <2>4 DEF Then
    <3>2. Good(q) BY <2>2, KeepsGood DEF Ok, SamePlace, Good, Agree, DevPrepare, Throw
    <3> HIDE DEF q
    <3> QED BY <2>2, <2>3, <2>4, <3>1, <3>2 DEF SamePlace
  <2>5. CASE Ok(q)
    <3>1. s = r BY <2>5 DEF Then
    <3> HIDE DEF q
    <3>2. Sound(r) /\ SamePlace(q, r) /\ (r.thrown => r.dev = q.dev \/ ~r.dev.fd)
      BY <2>2, <2>5, DevPlaySound DEF Ok
    <3> HIDE DEF r, s
    <3>3. CASE Ok(r)
      <4>1. StartDevice(p, o) = ToPlaying(r) BY <2>3, <3>1, <3>3
      <4>2. Good(ToPlaying(r)) /\ ToPlaying(r).thrown = r.thrown BY <3>2, ToPlayingGood
      <4> QED BY <3>3, <4>1, <4>2 DEF Ok
    <3>4. CASE ~Ok(r)
      <4>1. StartDevice(p, o) = r BY <2>3, <3>1, <3>4
      <4>2. r.state = "Stopped" BY <2>2, <3>2 DEF SamePlace
      <4>3. r.halt = "none" /\ r.dev.fd => r.dev.st = "Ready"
        BY <2>2, <2>5, <3>2, <3>4 DEF Ok
      <4> QED BY <3>2, <4>1, <4>2, <4>3 DEF Good, Agree
    <3> QED BY <3>3, <3>4
  <2> QED BY <2>4, <2>5
<1> QED BY <1>1, <1>2

LEMMA CatchToError ==
    ASSUME NEW p, Good(p), p.thrown => Idle(p)
    PROVE  Good(Catch(p, ToError))
<1>1. CASE p.thrown /\ p.halt = "none"
  <2>1. Catch(p, ToError) = ToError(Cleared(p)) BY <1>1 DEF Catch, Cleared
  <2>2. Good(Cleared(p)) /\ Idle(Cleared(p)) BY <1>1, ClearedGood DEF Idle, SamePlace
  <2> QED BY <2>1, <2>2, ToErrorGood
<1>2. CASE ~(p.thrown /\ p.halt = "none")
  BY <1>2 DEF Catch
<1> QED BY <1>1, <1>2

LEMMA StoppedPlayGood ==
    ASSUME NEW p, Good(p), Ok(p), p.state = "Stopped", NEW o \in Outcomes
    PROVE  Good(StoppedPlay(p, o))
<1> DEFINE q == OpenForPlay(p, o)
           r == Then(q, LAMBDA x : StartDevice(x, o))
<1>1. /\ Good(q) /\ q.state = "Stopped"
      /\ Ok(q) /\ q.cur # NoSource => q.writing = <<>>
  BY OpenForPlayGood
<1>2. r = IF Ok(q) THEN StartDevice(q, o) ELSE q BY DEF Then
<1> HIDE DEF q
<1>3. Good(r) /\ (r.thrown => r.state = "Stopped")
  <2>1. CASE Ok(q) BY <1>1, <1>2, <2>1, StartDeviceGood
  <2>2. CASE ~Ok(q) BY <1>1, <1>2, <2>2
  <2> QED BY <2>1, <2>2
<1>4. StoppedPlay(p, o) = Catch(r, ToError) BY DEF StoppedPlay, q
<1> HIDE DEF r
<1> QED BY <1>3, <1>4, CatchToError DEF Idle

\* ErrorSinkChange leaves the player Stopped, or in Error as it was.
LEMMA ErrorSinkChangeGood ==
    ASSUME NEW p, Good(p), Ok(p), p.state = "Error", NEW o \in Outcomes
    PROVE  Good(ErrorSinkChange(p, o)) /\ Idle(ErrorSinkChange(p, o))
<1> DEFINE q == ChangeDevice(p, o)
           r == Then(q, ToStopped)
<1>1. Sound(q) /\ SamePlace(p, q) /\ (q.dev = p.dev \/ ~q.dev.fd)
  BY ChangeDeviceSound DEF Good
<1>2. Good(q) /\ q.state = "Error" BY <1>1, KeepsGood DEF Ok, SamePlace
<1>3. ErrorSinkChange(p, o) = Catch(r, ToError) BY DEF ErrorSinkChange
<1>4. CASE Ok(q)
  <2>1. r = ToStopped(q) BY <1>4 DEF Then
  <2>2. ToStopped(q) = InState(q, "Stopped") BY DEF ToStopped, InState
  <2>3. /\ Sound(r) /\ r.state = "Stopped" /\ r.dev = q.dev /\ r.halt = q.halt
        /\ r.thrown = q.thrown
    <3> HIDE DEF q
    <3> QED BY <1>1, <2>1, <2>2, InStateSound
  <2>4. Good(r) BY <1>2, <2>3 DEF Good, Agree
  <2>5. ErrorSinkChange(p, o) = r BY <1>3, <1>4, <2>3 DEF Catch, Ok
  <2> QED BY <2>3, <2>4, <2>5 DEF Idle
<1>5. CASE ~Ok(q)
  <2>1. r = q BY <1>5 DEF Then
  <2>2. CASE q.thrown /\ q.halt = "none"
    <3>1. ErrorSinkChange(p, o) = ToError(Cleared(q)) BY <1>3, <2>1, <2>2 DEF Catch, Cleared
    <3> HIDE DEF q
    <3>2. Good(Cleared(q)) /\ Idle(Cleared(q)) BY <1>2, ClearedGood DEF Idle, SamePlace
    <3> QED BY <3>1, <3>2, ToErrorGood DEF Idle
  <2>3. CASE ~(q.thrown /\ q.halt = "none")
    <3>1. ErrorSinkChange(p, o) = q BY <1>3, <2>1, <2>3 DEF Catch
    <3> QED BY <1>2, <3>1 DEF Idle
  <2> QED BY <2>2, <2>3
<1> QED BY <1>4, <1>5

LEMMA ErrorPlayGood ==
    ASSUME NEW p, Good(p), Ok(p), p.state = "Error", NEW o \in Outcomes
    PROVE  Good(ErrorPlay(p, o))
<1> DEFINE q == ErrorSinkChange(p, o)
<1>1. Good(q) /\ Idle(q) BY ErrorSinkChangeGood
<1>2. ErrorPlay(p, o) = IF Ok(q) /\ q.state # "Error" THEN StoppedPlay(q, o) ELSE q
  BY DEF ErrorPlay, Then
<1> HIDE DEF q
<1> QED BY <1>1, <1>2, StoppedPlayGood DEF Idle

LEMMA PausedPlayGood ==
    ASSUME NEW p, Good(p), Ok(p), NEW o \in Outcomes
    PROVE  Good(PausedPlay(p, o))
<1> DEFINE q == DevPlay(p, o)
<1>1. Sound(q) /\ SamePlace(p, q) /\ (q.thrown => q.dev = p.dev \/ ~q.dev.fd)
  BY DevPlaySound DEF Good, Ok
<1>2. PausedPlay(p, o) = IF Ok(q) THEN ToPlaying(q) ELSE q BY DEF PausedPlay, Then
<1> HIDE DEF q
<1>3. CASE Ok(q) BY <1>1, <1>2, <1>3, ToPlayingGood
<1>4. CASE ~Ok(q)
  <2>1. CASE q.thrown BY <1>1, <1>2, <1>4, <2>1, KeepsGood DEF Ok, SamePlace
  <2>2. CASE q.halt # "none" BY <1>1, <1>2, <1>4, <2>2 DEF Good, Agree
  <2> QED BY <1>4, <2>1, <2>2 DEF Ok
<1> QED BY <1>3, <1>4

LEMMA play_implGood ==
    ASSUME NEW p, Good(p), Ok(p), NEW o \in Outcomes
    PROVE  Good(play_impl(p, o))
<1>1. p.state \in {"Stopped", "Playing", "Paused", "Error"}
  BY DEF Good, Sound, PlayerRecord
<1>2. CASE p.state = "Stopped" BY <1>2, StoppedPlayGood DEF play_impl
<1>3. CASE p.state = "Error" BY <1>3, ErrorPlayGood DEF play_impl
<1>4. CASE p.state = "Paused" BY <1>4, PausedPlayGood DEF play_impl
<1>5. CASE p.state = "Playing" BY <1>5 DEF play_impl
<1> QED BY <1>1, <1>2, <1>3, <1>4, <1>5

LEMMA PlayingPauseGood ==
    ASSUME NEW p, Good(p), Ok(p), p.state = "Playing", NEW o \in Outcomes
    PROVE  Good(PlayingPause(p, o))
<1> DEFINE q == DevPause(p, o)
<1>1. /\ Sound(q) /\ SamePlace(p, q)
      /\ ~p.dev.fd /\ Ok(q) => ~q.dev.fd
      /\ p.dev.fd /\ p.dev.st = "Playing" =>
            \/ q.dev = p.dev /\ ~Ok(q)
            \/ q.dev.st = "Paused"
      /\ q.thrown => q.dev = p.dev \/ ~q.dev.fd
  BY DevPauseSound DEF Good
<1>2. PlayingPause(p, o) = IF Ok(q) THEN ToPaused(q) ELSE q BY DEF PlayingPause, Then
<1>3. ToPaused(q) = InState(q, "Paused") BY DEF ToPaused, InState
<1>4. p.dev.fd => p.dev.st = "Playing" BY DEF Good, Agree, Ok
<1> HIDE DEF q
<1>5. CASE Ok(q)
  <2>1. /\ Sound(ToPaused(q)) /\ ToPaused(q).state = "Paused" /\ ToPaused(q).dev = q.dev
    BY <1>1, <1>3, InStateSound
  <2>2. q.dev.fd => q.dev.st = "Paused" BY <1>1, <1>4, <1>5
  <2> QED BY <1>2, <1>5, <2>1, <2>2 DEF Good, Agree
<1>6. CASE ~Ok(q)
  <2>1. CASE q.thrown BY <1>1, <1>2, <1>6, <2>1, KeepsGood DEF Ok, SamePlace
  <2>2. CASE q.halt # "none" BY <1>1, <1>2, <1>6, <2>2 DEF Good, Agree
  <2> QED BY <1>6, <2>1, <2>2 DEF Ok
<1> QED BY <1>5, <1>6

LEMMA ErrorPauseGood ==
    ASSUME NEW p, Good(p), Ok(p), p.state = "Error", NEW o \in Outcomes
    PROVE  Good(ErrorPause(p, o))
<1> DEFINE q == ErrorSinkChange(p, o)
           r == StoppedPlay(q, o)
           s == CASE r.state = "Playing" -> PlayingPause(r, o)
                  [] r.state = "Error"   -> Halt(r, "recursion")
                  [] OTHER -> r
<1>1. Good(q) /\ Idle(q) BY ErrorSinkChangeGood
<1>2. ErrorPause(p, o) = IF ~Ok(q) \/ q.state = "Error" THEN q
                         ELSE IF Ok(r) THEN s ELSE r
  BY DEF ErrorPause, Then
<1> HIDE DEF q
<1>3. CASE ~Ok(q) \/ q.state = "Error" BY <1>1, <1>2, <1>3
<1>4. CASE Ok(q) /\ q.state # "Error"
  <2>1. Good(r) BY <1>1, <1>4, StoppedPlayGood DEF Idle
  <2> HIDE DEF r
  <2>2. CASE r.state = "Playing" /\ Ok(r) BY <1>2, <1>4, <2>1, <2>2, PlayingPauseGood
  <2>3. CASE r.state = "Error" /\ Ok(r)
    <3>1. s = Halt(r, "recursion") BY <2>3
    <3>2. Good(Halt(r, "recursion")) BY <2>1, HaltedGood DEF Halts
    <3> QED BY <1>2, <1>4, <2>3, <3>1, <3>2
  <2>4. CASE r.state \notin {"Playing", "Error"} \/ ~Ok(r)
    BY <1>2, <1>4, <2>1, <2>4
  <2> QED BY <2>2, <2>3, <2>4
<1> QED BY <1>3, <1>4

LEMMA pause_implGood ==
    ASSUME NEW p, Good(p), Ok(p), NEW o \in Outcomes
    PROVE  Good(pause_impl(p, o))
<1>1. CASE p.state = "Playing" BY <1>1, PlayingPauseGood DEF pause_impl
<1>2. CASE p.state = "Error" BY <1>2, ErrorPauseGood DEF pause_impl
<1>3. CASE p.state \notin {"Playing", "Error"} BY <1>3 DEF pause_impl
<1> QED BY <1>1, <1>2, <1>3

\* When it returns normally the player is Stopped or in Error.
LEMMA StateStopGood ==
    ASSUME NEW p, Good(p), Ok(p), NEW o \in Outcomes
    PROVE  /\ Good(StateStop(p, o))
           /\ Ok(StateStop(p, o)) => Idle(StateStop(p, o))
<1>1. p.state \in {"Stopped", "Playing", "Paused", "Error"}
  BY DEF Good, Sound, PlayerRecord
<1>2. CASE p.state \in {"Playing", "Paused"}
  <2> DEFINE q == DevStop(p, o)
  <2>1. /\ Sound(q) /\ SamePlace(p, q) /\ (q.dev = p.dev \/ ~q.dev.fd)
        /\ ~q.thrown => ~q.dev.fd
    BY DevStopSound DEF Good
  <2>2. StateStop(p, o) = IF Ok(q) THEN ToStopped(q) ELSE q
    BY <1>2 DEF StateStop, Then
  <2> HIDE DEF q
  <2>3. CASE Ok(q) BY <2>1, <2>2, <2>3, ToStoppedGood DEF Ok, Idle
  <2>4. CASE ~Ok(q) BY <2>1, <2>2, <2>4, KeepsGood DEF Ok, SamePlace
  <2> QED BY <2>3, <2>4
<1>3. CASE p.state = "Error" BY <1>3, ErrorSinkChangeGood DEF StateStop
<1>4. CASE p.state = "Stopped" BY <1>4 DEF StateStop, Idle
<1> QED BY <1>1, <1>2, <1>3, <1>4

LEMMA JumpToEndGood ==
    ASSUME NEW p, Good(p)
    PROVE  Good(JumpToEnd(p)) /\ SameDevice(p, JumpToEnd(p))
<1>1. CASE p.playlist = NoPlaylist
  <2>1. JumpToEnd(p) = Halt(p, "no playlist") BY <1>1 DEF JumpToEnd
  <2> QED BY <2>1, HaltedGood DEF Halts
<1>2. CASE p.playlist # NoPlaylist
  <2>1. p.playlist \in Playlists BY <1>2 DEF Good, Sound, PlayerRecord
  <2>2. Length(p.playlist) \in Nat BY <2>1, LengthNat
  <2>3. JumpToEnd(p) = jumpTo_impl(p, Length(p.playlist)) BY <1>2 DEF JumpToEnd
  <2> QED BY <2>2, <2>3, jumpTo_implGood
<1> QED BY <1>1, <1>2

LEMMA stop_implGood ==
    ASSUME NEW p, Good(p), Ok(p), NEW o \in Outcomes
    PROVE  /\ Good(stop_impl(p, o))
           /\ Ok(stop_impl(p, o)) => Idle(stop_impl(p, o))
<1> DEFINE q == StateStop(p, o)
<1>1. Good(q) /\ (Ok(q) => Idle(q)) BY StateStopGood
<1>2. stop_impl(p, o) = IF Ok(q) THEN JumpToEnd(q) ELSE q BY DEF stop_impl, Then
<1> HIDE DEF q
<1>3. CASE Ok(q)
  <2>1. Good(JumpToEnd(q)) /\ SameDevice(q, JumpToEnd(q)) BY <1>1, JumpToEndGood
  <2> QED BY <1>1, <1>2, <1>3, <2>1 DEF SameDevice, Idle
<1>4. CASE ~Ok(q) BY <1>1, <1>2, <1>4
<1> QED BY <1>3, <1>4

-----------------------------------------------------------------------------
(* Playback *)

\* A record whose queues are replaced.
Queued(p, in, ps, wr, dn) ==
    [p EXCEPT !.in_buf = in, !.posted = ps, !.writing = wr, !.done = dn]

LEMMA QueuedGood ==
    ASSUME NEW p, Good(p), NEW in \in Seq(Buffer), NEW ps \in Seq(Buffer),
           NEW wr \in Seq(Buffer), NEW dn \in Seq(Completion),
           wr # <<>> => p.dev.fd
    PROVE  /\ Good(Queued(p, in, ps, wr, dn)) /\ SamePlace(p, Queued(p, in, ps, wr, dn))
           /\ Queued(p, in, ps, wr, dn).thrown = p.thrown
           /\ Queued(p, in, ps, wr, dn).halt = p.halt
           /\ Queued(p, in, ps, wr, dn).dev = p.dev
<1> DEFINE q == Queued(p, in, ps, wr, dn)
<1>1. p \in PlayerRecord BY DEF Good, Sound
<1>2. q = [p EXCEPT !.in_buf = in, !.posted = ps, !.writing = wr, !.done = dn]
  BY DEF Queued
<1> HIDE DEF q
<1>3. q \in PlayerRecord BY <1>1, <1>2 DEF PlayerRecord
<1>4. /\ SamePlace(p, q) /\ q.thrown = p.thrown /\ q.halt = p.halt /\ q.dev = p.dev
      /\ q.writing = wr
  BY <1>1, <1>2 DEF PlayerRecord, SamePlace
<1>5. Sound(q) BY <1>3, <1>4 DEF Good, Sound, SamePlace
<1> QED BY <1>4, <1>5 DEF Good, Agree, SamePlace, q

LEMMA read_handlerGood ==
    ASSUME NEW p, Good(p), Ok(p), NEW ec, NEW o \in Outcomes
    PROVE  Good(read_handler(p, ec, o))
<1> DEFINE q == read_handler(p, ec, o)
<1>1. /\ p \in PlayerRecord /\ p.in_buf \in Seq(Buffer) /\ p.posted \in Seq(Buffer)
      /\ p.writing \in Seq(Buffer) /\ p.done \in Seq(Completion)
      /\ p.writing # <<>> => p.dev.fd
  BY DEF Good, Sound, PlayerRecord
<1>2. CASE p.in_buf # <<>> /\ q = [p EXCEPT !.posted = Append(p.posted, Head(p.in_buf)),
                                            !.in_buf = Tail(p.in_buf)]
  <2>1. Head(p.in_buf) \in Buffer /\ Tail(p.in_buf) \in Seq(Buffer)
    BY <1>1, <1>2, HeadTailProperties
  <2>2. Append(p.posted, Head(p.in_buf)) \in Seq(Buffer) BY <1>1, <2>1, AppendProperties
  <2> DEFINE in == Tail(p.in_buf)
             ps == Append(p.posted, Head(p.in_buf))
  <2>3. q = Queued(p, in, ps, p.writing, p.done) BY <1>1, <1>2 DEF Queued, PlayerRecord
  <2>4. in \in Seq(Buffer) /\ ps \in Seq(Buffer) BY <2>1, <2>2
  <2> HIDE DEF q, in, ps
  <2>5. Good(Queued(p, in, ps, p.writing, p.done)) BY <1>1, <2>4, QueuedGood
  <2> QED BY <2>3, <2>5 DEF q
<1>3. CASE q = Halt(p, "relock") BY <1>3, HaltedGood DEF Halts
<1>4. CASE q = Halt(p, "drained") BY <1>4, HaltedGood DEF Halts
<1>5. CASE q = stop_impl(p, o) BY <1>5, stop_implGood
<1>6. \/ /\ p.in_buf # <<>>
         /\ q = [p EXCEPT !.posted = Append(p.posted, Head(p.in_buf)),
                          !.in_buf = Tail(p.in_buf)]
      \/ q = Halt(p, "relock") \/ q = Halt(p, "drained") \/ q = stop_impl(p, o)
  BY DEF read_handler
<1> QED BY <1>2, <1>3, <1>4, <1>5, <1>6

LEMMA PreloadGood ==
    ASSUME NEW p, Good(p)
    PROVE  /\ Good(Preload(p)) /\ SameDevice(p, Preload(p))
           /\ Preload(p).cur = p.cur
<1> DEFINE q == Preload(p)
           nt == Succ(p.iter)
<1>1. /\ p \in PlayerRecord /\ p.iter \in Iterator /\ IteratorSound(p.iter)
      /\ p.cur \in Source /\ SourceSound(p.cur)
  BY DEF Good, Sound, PlayerRecord
<1>2. nt \in Iterator BY <1>1, SuccSound
<1>3. CASE q = p BY <1>3 DEF SameDevice
<1>4. CASE q = Halt(p, "iterator") \/ q = Halt(p, "preload")
  <2>1. PICK why \in Halts \ {"none"} : q = Halt(p, why) BY <1>4 DEF Halts
  <2>2. Good(q) /\ SameDevice(p, q) /\ SamePlace(p, q)
    BY <2>1, HaltedGood, HaltGood DEF Good
  <2> QED BY <2>2 DEF SamePlace
<1>5. CASE OnTrack(nt) /\ q = [p EXCEPT !.nxt = Open(TrackAt(nt))]
  <2> DEFINE s == Open(TrackAt(nt))
  <2>1. s \in Source /\ SourceSound(s) BY <1>2, <1>5, TrackAtTrack, OpenSound
  <2>2. q = Moved(p, p.iter, p.cur, s) BY <1>1, <1>5 DEF Moved, PlayerRecord
  <2> HIDE DEF q, s
  <2> QED BY <1>1, <2>1, <2>2, MoveGood DEF q
<1>6. \/ q = p \/ q = Halt(p, "iterator") \/ q = Halt(p, "preload")
      \/ OnTrack(nt) /\ q = [p EXCEPT !.nxt = Open(TrackAt(nt))]
  BY DEF Preload
<1> QED BY <1>3, <1>4, <1>5, <1>6

LEMMA ChooseSourceGood ==
    ASSUME NEW p, Good(p)
    PROVE  /\ Good(ChooseSource(p)) /\ SameDevice(p, ChooseSource(p))
           /\ Ok(ChooseSource(p)) => ChooseSource(p).cur # NoSource
<1> DEFINE q == ChooseSource(p)
<1>1. /\ p \in PlayerRecord /\ p.iter \in Iterator /\ IteratorSound(p.iter)
      /\ p.nxt \in Source /\ SourceSound(p.nxt)
  BY DEF Good, Sound, PlayerRecord
<1>2. CASE p.cur # NoSource BY <1>2 DEF ChooseSource, SameDevice
<1>3. CASE p.cur = NoSource /\ p.nxt # NoSource
  <2>1. q = [p EXCEPT !.cur = p.nxt, !.nxt = NoSource] BY <1>3 DEF ChooseSource
  <2>2. q = Moved(p, p.iter, p.nxt, NoSource) BY <1>1, <2>1 DEF Moved, PlayerRecord
  <2> HIDE DEF q
  <2> QED BY <1>1, <1>3, <2>2, MoveGood, NothingSound DEF q
<1>4. CASE p.cur = NoSource /\ p.nxt = NoSource
  <2>1. CASE q = Halt(p, "iterator") \/ q = Halt(p, "source")
    <3>1. PICK why \in Halts \ {"none"} : q = Halt(p, why) BY <2>1 DEF Halts
    <3> QED BY <3>1, HaltedGood
  <2>2. CASE OnTrack(p.iter) /\ TrackAt(p.iter) \notin Broken
    <3> DEFINE s == Open(TrackAt(p.iter))
    <3>1. q = [p EXCEPT !.cur = s] BY <1>4, <2>2 DEF ChooseSource
    <3>2. TrackAt(p.iter) \in Tracks BY <1>1, <2>2, TrackAtTrack
    <3>3. s \in Source /\ SourceSound(s) BY <3>2, OpenSound
    <3>4. s # NoSource BY <2>2, <3>2, NullAssumption DEF Open, NoSource
    <3>5. q = Moved(p, p.iter, s, p.nxt) BY <1>1, <3>1 DEF Moved, PlayerRecord
    <3> HIDE DEF q, s
    <3> QED BY <1>1, <3>3, <3>4, <3>5, MoveGood DEF q
  <2>3. \/ q = Halt(p, "iterator") \/ q = Halt(p, "source")
        \/ OnTrack(p.iter) /\ TrackAt(p.iter) \notin Broken
    BY <1>4 DEF ChooseSource
  <2> QED BY <2>1, <2>2, <2>3
<1> QED BY <1>2, <1>3, <1>4

LEMMA AdvancedGood ==
    ASSUME NEW p, Good(p), p.cur # NoSource
    PROVE  Good(Advanced(p)) /\ SameDevice(p, Advanced(p))
<1> DEFINE q == Advanced(p)
           s == [p.cur EXCEPT !.pos = @ + 1]
<1>1. /\ p \in PlayerRecord /\ p.iter \in Iterator /\ IteratorSound(p.iter)
      /\ p.cur \in Source /\ p.cur.track \in Tracks
      /\ p.nxt \in Source /\ SourceSound(p.nxt)
  BY DEF Good, Sound, PlayerRecord, SourceSound
<1>2. CASE q = p BY <1>2 DEF SameDevice
<1>3. CASE q = [p EXCEPT !.cur = s]
  <2>1. s \in Source /\ SourceSound(s) BY <1>1 DEF Source, SourceSound
  <2> HIDE DEF s
  <2>2. q = Moved(p, p.iter, s, p.nxt) BY <1>1, <1>3 DEF Moved, PlayerRecord
  <2> HIDE DEF q
  <2> QED BY <1>1, <2>1, <2>2, MoveGood DEF q
<1> QED BY <1>2, <1>3 DEF Advanced

LEMMA DecodeGood ==
    ASSUME NEW p, Good(p), p.cur # NoSource
    PROVE  Good(Decode(p)) /\ SameDevice(p, Decode(p))
<1> DEFINE q == Advanced(p)
<1>1. Good(q) /\ SameDevice(p, q) BY AdvancedGood
<1>2. Decode(p) = next_impl(q) \/ Decode(p) = q BY DEF Decode
<1> HIDE DEF q
<1>3. Good(next_impl(q)) /\ SameDevice(q, next_impl(q)) BY <1>1, next_implGood
<1> QED BY <1>1, <1>2, <1>3 DEF SameDevice

LEMMA QueueGood ==
    ASSUME NEW p, Good(p), NEW s \in Source, s.track \in Tracks
    PROVE  /\ Good(Queue(p, s)) /\ Queue(p, s).thrown = p.thrown
           /\ Queue(p, s).halt = p.halt
<1> DEFINE b == [track |-> s.track, idx |-> s.pos]
<1>1. /\ p \in PlayerRecord /\ p.in_buf \in Seq(Buffer) /\ p.posted \in Seq(Buffer)
      /\ p.writing \in Seq(Buffer) /\ p.done \in Seq(Completion)
      /\ p.writing # <<>> => p.dev.fd
  BY DEF Good, Sound, PlayerRecord
<1>2. b \in Buffer BY DEF Source, Buffer
<1>3. Queue(p, s) = [p EXCEPT !.in_buf = Append(p.in_buf, b)] BY DEF Queue
<1> HIDE DEF b
<1>4. Append(p.in_buf, b) \in Seq(Buffer) BY <1>1, <1>2, AppendProperties
<1> DEFINE in == Append(p.in_buf, b)
<1>5. Queue(p, s) = Queued(p, in, p.posted, p.writing, p.done)
  BY <1>1, <1>3 DEF Queued, PlayerRecord
<1>6. in \in Seq(Buffer) BY <1>4
<1> HIDE DEF in
<1>7. /\ Good(Queued(p, in, p.posted, p.writing, p.done))
      /\ Queued(p, in, p.posted, p.writing, p.done).thrown = p.thrown
      /\ Queued(p, in, p.posted, p.writing, p.done).halt = p.halt
  BY <1>1, <1>6, QueuedGood
<1> QED BY <1>5, <1>7

LEMMA PostGood ==
    ASSUME NEW p, Good(p), Ok(p), NEW s \in Source, s.track \in Tracks,
           NEW o \in Outcomes
    PROVE  Good(Post(p, s, o))
<1> DEFINE q == Queue(p, s)
<1>1. Good(q) /\ Ok(q) BY QueueGood DEF Ok
<1>2. Good(read_handler(q, DecodeError(s), o))
  <2> HIDE DEF q
  <2> QED BY <1>1, read_handlerGood
<1>3. Good(Halt(p, "buffered")) /\ Good(Halt(p, "widen")) BY HaltedGood DEF Halts
<1> QED BY <1>2, <1>3 DEF Post

LEMMA RecoverGood ==
    ASSUME NEW p, Good(p), Ok(p), NEW o \in Outcomes
    PROVE  Good(Recover(p, o))
<1> DEFINE q == stop_impl(p, o)
           r == Then(q, next_impl)
<1>1. Good(q) BY stop_implGood
<1>2. r = IF Ok(q) THEN next_impl(q) ELSE q BY DEF Then
<1> HIDE DEF q
<1>3. Good(r) BY <1>1, <1>2, next_implGood
<1>4. Recover(p, o) = IF Ok(r) THEN PlayFromIterator(r, o) ELSE r
  BY DEF Recover, Then, q
<1> HIDE DEF r
<1>5. Ok(r) => Good(PlayFromIterator(r, o)) BY <1>3, play_implGood DEF PlayFromIterator
<1> QED BY <1>3, <1>4, <1>5

LEMMA DecodeFailedGood ==
    ASSUME NEW p, Good(p), Ok(p), NEW o \in Outcomes
    PROVE  Good(DecodeFailed(p, o))
<1> DEFINE q == Recover(p, o)
           ec == IF Codec[p.cur.track] = "wavpack" THEN "eof" ELSE "ok"
<1>1. Good(q) BY RecoverGood
<1>2. DecodeFailed(p, o) = IF Ok(q) THEN read_handler(q, ec, o) ELSE q
  BY DEF DecodeFailed, Then
<1> HIDE DEF q, ec
<1> QED BY <1>1, <1>2, read_handlerGood

LEMMA DecodeAndPostGood ==
    ASSUME NEW p, Good(p), Ok(p), p.cur # NoSource, NEW o \in Outcomes
    PROVE  Good(DecodeAndPost(p, o))
<1> DEFINE q == Decode(p)
<1>1. Good(q) BY DecodeGood
<1>2. p.cur \in Source /\ p.cur.track \in Tracks
  BY DEF Good, Sound, PlayerRecord, SourceSound
<1>3. CASE o.fault = "decode" BY <1>3, DecodeFailedGood DEF DecodeAndPost
<1>4. CASE o.fault # "decode"
  <2>1. DecodeAndPost(p, o) = IF Ok(q) THEN Post(q, p.cur, o) ELSE q
    BY <1>4 DEF DecodeAndPost, Then
  <2> HIDE DEF q
  <2> QED BY <1>1, <1>2, <2>1, PostGood
<1> QED BY <1>3, <1>4

LEMMA ReprepareGood ==
    ASSUME NEW p, Good(p), Ok(p), p.cur # NoSource, NEW o \in Outcomes
    PROVE  Good(Reprepare(p, o))
<1> DEFINE q == Decode(p)
           r == Then(q, LAMBDA x : StateStop(x, o))
           s == Then(r, LAMBDA x : play_impl(x, o))
           c == Cleared(s)
           u == Recover(c, o)
           ec == DecodeError(p.cur)
<1>1. Good(q) BY DecodeGood
<1>2. r = IF Ok(q) THEN StateStop(q, o) ELSE q BY DEF Then
<1> HIDE DEF q
<1>3. Good(r) BY <1>1, <1>2, StateStopGood
<1>4. s = IF Ok(r) THEN play_impl(r, o) ELSE r BY DEF Then
<1> HIDE DEF r
<1>5. Good(s) BY <1>3, <1>4, play_implGood
<1>6. Reprepare(p, o) = IF s.thrown /\ s.halt = "none"
                        THEN (IF Ok(u) THEN read_handler(u, ec, o) ELSE u) ELSE s
  BY DEF Reprepare, Restart, Catch, Then, Cleared, q, r
<1> HIDE DEF s
<1>7. CASE s.thrown /\ s.halt = "none"
  <2>1. Good(c) /\ Ok(c) BY <1>5, <1>7, ClearedGood DEF Ok
  <2> HIDE DEF c
  <2>2. Good(u) BY <2>1, RecoverGood
  <2> HIDE DEF u, ec
  <2> QED BY <1>6, <1>7, <2>2, read_handlerGood
<1>8. CASE ~(s.thrown /\ s.halt = "none") BY <1>5, <1>6, <1>8
<1> QED BY <1>7, <1>8

-----------------------------------------------------------------------------
(* A change of the output device *)

LEMMA SwitchDeviceGood ==
    ASSUME NEW p, Good(p), Ok(p), NEW o \in Outcomes
    PROVE  Good(SwitchDevice(p, o))
<1> DEFINE q == DevStop(p, o)
           r == Then(q, LAMBDA x : ChangeDevice(x, o))
           s == Then(r, LAMBDA x : play_impl(x, o))
<1>1. /\ Sound(q) /\ SamePlace(p, q) /\ (q.dev = p.dev \/ ~q.dev.fd)
      /\ ~q.thrown => ~q.dev.fd
  BY DevStopSound DEF Good
<1>2. Good(q) BY <1>1, KeepsGood DEF Ok, SamePlace
<1>3. r = IF Ok(q) THEN ChangeDevice(q, o) ELSE q BY DEF Then
<1> HIDE DEF q
<1>4. Good(r)
  <2> DEFINE u == ChangeDevice(q, o)
  <2>1. Sound(u) /\ SamePlace(q, u) /\ (u.dev = q.dev \/ ~u.dev.fd)
    BY <1>1, ChangeDeviceSound
  <2> HIDE DEF u
  <2>2. Ok(q) => Good(u) BY <1>2, <2>1, KeepsGood DEF Ok, SamePlace
  <2> QED BY <1>2, <1>3, <2>2 DEF u
<1>5. s = IF Ok(r) THEN play_impl(r, o) ELSE r BY DEF Then
<1> HIDE DEF r
<1>6. Good(s) BY <1>4, <1>5, play_implGood
<1>7. SwitchDevice(p, o) = IF Ok(s) THEN SeekBack(s) ELSE s BY DEF SwitchDevice, Then, q, r
<1> HIDE DEF s
<1>8. Good(SeekBack(s))
  <2>1. SeekBack(s) = s \/ SeekBack(s) = Halt(s, "source") BY DEF SeekBack
  <2>2. Good(Halt(s, "source")) BY <1>6, HaltedGood DEF Halts
  <2> QED BY <1>6, <2>1, <2>2
<1> QED BY <1>6, <1>7, <1>8

LEMMA sinkChangeSlotGood ==
    ASSUME NEW p, Good(p), Ok(p), NEW o \in Outcomes
    PROVE  Good(sinkChangeSlot(p, o))
<1> DEFINE s == StateSinkChange(p, o)
           c == Cleared(s)
           u == stop_impl(c, o)
<1>1. Good(s)
  <2>1. p.state \in {"Stopped", "Playing", "Paused", "Error"}
    BY DEF Good, Sound, PlayerRecord
  <2>2. CASE p.state = "Stopped" BY <2>2 DEF StateSinkChange
  <2>3. CASE p.state = "Error" BY <2>3, ErrorSinkChangeGood DEF StateSinkChange
  <2>4. CASE p.state = "Playing" BY <2>4, SwitchDeviceGood DEF StateSinkChange
  <2>5. CASE p.state = "Paused"
    <3> DEFINE w == SwitchDevice(p, o)
    <3>1. Good(w) BY SwitchDeviceGood
    <3>2. s = IF Ok(w) THEN pause_impl(w, o) ELSE w BY <2>5 DEF StateSinkChange, Then
    <3> HIDE DEF w
    <3>3. Ok(w) => Good(pause_impl(w, o)) BY <3>1, pause_implGood
    <3> HIDE DEF s
    <3> QED BY <3>1, <3>2, <3>3 DEF s
  <2> QED BY <2>1, <2>2, <2>3, <2>4, <2>5
<1>2. sinkChangeSlot(p, o) = IF s.thrown /\ s.halt = "none"
                             THEN (IF Ok(u) THEN ToError(u) ELSE u) ELSE s
  BY DEF sinkChangeSlot, Catch, Then, Cleared
<1> HIDE DEF s
<1>3. CASE s.thrown /\ s.halt = "none"
  <2>1. Good(c) /\ Ok(c) BY <1>1, <1>3, ClearedGood DEF Ok
  <2> HIDE DEF c
  <2>2. Good(u) /\ (Ok(u) => Idle(u)) BY <2>1, stop_implGood
  <2> HIDE DEF u
  <2> QED BY <1>2, <1>3, <2>2, ToErrorGood
<1>4. CASE ~(s.thrown /\ s.halt = "none") BY <1>1, <1>2, <1>4
<1> QED BY <1>3, <1>4

-----------------------------------------------------------------------------
(* The actions *)

OthersOK ==
    /\ call \in [Threads -> Calls]
    /\ sig \in {"idle", "assigned"}
    /\ sinkSlot \in BOOLEAN
    /\ commands \in 0..MaxOps

LEMMA InvNext ==
    ASSUME Good(player'), ~player'.thrown, OthersOK'
    PROVE  Inv'
<1>1. player' \in PlayerRecord BY DEF Good, Sound
<1> QED BY <1>1 DEF Inv, TypeOK, OthersOK

LEMMA EndedGood ==
    ASSUME NEW q, Good(q)
    PROVE  /\ Good(Halt(Cleared(q), "terminated")) /\ ~Halt(Cleared(q), "terminated").thrown
           /\ Good(Cleared(q)) /\ ~Cleared(q).thrown
<1>1. Good(Cleared(q)) /\ ~Cleared(q).thrown BY ClearedGood
<1>2. Sound(Cleared(q)) /\ "terminated" \in Halts \ {"none"} BY <1>1 DEF Good, Halts
<1> QED BY <1>1, <1>2, HaltGood

LEMMA LeaveInv ==
    ASSUME Inv, NEW t \in Threads, NEW q, Good(q), NEW again \in Calls, Leave(t, q, again)
    PROVE  Inv'
<1>1. Good(player') /\ ~player'.thrown
  <2>1. player' = Halt(Cleared(q), "terminated") \/ player' = Cleared(q)
    BY DEF Leave, Cleared
  <2> QED BY <2>1, EndedGood
<1>2. OthersOK'
  <2>1. OthersOK BY DEF Inv, TypeOK, OthersOK
  <2>2. "dead" \in Calls /\ "none" \in Calls BY DEF Calls
  <2>3. \E k \in Calls : call' = [call EXCEPT ![t] = k] BY <2>2 DEF Leave
  <2>4. call' \in [Threads -> Calls] BY <2>1, <2>3 DEF OthersOK
  <2> QED BY <2>1, <2>4 DEF OthersOK, Leave
<1> QED BY <1>1, <1>2, InvNext

LEMMA ReturnGood ==
    ASSUME NEW q, Good(q), Return(q)
    PROVE  Good(player') /\ ~player'.thrown
<1>1. CASE q.thrown
  <2>1. player' = Halt(Cleared(q), "terminated") BY <1>1 DEF Return, Cleared
  <2> QED BY <2>1, EndedGood
<1>2. CASE ~q.thrown BY <1>2 DEF Return
<1> QED BY <1>1, <1>2

\* Every call of write_handler keeps the invariant.
LEMMA WriteHandlerInv ==
    ASSUME Inv, NEW t \in Threads, WriteHandler(t)
    PROVE  Inv'
<1> DEFINE pre == Preload(player)
           p == Chosen(pre)
<1>1. Good(player) /\ ~player.thrown BY DEF Inv
<1>2. Good(pre) /\ SameDevice(player, pre) BY <1>1, PreloadGood
<1>3. "none" \in Calls /\ "ok" \in Calls /\ "failed" \in Calls BY DEF Calls
<1>4. CASE WriteIgnored(t)
  <2>1. Leave(t, player, "none") BY <1>4 DEF WriteIgnored
  <2> QED BY <1>1, <1>3, <2>1, LeaveInv
<1> HIDE DEF pre
<1>5. CASE WriteFailed(t)
  <2>1. PICK o \in Outcomes :
           Leave(t, Then(pre, LAMBDA x : IF call[t] = "canceled" THEN x ELSE stop_impl(x, o)),
                 "none")
    BY <1>5 DEF WriteFailed, pre
  <2> DEFINE q == Then(pre, LAMBDA x : IF call[t] = "canceled" THEN x ELSE stop_impl(x, o))
  <2>2. q = pre \/ (Ok(pre) /\ q = stop_impl(pre, o)) BY DEF Then
  <2>3. Good(q)
    <3> HIDE DEF q
    <3> QED BY <1>2, <2>2, stop_implGood
  <2>4. Leave(t, q, "none") BY <2>1
  <2> HIDE DEF q
  <2> QED BY <1>3, <2>3, <2>4, LeaveInv
<1>6. CASE WriteAtEnd(t)
  <2>1. PICK o \in Outcomes :
           Leave(t, Then(pre, LAMBDA x : read_handler(x, "eof", o)), "none")
    BY <1>6 DEF WriteAtEnd, pre
  <2> DEFINE q == Then(pre, LAMBDA x : read_handler(x, "eof", o))
  <2>2. q = pre \/ (Ok(pre) /\ q = read_handler(pre, "eof", o)) BY DEF Then
  <2>3. Good(q)
    <3> HIDE DEF q
    <3> QED BY <1>2, <2>2, read_handlerGood
  <2>4. Leave(t, q, "none") BY <2>1
  <2> HIDE DEF q
  <2> QED BY <1>3, <2>3, <2>4, LeaveInv
<1>7. Good(p) /\ (Ok(p) => p.cur # NoSource)
  <2>1. p = IF Ok(pre) THEN ChooseSource(pre) ELSE pre BY DEF Chosen, Then
  <2> HIDE DEF p
  <2> QED BY <1>2, <2>1, ChooseSourceGood
<1>8. CASE WriteQueued(t)
  <2>1. PICK o \in Outcomes :
           Leave(t, Then(p, LAMBDA x : read_handler(x, "ok", o)), "none")
    BY <1>8 DEF WriteQueued, pre
  <2> HIDE DEF p
  <2> DEFINE q == Then(p, LAMBDA x : read_handler(x, "ok", o))
  <2>2. q = p \/ (Ok(p) /\ q = read_handler(p, "ok", o)) BY DEF Then
  <2>3. Good(q)
    <3> HIDE DEF q
    <3> QED BY <1>7, <2>2, read_handlerGood
  <2>4. Leave(t, q, "none") BY <2>1
  <2> HIDE DEF q
  <2> QED BY <1>3, <2>3, <2>4, LeaveInv
<1>9. CASE WriteDecoded(t)
  <2>1. PICK o \in Outcomes :
           \/ /\ Ok(p)
              /\ Leave(t, Reprepare(p, o), Again(p, o))
           \/ Leave(t, Then(p, LAMBDA x : DecodeAndPost(x, o)), "none")
    BY <1>9 DEF WriteDecoded, pre
  <2> HIDE DEF p
  <2>2. CASE /\ Ok(p)
             /\ Leave(t, Reprepare(p, o), Again(p, o))
    <3> DEFINE k == Again(p, o)
    <3>1. k \in Calls BY DEF Calls, Again
    <3>2. Good(Reprepare(p, o)) BY <1>7, <2>2, ReprepareGood
    <3>3. Leave(t, Reprepare(p, o), k) BY <2>2
    <3> HIDE DEF k
    <3> QED BY <3>1, <3>2, <3>3, LeaveInv
  <2>3. CASE Leave(t, Then(p, LAMBDA x : DecodeAndPost(x, o)), "none")
    <3> DEFINE q == Then(p, LAMBDA x : DecodeAndPost(x, o))
    <3>1. q = p \/ (Ok(p) /\ q = DecodeAndPost(p, o)) BY DEF Then
    <3>2. Good(q)
      <4> HIDE DEF q
      <4> QED BY <1>7, <3>1, DecodeAndPostGood
    <3>3. Leave(t, q, "none") BY <2>3
    <3> HIDE DEF q
    <3> QED BY <1>3, <3>2, <3>3, LeaveInv
  <2> QED BY <2>1, <2>2, <2>3
<1> QED BY <1>4, <1>5, <1>6, <1>8, <1>9 DEF WriteHandler

\* A command or a device step that replaces the record by a good one.
LEMMA StartWriteInv ==
    ASSUME Inv, NEW i \in 1..Len(player.posted), StartWrite(i)
    PROVE  Inv'
<1> DEFINE p == player
           buf == p.posted[i]
           rest == [j \in 1..(Len(p.posted) - 1) |-> p.posted[IF j < i THEN j ELSE j + 1]]
<1>1. /\ Good(p) /\ ~p.thrown /\ OthersOK /\ p \in PlayerRecord
      /\ p.in_buf \in Seq(Buffer) /\ p.posted \in Seq(Buffer)
      /\ p.writing \in Seq(Buffer) /\ p.done \in Seq(Completion)
      /\ p.writing # <<>> => p.dev.fd
  BY DEF Inv, TypeOK, Good, Sound, PlayerRecord, OthersOK
<1>2. buf \in Buffer BY <1>1, ElementOfSeq
<1>3. rest \in Seq(Buffer)
  <2>1. Len(p.posted) \in Nat /\ p.posted \in [1..Len(p.posted) -> Buffer]
    BY <1>1, LenProperties
  <2>2. Len(p.posted) - 1 \in Nat BY <2>1
  <2>3. rest \in [1..(Len(p.posted) - 1) -> Buffer] BY <2>1
  <2>4. rest \in UNION {[1..n -> Buffer] : n \in Nat} BY <2>2, <2>3
  <2> QED BY <2>4, SeqDef
<1> DEFINE wr == Append(p.writing, buf)
           dn == Append(p.done, [buf |-> buf, ec |-> "failed"])
<1>4. wr \in Seq(Buffer) BY <1>1, <1>2, AppendProperties
<1>5. dn \in Seq(Completion)
  <2>1. [buf |-> buf, ec |-> "failed"] \in Completion BY <1>2 DEF Completion
  <2> QED BY <1>1, <2>1, AppendProperties
<1>6. \/ p.dev.fd /\ player' = Queued(p, p.in_buf, rest, wr, p.done)
      \/ ~p.dev.fd /\ player' = Queued(p, p.in_buf, rest, p.writing, dn)
  BY <1>1 DEF StartWrite, Queued, PlayerRecord
<1>7. OthersOK' BY <1>1 DEF StartWrite, OthersOK
<1> DEFINE w == Queued(p, p.in_buf, rest, wr, p.done)
           f == Queued(p, p.in_buf, rest, p.writing, dn)
<1> HIDE DEF buf, rest, wr, dn
<1>8. p.dev.fd => Good(w) /\ w.thrown = p.thrown
  <2> HIDE DEF p
  <2> SUFFICES ASSUME p.dev.fd PROVE Good(w) /\ w.thrown = p.thrown  OBVIOUS
  <2>1. wr # <<>> => p.dev.fd  OBVIOUS
  <2>2. Good(p) /\ p.in_buf \in Seq(Buffer) /\ p.done \in Seq(Completion)  BY <1>1
  <2> QED BY <1>3, <1>4, <2>1, <2>2, QueuedGood
<1>9. Good(f) /\ f.thrown = p.thrown
  <2> HIDE DEF p
  <2> QED BY <1>1, <1>3, <1>5, QueuedGood
<1>10. Good(player') /\ ~player'.thrown
  <2>1. (p.dev.fd /\ player' = w) \/ (~p.dev.fd /\ player' = f) BY <1>6
  <2> HIDE DEF w, f, p
  <2> QED BY <1>1, <1>8, <1>9, <2>1
<1> QED BY <1>7, <1>10, InvNext

LEMMA ConsBuffer ==
    ASSUME NEW b \in Buffer, NEW s \in Seq(Buffer)
    PROVE  <<b>> \o s \in Seq(Buffer)
<1>1. <<b>> \in Seq(Buffer) OBVIOUS
<1> QED BY <1>1, ConcatProperties

LEMMA DeviceInv ==
    ASSUME Inv, DeviceWrite \/ DeviceFail \/ DeviceUnderrun \/ HandleError
    PROVE  Inv'
<1> DEFINE p == player
<1>1. /\ Good(p) /\ ~p.thrown /\ OthersOK /\ p \in PlayerRecord
      /\ p.in_buf \in Seq(Buffer) /\ p.posted \in Seq(Buffer)
      /\ p.writing \in Seq(Buffer) /\ p.done \in Seq(Completion)
      /\ p.writing # <<>> => p.dev.fd
  BY DEF Inv, TypeOK, Good, Sound, PlayerRecord, OthersOK
<1>2. CASE DeviceWrite
  <2> DEFINE wr == Tail(p.writing)
  <2>1. p.writing # <<>> BY <1>2 DEF DeviceWrite
  <2>2. wr \in Seq(Buffer) BY <1>1, <2>1, HeadTailProperties
  <2>3. player' = Queued(p, p.in_buf, p.posted, wr, p.done)
    BY <1>1, <1>2 DEF DeviceWrite, Queued, PlayerRecord
  <2> HIDE DEF wr
  <2>4. Good(player') /\ ~player'.thrown
    <3> HIDE DEF p
    <3> QED BY <1>1, <2>1, <2>2, <2>3, QueuedGood
  <2>5. OthersOK' BY <1>1, <1>2 DEF DeviceWrite, OthersOK, Threads, Calls
  <2> QED BY <2>4, <2>5, InvNext
<1>3. CASE DeviceFail \/ DeviceUnderrun
  <2> DEFINE wr == Tail(p.writing)
             in == <<Head(p.writing)>> \o p.in_buf
  <2>0. PICK ec \in {"failed", "ok"} : TakesLess(ec) BY <1>3 DEF DeviceFail, DeviceUnderrun
  <2>1. p.writing # <<>> BY <2>0 DEF TakesLess
  <2>2. wr \in Seq(Buffer) /\ Head(p.writing) \in Buffer BY <1>1, <2>1, HeadTailProperties
  <2>3. in \in Seq(Buffer) BY <1>1, <2>2, ConsBuffer
  <2>4. player' = Queued(p, in, p.posted, wr, p.done)
    BY <1>1, <2>0 DEF TakesLess, Queued, PlayerRecord
  <2> HIDE DEF wr, in
  <2> DEFINE q == Queued(p, in, p.posted, wr, p.done)
  <2>5. Good(player') /\ ~player'.thrown
    <3>1. Good(q) /\ q.thrown = p.thrown
      <4>1. Good(p) /\ p.posted \in Seq(Buffer) /\ p.done \in Seq(Completion) BY <1>1
      <4>2. wr \in Seq(Buffer) /\ (wr # <<>> => p.dev.fd) BY <1>1, <2>1, <2>2
      <4> HIDE DEF p
      <4> QED BY <2>3, <4>1, <4>2, QueuedGood
    <3>2. player' = q BY <2>4
    <3> HIDE DEF q, p
    <3> QED BY <1>1, <3>1, <3>2
  <2>6. OthersOK' BY <1>1, <2>0 DEF TakesLess, OthersOK, Threads, Calls
  <2> QED BY <2>5, <2>6, InvNext
<1>4. CASE HandleError
  <2> DEFINE c == Head(p.done)
             dn == Tail(p.done)
             in == <<c.buf>> \o p.in_buf
  <2>1. p.done # <<>> BY <1>4 DEF HandleError
  <2>2. c \in Completion /\ dn \in Seq(Completion) BY <1>1, <2>1, HeadTailProperties
  <2>3. c.buf \in Buffer /\ c.ec \in Calls BY <2>2 DEF Completion, Calls
  <2>4. in \in Seq(Buffer)
    <3> HIDE DEF c
    <3> QED BY <1>1, <2>3, ConsBuffer
  <2>5. player' = Queued(p, in, p.posted, p.writing, dn)
    BY <1>1, <1>4 DEF HandleError, Queued, PlayerRecord
  <2>6. OthersOK' BY <1>1, <1>4, <2>3 DEF HandleError, OthersOK, Threads
  <2> DEFINE q == Queued(p, in, p.posted, p.writing, dn)
  <2> HIDE DEF in, dn, c
  <2>7. Good(player') /\ ~player'.thrown
    <3>1. Good(q) /\ q.thrown = p.thrown
      <4> HIDE DEF p
      <4> QED BY <1>1, <2>2, <2>4, QueuedGood
    <3>2. player' = q BY <2>5
    <3> HIDE DEF q, p
    <3> QED BY <1>1, <3>1, <3>2
  <2> QED BY <2>6, <2>7, InvNext
<1> QED BY <1>2, <1>3, <1>4

\* What every command of the GUI thread does outside the record.
LEMMA CommandOthers ==
    ASSUME OthersOK, NEW op, Command(op), call' \in [Threads -> Calls]
    PROVE  OthersOK'
<1>1. commands' \in 0..MaxOps BY BoundAssumption DEF Command, OthersOK
<1> QED BY <1>1 DEF Command, OthersOK

LEMMA GuiCommandInv ==
    ASSUME Inv, GuiCommand
    PROVE  Inv'
<1> DEFINE p == player
<1>1. /\ Good(p) /\ ~p.thrown /\ OthersOK /\ p \in PlayerRecord
      /\ call \in [Threads -> Calls]
  BY DEF Inv, TypeOK, OthersOK
<1>2. CASE Play
  <2>1. PICK o \in Outcomes :
           /\ Return(play_impl(p, o))
           /\ call' = call \/ call' = [call EXCEPT !["gui"] = "ok"]
    BY <1>2 DEF Play
  <2>2. Command("play") BY <1>2 DEF Play
  <2>3. Good(play_impl(p, o))
    <3>1. Ok(p) BY <1>1, <2>2 DEF Command, Ok
    <3> QED BY <1>1, <3>1, play_implGood
  <2>4. Good(player') /\ ~player'.thrown BY <2>1, <2>3, ReturnGood
  <2>5. call' \in [Threads -> Calls] BY <1>1, <2>1 DEF Threads, Calls
  <2>6. OthersOK' BY <1>1, <2>2, <2>5, CommandOthers
  <2> QED BY <2>4, <2>6, InvNext
<1>3. CASE Pause
  <2>1. PICK o \in Outcomes : Return(pause_impl(p, o)) BY <1>3 DEF Pause
  <2>2. Command("pause") /\ call' = call BY <1>3 DEF Pause
  <2>3. Good(pause_impl(p, o))
    <3>1. Ok(p) BY <1>1, <2>2 DEF Command, Ok
    <3> QED BY <1>1, <3>1, pause_implGood
  <2>4. Good(player') /\ ~player'.thrown BY <2>1, <2>3, ReturnGood
  <2>5. OthersOK' BY <1>1, <2>2, CommandOthers
  <2> QED BY <2>4, <2>5, InvNext
<1>4. CASE Stop
  <2>1. PICK o \in Outcomes :
           Return(Then(stop_impl(p, o), LAMBDA x : [x EXCEPT !.in_buf = <<>>]))
    BY <1>4 DEF Stop
  <2>2. Command("stop") /\ call' = call BY <1>4 DEF Stop
  <2> DEFINE q == stop_impl(p, o)
             r == Then(q, LAMBDA x : [x EXCEPT !.in_buf = <<>>])
  <2>3. Good(q)
    <3>1. Ok(p) BY <1>1, <2>2 DEF Command, Ok
    <3> QED BY <1>1, <3>1, stop_implGood
  <2>4. r = q \/ r = [q EXCEPT !.in_buf = <<>>] BY DEF Then
  <2>5. Return(r) BY <2>1
  <2> HIDE DEF q, r
  <2>6. Good(r)
    <3>1. /\ q \in PlayerRecord /\ q.posted \in Seq(Buffer) /\ q.writing \in Seq(Buffer)
          /\ q.done \in Seq(Completion) /\ (q.writing # <<>> => q.dev.fd)
      BY <2>3 DEF Good, Sound, PlayerRecord
    <3>2. r = q \/ r = Queued(q, <<>>, q.posted, q.writing, q.done)
      BY <2>4, <3>1 DEF Queued, PlayerRecord
    <3>3. <<>> \in Seq(Buffer) BY EmptySeq
    <3> QED BY <2>3, <3>1, <3>2, <3>3, QueuedGood
  <2>7. Good(player') /\ ~player'.thrown BY <2>5, <2>6, ReturnGood
  <2>8. OthersOK' BY <1>1, <2>2, CommandOthers
  <2> QED BY <2>7, <2>8, InvNext
<1>5. CASE NextTrack
  <2>1. Command("next") /\ call' = call /\ Return(next_impl(p)) BY <1>5 DEF NextTrack
  <2>2. Good(player') /\ ~player'.thrown BY <1>1, <2>1, next_implGood, ReturnGood
  <2>3. OthersOK' BY <1>1, <2>1, CommandOthers
  <2> QED BY <2>2, <2>3, InvNext
<1>6. CASE PreviousTrack
  <2>0. PICK w \in Rewound(p.cur) :
           Command("previous") /\ call' = call /\ Return(previous_impl(p, w))
    BY <1>6 DEF PreviousTrack
  <2>1. Command("previous") /\ call' = call BY <2>0
  <2>2. Good(player') /\ ~player'.thrown
    <3>1. w \in Source /\ SourceSound(w)
      <4>1. p.cur \in Source /\ SourceSound(p.cur) BY <1>1 DEF Good, Sound, PlayerRecord
      <4> QED BY <4>1, RewoundOnTrack
    <3> QED BY <1>1, <2>0, <3>1, previous_implGood, ReturnGood
  <2>3. OthersOK' BY <1>1, <2>1, CommandOthers
  <2> QED BY <2>2, <2>3, InvNext
<1>7. CASE JumpTo
  <2>1. Command("jumpTo") /\ call' = call BY <1>7 DEF JumpTo
  <2> DEFINE top == IF p.playlist = NoPlaylist THEN 0 ELSE Length(p.playlist)
  <2>2. PICK n \in 0..top : Return(jumpTo_impl(p, n)) BY <1>7 DEF JumpTo
  <2>3. n \in Nat OBVIOUS
  <2>4. Good(player') /\ ~player'.thrown BY <1>1, <2>2, <2>3, jumpTo_implGood, ReturnGood
  <2>5. OthersOK' BY <1>1, <2>1, CommandOthers
  <2> QED BY <2>4, <2>5, InvNext
<1>8. CASE Seek
  <2>1. Command("seek") /\ call' = call /\ p.cur # NoSource BY <1>8 DEF Seek
  <2>2. PICK s \in Places(p.cur.track) : player' = [p EXCEPT !.cur = s]
    BY <1>8 DEF Seek
  <2>3. /\ p.cur \in Source /\ p.cur.track \in Tracks /\ p.iter \in Iterator
        /\ IteratorSound(p.iter) /\ p.nxt \in Source /\ SourceSound(p.nxt)
    BY <1>1, <2>1 DEF Good, Sound, PlayerRecord, SourceSound
  <2>4. s \in Source /\ SourceSound(s) BY <2>3, PlacesOnTrack
  <2>5. player' = Moved(p, p.iter, s, p.nxt) BY <1>1, <2>2 DEF Moved, PlayerRecord
  <2>6. Good(player') /\ ~player'.thrown
    <3> HIDE DEF p
    <3>1. Good(Moved(p, p.iter, s, p.nxt)) /\ SameDevice(p, Moved(p, p.iter, s, p.nxt))
      BY <1>1, <2>3, <2>4, MoveGood
    <3> QED BY <1>1, <2>5, <3>1 DEF SameDevice
  <2>7. OthersOK' BY <1>1, <2>1, CommandOthers
  <2> QED BY <2>6, <2>7, InvNext
<1> QED BY <1>2, <1>3, <1>4, <1>5, <1>6, <1>7, <1>8 DEF GuiCommand

LEMMA SignalStepInv ==
    ASSUME Inv, SignalStep
    PROVE  Inv'
<1> DEFINE p == player
<1>1. /\ Good(p) /\ ~p.thrown /\ OthersOK /\ p \in PlayerRecord
  BY DEF Inv, TypeOK, OthersOK
<1>2. CASE ChangePlaylist
  <2>1. PICK pl \in Playlists : player' = [p EXCEPT !.playlist = pl]
    BY <1>2 DEF ChangePlaylist
  <2> DEFINE q == [p EXCEPT !.playlist = pl]
  <2>2. player' = q BY <2>1
  <2>3. Good(q) /\ q.thrown = p.thrown
    <3> HIDE DEF p
    <3>1. q \in PlayerRecord BY <1>1 DEF PlayerRecord
    <3>2. /\ q.iter = p.iter /\ q.cur = p.cur /\ q.nxt = p.nxt /\ q.dev = p.dev
          /\ q.writing = p.writing /\ q.state = p.state /\ q.halt = p.halt
          /\ q.thrown = p.thrown
      BY <1>1 DEF PlayerRecord
    <3> HIDE DEF q
    <3> QED BY <1>1, <3>1, <3>2 DEF Good, Sound, Agree
  <2> HIDE DEF q
  <2>4. OthersOK'
    <3>1. commands' \in 0..MaxOps BY <1>1, <1>2, BoundAssumption DEF ChangePlaylist, OthersOK
    <3> QED BY <1>1, <1>2, <3>1 DEF ChangePlaylist, OthersOK
  <2>5. Good(player') /\ ~player'.thrown BY <1>1, <2>2, <2>3
  <2> QED BY <2>4, <2>5, InvNext
<1>3. CASE EnterPlaylist
  <2> DEFINE q == jumpTo_impl(p, 0)
  <2>1. player' = q BY <1>3 DEF EnterPlaylist
  <2>2. Good(q) /\ q.thrown = p.thrown
    <3> HIDE DEF p
    <3> QED BY <1>1, jumpTo_implGood DEF SameDevice
  <2>3. OthersOK' BY <1>1, <1>3 DEF EnterPlaylist, OthersOK
  <2> HIDE DEF q
  <2>4. Good(player') /\ ~player'.thrown BY <1>1, <2>1, <2>2
  <2> QED BY <2>3, <2>4, InvNext
<1>4. CASE ChangeSink
  <2>1. PICK o \in Outcomes :
           LET q == sinkChangeSlot(p, o)
           IN player' = [q EXCEPT !.thrown = FALSE] /\ sinkSlot' = ~q.thrown
    BY <1>4 DEF ChangeSink
  <2> DEFINE q == sinkChangeSlot(p, o)
  <2>2. Good(q)
    <3>1. Ok(p) BY <1>1, <1>4 DEF ChangeSink, Ok
    <3> HIDE DEF p
    <3> QED BY <1>1, <3>1, sinkChangeSlotGood
  <2>3. player' = Cleared(q) /\ sinkSlot' = ~q.thrown BY <2>1 DEF Cleared
  <2> HIDE DEF q
  <2>4. Good(player') /\ ~player'.thrown
    <3>1. Good(Cleared(q)) /\ ~Cleared(q).thrown BY <2>2, ClearedGood
    <3> QED BY <2>3, <3>1
  <2>5. OthersOK'
    <3>1. commands' \in 0..MaxOps BY <1>1, <1>4, BoundAssumption DEF ChangeSink, OthersOK
    <3>2. sinkSlot' \in BOOLEAN BY <2>3
    <3> QED BY <1>1, <1>4, <3>1, <3>2 DEF ChangeSink, OthersOK
  <2> QED BY <2>4, <2>5, InvNext
<1> QED BY <1>2, <1>3, <1>4 DEF SignalStep

-----------------------------------------------------------------------------
(* The invariant *)

LEMMA InitInv == Init => Inv
<1> SUFFICES ASSUME Init PROVE Inv
  OBVIOUS
<1>1. <<>> \in Seq(Buffer) /\ <<>> \in Seq(Completion) BY EmptySeq
<1>2. NoDevice \in Device BY DEF NoDevice, Device
<1>3. player \in PlayerRecord
  BY <1>1, <1>2, NothingSound DEF Init, PlayerRecord, Halts
<1>4. Good(player)
  BY <1>3, NothingSound DEF Init, Good, Sound, Agree, IteratorSound, NoDevice
<1>5. OthersOK BY BoundAssumption DEF Init, OthersOK, Threads, Calls
<1>6. ~player.thrown BY DEF Init
<1> QED BY <1>3, <1>4, <1>5, <1>6 DEF Inv, TypeOK, OthersOK

LEMMA NextInv == Inv /\ [Next]_vars => Inv'
<1> SUFFICES ASSUME Inv, [Next]_vars PROVE Inv'
  OBVIOUS
<1>1. CASE AudioStep
  <2>1. CASE WriteHandler("audio")
    <3>1. "audio" \in Threads BY DEF Threads
    <3> QED BY <2>1, <3>1, WriteHandlerInv
  <2> QED BY <1>1, <2>1, DeviceInv DEF AudioStep
<1>2. CASE PoolStep BY <1>2, StartWriteInv DEF PoolStep
<1>3. CASE GuiCommand BY <1>3, GuiCommandInv
<1>4. CASE WriteHandler("gui")
  <2>1. "gui" \in Threads BY DEF Threads
  <2> QED BY <1>4, <2>1, WriteHandlerInv
<1>5. CASE SignalStep BY <1>5, SignalStepInv
<1>6. CASE UNCHANGED vars
  <2>1. player' = player /\ OthersOK'
    BY <1>6 DEF vars, Inv, TypeOK, OthersOK
  <2>2. Good(player) /\ ~player.thrown BY DEF Inv
  <2> QED BY <2>1, <2>2, InvNext
<1> QED BY <1>1, <1>2, <1>3, <1>4, <1>5, <1>6 DEF Next

\* Whatever the commands, the failing calls and the order of the threads, the
\* record that mu protects stays well formed: iterators point into playlists,
\* sources decode known tracks, writes wait only for a device that is set up.
THEOREM InvHolds == Spec => []Inv
<1> QED BY InitInv, NextInv, PTL DEF Spec

\* Every variable of the player keeps its type, with any number of playlists,
\* tracks, buffers and commands.
THEOREM TypeCorrect == Spec => []TypeOK
<1>1. Inv => TypeOK BY DEF Inv
<1> QED BY <1>1, InvHolds, PTL

\* A set-up device plays exactly when the player is Playing and is paused
\* exactly when it is Paused (asioOutput and current_state of player.cpp), for
\* every combination of failing calls, commands and late completions.
THEOREM StateMatches == Spec => []StateMatchesDevice
<1>1. Inv => StateMatchesDevice BY DEF Inv, Good, Agree, StateMatchesDevice
<1> QED BY <1>1, InvHolds, PTL

\* stop, changeDevice and a failing prepare never leave a write waiting on a
\* descriptor they closed.
THEOREM NoOrphaned == Spec => []NoOrphanedWrite
<1>1. Inv => NoOrphanedWrite BY DEF Inv, Good, Sound, NoOrphanedWrite
<1> QED BY <1>1, InvHolds, PTL

\* What a step that is nobody's command leaves alone.
Untouched ==
    /\ player'.state = player.state /\ player'.iter = player.iter
    /\ player'.cur = player.cur /\ player'.nxt = player.nxt
    /\ player'.dev = player.dev

\* Where the player is not Playing, every step but a command and the entry of a
\* playlist only moves buffers between the queues.
LEMMA LateStep ==
    ASSUME Inv, [Next]_vars, player.state # "Playing", commands' = commands, sig' = sig
    PROVE  Untouched
<1>1. player \in PlayerRecord /\ commands \in Nat
  BY BoundAssumption DEF Inv, TypeOK
<1>2. CASE DeviceWrite BY <1>1, <1>2 DEF DeviceWrite, Untouched, PlayerRecord
<1>3. CASE DeviceFail \/ DeviceUnderrun
  BY <1>1, <1>3 DEF DeviceFail, DeviceUnderrun, TakesLess, Untouched, PlayerRecord
<1>4. CASE HandleError BY <1>1, <1>4 DEF HandleError, Untouched, PlayerRecord
<1>5. ASSUME NEW t, WriteHandler(t) PROVE Untouched
  <2>1. Leave(t, player, "none")
    BY <1>5 DEF WriteHandler, WriteIgnored, WriteFailed, WriteAtEnd, WriteQueued, WriteDecoded
  <2>2. player' = Cleared(player) \/ player' = Halt(Cleared(player), "terminated")
    BY <2>1 DEF Leave, Cleared
  <2> QED BY <1>1, <2>2 DEF Cleared, Halt, Untouched, PlayerRecord
<1>6. CASE PoolStep
  <2>1. PICK i \in 1..Len(player.posted) : StartWrite(i) BY <1>6 DEF PoolStep
  <2> QED BY <1>1, <2>1 DEF StartWrite, Untouched, PlayerRecord
<1>7. ~GuiCommand
  BY <1>1 DEF GuiCommand, Play, Pause, Stop, NextTrack, PreviousTrack, JumpTo, Seek, Command
<1>8. ~SignalStep
  BY <1>1 DEF SignalStep, ChangePlaylist, EnterPlaylist, ChangeSink
<1>9. CASE UNCHANGED vars BY <1>9 DEF vars, Untouched
<1> QED BY <1>2, <1>3, <1>4, <1>5, <1>6, <1>7, <1>8, <1>9 DEF Next, AudioStep

\* A write that completes, fails or is cancelled after the player was stopped or
\* paused (the check of state() at the top of write_handler) changes neither the
\* player's state nor its place nor its device.
THEOREM LateCompletion == Spec => LateCompletionIsHarmless
<1>1. Inv /\ [Next]_vars =>
        [ player.state # "Playing" /\ commands' = commands /\ sig' = sig =>
            /\ player'.state = player.state
            /\ player'.iter = player.iter
            /\ player'.cur = player.cur
            /\ player'.nxt = player.nxt
            /\ player'.dev = player.dev ]_vars
  BY LateStep DEF Untouched
<1> QED BY <1>1, InvHolds, PTL DEF Spec, LateCompletionIsHarmless

-----------------------------------------------------------------------------
(* A playing device is fed *)

Feeding(p) == p.dev.fd /\ p.dev.st = "Playing" /\ p.halt = "none"

\* What a playing device waits for.
FedBy(p, c) ==
    \/ p.posted # <<>>
    \/ p.writing # <<>>
    \/ \E t \in Threads : c[t] \in {"ok", "failed"}
    \/ \E i \in 1..Len(p.done) : p.done[i].ec = "failed"

\* What leaves the queues and the device alone.
Kept(p, q) ==
    /\ q.posted = p.posted /\ q.writing = p.writing /\ q.done = p.done /\ q.dev = p.dev
    /\ q.halt = "none" => p.halt = "none"

LEMMA MovesKept ==
    ASSUME NEW p \in PlayerRecord
    PROVE  /\ Kept(p, next_impl(p)) /\ Kept(p, Preload(p))
           /\ \A w : Kept(p, previous_impl(p, w))
           /\ \A n : Kept(p, jumpTo_impl(p, n))
           /\ \A pl : Kept(p, [p EXCEPT !.playlist = pl])
           /\ \A w : Kept(p, [p EXCEPT !.cur = w])
<1>1. \A it, c, n : Kept(p, Moved(p, it, c, n))  BY DEF Kept, Moved, PlayerRecord
<1>2. Kept(p, p) /\ \A why : Kept(p, Halt(p, why)) \/ why = "none"
  BY DEF Kept, Halt, PlayerRecord
<1>3. Kept(p, next_impl(p))
  <2>1. CASE p.playlist = NoPlaylist  BY <2>1 DEF next_impl, Kept, PlayerRecord
  <2>2. CASE p.playlist # NoPlaylist /\ p.iter = End(p.playlist)
    BY <2>2 DEF next_impl, CloseSource, Kept, PlayerRecord
  <2>3. CASE p.playlist # NoPlaylist /\ p.iter # End(p.playlist) /\ p.iter = NoIterator
    <3>1. next_impl(p) = Halt(p, "iterator")  BY <2>3 DEF next_impl
    <3> QED  BY <1>2, <3>1
  <2>4. CASE p.playlist # NoPlaylist /\ p.iter # End(p.playlist) /\ p.iter # NoIterator
    <3> DEFINE it == Succ(p.iter)
    <3>1. CASE p.nxt # NoSource
      <4>1. next_impl(p) = Moved(p, it, p.nxt, NoSource)
        BY <2>4, <3>1 DEF next_impl, Moved, PlayerRecord
      <4> QED  BY <1>1, <4>1
    <3>2. CASE p.nxt = NoSource
      <4> DEFINE q == [p EXCEPT !.iter = it, !.cur = NoSource]
      <4>1. \/ next_impl(p) = q \/ next_impl(p) = [q EXCEPT !.cur = Open(TrackAt(q.iter))]
            \/ next_impl(p) = Halt(q, "iterator")
        BY <2>4, <3>2 DEF next_impl
      <4>2. Kept(p, q)  BY DEF Kept, PlayerRecord
      <4>3. \A s : Kept(p, [q EXCEPT !.cur = s])  BY DEF Kept, PlayerRecord
      <4>4. Kept(p, Halt(q, "iterator"))  BY DEF Kept, PlayerRecord, Halt
      <4> HIDE DEF q
      <4> QED  BY <4>1, <4>2, <4>3, <4>4
    <3> QED  BY <3>1, <3>2
  <2> QED  BY <2>1, <2>2, <2>3, <2>4
<1>4. ASSUME NEW w PROVE Kept(p, previous_impl(p, w))
  <2>1. CASE p.playlist = NoPlaylist  BY <2>1 DEF previous_impl, Unset, Kept, PlayerRecord
  <2>2. CASE p.playlist # NoPlaylist /\ p.iter = Begin(p.playlist)
    BY <2>2 DEF previous_impl, Kept, PlayerRecord
  <2>3. CASE p.playlist # NoPlaylist /\ p.iter # Begin(p.playlist) /\ p.iter = NoIterator
    <3>1. previous_impl(p, w) = Halt(p, "iterator")  BY <2>3 DEF previous_impl
    <3> QED  BY <1>2, <3>1
  <2>4. CASE p.playlist # NoPlaylist /\ p.iter # Begin(p.playlist) /\ p.iter # NoIterator
    BY <2>4 DEF previous_impl, Kept, PlayerRecord
  <2> QED  BY <2>1, <2>2, <2>3, <2>4
<1>5. Kept(p, Preload(p))
  <2>1. \/ Preload(p) = p
        \/ \E n : Preload(p) = Moved(p, p.iter, p.cur, n)
        \/ Preload(p) = Halt(p, "iterator") \/ Preload(p) = Halt(p, "preload")
    BY DEF Preload, Moved, PlayerRecord
  <2> QED  BY <1>1, <1>2, <2>1
<1>6. \A n : Kept(p, jumpTo_impl(p, n))
  <2>1. CASE p.playlist = NoPlaylist  BY <2>1 DEF jumpTo_impl, Unset, Kept, PlayerRecord
  <2>2. CASE p.playlist # NoPlaylist
    <3>1. \A it : Kept(p, [p EXCEPT !.iter = it, !.cur = p.nxt, !.nxt = NoSource])
      BY DEF Kept, PlayerRecord
    <3>2. \A it : Kept(p, [p EXCEPT !.iter = it, !.cur = NoSource])
      BY DEF Kept, PlayerRecord
    <3> QED  BY <2>2, <3>1, <3>2 DEF jumpTo_impl
  <2> QED  BY <2>1, <2>2
<1>7. \A pl : Kept(p, [p EXCEPT !.playlist = pl])  BY DEF Kept, PlayerRecord
<1>8. \A w : Kept(p, [p EXCEPT !.cur = w])  BY DEF Kept, PlayerRecord
<1> QED  BY <1>3, <1>4, <1>5, <1>6, <1>7, <1>8

\* The first buffer is posted, or the player stops or ends.
Handled(q) == Ok(q) => Idle(q) \/ q.posted # <<>>

LEMMA read_handlerHandled ==
    ASSUME NEW p, Good(p), Ok(p), NEW ec, NEW o \in Outcomes
    PROVE  Handled(read_handler(p, ec, o))
<1> DEFINE q == read_handler(p, ec, o)
<1>1. p \in PlayerRecord /\ p.posted \in Seq(Buffer) /\ p.in_buf \in Seq(Buffer)
  BY DEF Good, Sound, PlayerRecord
<1>2. CASE p.in_buf # <<>> /\ q = [p EXCEPT !.posted = Append(p.posted, Head(p.in_buf)),
                                            !.in_buf = Tail(p.in_buf)]
  <2>1. Head(p.in_buf) \in Buffer  BY <1>1, <1>2, HeadTailProperties
  <2>2. Len(Append(p.posted, Head(p.in_buf))) = Len(p.posted) + 1 /\ Len(p.posted) \in Nat
    BY <1>1, <2>1, AppendProperties, LenProperties
  <2>3. Append(p.posted, Head(p.in_buf)) # <<>>
    <3>1. Len(Append(p.posted, Head(p.in_buf))) # 0  BY <2>2
    <3> QED  BY <3>1
  <2>4. q.posted = Append(p.posted, Head(p.in_buf))  BY <1>1, <1>2 DEF PlayerRecord
  <2> QED  BY <2>3, <2>4 DEF Handled
<1>3. CASE q = Halt(p, "relock") \/ q = Halt(p, "drained")
  BY <1>1, <1>3 DEF Handled, Halt, Ok, PlayerRecord
<1>4. CASE q = stop_impl(p, o)  BY <1>4, stop_implGood DEF Handled
<1>5. \/ /\ p.in_buf # <<>>
         /\ q = [p EXCEPT !.posted = Append(p.posted, Head(p.in_buf)),
                          !.in_buf = Tail(p.in_buf)]
      \/ q = Halt(p, "relock") \/ q = Halt(p, "drained") \/ q = stop_impl(p, o)
  BY DEF read_handler
<1> QED  BY <1>2, <1>3, <1>4, <1>5

LEMMA DecodeAndPostHandled ==
    ASSUME NEW p, Good(p), Ok(p), p.cur # NoSource, NEW o \in Outcomes
    PROVE  Handled(DecodeAndPost(p, o))
<1>1. CASE o.fault = "decode"
  <2> DEFINE q == Recover(p, o)
             ec == IF Codec[p.cur.track] = "wavpack" THEN "eof" ELSE "ok"
  <2>1. Good(q)  BY RecoverGood
  <2>2. DecodeAndPost(p, o) = IF Ok(q) THEN read_handler(q, ec, o) ELSE q
    BY <1>1 DEF DecodeAndPost, DecodeFailed, Then
  <2> HIDE DEF q, ec
  <2>3. Ok(q) => Handled(read_handler(q, ec, o))  BY <2>1, read_handlerHandled
  <2> QED  BY <2>2, <2>3 DEF Handled
<1>2. CASE o.fault # "decode"
  <2> DEFINE q == Decode(p)
             c == Queue(q, p.cur)
  <2>1. Good(q)  BY DecodeGood
  <2>2. p.cur \in Source /\ p.cur.track \in Tracks
    BY DEF Good, Sound, PlayerRecord, SourceSound
  <2>3. DecodeAndPost(p, o) = IF Ok(q) THEN Post(q, p.cur, o) ELSE q
    BY <1>2 DEF DecodeAndPost, Then
  <2> HIDE DEF q
  <2>4. ASSUME Ok(q) PROVE Handled(Post(q, p.cur, o))
    <3>1. Good(c) /\ Ok(c)
      <4>1. Good(c)  BY <2>1, <2>2, QueueGood
      <4>2. q \in PlayerRecord  BY <2>1 DEF Good, Sound
      <4>3. c.thrown = q.thrown /\ c.halt = q.halt  BY <4>2 DEF Queue, PlayerRecord
      <4> QED  BY <2>4, <4>1, <4>3 DEF Ok
    <3> HIDE DEF c
    <3>2. Handled(read_handler(c, DecodeError(p.cur), o))  BY <3>1, read_handlerHandled
    <3>3. Handled(Halt(q, "buffered")) /\ Handled(Halt(q, "widen"))
      <4>1. q \in PlayerRecord  BY <2>1 DEF Good, Sound
      <4> QED  BY <4>1 DEF Handled, Ok, Halt, PlayerRecord
    <3>4. \/ Post(q, p.cur, o) = Halt(q, "buffered") \/ Post(q, p.cur, o) = Halt(q, "widen")
          \/ Post(q, p.cur, o) = read_handler(c, DecodeError(p.cur), o)
      BY DEF Post, c
    <3> QED  BY <3>2, <3>3, <3>4
  <2>5. Ok(q) \/ Handled(q)  BY DEF Handled
  <2> QED  BY <2>3, <2>4, <2>5
<1> QED  BY <1>1, <1>2

\* Preparing the device again ends in a call of write_handler, or as handled.
LEMMA ReprepareHandled ==
    ASSUME NEW p, Good(p), Ok(p), p.cur # NoSource, NEW o \in Outcomes
    PROVE  Handled(Reprepare(p, o)) \/ Again(p, o) \in {"ok", "failed"}
<1> DEFINE s == Restart(p, o)
           c == Cleared(s)
           u == Recover(c, o)
           ec == DecodeError(p.cur)
<1>1. CASE ~s.thrown  BY <1>1 DEF Again
<1>2. CASE s.thrown
  <2>1. Good(s)
    <3> DEFINE q == Decode(p)
               r == Then(q, LAMBDA x : StateStop(x, o))
    <3>1. Good(q)  BY DecodeGood
    <3>2. r = IF Ok(q) THEN StateStop(q, o) ELSE q  BY DEF Then
    <3> HIDE DEF q
    <3>3. Good(r)  BY <3>1, <3>2, StateStopGood
    <3>4. s = IF Ok(r) THEN play_impl(r, o) ELSE r  BY DEF Restart, Then, q
    <3> HIDE DEF r
    <3> QED  BY <3>3, <3>4, play_implGood
  <2>2. Reprepare(p, o) = IF s.thrown /\ s.halt = "none"
                          THEN (IF Ok(u) THEN read_handler(u, ec, o) ELSE u) ELSE s
    BY DEF Reprepare, Catch, Then, Cleared
  <2> HIDE DEF s
  <2>3. CASE s.halt = "none"
    <3>1. Good(c) /\ Ok(c)  BY <2>1, <2>3, ClearedGood DEF Ok
    <3> HIDE DEF c
    <3>2. Good(u)  BY <3>1, RecoverGood
    <3> HIDE DEF u, ec
    <3>3. Ok(u) => Handled(read_handler(u, ec, o))  BY <3>2, read_handlerHandled
    <3> QED  BY <1>2, <2>2, <2>3, <3>3 DEF Handled
  <2>4. CASE s.halt # "none"  BY <2>2, <2>4 DEF Handled, Ok
  <2> QED  BY <2>3, <2>4
<1> QED  BY <1>1, <1>2

\* Who pauses does not leave the player Playing.
LEMMA pause_implHolds ==
    ASSUME NEW p, Good(p), Ok(p), NEW o \in Outcomes, Ok(pause_impl(p, o))
    PROVE  pause_impl(p, o).state # "Playing"
<1>1. ASSUME NEW r, Good(r), Ok(r), r.state = "Playing", Ok(PlayingPause(r, o))
      PROVE  PlayingPause(r, o).state # "Playing"
  <2> DEFINE q == DevPause(r, o)
  <2>1. Sound(q)  BY <1>1, DevPauseSound DEF Good
  <2>2. PlayingPause(r, o) = IF Ok(q) THEN ToPaused(q) ELSE q  BY DEF PlayingPause, Then
  <2>3. ToPaused(q) = InState(q, "Paused")  BY DEF ToPaused, InState
  <2> HIDE DEF q
  <2>4. ToPaused(q).state = "Paused"  BY <2>1, <2>3, InStateSound
  <2> QED  BY <1>1, <2>2, <2>4
<1>2. CASE p.state = "Playing"  BY <1>1, <1>2 DEF pause_impl
<1>3. CASE p.state = "Error"
  <2> DEFINE q == ErrorSinkChange(p, o)
             r == StoppedPlay(q, o)
  <2>1. Good(q) /\ Idle(q)  BY <1>3, ErrorSinkChangeGood
  <2>2. pause_impl(p, o) = IF ~Ok(q) \/ q.state = "Error" THEN q
                           ELSE IF ~Ok(r) THEN r
                           ELSE IF r.state = "Playing" THEN PlayingPause(r, o)
                           ELSE IF r.state = "Error" THEN Halt(r, "recursion") ELSE r
    BY <1>3 DEF pause_impl, ErrorPause, Then
  <2> HIDE DEF q
  <2>3. CASE ~Ok(q) \/ q.state = "Error"  BY <2>1, <2>2, <2>3 DEF Idle
  <2>4. CASE Ok(q) /\ q.state # "Error"
    <3>1. Good(r)  BY <2>1, <2>4, StoppedPlayGood DEF Idle
    <3> HIDE DEF r
    <3>2. CASE Ok(r) /\ r.state = "Playing"
      <4>1. pause_impl(p, o) = PlayingPause(r, o)  BY <2>2, <2>4, <3>2
      <4> QED  BY <1>1, <3>1, <3>2, <4>1
    <3>3. CASE Ok(r) /\ r.state = "Error"
      <4>1. pause_impl(p, o) = Halt(r, "recursion")  BY <2>2, <2>4, <3>3
      <4>2. ~Ok(Halt(r, "recursion"))  BY <3>1, HaltGood DEF Good, Halts
      <4> QED  BY <4>1, <4>2
    <3>4. CASE Ok(r) /\ r.state \notin {"Playing", "Error"}  BY <2>2, <2>4, <3>4
    <3>5. CASE ~Ok(r)  BY <2>2, <2>4, <3>5
    <3> QED  BY <3>2, <3>3, <3>4, <3>5
  <2> QED  BY <2>3, <2>4
<1>4. CASE p.state \notin {"Playing", "Error"}  BY <1>4 DEF pause_impl
<1> QED  BY <1>2, <1>3, <1>4

\* After a change of the device, the player is not Playing or the new device is
\* not set up.
LEMMA sinkChangeSlotHolds ==
    ASSUME NEW p, Good(p), Ok(p), NEW o \in Outcomes, Ok(sinkChangeSlot(p, o))
    PROVE  sinkChangeSlot(p, o).state # "Playing" \/ ~sinkChangeSlot(p, o).dev.fd
<1> DEFINE s == StateSinkChange(p, o)
           c == Cleared(s)
           u == stop_impl(c, o)
<1>1. p.state \in {"Stopped", "Playing", "Paused", "Error"}
  BY DEF Good, Sound, PlayerRecord
<1>2. sinkChangeSlot(p, o) = IF s.thrown /\ s.halt = "none"
                             THEN (IF Ok(u) THEN ToError(u) ELSE u) ELSE s
  BY DEF sinkChangeSlot, Catch, Then, Cleared
<1>3. Good(s) /\ (Ok(s) => s.state # "Playing" \/ ~s.dev.fd)
  <2>1. CASE p.state = "Stopped"  BY <2>1 DEF StateSinkChange
  <2>2. CASE p.state = "Error"  BY <2>2, ErrorSinkChangeGood DEF StateSinkChange, Idle
  <2>3. Good(SwitchDevice(p, o))  BY SwitchDeviceGood
  <2>4. CASE p.state = "Playing"
    <3> DEFINE q == DevStop(p, o)
               r == Then(q, LAMBDA x : ChangeDevice(x, o))
               v == Then(r, LAMBDA x : play_impl(x, o))
    <3>1. /\ Sound(q) /\ SamePlace(p, q) /\ (~q.thrown => ~q.dev.fd)
      BY DevStopSound DEF Good
    <3>2. r = IF Ok(q) THEN ChangeDevice(q, o) ELSE q  BY DEF Then
    <3> HIDE DEF q
    <3>3. Ok(q) => SamePlace(q, ChangeDevice(q, o)) /\ ~ChangeDevice(q, o).dev.fd
      BY <3>1, ChangeDeviceSound DEF Ok
    <3>4. Ok(r) => ~r.dev.fd /\ r.state = "Playing"
      BY <2>4, <3>1, <3>2, <3>3 DEF SamePlace
    <3>5. v = IF Ok(r) THEN play_impl(r, o) ELSE r  BY DEF Then
    <3>6. s = IF Ok(v) THEN SeekBack(v) ELSE v
      BY <2>4 DEF StateSinkChange, SwitchDevice, Then, q
    <3> HIDE DEF r
    <3>7. v = r  BY <3>4, <3>5 DEF play_impl
    <3> HIDE DEF v
    <3>8. Ok(s) => ~s.dev.fd
      <4>1. SeekBack(v) = v \/ SeekBack(v) = Halt(v, "source")  BY DEF SeekBack
      <4>2. Ok(v) => Ok(r) /\ ~v.dev.fd  BY <3>4, <3>7
      <4>3. ASSUME Ok(v), s = Halt(v, "source") PROVE ~Ok(s)
        <5>1. s = SwitchDevice(p, o)  BY <2>4 DEF StateSinkChange
        <5>2. s \in PlayerRecord  BY <2>3, <5>1 DEF Good, Sound
        <5>3. s = [v EXCEPT !.halt = "source"]  BY <4>3 DEF Halt
        <5> HIDE DEF s
        <5>4. s.halt # "none"  BY <5>2, <5>3 DEF PlayerRecord
        <5> QED  BY <5>4 DEF Ok
      <4> HIDE DEF s
      <4> QED  BY <3>6, <4>1, <4>2, <4>3
    <3>9. s = SwitchDevice(p, o)  BY <2>4 DEF StateSinkChange
    <3> QED  BY <2>3, <3>8, <3>9
  <2>5. CASE p.state = "Paused"
    <3> DEFINE w == SwitchDevice(p, o)
    <3>1. s = IF Ok(w) THEN pause_impl(w, o) ELSE w  BY <2>5 DEF StateSinkChange, Then
    <3> HIDE DEF w
    <3>2. Good(w)  BY <2>3 DEF w
    <3>3. Ok(w) => Good(pause_impl(w, o))  BY <3>2, pause_implGood
    <3>4. Ok(w) /\ Ok(pause_impl(w, o)) => pause_impl(w, o).state # "Playing"
      BY <3>2, pause_implHolds
    <3> HIDE DEF s
    <3> QED  BY <3>1, <3>2, <3>3, <3>4
  <2> QED  BY <1>1, <2>1, <2>2, <2>4, <2>5
<1> HIDE DEF s
<1>4. CASE s.thrown /\ s.halt = "none"
  <2>1. Good(c) /\ Ok(c)  BY <1>3, <1>4, ClearedGood DEF Ok
  <2> HIDE DEF c
  <2>2. Good(u) /\ (Ok(u) => Idle(u))  BY <2>1, stop_implGood
  <2> HIDE DEF u
  <2>3. Ok(u) => ToError(u).state = "Error"  BY <2>2, ToErrorGood
  <2>4. sinkChangeSlot(p, o) = IF Ok(u) THEN ToError(u) ELSE u  BY <1>2, <1>4
  <2> QED  BY <2>3, <2>4
<1>5. CASE ~(s.thrown /\ s.halt = "none")
  <2>1. sinkChangeSlot(p, o) = s  BY <1>2, <1>5
  <2> QED  BY <1>3, <2>1
<1> QED  BY <1>4, <1>5

\* In a section that ends with the device playing, nothing was thrown, or the
\* audio thread is gone.
LEMMA LeaveFeeding ==
    ASSUME NEW t \in Threads, NEW q, Good(q), NEW again, Leave(t, q, again),
           call \in [Threads -> Calls],
           Feeding(player'), call'["audio"] # "dead"
    PROVE  /\ ~q.thrown /\ Ok(q) /\ call' = [call EXCEPT ![t] = again]
           /\ player'.posted = q.posted /\ player'.writing = q.writing
           /\ player'.done = q.done /\ player'.dev = q.dev /\ player'.state = q.state
<1>1. q \in PlayerRecord  BY DEF Good, Sound
<1>2. t = "gui" \/ t = "audio"  BY DEF Threads
<1>3. ~q.thrown
  <2>1. SUFFICES ASSUME q.thrown PROVE FALSE
    OBVIOUS
  <2>2. CASE t = "gui"
    <3>1. player' = Halt(Cleared(q), "terminated")  BY <2>1, <2>2 DEF Leave, Cleared
    <3>2. player'.halt = "terminated"  BY <1>1, <3>1 DEF Halt, Cleared, PlayerRecord
    <3> QED  BY <3>2 DEF Feeding
  <2>3. CASE t = "audio"  BY <2>1, <2>3 DEF Leave
  <2> QED  BY <1>2, <2>2, <2>3
<1>4. player' = Cleared(q) /\ call' = [call EXCEPT ![t] = again]
  BY <1>3 DEF Leave, Cleared
<1>5. /\ player'.posted = q.posted /\ player'.writing = q.writing
      /\ player'.done = q.done /\ player'.dev = q.dev /\ player'.state = q.state
      /\ player'.halt = q.halt
  BY <1>1, <1>4 DEF Cleared, PlayerRecord
<1> QED  BY <1>3, <1>4, <1>5 DEF Feeding, Ok

\* ... so that who posted a buffer, or calls write_handler again, has fed it.
LEMMA HandledFeeds ==
    ASSUME NEW t \in Threads, NEW q, Good(q), NEW again, Leave(t, q, again),
           call \in [Threads -> Calls],
           Feeding(player'), call'["audio"] # "dead", player'.state = "Playing",
           Handled(q) \/ again \in {"ok", "failed"}
    PROVE  FedBy(player', call')
<1>1. /\ Ok(q) /\ call' = [call EXCEPT ![t] = again]
      /\ player'.posted = q.posted /\ player'.state = q.state
  BY LeaveFeeding
<1>2. CASE Handled(q)  BY <1>1, <1>2 DEF Handled, Idle, FedBy
<1>3. CASE again \in {"ok", "failed"}
  <2>1. call'[t] = again  BY <1>1
  <2> QED  BY <1>3, <2>1 DEF FedBy
<1> QED  BY <1>2, <1>3

\* What is kept still feeds a device that played before.
LEMMA KeptFed ==
    ASSUME NEW p, NEW q, Kept(p, q), NEW c, NEW d,
           Feeding(q), Feeding(p) => FedBy(p, c),
           \A t \in Threads : c[t] \in {"ok", "failed"} => d[t] \in {"ok", "failed"}
    PROVE  FedBy(q, d)
BY DEF Kept, Feeding, FedBy

\* Every call of write_handler posts a buffer, leads to another call, or leaves
\* the player stopped; a cancelled one leaves the feeding to others.
LEMMA WriteHandlerFeeds ==
    ASSUME Inv, NEW t \in Threads, WriteHandler(t), Feeding(player'),
           call'["audio"] # "dead", player'.state = "Playing",
           Feeding(player) /\ call["audio"] # "dead" => FedBy(player, call)
    PROVE  FedBy(player', call')
<1> DEFINE pre == Preload(player)
           p == Chosen(pre)
<1>1. Good(player) /\ ~player.thrown /\ call \in [Threads -> Calls] /\ player \in PlayerRecord
  BY DEF Inv, TypeOK
<1>2. Good(pre) /\ Kept(player, pre)  BY <1>1, PreloadGood, MovesKept
<1>3. CASE WriteIgnored(t)
  <2>1. Leave(t, player, "none") /\ player.state # "Playing"  BY <1>3 DEF WriteIgnored
  <2> QED  BY <1>1, <2>1, LeaveFeeding
<1> HIDE DEF pre
<1>4. CASE WriteFailed(t)
  <2>1. PICK o \in Outcomes :
           Leave(t, Then(pre, LAMBDA x : IF call[t] = "canceled" THEN x ELSE stop_impl(x, o)),
                 "none")
    BY <1>4 DEF WriteFailed, pre
  <2> DEFINE q == Then(pre, LAMBDA x : IF call[t] = "canceled" THEN x ELSE stop_impl(x, o))
  <2>2. q = pre \/ (Ok(pre) /\ q = stop_impl(pre, o))  BY DEF Then
  <2>3. Leave(t, q, "none")  BY <2>1
  <2>4. call[t] # "canceled" => ~Ok(pre) \/ q = stop_impl(pre, o)  BY DEF Then
  <2>5. call[t] = "canceled" => q = pre  BY DEF Then
  <2> HIDE DEF q
  <2>6. Good(q)  BY <1>2, <2>2, stop_implGood
  <2>7. Ok(q) /\ call' = [call EXCEPT ![t] = "none"]
        /\ player'.posted = q.posted /\ player'.writing = q.writing
        /\ player'.done = q.done /\ player'.dev = q.dev /\ player'.state = q.state
    BY <1>1, <2>3, <2>6, LeaveFeeding
  <2>8. CASE call[t] = "canceled"
    <3>1. q = pre  BY <2>5, <2>8
    <3>2. Kept(player, player')
      <4>1. player'.halt = "none" => player.halt = "none"
        BY <1>2, <2>7, <3>1 DEF Kept, Ok
      <4> QED  BY <1>2, <2>7, <3>1, <4>1 DEF Kept
    <3>3. \A u \in Threads : u # t => call'[u] = call[u]  BY <1>1, <2>7
    <3>4. call["audio"] # "dead"
      <4>1. "audio" \in Threads  BY DEF Threads
      <4> QED  BY <2>8, <3>3, <4>1
    <3>5. \A u \in Threads : call[u] \in {"ok", "failed"} => call'[u] \in {"ok", "failed"}
      BY <2>8, <3>3
    <3>6. Feeding(player) => FedBy(player, call)  BY <3>4
    <3>7. PICK r : r = player'  OBVIOUS
    <3>8. PICK d : d = call'  OBVIOUS
    <3>9. FedBy(r, d)
      <4>1. Kept(player, r) /\ Feeding(r)  BY <3>2, <3>7 DEF Feeding
      <4>2. \A u \in Threads : call[u] \in {"ok", "failed"} => d[u] \in {"ok", "failed"}
        BY <3>5, <3>8
      <4> QED  BY <3>6, <4>1, <4>2, KeptFed
    <3> QED  BY <3>7, <3>8, <3>9 DEF FedBy
  <2>9. CASE call[t] # "canceled"
    <3>1. Handled(q)  BY <1>2, <2>2, <2>4, <2>9, stop_implGood DEF Handled
    <3> QED  BY <1>1, <2>3, <2>6, <3>1, HandledFeeds
  <2> QED  BY <2>8, <2>9
<1>5. CASE WriteAtEnd(t)
  <2>1. PICK o \in Outcomes :
           Leave(t, Then(pre, LAMBDA x : read_handler(x, "eof", o)), "none")
    BY <1>5 DEF WriteAtEnd, pre
  <2> DEFINE q == Then(pre, LAMBDA x : read_handler(x, "eof", o))
  <2>2. (~Ok(pre) /\ q = pre) \/ (Ok(pre) /\ q = read_handler(pre, "eof", o))  BY DEF Then
  <2>3. Leave(t, q, "none")  BY <2>1
  <2> HIDE DEF q
  <2>4. Good(q)  BY <1>2, <2>2, read_handlerGood
  <2>5. Handled(q)
    <3>1. CASE ~Ok(pre) /\ q = pre  BY <3>1 DEF Handled
    <3>2. CASE Ok(pre) /\ q = read_handler(pre, "eof", o)  BY <1>2, <3>2, read_handlerHandled
    <3> QED  BY <2>2, <3>1, <3>2
  <2> QED  BY <1>1, <2>3, <2>4, <2>5, HandledFeeds
<1>6. Good(p) /\ (Ok(p) => p.cur # NoSource)
  <2>1. p = IF Ok(pre) THEN ChooseSource(pre) ELSE pre  BY DEF Chosen, Then
  <2> HIDE DEF p
  <2> QED  BY <1>2, <2>1, ChooseSourceGood
<1>7. CASE WriteQueued(t)
  <2>1. PICK o \in Outcomes :
           Leave(t, Then(p, LAMBDA x : read_handler(x, "ok", o)), "none")
    BY <1>7 DEF WriteQueued, pre
  <2> HIDE DEF p
  <2> DEFINE q == Then(p, LAMBDA x : read_handler(x, "ok", o))
  <2>2. (~Ok(p) /\ q = p) \/ (Ok(p) /\ q = read_handler(p, "ok", o))  BY DEF Then
  <2>3. Leave(t, q, "none")  BY <2>1
  <2> HIDE DEF q
  <2>4. Good(q)  BY <1>6, <2>2, read_handlerGood
  <2>5. Handled(q)
    <3>1. CASE ~Ok(p) /\ q = p  BY <3>1 DEF Handled
    <3>2. CASE Ok(p) /\ q = read_handler(p, "ok", o)  BY <1>6, <3>2, read_handlerHandled
    <3> QED  BY <2>2, <3>1, <3>2
  <2> QED  BY <1>1, <2>3, <2>4, <2>5, HandledFeeds
<1>8. CASE WriteDecoded(t)
  <2>1. PICK o \in Outcomes :
           \/ /\ Ok(p)
              /\ Leave(t, Reprepare(p, o), Again(p, o))
           \/ Leave(t, Then(p, LAMBDA x : DecodeAndPost(x, o)), "none")
    BY <1>8 DEF WriteDecoded, pre
  <2> HIDE DEF p
  <2>2. CASE /\ Ok(p)
             /\ Leave(t, Reprepare(p, o), Again(p, o))
    <3>1. PICK q : q = Reprepare(p, o)  OBVIOUS
    <3>2. PICK k : k = Again(p, o)  OBVIOUS
    <3>3. Good(q)  BY <1>6, <2>2, <3>1, ReprepareGood
    <3>4. Handled(q) \/ k \in {"ok", "failed"}  BY <1>6, <2>2, <3>1, <3>2, ReprepareHandled
    <3>5. Leave(t, q, k)  BY <2>2, <3>1, <3>2
    <3> QED  BY <1>1, <3>3, <3>4, <3>5, HandledFeeds
  <2>3. CASE Leave(t, Then(p, LAMBDA x : DecodeAndPost(x, o)), "none")
    <3> DEFINE q == Then(p, LAMBDA x : DecodeAndPost(x, o))
    <3>1. (~Ok(p) /\ q = p) \/ (Ok(p) /\ q = DecodeAndPost(p, o))  BY DEF Then
    <3>2. Leave(t, q, "none")  BY <2>3
    <3> HIDE DEF q
    <3>3. Good(q)  BY <1>6, <3>1, DecodeAndPostGood
    <3>4. Handled(q)
      <4>1. CASE ~Ok(p) /\ q = p  BY <4>1 DEF Handled
      <4>2. CASE Ok(p) /\ q = DecodeAndPost(p, o)  BY <1>6, <4>2, DecodeAndPostHandled
      <4> QED  BY <3>1, <4>1, <4>2
    <3> QED  BY <1>1, <3>2, <3>3, <3>4, HandledFeeds
  <2> QED  BY <2>1, <2>2, <2>3
<1> QED  BY <1>3, <1>4, <1>5, <1>7, <1>8 DEF WriteHandler

\* A buffer that leaves a queue enters the next one or comes back to
\* write_handler.
LEMMA QueueStepFeeds ==
    ASSUME Inv, Feeding(player'), call'["audio"] # "dead",
           DeviceWrite \/ DeviceFail \/ DeviceUnderrun \/ HandleError \/ PoolStep,
           Feeding(player) /\ call["audio"] # "dead" => FedBy(player, call)
    PROVE  FedBy(player', call')
<1>1. /\ player \in PlayerRecord /\ call \in [Threads -> Calls] /\ "audio" \in Threads
      /\ player.writing \in Seq(Buffer) /\ player.done \in Seq(Completion)
      /\ player.posted \in Seq(Buffer)
  BY DEF Inv, TypeOK, PlayerRecord, Threads
<1>2. CASE DeviceWrite
  <2>1. call'["audio"] = "ok"  BY <1>1, <1>2 DEF DeviceWrite
  <2> QED  BY <1>1, <2>1 DEF FedBy
<1>3. CASE DeviceFail \/ DeviceUnderrun
  <2>1. call'["audio"] \in {"ok", "failed"}
    BY <1>1, <1>3 DEF DeviceFail, DeviceUnderrun, TakesLess
  <2> QED  BY <1>1, <2>1 DEF FedBy
<1>4. CASE HandleError
  <2> DEFINE c == Head(player.done)
  <2>1. /\ player.done # <<>> /\ call["audio"] = "none"
        /\ player' = [player EXCEPT !.done = Tail(player.done), !.in_buf = <<c.buf>> \o player.in_buf]
        /\ call' = [call EXCEPT !["audio"] = c.ec]
    BY <1>4 DEF HandleError
  <2>2. /\ player'.done = Tail(player.done) /\ player'.posted = player.posted
        /\ player'.writing = player.writing /\ player'.dev = player.dev
        /\ player'.halt = player.halt
    BY <1>1, <2>1 DEF PlayerRecord
  <2>3. /\ c = player.done[1] /\ Len(Tail(player.done)) = Len(player.done) - 1
        /\ \A i \in 1..Len(Tail(player.done)) : Tail(player.done)[i] = player.done[i + 1]
        /\ Len(player.done) \in Nat \ {0}
    BY <1>1, <2>1, HeadTailProperties, EmptySeq
  <2>4. FedBy(player, call)  BY <2>1, <2>2 DEF Feeding
  <2>5. c.ec = "failed" => call'["audio"] = "failed"  BY <1>1, <2>1
  <2>6. \A u \in Threads : u # "audio" => call'[u] = call[u]  BY <1>1, <2>1
  <2> HIDE DEF c
  <2>7. CASE c.ec = "failed"  BY <1>1, <2>5, <2>7 DEF FedBy
  <2>8. CASE c.ec # "failed"
    <3>1. ASSUME NEW i \in 1..Len(player.done), player.done[i].ec = "failed"
          PROVE  \E j \in 1..Len(player'.done) : player'.done[j].ec = "failed"
      <4>1. i # 1  BY <2>3, <2>8, <3>1
      <4>2. i - 1 \in 1..Len(Tail(player.done)) /\ (i - 1) + 1 = i  BY <2>3, <4>1
      <4>3. player'.done[i - 1].ec = "failed"  BY <2>2, <2>3, <3>1, <4>2
      <4> QED  BY <2>2, <4>2, <4>3
    <3>2. ASSUME NEW u \in Threads, call[u] \in {"ok", "failed"}
          PROVE  call'[u] \in {"ok", "failed"}
      BY <2>1, <2>6, <3>2
    <3> QED  BY <2>2, <2>4, <3>1, <3>2 DEF FedBy
  <2> QED  BY <2>7, <2>8
<1>5. CASE PoolStep
  <2>1. PICK i \in 1..Len(player.posted) : StartWrite(i)  BY <1>5 DEF PoolStep
  <2> DEFINE buf == player.posted[i]
             rest == [j \in 1..(Len(player.posted) - 1) |->
                        player.posted[IF j < i THEN j ELSE j + 1]]
  <2>2. player.dev.fd => player' = [player EXCEPT !.posted = rest, !.writing = Append(player.writing, buf)]
    BY <2>1 DEF StartWrite
  <2>3. ~player.dev.fd => player'.dev = player.dev  BY <1>1, <2>1 DEF StartWrite, PlayerRecord
  <2> HIDE DEF rest
  <2>4. player.dev.fd  BY <2>3 DEF Feeding
  <2>5. player'.writing = Append(player.writing, buf)  BY <1>1, <2>2, <2>4 DEF PlayerRecord
  <2>6. buf \in Buffer  BY <1>1, ElementOfSeq
  <2> HIDE DEF buf
  <2>7. Len(player'.writing) = Len(player.writing) + 1 /\ Len(player.writing) \in Nat
    BY <1>1, <2>5, <2>6, AppendProperties, LenProperties
  <2>8. Len(player'.writing) # 0  BY <2>7
  <2>9. player'.writing # <<>>  BY <2>8
  <2> QED  BY <2>9 DEF FedBy
<1> QED  BY <1>2, <1>3, <1>4, <1>5

\* A command that ends with the device playing calls write_handler, or leaves
\* the queues alone.
LEMMA CommandFeeds ==
    ASSUME Inv, GuiCommand \/ SignalStep, Feeding(player'), call'["audio"] # "dead",
           sinkSlot', player'.state = "Playing",
           Feeding(player) /\ call["audio"] # "dead" => FedBy(player, call)
    PROVE  FedBy(player', call')
<1> DEFINE p == player
<1>1. /\ Good(p) /\ ~p.thrown /\ p \in PlayerRecord
      /\ call \in [Threads -> Calls] /\ "gui" \in Threads /\ "audio" \in Threads
  BY DEF Inv, TypeOK, Threads
<1>2. ASSUME NEW q, q \in PlayerRecord, Return(q)
      PROVE  ~q.thrown /\ player' = q /\ (Ok(q) <=> q.halt = "none")
  <2>1. ~q.thrown
    <3>1. SUFFICES ASSUME q.thrown PROVE FALSE  OBVIOUS
    <3>2. player' = Halt([q EXCEPT !.thrown = FALSE], "terminated")
      BY <1>2, <3>1 DEF Return
    <3>3. player'.halt = "terminated"  BY <1>2, <3>2 DEF Halt, PlayerRecord
    <3> QED  BY <3>3 DEF Feeding
  <2>2. player' = q  BY <1>2, <2>1 DEF Return
  <2>3. Ok(q) <=> q.halt = "none"  BY <2>1 DEF Ok
  <2> QED  BY <2>1, <2>2, <2>3
<1>3. ASSUME NEW q, Kept(p, q), player' = q, call' = call
      PROVE  FedBy(player', call')
  <2>1. PICK r : r = player'  OBVIOUS
  <2>2. Kept(p, r) /\ Feeding(r)  BY <1>3, <2>1 DEF Feeding
  <2>3. Feeding(p) => FedBy(p, call)  BY <1>3
  <2> HIDE DEF p
  <2>4. FedBy(r, call)  BY <2>2, <2>3, KeptFed
  <2> QED  BY <1>3, <2>1, <2>4 DEF FedBy
<1>4. CASE Play
  <2>1. PICK o \in Outcomes : \E q \in {play_impl(p, o)} :
           /\ Return(q)
           /\ call' = IF Ok(q) /\ q.state = "Playing" THEN [call EXCEPT !["gui"] = "ok"] ELSE call
    BY <1>4 DEF Play
  <2>2. PICK q : q = play_impl(p, o)  OBVIOUS
  <2>3. /\ Return(q)
        /\ call' = IF Ok(q) /\ q.state = "Playing" THEN [call EXCEPT !["gui"] = "ok"] ELSE call
    BY <2>1, <2>2
  <2>4. Good(q)
    <3>1. Ok(p)  BY <1>1, <1>4 DEF Play, Command, Ok
    <3> HIDE DEF p
    <3> QED  BY <1>1, <2>2, <3>1, play_implGood
  <2>5. Ok(q) /\ q.state = "Playing"  BY <1>2, <2>3, <2>4 DEF Good, Sound, Feeding
  <2>6. call'["gui"] = "ok"  BY <1>1, <2>3, <2>5
  <2> QED  BY <1>1, <2>6 DEF FedBy
<1>5. CASE Pause
  <2>1. PICK o \in Outcomes : Return(pause_impl(p, o))  BY <1>5 DEF Pause
  <2>2. Ok(p)  BY <1>1, <1>5 DEF Pause, Command, Ok
  <2>3. PICK q : q = pause_impl(p, o)  OBVIOUS
  <2> HIDE DEF p
  <2>4. Good(q)  BY <1>1, <2>2, <2>3, pause_implGood
  <2>5. Ok(q) => q.state # "Playing"  BY <1>1, <2>2, <2>3, pause_implHolds
  <2>6. Return(q)  BY <2>1, <2>3
  <2> QED  BY <1>2, <2>4, <2>5, <2>6 DEF Good, Sound, Feeding
<1>6. CASE Stop
  <2>1. PICK o \in Outcomes :
           Return(Then(stop_impl(p, o), LAMBDA x : [x EXCEPT !.in_buf = <<>>]))
    BY <1>6 DEF Stop
  <2>2. Ok(p)  BY <1>1, <1>6 DEF Stop, Command, Ok
  <2> HIDE DEF p
  <2> DEFINE q == stop_impl(p, o)
             r == Then(q, LAMBDA x : [x EXCEPT !.in_buf = <<>>])
  <2>3. Good(q) /\ (Ok(q) => Idle(q))  BY <1>1, <2>2, stop_implGood
  <2>4. r = IF Ok(q) THEN [q EXCEPT !.in_buf = <<>>] ELSE q  BY DEF Then
  <2>5. Return(r)  BY <2>1
  <2> HIDE DEF q, r
  <2>6. q \in PlayerRecord  BY <2>3 DEF Good, Sound
  <2>7. r \in PlayerRecord /\ r.state = q.state /\ r.halt = q.halt /\ r.thrown = q.thrown
    <3>1. CASE ~Ok(q)  BY <2>4, <2>6, <3>1
    <3>2. CASE Ok(q)
      <4>1. r = [q EXCEPT !.in_buf = <<>>]  BY <2>4, <3>2
      <4>2. r \in PlayerRecord
        <5>1. <<>> \in Seq(Buffer)  BY EmptySeq
        <5> QED  BY <2>6, <4>1, <5>1 DEF PlayerRecord
      <4>3. r.state = q.state  BY <2>6, <4>1 DEF PlayerRecord
      <4>4. r.halt = q.halt  BY <2>6, <4>1 DEF PlayerRecord
      <4>5. r.thrown = q.thrown  BY <2>6, <4>1 DEF PlayerRecord
      <4> QED  BY <4>2, <4>3, <4>4, <4>5
    <3> QED  BY <3>1, <3>2
  <2>8. Ok(r) /\ r.state = "Playing"  BY <1>2, <2>5, <2>7 DEF Feeding
  <2> QED  BY <2>3, <2>7, <2>8 DEF Ok, Idle
<1>7. CASE NextTrack \/ PreviousTrack \/ JumpTo
  <2>1. PICK q : /\ Return(q)
                 /\ \/ q = next_impl(p) \/ \E n \in Nat : q = jumpTo_impl(p, n)
                    \/ \E w \in Rewound(p.cur) : q = previous_impl(p, w)
    <3>1. CASE JumpTo
      <4>1. PICK n : n \in Nat /\ Return(jumpTo_impl(p, n))  BY <3>1 DEF JumpTo
      <4> QED  BY <4>1
    <3>2. CASE PreviousTrack
      <4>1. PICK w \in Rewound(p.cur) : Return(previous_impl(p, w))  BY <3>2 DEF PreviousTrack
      <4> QED  BY <4>1
    <3> QED  BY <1>7, <3>1, <3>2 DEF NextTrack
  <2>2. call' = call  BY <1>7 DEF NextTrack, PreviousTrack, JumpTo
  <2> HIDE DEF p
  <2>3. Kept(p, q)  BY <1>1, <2>1, MovesKept
  <2>4. q \in PlayerRecord
    <3>1. CASE \E w \in Rewound(p.cur) : q = previous_impl(p, w)
      <4>1. PICK w \in Rewound(p.cur) : q = previous_impl(p, w)  BY <3>1
      <4>2. p.cur \in Source /\ SourceSound(p.cur)  BY <1>1 DEF Good, Sound, PlayerRecord
      <4>3. w \in Source /\ SourceSound(w)  BY <4>2, RewoundOnTrack
      <4> QED  BY <1>1, <4>1, <4>3, previous_implGood DEF Good, Sound
    <3>2. CASE q = next_impl(p) \/ \E n \in Nat : q = jumpTo_impl(p, n)
      BY <1>1, <3>2, next_implGood, jumpTo_implGood DEF Good, Sound
    <3> QED  BY <2>1, <3>1, <3>2
  <2>5. player' = q  BY <1>2, <2>1, <2>4
  <2> QED  BY <1>3, <2>2, <2>3, <2>5
<1>8. CASE Seek
  <2>1. PICK w : player' = [p EXCEPT !.cur = w]  BY <1>8 DEF Seek
  <2>2. call' = call  BY <1>8 DEF Seek
  <2>3. PICK q : q = [p EXCEPT !.cur = w]  OBVIOUS
  <2>4. player' = q  BY <2>1, <2>3
  <2> HIDE DEF p
  <2>5. Kept(p, q)  BY <1>1, <2>3, MovesKept
  <2> QED  BY <1>3, <2>2, <2>4, <2>5
<1>9. CASE ChangePlaylist
  <2>1. PICK pl : player' = [p EXCEPT !.playlist = pl]  BY <1>9 DEF ChangePlaylist
  <2>2. call' = call  BY <1>9 DEF ChangePlaylist
  <2>3. PICK q : q = [p EXCEPT !.playlist = pl]  OBVIOUS
  <2>4. player' = q  BY <2>1, <2>3
  <2> HIDE DEF p
  <2>5. Kept(p, q)  BY <1>1, <2>3, MovesKept
  <2> QED  BY <1>3, <2>2, <2>4, <2>5
<1>10. CASE EnterPlaylist
  <2>1. player' = jumpTo_impl(p, 0) /\ call' = call  BY <1>10 DEF EnterPlaylist
  <2>2. PICK q : q = jumpTo_impl(p, 0)  OBVIOUS
  <2>3. player' = q  BY <2>1, <2>2
  <2> HIDE DEF p
  <2>4. Kept(p, q)  BY <1>1, <2>2, MovesKept
  <2> QED  BY <1>3, <2>1, <2>3, <2>4
<1>11. CASE ChangeSink
  <2>1. PICK o \in Outcomes : \E q \in {sinkChangeSlot(p, o)} :
           player' = [q EXCEPT !.thrown = FALSE] /\ sinkSlot' = ~q.thrown
    BY <1>11 DEF ChangeSink
  <2>2. PICK q : q = sinkChangeSlot(p, o)  OBVIOUS
  <2>3. player' = Cleared(q) /\ ~q.thrown  BY <2>1, <2>2 DEF Cleared
  <2>4. Ok(p)  BY <1>1, <1>11 DEF ChangeSink, Ok
  <2> HIDE DEF p
  <2>5. Good(q)  BY <1>1, <2>2, <2>4, sinkChangeSlotGood
  <2>6. q \in PlayerRecord  BY <2>5 DEF Good, Sound
  <2>7. player'.halt = q.halt /\ player'.dev = q.dev /\ player'.state = q.state
    BY <2>3, <2>6 DEF Cleared, PlayerRecord
  <2>8. Ok(q)  BY <2>3, <2>7 DEF Feeding, Ok
  <2>9. q.state # "Playing" \/ ~q.dev.fd
    BY <1>1, <2>2, <2>4, <2>8, sinkChangeSlotHolds
  <2> QED  BY <2>7, <2>9 DEF Feeding
<1> QED  BY <1>4, <1>5, <1>6, <1>7, <1>8, <1>9, <1>10, <1>11 DEF GuiCommand, SignalStep

\* A device that is set up and plays is fed.
SetUpIsFed == Feeding(player) /\ call["audio"] # "dead" /\ sinkSlot => FedBy(player, call)

LEMMA NextFeeds ==
    ASSUME Inv, Inv', SetUpIsFed, [Next]_vars
    PROVE  SetUpIsFed'
<1>1. SUFFICES ASSUME Feeding(player'), call'["audio"] # "dead", sinkSlot'
               PROVE  FedBy(player', call')
  BY DEF SetUpIsFed
<1>2. player'.state = "Playing"
  <2>1. Good(player')  BY DEF Inv
  <2> QED  BY <1>1, <2>1 DEF Good, Agree, Feeding
<1>3. Feeding(player) /\ call["audio"] # "dead" /\ sinkSlot => FedBy(player, call)
  BY DEF SetUpIsFed
<1>4. sinkSlot
  <2>1. sinkSlot' => sinkSlot
    BY DEF Next, vars, AudioStep, DeviceWrite, DeviceFail, DeviceUnderrun, TakesLess,
           HandleError, PoolStep, StartWrite,
           GuiCommand, Play, Pause, Stop, NextTrack, PreviousTrack, JumpTo, Seek, Command,
           WriteHandler, WriteIgnored, WriteFailed, WriteAtEnd, WriteQueued, WriteDecoded, Leave,
           SignalStep, ChangePlaylist, EnterPlaylist, ChangeSink
  <2> QED  BY <1>1, <2>1
<1>5. Feeding(player) /\ call["audio"] # "dead" => FedBy(player, call)  BY <1>3, <1>4
<1>6. "audio" \in Threads /\ "gui" \in Threads  BY DEF Threads
<1>7. CASE WriteHandler("audio") \/ WriteHandler("gui")
  BY <1>1, <1>2, <1>5, <1>6, <1>7, WriteHandlerFeeds
<1>8. CASE DeviceWrite \/ DeviceFail \/ DeviceUnderrun \/ HandleError \/ PoolStep
  BY <1>1, <1>5, <1>8, QueueStepFeeds
<1>9. CASE GuiCommand \/ SignalStep  BY <1>1, <1>2, <1>5, <1>9, CommandFeeds
<1>10. CASE UNCHANGED vars
  BY <1>1, <1>5, <1>10 DEF vars, Feeding, FedBy
<1> QED  BY <1>7, <1>8, <1>9, <1>10 DEF Next, AudioStep

LEMMA SetUpFed == Spec => []SetUpIsFed
<1>1. Init => SetUpIsFed  BY DEF Init, SetUpIsFed, Feeding, NoDevice
<1>2. Inv /\ Inv' /\ SetUpIsFed /\ [Next]_vars => SetUpIsFed'  BY NextFeeds
<1> QED  BY <1>1, <1>2, InvHolds, PTL DEF Spec

-----------------------------------------------------------------------------
(* Only Playing::sinkChange leaves the player on a device nobody set up *)

\* Nobody believes in a device that is not set up, or the program has ended.
Attached(p) == p.halt = "none" => Idle(p) \/ p.dev.fd

LEMMA MovedAttached ==
    ASSUME NEW p, NEW q, Attached(p), q.state = p.state, q.dev = p.dev,
           q.halt = "none" => p.halt = "none"
    PROVE  Attached(q)
BY DEF Attached, Idle

\* Setting up for playback ends Idle or with a device that plays.
LEMMA StoppedPlayAttached ==
    ASSUME NEW p, Good(p), Ok(p), p.state = "Stopped", NEW o \in Outcomes
    PROVE  Attached(StoppedPlay(p, o))
<1> DEFINE q == OpenForPlay(p, o)
           r == Then(q, LAMBDA x : StartDevice(x, o))
<1>1. /\ Good(q) /\ q.state = "Stopped"
      /\ Ok(q) /\ q.cur # NoSource => q.writing = <<>>
  BY OpenForPlayGood
<1>2. r = IF Ok(q) THEN StartDevice(q, o) ELSE q  BY DEF Then
<1>3. StoppedPlay(p, o) = Catch(r, ToError)  BY DEF StoppedPlay
<1> HIDE DEF q
<1>4. Good(r) /\ (r.thrown => r.state = "Stopped")
  <2>1. CASE Ok(q)  BY <1>1, <1>2, <2>1, StartDeviceGood
  <2>2. CASE ~Ok(q)  BY <1>1, <1>2, <2>2
  <2> QED  BY <2>1, <2>2
<1>5. Ok(r) => Attached(r)
  <2>1. CASE ~Ok(q) \/ q.cur = NoSource
    BY <1>1, <1>2, <2>1 DEF StartDevice, Attached, Idle
  <2>2. CASE Ok(q) /\ q.cur # NoSource
    <3> DEFINE u == DevPrepare(q, SpecsOf[q.cur.track], o)
               v == DevPlay(u, o)
               w == IF Ok(u) THEN v ELSE u
    <3>1. r = IF Ok(w) THEN ToPlaying(w) ELSE w
      BY <1>2, <2>2 DEF StartDevice, Then
    <3>2. q \in PlayerRecord /\ q.dev \in Device /\ ~q.thrown
      BY <1>1, <2>2 DEF Good, Sound, PlayerRecord, Ok
    <3>3. Ok(u) => u.dev.fd /\ u.dev.st = "Ready" /\ u \in PlayerRecord /\ u.dev \in Device
      <4>1. SpecsOf[q.cur.track] \in Specs
        <5>1. q.cur.track \in Tracks  BY <1>1, <2>2 DEF Good, Sound, SourceSound
        <5> QED  BY <5>1, TrackAssumption
      <4>2. Sound(u)  BY <1>1, <2>2, <4>1, DevPrepareSound DEF Good
      <4>3. u \in PlayerRecord /\ u.dev \in Device  BY <4>2 DEF Sound, PlayerRecord
      <4>4. \/ u.thrown
            \/ \E as : u = [q EXCEPT !.dev = [@ EXCEPT !.st = "Ready", !.fd = TRUE, !.specs = as]]
        BY <3>2 DEF DevPrepare, Throw, PlayerRecord
      <4> HIDE DEF u
      <4>5. CASE u.thrown  BY <4>5 DEF Ok
      <4>6. ASSUME NEW as,
                   u = [q EXCEPT !.dev = [@ EXCEPT !.st = "Ready", !.fd = TRUE, !.specs = as]]
            PROVE  u.dev.fd /\ u.dev.st = "Ready"
        BY <3>2, <4>6 DEF PlayerRecord, Device
      <4> QED  BY <4>3, <4>4, <4>5, <4>6
    <3> HIDE DEF u
    <3>4. Ok(u) /\ Ok(v) => v.dev.fd /\ v \in PlayerRecord
      <4>1. SUFFICES ASSUME Ok(u), Ok(v) PROVE v.dev.fd /\ v \in PlayerRecord
        OBVIOUS
      <4>2. v = Throw(u) \/ v = [u EXCEPT !.dev = [@ EXCEPT !.st = "Playing"]]
        BY <3>3, <4>1 DEF DevPlay
      <4>3. v = [u EXCEPT !.dev = [@ EXCEPT !.st = "Playing"]]
        <5>1. v # Throw(u)
          <6>1. Throw(u).thrown = TRUE  BY <3>3, <4>1 DEF Throw, PlayerRecord
          <6> QED  BY <4>1, <6>1 DEF Ok
        <5> QED  BY <4>2, <5>1
      <4> HIDE DEF v
      <4>4. [u.dev EXCEPT !.st = "Playing"] \in Device /\ [u.dev EXCEPT !.st = "Playing"].fd
        BY <3>3, <4>1 DEF Device, DeviceStates
      <4>5. v \in PlayerRecord  BY <3>3, <4>1, <4>3, <4>4 DEF PlayerRecord
      <4>6. v.dev = [u.dev EXCEPT !.st = "Playing"]  BY <3>3, <4>1, <4>3 DEF PlayerRecord
      <4> QED  BY <4>4, <4>5, <4>6
    <3> HIDE DEF v
    <3>5. Ok(w) => w.dev.fd /\ w \in PlayerRecord  BY <3>4
    <3> HIDE DEF w, r
    <3>6. CASE Ok(w)
      <4>1. ToPlaying(w).dev = w.dev  BY <3>5, <3>6 DEF ToPlaying, Halt, PlayerRecord
      <4> QED  BY <3>1, <3>5, <3>6, <4>1 DEF Attached
    <3>7. CASE ~Ok(w)  BY <3>1, <3>7
    <3> QED  BY <3>6, <3>7
  <2> QED  BY <2>1, <2>2
<1> HIDE DEF r
<1>6. CASE Ok(r)  BY <1>3, <1>5, <1>6 DEF Catch, Ok
<1>7. CASE r.thrown /\ r.halt = "none"
  <2>1. StoppedPlay(p, o) = ToError(Cleared(r))  BY <1>3, <1>7 DEF Catch, Cleared
  <2>2. Good(Cleared(r)) /\ Idle(Cleared(r))  BY <1>4, <1>7, ClearedGood DEF Idle, SamePlace
  <2>3. ToError(Cleared(r)).state = "Error"  BY <2>2, ToErrorGood
  <2> QED  BY <2>1, <2>3 DEF Attached, Idle
<1>8. CASE r.halt # "none"  BY <1>3, <1>8 DEF Catch, Attached
<1> QED  BY <1>6, <1>7, <1>8 DEF Ok

\* Playing a paused device that is set up leaves it set up.
LEMMA PausedPlayAttached ==
    ASSUME NEW p, Good(p), Ok(p), p.state = "Paused", Attached(p), NEW o \in Outcomes
    PROVE  Attached(PausedPlay(p, o))
<1> DEFINE q == DevPlay(p, o)
<1>1. p.dev.fd /\ p.dev.st = "Paused"  BY DEF Attached, Idle, Ok, Good, Agree
<1>2. p \in PlayerRecord /\ p.dev \in Device  BY DEF Good, Sound, PlayerRecord
<1>3. q = Throw(p) \/ q = [p EXCEPT !.dev = [@ EXCEPT !.st = "Playing"]]
  BY <1>1 DEF DevPlay
<1>4. q \in PlayerRecord /\ q.dev.fd
  <2>1. CASE q = Throw(p)  BY <1>1, <1>2, <2>1 DEF Throw, PlayerRecord
  <2>2. CASE q = [p EXCEPT !.dev = [@ EXCEPT !.st = "Playing"]]
    <3>1. [p.dev EXCEPT !.st = "Playing"] \in Device /\ [p.dev EXCEPT !.st = "Playing"].fd
      BY <1>1, <1>2 DEF Device, DeviceStates
    <3> QED  BY <1>2, <2>2, <3>1 DEF PlayerRecord
  <2> QED  BY <1>3, <2>1, <2>2
<1>5. PausedPlay(p, o) = IF Ok(q) THEN ToPlaying(q) ELSE q  BY DEF PausedPlay, Then
<1> HIDE DEF q
<1>6. ToPlaying(q).dev = q.dev  BY <1>4 DEF ToPlaying, Halt, PlayerRecord
<1> QED  BY <1>4, <1>5, <1>6 DEF Attached

LEMMA play_implAttached ==
    ASSUME NEW p, Good(p), Ok(p), Attached(p), NEW o \in Outcomes
    PROVE  Attached(play_impl(p, o))
<1>1. p.state \in {"Stopped", "Playing", "Paused", "Error"}
  BY DEF Good, Sound, PlayerRecord
<1>2. CASE p.state = "Stopped"  BY <1>2, StoppedPlayAttached DEF play_impl
<1>3. CASE p.state = "Error"
  <2> DEFINE q == ErrorSinkChange(p, o)
  <2>1. Good(q) /\ Idle(q)  BY <1>3, ErrorSinkChangeGood
  <2>2. play_impl(p, o) = IF Ok(q) /\ q.state # "Error" THEN StoppedPlay(q, o) ELSE q
    BY <1>3 DEF play_impl, ErrorPlay, Then
  <2> HIDE DEF q
  <2>3. Ok(q) /\ q.state # "Error" => Attached(StoppedPlay(q, o))
    BY <2>1, StoppedPlayAttached DEF Idle
  <2> QED  BY <2>1, <2>2, <2>3 DEF Attached
<1>4. CASE p.state = "Paused"  BY <1>4, PausedPlayAttached DEF play_impl
<1>5. CASE p.state = "Playing"  BY <1>5 DEF play_impl
<1> QED  BY <1>1, <1>2, <1>3, <1>4, <1>5

LEMMA PlayingPauseAttached ==
    ASSUME NEW p, Good(p), Ok(p), p.state = "Playing", Attached(p), NEW o \in Outcomes
    PROVE  Attached(PlayingPause(p, o))
<1> DEFINE q == DevPause(p, o)
           c == DevCancel(p)
<1>1. p.dev.fd /\ p.dev.st = "Playing"  BY DEF Attached, Idle, Ok, Good, Agree
<1>2. p \in PlayerRecord /\ p.dev \in Device  BY DEF Good, Sound, PlayerRecord
<1>3. c \in PlayerRecord /\ c.dev = p.dev
  <2>1. Sound(c) /\ c.dev = p.dev  BY DevCancelSound DEF Good
  <2> QED  BY <2>1 DEF Sound
<1>4. q = Throw(p) \/ q = [c EXCEPT !.dev = [@ EXCEPT !.st = "Paused"]]
  BY <1>1 DEF DevPause
<1> HIDE DEF c
<1>5. q \in PlayerRecord /\ q.dev.fd
  <2>1. CASE q = Throw(p)  BY <1>1, <1>2, <2>1 DEF Throw, PlayerRecord
  <2>2. CASE q = [c EXCEPT !.dev = [@ EXCEPT !.st = "Paused"]]
    <3>1. [c.dev EXCEPT !.st = "Paused"] \in Device /\ [c.dev EXCEPT !.st = "Paused"].fd
      BY <1>1, <1>2, <1>3 DEF Device, DeviceStates
    <3> QED  BY <1>3, <2>2, <3>1 DEF PlayerRecord
  <2> QED  BY <1>4, <2>1, <2>2
<1>6. PlayingPause(p, o) = IF Ok(q) THEN ToPaused(q) ELSE q  BY DEF PlayingPause, Then
<1> HIDE DEF q
<1>7. ToPaused(q).dev = q.dev  BY <1>5 DEF ToPaused, PlayerRecord
<1> QED  BY <1>5, <1>6, <1>7 DEF Attached

LEMMA pause_implAttached ==
    ASSUME NEW p, Good(p), Ok(p), Attached(p), NEW o \in Outcomes
    PROVE  Attached(pause_impl(p, o))
<1>1. CASE p.state = "Playing"  BY <1>1, PlayingPauseAttached DEF pause_impl
<1>2. CASE p.state = "Error"
  <2> DEFINE q == ErrorSinkChange(p, o)
             r == StoppedPlay(q, o)
  <2>1. Good(q) /\ Idle(q)  BY <1>2, ErrorSinkChangeGood
  <2>2. pause_impl(p, o) = IF ~Ok(q) \/ q.state = "Error" THEN q
                           ELSE IF ~Ok(r) THEN r
                           ELSE IF r.state = "Playing" THEN PlayingPause(r, o)
                           ELSE IF r.state = "Error" THEN Halt(r, "recursion") ELSE r
    BY <1>2 DEF pause_impl, ErrorPause, Then
  <2> HIDE DEF q
  <2>3. CASE ~Ok(q) \/ q.state = "Error"  BY <2>1, <2>2, <2>3 DEF Attached
  <2>4. CASE Ok(q) /\ q.state # "Error"
    <3>1. Good(r) /\ Attached(r)
      BY <2>1, <2>4, StoppedPlayGood, StoppedPlayAttached DEF Idle
    <3> HIDE DEF r
    <3>2. Ok(r) /\ r.state = "Playing" => Attached(PlayingPause(r, o))
      BY <3>1, PlayingPauseAttached
    <3>3. Ok(r) => Attached(Halt(r, "recursion"))
      <4>1. Halt(r, "recursion").halt = "recursion"
        BY <3>1 DEF Halt, Good, Sound, PlayerRecord
      <4> QED  BY <4>1 DEF Attached
    <3> QED  BY <2>2, <2>4, <3>1, <3>2, <3>3
  <2> QED  BY <2>3, <2>4
<1>3. CASE p.state \notin {"Playing", "Error"}  BY <1>3 DEF pause_impl
<1> QED  BY <1>1, <1>2, <1>3

\* Stopping ends Idle, or throws because the device that plays would not stop.
LEMMA stop_implAttached ==
    ASSUME NEW p, Good(p), Ok(p), NEW o \in Outcomes
    PROVE  Attached(StateStop(p, o)) /\ Attached(stop_impl(p, o))
<1> DEFINE q == StateStop(p, o)
<1>1. Good(q) /\ (Ok(q) => Idle(q))  BY StateStopGood
<1>2. Attached(q)
  <2>1. CASE p.state \in {"Playing", "Paused"}
    <3> DEFINE r == DevStop(p, o)
    <3>1. q = IF Ok(r) THEN ToStopped(r) ELSE r  BY <2>1 DEF StateStop, Then
    <3>2. CASE Ok(r)  BY <1>1, <3>1, <3>2 DEF ToStopped, Attached, Ok, Idle, Good, Sound, PlayerRecord
    <3>3. CASE ~Ok(r)
      <4> DEFINE c == DevCancel(p)
      <4>1. /\ c \in PlayerRecord /\ c.dev = p.dev /\ c.thrown = p.thrown /\ c.halt = p.halt
        <5>1. Sound(c) /\ c.dev = p.dev /\ c.thrown = p.thrown /\ c.halt = p.halt
          BY DevCancelSound DEF Good
        <5> QED  BY <5>1 DEF Sound
      <4>2. \/ p.dev.fd /\ r = Throw(c)
            \/ r = [c EXCEPT !.dev = [@ EXCEPT !.st = "Stopped", !.fd = FALSE]]
        BY DEF DevStop
      <4> HIDE DEF c
      <4>3. CASE p.dev.fd /\ r = Throw(c)
        <5>1. r.dev = p.dev  BY <4>1, <4>3 DEF Throw, PlayerRecord
        <5> QED  BY <3>1, <3>3, <4>3, <5>1 DEF Attached
      <4>4. CASE r = [c EXCEPT !.dev = [@ EXCEPT !.st = "Stopped", !.fd = FALSE]]
        <5>1. r.thrown = p.thrown /\ r.halt = p.halt  BY <4>1, <4>4 DEF PlayerRecord
        <5> QED  BY <3>3, <5>1 DEF Ok
      <4> QED  BY <4>2, <4>3, <4>4
    <3> QED  BY <3>2, <3>3
  <2>2. CASE p.state = "Error"  BY <2>2, ErrorSinkChangeGood DEF StateStop, Attached
  <2>3. CASE p.state = "Stopped"  BY <2>3 DEF StateStop, Attached, Idle
  <2>4. p.state \in {"Stopped", "Playing", "Paused", "Error"}
    BY DEF Good, Sound, PlayerRecord
  <2> QED  BY <2>1, <2>2, <2>3, <2>4
<1>3. stop_impl(p, o) = IF Ok(q) THEN JumpToEnd(q) ELSE q  BY DEF stop_impl, Then
<1> HIDE DEF q
<1>4. Good(JumpToEnd(q)) /\ SameDevice(q, JumpToEnd(q))  BY <1>1, JumpToEndGood
<1>5. Attached(JumpToEnd(q))  BY <1>2, <1>4, MovedAttached DEF SameDevice
<1> QED  BY <1>2, <1>3, <1>5 DEF q

LEMMA read_handlerAttached ==
    ASSUME NEW p, Good(p), Ok(p), Attached(p), NEW ec, NEW o \in Outcomes
    PROVE  Attached(read_handler(p, ec, o))
<1> DEFINE q == read_handler(p, ec, o)
<1>1. p \in PlayerRecord  BY DEF Good, Sound
<1>2. \/ q = [p EXCEPT !.posted = Append(p.posted, Head(p.in_buf)), !.in_buf = Tail(p.in_buf)]
      \/ q = Halt(p, "relock") \/ q = Halt(p, "drained") \/ q = stop_impl(p, o)
  BY DEF read_handler
<1> HIDE DEF q
<1>3. CASE q = [p EXCEPT !.posted = Append(p.posted, Head(p.in_buf)), !.in_buf = Tail(p.in_buf)]
  <2>1. q.state = p.state /\ q.dev = p.dev /\ q.halt = p.halt  BY <1>1, <1>3 DEF PlayerRecord
  <2> QED  BY <2>1, MovedAttached DEF q
<1>4. CASE q = Halt(p, "relock") \/ q = Halt(p, "drained")
  BY <1>1, <1>4 DEF Halt, PlayerRecord, Attached, q
<1>5. CASE q = stop_impl(p, o)  BY <1>5, stop_implAttached DEF q
<1> QED  BY <1>2, <1>3, <1>4, <1>5

LEMMA RecoverAttached ==
    ASSUME NEW p, Good(p), Ok(p), NEW o \in Outcomes
    PROVE  Attached(Recover(p, o))
<1> DEFINE q == stop_impl(p, o)
           r == Then(q, next_impl)
<1>1. Good(q) /\ Attached(q)  BY stop_implGood, stop_implAttached
<1>2. r = IF Ok(q) THEN next_impl(q) ELSE q  BY DEF Then
<1>3. Recover(p, o) = IF Ok(r) THEN PlayFromIterator(r, o) ELSE r  BY DEF Recover, Then
<1> HIDE DEF q
<1>4. Good(next_impl(q)) /\ SameDevice(q, next_impl(q))  BY <1>1, next_implGood
<1>5. Attached(next_impl(q))  BY <1>1, <1>4, MovedAttached DEF SameDevice
<1>6. Good(r) /\ Attached(r)  BY <1>1, <1>2, <1>4, <1>5
<1> HIDE DEF r
<1>7. Ok(r) => Attached(play_impl(r, o))  BY <1>6, play_implAttached
<1> QED  BY <1>3, <1>6, <1>7 DEF PlayFromIterator

LEMMA DecodeAndPostAttached ==
    ASSUME NEW p, Good(p), Ok(p), p.cur # NoSource, Attached(p), NEW o \in Outcomes
    PROVE  Attached(DecodeAndPost(p, o))
<1>1. CASE o.fault = "decode"
  <2> DEFINE q == Recover(p, o)
             ec == IF Codec[p.cur.track] = "wavpack" THEN "eof" ELSE "ok"
  <2>1. Good(q) /\ Attached(q)  BY RecoverGood, RecoverAttached
  <2>2. DecodeAndPost(p, o) = IF Ok(q) THEN read_handler(q, ec, o) ELSE q
    BY <1>1 DEF DecodeAndPost, DecodeFailed, Then
  <2> HIDE DEF q, ec
  <2> QED  BY <2>1, <2>2, read_handlerAttached
<1>2. CASE o.fault # "decode"
  <2> DEFINE q == Decode(p)
             c == Queue(q, p.cur)
  <2>1. Good(q) /\ SameDevice(p, q)  BY DecodeGood
  <2>2. p.cur \in Source /\ p.cur.track \in Tracks
    BY DEF Good, Sound, PlayerRecord, SourceSound
  <2>3. DecodeAndPost(p, o) = IF Ok(q) THEN Post(q, p.cur, o) ELSE q
    BY <1>2 DEF DecodeAndPost, Then
  <2> HIDE DEF q
  <2>4. q \in PlayerRecord /\ Attached(q)
    BY <2>1, MovedAttached DEF Good, Sound, SameDevice
  <2>5. Good(c) /\ c.thrown = q.thrown /\ c.halt = q.halt  BY <2>1, <2>2, QueueGood
  <2>6. c.state = q.state /\ c.dev = q.dev  BY <2>4 DEF Queue, PlayerRecord
  <2> HIDE DEF c
  <2>7. Attached(c)  BY <2>4, <2>5, <2>6, MovedAttached
  <2>8. Ok(q) => Attached(read_handler(c, DecodeError(p.cur), o))
    BY <2>5, <2>7, read_handlerAttached DEF Ok
  <2>9. Attached(Halt(q, "buffered")) /\ Attached(Halt(q, "widen"))
    BY <2>4 DEF Attached, Halt, PlayerRecord
  <2>10. \/ Post(q, p.cur, o) = Halt(q, "buffered") \/ Post(q, p.cur, o) = Halt(q, "widen")
         \/ Post(q, p.cur, o) = read_handler(c, DecodeError(p.cur), o)
    BY DEF Post, c
  <2> QED  BY <2>3, <2>4, <2>8, <2>9, <2>10
<1> QED  BY <1>1, <1>2

LEMMA ReprepareAttached ==
    ASSUME NEW p, Good(p), Ok(p), p.cur # NoSource, Attached(p), NEW o \in Outcomes
    PROVE  Attached(Reprepare(p, o))
<1> DEFINE q == Decode(p)
           r == Then(q, LAMBDA x : StateStop(x, o))
           s == Then(r, LAMBDA x : play_impl(x, o))
           c == Cleared(s)
           u == Recover(c, o)
           ec == DecodeError(p.cur)
<1>1. Good(q) /\ Attached(q)
  <2>1. Good(q) /\ SameDevice(p, q)  BY DecodeGood
  <2> HIDE DEF q
  <2> QED  BY <2>1, MovedAttached DEF SameDevice
<1>2. r = IF Ok(q) THEN StateStop(q, o) ELSE q  BY DEF Then
<1> HIDE DEF q
<1>3. Good(r) /\ Attached(r)  BY <1>1, <1>2, StateStopGood, stop_implAttached
<1>4. s = IF Ok(r) THEN play_impl(r, o) ELSE r  BY DEF Then
<1> HIDE DEF r
<1>5. Good(s) /\ Attached(s)  BY <1>3, <1>4, play_implGood, play_implAttached
<1>6. Reprepare(p, o) = IF s.thrown /\ s.halt = "none"
                        THEN (IF Ok(u) THEN read_handler(u, ec, o) ELSE u) ELSE s
  BY DEF Reprepare, Restart, Catch, Then, Cleared, q, r
<1> HIDE DEF s
<1>7. CASE s.thrown /\ s.halt = "none"
  <2>1. Good(c) /\ Ok(c)  BY <1>5, <1>7, ClearedGood DEF Ok
  <2> HIDE DEF c
  <2>2. Good(u) /\ Attached(u)  BY <2>1, RecoverGood, RecoverAttached
  <2> HIDE DEF u, ec
  <2> QED  BY <1>6, <1>7, <2>2, read_handlerAttached
<1>8. CASE ~(s.thrown /\ s.halt = "none")  BY <1>5, <1>6, <1>8
<1> QED  BY <1>7, <1>8

\* What a call of write_handler or a command leaves is what it computed.
LEMMA EndedAttached ==
    ASSUME NEW q, Good(q), Attached(q)
    PROVE  Attached(Cleared(q)) /\ Attached(Halt(Cleared(q), "terminated"))
<1>1. Good(Cleared(q)) /\ SamePlace(q, Cleared(q)) /\ Cleared(q).dev = q.dev
      /\ Cleared(q).halt = q.halt
  BY ClearedGood
<1>2. Attached(Cleared(q))  BY <1>1, MovedAttached DEF SamePlace
<1>3. Halt(Cleared(q), "terminated").halt = "terminated"
  BY <1>1 DEF Halt, Good, Sound, PlayerRecord
<1> QED  BY <1>2, <1>3 DEF Attached

LEMMA WriteHandlerAttached ==
    ASSUME Inv, Attached(player), NEW t \in Threads, WriteHandler(t)
    PROVE  Attached(player')
<1> DEFINE pre == Preload(player)
           p == Chosen(pre)
<1>1. Good(player) /\ Ok(player)
  BY DEF Inv, WriteHandler, WriteIgnored, WriteFailed, WriteAtEnd, WriteQueued, WriteDecoded,
         Enter, Ok
<1>2. Good(pre) /\ SameDevice(player, pre)  BY <1>1, PreloadGood
<1>3. Attached(pre)
  <2> HIDE DEF pre
  <2> QED  BY <1>2, MovedAttached DEF SameDevice
<1>4. ASSUME NEW q, Good(q), Attached(q), NEW again, Leave(t, q, again)
      PROVE  Attached(player')
  <2>1. player' = Halt(Cleared(q), "terminated") \/ player' = Cleared(q)
    BY <1>4 DEF Leave, Cleared
  <2> QED  BY <1>4, <2>1, EndedAttached
<1>5. CASE WriteIgnored(t)
  <2>1. Leave(t, player, "none")  BY <1>5 DEF WriteIgnored
  <2> QED  BY <1>1, <1>4, <2>1
<1> HIDE DEF pre
<1>6. CASE WriteFailed(t)
  <2>1. PICK o \in Outcomes :
           Leave(t, Then(pre, LAMBDA x : IF call[t] = "canceled" THEN x ELSE stop_impl(x, o)),
                 "none")
    BY <1>6 DEF WriteFailed, pre
  <2> DEFINE q == Then(pre, LAMBDA x : IF call[t] = "canceled" THEN x ELSE stop_impl(x, o))
  <2>2. q = pre \/ (Ok(pre) /\ q = stop_impl(pre, o))  BY DEF Then
  <2>3. Leave(t, q, "none")  BY <2>1
  <2> HIDE DEF q
  <2>4. Good(q) /\ Attached(q)  BY <1>2, <1>3, <2>2, stop_implGood, stop_implAttached
  <2> QED  BY <1>4, <2>3, <2>4
<1>7. CASE WriteAtEnd(t)
  <2>1. PICK o \in Outcomes :
           Leave(t, Then(pre, LAMBDA x : read_handler(x, "eof", o)), "none")
    BY <1>7 DEF WriteAtEnd, pre
  <2> DEFINE q == Then(pre, LAMBDA x : read_handler(x, "eof", o))
  <2>2. q = pre \/ (Ok(pre) /\ q = read_handler(pre, "eof", o))  BY DEF Then
  <2>3. Leave(t, q, "none")  BY <2>1
  <2> HIDE DEF q
  <2>4. Good(q) /\ Attached(q)  BY <1>2, <1>3, <2>2, read_handlerGood, read_handlerAttached
  <2> QED  BY <1>4, <2>3, <2>4
<1>8. Good(p) /\ Attached(p) /\ (Ok(p) => p.cur # NoSource)
  <2>1. p = IF Ok(pre) THEN ChooseSource(pre) ELSE pre  BY DEF Chosen, Then
  <2>2. Good(ChooseSource(pre)) /\ SameDevice(pre, ChooseSource(pre))
        /\ (Ok(ChooseSource(pre)) => ChooseSource(pre).cur # NoSource)
    BY <1>2, ChooseSourceGood
  <2>3. Attached(ChooseSource(pre))  BY <1>3, <2>2, MovedAttached DEF SameDevice
  <2> HIDE DEF p
  <2> QED  BY <1>2, <1>3, <2>1, <2>2, <2>3
<1>9. CASE WriteQueued(t)
  <2>1. PICK o \in Outcomes :
           Leave(t, Then(p, LAMBDA x : read_handler(x, "ok", o)), "none")
    BY <1>9 DEF WriteQueued, pre
  <2> HIDE DEF p
  <2> DEFINE q == Then(p, LAMBDA x : read_handler(x, "ok", o))
  <2>2. q = p \/ (Ok(p) /\ q = read_handler(p, "ok", o))  BY DEF Then
  <2>3. Leave(t, q, "none")  BY <2>1
  <2> HIDE DEF q
  <2>4. Good(q) /\ Attached(q)  BY <1>8, <2>2, read_handlerGood, read_handlerAttached
  <2> QED  BY <1>4, <2>3, <2>4
<1>10. CASE WriteDecoded(t)
  <2>1. PICK o \in Outcomes :
           \/ Ok(p) /\ Leave(t, Reprepare(p, o), Again(p, o))
           \/ Leave(t, Then(p, LAMBDA x : DecodeAndPost(x, o)), "none")
    BY <1>10 DEF WriteDecoded, pre
  <2> HIDE DEF p
  <2>2. CASE Ok(p) /\ Leave(t, Reprepare(p, o), Again(p, o))
    <3>1. Good(Reprepare(p, o)) /\ Attached(Reprepare(p, o))
      BY <1>8, <2>2, ReprepareGood, ReprepareAttached
    <3> QED  BY <1>4, <2>2, <3>1
  <2>3. CASE Leave(t, Then(p, LAMBDA x : DecodeAndPost(x, o)), "none")
    <3> DEFINE q == Then(p, LAMBDA x : DecodeAndPost(x, o))
    <3>1. q = p \/ (Ok(p) /\ q = DecodeAndPost(p, o))  BY DEF Then
    <3>2. Leave(t, q, "none")  BY <2>3
    <3> HIDE DEF q
    <3>3. Good(q) /\ Attached(q)  BY <1>8, <3>1, DecodeAndPostGood, DecodeAndPostAttached
    <3> QED  BY <1>4, <3>2, <3>3
  <2> QED  BY <2>1, <2>2, <2>3
<1> QED  BY <1>5, <1>6, <1>7, <1>9, <1>10 DEF WriteHandler

\* A change of sink of a paused player never returns normally: the new device is
\* not prepared, so that playing it throws or ends the program.
LEMMA PausedSwitchFails ==
    ASSUME NEW p, Good(p), Ok(p), p.state = "Paused", NEW o \in Outcomes
    PROVE  ~Ok(StateSinkChange(p, o))
<1> DEFINE q == DevStop(p, o)
           r == Then(q, LAMBDA x : ChangeDevice(x, o))
           v == Then(r, LAMBDA x : play_impl(x, o))
           w == SwitchDevice(p, o)
<1>1. /\ Sound(q) /\ SamePlace(p, q) /\ (~q.thrown => ~q.dev.fd)
  BY DevStopSound DEF Good
<1>2. r = IF Ok(q) THEN ChangeDevice(q, o) ELSE q  BY DEF Then
<1>3. v = IF Ok(r) THEN play_impl(r, o) ELSE r  BY DEF Then
<1>4. w = IF Ok(v) THEN SeekBack(v) ELSE v  BY DEF SwitchDevice, Then
<1>5. StateSinkChange(p, o) = IF Ok(w) THEN pause_impl(w, o) ELSE w
  BY DEF StateSinkChange, Then
<1> HIDE DEF q
<1>6. Ok(r) => /\ Sound(r) /\ r.state = "Paused" /\ ~r.dev.fd
               /\ r.dev.specs = NoSpecs /\ r.dev.st # "None"
  <2> SUFFICES ASSUME Ok(r) PROVE /\ Sound(r) /\ r.state = "Paused" /\ ~r.dev.fd
                                  /\ r.dev.specs = NoSpecs /\ r.dev.st # "None"
    OBVIOUS
  <2>1. Ok(q) /\ r = ChangeDevice(q, o)  BY <1>2
  <2>2. Sound(r) /\ SamePlace(q, r) /\ ~r.dev.fd
    BY <1>1, <2>1, ChangeDeviceSound DEF Ok
  <2> DEFINE u == DropDevice(q, o)
  <2>3. Sound(u)  BY <1>1, DropDeviceSound
  <2>4. r = IF Ok(u) THEN CreateDevice(u, o) ELSE u  BY <2>1 DEF ChangeDevice, Then
  <2> HIDE DEF u, r
  <2>5. u \in PlayerRecord  BY <2>3 DEF Sound
  <2>6. r # Throw(u)
    <3>1. Throw(u).thrown = TRUE  BY <2>5 DEF Throw, PlayerRecord
    <3> QED  BY <3>1 DEF Ok
  <2>7. r = [u EXCEPT !.dev = [st |-> o.fresh, fd |-> FALSE, specs |-> NoSpecs,
                               id |-> 1 - u.dev.id]]
    BY <2>4, <2>6 DEF CreateDevice
  <2>8. r.dev.st = o.fresh /\ r.dev.specs = NoSpecs  BY <2>5, <2>7 DEF PlayerRecord
  <2> QED  BY <1>1, <2>2, <2>8, OutcomeType DEF SamePlace
<1> HIDE DEF r
<1>7. Ok(v) => Sound(v) /\ v.state = "Playing" /\ ~v.dev.fd /\ v.dev.st = "Playing"
  <2> SUFFICES ASSUME Ok(v) PROVE Sound(v) /\ v.state = "Playing" /\ ~v.dev.fd
                                  /\ v.dev.st = "Playing"
    OBVIOUS
  <2>1. Ok(r)  BY <1>3
  <2>2. /\ Sound(r) /\ r.state = "Paused" /\ ~r.dev.fd
        /\ r.dev.specs = NoSpecs /\ r.dev.st # "None" /\ r \in PlayerRecord
    BY <1>6, <2>1 DEF Sound
  <2> DEFINE x == DevPlay(r, o)
  <2>3. v = IF Ok(x) THEN ToPlaying(x) ELSE x
    BY <1>3, <2>1, <2>2 DEF play_impl, PausedPlay, Then
  <2>4. Ok(x)
    <3> HIDE DEF x, v
    <3> QED  BY <2>3
  <2>5. CASE r.dev.st \in {"Stopped", "Error"}
    <3>1. x = DevPrepare(r, NoSpecs, o)  BY <2>2, <2>5 DEF DevPlay
    <3>2. x.thrown  BY <2>2, <3>1 DEF DevPrepare, Throw, PlayerRecord
    <3> QED  BY <2>4, <3>2 DEF Ok
  <2>6. CASE r.dev.st \in {"Ready", "Paused"}
    <3>1. x = Halt(r, "handle")  BY <2>2, <2>6 DEF DevPlay
    <3>2. x.halt = "handle"  BY <2>2, <3>1 DEF Halt, PlayerRecord
    <3> QED  BY <2>4, <3>2 DEF Ok
  <2>7. CASE r.dev.st \notin {"Stopped", "Error", "Ready", "Paused"}
    <3>1. x = r  BY <2>7 DEF DevPlay
    <3>2. v = ToPlaying(r)  BY <2>1, <2>3, <3>1
    <3>3. CASE r.dev.st = "Playing"
      <4>1. v = InState(r, "Playing")  BY <3>2, <3>3 DEF ToPlaying, InState
      <4>2. /\ Sound(InState(r, "Playing")) /\ InState(r, "Playing").state = "Playing"
            /\ InState(r, "Playing").dev = r.dev
        BY <2>2, InStateSound
      <4> HIDE DEF v
      <4> QED  BY <2>2, <3>3, <4>1, <4>2
    <3>4. CASE r.dev.st # "Playing"
      <4>1. v = Halt(r, "device state")  BY <3>2, <3>4 DEF ToPlaying
      <4>2. Halt(r, "device state").halt = "device state"  BY <2>2 DEF Halt, PlayerRecord
      <4> HIDE DEF v
      <4> QED  BY <4>1, <4>2 DEF Ok
    <3> QED  BY <3>3, <3>4
  <2> QED  BY <2>5, <2>6, <2>7
<1> HIDE DEF v
<1>8. Ok(w) => w = v /\ Ok(v)
  <2>1. CASE Ok(v)
    <3>1. SeekBack(v) = v \/ SeekBack(v) = Halt(v, "source")  BY DEF SeekBack
    <3>2. Halt(v, "source").halt = "source"
      BY <1>7, <2>1 DEF Halt, Sound, PlayerRecord
    <3> HIDE DEF w
    <3> QED  BY <1>4, <2>1, <3>1, <3>2 DEF Ok
  <2>2. CASE ~Ok(v)
    <3> HIDE DEF w
    <3> QED  BY <1>4, <2>2
  <2> QED  BY <2>1, <2>2
<1> HIDE DEF w
<1>9. CASE Ok(w)
  <2>1. Sound(w) /\ w.state = "Playing" /\ ~w.dev.fd /\ w.dev.st = "Playing"
    BY <1>7, <1>8, <1>9
  <2>2. DevPause(w, o) = Halt(w, "handle")  BY <2>1 DEF DevPause
  <2>3. Halt(w, "handle").halt = "handle"  BY <2>1 DEF Halt, Sound, PlayerRecord
  <2>4. pause_impl(w, o) = Halt(w, "handle")
    BY <2>1, <2>2, <2>3 DEF pause_impl, PlayingPause, Then, Ok
  <2> QED  BY <1>5, <1>9, <2>3, <2>4 DEF Ok
<1>10. CASE ~Ok(w)  BY <1>5, <1>10
<1> QED  BY <1>9, <1>10

\* A device that is stopped remains the same one.
LEMMA StoppedSameId ==
    ASSUME NEW d \in PlayerRecord, NEW q,
           \/ q = Throw(d)
           \/ q = [d EXCEPT !.dev = [@ EXCEPT !.st = "Stopped", !.fd = FALSE]]
    PROVE  q.dev.id = d.dev.id
<1>1. d.dev \in Device  BY DEF PlayerRecord
<1>2. CASE q = Throw(d)  BY <1>2 DEF Throw, PlayerRecord
<1>3. CASE q = [d EXCEPT !.dev = [@ EXCEPT !.st = "Stopped", !.fd = FALSE]]
  <2>1. q.dev = [d.dev EXCEPT !.st = "Stopped", !.fd = FALSE]  BY <1>3 DEF PlayerRecord
  <2> QED  BY <1>1, <2>1 DEF Device
<1> QED  BY <1>2, <1>3

\* After a change of sink nobody believes in a device that is not set up, unless the
\* player was Playing and the device is another one.
LEMMA sinkChangeSlotAttached ==
    ASSUME NEW p, Good(p), Ok(p), NEW o \in Outcomes
    PROVE  \/ Attached(sinkChangeSlot(p, o))
           \/ p.state = "Playing" /\ sinkChangeSlot(p, o).dev.id # p.dev.id
<1> DEFINE s == StateSinkChange(p, o)
           c == Cleared(s)
           u == stop_impl(c, o)
<1>1. p.state \in {"Stopped", "Playing", "Paused", "Error"}
  BY DEF Good, Sound, PlayerRecord
<1>2. sinkChangeSlot(p, o) = IF s.thrown /\ s.halt = "none"
                             THEN (IF Ok(u) THEN ToError(u) ELSE u) ELSE s
  BY DEF sinkChangeSlot, Catch, Then, Cleared
<1>3. Good(s)
  <2>1. CASE p.state = "Stopped"  BY <2>1 DEF StateSinkChange
  <2>2. CASE p.state = "Error"  BY <2>2, ErrorSinkChangeGood DEF StateSinkChange
  <2>3. CASE p.state = "Playing"  BY <2>3, SwitchDeviceGood DEF StateSinkChange
  <2>4. CASE p.state = "Paused"
    <3> DEFINE w == SwitchDevice(p, o)
    <3>1. Good(w)  BY SwitchDeviceGood
    <3>2. s = IF Ok(w) THEN pause_impl(w, o) ELSE w  BY <2>4 DEF StateSinkChange, Then
    <3> HIDE DEF w
    <3>3. Ok(w) => Good(pause_impl(w, o))  BY <3>1, pause_implGood
    <3> HIDE DEF s
    <3> QED  BY <3>1, <3>2, <3>3
  <2> QED  BY <1>1, <2>1, <2>2, <2>3, <2>4
<1>4. Ok(s) => Idle(s) \/ (p.state = "Playing" /\ s.dev.id # p.dev.id)
  <2>1. CASE p.state = "Stopped"  BY <2>1 DEF StateSinkChange, Idle
  <2>2. CASE p.state = "Error"  BY <2>2, ErrorSinkChangeGood DEF StateSinkChange
  <2>3. CASE p.state = "Paused"  BY <2>3, PausedSwitchFails
  <2>4. CASE p.state = "Playing"
    <3> DEFINE q == DevStop(p, o)
               r == Then(q, LAMBDA x : ChangeDevice(x, o))
               v == Then(r, LAMBDA x : play_impl(x, o))
    <3>1. Sound(q) /\ SamePlace(p, q) /\ q.dev.id = p.dev.id
      <4>1. Sound(q) /\ SamePlace(p, q)  BY DevStopSound DEF Good
      <4> DEFINE d == DevCancel(p)
      <4>2. d \in PlayerRecord /\ d.dev = p.dev /\ d.dev \in Device
        <5>1. Sound(d) /\ d.dev = p.dev  BY DevCancelSound DEF Good
        <5> QED  BY <5>1 DEF Sound, PlayerRecord
      <4>3. q = Throw(d) \/ q = [d EXCEPT !.dev = [@ EXCEPT !.st = "Stopped", !.fd = FALSE]]
        BY DEF DevStop
      <4> HIDE DEF d, q
      <4>4. q.dev.id = p.dev.id  BY <4>2, <4>3, StoppedSameId
      <4> QED  BY <4>1, <4>4
    <3>2. r = IF Ok(q) THEN ChangeDevice(q, o) ELSE q  BY DEF Then
    <3>3. v = IF Ok(r) THEN play_impl(r, o) ELSE r  BY DEF Then
    <3>4. s = IF Ok(v) THEN SeekBack(v) ELSE v
      BY <2>4 DEF StateSinkChange, SwitchDevice, Then
    <3> HIDE DEF q
    <3>5. Ok(r) => r.state = "Playing" /\ r.dev.id # p.dev.id /\ r \in PlayerRecord
      <4> SUFFICES ASSUME Ok(r)
                   PROVE  r.state = "Playing" /\ r.dev.id # p.dev.id /\ r \in PlayerRecord
        OBVIOUS
      <4>1. Ok(q) /\ r = ChangeDevice(q, o)  BY <3>2
      <4>2. Sound(r) /\ SamePlace(q, r)  BY <3>1, <4>1, ChangeDeviceSound
      <4> DEFINE x == DropDevice(q, o)
      <4>3. Sound(x) /\ x \in PlayerRecord /\ x.dev \in Device
        BY <3>1, DropDeviceSound DEF Sound, PlayerRecord
      <4>4. x.dev.id = q.dev.id
        <5> DEFINE d == DevCancel(q)
        <5>1. d \in PlayerRecord /\ d.dev = q.dev /\ d.dev \in Device
          <6>1. Sound(d) /\ d.dev = q.dev  BY <3>1, DevCancelSound
          <6> QED  BY <6>1 DEF Sound, PlayerRecord
        <5>2. \/ x = q \/ x = Throw(d)
              \/ x = [d EXCEPT !.dev = [@ EXCEPT !.st = "Stopped", !.fd = FALSE]]
          BY DEF DropDevice, DevStop
        <5> HIDE DEF d, x
        <5> QED  BY <5>1, <5>2, StoppedSameId
      <4>5. r = IF Ok(x) THEN CreateDevice(x, o) ELSE x  BY <4>1 DEF ChangeDevice, Then
      <4> HIDE DEF x, r
      <4>6. r # Throw(x)
        <5>1. Throw(x).thrown = TRUE  BY <4>3 DEF Throw, PlayerRecord
        <5> QED  BY <5>1 DEF Ok
      <4>7. r = [x EXCEPT !.dev = [st |-> o.fresh, fd |-> FALSE, specs |-> NoSpecs,
                                   id |-> 1 - x.dev.id]]
        BY <4>5, <4>6 DEF CreateDevice
      <4>8. r.dev.id = 1 - x.dev.id  BY <4>3, <4>7 DEF PlayerRecord
      <4>9. x.dev.id \in {0, 1}  BY <4>3 DEF Device
      <4>10. r.dev.id # x.dev.id  BY <4>8, <4>9
      <4> QED  BY <2>4, <3>1, <4>2, <4>4, <4>10 DEF SamePlace, Sound
    <3> HIDE DEF r
    <3>6. v = r  BY <3>3, <3>5 DEF play_impl
    <3> HIDE DEF v
    <3>7. Ok(v) => SeekBack(v) = v \/ ~Ok(SeekBack(v))
      <4>1. SeekBack(v) = v \/ SeekBack(v) = Halt(v, "source")  BY DEF SeekBack
      <4>2. Ok(v) => Halt(v, "source").halt = "source"
        BY <3>5, <3>6 DEF Halt, PlayerRecord
      <4> QED  BY <4>1, <4>2 DEF Ok
    <3> HIDE DEF s
    <3> QED  BY <2>4, <3>4, <3>5, <3>6, <3>7
  <2> QED  BY <1>1, <2>1, <2>2, <2>3, <2>4
<1> HIDE DEF s
<1>5. CASE s.thrown /\ s.halt = "none"
  <2>1. Good(c) /\ Ok(c)  BY <1>3, <1>5, ClearedGood DEF Ok
  <2> HIDE DEF c
  <2>2. Good(u) /\ Attached(u) /\ (Ok(u) => Idle(u))  BY <2>1, stop_implGood, stop_implAttached
  <2> HIDE DEF u
  <2>3. Ok(u) => ToError(u).state = "Error"  BY <2>2, ToErrorGood
  <2> QED  BY <1>2, <1>5, <2>2, <2>3 DEF Attached, Idle
<1>6. CASE ~(s.thrown /\ s.halt = "none")
  <2>1. sinkChangeSlot(p, o) = s  BY <1>2, <1>6
  <2> QED  BY <1>4, <1>6, <2>1 DEF Attached, Ok
<1> QED  BY <1>5, <1>6

\* A step leaves nobody with a device that is not set up, but for that one.
LEMMA AttachedStep ==
    ASSUME Inv, [Next]_vars, Attached(player)
    PROVE  \/ Attached(player')
           \/ player.state = "Playing" /\ player'.dev.id # player.dev.id
<1> DEFINE p == player
<1>1. Good(p) /\ ~p.thrown /\ p \in PlayerRecord  BY DEF Inv, TypeOK
<1>2. CASE DeviceWrite \/ DeviceFail \/ DeviceUnderrun \/ HandleError \/ PoolStep
  <2>1. p'.state = p.state /\ p'.dev = p.dev /\ p'.halt = p.halt
    BY <1>1, <1>2 DEF DeviceWrite, DeviceFail, DeviceUnderrun, TakesLess, HandleError, PoolStep,
                      StartWrite, PlayerRecord
  <2> QED  BY <2>1, MovedAttached
<1>3. CASE WriteHandler("audio") \/ WriteHandler("gui")
  BY <1>3, WriteHandlerAttached DEF Threads
<1>4. ASSUME NEW q, Good(q), Attached(q), Return(q)
      PROVE  Attached(p')
  <2>1. p' = Halt(Cleared(q), "terminated") \/ p' = q  BY <1>4 DEF Return, Cleared
  <2> QED  BY <1>4, <2>1, EndedAttached
<1>5. CASE Play
  <2>1. PICK o \in Outcomes : Return(play_impl(p, o))  BY <1>5 DEF Play
  <2>2. Ok(p)  BY <1>1, <1>5 DEF Play, Command, Ok
  <2>3. Good(play_impl(p, o)) /\ Attached(play_impl(p, o))
    BY <1>1, <2>2, play_implGood, play_implAttached
  <2> QED  BY <1>4, <2>1, <2>3
<1>6. CASE Pause
  <2>1. PICK o \in Outcomes : Return(pause_impl(p, o))  BY <1>6 DEF Pause
  <2>2. Ok(p)  BY <1>1, <1>6 DEF Pause, Command, Ok
  <2>3. Good(pause_impl(p, o)) /\ Attached(pause_impl(p, o))
    BY <1>1, <2>2, pause_implGood, pause_implAttached
  <2> QED  BY <1>4, <2>1, <2>3
<1>7. CASE Stop
  <2>1. PICK o \in Outcomes :
           Return(Then(stop_impl(p, o), LAMBDA x : [x EXCEPT !.in_buf = <<>>]))
    BY <1>7 DEF Stop
  <2> DEFINE q == stop_impl(p, o)
             r == Then(q, LAMBDA x : [x EXCEPT !.in_buf = <<>>])
  <2>2. Ok(p)  BY <1>1, <1>7 DEF Stop, Command, Ok
  <2>3. Good(q) /\ Attached(q)  BY <1>1, <2>2, stop_implGood, stop_implAttached
  <2>4. r = q \/ r = [q EXCEPT !.in_buf = <<>>]  BY DEF Then
  <2>5. Return(r)  BY <2>1
  <2> HIDE DEF q, r
  <2>6. /\ q \in PlayerRecord /\ q.posted \in Seq(Buffer) /\ q.writing \in Seq(Buffer)
        /\ q.done \in Seq(Completion) /\ (q.writing # <<>> => q.dev.fd)
    BY <2>3 DEF Good, Sound, PlayerRecord
  <2>7. r = q \/ r = Queued(q, <<>>, q.posted, q.writing, q.done)
    BY <2>4, <2>6 DEF Queued, PlayerRecord
  <2>8. <<>> \in Seq(Buffer)  BY EmptySeq
  <2>9. Good(r)  BY <2>3, <2>6, <2>7, <2>8, QueuedGood
  <2>10. r.state = q.state /\ r.dev = q.dev /\ r.halt = q.halt
    BY <2>4, <2>6 DEF PlayerRecord
  <2>11. Attached(r)  BY <2>3, <2>10, MovedAttached
  <2> QED  BY <1>4, <2>5, <2>9, <2>11
<1>8. CASE NextTrack
  <2>1. Good(next_impl(p)) /\ SameDevice(p, next_impl(p))  BY <1>1, next_implGood
  <2>2. Attached(next_impl(p))  BY <2>1, MovedAttached DEF SameDevice
  <2> QED  BY <1>4, <1>8, <2>1, <2>2 DEF NextTrack
<1>9. CASE PreviousTrack
  <2>1. PICK w \in Rewound(p.cur) : Return(previous_impl(p, w))  BY <1>9 DEF PreviousTrack
  <2>2. w \in Source /\ SourceSound(w)
    <3>1. p.cur \in Source /\ SourceSound(p.cur)  BY <1>1 DEF Good, Sound, PlayerRecord
    <3> QED  BY <3>1, RewoundOnTrack
  <2> DEFINE q == previous_impl(p, w)
  <2>3. Good(q) /\ SameDevice(p, q)  BY <1>1, <2>2, previous_implGood
  <2>4. Return(q)  BY <2>1
  <2> HIDE DEF q
  <2>5. Attached(q)  BY <2>3, MovedAttached DEF SameDevice
  <2> QED  BY <1>4, <2>3, <2>4, <2>5
<1>10. CASE JumpTo
  <2> DEFINE top == IF p.playlist = NoPlaylist THEN 0 ELSE Length(p.playlist)
  <2>1. PICK n \in 0..top : Return(jumpTo_impl(p, n))  BY <1>10 DEF JumpTo
  <2> DEFINE q == jumpTo_impl(p, n)
  <2>2. n \in Nat  OBVIOUS
  <2>3. Good(q) /\ SameDevice(p, q)  BY <1>1, <2>2, jumpTo_implGood
  <2>4. Return(q)  BY <2>1
  <2> HIDE DEF q
  <2>5. Attached(q)  BY <2>3, MovedAttached DEF SameDevice
  <2> QED  BY <1>4, <2>3, <2>4, <2>5
<1>11. CASE Seek \/ ChangePlaylist
  <2>1. p'.state = p.state /\ p'.dev = p.dev /\ p'.halt = p.halt
    BY <1>1, <1>11 DEF Seek, ChangePlaylist, PlayerRecord
  <2> QED  BY <2>1, MovedAttached
<1>12. CASE EnterPlaylist
  <2> DEFINE q == jumpTo_impl(p, 0)
  <2>1. Good(q) /\ SameDevice(p, q)  BY <1>1, jumpTo_implGood
  <2>2. p' = q  BY <1>12 DEF EnterPlaylist
  <2> HIDE DEF q
  <2> QED  BY <2>1, <2>2, MovedAttached DEF SameDevice
<1>13. CASE ChangeSink
  <2>1. PICK o \in Outcomes : p' = Cleared(sinkChangeSlot(p, o))
    BY <1>13 DEF ChangeSink, Cleared
  <2> DEFINE q == sinkChangeSlot(p, o)
  <2>2. Ok(p)  BY <1>1, <1>13 DEF ChangeSink, Ok
  <2>3. Good(q)  BY <1>1, <2>2, sinkChangeSlotGood
  <2>4. Attached(q) \/ (p.state = "Playing" /\ q.dev.id # p.dev.id)
    BY <1>1, <2>2, sinkChangeSlotAttached
  <2>5. p' = Cleared(q)  BY <2>1
  <2> HIDE DEF q
  <2>6. Cleared(q).dev = q.dev  BY <2>3, ClearedGood
  <2>7. Attached(q) => Attached(Cleared(q))  BY <2>3, EndedAttached
  <2> QED  BY <2>4, <2>5, <2>6, <2>7
<1>14. CASE UNCHANGED vars  BY <1>14 DEF vars
<1> QED  BY <1>2, <1>3, <1>5, <1>6, <1>7, <1>8, <1>9, <1>10, <1>11, <1>12, <1>13, <1>14
         DEF Next, AudioStep, GuiCommand, SignalStep

\* A player that is Playing is fed, through every order of the pool, the device, the
\* commands and the cancelled or failed completions; the one silence is that of a
\* change of sink while it plays (Playing::sinkChange), which nothing else brings
\* about and which the theorem names.
THEOREM AlwaysFed == Spec => PlayingIsFed
<1>1. Inv /\ SetUpIsFed => (player.state = "Playing" /\ Live => Fed \/ Detached)
  <2> SUFFICES ASSUME Inv, SetUpIsFed, player.state = "Playing", Live, ~Detached PROVE Fed
    OBVIOUS
  <2>1. player.dev.fd /\ player.halt = "none"  BY DEF Detached, Live
  <2>2. player.dev.st = "Playing"  BY <2>1 DEF Inv, Good, Agree
  <2>3. FedBy(player, call)  BY <2>1, <2>2 DEF SetUpIsFed, Feeding, Live
  <2> QED  BY <2>3 DEF FedBy, Fed
<1>2. Inv /\ Inv' /\ [Next]_vars =>
         [ player'.halt = "none" /\ Detached' =>
              \/ Detached
              \/ player.state = "Playing" /\ player'.dev.id # player.dev.id ]_vars
  <2> SUFFICES ASSUME Inv, Inv', [Next]_vars, player'.halt = "none", Detached', ~Detached
               PROVE  player.state = "Playing" /\ player'.dev.id # player.dev.id
    OBVIOUS
  <2>1. player.state \in {"Stopped", "Playing", "Paused", "Error"}
    BY DEF Inv, TypeOK, PlayerRecord
  <2>2. Attached(player)  BY <2>1 DEF Attached, Idle, Detached
  <2>3. ~Attached(player')  BY DEF Attached, Idle, Detached
  <2> QED  BY <2>2, <2>3, AttachedStep
<1> QED  BY <1>1, <1>2, InvHolds, SetUpFed, PTL DEF Spec, PlayingIsFed

-----------------------------------------------------------------------------
(***************************************************************************)
(* With files and a device that serve it well, a player whose user plays,  *)
(* skips, seeks and chooses playlists keeps one chain of writes, opens the *)
(* tracks its iterator names, and ends the program only where a track was  *)
(* played to the edge of a buffer or its last buffer came back.            *)
(***************************************************************************)
\* A source is open only when the iterator is on a track, and the pre-loaded one,
\* opened only beside an open source, is the next track from its start.
Following(p) ==
    /\ p.cur # NoSource => OnTrack(p.iter)
    /\ p.nxt # NoSource =>
          /\ p.cur # NoSource /\ OnTrack(Succ(p.iter))
          /\ p.nxt = Open(TrackAt(Succ(p.iter)))

\* The open source is the iterator's track and has something left.
Placed(p) ==
    /\ Following(p)
    /\ p.cur # NoSource =>
          /\ p.cur.track = TrackAt(p.iter)
          /\ p.cur.pos <= FullBuffers[p.cur.track]

\* The device was prepared for a track.
Fitted(d) == d.fd => \E t \in Tracks : d.specs = Settled[SpecsOf[t]]

\* No buffer is under way.
Silent(p) == p.in_buf = <<>> /\ p.posted = <<>> /\ p.writing = <<>>

Serving(p) ==
    /\ Ok(p) /\ p.state \in {"Stopped", "Playing"}
    /\ p.done = <<>>
    /\ p.state = "Playing" =>
          p.playlist # NoPlaylist /\ p.dev.fd /\ p.dev.st = "Playing"
    /\ Fitted(p.dev)
    /\ Placed(p)

NoCalls == [t \in Threads |-> "none"]

\* Where the chain of writes is: in a call of write_handler, in one that finds the
\* buffer an underrun left in in_buf, in a posted lambda or in a waiting write.
CameBack(p) == Len(p.in_buf) = 1 /\ p.posted = <<>> /\ p.writing = <<>>

OneLink(p, c) ==
    \/ Silent(p) /\ c = [NoCalls EXCEPT !["gui"] = "ok"]
    \/ (Silent(p) \/ CameBack(p)) /\ c = [NoCalls EXCEPT !["audio"] = "ok"]
    \/ p.in_buf = <<>> /\ Len(p.posted) = 1 /\ p.writing = <<>> /\ c = NoCalls
    \/ p.in_buf = <<>> /\ p.posted = <<>> /\ Len(p.writing) = 1 /\ c = NoCalls

\* A player that plays has one link; a player that does not has none and nothing
\* pre-loaded.  The playlist changes under the iterator only while it is Stopped.
SInv ==
    /\ Serving(player)
    /\ player.state = "Playing" => OneLink(player, call)
    /\ player.state = "Stopped" =>
          Silent(player) /\ call = NoCalls /\ player.nxt = NoSource
    /\ sig = "assigned" => player.state = "Stopped"
    /\ sig = "idle" => player.iter.list = player.playlist

\* The program has ended, with nothing under way.
Ended ==
    /\ player.halt # "none" /\ player.done = <<>>
    /\ player.posted = <<>> /\ player.writing = <<>> /\ call = NoCalls
    /\ Placed(player)

-----------------------------------------------------------------------------
(* Sources and places *)

LEMMA OpenOpens ==
    ASSUME WellServed, NEW t \in Tracks
    PROVE  /\ Open(t) = [track |-> t, pos |-> 0, rest |-> TRUE] /\ Open(t) # NoSource
           /\ Open(t) \in Source
<1>1. Open(t) = [track |-> t, pos |-> 0, rest |-> TRUE]  BY DEF Open, WellServed
<1>2. Open(t) # NoSource  BY <1>1, NullAssumption DEF NoSource
<1>3. Open(t) \in Source  BY <1>1 DEF Source
<1> QED  BY <1>1, <1>2, <1>3

\* An iterator of a playlist is on a track, unless it is at the end.
LEMMA OnTrackUnlessEnd ==
    ASSUME NEW it \in Iterator, IteratorSound(it), it.list # NoPlaylist
    PROVE  /\ it.list \in Playlists /\ it # NoIterator
           /\ OnTrack(it) <=> it # End(it.list)
           /\ OnTrack(it) => TrackAt(it) \in Tracks
<1>1. it.list \in Playlists /\ it # NoIterator
  BY DEF IteratorSound, Iterator, NoIterator
<1>2. it.at \in 1..(Length(it.list) + 1) /\ Length(it.list) \in Nat
  BY <1>1, LengthNat DEF IteratorSound
<1>3. it = End(it.list) <=> it.at = Length(it.list) + 1
  BY DEF End, Iterator
<1>4. OnTrack(it) <=> it # End(it.list)  BY <1>1, <1>2, <1>3, NullAssumption DEF OnTrack
<1> QED  BY <1>1, <1>4, TrackAtTrack

LEMMA SuccOnTrack ==
    ASSUME NEW it \in Iterator, IteratorSound(it), OnTrack(it)
    PROVE  /\ Succ(it) = [it EXCEPT !.at = @ + 1] /\ Succ(it) \in Iterator
           /\ IteratorSound(Succ(it)) /\ Succ(it).list = it.list
<1>1. it.list # NoPlaylist  BY DEF OnTrack
<1>2. it # NoIterator /\ it # End(it.list)  BY <1>1, OnTrackUnlessEnd
<1>3. Succ(it) = [it EXCEPT !.at = @ + 1]  BY <1>2 DEF Succ
<1>4. Succ(it).list = it.list  BY <1>3 DEF Iterator
<1> QED  BY <1>3, <1>4, SuccSound

LEMMA PlacedTrack ==
    ASSUME NEW p, Good(p), Placed(p), p.cur # NoSource
    PROVE  /\ p.cur.track \in Tracks /\ p.cur \in Source
           /\ p.cur.pos \in 0..FullBuffers[p.cur.track]
           /\ FullBuffers[p.cur.track] \in Nat
<1>1. p.cur \in Source /\ p.cur.track \in Tracks
  BY DEF Good, Sound, SourceSound, PlayerRecord
<1>2. FullBuffers[p.cur.track] \in Nat  BY <1>1, TrackAssumption
<1>3. p.cur.pos \in Nat  BY <1>1 DEF Source
<1> QED  BY <1>1, <1>2, <1>3 DEF Placed, Following

\* What a move of the iterator and the sources leaves alone.
SameRest(p, q) ==
    /\ Ok(q) /\ q.state = p.state /\ q.playlist = p.playlist /\ q.dev = p.dev
    /\ q.in_buf = p.in_buf /\ q.posted = p.posted
    /\ q.writing = p.writing /\ q.done = p.done

LEMMA MovedRest ==
    ASSUME NEW p, Good(p), Ok(p), NEW it, NEW c, NEW n
    PROVE  /\ SameRest(p, Moved(p, it, c, n)) /\ Moved(p, it, c, n).iter = it
           /\ Moved(p, it, c, n).cur = c /\ Moved(p, it, c, n).nxt = n
<1>1. p \in PlayerRecord  BY DEF Good, Sound
<1> DEFINE q == Moved(p, it, c, n)
<1>2. q.iter = it /\ q.cur = c /\ q.nxt = n  BY <1>1 DEF Moved, PlayerRecord
<1>3. /\ q.thrown = p.thrown /\ q.halt = p.halt /\ q.state = p.state
      /\ q.playlist = p.playlist /\ q.dev = p.dev
  BY <1>1 DEF Moved, PlayerRecord
<1>4. /\ q.in_buf = p.in_buf /\ q.posted = p.posted
      /\ q.writing = p.writing /\ q.done = p.done
  BY <1>1 DEF Moved, PlayerRecord
<1> HIDE DEF q
<1>5. SameRest(p, q)  BY <1>3, <1>4 DEF SameRest, Ok
<1> QED  BY <1>2, <1>5 DEF q

\* A step forward: the pre-loaded source or a newly opened one, or the end.
LEMMA next_implPlaced ==
    ASSUME WellServed, NEW p, Good(p), Ok(p), Following(p), p.iter.list = p.playlist
    PROVE  LET q == next_impl(p)
           IN  /\ SameRest(p, q) /\ Placed(q) /\ q.iter.list = q.playlist
               /\ q.nxt = NoSource /\ Good(q)
               /\ OnTrack(p.iter) => q.iter = Succ(p.iter) /\ q.cur.pos = 0
<1> DEFINE q == next_impl(p)
           to == Succ(p.iter)
<1>1. /\ p \in PlayerRecord /\ p.iter \in Iterator /\ IteratorSound(p.iter)
      /\ p.nxt \in Source
  BY DEF Good, Sound, PlayerRecord
<1>2. Good(q)  BY next_implGood
<1>3. SUFFICES /\ SameRest(p, q) /\ Placed(q) /\ q.iter.list = p.playlist /\ q.nxt = NoSource
               /\ OnTrack(p.iter) => q.iter = to /\ q.cur.pos = 0
  BY <1>2 DEF SameRest
<1>4. CASE p.playlist = NoPlaylist
  <2>1. p.iter = NoIterator  BY <1>1, <1>4, NullAssumption DEF IteratorSound
  <2>2. ~OnTrack(p.iter)  BY <1>4 DEF OnTrack
  <2>3. p.cur = NoSource /\ p.nxt = NoSource  BY <2>2 DEF Following
  <2>4. q = Moved(p, NoIterator, NoSource, NoSource)
    BY <1>1, <1>4, <2>3 DEF next_impl, Moved, PlayerRecord
  <2>5. /\ SameRest(p, q) /\ q.iter = NoIterator /\ q.cur = NoSource /\ q.nxt = NoSource
    <3> HIDE DEF q
    <3> QED  BY <2>4, MovedRest
  <2> QED  BY <1>4, <2>2, <2>5 DEF Placed, Following, NoIterator
<1>5. CASE p.playlist # NoPlaylist /\ p.iter = End(p.playlist)
  <2>1. ~OnTrack(p.iter)  BY <1>1, <1>5, OnTrackUnlessEnd
  <2>2. p.cur = NoSource /\ p.nxt = NoSource  BY <2>1 DEF Following
  <2>3. q = Moved(p, p.iter, NoSource, NoSource)
    BY <1>1, <1>5, <2>2 DEF next_impl, CloseSource, Moved, PlayerRecord
  <2>4. /\ SameRest(p, q) /\ q.iter = p.iter /\ q.cur = NoSource /\ q.nxt = NoSource
    <3> HIDE DEF q
    <3> QED  BY <2>3, MovedRest
  <2> QED  BY <2>1, <2>4 DEF Placed, Following
<1>6. CASE p.playlist # NoPlaylist /\ p.iter # End(p.playlist)
  <2>1. OnTrack(p.iter) /\ p.iter # NoIterator  BY <1>1, <1>6, OnTrackUnlessEnd
  <2>2. to \in Iterator /\ IteratorSound(to) /\ to.list = p.playlist
    BY <1>1, <2>1, SuccOnTrack
  <2> DEFINE r == [p EXCEPT !.iter = to, !.cur = NoSource]
  <2>3. r.iter = to  BY <1>1 DEF PlayerRecord
  <2> HIDE DEF to
  <2>4. CASE p.nxt # NoSource
    <3>1. q = Moved(p, to, p.nxt, NoSource)
      BY <1>1, <1>6, <2>1, <2>4 DEF next_impl, Moved, PlayerRecord, to
    <3>2. SameRest(p, q) /\ q.iter = to /\ q.cur = p.nxt /\ q.nxt = NoSource
      <4> HIDE DEF q
      <4> QED  BY <3>1, MovedRest
    <3>3. OnTrack(to) /\ p.nxt = Open(TrackAt(to))  BY <2>4 DEF Following, to
    <3>4. TrackAt(to) \in Tracks  BY <2>2, <3>3, TrackAtTrack
    <3>5. p.nxt.track = TrackAt(to) /\ p.nxt.pos = 0  BY <3>3, <3>4, OpenOpens
    <3>6. FullBuffers[p.nxt.track] \in Nat  BY <3>4, <3>5, TrackAssumption
    <3>7. Placed(q)  BY <3>2, <3>3, <3>5, <3>6 DEF Placed, Following
    <3> QED  BY <2>2, <3>2, <3>5, <3>7
  <2>5. CASE p.nxt = NoSource /\ to = End(p.playlist)
    <3>1. q = r  BY <1>6, <2>1, <2>3, <2>5 DEF next_impl, to
    <3>2. r = Moved(p, to, NoSource, NoSource)  BY <1>1, <2>5 DEF Moved, PlayerRecord
    <3>3. SameRest(p, q) /\ q.iter = to /\ q.cur = NoSource /\ q.nxt = NoSource
      <4> HIDE DEF q, r
      <4> QED  BY <3>1, <3>2, MovedRest
    <3> QED  BY <2>2, <3>3 DEF Placed, Following, NoSource
  <2>6. CASE p.nxt = NoSource /\ to # End(p.playlist)
    <3>1. OnTrack(to) /\ TrackAt(to) \in Tracks  BY <1>6, <2>2, <2>6, OnTrackUnlessEnd
    <3> DEFINE s == Open(TrackAt(to))
    <3>2. q = [r EXCEPT !.cur = s]  BY <1>6, <2>1, <2>3, <2>6, <3>1 DEF next_impl, to
    <3>3. q = Moved(p, to, s, NoSource)  BY <1>1, <2>6, <3>2 DEF Moved, PlayerRecord
    <3>4. SameRest(p, q) /\ q.iter = to /\ q.cur = s /\ q.nxt = NoSource
      <4> HIDE DEF q, s
      <4> QED  BY <3>3, MovedRest
    <3>5. s.track = TrackAt(to) /\ s.pos = 0  BY <3>1, OpenOpens
    <3>6. FullBuffers[s.track] \in Nat  BY <3>1, <3>5, TrackAssumption
    <3> HIDE DEF s
    <3>7. Placed(q)  BY <3>1, <3>4, <3>5, <3>6 DEF Placed, Following
    <3> QED  BY <2>2, <3>4, <3>5, <3>7
  <2> QED  BY <2>4, <2>5, <2>6
<1> QED  BY <1>4, <1>5, <1>6

\* A step back: the track before, or the first one again, and nothing pre-loaded.
LEMMA previous_implPlaced ==
    ASSUME WellServed, NEW p, Good(p), Ok(p), Placed(p), p.iter.list = p.playlist,
           NEW w \in Rewound(p.cur)
    PROVE  LET q == previous_impl(p, w)
           IN  SameRest(p, q) /\ Placed(q) /\ q.iter.list = q.playlist /\ q.nxt = NoSource
<1> DEFINE q == previous_impl(p, w)
<1>1. /\ p \in PlayerRecord /\ p.iter \in Iterator /\ IteratorSound(p.iter)
  BY DEF Good, Sound, PlayerRecord
<1>2. SUFFICES SameRest(p, q) /\ Placed(q) /\ q.iter.list = p.playlist /\ q.nxt = NoSource
  BY DEF SameRest
<1>3. CASE p.playlist = NoPlaylist
  <2>1. q = Moved(p, NoIterator, NoSource, NoSource)
    BY <1>1, <1>3 DEF previous_impl, Unset, Moved, PlayerRecord
  <2>2. SameRest(p, q) /\ q.iter = NoIterator /\ q.cur = NoSource /\ q.nxt = NoSource
    <3> HIDE DEF q
    <3> QED  BY <2>1, MovedRest
  <2> QED  BY <1>3, <2>2 DEF Placed, Following, NoIterator
<1>4. CASE p.playlist # NoPlaylist /\ p.iter = Begin(p.playlist)
  <2>1. q = Moved(p, p.iter, w, NoSource)
    BY <1>1, <1>4 DEF previous_impl, Moved, PlayerRecord
  <2>2. SameRest(p, q) /\ q.iter = p.iter /\ q.cur = w /\ q.nxt = NoSource
    <3> HIDE DEF q
    <3> QED  BY <2>1, MovedRest
  <2>3. Placed(q)
    <3>1. CASE p.cur = NoSource
      <4>1. w = NoSource  BY <3>1 DEF Rewound
      <4> QED  BY <2>2, <4>1 DEF Placed, Following
    <3>2. CASE p.cur # NoSource
      <4>1. p.cur.track \in Tracks /\ FullBuffers[p.cur.track] \in Nat  BY <3>2, PlacedTrack
      <4>2. w \in Places(p.cur.track)  BY <3>2, <4>1 DEF Rewound, WellServed
      <4>3. w.track = p.cur.track /\ w.pos <= FullBuffers[w.track]
        BY <4>1, <4>2, PlacesOnTrack
      <4> QED  BY <2>2, <3>2, <4>3 DEF Placed, Following
    <3> QED  BY <3>1, <3>2
  <2> QED  BY <2>2, <2>3
<1>5. CASE p.playlist # NoPlaylist /\ p.iter # Begin(p.playlist)
  <2>1. p.iter # NoIterator  BY <1>1, <1>5, OnTrackUnlessEnd
  <2> DEFINE it == IF p.iter.at = 1 THEN p.iter ELSE [p.iter EXCEPT !.at = @ - 1]
  <2>2. q = Moved(p, it, NoSource, NoSource)
    BY <1>1, <1>5, <2>1 DEF previous_impl, Moved, PlayerRecord
  <2>3. it.list = p.playlist  BY <1>1 DEF Iterator
  <2>4. SameRest(p, q) /\ q.iter = it /\ q.cur = NoSource /\ q.nxt = NoSource
    <3> HIDE DEF q, it
    <3> QED  BY <2>2, MovedRest
  <2> QED  BY <2>3, <2>4 DEF Placed, Following
<1> QED  BY <1>3, <1>4, <1>5

\* Pre-loading opens the next track, if there is one.
LEMMA PreloadPlaced ==
    ASSUME WellServed, NEW p, Good(p), Ok(p), Placed(p), p.iter.list = p.playlist
    PROVE  LET q == Preload(p)
           IN  SameRest(p, q) /\ Placed(q) /\ q.iter = p.iter /\ q.cur = p.cur
<1> DEFINE q == Preload(p)
           nt == Succ(p.iter)
<1>1. /\ p \in PlayerRecord /\ p.iter \in Iterator /\ IteratorSound(p.iter)
  BY DEF Good, Sound, PlayerRecord
<1>2. SameRest(p, p)  BY DEF SameRest
<1>3. CASE p.cur = NoSource \/ p.playlist = NoPlaylist \/ Remaining(p.cur) > PreloadAt
  <2>1. q = p  BY <1>3 DEF Preload
  <2> QED  BY <1>2, <2>1
<1>4. CASE p.cur # NoSource /\ p.playlist # NoPlaylist /\ ~(Remaining(p.cur) > PreloadAt)
  <2>1. OnTrack(p.iter) /\ p.iter # NoIterator  BY <1>1, <1>4, OnTrackUnlessEnd DEF Placed, Following
  <2>2. nt \in Iterator /\ IteratorSound(nt) /\ nt.list = p.playlist
    BY <1>1, <2>1, SuccOnTrack
  <2> HIDE DEF nt
  <2>3. CASE nt = End(p.playlist) \/ p.nxt # NoSource
    <3>1. q = p  BY <1>4, <2>1, <2>3 DEF Preload, nt
    <3> QED  BY <1>2, <3>1
  <2>4. CASE nt # End(p.playlist) /\ p.nxt = NoSource
    <3>1. OnTrack(nt) /\ TrackAt(nt) \in Tracks  BY <1>4, <2>2, <2>4, OnTrackUnlessEnd
    <3> DEFINE s == Open(TrackAt(nt))
    <3>2. q = [p EXCEPT !.nxt = s]  BY <1>4, <2>1, <2>4, <3>1 DEF Preload, nt, WellServed
    <3>3. q = Moved(p, p.iter, p.cur, s)  BY <1>1, <3>2 DEF Moved, PlayerRecord
    <3>4. SameRest(p, q) /\ q.iter = p.iter /\ q.cur = p.cur /\ q.nxt = s
      <4> HIDE DEF q, s
      <4> QED  BY <3>3, MovedRest
    <3>5. Placed(q)  BY <1>4, <3>1, <3>4 DEF Placed, Following, nt
    <3> QED  BY <3>4, <3>5
  <2> QED  BY <2>3, <2>4
<1> QED  BY <1>3, <1>4

\* The iterator's track is opened if none is.
LEMMA ChooseSourcePlaced ==
    ASSUME WellServed, NEW p, Good(p), Ok(p), Placed(p), p.iter.list = p.playlist,
           OnTrack(p.iter)
    PROVE  LET q == ChooseSource(p)
           IN  SameRest(p, q) /\ Placed(q) /\ q.iter = p.iter /\ q.cur # NoSource
                 /\ q.nxt = p.nxt /\ q.cur.pos = p.cur.pos
                 /\ (q.cur = p.cur \/ q.cur.rest)
<1> DEFINE q == ChooseSource(p)
           s == Open(TrackAt(p.iter))
<1>1. p \in PlayerRecord /\ p.iter \in Iterator  BY DEF Good, Sound, PlayerRecord
<1>2. CASE p.cur # NoSource
  <2>1. q = p  BY <1>2 DEF ChooseSource
  <2>2. SameRest(p, p)  BY DEF SameRest
  <2> QED  BY <1>2, <2>1, <2>2
<1>3. CASE p.cur = NoSource
  <2>1. p.nxt = NoSource  BY <1>3 DEF Placed, Following
  <2>2. q = [p EXCEPT !.cur = s]  BY <1>3, <2>1 DEF ChooseSource, WellServed
  <2>3. q = Moved(p, p.iter, s, NoSource)  BY <1>1, <2>1, <2>2 DEF Moved, PlayerRecord
  <2>4. SameRest(p, q) /\ q.iter = p.iter /\ q.cur = s /\ q.nxt = NoSource
    <3> HIDE DEF q, s
    <3> QED  BY <2>3, MovedRest
  <2>5. TrackAt(p.iter) \in Tracks  BY <1>1, TrackAtTrack
  <2>6. s # NoSource /\ s.track = TrackAt(p.iter) /\ s.pos = 0 /\ s.rest  BY <2>5, OpenOpens
  <2>7. FullBuffers[s.track] \in Nat  BY <2>5, <2>6, TrackAssumption
  <2> HIDE DEF s
  <2>8. Placed(q)  BY <2>4, <2>6, <2>7 DEF Placed, Following
  <2>9. q.cur.pos = p.cur.pos  BY <1>3, <2>4, <2>6 DEF NoSource
  <2> QED  BY <2>1, <2>4, <2>6, <2>8, <2>9
<1> QED  BY <1>2, <1>3

\* A jump with nothing pre-loaded closes the source.
LEMMA jumpTo_implPlaced ==
    ASSUME NEW p, Good(p), Ok(p), p.nxt = NoSource, NEW n \in Nat
    PROVE  LET q == jumpTo_impl(p, n)
           IN  /\ SameRest(p, q) /\ Placed(q) /\ q.iter.list = q.playlist
               /\ q.cur = NoSource /\ q.nxt = NoSource
               /\ n = 0 /\ p.playlist # NoPlaylist => q.iter = Begin(q.playlist)
               /\ n = Length(p.playlist) /\ p.playlist # NoPlaylist =>
                     q.iter = End(q.playlist)
<1> DEFINE q == jumpTo_impl(p, n)
<1>1. p \in PlayerRecord  BY DEF Good, Sound
<1>2. CASE p.playlist = NoPlaylist
  <2>1. q = Moved(p, NoIterator, NoSource, NoSource)
    BY <1>1, <1>2 DEF jumpTo_impl, Unset, Moved, PlayerRecord
  <2>2. SameRest(p, q) /\ q.iter = NoIterator /\ q.cur = NoSource /\ q.nxt = NoSource
    <3> HIDE DEF q
    <3> QED  BY <2>1, MovedRest
  <2> QED  BY <1>2, <2>2 DEF Placed, Following, NoIterator, SameRest
<1>3. CASE p.playlist # NoPlaylist
  <2> DEFINE to == IF n < Length(p.playlist)
                   THEN [list |-> p.playlist, at |-> n + 1] ELSE End(p.playlist)
  <2>1. q = Moved(p, to, NoSource, NoSource)
    BY <1>1, <1>3 DEF jumpTo_impl, Moved, PlayerRecord
  <2>2. SameRest(p, q) /\ q.iter = to /\ q.cur = NoSource /\ q.nxt = NoSource
    <3> HIDE DEF q, to
    <3> QED  BY <2>1, MovedRest
  <2>3. to.list = p.playlist  BY DEF End
  <2>4. n = 0 => to = Begin(p.playlist)
    <3>1. Length(p.playlist) \in Nat  BY <1>1, <1>3, LengthNat DEF PlayerRecord
    <3> QED  BY <3>1 DEF Begin, End
  <2>5. n = Length(p.playlist) => to = End(p.playlist)  OBVIOUS
  <2> HIDE DEF to
  <2> QED  BY <2>2, <2>3, <2>4, <2>5 DEF Placed, Following, SameRest
<1> QED  BY <1>2, <1>3

-----------------------------------------------------------------------------
(* The device, when no call of it fails *)

LEMMA Faultless ==
    ASSUME WellServed, NEW o \in Outcomes
    PROVE  o.fault \in {"none", "underrun"} /\ o.fresh \in DeviceStates
BY OutcomeType DEF WellServed, Outcomes

\* What an operation on the device leaves alone while no write waits.
SameBut(p, q) ==
    /\ Ok(q) /\ q.state = p.state /\ q.playlist = p.playlist
    /\ q.iter = p.iter /\ q.cur = p.cur /\ q.nxt = p.nxt
    /\ q.in_buf = p.in_buf /\ q.posted = p.posted
    /\ q.writing = <<>> /\ q.done = <<>>

OnDevice(p, d) == [p EXCEPT !.dev = d]

LEMMA OnDeviceSame ==
    ASSUME NEW p \in PlayerRecord, Ok(p), p.writing = <<>>, p.done = <<>>, NEW d
    PROVE  SameBut(p, OnDevice(p, d)) /\ OnDevice(p, d).dev = d
<1> DEFINE q == OnDevice(p, d)
<1>1. q.dev = d  BY DEF OnDevice, PlayerRecord
<1>2. /\ q.thrown = p.thrown /\ q.halt = p.halt /\ q.state = p.state
      /\ q.playlist = p.playlist /\ q.iter = p.iter /\ q.cur = p.cur /\ q.nxt = p.nxt
  BY DEF OnDevice, PlayerRecord
<1>3. /\ q.in_buf = p.in_buf /\ q.posted = p.posted
      /\ q.writing = p.writing /\ q.done = p.done
  BY DEF OnDevice, PlayerRecord
<1> HIDE DEF q
<1>4. SameBut(p, q)  BY <1>2, <1>3 DEF SameBut, Ok
<1> QED  BY <1>1, <1>4 DEF q

\* Nothing is cancelled.
LEMMA DevCancelSilent ==
    ASSUME NEW p \in PlayerRecord, p.writing = <<>>, p.done = <<>>
    PROVE  DevCancel(p) = p
<1> DEFINE cs == [i \in 1..Len(p.writing) |-> [buf |-> p.writing[i], ec |-> "canceled"]]
<1>1. cs = <<>>
  <2>1. Len(p.writing) = 0  OBVIOUS
  <2>2. 1..Len(p.writing) = {}  BY <2>1
  <2> QED  BY <2>2
<1>2. p.done \o cs = <<>>
  <2>1. <<>> \in Seq(Completion)  BY EmptySeq
  <2> HIDE DEF cs
  <2> QED  BY <1>1, <2>1, ConcatEmptySeq
<1>3. DevCancel(p) = [p EXCEPT !.writing = <<>>, !.done = p.done \o cs]  BY DEF DevCancel
<1> HIDE DEF cs
<1>4. DevCancel(p) = [p EXCEPT !.writing = <<>>, !.done = <<>>]  BY <1>2, <1>3
<1>5. [p EXCEPT !.writing = <<>>, !.done = <<>>] = p  BY DEF PlayerRecord
<1> QED  BY <1>4, <1>5

LEMMA DevStopSilent ==
    ASSUME WellServed, NEW p \in PlayerRecord, Ok(p), p.writing = <<>>, p.done = <<>>,
           NEW o \in Outcomes
    PROVE  SameBut(p, DevStop(p, o)) /\ ~DevStop(p, o).dev.fd
<1> DEFINE d == [p.dev EXCEPT !.st = "Stopped", !.fd = FALSE]
<1>1. DevStop(p, o) = [DevCancel(p) EXCEPT !.dev = [@ EXCEPT !.st = "Stopped", !.fd = FALSE]]
  BY Faultless DEF DevStop
<1>2. DevStop(p, o) = OnDevice(p, d)  BY <1>1, DevCancelSilent DEF OnDevice
<1>3. d.fd = FALSE
  <2>1. p.dev \in Device  BY DEF PlayerRecord
  <2> QED  BY <2>1 DEF Device
<1> HIDE DEF d
<1>4. SameBut(p, OnDevice(p, d)) /\ OnDevice(p, d).dev = d  BY OnDeviceSame
<1> QED  BY <1>2, <1>3, <1>4

\* A new device takes the place of the old one.
LEMMA ChangeDeviceSilent ==
    ASSUME WellServed, NEW p, Good(p), Ok(p), p.writing = <<>>, p.done = <<>>,
           NEW o \in Outcomes
    PROVE  SameBut(p, ChangeDevice(p, o)) /\ ~ChangeDevice(p, o).dev.fd
<1> DEFINE q == DropDevice(p, o)
           r == CreateDevice(q, o)
<1>1. p \in PlayerRecord /\ Sound(p)  BY DEF Good, Sound
<1>2. SameBut(p, q) /\ ~q.dev.fd
  <2>1. CASE p.dev.st = "None"
    <3>1. q = p  BY <2>1 DEF DropDevice
    <3>2. ~p.dev.fd  BY <1>1, <2>1 DEF Sound
    <3> QED  BY <3>1, <3>2 DEF SameBut
  <2>2. CASE p.dev.st # "None"
    <3>1. q = DevStop(p, o)  BY <2>2 DEF DropDevice
    <3> QED  BY <1>1, <3>1, DevStopSilent
  <2> QED  BY <2>1, <2>2
<1>3. q \in PlayerRecord  BY <1>1, DropDeviceSound DEF Sound
<1>4. ChangeDevice(p, o) = r  BY <1>2 DEF ChangeDevice, Then, SameBut
<1> HIDE DEF q
<1> DEFINE d == [st |-> o.fresh, fd |-> FALSE, specs |-> NoSpecs, id |-> 1 - q.dev.id]
<1>5. r = OnDevice(q, d)  BY Faultless DEF CreateDevice, OnDevice
<1>6. d.fd = FALSE  OBVIOUS
<1> HIDE DEF d, r
<1>7. SameBut(q, r) /\ r.dev = d  BY <1>2, <1>3, <1>5, OnDeviceSame DEF SameBut
<1> QED  BY <1>2, <1>4, <1>6, <1>7 DEF SameBut

\* The device is prepared for the specs and plays.
LEMMA DevPrepareSilent ==
    ASSUME WellServed, NEW p \in PlayerRecord, Ok(p), p.writing = <<>>, p.done = <<>>,
           NEW as \in Specs, NEW o \in Outcomes
    PROVE  LET q == DevPrepare(p, as, o)
               r == DevPlay(q, o)
           IN  SameBut(p, q) /\ SameBut(p, r) /\ r.dev.fd /\ r.dev.st = "Playing"
                 /\ r.dev.specs = Settled[as]
<1> DEFINE q == DevPrepare(p, as, o)
           r == DevPlay(q, o)
           d == [p.dev EXCEPT !.st = "Ready", !.fd = TRUE, !.specs = Settled[as]]
<1>1. p.dev \in Device  BY DEF PlayerRecord
<1>2. q = OnDevice(p, d)
  BY Faultless, SpecsAssumption DEF DevPrepare, OnDevice
<1>3. d.st = "Ready" /\ d.fd = TRUE /\ d.specs = Settled[as]  BY <1>1 DEF Device
<1>4. d \in Device
  <2>1. Settled[as] \in Specs  BY DeviceAssumption
  <2> QED  BY <1>1, <2>1 DEF Device, DeviceStates
<1>5. q \in PlayerRecord  BY <1>2, <1>4 DEF OnDevice, PlayerRecord
<1> HIDE DEF d, q
<1>6. SameBut(p, q) /\ q.dev = d  BY <1>2, OnDeviceSame
<1> DEFINE e == [q.dev EXCEPT !.st = "Playing"]
<1>7. r = OnDevice(q, e)  BY <1>3, <1>6, Faultless DEF DevPlay, OnDevice
<1>8. e.st = "Playing" /\ e.fd = TRUE /\ e.specs = Settled[as]
  BY <1>3, <1>4, <1>6 DEF Device
<1> HIDE DEF e, r
<1>9. SameBut(q, r) /\ r.dev = e  BY <1>5, <1>6, <1>7, OnDeviceSame DEF SameBut
<1>10. SameBut(p, r)  BY <1>6, <1>9 DEF SameBut
<1> QED  BY <1>6, <1>8, <1>9, <1>10 DEF q, r

-----------------------------------------------------------------------------
(* Starting to play *)

\* The iterator's track is open, or there is none.
Opened(p, q) ==
    /\ Ok(q) /\ q.state = p.state /\ q.playlist = p.playlist
    /\ q.in_buf = p.in_buf /\ q.posted = p.posted /\ q.writing = <<>> /\ q.done = <<>>
    /\ Placed(q) /\ q.iter.list = q.playlist
    /\ \/ q.cur # NoSource /\ ~q.dev.fd
       \/ q.cur = NoSource /\ q.nxt = NoSource /\ q.dev = p.dev /\ q.iter = End(q.playlist)

LEMMA AtEndClosed ==
    ASSUME NEW p, Good(p), Placed(p), p.iter.list = p.playlist, p.playlist # NoPlaylist,
           p.iter = End(p.playlist)
    PROVE  p.cur = NoSource /\ p.nxt = NoSource
<1>1. p.iter \in Iterator /\ IteratorSound(p.iter)  BY DEF Good, Sound, PlayerRecord
<1>2. ~OnTrack(p.iter)  BY <1>1, OnTrackUnlessEnd
<1> QED  BY <1>2 DEF Placed, Following

LEMMA OpenTrackOpens ==
    ASSUME WellServed, NEW p, Good(p), Ok(p), Placed(p), p.iter.list = p.playlist,
           p.playlist # NoPlaylist, p.writing = <<>>, p.done = <<>>, NEW o \in Outcomes
    PROVE  /\ Opened(p, OpenTrack(p, o))
           /\ p.iter # End(p.playlist) => OpenTrack(p, o).cur # NoSource
           /\ OpenTrack(p, o).iter = p.iter /\ OpenTrack(p, o).cur.pos = 0
<1>1. p \in PlayerRecord /\ p.iter \in Iterator /\ IteratorSound(p.iter)
  BY DEF Good, Sound, PlayerRecord
<1>2. CASE p.iter = End(p.playlist)
  <2>1. OpenTrack(p, o) = p  BY <1>2 DEF OpenTrack
  <2>2. p.cur = NoSource /\ p.nxt = NoSource  BY <1>2, AtEndClosed
  <2> QED  BY <1>2, <2>1, <2>2 DEF Opened, NoSource
<1>3. CASE p.iter # End(p.playlist)
  <2> DEFINE q == ChangeDevice(p, o)
             s == Open(TrackAt(p.iter))
             r == OpenTrack(p, o)
  <2>1. SameBut(p, q) /\ ~q.dev.fd  BY ChangeDeviceSilent
  <2>2. Good(q)
    <3>1. Sound(q)  BY ChangeDeviceSound DEF Good
    <3> QED  BY <2>1, <3>1 DEF Good, Agree
  <2>3. OnTrack(p.iter) /\ TrackAt(p.iter) \in Tracks  BY <1>1, <1>3, OnTrackUnlessEnd
  <2>4. r = [q EXCEPT !.cur = s]
    BY <1>3, <2>1, <2>3 DEF OpenTrack, Then, SameBut
  <2>5. q \in PlayerRecord  BY <2>2 DEF Good, Sound
  <2> HIDE DEF q, s
  <2>6. r = Moved(q, q.iter, s, q.nxt)  BY <2>4, <2>5 DEF Moved, PlayerRecord
  <2> HIDE DEF r
  <2>7. SameRest(q, r) /\ r.iter = q.iter /\ r.cur = s /\ r.nxt = q.nxt
    BY <2>1, <2>2, <2>6, MovedRest DEF SameBut
  <2>8. s # NoSource /\ s.track = TrackAt(p.iter) /\ s.pos = 0  BY <2>3, OpenOpens DEF s
  <2>9. FullBuffers[s.track] \in Nat  BY <2>3, <2>8, TrackAssumption
  <2>10. r.iter = p.iter /\ r.nxt = p.nxt  BY <2>1, <2>7 DEF SameBut
  <2>11. Placed(r)  BY <2>3, <2>7, <2>8, <2>9, <2>10 DEF Placed, Following
  <2>12. Opened(p, r)
    BY <2>1, <2>7, <2>8, <2>10, <2>11 DEF Opened, SameRest, SameBut
  <2> QED  BY <2>7, <2>8, <2>10, <2>12 DEF r
<1> QED  BY <1>2, <1>3

\* From the end play starts over.
StartsAt(p) == IF p.iter = End(p.playlist) THEN Begin(p.playlist) ELSE p.iter

LEMMA OpenForPlayOpens ==
    ASSUME WellServed, NEW p, Good(p), Ok(p), Placed(p), p.iter.list = p.playlist,
           p.playlist # NoPlaylist, p.writing = <<>>, p.done = <<>>, NEW o \in Outcomes
    PROVE  /\ Opened(p, OpenForPlay(p, o))
           /\ Length(p.playlist) # 0 => OpenForPlay(p, o).cur # NoSource
           /\ OpenForPlay(p, o).iter = StartsAt(p) /\ OpenForPlay(p, o).cur.pos = 0
<1>1. CASE p.iter # End(p.playlist)
  <2>1. OpenForPlay(p, o) = OpenTrack(p, o)  BY <1>1 DEF OpenForPlay
  <2> QED  BY <1>1, <2>1, OpenTrackOpens DEF StartsAt
<1>2. CASE p.iter = End(p.playlist)
  <2> DEFINE q == jumpTo_impl(p, 0)
             r == OpenTrack(q, o)
  <2>1. OpenForPlay(p, o) = r  BY <1>2 DEF OpenForPlay
  <2>2. p.cur = NoSource /\ p.nxt = NoSource  BY <1>2, AtEndClosed
  <2>3. /\ SameRest(p, q) /\ Placed(q) /\ q.iter.list = q.playlist
        /\ q.iter = Begin(q.playlist)
    BY <2>2, jumpTo_implPlaced
  <2>4. Good(q)  BY jumpTo_implGood
  <2> HIDE DEF q
  <2>5. /\ Opened(q, r) /\ r.iter = q.iter /\ r.cur.pos = 0
        /\ q.iter # End(q.playlist) => r.cur # NoSource
    BY <2>3, <2>4, OpenTrackOpens DEF SameRest
  <2>6. Length(p.playlist) # 0 => q.iter # End(q.playlist)
    <3>1. Length(p.playlist) \in Nat  BY LengthNat DEF Good, Sound, PlayerRecord
    <3>2. Begin(p.playlist).at = 1 /\ End(p.playlist).at = Length(p.playlist) + 1
      BY DEF Begin, End
    <3> QED  BY <2>3, <3>1, <3>2 DEF SameRest
  <2> HIDE DEF r
  <2>7. Opened(p, r)  BY <2>3, <2>5 DEF Opened, SameRest
  <2>8. r.iter = StartsAt(p)  BY <1>2, <2>3, <2>5 DEF StartsAt, SameRest
  <2> QED  BY <2>1, <2>5, <2>6, <2>7, <2>8
<1> QED  BY <1>1, <1>2

\* play from Stopped: unless the playlist is empty the device plays its specs'
\* track.
LEMMA PlayServes ==
    ASSUME WellServed, NEW p, Good(p), Ok(p), Placed(p), p.iter.list = p.playlist,
           p.playlist # NoPlaylist, p.in_buf = <<>>, p.writing = <<>>, p.done = <<>>,
           p.state = "Stopped", Fitted(p.dev), NEW o \in Outcomes
    PROVE  LET q == play_impl(p, o)
           IN  /\ Serving(q) /\ q.in_buf = <<>> /\ q.posted = p.posted /\ q.writing = <<>>
               /\ q.playlist = p.playlist /\ q.iter.list = q.playlist
               /\ q.state = "Stopped" => q.nxt = NoSource /\ q.iter = End(q.playlist)
               /\ Length(p.playlist) # 0 => q.state = "Playing"
               /\ q.iter = StartsAt(p) /\ q.cur.pos = 0
               /\ q.state = "Playing" =>
                     q.cur # NoSource /\ q.dev.specs = Settled[SpecsOf[q.cur.track]]
<1> DEFINE f == OpenForPlay(p, o)
           g == StartDevice(f, o)
<1>1. /\ Opened(p, f) /\ f.iter = StartsAt(p) /\ f.cur.pos = 0
      /\ Length(p.playlist) # 0 => f.cur # NoSource
  BY OpenForPlayOpens
<1>2. Good(f)  BY OpenForPlayGood
<1>3. play_impl(p, o) = Catch(g, ToError)
  BY <1>1 DEF play_impl, StoppedPlay, Then, Opened
<1> HIDE DEF f
<1>4. f \in PlayerRecord  BY <1>2 DEF Good, Sound
<1>5. CASE f.cur = NoSource
  <2>1. g = f  BY <1>5 DEF StartDevice
  <2>2. play_impl(p, o) = f  BY <1>1, <1>3, <2>1 DEF Catch, Opened, Ok
  <2>3. Serving(f)  BY <1>1, <1>5 DEF Opened, Serving
  <2> QED  BY <1>1, <1>5, <2>2, <2>3 DEF Opened
<1>6. CASE f.cur # NoSource
  <2> DEFINE as == SpecsOf[f.cur.track]
             q == DevPrepare(f, as, o)
             r == DevPlay(q, o)
  <2>1. f.cur.track \in Tracks  BY <1>2, <1>6 DEF Good, Sound, SourceSound
  <2>2. as \in Specs  BY <2>1, TrackAssumption
  <2>3. /\ SameBut(f, q) /\ SameBut(f, r) /\ r.dev.fd /\ r.dev.st = "Playing"
        /\ r.dev.specs = Settled[as]
    <3> HIDE DEF as
    <3> QED  BY <1>1, <1>4, <2>2, DevPrepareSilent DEF Opened
  <2>4. g = ToPlaying(r)
    BY <1>6, <2>3 DEF StartDevice, Then, SameBut
  <2>5. g = InState(r, "Playing")  BY <2>3, <2>4 DEF ToPlaying, InState
  <2>6. r \in PlayerRecord
    <3>1. Sound(q)
      <4> HIDE DEF as
      <4> QED  BY <1>1, <1>2, <2>2, DevPrepareSound DEF Good, Opened
    <3> HIDE DEF q
    <3> QED  BY <2>3, <3>1, DevPlaySound DEF Sound, SameBut, Ok
  <2> HIDE DEF r, g
  <2>7. /\ g.state = "Playing" /\ g.dev = r.dev /\ g.thrown = r.thrown /\ g.halt = r.halt
        /\ g.playlist = r.playlist /\ g.iter = r.iter /\ g.cur = r.cur /\ g.nxt = r.nxt
        /\ g.in_buf = r.in_buf /\ g.posted = r.posted
        /\ g.writing = r.writing /\ g.done = r.done
    BY <2>5, <2>6 DEF InState, PlayerRecord
  <2>8. play_impl(p, o) = g  BY <1>3, <2>3, <2>7 DEF Catch, SameBut, Ok
  <2>9. Placed(g)
    <3>1. g.iter = f.iter /\ g.cur = f.cur /\ g.nxt = f.nxt  BY <2>3, <2>7 DEF SameBut
    <3> QED  BY <1>1, <3>1 DEF Opened, Placed, Following
  <2>10. Fitted(g.dev)  BY <2>1, <2>3, <2>7 DEF Fitted
  <2>11. Ok(g) /\ g.in_buf = <<>> /\ g.done = <<>> /\ g.playlist = p.playlist
    BY <1>1, <2>3, <2>7 DEF Opened, SameBut, Ok
  <2>12. Serving(g)
    BY <2>3, <2>7, <2>9, <2>10, <2>11 DEF Serving
  <2>13. g.posted = p.posted /\ g.writing = <<>> /\ g.iter.list = g.playlist
    BY <1>1, <2>3, <2>7 DEF Opened, SameBut
  <2>14. g.iter = f.iter /\ g.cur = f.cur /\ g.dev.specs = Settled[SpecsOf[g.cur.track]]
    BY <2>3, <2>7 DEF SameBut
  <2> QED  BY <1>1, <1>6, <2>7, <2>8, <2>11, <2>12, <2>13, <2>14
<1> QED  BY <1>5, <1>6

-----------------------------------------------------------------------------
(* write_handler *)

LEMMA AmountLeft ==
    ASSUME WellServed, NEW p, Good(p), Placed(p), p.cur # NoSource
    PROVE  /\ Amount(p.cur) \in {"full", "rest", "nothing"}
           /\ Amount(p.cur) # "nothing" => DecodeError(p.cur) = "ok"
           /\ Amount(p.cur) = "full" => p.cur.pos < FullBuffers[p.cur.track]
           /\ Amount(p.cur) # "full" => p.cur.pos = FullBuffers[p.cur.track]
           /\ Amount(p.cur) = "nothing" => ~p.cur.rest
<1>1. /\ p.cur.track \in Tracks /\ p.cur.pos \in 0..FullBuffers[p.cur.track]
      /\ FullBuffers[p.cur.track] \in Nat
  BY PlacedTrack
<1>2. Codec[p.cur.track] = "flac"  BY <1>1 DEF WellServed
<1>3. p.cur.pos < FullBuffers[p.cur.track] \/ p.cur.pos = FullBuffers[p.cur.track]
  BY <1>1
<1>4. CASE p.cur.pos < FullBuffers[p.cur.track]
  <2>1. p.cur.pos # FullBuffers[p.cur.track]  BY <1>1, <1>4
  <2>2. Amount(p.cur) = "full"  BY <1>4, <2>1 DEF Amount
  <2>3. DecodeError(p.cur) = "ok"  BY <2>2 DEF DecodeError
  <2> QED  BY <1>4, <2>2, <2>3
<1>5. CASE p.cur.pos = FullBuffers[p.cur.track]
  <2>1. ~(p.cur.pos < FullBuffers[p.cur.track])  BY <1>1, <1>5
  <2>2. Amount(p.cur) = IF p.cur.rest THEN "rest" ELSE "nothing"
    BY <1>5, <2>1 DEF Amount
  <2>3. Amount(p.cur) # "nothing" => DecodeError(p.cur) = "ok"
    BY <1>2, <2>2 DEF DecodeError
  <2> QED  BY <1>5, <2>2, <2>3
<1> QED  BY <1>3, <1>4, <1>5

\* A decode moves on within the track, or to the next track after the last buffer.
LEMMA DecodePlaced ==
    ASSUME WellServed, NEW p, Good(p), Ok(p), Placed(p), p.iter.list = p.playlist,
           p.cur # NoSource
    PROVE  /\ SameRest(p, Decode(p)) /\ Placed(Decode(p)) /\ Good(Decode(p))
           /\ Decode(p).iter.list = Decode(p).playlist
           /\ Amount(p.cur) = "full" =>
                 Decode(p).iter = p.iter /\ Decode(p).cur.pos = p.cur.pos + 1
           /\ Amount(p.cur) # "full" => Decode(p).iter = Succ(p.iter) /\ Decode(p).cur.pos = 0
<1> DEFINE c == [p.cur EXCEPT !.pos = @ + 1]
           a == Advanced(p)
<1>1. /\ p.cur.track \in Tracks /\ p.cur \in Source
      /\ p.cur.pos \in 0..FullBuffers[p.cur.track] /\ FullBuffers[p.cur.track] \in Nat
  BY PlacedTrack
<1>2. /\ Amount(p.cur) \in {"full", "rest", "nothing"}
      /\ Amount(p.cur) = "full" => p.cur.pos < FullBuffers[p.cur.track]
  BY AmountLeft
<1>3. c \in Source /\ c.track = p.cur.track /\ c.pos = p.cur.pos + 1
  BY <1>1 DEF Source
<1>4. c # NoSource  BY <1>1, <1>3, NullAssumption DEF NoSource
<1>5. p \in PlayerRecord  BY DEF Good, Sound
<1>6. Amount(p.cur) # "nothing" => a = Moved(p, p.iter, c, p.nxt)
  BY <1>5 DEF Advanced, Moved, PlayerRecord
<1>7. Good(a)  BY AdvancedGood
<1>12. Amount(p.cur) = "nothing" => a = p  BY DEF Advanced
<1> HIDE DEF c, a
<1>8. Amount(p.cur) # "nothing" =>
         SameRest(p, a) /\ a.iter = p.iter /\ a.cur = c /\ a.nxt = p.nxt
  BY <1>6, MovedRest
<1>13. SameRest(p, a) /\ a.iter = p.iter
  <2>1. SameRest(p, p)  BY DEF SameRest
  <2> QED  BY <1>8, <1>12, <2>1
<1>9. Following(a)
  <2>1. CASE Amount(p.cur) = "nothing"  BY <1>12, <2>1 DEF Placed
  <2>2. CASE Amount(p.cur) # "nothing"  BY <1>4, <1>8, <2>2 DEF Placed, Following
  <2> QED  BY <2>1, <2>2
<1>10. CASE Amount(p.cur) = "full"
  <2>1. Decode(p) = a  BY <1>10 DEF Decode, a
  <2>2. Placed(a)  BY <1>1, <1>2, <1>3, <1>8, <1>9, <1>10 DEF Placed
  <2> QED  BY <1>3, <1>7, <1>8, <1>10, <2>1, <2>2 DEF SameRest
<1>11. CASE Amount(p.cur) # "full"
  <2> DEFINE q == next_impl(a)
  <2>1. Decode(p) = q  BY <1>1, <1>11 DEF Decode, WellServed, a
  <2>2. /\ SameRest(a, q) /\ Placed(q) /\ q.iter.list = q.playlist /\ Good(q)
        /\ OnTrack(a.iter) => q.iter = Succ(a.iter) /\ q.cur.pos = 0
    BY <1>7, <1>9, <1>13, next_implPlaced DEF SameRest
  <2>3. OnTrack(p.iter)  BY DEF Placed, Following
  <2> HIDE DEF q
  <2> QED  BY <1>11, <1>13, <2>1, <2>2, <2>3 DEF SameRest
<1> QED  BY <1>2, <1>10, <1>11

\* A write_handler that finds a track ends with one buffer posted, or asks for
\* itself again.
PostedOne(p, q) ==
    /\ Serving(q) /\ q.state = "Playing" /\ q.in_buf = <<>>
    /\ Len(q.posted) = 1 /\ q.writing = <<>> /\ q.iter.list = q.playlist

\* The buffer posted is the one decoded from s.
Hands(p, q, s) ==
    /\ q.posted = <<[track |-> s.track, idx |-> s.pos]>>
    /\ q.playlist = p.playlist /\ q.iter = p.iter /\ q.cur = p.cur /\ q.dev = p.dev

LEMMA PostPosts ==
    ASSUME WellServed, NEW p, Good(p), Serving(p), p.state = "Playing", Silent(p),
           p.iter.list = p.playlist, NEW s \in Source, s.track \in Tracks,
           Amount(s) # "nothing", DecodeError(s) = "ok",
           SameLayout(SpecsOf[s.track], p.dev.specs), NEW o \in Outcomes
    PROVE  PostedOne(p, Post(p, s, o)) /\ Hands(p, Post(p, s, o), s)
<1> DEFINE b == [track |-> s.track, idx |-> s.pos]
           q == Post(p, s, o)
<1>1. p \in PlayerRecord  BY DEF Good, Sound
<1>2. ~Narrows(p, s)
  <2>1. PICK u \in Tracks : p.dev.specs = Settled[SpecsOf[u]]  BY DEF Serving, Fitted
  <2>2. SpecsOf[s.track].bps <= Settled[SpecsOf[u]].bps
    BY <2>1 DEF SameLayout, WellServed
  <2>3. SpecsOf[s.track].bps \in Nat /\ Settled[SpecsOf[u]].bps \in Nat
    <3>1. SpecsOf[s.track] \in Specs /\ SpecsOf[u] \in Specs  BY TrackAssumption
    <3>2. Settled[SpecsOf[u]] \in Specs  BY <3>1, DeviceAssumption
    <3> QED  BY <3>1, <3>2, SpecsAssumption
  <2> QED  BY <2>1, <2>2, <2>3 DEF Narrows
<1>3. b \in Buffer  BY DEF Buffer, Source
<1> HIDE DEF b
<1> DEFINE r == Queue(p, s)
<1>4. r = [p EXCEPT !.in_buf = <<b>>]
  <2>1. r = [p EXCEPT !.in_buf = Append(p.in_buf, b)]  BY DEF Queue, b
  <2>2. Append(<<>>, b) = <<b>>  OBVIOUS
  <2> QED  BY <2>1, <2>2 DEF Silent
<1>5. q = read_handler(r, "ok", o)  BY <1>2 DEF Post
<1> HIDE DEF r
<1>6. r.in_buf = <<b>> /\ r.posted = <<>>  BY <1>1, <1>4 DEF PlayerRecord, Silent
<1>7. q = [r EXCEPT !.posted = Append(r.posted, Head(r.in_buf)), !.in_buf = Tail(r.in_buf)]
  BY <1>5, <1>6 DEF read_handler
<1>8. Append(r.posted, Head(r.in_buf)) = <<b>> /\ Tail(r.in_buf) = <<>>
  BY <1>6
<1>9. q = [p EXCEPT !.posted = <<b>>, !.in_buf = <<>>]
  <2>1. q = [r EXCEPT !.posted = <<b>>, !.in_buf = <<>>]  BY <1>7, <1>8
  <2> HIDE DEF q
  <2> QED  BY <1>1, <1>4, <2>1 DEF PlayerRecord
<1> HIDE DEF q
<1>10. /\ q.posted = <<b>> /\ q.in_buf = <<>> /\ q.writing = p.writing /\ q.done = p.done
       /\ q.state = p.state /\ q.playlist = p.playlist /\ q.iter = p.iter
       /\ q.cur = p.cur /\ q.nxt = p.nxt /\ q.dev = p.dev
       /\ q.thrown = p.thrown /\ q.halt = p.halt
  BY <1>1, <1>9 DEF PlayerRecord
<1>11. Placed(q)  BY <1>10 DEF Serving, Placed, Following
<1>12. Serving(q)  BY <1>10, <1>11 DEF Serving, Ok
<1>13. Len(q.posted) = 1  BY <1>10
<1>14. PostedOne(p, q)  BY <1>10, <1>12, <1>13 DEF PostedOne, Silent
<1>15. Hands(p, q, s)  BY <1>10 DEF Hands, b
<1> QED  BY <1>14, <1>15 DEF q

\* The end of the playlist stops the player.
LEMMA read_handlerEnds ==
    ASSUME WellServed, NEW p, Good(p), Serving(p), p.state = "Playing", Silent(p),
           p.cur = NoSource, NEW o \in Outcomes
    PROVE  LET q == read_handler(p, "eof", o)
           IN  Serving(q) /\ q.state = "Stopped" /\ Silent(q) /\ q.nxt = NoSource
                 /\ q.iter.list = q.playlist
                 /\ q.playlist = p.playlist /\ q.iter = End(q.playlist)
<1> DEFINE d == DevStop(p, o)
           s == ToStopped(d)
           n == Length(p.playlist)
           j == jumpTo_impl(s, n)
<1>1. p \in PlayerRecord /\ Ok(p) /\ p.playlist \in Playlists
  BY DEF Good, Sound, PlayerRecord, Serving
<1>2. SameBut(p, d) /\ ~d.dev.fd  BY <1>1, DevStopSilent DEF Serving, Silent
<1>3. Sound(d)  BY DevStopSound DEF Good
<1>4. s = InState(d, "Stopped")  BY DEF ToStopped, InState
<1>5. Good(s)  BY <1>2, <1>3, ToStoppedGood
<1>6. read_handler(p, "eof", o) = stop_impl(p, o)
  BY DEF read_handler, Silent
<1>7. StateStop(p, o) = s  BY <1>2 DEF StateStop, Then, SameBut
<1> HIDE DEF d, s
<1>8. d \in PlayerRecord  BY <1>3 DEF Sound
<1>9. /\ s.state = "Stopped" /\ s.dev = d.dev /\ s.thrown = d.thrown /\ s.halt = d.halt
      /\ s.playlist = d.playlist /\ s.nxt = d.nxt /\ s.in_buf = d.in_buf
      /\ s.posted = d.posted /\ s.writing = d.writing /\ s.done = d.done
  BY <1>4, <1>8 DEF InState, PlayerRecord
<1>10. Ok(s) /\ s.playlist = p.playlist /\ s.nxt = NoSource
  BY <1>2, <1>9 DEF SameBut, Ok, Serving, Placed, Following
<1>11. n \in Nat  BY <1>1, LengthNat
<1>12. stop_impl(p, o) = j
  BY <1>7, <1>10 DEF stop_impl, Then, JumpToEnd, Serving
<1>13. /\ SameRest(s, j) /\ Placed(j) /\ j.iter.list = j.playlist
       /\ j.cur = NoSource /\ j.nxt = NoSource /\ j.iter = End(j.playlist)
  <2>1. n = Length(s.playlist) /\ s.playlist # NoPlaylist  BY <1>1, <1>10, NullAssumption
  <2> HIDE DEF n
  <2> QED  BY <1>5, <1>10, <1>11, <2>1, jumpTo_implPlaced
<1> HIDE DEF n, j
<1>14. Fitted(j.dev)  BY <1>2, <1>9, <1>13 DEF Fitted, SameRest
<1>15. Serving(j)
  BY <1>2, <1>9, <1>13, <1>14 DEF Serving, SameRest, SameBut
<1>16. Silent(j)  BY <1>2, <1>9, <1>13 DEF Silent, SameRest, SameBut
<1> QED  BY <1>6, <1>9, <1>10, <1>12, <1>13, <1>15, <1>16 DEF SameRest

\* Between tracks of different rates the device is prepared again and
\* write_handler called again.
LEMMA RestartServes ==
    ASSUME WellServed, NEW p, Good(p), Serving(p), p.state = "Playing", Silent(p),
           p.cur # NoSource, p.iter.list = p.playlist, NEW o \in Outcomes
    PROVE  LET q == Restart(p, o)
           IN  /\ Serving(q) /\ q.state = "Playing" /\ Silent(q) /\ q.iter.list = q.playlist
               /\ q.playlist = p.playlist
               /\ Amount(p.cur) = "full" =>
                     q.iter = p.iter /\ q.cur # NoSource /\ q.cur.pos = 0
                       /\ q.dev.specs = Settled[SpecsOf[q.cur.track]]
<1> DEFINE c == Decode(p)
           d == DevStop(c, o)
           s == ToStopped(d)
           q == play_impl(s, o)
<1>1. Ok(p) /\ Placed(p)  BY DEF Serving
<1>2. /\ SameRest(p, c) /\ Placed(c) /\ Good(c) /\ c.iter.list = c.playlist
      /\ Amount(p.cur) = "full" => c.iter = p.iter
  BY <1>1, DecodePlaced
<1> HIDE DEF c
<1>3. c \in PlayerRecord /\ Sound(c)  BY <1>2 DEF Good, Sound
<1>4. SameBut(c, d) /\ ~d.dev.fd
  BY <1>2, <1>3, DevStopSilent DEF SameRest, Serving, Silent
<1>5. Sound(d)  BY <1>3, DevStopSound
<1>6. s = InState(d, "Stopped")  BY DEF ToStopped, InState
<1>7. Good(s)  BY <1>4, <1>5, ToStoppedGood
<1>8. StateStop(c, o) = s
  BY <1>2, <1>4 DEF StateStop, Then, SameBut, SameRest
<1> HIDE DEF d, s
<1>9. d \in PlayerRecord  BY <1>5 DEF Sound
<1>10. /\ s.state = "Stopped" /\ s.dev = d.dev /\ s.thrown = d.thrown /\ s.halt = d.halt
       /\ s.playlist = d.playlist /\ s.iter = d.iter /\ s.cur = d.cur /\ s.nxt = d.nxt
       /\ s.in_buf = d.in_buf /\ s.posted = d.posted
       /\ s.writing = d.writing /\ s.done = d.done
  BY <1>6, <1>9 DEF InState, PlayerRecord
<1>11. Ok(s) /\ Placed(s) /\ s.iter.list = s.playlist /\ s.playlist = p.playlist
  BY <1>2, <1>4, <1>10 DEF SameBut, SameRest, Ok, Placed, Following
<1>12. /\ s.in_buf = <<>> /\ s.posted = <<>> /\ s.writing = <<>> /\ s.done = <<>>
       /\ Fitted(s.dev)
  BY <1>2, <1>4, <1>10 DEF SameBut, SameRest, Serving, Silent, Fitted
<1>13. Restart(p, o) = q
  <2>1. Then(c, LAMBDA x : StateStop(x, o)) = s  BY <1>2, <1>8 DEF Then, SameRest
  <2> QED  BY <1>11, <2>1 DEF Restart, Then, c
<1>14. Length(p.playlist) # 0
  <2>1. OnTrack(p.iter)  BY <1>1 DEF Placed, Following
  <2>2. p.playlist \in Playlists  BY DEF Good, Sound, PlayerRecord, Serving
  <2>3. Length(p.playlist) \in Nat  BY <2>2, LengthNat
  <2> QED  BY <2>1, <2>3 DEF OnTrack
<1>15. p.playlist # NoPlaylist  BY DEF Serving
<1>16. /\ Serving(q) /\ q.in_buf = <<>> /\ q.posted = s.posted /\ q.writing = <<>>
       /\ q.playlist = s.playlist /\ q.iter.list = q.playlist /\ q.state = "Playing"
       /\ q.iter = StartsAt(s) /\ q.cur.pos = 0
       /\ q.cur # NoSource /\ q.dev.specs = Settled[SpecsOf[q.cur.track]]
  BY <1>7, <1>10, <1>11, <1>12, <1>14, <1>15, PlayServes
<1> HIDE DEF q
<1>17. Amount(p.cur) = "full" => q.iter = p.iter
  <2>1. SUFFICES ASSUME Amount(p.cur) = "full" PROVE q.iter = p.iter  OBVIOUS
  <2>2. s.iter = p.iter  BY <1>2, <1>4, <1>10, <2>1 DEF SameBut
  <2>3. OnTrack(p.iter)  BY <1>1 DEF Placed, Following
  <2>4. p.iter \in Iterator /\ IteratorSound(p.iter)  BY DEF Good, Sound, PlayerRecord
  <2>5. p.iter # End(p.playlist)  BY <1>15, <2>3, <2>4, OnTrackUnlessEnd
  <2> QED  BY <1>11, <1>16, <2>2, <2>5 DEF StartsAt
<1> QED  BY <1>11, <1>12, <1>13, <1>16, <1>17 DEF Silent

-----------------------------------------------------------------------------
(* The actions *)

\* A call of write_handler is the one link of a player that plays.
LEMMA CallIsLink ==
    ASSUME Inv, SInv, NEW t \in Threads, Enter(t)
    PROVE  /\ player.state = "Playing" /\ (Silent(player) \/ CameBack(player))
           /\ call = [NoCalls EXCEPT ![t] = "ok"] /\ call[t] = "ok"
           /\ player.iter.list = player.playlist /\ sig = "idle"
<1>1. NoCalls[t] = "none"  BY DEF NoCalls
<1>2. call # NoCalls  BY <1>1 DEF Enter
<1>3. player.state = "Playing" /\ OneLink(player, call)  BY <1>2 DEF SInv, Serving
<1>4. (Silent(player) \/ CameBack(player)) /\ call = [NoCalls EXCEPT ![t] = "ok"]
  <2>1. CASE call = [NoCalls EXCEPT !["gui"] = "ok"] /\ Silent(player)
    <3>1. call["audio"] = "none"  BY <2>1 DEF NoCalls, Threads
    <3>2. t = "gui"  BY <3>1 DEF Enter, Threads
    <3> QED  BY <2>1, <3>2
  <2>2. CASE call = [NoCalls EXCEPT !["audio"] = "ok"] /\ (Silent(player) \/ CameBack(player))
    <3>1. call["gui"] = "none"  BY <2>2 DEF NoCalls, Threads
    <3>2. t = "audio"  BY <3>1 DEF Enter, Threads
    <3> QED  BY <2>2, <3>2
  <2> QED  BY <1>2, <1>3, <2>1, <2>2 DEF OneLink
<1>5. call[t] = "ok"  BY <1>4 DEF NoCalls
<1>6. sig = "idle"  BY <1>3 DEF SInv, Inv, TypeOK
<1> QED  BY <1>3, <1>4, <1>5, <1>6 DEF SInv

LEMMA LeaveServes ==
    ASSUME NEW t \in Threads, call = [NoCalls EXCEPT ![t] = "ok"],
           NEW q, Good(q), Serving(q), NEW again, Leave(t, q, again)
    PROVE  player' = q /\ call' = [NoCalls EXCEPT ![t] = again] /\ sig' = sig
<1>1. q \in PlayerRecord /\ q.thrown = FALSE  BY DEF Good, Sound, Serving, Ok, PlayerRecord
<1>2. player' = [q EXCEPT !.thrown = FALSE]  BY <1>1 DEF Leave
<1>3. player' = q  BY <1>1, <1>2 DEF PlayerRecord
<1>4. call' = [call EXCEPT ![t] = again]  BY <1>1 DEF Leave
<1>5. call' = [NoCalls EXCEPT ![t] = again]  BY <1>4 DEF NoCalls
<1> QED  BY <1>3, <1>5 DEF Leave

LEMMA NoCallsLeft ==
    ASSUME NEW t \in Threads
    PROVE  [NoCalls EXCEPT ![t] = "none"] = NoCalls
BY DEF NoCalls

\* A call that ends the program leaves nothing under way.
LEMMA LeaveEnds ==
    ASSUME NEW t \in Threads, call = [NoCalls EXCEPT ![t] = "ok"],
           NEW p \in PlayerRecord, ~p.thrown, p.done = <<>>, p.posted = <<>>,
           p.writing = <<>>, Placed(p), NEW why, why # "none", Leave(t, Halt(p, why), "none")
    PROVE  /\ Ended' /\ player'.halt = why
           /\ player'.playlist = p.playlist /\ player'.state = p.state
<1> DEFINE q == Halt(p, why)
<1>1. /\ q.halt = why /\ q.thrown = p.thrown /\ q.playlist = p.playlist /\ q.state = p.state
      /\ q.done = p.done /\ q.posted = p.posted /\ q.writing = p.writing
      /\ q.iter = p.iter /\ q.cur = p.cur /\ q.nxt = p.nxt
      /\ [q EXCEPT !.thrown = FALSE] = q
  BY DEF Halt, PlayerRecord
<1> HIDE DEF q
<1>2. player' = q  BY <1>1 DEF Leave, q
<1>3. call' = [call EXCEPT ![t] = "none"]  BY <1>1 DEF Leave, q
<1>4. call' = NoCalls
  <2>1. call' = [NoCalls EXCEPT ![t] = "none"]  BY <1>3 DEF NoCalls
  <2> QED  BY <2>1, NoCallsLeft
<1>5. Placed(q)  BY <1>1 DEF Placed, Following
<1> QED  BY <1>1, <1>2, <1>4, <1>5 DEF Ended

\* The record after write_handler, with the source chosen.
LEMMA ChosenServes ==
    ASSUME WellServed, NEW p, Good(p), Serving(p), p.state = "Playing",
           p.iter.list = p.playlist, AtTrack(p)
    PROVE  LET q == Chosen(Preload(p))
           IN  /\ Good(q) /\ Serving(q) /\ q.state = "Playing"
               /\ q.in_buf = p.in_buf /\ q.posted = p.posted /\ q.writing = p.writing
               /\ q.cur # NoSource /\ q.iter.list = q.playlist /\ q.dev = p.dev
               /\ q.playlist = p.playlist /\ q.iter = p.iter /\ q.cur.pos = p.cur.pos
               /\ q.cur = p.cur \/ q.cur.rest
<1> DEFINE r == Preload(p)
           q == ChooseSource(r)
<1>1. Ok(p) /\ Placed(p)  BY DEF Serving
<1>2. /\ SameRest(p, r) /\ Placed(r) /\ r.iter = p.iter /\ r.cur = p.cur
  BY <1>1, PreloadPlaced
<1>3. Good(r)  BY PreloadGood
<1> HIDE DEF r
<1>4. p.iter \in Iterator /\ IteratorSound(p.iter)  BY DEF Good, Sound, PlayerRecord
<1>5. OnTrack(r.iter)  BY <1>2, <1>4, OnTrackUnlessEnd DEF AtTrack
<1>6. r.iter.list = r.playlist /\ Ok(r)  BY <1>2 DEF SameRest
<1>7. SameRest(r, q) /\ Placed(q) /\ q.iter = r.iter /\ q.cur # NoSource
        /\ q.cur.pos = r.cur.pos /\ (q.cur = r.cur \/ q.cur.rest)
  BY <1>2, <1>3, <1>5, <1>6, ChooseSourcePlaced
<1>8. Good(q)
  <2>1. Ok(r) => Good(ChooseSource(r))  BY <1>3, <1>6, ChooseSourceGood
  <2> QED  BY <1>6, <2>1
<1>9. Chosen(Preload(p)) = q  BY <1>6 DEF Chosen, Then, r
<1> HIDE DEF q
<1>10. Serving(q)
  BY <1>2, <1>7 DEF Serving, SameRest
<1> QED  BY <1>2, <1>6, <1>7, <1>8, <1>9, <1>10 DEF SameRest

\* What a call of write_handler does to a player that plays: it stops at the end,
\* prepares the device for a track of another rate, posts a buffer, or posts the one
\* that came back.
Over(p, q) ==
    /\ p.iter = End(p.playlist) /\ p.cur = NoSource /\ Silent(p)
    /\ q.state = "Stopped" /\ q.iter = End(q.playlist)

Prepared(p, q) ==
    /\ OnTrack(p.iter) /\ q.state = "Playing" /\ Silent(p) /\ Silent(q)
    /\ ~SameLayout(SpecsOf[TrackAt(p.iter)], p.dev.specs)
    /\ p.cur.pos < FullBuffers[TrackAt(p.iter)] =>
          q.iter = p.iter /\ q.cur.pos = 0 /\ q.dev.specs = Settled[SpecsOf[TrackAt(q.iter)]]

Posted(p, q) ==
    /\ OnTrack(p.iter) /\ q.state = "Playing" /\ Silent(p)
    /\ q.posted = <<[track |-> TrackAt(p.iter), idx |-> p.cur.pos]>>
    /\ q.in_buf = <<>> /\ q.writing = <<>>
    /\ q.dev = p.dev /\ SameLayout(SpecsOf[TrackAt(p.iter)], p.dev.specs)
    /\ \/ /\ p.cur.pos < FullBuffers[TrackAt(p.iter)]
          /\ q.iter = p.iter /\ q.cur.pos = p.cur.pos + 1
       \/ /\ p.cur.pos = FullBuffers[TrackAt(p.iter)]
          /\ q.iter = Succ(p.iter) /\ q.cur.pos = 0

Resent(p, q) ==
    /\ CameBack(p) /\ q.state = "Playing"
    /\ q.posted = <<Head(p.in_buf)>> /\ q.in_buf = <<>> /\ q.writing = <<>>
    /\ q.iter = p.iter /\ q.cur.pos = p.cur.pos /\ q.dev = p.dev

WriteStep(p, q) ==
    /\ q.playlist = p.playlist
    /\ Over(p, q) \/ Prepared(p, q) \/ Posted(p, q) \/ Resent(p, q)

\* ... or it ends the program at an edge.
AtEdge ==
    /\ player'.playlist = player.playlist /\ player'.state = player.state
    /\ \/ player'.halt = "buffered" /\ PlayedToTheEdge
       \/ player'.halt = "drained" /\ LastCameBack

LEMMA PostedServes ==
    ASSUME NEW t \in Threads, call = [NoCalls EXCEPT ![t] = "ok"], sig = "idle",
           NEW q, PostedOne(player, q), Good(q), Leave(t, q, "none")
    PROVE  SInv' /\ player' = q
<1>1. player' = q /\ call' = NoCalls /\ sig' = "idle"
  <2>1. player' = q /\ call' = [NoCalls EXCEPT ![t] = "none"] /\ sig' = sig
    BY LeaveServes DEF PostedOne
  <2> QED  BY <2>1, NoCallsLeft
<1>2. OneLink(player', call')  BY <1>1 DEF PostedOne, OneLink
<1>3. Serving(player') /\ player'.state = "Playing" /\ player'.iter.list = player'.playlist
  BY <1>1 DEF PostedOne
<1> QED  BY <1>1, <1>2, <1>3 DEF SInv

LEMMA WriteAtEndServes ==
    ASSUME WellServed, Inv, SInv, NEW t \in Threads, WriteAtEnd(t)
    PROVE  \/ SInv' /\ WriteStep(player, player')
           \/ Ended' /\ AtEdge
<1> DEFINE p == player
<1>1. Enter(t)  BY DEF WriteAtEnd
<1>2. /\ p.state = "Playing" /\ (Silent(p) \/ CameBack(p)) /\ call = [NoCalls EXCEPT ![t] = "ok"]
      /\ p.iter.list = p.playlist /\ sig = "idle"
  BY <1>1, CallIsLink
<1>3. Good(p) /\ Serving(p) /\ Ok(p) /\ Placed(p) /\ p.done = <<>> /\ p \in PlayerRecord
  BY DEF Inv, SInv, Serving, TypeOK
<1>4. p.iter = End(p.playlist) /\ p.playlist # NoPlaylist
  BY <1>2, <1>3 DEF WriteAtEnd, AtTrack, Serving
<1>5. p.cur = NoSource  BY <1>2, <1>3, <1>4, AtEndClosed
<1>6. Preload(p) = p  BY <1>5 DEF Preload
<1>7. PICK o \in Outcomes :
         \E q \in {Then(Preload(p), LAMBDA x : read_handler(x, "eof", o))} :
            Leave(t, q, "none")
  BY DEF WriteAtEnd
<1> DEFINE q == read_handler(p, "eof", o)
<1>8. Leave(t, q, "none")  BY <1>3, <1>6, <1>7 DEF Then
<1>9. CASE Silent(p)
  <2>1. Serving(q) /\ q.state = "Stopped" /\ Silent(q) /\ q.nxt = NoSource
        /\ q.iter.list = q.playlist /\ q.playlist = p.playlist /\ q.iter = End(q.playlist)
    BY <1>2, <1>3, <1>5, <1>9, read_handlerEnds
  <2>2. Good(q)  BY <1>3, read_handlerGood
  <2> HIDE DEF q
  <2>3. player' = q /\ call' = NoCalls /\ sig' = "idle"
    <3>1. player' = q /\ call' = [NoCalls EXCEPT ![t] = "none"] /\ sig' = sig
      BY <1>2, <1>8, <2>1, <2>2, LeaveServes
    <3> QED  BY <1>2, <3>1, NoCallsLeft
  <2>4. SInv'  BY <2>1, <2>3 DEF SInv
  <2>5. Over(p, player')  BY <1>4, <1>5, <1>9, <2>1, <2>3 DEF Over
  <2> QED  BY <2>1, <2>3, <2>4, <2>5 DEF WriteStep
<1>10. CASE CameBack(p)
  <2>1. p.in_buf # <<>>
    <3>1. SUFFICES ASSUME p.in_buf = <<>> PROVE FALSE  OBVIOUS
    <3>2. Len(p.in_buf) = 1  BY <1>10 DEF CameBack
    <3>3. Len(p.in_buf) = 0  BY <3>1
    <3> QED  BY <3>2, <3>3
  <2>2. q = Halt(p, "drained")  BY <1>5, <2>1 DEF read_handler
  <2>3. p.posted = <<>> /\ p.writing = <<>> /\ ~p.thrown  BY <1>3, <1>10 DEF CameBack, Ok
  <2>4. Leave(t, Halt(p, "drained"), "none")  BY <1>8, <2>2
  <2> HIDE DEF p, q
  <2>5. /\ Ended' /\ player'.halt = "drained"
        /\ player'.playlist = p.playlist /\ player'.state = p.state
    BY <1>2, <1>3, <2>3, <2>4, LeaveEnds
  <2> QED  BY <1>4, <2>1, <2>5 DEF AtEdge, LastCameBack, p
<1> QED  BY <1>2, <1>9, <1>10

LEMMA WriteQueuedServes ==
    ASSUME WellServed, Inv, SInv, NEW t \in Threads, WriteQueued(t)
    PROVE  SInv' /\ WriteStep(player, player')
<1> DEFINE p == player
           c == Chosen(Preload(p))
<1>1. Enter(t) /\ AtTrack(p) /\ p.in_buf # <<>>  BY DEF WriteQueued
<1>2. /\ p.state = "Playing" /\ CameBack(p) /\ call = [NoCalls EXCEPT ![t] = "ok"]
      /\ p.iter.list = p.playlist /\ sig = "idle"
  BY <1>1, CallIsLink DEF Silent
<1>3. Good(p) /\ Serving(p)  BY DEF Inv, SInv
<1>4. PICK o \in Outcomes :
        \E q \in {Then(c, LAMBDA x : read_handler(x, "ok", o))} : Leave(t, q, "none")
  BY DEF WriteQueued
<1>5. /\ Good(c) /\ Serving(c) /\ c.state = "Playing"
      /\ c.in_buf = p.in_buf /\ c.posted = p.posted /\ c.writing = p.writing
      /\ c.iter.list = c.playlist /\ c.dev = p.dev
      /\ c.playlist = p.playlist /\ c.iter = p.iter /\ c.cur.pos = p.cur.pos
  BY <1>1, <1>2, <1>3, ChosenServes
<1> HIDE DEF c
<1>6. c \in PlayerRecord /\ Ok(c)  BY <1>5 DEF Good, Sound, Serving
<1>7. c.in_buf \in Seq(Buffer) /\ Len(c.in_buf) = 1 /\ c.posted = <<>> /\ c.writing = <<>>
  BY <1>2, <1>5, <1>6 DEF PlayerRecord, CameBack
<1> DEFINE q == read_handler(c, "ok", o)
           b == Head(c.in_buf)
<1>8. Leave(t, q, "none")  BY <1>4, <1>6 DEF Then
<1>9. Good(q)  BY <1>5, <1>6, read_handlerGood
<1>10. q = [c EXCEPT !.posted = <<b>>, !.in_buf = <<>>]
  <2>1. c.in_buf # <<>>  BY <1>1, <1>5
  <2>2. q = [c EXCEPT !.posted = Append(c.posted, b), !.in_buf = Tail(c.in_buf)]
    BY <2>1 DEF read_handler
  <2>3. Append(c.posted, b) = <<b>>  BY <1>7
  <2>4. Tail(c.in_buf) = <<>>
    <3>1. Tail(c.in_buf) \in Seq(Buffer) /\ Len(Tail(c.in_buf)) = Len(c.in_buf) - 1
      BY <1>7, <2>1, HeadTailProperties
    <3>2. Len(Tail(c.in_buf)) = 0  BY <1>7, <3>1
    <3> QED  BY <3>1, <3>2, EmptySeq
  <2> HIDE DEF b
  <2> QED  BY <2>2, <2>3, <2>4
<1> HIDE DEF b, q
<1>11. /\ q.posted = <<b>> /\ q.in_buf = <<>> /\ q.writing = c.writing /\ q.done = c.done
       /\ q.state = c.state /\ q.playlist = c.playlist /\ q.iter = c.iter
       /\ q.cur = c.cur /\ q.nxt = c.nxt /\ q.dev = c.dev
       /\ q.thrown = c.thrown /\ q.halt = c.halt
  BY <1>6, <1>10 DEF PlayerRecord
<1>12. Serving(q)
  <2>1. Placed(q)  BY <1>5, <1>11 DEF Serving, Placed, Following
  <2> QED  BY <1>5, <1>11, <2>1 DEF Serving, Ok
<1>13. PostedOne(p, q)
  <2>1. Len(q.posted) = 1  BY <1>11
  <2> QED  BY <1>5, <1>7, <1>11, <1>12, <2>1 DEF PostedOne
<1>14. SInv' /\ player' = q
  <2> HIDE DEF p
  <2>1. PostedOne(player, q)  BY <1>13 DEF PostedOne
  <2> QED  BY <1>2, <1>8, <1>9, <2>1, PostedServes
<1>15. Resent(p, q)
  <2>1. b = Head(p.in_buf)  BY <1>5 DEF b
  <2> QED  BY <1>2, <1>5, <1>7, <1>11, <2>1 DEF Resent
<1> QED  BY <1>5, <1>11, <1>14, <1>15 DEF WriteStep

LEMMA WriteDecodedServes ==
    ASSUME WellServed, Inv, SInv, NEW t \in Threads, WriteDecoded(t)
    PROVE  \/ SInv' /\ WriteStep(player, player')
           \/ Ended' /\ AtEdge
<1> DEFINE p == player
           c == Chosen(Preload(p))
<1>1. Enter(t) /\ AtTrack(p) /\ p.in_buf = <<>>  BY DEF WriteDecoded
<1>2. /\ p.state = "Playing" /\ Silent(p) /\ call = [NoCalls EXCEPT ![t] = "ok"]
      /\ p.iter.list = p.playlist /\ sig = "idle"
  BY <1>1, CallIsLink DEF CameBack
<1>3. Good(p) /\ Serving(p)  BY DEF Inv, SInv
<1>4. PICK o \in Outcomes : \E x \in {c} :
        IF Ok(x) /\ Mismatch(x, o)
        THEN \E q \in {Reprepare(x, o)} : Leave(t, q, Again(x, o))
        ELSE \E q \in {Then(x, LAMBDA r : DecodeAndPost(r, o))} : Leave(t, q, "none")
  BY DEF WriteDecoded
<1>5. IF Ok(c) /\ Mismatch(c, o)
      THEN Leave(t, Reprepare(c, o), Again(c, o))
      ELSE Leave(t, Then(c, LAMBDA r : DecodeAndPost(r, o)), "none")
  BY <1>4
<1>6. /\ Good(c) /\ Serving(c) /\ c.state = "Playing"
      /\ c.in_buf = p.in_buf /\ c.posted = p.posted /\ c.writing = p.writing
      /\ c.cur # NoSource /\ c.iter.list = c.playlist /\ c.dev = p.dev
      /\ c.playlist = p.playlist /\ c.iter = p.iter /\ c.cur.pos = p.cur.pos
      /\ c.cur = p.cur \/ c.cur.rest
  BY <1>1, <1>2, <1>3, ChosenServes
<1> HIDE DEF c
<1>7. Ok(c) /\ Placed(c) /\ Silent(c)  BY <1>2, <1>6 DEF Serving, Silent
<1>8. /\ Amount(c.cur) \in {"full", "rest", "nothing"}
      /\ Amount(c.cur) # "nothing" => DecodeError(c.cur) = "ok"
      /\ Amount(c.cur) = "full" => c.cur.pos < FullBuffers[c.cur.track]
      /\ Amount(c.cur) # "full" => c.cur.pos = FullBuffers[c.cur.track]
      /\ Amount(c.cur) = "nothing" => ~c.cur.rest
  BY <1>6, <1>7, AmountLeft
<1>9. c.cur.track \in Tracks /\ c.cur \in Source  BY <1>6, <1>7, PlacedTrack
<1>10. o.fault \in {"none", "underrun"}  BY Faultless
<1>11. OnTrack(p.iter) /\ c.cur.track = TrackAt(p.iter)
  BY <1>6, <1>7 DEF Placed, Following
<1>12. FullBuffers[c.cur.track] \in Nat  BY <1>9, TrackAssumption
<1>13. CASE Mismatch(c, o)
  <2> DEFINE q == Restart(c, o)
  <2>1. /\ Serving(q) /\ q.state = "Playing" /\ Silent(q) /\ q.iter.list = q.playlist
        /\ q.playlist = c.playlist
        /\ Amount(c.cur) = "full" =>
              q.iter = c.iter /\ q.cur # NoSource /\ q.cur.pos = 0
                /\ q.dev.specs = Settled[SpecsOf[q.cur.track]]
    BY <1>6, <1>7, RestartServes
  <2>2. Reprepare(c, o) = q  BY <2>1 DEF Reprepare, Catch, Serving, Ok
  <2>3. Good(q)  BY <1>6, <1>7, <2>2, ReprepareGood
  <2>4. Again(c, o) = "ok"  BY <1>8, <1>13, <2>1 DEF Again, Serving, Ok, Mismatch
  <2>5. Leave(t, q, "ok")  BY <1>5, <1>7, <1>13, <2>2, <2>4
  <2> HIDE DEF q
  <2>6. player' = q /\ call' = [NoCalls EXCEPT ![t] = "ok"] /\ sig' = "idle"
    BY <1>2, <2>1, <2>3, <2>5, LeaveServes
  <2>7. OneLink(player', call')  BY <2>1, <2>6 DEF OneLink, Threads
  <2>8. SInv'  BY <2>1, <2>6, <2>7 DEF SInv
  <2>9. ~SameLayout(SpecsOf[TrackAt(p.iter)], p.dev.specs)
    BY <1>6, <1>13, <1>11 DEF Mismatch
  <2>10. p.cur.pos < FullBuffers[TrackAt(p.iter)] =>
            q.iter = p.iter /\ q.cur.pos = 0 /\ q.dev.specs = Settled[SpecsOf[TrackAt(q.iter)]]
    <3>1. SUFFICES ASSUME p.cur.pos < FullBuffers[TrackAt(p.iter)]
                   PROVE  q.iter = p.iter /\ q.cur.pos = 0
                            /\ q.dev.specs = Settled[SpecsOf[TrackAt(q.iter)]]
      OBVIOUS
    <3>2. p.cur.pos # FullBuffers[TrackAt(p.iter)]  BY <1>11, <1>12, <3>1
    <3>3. Amount(c.cur) = "full"  BY <1>6, <1>8, <1>11, <3>2
    <3>4. q.cur.track = TrackAt(q.iter)  BY <2>1, <3>3 DEF Serving, Placed
    <3> QED  BY <1>6, <2>1, <3>3, <3>4
  <2>11. Prepared(p, player')  BY <1>2, <1>11, <2>1, <2>6, <2>9, <2>10 DEF Prepared
  <2> QED  BY <1>6, <2>1, <2>6, <2>8, <2>11 DEF WriteStep
<1> DEFINE d == Decode(c)
           q == Post(d, c.cur, o)
<1>14. /\ SameRest(c, d) /\ Placed(d) /\ Good(d) /\ d.iter.list = d.playlist
       /\ Amount(c.cur) = "full" => d.iter = c.iter /\ d.cur.pos = c.cur.pos + 1
       /\ Amount(c.cur) # "full" => d.iter = Succ(c.iter) /\ d.cur.pos = 0
  BY <1>6, <1>7, DecodePlaced
<1>15. Then(c, LAMBDA r : DecodeAndPost(r, o)) = q
  BY <1>7, <1>10, <1>14 DEF Then, DecodeAndPost, SameRest
<1>16. Good(q)
  <2>1. Good(DecodeAndPost(c, o))  BY <1>6, <1>7, DecodeAndPostGood
  <2>2. DecodeAndPost(c, o) = q  BY <1>7, <1>15 DEF Then
  <2> QED  BY <2>1, <2>2
<1>17. ~Mismatch(c, o) => Leave(t, q, "none")  BY <1>5, <1>15
<1> HIDE DEF d
<1>18. Serving(d) /\ d.state = "Playing" /\ Silent(d)
  BY <1>6, <1>7, <1>14 DEF Serving, SameRest, Silent
<1>19. CASE ~Mismatch(c, o) /\ Amount(c.cur) # "nothing"
  <2>1. SameLayout(SpecsOf[c.cur.track], c.dev.specs)  BY <1>10, <1>19 DEF Mismatch
  <2>2. PostedOne(d, q) /\ Hands(d, q, c.cur)
    BY <1>8, <1>9, <1>14, <1>18, <1>19, <2>1, PostPosts DEF SameRest
  <2>3. PostedOne(p, q)  BY <2>2 DEF PostedOne
  <2> HIDE DEF q
  <2>4. SInv' /\ player' = q
    <3> HIDE DEF p
    <3>1. PostedOne(player, q)  BY <2>2 DEF PostedOne
    <3> QED  BY <1>2, <1>16, <1>17, <1>19, <3>1, PostedServes
  <2>5. /\ q.state = "Playing" /\ q.writing = <<>> /\ q.in_buf = <<>> /\ q.dev = p.dev
        /\ q.playlist = p.playlist
        /\ q.posted = <<[track |-> TrackAt(p.iter), idx |-> p.cur.pos]>>
    BY <1>6, <1>11, <1>14, <2>2 DEF PostedOne, Hands, SameRest
  <2>6. \/ /\ p.cur.pos < FullBuffers[TrackAt(p.iter)]
           /\ q.iter = p.iter /\ q.cur.pos = p.cur.pos + 1
        \/ /\ p.cur.pos = FullBuffers[TrackAt(p.iter)]
           /\ q.iter = Succ(p.iter) /\ q.cur.pos = 0
    <3>1. q.iter = d.iter /\ q.cur = d.cur  BY <2>2 DEF Hands
    <3>2. CASE Amount(c.cur) = "full"  BY <1>6, <1>8, <1>11, <1>14, <3>1, <3>2
    <3>3. CASE Amount(c.cur) # "full"  BY <1>6, <1>8, <1>11, <1>14, <3>1, <3>3
    <3> QED  BY <3>2, <3>3
  <2>7. Posted(p, player')  BY <1>2, <1>6, <1>11, <2>1, <2>4, <2>5, <2>6 DEF Posted
  <2> QED  BY <2>4, <2>5, <2>7 DEF WriteStep
<1>20. CASE ~Mismatch(c, o) /\ Amount(c.cur) = "nothing"
  <2>1. q = Halt(d, "buffered")  BY <1>20 DEF Post
  <2>2. d \in PlayerRecord /\ ~d.thrown /\ d.done = <<>> /\ d.posted = <<>> /\ d.writing = <<>>
    BY <1>14, <1>18 DEF Good, Sound, Serving, Silent, Ok
  <2>3. Leave(t, Halt(d, "buffered"), "none")  BY <1>17, <1>20, <2>1
  <2>4. /\ Ended' /\ player'.halt = "buffered"
        /\ player'.playlist = d.playlist /\ player'.state = d.state
    BY <1>2, <1>14, <2>2, <2>3, LeaveEnds
  <2>5. c.cur = p.cur /\ ~c.cur.rest /\ c.cur.pos = FullBuffers[c.cur.track]
    BY <1>6, <1>8, <1>20
  <2>6. PlayedToTheEdge  BY <1>6, <2>5 DEF PlayedToTheEdge
  <2> QED  BY <1>2, <1>6, <1>14, <1>18, <2>4, <2>6 DEF AtEdge, SameRest
<1> QED  BY <1>13, <1>19, <1>20

LEMMA WriteHandlerServes ==
    ASSUME WellServed, Inv, SInv, NEW t \in Threads, WriteHandler(t)
    PROVE  \/ SInv' /\ WriteStep(player, player')
           \/ Ended' /\ AtEdge
<1>1. Enter(t)
  BY DEF WriteHandler, WriteIgnored, WriteFailed, WriteAtEnd, WriteQueued, WriteDecoded
<1>2. player.state = "Playing" /\ call[t] = "ok"  BY <1>1, CallIsLink
<1>3. ~WriteIgnored(t) /\ ~WriteFailed(t)  BY <1>2 DEF WriteIgnored, WriteFailed
<1> QED
  BY <1>3, WriteAtEndServes, WriteQueuedServes, WriteDecodedServes DEF WriteHandler

\* The posted lambda starts the write it holds; the device takes it, or gives it
\* back, and calls write_handler.
KeepsPlace(p, q) ==
    /\ p.state = "Playing" /\ q.state = "Playing" /\ q.playlist = p.playlist
    /\ q.iter = p.iter /\ q.cur = p.cur /\ q.dev = p.dev

Starts(p, q) ==
    /\ KeepsPlace(p, q) /\ p.writing = <<>> /\ q.posted = <<>> /\ q.in_buf = <<>>
    /\ \E b \in Buffer : p.posted = <<b>> /\ q.writing = <<b>>

Takes(p, q) ==
    /\ KeepsPlace(p, q) /\ p.posted = <<>> /\ Silent(q)
    /\ \E b \in Buffer : p.writing = <<b>>

GivesBack(p, q) ==
    /\ KeepsPlace(p, q) /\ p.posted = <<>>
    /\ \E b \in Buffer : p.writing = <<b>> /\ CameBack(q) /\ q.in_buf = <<b>>

LEMMA QueueServes ==
    ASSUME Inv, SInv
    PROVE  /\ PoolStep => SInv' /\ Starts(player, player')
           /\ DeviceWrite => SInv' /\ Takes(player, player')
           /\ DeviceUnderrun => SInv' /\ GivesBack(player, player')
           /\ ~HandleError
<1> DEFINE p == player
<1>1. p \in PlayerRecord /\ p.posted \in Seq(Buffer) /\ p.writing \in Seq(Buffer)
  BY DEF Inv, TypeOK, PlayerRecord
<1>2. Serving(p) /\ p.done = <<>>  BY DEF SInv, Serving
<1>3. ~HandleError  BY <1>2 DEF HandleError
<1>4. ASSUME NEW q \in PlayerRecord, q.state = p.state, q.playlist = p.playlist,
             q.iter = p.iter, q.cur = p.cur, q.nxt = p.nxt, q.dev = p.dev,
             q.done = p.done, q.thrown = p.thrown, q.halt = p.halt,
             player' = q, sig' = sig, p.state = "Playing", OneLink(q, call')
      PROVE  SInv'
  <2>1. Placed(q)  BY <1>2, <1>4 DEF Serving, Placed, Following
  <2>2. Serving(q)  BY <1>2, <1>4, <2>1 DEF Serving, Ok
  <2>3. sig = "idle" => q.iter.list = q.playlist  BY <1>4 DEF SInv
  <2>4. sig # "assigned"  BY <1>4 DEF SInv
  <2> QED  BY <1>4, <2>2, <2>3, <2>4 DEF SInv
<1>5. ASSUME PoolStep PROVE SInv' /\ Starts(p, player')
  <2>1. PICK i \in 1..Len(p.posted) : StartWrite(i)  BY <1>5 DEF PoolStep
  <2>2. p.posted # <<>>
    <3>1. Len(p.posted) \in Nat /\ Len(p.posted) # 0  BY <1>1, <2>1, LenProperties
    <3> QED  BY <3>1
  <2>3. p.state = "Playing"  BY <1>2, <2>2 DEF SInv, Serving, Silent
  <2>4. p.dev.fd  BY <1>2, <2>3 DEF Serving
  <2>5. Len(p.posted) = 1 /\ p.writing = <<>> /\ p.in_buf = <<>> /\ call = NoCalls
    BY <2>2, <2>3 DEF SInv, OneLink, Silent, CameBack
  <2> DEFINE buf == p.posted[i]
             rest == [j \in 1..(Len(p.posted) - 1) |-> p.posted[IF j < i THEN j ELSE j + 1]]
             q == [p EXCEPT !.posted = rest, !.writing = Append(@, buf)]
  <2>6. player' = q /\ call' = call /\ sig' = sig  BY <2>1, <2>4 DEF StartWrite
  <2>7. rest = <<>>
    <3>1. 1..(Len(p.posted) - 1) = 1..0  BY <2>5
    <3>2. DOMAIN rest = 1..0 /\ rest = [j \in 1..0 |-> rest[j]]  BY <3>1
    <3>3. rest \in [1..0 -> Buffer]
      <4> HIDE DEF rest
      <4> QED  BY <3>2
    <3> HIDE DEF rest
    <3>4. rest \in Seq(Buffer)  BY <3>3, SeqDef
    <3>5. Len(rest) \in Nat /\ DOMAIN rest = 1..Len(rest)  BY <3>4, LenProperties
    <3>6. Len(rest) = 0
      <4>1. 1 \notin 1..Len(rest)  BY <3>2, <3>5
      <4> QED  BY <3>5, <4>1
    <3> QED  BY <3>4, <3>6, EmptySeq
  <2>8. Append(p.writing, buf) = <<buf>>  BY <2>5
  <2> HIDE DEF rest, buf
  <2>9. q.posted = <<>> /\ q.writing = <<buf>>  BY <1>1, <2>7, <2>8 DEF PlayerRecord
  <2>11. /\ q.state = p.state /\ q.playlist = p.playlist /\ q.iter = p.iter
         /\ q.cur = p.cur /\ q.nxt = p.nxt /\ q.dev = p.dev /\ q.in_buf = p.in_buf
         /\ q.done = p.done /\ q.thrown = p.thrown /\ q.halt = p.halt
    BY <1>1 DEF PlayerRecord
  <2>10. OneLink(q, call')
    <3>1. Len(<<buf>>) = 1  OBVIOUS
    <3> HIDE DEF q
    <3>2. q.in_buf = p.in_buf  BY <2>11
    <3> QED  BY <2>5, <2>6, <2>9, <3>1, <3>2 DEF OneLink
  <2>12. q \in PlayerRecord
    <3>1. buf \in Buffer  BY <1>1, <2>1, ElementOfSeq DEF buf
    <3>2. <<buf>> \in Seq(Buffer) /\ <<>> \in Seq(Buffer)  BY <3>1, EmptySeq
    <3> QED  BY <1>1, <2>7, <2>8, <3>2 DEF PlayerRecord
  <2>13. Starts(p, q)
    <3>1. buf \in Buffer  BY <1>1, <2>1, ElementOfSeq DEF buf
    <3>2. i = 1  BY <2>1, <2>5
    <3>3. p.posted = <<buf>>  BY <1>1, <2>5, <3>2 DEF buf
    <3> HIDE DEF q
    <3>4. KeepsPlace(p, q)  BY <2>3, <2>11 DEF KeepsPlace
    <3> QED  BY <2>5, <2>9, <2>11, <3>1, <3>3, <3>4 DEF Starts
  <2> HIDE DEF q, p
  <2> QED  BY <1>4, <2>3, <2>6, <2>10, <2>11, <2>12, <2>13
<1>6. ASSUME p.writing # <<>>
      PROVE  /\ p.state = "Playing" /\ p.posted = <<>> /\ Len(p.writing) = 1
             /\ p.in_buf = <<>> /\ call = NoCalls /\ Tail(p.writing) = <<>>
             /\ p.writing = <<Head(p.writing)>> /\ Head(p.writing) \in Buffer
  <2>1. p.state = "Playing"  BY <1>2, <1>6 DEF SInv, Serving, Silent
  <2>2. p.posted = <<>> /\ Len(p.writing) = 1 /\ p.in_buf = <<>> /\ call = NoCalls
    BY <1>6, <2>1 DEF SInv, OneLink, Silent, CameBack
  <2>3. Tail(p.writing) = <<>>
    <3>1. Tail(p.writing) \in Seq(Buffer) /\ Len(Tail(p.writing)) = Len(p.writing) - 1
      BY <1>1, <1>6, HeadTailProperties
    <3>2. Len(Tail(p.writing)) = 0  BY <2>2, <3>1
    <3> QED  BY <3>1, <3>2, EmptySeq
  <2>4. p.writing = <<p.writing[1]>> /\ p.writing[1] \in Buffer
    BY <1>1, <2>2, ElementOfSeq
  <2>5. Head(p.writing) = p.writing[1]  BY <1>1, <1>6
  <2> QED  BY <2>1, <2>2, <2>3, <2>4, <2>5
<1>7. ASSUME DeviceWrite PROVE SInv' /\ Takes(p, player')
  <2>1. p.writing # <<>>  BY <1>7 DEF DeviceWrite
  <2> DEFINE q == [p EXCEPT !.writing = Tail(@)]
  <2>2. player' = q /\ call' = [NoCalls EXCEPT !["audio"] = "ok"] /\ sig' = sig
    BY <1>6, <1>7, <2>1 DEF DeviceWrite
  <2>3. q.posted = <<>> /\ q.writing = <<>> /\ q.in_buf = <<>>
    BY <1>1, <1>6, <2>1 DEF PlayerRecord
  <2>4. OneLink(q, call')
    <3> HIDE DEF q
    <3> QED  BY <2>2, <2>3 DEF OneLink, Silent
  <2>5. /\ q.state = p.state /\ q.playlist = p.playlist /\ q.iter = p.iter
        /\ q.cur = p.cur /\ q.nxt = p.nxt /\ q.dev = p.dev
        /\ q.done = p.done /\ q.thrown = p.thrown /\ q.halt = p.halt
    BY <1>1 DEF PlayerRecord
  <2>6. q \in PlayerRecord
    <3>1. <<>> \in Seq(Buffer)  BY EmptySeq
    <3> QED  BY <1>1, <1>6, <2>1, <3>1 DEF PlayerRecord
  <2>7. Takes(p, q)
    <3> HIDE DEF q
    <3>1. KeepsPlace(p, q)  BY <1>6, <2>1, <2>5 DEF KeepsPlace
    <3> QED  BY <1>6, <2>1, <2>3, <3>1 DEF Takes, Silent
  <2> HIDE DEF q, p
  <2> QED  BY <1>4, <1>6, <2>1, <2>2, <2>4, <2>5, <2>6, <2>7
<1>8. ASSUME DeviceUnderrun PROVE SInv' /\ GivesBack(p, player')
  <2>1. p.writing # <<>>  BY <1>8 DEF DeviceUnderrun, TakesLess
  <2> DEFINE b == Head(p.writing)
             q == [p EXCEPT !.writing = Tail(@), !.in_buf = <<b>> \o @]
  <2>2. player' = q /\ call' = [NoCalls EXCEPT !["audio"] = "ok"] /\ sig' = sig
    BY <1>6, <1>8, <2>1 DEF DeviceUnderrun, TakesLess
  <2>3. b \in Buffer /\ p.writing = <<b>>  BY <1>6, <2>1
  <2> HIDE DEF b
  <2>4. <<b>> \in Seq(Buffer) /\ <<b>> \o p.in_buf = <<b>> /\ Len(<<b>>) = 1
    <3>1. <<b>> \in Seq(Buffer) /\ Len(<<b>>) = 1  BY <2>3
    <3>2. <<b>> \o <<>> = <<b>>  BY <3>1, ConcatEmptySeq
    <3>3. p.in_buf = <<>>  BY <1>6, <2>1
    <3> HIDE DEF p
    <3> QED  BY <3>1, <3>2, <3>3
  <2>5. q.posted = <<>> /\ q.writing = <<>> /\ q.in_buf = <<b>>
    BY <1>1, <1>6, <2>1, <2>4 DEF PlayerRecord
  <2>6. OneLink(q, call') /\ CameBack(q)
    <3> HIDE DEF q
    <3> QED  BY <2>2, <2>4, <2>5 DEF OneLink, CameBack
  <2>7. /\ q.state = p.state /\ q.playlist = p.playlist /\ q.iter = p.iter
        /\ q.cur = p.cur /\ q.nxt = p.nxt /\ q.dev = p.dev
        /\ q.done = p.done /\ q.thrown = p.thrown /\ q.halt = p.halt
    BY <1>1 DEF PlayerRecord
  <2>8. q \in PlayerRecord
    <3>1. <<>> \in Seq(Buffer)  BY EmptySeq
    <3> QED  BY <1>1, <1>6, <2>1, <2>4, <3>1 DEF PlayerRecord
  <2>9. GivesBack(p, q)
    <3> HIDE DEF q
    <3>1. KeepsPlace(p, q)  BY <1>6, <2>1, <2>7 DEF KeepsPlace
    <3> QED  BY <1>6, <2>1, <2>3, <2>5, <2>6, <3>1 DEF GivesBack
  <2> HIDE DEF q, p
  <2> QED  BY <1>4, <1>6, <2>1, <2>2, <2>6, <2>7, <2>8, <2>9
<1> QED  BY <1>3, <1>5, <1>7, <1>8

\* The link survives what leaves the queues and the state alone.
LEMMA SameLink ==
    ASSUME SInv, NEW q, SameRest(player, q), Placed(q), q.nxt = NoSource,
           q.iter.list = q.playlist, player' = q, call' = call,
           sig' = "idle"
    PROVE  SInv'
<1>1. Serving(q)  BY DEF SInv, Serving, SameRest
<1>2. q.state = "Playing" => OneLink(q, call')
  BY DEF SInv, SameRest, OneLink, Silent, CameBack
<1>3. q.state = "Stopped" => Silent(q) /\ call' = NoCalls
  BY DEF SInv, SameRest, Silent
<1> QED  BY <1>1, <1>2, <1>3 DEF SInv

Plays(p, q) ==
    /\ p.state = "Stopped" /\ p.playlist # NoPlaylist /\ q.playlist = p.playlist
    /\ q.state = "Stopped" => q.iter = End(q.playlist)
    /\ q.state = "Playing" =>
          /\ q.iter = StartsAt(p) /\ q.cur.pos = 0 /\ Silent(q)
          /\ q.dev.specs = Settled[SpecsOf[TrackAt(q.iter)]]

LEMMA CommandServes ==
    ASSUME WellServed, Inv, SInv
    PROVE  /\ ListenerPlays => SInv' /\ Plays(player, player') /\ sig = "idle" /\ sig' = "idle"
           /\ Skip => SInv'
<1> DEFINE p == player
<1>1. /\ Good(p) /\ Serving(p) /\ Ok(p) /\ Placed(p) /\ p \in PlayerRecord
      /\ p.done = <<>> /\ Fitted(p.dev)
  BY DEF Inv, TypeOK, SInv, Serving
<1>2. ASSUME ListenerPlays PROVE SInv' /\ Plays(p, player') /\ sig = "idle" /\ sig' = "idle"
  <2>1. /\ p.state = "Stopped" /\ p.playlist # NoPlaylist /\ sig = "idle" /\ sig' = "idle"
    BY <1>2 DEF ListenerPlays, Play, Command
  <2>2. PICK o \in Outcomes : \E q \in {play_impl(p, o)} :
           /\ Return(q)
           /\ call' = IF Ok(q) /\ q.state = "Playing" THEN [call EXCEPT !["gui"] = "ok"] ELSE call
    BY <1>2 DEF ListenerPlays, Play
  <2>3. p.iter.list = p.playlist /\ Silent(p) /\ call = NoCalls  BY <2>1 DEF SInv
  <2> DEFINE q == play_impl(p, o)
  <2>4. /\ Serving(q) /\ q.in_buf = <<>> /\ q.posted = p.posted /\ q.writing = <<>>
        /\ q.iter.list = q.playlist /\ q.playlist = p.playlist
        /\ q.iter = StartsAt(p) /\ q.cur.pos = 0
        /\ q.state = "Stopped" => q.nxt = NoSource /\ q.iter = End(q.playlist)
        /\ q.state = "Playing" =>
              q.cur # NoSource /\ q.dev.specs = Settled[SpecsOf[q.cur.track]]
    BY <1>1, <2>1, <2>3, PlayServes DEF Silent
  <2>5. /\ Return(q)
        /\ call' = IF Ok(q) /\ q.state = "Playing" THEN [call EXCEPT !["gui"] = "ok"] ELSE call
    BY <2>2
  <2> HIDE DEF q
  <2>6. player' = q  BY <2>4, <2>5 DEF Return, Serving, Ok
  <2>7. Silent(q)  BY <2>3, <2>4 DEF Silent
  <2>8. SInv'
    <3>1. CASE q.state = "Playing"
      <4>1. call' = [NoCalls EXCEPT !["gui"] = "ok"]  BY <2>3, <2>4, <2>5, <3>1 DEF Serving
      <4>2. OneLink(q, call')  BY <2>7, <4>1 DEF OneLink
      <4> QED  BY <2>1, <2>4, <2>6, <3>1, <4>2 DEF SInv
    <3>2. CASE q.state = "Stopped"
      <4>1. call' = NoCalls  BY <2>3, <2>5, <3>2
      <4> QED  BY <2>1, <2>4, <2>6, <2>7, <3>2, <4>1 DEF SInv
    <3> QED  BY <2>4, <3>1, <3>2 DEF Serving
  <2>9. q.state = "Playing" => q.cur.track = TrackAt(q.iter)  BY <2>4 DEF Serving, Placed
  <2>10. Plays(p, q)  BY <2>1, <2>4, <2>7, <2>9 DEF Plays
  <2> QED  BY <2>1, <2>6, <2>8, <2>10
<1>3. ASSUME Skip PROVE SInv'
  <2>1. sig = "idle" /\ sig' = "idle" /\ call' = call
    BY <1>3 DEF Skip, NextTrack, PreviousTrack, Seek, Command
  <2>2. p.iter.list = p.playlist  BY <2>1 DEF SInv
  <2>3. ASSUME NEW q, SameRest(p, q), Placed(q), q.nxt = NoSource,
               q.iter.list = q.playlist, Return(q)
        PROVE  SInv'
    <3>1. player' = q  BY <2>3 DEF Return, SameRest, Ok
    <3> QED  BY <2>1, <2>3, <3>1, SameLink
  <2>4. CASE NextTrack
    <3> DEFINE q == next_impl(p)
    <3>1. Following(p)  BY <1>1 DEF Placed
    <3>2. SameRest(p, q) /\ Placed(q) /\ q.iter.list = q.playlist /\ q.nxt = NoSource
      BY <1>1, <2>2, <3>1, next_implPlaced
    <3>3. Return(q)  BY <2>4 DEF NextTrack
    <3> HIDE DEF q, p
    <3> QED  BY <2>3, <3>2, <3>3
  <2>5. CASE PreviousTrack
    <3>3. PICK w \in Rewound(p.cur) : Return(previous_impl(p, w))  BY <2>5 DEF PreviousTrack
    <3> DEFINE q == previous_impl(p, w)
    <3>1. SameRest(p, q) /\ Placed(q) /\ q.iter.list = q.playlist /\ q.nxt = NoSource
      BY <1>1, <2>2, previous_implPlaced
    <3>2. Return(q)  BY <3>3
    <3> HIDE DEF q, p
    <3> QED  BY <2>3, <3>1, <3>2
  <2>6. CASE Seek
    <3>1. PICK c \in Places(p.cur.track) : player' = [p EXCEPT !.cur = c]
      BY <2>6 DEF Seek
    <3>2. p.cur # NoSource  BY <2>6 DEF Seek
    <3>3. p.cur.track \in Tracks  BY <1>1, <3>2, PlacedTrack
    <3> DEFINE q == Moved(p, p.iter, c, p.nxt)
    <3>4. player' = q  BY <1>1, <3>1 DEF Moved, PlayerRecord
    <3>5. c.track = p.cur.track /\ c.pos <= FullBuffers[c.track] /\ c # NoSource
      <4>1. c.track = p.cur.track /\ c.pos \in 0..FullBuffers[p.cur.track] /\ c # NoSource
        BY <3>1, <3>3, PlacesOnTrack
      <4>2. FullBuffers[p.cur.track] \in Nat  BY <3>3, TrackAssumption
      <4> QED  BY <4>1, <4>2
    <3>6. SameRest(p, q) /\ q.iter = p.iter /\ q.cur = c /\ q.nxt = p.nxt
      BY <1>1, MovedRest
    <3> HIDE DEF q
    <3>8. Placed(q)  BY <1>1, <3>2, <3>5, <3>6 DEF Placed, Following
    <3>9. Serving(q)  BY <1>1, <3>6, <3>8 DEF Serving, SameRest
    <3>10. q.state = "Playing" => OneLink(q, call')
      BY <2>1, <3>6 DEF SInv, SameRest, OneLink, Silent, CameBack
    <3>11. q.state = "Stopped" => Silent(q) /\ call' = NoCalls /\ q.nxt = NoSource
      BY <2>1, <3>6 DEF SInv, SameRest, Silent
    <3>12. q.iter.list = q.playlist  BY <2>2, <3>6 DEF SameRest
    <3> QED  BY <2>1, <3>4, <3>9, <3>10, <3>11, <3>12 DEF SInv
  <2> QED  BY <1>3, <2>4, <2>5, <2>6 DEF Skip
<1> QED  BY <1>2, <1>3

Chooses(p, q) == p.state = "Stopped" /\ q.state = "Stopped" /\ q.playlist \in Playlists

Enters(p, q) ==
    /\ p.state = "Stopped" /\ q.state = "Stopped" /\ q.playlist = p.playlist
    /\ p.playlist # NoPlaylist => q.iter = Begin(q.playlist)

LEMMA ChooseServes ==
    ASSUME Inv, SInv
    PROVE  /\ ListenerChooses => SInv' /\ Chooses(player, player') /\ sig' = "assigned"
           /\ EnterPlaylist => SInv' /\ Enters(player, player')
<1> DEFINE p == player
<1>1. Good(p) /\ Serving(p) /\ Ok(p) /\ Placed(p) /\ p \in PlayerRecord
  BY DEF Inv, TypeOK, SInv, Serving
<1>2. ASSUME ListenerChooses PROVE SInv' /\ Chooses(p, player') /\ sig' = "assigned"
  <2>1. PICK pl \in Playlists : player' = [p EXCEPT !.playlist = pl]
    BY <1>2 DEF ListenerChooses, ChangePlaylist
  <2>2. p.state = "Stopped" /\ sig' = "assigned" /\ call' = call
    BY <1>2 DEF ListenerChooses, ChangePlaylist
  <2>3. PICK q : q = [p EXCEPT !.playlist = pl]  OBVIOUS
  <2>4. /\ q.state = p.state /\ q.iter = p.iter /\ q.cur = p.cur /\ q.nxt = p.nxt
        /\ q.dev = p.dev /\ q.in_buf = p.in_buf /\ q.posted = p.posted
        /\ q.writing = p.writing /\ q.done = p.done /\ q.thrown = p.thrown
        /\ q.halt = p.halt
    BY <1>1, <2>3 DEF PlayerRecord
  <2>5. Placed(q)  BY <1>1, <2>4 DEF Placed, Following
  <2>6. Serving(q)  BY <1>1, <2>2, <2>4, <2>5 DEF Serving, Ok
  <2>7. Silent(q) /\ call' = NoCalls /\ q.nxt = NoSource  BY <2>2, <2>4 DEF SInv, Silent
  <2>8. player' = q  BY <2>1, <2>3
  <2>9. q.playlist = pl  BY <1>1, <2>3 DEF PlayerRecord
  <2> QED  BY <2>2, <2>4, <2>6, <2>7, <2>8, <2>9 DEF SInv, Chooses
<1>3. ASSUME EnterPlaylist PROVE SInv' /\ Enters(p, player')
  <2>1. /\ sig = "assigned" /\ sig' = "idle" /\ player' = jumpTo_impl(p, 0) /\ call' = call
    BY <1>3 DEF EnterPlaylist
  <2>2. p.nxt = NoSource  BY <2>1 DEF SInv
  <2>3. PICK q : q = jumpTo_impl(p, 0)  OBVIOUS
  <2>4. /\ SameRest(p, q) /\ Placed(q) /\ q.iter.list = q.playlist /\ q.nxt = NoSource
        /\ p.playlist # NoPlaylist => q.iter = Begin(q.playlist)
    BY <1>1, <2>2, <2>3, jumpTo_implPlaced
  <2>5. player' = q  BY <2>1, <2>3
  <2>6. p.state = "Stopped"  BY <2>1 DEF SInv
  <2>7. Enters(p, q)  BY <2>4, <2>6 DEF Enters, SameRest
  <2> HIDE DEF p
  <2> QED  BY <2>1, <2>4, <2>5, <2>7, SameLink DEF p
<1> QED  BY <1>2, <1>3

-----------------------------------------------------------------------------
(* The sessions *)

\* A step of a session is a step of the player.
LEMMA SkipNextIsNext == [SkipNext]_sessionVars => [Next]_vars
<1>1. ListenerChooses => SignalStep  BY DEF ListenerChooses, SignalStep
<1>2. ListenerPlays => GuiCommand  BY DEF ListenerPlays, GuiCommand
<1>3. Skip => GuiCommand  BY DEF Skip, GuiCommand
<1>4. Working => Next  BY DEF Working, NotTaken, Next, AudioStep, SignalStep
<1>5. Taken => AudioStep  BY DEF Taken, AudioStep
<1>6. UNCHANGED sessionVars => UNCHANGED vars  BY DEF sessionVars, vars
<1>7. SkipNext => Next
  BY <1>1, <1>2, <1>3, <1>4, <1>5 DEF SkipNext, ListenNext, Next
<1> QED  BY <1>6, <1>7

\* A session is a behaviour of Player: every theorem about Player holds of it.
THEOREM SessionIsPlayer == SkipSpec => Spec
<1>1. SessionInit => Init  BY DEF SessionInit
<1> QED  BY <1>1, SkipNextIsNext, PTL DEF SkipSpec, Spec

\* One who only listens is one who does not skip.
THEOREM ListenIsSkip == ListenSpec => SkipSpec
<1>1. [ListenNext]_sessionVars => [SkipNext]_sessionVars  BY DEF SkipNext
<1> QED  BY <1>1, PTL DEF ListenSpec, SkipSpec

LEMMA SInvInit == SessionInit => SInv
<1> SUFFICES ASSUME SessionInit PROVE SInv  OBVIOUS
<1> DEFINE p == player
<1>1. /\ p.state = "Stopped" /\ p.playlist = NoPlaylist /\ p.iter = NoIterator
      /\ p.cur = NoSource /\ p.nxt = NoSource /\ p.dev = NoDevice
      /\ p.in_buf = <<>> /\ p.posted = <<>> /\ p.writing = <<>> /\ p.done = <<>>
      /\ ~p.thrown /\ p.halt = "none" /\ call = NoCalls /\ sig = "idle"
  BY DEF SessionInit, Init, NoCalls
<1>2. Fitted(p.dev)  BY <1>1 DEF Fitted, NoDevice
<1>3. Placed(p)  BY <1>1 DEF Placed, Following
<1>4. Serving(p)  BY <1>1, <1>2, <1>3 DEF Serving, Ok
<1>5. p.iter.list = p.playlist  BY <1>1 DEF NoIterator
<1> QED  BY <1>1, <1>4, <1>5 DEF SInv, Silent

LEMMA SInvNext ==
    ASSUME WellServed
    PROVE  Inv /\ SInv /\ [SkipNext]_sessionVars => SInv' \/ (Ended' /\ AtEdge)
<1> SUFFICES ASSUME Inv, SInv, [SkipNext]_sessionVars PROVE SInv' \/ (Ended' /\ AtEdge)
  OBVIOUS
<1>1. CASE ListenerChooses  BY <1>1, ChooseServes
<1>2. CASE ListenerPlays  BY <1>2, CommandServes
<1>3. CASE Skip  BY <1>3, CommandServes
<1>4. CASE WriteHandler("gui") \/ WriteHandler("audio")
  BY <1>4, WriteHandlerServes DEF Threads
<1>5. CASE HandleError  BY <1>5, QueueServes
<1>6. CASE PoolStep  BY <1>6, QueueServes
<1>7. CASE EnterPlaylist  BY <1>7, ChooseServes
<1>8. CASE Taken  BY <1>8, QueueServes DEF Taken
<1>9. CASE NotTaken  BY <1>9, QueueServes DEF NotTaken
<1>10. CASE UNCHANGED sessionVars
  BY <1>10 DEF sessionVars, SInv
<1> QED
  BY <1>1, <1>2, <1>3, <1>4, <1>5, <1>6, <1>7, <1>8, <1>9, <1>10
     DEF SkipNext, ListenNext, Working

\* Nothing happens once the program has ended.
LEMMA EndedNext == Ended /\ [SkipNext]_sessionVars => Ended' /\ UNCHANGED sessionVars
<1> SUFFICES ASSUME Ended, [SkipNext]_sessionVars PROVE Ended' /\ UNCHANGED sessionVars
  OBVIOUS
<1>1. player.halt # "none"  BY DEF Ended
<1>2. ~ListenerChooses /\ ~ListenerPlays
  BY <1>1 DEF ListenerChooses, ChangePlaylist, ListenerPlays, Play, Command
<1>3. ~Skip  BY <1>1 DEF Skip, NextTrack, PreviousTrack, Seek, Command
<1>4. ~WriteHandler("gui") /\ ~WriteHandler("audio")
  BY <1>1
     DEF WriteHandler, WriteIgnored, WriteFailed, WriteAtEnd, WriteQueued, WriteDecoded, Enter
<1>5. ~NotTaken /\ ~Taken /\ ~HandleError /\ ~PoolStep /\ ~EnterPlaylist
  BY <1>1
     DEF NotTaken, DeviceUnderrun, TakesLess, Taken, DeviceWrite, HandleError, PoolStep,
         StartWrite, EnterPlaylist
<1>6. ~SkipNext  BY <1>2, <1>3, <1>4, <1>5 DEF SkipNext, ListenNext, Working
<1>7. UNCHANGED sessionVars  BY <1>6
<1> QED  BY <1>7 DEF sessionVars, Ended

\* The inductive invariant of the sessions: one link while the player plays, none
\* and nothing pre-loaded while it does not, and sources where the iterator is; or the
\* program has ended.
THEOREM SInvHolds ==
    ASSUME WellServed
    PROVE  SkipSpec => [](SInv \/ Ended)
<1>1. SkipSpec => []Inv  BY SessionIsPlayer, InvHolds, PTL
<1>2. Inv /\ (SInv \/ Ended) /\ [SkipNext]_sessionVars => (SInv \/ Ended)'
  BY SInvNext, EndedNext
<1> QED  BY <1>1, <1>2, SInvInit, PTL DEF SkipSpec

\* However a user skips and seeks, and however often the device runs out of data, one
\* buffer or one call of write_handler is under way at a time, and what an underrun
\* left in in_buf waits for the call that will send it.
THEOREM SkipsKeepOneChain ==
    ASSUME WellServed
    PROVE  SkipSpec => []OneChain
<1>1. Len(<<>>) = 0  OBVIOUS
<1>2. /\ NoCalls["gui"] = "none" /\ NoCalls["audio"] = "none"
      /\ [NoCalls EXCEPT !["gui"] = "ok"]["audio"] = "none"
      /\ [NoCalls EXCEPT !["audio"] = "ok"]["gui"] = "none"
      /\ [NoCalls EXCEPT !["audio"] = "ok"]["audio"] = "ok"
  BY DEF NoCalls, Threads
<1>3. SInv => OneChain
  <2> SUFFICES ASSUME SInv PROVE OneChain  OBVIOUS
  <2> DEFINE p == player
  <2>1. p.done = <<>> /\ p.state \in {"Stopped", "Playing"}
    BY DEF SInv, Serving
  <2>2. CASE OneLink(p, call)
    <3>1. CASE Silent(p) /\ call = [NoCalls EXCEPT !["gui"] = "ok"]
      <4>1. call["audio"] = "none"  BY <1>2, <3>1
      <4> QED  BY <1>1, <2>1, <3>1, <4>1 DEF Silent, OneChain
    <3>2. CASE (Silent(p) \/ CameBack(p)) /\ call = [NoCalls EXCEPT !["audio"] = "ok"]
      <4>1. call["gui"] = "none" /\ call["audio"] = "ok"  BY <1>2, <3>2
      <4>2. p.posted = <<>> /\ p.writing = <<>>  BY <3>2 DEF Silent, CameBack
      <4>3. p.in_buf # <<>> => Len(p.in_buf) = 1  BY <3>2 DEF Silent, CameBack
      <4> QED  BY <1>1, <2>1, <4>1, <4>2, <4>3 DEF OneChain
    <3>3. CASE p.in_buf = <<>> /\ Len(p.posted) = 1 /\ p.writing = <<>> /\ call = NoCalls
      BY <1>1, <1>2, <2>1, <3>3 DEF OneChain
    <3>4. CASE p.in_buf = <<>> /\ p.posted = <<>> /\ Len(p.writing) = 1 /\ call = NoCalls
      BY <1>1, <1>2, <2>1, <3>4 DEF OneChain
    <3> QED  BY <2>2, <3>1, <3>2, <3>3, <3>4 DEF OneLink
  <2>3. CASE Silent(p) /\ call = NoCalls
    BY <1>1, <1>2, <2>1, <2>3 DEF Silent, OneChain
  <2> QED  BY <2>1, <2>2, <2>3 DEF SInv
<1>4. Ended => OneChain  BY <1>1, <1>2 DEF Ended, OneChain
<1> QED  BY <1>3, <1>4, SInvHolds, PTL

\* However next, previous and seek interleave with the end of a track and with
\* underruns, nothing null is dereferenced, mu is not locked twice, and only two asserts
\* fail: on an empty decode where a seek or a reset left whole buffers, and at the end
\* of the playlist on a buffer that came back.
THEOREM SkipsHaltAtEdgesOnly ==
    ASSUME WellServed
    PROVE  SkipSpec => HaltsAtEdgesOnly
<1> DEFINE Edge == player'.halt # player.halt =>
                      \/ player'.halt = "buffered" /\ PlayedToTheEdge
                      \/ player'.halt = "drained" /\ LastCameBack
<1>1. Inv /\ (SInv \/ Ended) /\ [SkipNext]_sessionVars => [Edge]_sessionVars
  <2> SUFFICES ASSUME Inv, SInv \/ Ended, [SkipNext]_sessionVars
               PROVE  Edge \/ UNCHANGED sessionVars
    OBVIOUS
  <2>1. CASE Ended  BY <2>1, EndedNext
  <2>2. CASE SInv
    <3>1. CASE Ended' /\ AtEdge  BY <3>1 DEF AtEdge
    <3>2. CASE SInv'
      <4>1. player.halt = "none"  BY <2>2 DEF SInv, Serving, Ok
      <4>2. player'.halt = "none"  BY <3>2 DEF SInv, Serving, Ok
      <4> QED  BY <4>1, <4>2
    <3> QED  BY <2>2, <3>1, <3>2, SInvNext
  <2> QED  BY <2>1, <2>2
<1>2. SkipSpec => []Inv  BY SessionIsPlayer, InvHolds, PTL
<1> QED  BY <1>1, <1>2, SInvHolds, PTL DEF SkipSpec, HaltsAtEdgesOnly

\* The open source decodes the iterator's track and the pre-loaded one the track
\* after it, wherever skipping takes the iterator.
THEOREM SkipsMatchSource ==
    ASSUME WellServed
    PROVE  SkipSpec => []SourceMatchesIterator
<1>1. SInv \/ Ended => SourceMatchesIterator
  <2> SUFFICES ASSUME SInv \/ Ended PROVE SourceMatchesIterator  OBVIOUS
  <2> DEFINE p == player
  <2>1. Placed(p)  BY DEF SInv, Serving, Ended
  <2>2. p.nxt # NoSource => p.nxt.track = TrackAt(Succ(p.iter))
    <3> SUFFICES ASSUME p.nxt # NoSource PROVE p.nxt.track = TrackAt(Succ(p.iter))
      OBVIOUS
    <3>1. p.nxt = Open(TrackAt(Succ(p.iter)))  BY <2>1 DEF Placed, Following
    <3> QED  BY <3>1 DEF Open
  <2> QED  BY <2>1, <2>2 DEF SourceMatchesIterator, Placed
<1> QED  BY <1>1, SInvHolds, PTL

-----------------------------------------------------------------------------
(* The program of a playlist, a concatenation.  FlattenSeq is recursive: what *)
(* is said of all its steps is proved of the least step that would break it.  *)

\* f concatenates the first m elements of s, step by step.
Concatenates(f, s, m) ==
    f = [i \in 1..m |-> IF i = 1 THEN s[i] ELSE f[i - 1] \o s[i]]

LEMMA ConcatenationExists ==
    ASSUME NEW s, NEW m \in Nat
    PROVE  \E f : Concatenates(f, s, m)
<1> DEFINE Bad == {n \in Nat : ~ \E f : Concatenates(f, s, n)}
<1>1. SUFFICES ASSUME Bad # {} PROVE FALSE  OBVIOUS
<1>2. Bad \in SUBSET Nat  OBVIOUS
<1>3. PICK n \in Bad : \A k \in Bad : n <= k
  <2> HIDE DEF Bad
  <2> QED  BY <1>1, <1>2, NatMin
<1>4. n \in Nat /\ ~ \E f : Concatenates(f, s, n)  OBVIOUS
<1>5. n # 0
  <2>1. SUFFICES ASSUME n = 0 PROVE FALSE  OBVIOUS
  <2> DEFINE e == [i \in {} |-> s[i]]
  <2>2. 1..0 = {}  OBVIOUS
  <2>3. Concatenates(e, s, 0)  BY <2>2 DEF Concatenates
  <2> QED  BY <1>4, <2>1, <2>3
<1>6. n - 1 \in Nat /\ ~(n <= n - 1)  BY <1>4, <1>5
<1>7. n - 1 \notin Bad  BY <1>3, <1>6
<1>8. PICK f : Concatenates(f, s, n - 1)  BY <1>6, <1>7
<1> HIDE DEF Bad
<1> DEFINE g == [i \in 1..n |-> IF i = n THEN IF n = 1 THEN s[n] ELSE f[n - 1] \o s[n]
                                ELSE f[i]]
           h == [i \in 1..n |-> IF i = 1 THEN s[i] ELSE g[i - 1] \o s[i]]
<1>9. ASSUME NEW i \in 1..n PROVE g[i] = h[i]
  <2>1. CASE i = n /\ n = 1  BY <2>1
  <2>2. CASE i = n /\ n # 1
    <3>1. n - 1 \in 1..n /\ n - 1 # n  BY <1>4, <1>5, <2>2
    <3>2. g[n - 1] = f[n - 1]  BY <3>1
    <3> QED  BY <2>2, <3>2
  <2>3. CASE i # n
    <3>1. i \in 1..(n - 1)  BY <1>4, <2>3
    <3>2. g[i] = f[i]  BY <2>3
    <3>3. f[i] = IF i = 1 THEN s[i] ELSE f[i - 1] \o s[i]  BY <1>8, <3>1 DEF Concatenates
    <3>4. i # 1 => i - 1 \in 1..n /\ i - 1 # n  BY <1>4, <3>1
    <3>5. i # 1 => g[i - 1] = f[i - 1]  BY <3>4
    <3> QED  BY <3>2, <3>3, <3>5
  <2> QED  BY <2>1, <2>2, <2>3
<1>10. g = h  BY <1>9
<1>11. Concatenates(g, s, n)
  <2> HIDE DEF g
  <2> QED  BY <1>10 DEF Concatenates
<1> QED  BY <1>4, <1>11

\* The buffers of the tracks of a playlist, and of its first i tracks.
Parts(pl) == [i \in 1..Length(pl) |-> Buffers(TracksOf[pl][i])]
Through(pl) ==
    LET through[i \in 1..Len(Parts(pl))] ==
          IF i = 1 THEN Parts(pl)[i] ELSE through[i - 1] \o Parts(pl)[i]
    IN through

\* The buffers before the i-th track.
Before(pl, i) == IF i = 1 THEN <<>> ELSE Through(pl)[i - 1]

LEMMA LengthIsNat == ASSUME NEW pl \in Playlists PROVE
    /\ Length(pl) \in Nat
    /\ \A i \in 1..Length(pl) : TracksOf[pl][i] \in Tracks
<1>1. TracksOf[pl] \in Seq(Tracks)  BY PlaylistAssumption
<1> QED  BY <1>1, ElementOfSeq, LenProperties DEF Length

LEMMA BuffersOf ==
    ASSUME NEW t \in Tracks
    PROVE  /\ Total(t) \in Nat /\ Buffers(t) \in Seq(Buffer) /\ Len(Buffers(t)) = Total(t)
           /\ \A k \in 1..Total(t) : Buffers(t)[k] = [track |-> t, idx |-> k - 1]
<1>1. Total(t) \in Nat  BY TrackAssumption DEF Total
<1>2. \A k \in 1..Total(t) : [track |-> t, idx |-> k - 1] \in Buffer  BY <1>1 DEF Buffer
<1>3. Buffers(t) \in Seq(Buffer) /\ Len(Buffers(t)) = Total(t)
  <2>1. Buffers(t) \in [1..Total(t) -> Buffer]  BY <1>2 DEF Buffers
  <2>2. Buffers(t) \in Seq(Buffer)  BY <1>1, <2>1
  <2>3. DOMAIN Buffers(t) = 1..Total(t)  BY DEF Buffers
  <2> QED  BY <1>1, <2>2, <2>3, LenProperties
<1> QED  BY <1>1, <1>3 DEF Buffers

LEMMA PartsOf ==
    ASSUME NEW pl \in Playlists
    PROVE  /\ Len(Parts(pl)) = Length(pl)
           /\ \A i \in 1..Length(pl) : Parts(pl)[i] = Buffers(TracksOf[pl][i])
<1>1. Length(pl) \in Nat  BY LengthIsNat
<1>2. DOMAIN Parts(pl) = 1..Length(pl)  BY DEF Parts
<1>3. Parts(pl) \in Seq(Seq(Buffer))
  <2>1. \A i \in 1..Length(pl) : Buffers(TracksOf[pl][i]) \in Seq(Buffer)
    BY LengthIsNat, BuffersOf
  <2>2. Parts(pl) \in [1..Length(pl) -> Seq(Buffer)]  BY <2>1 DEF Parts
  <2> QED  BY <1>1, <2>2
<1>4. Len(Parts(pl)) = Length(pl)  BY <1>1, <1>2, <1>3, LenProperties
<1> QED  BY <1>4 DEF Parts

LEMMA ThroughIs ==
    ASSUME NEW pl \in Playlists
    PROVE  Concatenates(Through(pl), Parts(pl), Length(pl))
<1>1. Length(pl) \in Nat /\ Len(Parts(pl)) = Length(pl)  BY LengthIsNat, PartsOf
<1> DEFINE C(f) == f = [i \in 1..Len(Parts(pl)) |->
                          IF i = 1 THEN Parts(pl)[i] ELSE f[i - 1] \o Parts(pl)[i]]
<1>2. \E f : Concatenates(f, Parts(pl), Length(pl))  BY <1>1, ConcatenationExists
<1>3. \E f : C(f)  BY <1>1, <1>2 DEF Concatenates
<1>4. Through(pl) = CHOOSE f : C(f)  BY DEF Through
<1>5. C(Through(pl))  BY <1>3, <1>4
<1> QED  BY <1>1, <1>5 DEF Concatenates

LEMMA ProgramThrough ==
    ASSUME NEW pl \in Playlists, Length(pl) # 0
    PROVE  Program[pl] = Through(pl)[Length(pl)]
<1>1. Len(Parts(pl)) = Length(pl)  BY PartsOf
<1>2. Program[pl] = FlattenSeq(Parts(pl))  BY DEF Program, Parts
<1>3. FlattenSeq(Parts(pl)) = Through(pl)[Len(Parts(pl))]  BY <1>1 DEF FlattenSeq, Through
<1> QED  BY <1>1, <1>2, <1>3

LEMMA BeforeStep ==
    ASSUME NEW pl \in Playlists, NEW i \in 1..Length(pl), Before(pl, i) \in Seq(Buffer)
    PROVE  /\ Before(pl, i + 1) = Before(pl, i) \o Buffers(TracksOf[pl][i])
           /\ Before(pl, i + 1) \in Seq(Buffer)
<1>1. Length(pl) \in Nat /\ i \in Nat /\ i + 1 # 1 /\ (i + 1) - 1 = i  BY LengthIsNat
<1>2. Before(pl, i + 1) = Through(pl)[i]  BY <1>1 DEF Before
<1>3. Through(pl)[i] = IF i = 1 THEN Parts(pl)[i] ELSE Through(pl)[i - 1] \o Parts(pl)[i]
  BY ThroughIs DEF Concatenates
<1>4. Parts(pl)[i] = Buffers(TracksOf[pl][i]) /\ Buffers(TracksOf[pl][i]) \in Seq(Buffer)
  BY PartsOf, LengthIsNat, BuffersOf
<1>5. Before(pl, i + 1) = Before(pl, i) \o Buffers(TracksOf[pl][i])
  <2>1. CASE i = 1
    <3>1. Before(pl, i) = <<>>  BY <2>1 DEF Before
    <3> QED  BY <1>2, <1>3, <1>4, <2>1, <3>1, ConcatEmptySeq
  <2>2. CASE i # 1  BY <1>2, <1>3, <1>4, <2>2 DEF Before
  <2> QED  BY <2>1, <2>2
<1> QED  BY <1>4, <1>5, ConcatProperties

LEMMA BeforeSeq ==
    ASSUME NEW pl \in Playlists, NEW i \in 1..(Length(pl) + 1)
    PROVE  Before(pl, i) \in Seq(Buffer)
<1> DEFINE Bad == {n \in 1..(Length(pl) + 1) : Before(pl, n) \notin Seq(Buffer)}
<1>1. SUFFICES ASSUME Bad # {} PROVE FALSE  OBVIOUS
<1>2. Length(pl) \in Nat  BY LengthIsNat
<1>3. Bad \in SUBSET Nat  BY <1>2
<1>4. PICK n \in Bad : \A m \in Bad : n <= m
  <2> HIDE DEF Bad
  <2> QED  BY <1>1, <1>3, NatMin
<1>5. n \in 1..(Length(pl) + 1) /\ Before(pl, n) \notin Seq(Buffer)  OBVIOUS
<1>6. n # 1
  <2>1. Before(pl, 1) = <<>>  BY DEF Before
  <2>2. Before(pl, 1) \in Seq(Buffer)  BY <2>1, EmptySeq
  <2> HIDE DEF Bad
  <2> QED  BY <1>5, <2>2
<1>7. n - 1 \in 1..Length(pl) /\ n - 1 \in 1..(Length(pl) + 1) /\ (n - 1) + 1 = n
      /\ ~(n <= n - 1)
  BY <1>2, <1>5, <1>6
<1>8. Before(pl, n - 1) \in Seq(Buffer)  BY <1>4, <1>7
<1>9. Before(pl, (n - 1) + 1) \in Seq(Buffer)  BY <1>7, <1>8, BeforeStep
<1> QED  BY <1>5, <1>7, <1>9

\* s begins with t.
StartsWith(s, t) == \A k \in 1..Len(t) : k <= Len(s) /\ s[k] = t[k]

LEMMA StartsWithMore ==
    ASSUME NEW a \in Seq(Buffer), NEW b \in Seq(Buffer), NEW c \in Seq(Buffer),
           StartsWith(b, a)
    PROVE  StartsWith(b \o c, a)
<1>1. /\ Len(b \o c) = Len(b) + Len(c) /\ Len(a) \in Nat /\ Len(b) \in Nat /\ Len(c) \in Nat
      /\ \A k \in 1..Len(b) : (b \o c)[k] = b[k]
  BY ConcatProperties, LenProperties
<1> QED  BY <1>1 DEF StartsWith

\* The part before a track is a prefix of the part before any later one.
LEMMA BeforePrefix ==
    ASSUME NEW pl \in Playlists, NEW i \in 1..(Length(pl) + 1),
           NEW j \in i..(Length(pl) + 1)
    PROVE  StartsWith(Before(pl, j), Before(pl, i))
<1> DEFINE Bad == {n \in i..(Length(pl) + 1) : ~StartsWith(Before(pl, n), Before(pl, i))}
<1>1. SUFFICES ASSUME Bad # {} PROVE FALSE  OBVIOUS
<1>2. Length(pl) \in Nat /\ i \in Nat  BY LengthIsNat
<1>3. Bad \in SUBSET Nat  BY <1>2
<1>4. PICK n \in Bad : \A m \in Bad : n <= m
  <2> HIDE DEF Bad
  <2> QED  BY <1>1, <1>3, NatMin
<1>5. n \in i..(Length(pl) + 1) /\ ~StartsWith(Before(pl, n), Before(pl, i))  OBVIOUS
<1>6. n # i
  <2>1. Before(pl, i) \in Seq(Buffer)  BY BeforeSeq
  <2>2. Len(Before(pl, i)) \in Nat  BY <2>1, LenProperties
  <2>3. StartsWith(Before(pl, i), Before(pl, i))  BY <2>2 DEF StartsWith
  <2> QED  BY <1>5, <2>3
<1>7. n - 1 \in i..(Length(pl) + 1) /\ n - 1 \in 1..Length(pl) /\ (n - 1) + 1 = n
      /\ ~(n <= n - 1)
  BY <1>2, <1>5, <1>6
<1>8. StartsWith(Before(pl, n - 1), Before(pl, i))  BY <1>4, <1>7
<1> HIDE DEF Bad
<1>9. Before(pl, n - 1) \in Seq(Buffer) /\ Before(pl, i) \in Seq(Buffer)
  BY <1>2, <1>7, BeforeSeq
<1>10. Buffers(TracksOf[pl][n - 1]) \in Seq(Buffer)  BY <1>7, LengthIsNat, BuffersOf
<1>11. StartsWith(Before(pl, n - 1) \o Buffers(TracksOf[pl][n - 1]), Before(pl, i))
  BY <1>8, <1>9, <1>10, StartsWithMore
<1>12. Before(pl, (n - 1) + 1) = Before(pl, n - 1) \o Buffers(TracksOf[pl][n - 1])
  BY <1>7, <1>9, BeforeStep
<1> QED  BY <1>5, <1>7, <1>11, <1>12

LEMMA BeforeEnd ==
    ASSUME NEW pl \in Playlists
    PROVE  Program[pl] = Before(pl, Length(pl) + 1)
<1>1. Length(pl) \in Nat  BY LengthIsNat
<1>2. CASE Length(pl) # 0
  <2>1. Before(pl, Length(pl) + 1) = Through(pl)[Length(pl)]  BY <1>1, <1>2 DEF Before
  <2> QED  BY <1>2, <2>1, ProgramThrough
<1>3. CASE Length(pl) = 0
  <2>1. Len(Parts(pl)) = 0  BY <1>3, PartsOf
  <2>2. Program[pl] = Parts(pl)  BY <2>1 DEF Program, Parts, FlattenSeq
  <2>3. Parts(pl) = <<>>
    <3>1. DOMAIN Parts(pl) = {}  BY <1>3 DEF Parts
    <3>2. Parts(pl) \in [1..0 -> Buffer]  BY <1>3 DEF Parts
    <3>3. Parts(pl) \in Seq(Buffer)  BY <3>2
    <3> QED  BY <2>1, <3>3, EmptySeq
  <2> QED  BY <1>3, <2>2, <2>3 DEF Before
<1> QED  BY <1>2, <1>3

\* Where the k-th buffer of a track stands in the program of its playlist.
LEMMA BufferAt ==
    ASSUME NEW pl \in Playlists, NEW i \in 1..Length(pl),
           NEW k \in 0..(Total(TracksOf[pl][i]) - 1)
    PROVE  /\ Len(Before(pl, i)) + k + 1 \in 1..Len(Program[pl])
           /\ Program[pl][Len(Before(pl, i)) + k + 1]
                 = [track |-> TracksOf[pl][i], idx |-> k]
<1> DEFINE t == TracksOf[pl][i]
           b == Before(pl, i)
           c == Before(pl, i + 1)
<1>1. Length(pl) \in Nat /\ t \in Tracks  BY LengthIsNat
<1>2. /\ i \in 1..(Length(pl) + 1) /\ i + 1 \in 1..(Length(pl) + 1)
      /\ Length(pl) + 1 \in (i + 1)..(Length(pl) + 1)
      /\ Length(pl) + 1 \in 1..(Length(pl) + 1)
  BY <1>1
<1>3. b \in Seq(Buffer) /\ c \in Seq(Buffer) /\ c = b \o Buffers(t)
  BY <1>2, BeforeSeq, BeforeStep
<1>4. /\ Total(t) \in Nat /\ Buffers(t) \in Seq(Buffer) /\ Len(Buffers(t)) = Total(t)
      /\ \A m \in 1..Total(t) : Buffers(t)[m] = [track |-> t, idx |-> m - 1]
  BY <1>1, BuffersOf
<1>5. Program[pl] \in Seq(Buffer) /\ StartsWith(Program[pl], c)
  BY <1>2, BeforeSeq, BeforePrefix, BeforeEnd
<1> HIDE DEF t, b, c
<1>6. Len(b) \in Nat /\ Len(Program[pl]) \in Nat /\ Len(c) = Len(b) + Total(t)
  BY <1>3, <1>4, <1>5, LenProperties, ConcatProperties
<1>7. k \in Nat /\ k + 1 \in 1..Total(t) /\ Len(b) + k + 1 \in 1..Len(c)
  BY <1>4, <1>6 DEF t
<1>8. c[Len(b) + k + 1] = Buffers(t)[k + 1]
  <2>1. Len(b) + k + 1 \in 1..(Len(b) + Len(Buffers(t))) /\ Len(b) + k + 1 > Len(b)
        /\ (Len(b) + k + 1) - Len(b) = k + 1
    BY <1>4, <1>6, <1>7
  <2> HIDE DEF t
  <2>2. \A m \in 1..(Len(b) + Len(Buffers(t))) :
           (b \o Buffers(t))[m] = IF m <= Len(b) THEN b[m] ELSE Buffers(t)[m - Len(b)]
    BY <1>3, <1>4, ConcatProperties
  <2>3. ~(Len(b) + k + 1 <= Len(b))  BY <1>6, <1>7
  <2> QED  BY <1>3, <2>1, <2>2, <2>3
<1>9. Buffers(t)[k + 1] = [track |-> t, idx |-> k]
  <2>1. (k + 1) - 1 = k  BY <1>7
  <2> QED  BY <1>4, <1>7, <2>1
<1>10. Len(b) + k + 1 <= Len(Program[pl]) /\ Program[pl][Len(b) + k + 1] = c[Len(b) + k + 1]
  BY <1>5, <1>7 DEF StartsWith
<1> QED  BY <1>6, <1>7, <1>8, <1>9, <1>10 DEF t, b

-----------------------------------------------------------------------------
(* Listening *)

\* The device plays at the rate of the iterator's track, or, before the first
\* buffer of it, was prepared for this track or plays at the rate of the last one.
Matched(p) ==
    OnTrack(p.iter) =>
        \/ SameLayout(SpecsOf[TrackAt(p.iter)], p.dev.specs)
        \/ /\ p.cur.pos = 0
           /\ p.dev.specs = Settled[SpecsOf[TrackAt(p.iter)]]
        \/ /\ p.cur.pos = 0 /\ p.iter.at > 1
           /\ SameLayout(SpecsOf[TracksOf[p.iter.list][p.iter.at - 1]], p.dev.specs)

\* How many buffers of the playlist have been decoded.
Decoded(p) == Len(Before(p.playlist, p.iter.at)) + p.cur.pos

\* What the device has taken is the beginning of the program, and the buffer under
\* way, if there is one, comes next.
UnderWay(p, b) ==
    \/ p.in_buf = <<>> /\ p.posted = <<b>> /\ p.writing = <<>>
    \/ p.in_buf = <<>> /\ p.posted = <<>> /\ p.writing = <<b>>
    \/ p.in_buf = <<b>> /\ p.posted = <<>> /\ p.writing = <<>>

Continues(p, h) ==
    \/ Silent(p) /\ Len(h) = Decoded(p)
    \/ /\ Len(h) + 1 = Decoded(p) /\ Len(h) < Len(Program[p.playlist])
       /\ UnderWay(p, Program[p.playlist][Len(h) + 1])

HInv ==
    /\ heard \in Seq(Buffer)
    /\ player.state = "Playing" =>
          /\ StartsWith(Program[player.playlist], heard)
          /\ Continues(player, heard) /\ Matched(player)
    /\ player.state = "Stopped" /\ sig = "idle" /\ player.playlist # NoPlaylist =>
          player.iter \in {Begin(player.playlist), End(player.playlist)}

LEMMA PlayingPlace ==
    ASSUME Inv, SInv, player.state = "Playing"
    PROVE  /\ player.playlist \in Playlists /\ player.iter.list = player.playlist
           /\ player.iter.at \in 1..(Length(player.playlist) + 1)
           /\ player.iter \in Iterator /\ IteratorSound(player.iter)
           /\ player.cur.pos \in Nat /\ sig = "idle"
           /\ Before(player.playlist, player.iter.at) \in Seq(Buffer)
           /\ Len(Before(player.playlist, player.iter.at)) \in Nat
           /\ Program[player.playlist] \in Seq(Buffer)
           /\ Len(Program[player.playlist]) \in Nat
<1> DEFINE pl == player.playlist
<1>1. player \in PlayerRecord /\ IteratorSound(player.iter)  BY DEF Inv, Good, Sound
<1>2. player.iter \in Iterator /\ pl \in Playlists \cup {NoPlaylist} /\ player.cur \in Source
  BY <1>1 DEF PlayerRecord
<1>3. sig = "idle"  BY DEF SInv, Inv, TypeOK
<1>4. pl # NoPlaylist /\ player.iter.list = pl  BY <1>3 DEF SInv, Serving
<1>5. pl \in Playlists /\ player.iter # NoIterator  BY <1>2, <1>4 DEF NoIterator
<1>6. player.iter.at \in 1..(Length(pl) + 1)  BY <1>1, <1>4, <1>5 DEF IteratorSound
<1>7. Before(pl, player.iter.at) \in Seq(Buffer)  BY <1>5, <1>6, BeforeSeq
<1>8. Length(pl) + 1 \in 1..(Length(pl) + 1)  BY <1>5, LengthIsNat
<1>9. Program[pl] \in Seq(Buffer)  BY <1>5, <1>8, BeforeSeq, BeforeEnd
<1>10. player.cur.pos \in Nat  BY <1>2 DEF Source
<1> QED  BY <1>1, <1>2, <1>3, <1>4, <1>5, <1>6, <1>7, <1>9, <1>10, LenProperties

\* The device is prepared again only for a track with a whole buffer, at its start.
LEMMA NothingDropped ==
    ASSUME NoneDropped, Inv, SInv, player.state = "Playing", OnTrack(player.iter),
           Matched(player), ~SameLayout(SpecsOf[TrackAt(player.iter)], player.dev.specs)
    PROVE  player.cur.pos = 0 /\ player.cur.pos < FullBuffers[TrackAt(player.iter)]
<1> DEFINE t == TrackAt(player.iter)
           i == player.iter.at
           pl == player.playlist
<1>1. /\ pl \in Playlists /\ player.iter.list = pl /\ i \in 1..Length(pl) /\ Length(pl) \in Nat
      /\ t = TracksOf[pl][i] /\ t \in Tracks
  BY PlayingPlace, LengthIsNat DEF OnTrack, TrackAt
<1>2. FullBuffers[t] \in Nat  BY <1>1, TrackAssumption
<1>3. player.cur.pos = 0  BY DEF Matched
<1>4. FullBuffers[t] # 0
  <2>1. CASE player.dev.specs = Settled[SpecsOf[t]]  BY <1>1, <2>1 DEF NoneDropped
  <2>2. CASE i > 1 /\ SameLayout(SpecsOf[TracksOf[pl][i - 1]], player.dev.specs)
    <3>1. i \in 2..Length(pl)  BY <1>1, <2>2
    <3>2. ~SameLayout(SpecsOf[t], SpecsOf[TracksOf[pl][i - 1]])
      BY <2>2 DEF SameLayout
    <3> QED  BY <1>1, <3>1, <3>2 DEF NoneDropped
  <2> QED  BY <1>1, <2>1, <2>2 DEF Matched
<1> QED  BY <1>2, <1>3, <1>4

\* While no buffer is under way, everything decoded has been taken.
LEMMA SilentHeard ==
    ASSUME NEW p, NEW h, Continues(p, h), Silent(p)
    PROVE  Len(h) = Decoded(p)
BY DEF Continues, UnderWay, Silent

\* The end of playback: nothing is missing.
LEMMA OverFinishes ==
    ASSUME WellServed, Inv, SInv, HInv, Over(player, player'),
           player.state = "Playing", player'.playlist = player.playlist, heard' = heard
    PROVE  HInv' /\ Gapless!Next
<1> DEFINE pl == player.playlist
<1>1. /\ pl \in Playlists /\ Program[pl] \in Seq(Buffer) /\ player.iter.at = Length(pl) + 1
  BY PlayingPlace DEF Over, End
<1>2. player.cur.pos = 0  BY DEF Over, NoSource
<1>3. Len(heard) = Decoded(player) /\ StartsWith(Program[pl], heard) /\ heard \in Seq(Buffer)
  BY SilentHeard DEF HInv, Over
<1>4. Len(heard) = Len(Program[pl])
  <2>1. Decoded(player) = Len(Program[pl]) + 0  BY <1>1, <1>2, BeforeEnd DEF Decoded
  <2> QED  BY <1>1, <1>3, <2>1, LenProperties
<1>5. heard = Program[pl]
  <2>1. \A k \in 1..Len(heard) : heard[k] = Program[pl][k]  BY <1>3, <1>4 DEF StartsWith
  <2> QED  BY <1>1, <1>3, <1>4, <2>1, SeqEqual
<1>6. Gapless!Finish  BY <1>5 DEF Gapless!Finish, Over
<1>7. HInv'  BY <1>3 DEF HInv, Over
<1> QED  BY <1>6, <1>7 DEF Gapless!Next

LEMMA PreparedHears ==
    ASSUME WellServed, NoneDropped, Inv, SInv, HInv, Prepared(player, player'),
           player.state = "Playing", player'.playlist = player.playlist,
           heard' = heard
    PROVE  HInv'
<1>1. /\ heard \in Seq(Buffer) /\ StartsWith(Program[player.playlist], heard)
      /\ Continues(player, heard) /\ Matched(player)
  BY DEF HInv
<1>2. player.cur.pos = 0 /\ player.cur.pos < FullBuffers[TrackAt(player.iter)]
  BY <1>1, NothingDropped DEF Prepared
<1>3. /\ player'.iter = player.iter /\ player'.cur.pos = player.cur.pos
      /\ player'.dev.specs = Settled[SpecsOf[TrackAt(player'.iter)]]
  BY <1>2 DEF Prepared
<1>4. Matched(player')  BY <1>2, <1>3 DEF Matched
<1>5. Continues(player', heard)
  <2>1. Len(heard) = Decoded(player)  BY <1>1, SilentHeard DEF Prepared
  <2>2. Decoded(player') = Decoded(player)  BY <1>3 DEF Decoded
  <2> QED  BY <2>1, <2>2 DEF Continues, Prepared
<1> QED  BY <1>1, <1>4, <1>5 DEF HInv, Prepared

\* The buffer posted is the one that comes next.
LEMMA PostedHears ==
    ASSUME WellServed, Inv, SInv, HInv, Posted(player, player'),
           player.state = "Playing", player'.playlist = player.playlist, heard' = heard
    PROVE  HInv'
<1> DEFINE pl == player.playlist
           i == player.iter.at
           t == TrackAt(player.iter)
           k == player.cur.pos
           b == [track |-> t, idx |-> k]
<1>1. /\ pl \in Playlists /\ player.iter.list = pl /\ i \in 1..Length(pl) /\ Length(pl) \in Nat
      /\ t = TracksOf[pl][i] /\ t \in Tracks
  BY PlayingPlace, LengthIsNat DEF OnTrack, TrackAt, Posted
<1>2. /\ k \in Nat /\ Len(Before(pl, i)) \in Nat /\ Before(pl, i) \in Seq(Buffer)
      /\ player.iter \in Iterator /\ IteratorSound(player.iter) /\ OnTrack(player.iter)
  BY PlayingPlace DEF Posted
<1>3. FullBuffers[t] \in Nat /\ Total(t) = FullBuffers[t] + 1
  BY <1>1, TrackAssumption DEF WellServed, Total
<1>4. k \in 0..(Total(t) - 1)  BY <1>2, <1>3 DEF Posted
<1>5. /\ heard \in Seq(Buffer) /\ StartsWith(Program[pl], heard)
      /\ Len(heard) = Len(Before(pl, i)) + k /\ Len(heard) \in Nat
  BY SilentHeard, LenProperties DEF HInv, Decoded, Posted
<1>6. Len(heard) + 1 \in 1..Len(Program[pl]) /\ Program[pl][Len(heard) + 1] = b
  <2>1. k \in 0..(Total(TracksOf[pl][i]) - 1)  BY <1>1, <1>4
  <2>2. /\ Len(Before(pl, i)) + k + 1 \in 1..Len(Program[pl])
        /\ Program[pl][Len(Before(pl, i)) + k + 1] = [track |-> TracksOf[pl][i], idx |-> k]
    BY <1>1, <2>1, BufferAt
  <2>3. Len(heard) + 1 = Len(Before(pl, i)) + k + 1  BY <1>5
  <2>4. b = [track |-> TracksOf[pl][i], idx |-> k]  BY <1>1
  <2> HIDE DEF b
  <2> QED  BY <2>2, <2>3, <2>4
<1>7. Decoded(player') = Len(heard) + 1 /\ Matched(player')
  <2>1. CASE player'.iter = player.iter /\ player'.cur.pos = k + 1
    <3>1. Decoded(player') = Len(heard) + 1  BY <1>2, <1>5, <2>1 DEF Decoded
    <3>2. SameLayout(SpecsOf[TrackAt(player'.iter)], player'.dev.specs)
      BY <2>1 DEF Posted
    <3> QED  BY <3>1, <3>2 DEF Matched
  <2>2. CASE k = FullBuffers[t] /\ player'.iter = Succ(player.iter) /\ player'.cur.pos = 0
    <3>1. player'.iter.at = i + 1 /\ player'.iter.list = pl
      <4>1. Succ(player.iter) = [player.iter EXCEPT !.at = @ + 1]  BY <1>2, SuccOnTrack
      <4> QED  BY <1>1, <1>2, <2>2, <4>1 DEF Iterator
    <3>2. Len(Before(pl, i + 1)) = Len(Before(pl, i)) + Total(t)
      <4>1. Before(pl, i + 1) = Before(pl, i) \o Buffers(t)  BY <1>1, <1>2, BeforeStep
      <4>2. Buffers(t) \in Seq(Buffer) /\ Len(Buffers(t)) = Total(t)  BY <1>1, BuffersOf
      <4> HIDE DEF t
      <4> QED  BY <1>2, <4>1, <4>2, ConcatProperties
    <3>3. Decoded(player') = Len(heard) + 1
      BY <1>2, <1>3, <1>5, <2>2, <3>1, <3>2 DEF Decoded
    <3>4. SameLayout(SpecsOf[TracksOf[pl][i]], player'.dev.specs)
      BY <1>1 DEF Posted
    <3>5. i + 1 > 1 /\ (i + 1) - 1 = i  BY <1>1
    <3> QED  BY <2>2, <3>1, <3>3, <3>4, <3>5 DEF Matched
  <2> QED  BY <2>1, <2>2 DEF Posted
<1>8. Continues(player', heard)
  <2>1. Len(heard) < Len(Program[pl])  BY <1>5, <1>6
  <2>2. player'.in_buf = <<>> /\ player'.posted = <<b>> /\ player'.writing = <<>>
    BY DEF Posted
  <2> HIDE DEF b
  <2> QED  BY <1>6, <1>7, <2>1, <2>2 DEF Continues, UnderWay
<1> QED  BY <1>5, <1>7, <1>8 DEF HInv, Posted

\* The buffer that came back is sent again.
LEMMA ResentHears ==
    ASSUME Inv, SInv, HInv, Resent(player, player'), player.state = "Playing",
           player'.playlist = player.playlist, heard' = heard
    PROVE  HInv'
<1> DEFINE c == Program[player.playlist][Len(heard) + 1]
<1>1. /\ heard \in Seq(Buffer) /\ StartsWith(Program[player.playlist], heard)
      /\ Continues(player, heard) /\ Matched(player)
  BY DEF HInv
<1>2. player.in_buf # <<>>
  <2>1. SUFFICES ASSUME player.in_buf = <<>> PROVE FALSE  OBVIOUS
  <2>2. Len(player.in_buf) = 1  BY DEF Resent, CameBack
  <2>3. Len(player.in_buf) = 0  BY <2>1
  <2> QED  BY <2>2, <2>3
<1>3. /\ Len(heard) + 1 = Decoded(player) /\ Len(heard) < Len(Program[player.playlist])
      /\ player.in_buf = <<c>>
  BY <1>1, <1>2 DEF Continues, UnderWay, Silent
<1>4. Head(player.in_buf) = c
  <2> HIDE DEF c
  <2> QED  BY <1>3
<1>5. /\ player'.posted = <<c>> /\ player'.in_buf = <<>> /\ player'.writing = <<>>
      /\ player'.iter = player.iter /\ player'.cur.pos = player.cur.pos
      /\ player'.dev = player.dev /\ player'.state = "Playing"
  <2> HIDE DEF c
  <2> QED  BY <1>4 DEF Resent
<1> HIDE DEF c
<1>6. Matched(player') /\ Decoded(player') = Decoded(player)
  BY <1>1, <1>5 DEF Matched, Decoded
<1>7. Continues(player', heard)  BY <1>3, <1>5, <1>6 DEF Continues, UnderWay, c
<1> QED  BY <1>1, <1>5, <1>6, <1>7 DEF HInv

LEMMA WriterHears ==
    ASSUME WellServed, NoneDropped, Inv, SInv, HInv, player.state = "Playing",
           WriteStep(player, player'), heard' = heard
    PROVE  HInv' /\ [Gapless!Next]_(Gapless!vars)
<1>1. player'.playlist = player.playlist  BY DEF WriteStep
<1>2. CASE Over(player, player')  BY <1>1, <1>2, OverFinishes
<1>3. CASE Prepared(player, player')
  <2>1. UNCHANGED Gapless!vars  BY <1>1, <1>3 DEF Prepared, Gapless!vars
  <2> QED  BY <1>1, <1>3, <2>1, PreparedHears
<1>4. CASE Posted(player, player')
  <2>1. UNCHANGED Gapless!vars  BY <1>1, <1>4 DEF Posted, Gapless!vars
  <2> QED  BY <1>1, <1>4, <2>1, PostedHears
<1>5. CASE Resent(player, player')
  <2>1. UNCHANGED Gapless!vars  BY <1>1, <1>5 DEF Resent, Gapless!vars
  <2> QED  BY <1>1, <1>5, <2>1, ResentHears
<1> QED  BY <1>2, <1>3, <1>4, <1>5 DEF WriteStep

LEMMA QueueHears ==
    ASSUME Inv, SInv, HInv
    PROVE  /\ PoolStep /\ heard' = heard => HInv' /\ UNCHANGED Gapless!vars
           /\ NotTaken /\ heard' = heard => HInv' /\ UNCHANGED Gapless!vars
           /\ Taken => HInv' /\ Gapless!Next
<1> DEFINE c == Program[player.playlist][Len(heard) + 1]
<1>1. ASSUME PoolStep, heard' = heard PROVE HInv' /\ UNCHANGED Gapless!vars
  <2>1. Starts(player, player')  BY <1>1, QueueServes
  <2>2. KeepsPlace(player, player')  BY <2>1 DEF Starts
  <2>3. /\ heard \in Seq(Buffer) /\ StartsWith(Program[player.playlist], heard)
        /\ Continues(player, heard) /\ Matched(player)
    BY <2>2 DEF HInv, KeepsPlace
  <2>4. Matched(player') /\ Decoded(player') = Decoded(player)
    BY <2>2, <2>3 DEF KeepsPlace, Matched, Decoded
  <2>5. PICK b \in Buffer : player.posted = <<b>> /\ player'.writing = <<b>>
    BY <2>1 DEF Starts
  <2>6. /\ Len(heard) + 1 = Decoded(player) /\ Len(heard) < Len(Program[player.playlist])
        /\ player.posted = <<c>>
    BY <2>3, <2>5 DEF Continues, UnderWay, Silent
  <2>7. player'.in_buf = <<>> /\ player'.posted = <<>> /\ player'.writing = <<c>>
    <3> HIDE DEF c
    <3> QED  BY <2>1, <2>5, <2>6 DEF Starts
  <2>8. Continues(player', heard)
    BY <2>2, <2>4, <2>6, <2>7 DEF Continues, UnderWay, KeepsPlace
  <2>9. HInv'  BY <1>1, <2>2, <2>3, <2>4, <2>8 DEF HInv, KeepsPlace
  <2> QED  BY <1>1, <2>2, <2>9 DEF KeepsPlace, Gapless!vars
<1>2. ASSUME KeepsPlace(player, player'), player.posted = <<>>,
             NEW b \in Buffer, player.writing = <<b>>
      PROVE  /\ heard \in Seq(Buffer) /\ StartsWith(Program[player.playlist], heard)
             /\ Matched(player') /\ Decoded(player') = Decoded(player)
             /\ Len(heard) + 1 = Decoded(player) /\ Len(heard) < Len(Program[player.playlist])
             /\ player.writing = <<c>> /\ c = b
  <2>1. /\ heard \in Seq(Buffer) /\ StartsWith(Program[player.playlist], heard)
        /\ Continues(player, heard) /\ Matched(player)
    BY <1>2 DEF HInv, KeepsPlace
  <2>2. Matched(player') /\ Decoded(player') = Decoded(player)
    BY <1>2, <2>1 DEF KeepsPlace, Matched, Decoded
  <2>3. /\ Len(heard) + 1 = Decoded(player) /\ Len(heard) < Len(Program[player.playlist])
        /\ player.writing = <<c>>
    BY <1>2, <2>1 DEF Continues, UnderWay, Silent
  <2> HIDE DEF c
  <2>4. c = b  BY <1>2, <2>3
  <2> QED  BY <2>1, <2>2, <2>3, <2>4
<1>3. ASSUME NotTaken, heard' = heard PROVE HInv' /\ UNCHANGED Gapless!vars
  <2>1. GivesBack(player, player')  BY <1>3, QueueServes DEF NotTaken
  <2>2. KeepsPlace(player, player') /\ player.posted = <<>>  BY <2>1 DEF GivesBack
  <2>3. PICK b \in Buffer :
           player.writing = <<b>> /\ CameBack(player') /\ player'.in_buf = <<b>>
    BY <2>1 DEF GivesBack
  <2>4. /\ heard \in Seq(Buffer) /\ StartsWith(Program[player.playlist], heard)
        /\ Matched(player') /\ Decoded(player') = Decoded(player)
        /\ Len(heard) + 1 = Decoded(player) /\ Len(heard) < Len(Program[player.playlist])
        /\ c = b
    BY <1>2, <2>2, <2>3
  <2>5. UnderWay(player', c)  BY <2>3, <2>4 DEF UnderWay, CameBack
  <2>6. Continues(player', heard)  BY <2>2, <2>4, <2>5 DEF Continues, KeepsPlace
  <2>7. HInv'  BY <1>3, <2>2, <2>4, <2>6 DEF HInv, KeepsPlace
  <2> QED  BY <1>3, <2>2, <2>7 DEF KeepsPlace, Gapless!vars
<1>4. ASSUME Taken PROVE HInv' /\ Gapless!Next
  <2>1. Takes(player, player') /\ heard' = Append(heard, Head(player.writing))
    BY <1>4, QueueServes DEF Taken
  <2>2. KeepsPlace(player, player') /\ Silent(player') /\ player.posted = <<>>
    BY <2>1 DEF Takes
  <2>3. PICK b \in Buffer : player.writing = <<b>>  BY <2>1 DEF Takes
  <2>4. /\ heard \in Seq(Buffer) /\ StartsWith(Program[player.playlist], heard)
        /\ Matched(player') /\ Decoded(player') = Decoded(player)
        /\ Len(heard) + 1 = Decoded(player) /\ Len(heard) < Len(Program[player.playlist])
        /\ c = b
    BY <1>2, <2>2, <2>3
  <2>5. heard' = Append(heard, c) /\ c \in Buffer
    <3> HIDE DEF c
    <3>1. Head(player.writing) = b  BY <2>3
    <3> QED  BY <2>1, <2>4, <3>1
  <2>6. /\ heard' \in Seq(Buffer) /\ Len(heard') = Len(heard) + 1 /\ Len(heard) \in Nat
        /\ \A k \in 1..Len(heard) : heard'[k] = heard[k]
        /\ heard'[Len(heard) + 1] = c
    <3> HIDE DEF c
    <3> QED  BY <2>4, <2>5, AppendProperties, LenProperties
  <2>7. StartsWith(Program[player.playlist], heard')
    <3>1. Len(Program[player.playlist]) \in Nat  BY <2>2, PlayingPlace DEF KeepsPlace
    <3>2. ASSUME NEW k \in 1..Len(heard')
          PROVE  k <= Len(Program[player.playlist]) /\ Program[player.playlist][k] = heard'[k]
      <4>1. CASE k = Len(heard) + 1  BY <2>4, <2>6, <3>1, <4>1
      <4>2. CASE k \in 1..Len(heard)  BY <2>4, <2>6, <4>2 DEF StartsWith
      <4> QED  BY <2>6, <4>1, <4>2
    <3> QED  BY <3>2 DEF StartsWith
  <2>8. Continues(player', heard')  BY <2>2, <2>4, <2>6 DEF Continues
  <2>9. HInv'  BY <2>2, <2>4, <2>6, <2>7, <2>8 DEF HInv, KeepsPlace
  <2>10. Gapless!Emit  BY <2>2, <2>4, <2>5 DEF Gapless!Emit, KeepsPlace
  <2> QED  BY <2>9, <2>10 DEF Gapless!Next
<1> QED  BY <1>1, <1>3, <1>4

LEMMA ListenerHears ==
    ASSUME WellServed, Inv, SInv, HInv
    PROVE  /\ ListenerPlays /\ heard' = (IF player'.state = "Playing" THEN <<>> ELSE heard)
                => HInv' /\ [Gapless!Next]_(Gapless!vars)
           /\ ListenerChooses /\ heard' = heard => HInv' /\ Gapless!Next
           /\ EnterPlaylist /\ heard' = heard => HInv' /\ UNCHANGED Gapless!vars
<1>1. ASSUME ListenerPlays, heard' = IF player'.state = "Playing" THEN <<>> ELSE heard
      PROVE  HInv' /\ [Gapless!Next]_(Gapless!vars)
  <2> DEFINE pl == player.playlist
  <2>1. SInv' /\ Plays(player, player') /\ sig = "idle" /\ sig' = "idle"
    BY <1>1, CommandServes
  <2>2. player'.playlist = pl /\ player.state = "Stopped" /\ pl # NoPlaylist
    BY <2>1 DEF Plays
  <2>3. player.iter \in {Begin(pl), End(pl)}  BY <2>1, <2>2 DEF HInv
  <2>4. CASE player'.state = "Stopped"
    <3>1. heard' = heard /\ player'.iter = End(player'.playlist)  BY <1>1, <2>1, <2>4 DEF Plays
    <3>2. HInv'  BY <2>4, <3>1 DEF HInv
    <3>3. UNCHANGED Gapless!vars  BY <2>2, <2>4, <3>1 DEF Gapless!vars
    <3> QED  BY <3>2, <3>3
  <2>5. CASE player'.state = "Playing"
    <3>1. heard' = <<>>  BY <1>1, <2>5
    <3>2. heard' \in Seq(Buffer) /\ Len(heard') = 0  BY <3>1, EmptySeq
    <3>3. /\ player'.iter = StartsAt(player) /\ player'.cur.pos = 0 /\ Silent(player')
          /\ player'.dev.specs = Settled[SpecsOf[TrackAt(player'.iter)]]
      BY <2>1, <2>5 DEF Plays
    <3>4. player'.iter.at = 1  BY <2>3, <3>3 DEF StartsAt, Begin
    <3>5. Matched(player')  BY <3>3 DEF Matched
    <3>6. Decoded(player') = 0
      <4>1. Before(player'.playlist, 1) = <<>>  BY DEF Before
      <4> QED  BY <3>3, <3>4, <4>1, EmptySeq DEF Decoded
    <3>7. StartsWith(Program[player'.playlist], heard')  BY <3>2 DEF StartsWith
    <3>8. Continues(player', heard')  BY <3>2, <3>3, <3>6 DEF Continues
    <3>9. HInv'  BY <2>5, <3>2, <3>5, <3>7, <3>8 DEF HInv
    <3>10. Gapless!Start  BY <2>2, <2>5, <3>1 DEF Gapless!Start
    <3> QED  BY <3>9, <3>10 DEF Gapless!Next
  <2>6. player'.state \in {"Stopped", "Playing"}  BY <2>1 DEF SInv, Serving
  <2> QED  BY <2>4, <2>5, <2>6
<1>2. ASSUME ListenerChooses, heard' = heard PROVE HInv' /\ Gapless!Next
  <2>1. Chooses(player, player') /\ sig' = "assigned"  BY <1>2, ChooseServes
  <2>2. HInv'  BY <1>2, <2>1 DEF HInv, Chooses
  <2>3. Gapless!Choose  BY <1>2, <2>1 DEF Gapless!Choose, Chooses
  <2> QED  BY <2>2, <2>3 DEF Gapless!Next
<1>3. ASSUME EnterPlaylist, heard' = heard PROVE HInv' /\ UNCHANGED Gapless!vars
  <2>1. Enters(player, player')  BY <1>3, ChooseServes
  <2>2. HInv'  BY <1>3, <2>1 DEF HInv, Enters
  <2>3. UNCHANGED Gapless!vars  BY <1>3, <2>1 DEF Enters, Gapless!vars
  <2> QED  BY <2>2, <2>3
<1> QED  BY <1>1, <1>2, <1>3

LEMMA HInvNext ==
    ASSUME WellServed, NoneDropped
    PROVE  Inv /\ SInv /\ HInv /\ [ListenNext]_sessionVars =>
              (HInv' \/ Ended') /\ [Gapless!Next]_(Gapless!vars)
<1> SUFFICES ASSUME Inv, SInv, HInv, [ListenNext]_sessionVars
             PROVE  (HInv' \/ Ended') /\ [Gapless!Next]_(Gapless!vars)
  OBVIOUS
<1>1. CASE ListenerChooses /\ UNCHANGED heard  BY <1>1, ListenerHears
<1>2. CASE ListenerPlays /\ heard' = IF player'.state = "Playing" THEN <<>> ELSE heard
  BY <1>2, ListenerHears
<1>3. ASSUME NEW t \in Threads, WriteHandler(t), UNCHANGED heard
      PROVE  (HInv' \/ Ended') /\ [Gapless!Next]_(Gapless!vars)
  <2>1. Enter(t)
    BY <1>3
       DEF WriteHandler, WriteIgnored, WriteFailed, WriteAtEnd, WriteQueued, WriteDecoded
  <2>2. player.state = "Playing"  BY <2>1, CallIsLink
  <2>3. CASE WriteStep(player, player')  BY <1>3, <2>2, <2>3, WriterHears
  <2>4. CASE Ended' /\ AtEdge
    <3>1. UNCHANGED Gapless!vars  BY <1>3, <2>4 DEF AtEdge, Gapless!vars
    <3> QED  BY <2>4, <3>1
  <2> QED  BY <1>3, <2>3, <2>4, WriteHandlerServes
<1>4. CASE (WriteHandler("gui") \/ WriteHandler("audio")) /\ UNCHANGED heard
  BY <1>3, <1>4 DEF Threads
<1>5. CASE HandleError  BY <1>5, QueueServes
<1>6. CASE PoolStep /\ UNCHANGED heard  BY <1>6, QueueHears
<1>7. CASE EnterPlaylist /\ UNCHANGED heard  BY <1>7, ListenerHears
<1>8. CASE Taken  BY <1>8, QueueHears
<1>9. CASE NotTaken /\ UNCHANGED heard  BY <1>9, QueueHears
<1>10. CASE UNCHANGED sessionVars
  <2>1. player' = player /\ heard' = heard /\ sig' = sig  BY <1>10 DEF sessionVars
  <2>2. UNCHANGED Gapless!vars  BY <2>1 DEF Gapless!vars
  <2>3. HInv'  BY <2>1 DEF HInv, Matched, Continues, UnderWay, Decoded, Silent
  <2> QED  BY <2>2, <2>3
<1> QED
  BY <1>1, <1>2, <1>4, <1>5, <1>6, <1>7, <1>8, <1>9, <1>10 DEF ListenNext, Working

LEMMA ListenEnded ==
    Ended /\ [ListenNext]_sessionVars => Ended' /\ [Gapless!Next]_(Gapless!vars)
<1> SUFFICES ASSUME Ended, [ListenNext]_sessionVars
             PROVE  Ended' /\ [Gapless!Next]_(Gapless!vars)
  OBVIOUS
<1>1. [SkipNext]_sessionVars  BY DEF SkipNext
<1>2. Ended' /\ UNCHANGED sessionVars  BY <1>1, EndedNext
<1> QED  BY <1>2 DEF sessionVars, Gapless!vars

LEMMA HInvInit == SessionInit => HInv /\ Gapless!Init
<1> SUFFICES ASSUME SessionInit PROVE HInv /\ Gapless!Init  OBVIOUS
<1>1. player.state = "Stopped" /\ player.playlist = NoPlaylist /\ heard = <<>>
  BY DEF SessionInit, Init
<1>2. heard \in Seq(Buffer)  BY <1>1, EmptySeq
<1> QED  BY <1>1, <1>2 DEF HInv, Gapless!Init

\* What a listener has heard is the beginning of the program, and the buffer under
\* way, which may be one the device gave back, is the one that comes next; or the
\* program has ended.
THEOREM HInvHolds ==
    ASSUME WellServed, NoneDropped
    PROVE  ListenSpec => []((SInv /\ HInv) \/ Ended)
<1>1. ListenSpec => [](Inv /\ (SInv \/ Ended))
  BY ListenIsSkip, SessionIsPlayer, InvHolds, SInvHolds, PTL
<1>2. SessionInit => SInv /\ HInv  BY SInvInit, HInvInit
<1>3. /\ Inv /\ (SInv \/ Ended) /\ (SInv \/ Ended)' /\ ((SInv /\ HInv) \/ Ended)
      /\ [ListenNext]_sessionVars
      => ((SInv /\ HInv) \/ Ended)'
  BY HInvNext, ListenEnded
<1> QED  BY <1>1, <1>2, <1>3, PTL DEF ListenSpec

\* A listener hears every track of the playlist in order, without gaps or repeats, and
\* playback then stops: the player implements GaplessPlayback.  An underrun delays a
\* buffer and drops none; one that takes the last buffer ends the program
\* (HaltsAtEdgesOnly), and nothing more is heard.
THEOREM ListenerHearsAll ==
    ASSUME WellServed, NoneDropped
    PROVE  ListenSpec => HearsWholePlaylist
<1>1. ListenSpec => []Inv  BY ListenIsSkip, SessionIsPlayer, InvHolds, PTL
<1>2. ListenSpec => []((SInv /\ HInv) \/ Ended)  BY HInvHolds
<1>3. Inv /\ ((SInv /\ HInv) \/ Ended) /\ [ListenNext]_sessionVars
      => [Gapless!Next]_(Gapless!vars)
  BY HInvNext, ListenEnded
<1> QED
  BY <1>1, <1>2, <1>3, HInvInit, PTL DEF ListenSpec, HearsWholePlaylist, Gapless!Spec

=============================================================================
