----------------------------- MODULE PlayerSession -----------------------------
(***************************************************************************)
(* The player with the users it serves well.  A listener chooses a         *)
(* playlist while nothing plays, presses play when the player is Stopped   *)
(* and waits for the end; an impatient one also skips with next, previous  *)
(* and seek.  Neither pauses, stops or jumps, whose effects on playback    *)
(* the runs of Player examine.  heard records what the device took since   *)
(* playback began; an empty playlist does not begin.                       *)
(***************************************************************************)
EXTENDS Player, SequencesExt

VARIABLE heard

sessionVars == <<player, call, sig, sinkSlot, commands, heard>>

SessionInit == Init /\ heard = <<>>

ListenerChooses == player.state = "Stopped" /\ call["gui"] = "none" /\ ChangePlaylist

ListenerPlays ==
    /\ player.state = "Stopped" /\ player.playlist # NoPlaylist /\ sig = "idle"
    /\ Play

Skip == sig = "idle" /\ (NextTrack \/ PreviousTrack \/ Seek)

\* The device runs out of data and takes nothing this time.
NotTaken == DeviceUnderrun

Taken == DeviceWrite /\ heard' = Append(heard, Head(player.writing))

Working ==
    \/ WriteHandler("gui")
    \/ WriteHandler("audio")
    \/ NotTaken
    \/ HandleError
    \/ PoolStep
    \/ EnterPlaylist

ListenNext ==
    \/ (ListenerChooses /\ UNCHANGED heard)
    \/ (ListenerPlays /\ heard' = IF player'.state = "Playing" THEN <<>> ELSE heard)
    \/ (Working /\ UNCHANGED heard)
    \/ Taken

SkipNext == ListenNext \/ (Skip /\ UNCHANGED heard)

\* Weak fairness of WriteHandler(t), which is enabled exactly when Enter(t) holds,
\* written out: a call of write_handler is not left pending for ever.
Serves(t) == []<>~Enter(t) \/ []<><<WriteHandler(t)>>_sessionVars

\* The threads run: each io_service and pool thread gets to a handler that
\* stays ready, and play() returns.  The device goes on taking data: it may run out
\* of it, but not every time it is given some (strong fairness).
Fairness ==
    /\ Serves("gui") /\ Serves("audio")
    /\ WF_sessionVars(HandleError /\ UNCHANGED heard)
    /\ WF_sessionVars(PoolStep /\ UNCHANGED heard)
    /\ WF_sessionVars(EnterPlaylist /\ UNCHANGED heard)
    /\ SF_sessionVars(Taken)

ListenSpec == SessionInit /\ [][ListenNext]_sessionVars /\ Fairness
SkipSpec == SessionInit /\ [][SkipNext]_sessionVars /\ Fairness

-----------------------------------------------------------------------------
Total(t) == FullBuffers[t] + (IF HasRest[t] THEN 1 ELSE 0)
Buffers(t) == [i \in 1..Total(t) |-> [track |-> t, idx |-> i - 1]]

Program == [pl \in Playlists |->
              FlattenSeq([i \in 1..Length(pl) |-> Buffers(TracksOf[pl][i])])]

Gapless == INSTANCE GaplessPlayback
              WITH list <- player.playlist, playing <- (player.state = "Playing")

\* A listener hears every track of the playlist in order, without gaps or
\* repeats, and playback then stops: the write chain, the pre-loading of the
\* next source and the re-preparation of the device between tracks of
\* different rates implement GaplessPlayback.
HearsWholePlaylist == Gapless!Spec

\* ... and it does end: no wait of one thread for another, and no loop of
\* re-preparations, keeps the player Playing for ever.
HearingEnds == Gapless!Ends

\* Skipping never starts a second chain of writes: one buffer or one call of
\* write_handler is under way at a time, and what an underrun left in in_buf waits
\* for the call that will send it.
OneChain ==
    /\ Len(player.posted) + Len(player.writing) + Len(player.done)
         + (IF call["gui"] = "none" THEN 0 ELSE 1)
         + (IF call["audio"] = "none" THEN 0 ELSE 1) <= 1
    /\ player.halt = "none" /\ player.in_buf # <<>> =>
          Len(player.in_buf) = 1 /\ call["audio"] # "none"

\* A seek, or the reset of a FLAC source, has left a whole number of buffers of the
\* open track, and they are played.
PlayedToTheEdge ==
    player.cur # NoSource /\ ~player.cur.rest /\ player.cur.pos = FullBuffers[player.cur.track]

\* The device ran out of data while it took the last buffer of the playlist.
LastCameBack == player.in_buf # <<>> /\ player.iter = End(player.playlist)

\* However next, previous and seek interleave with the end of a track and with
\* underruns, nothing null is dereferenced, mu is not locked twice, and of the
\* asserts two fail, for one reason each: assert(!in_buf.empty()) in write_handler
\* when a decode from such a place returns nothing, and assert(in_buf.empty()) in
\* read_handler when the end of the playlist finds the buffer that came back.
HaltsAtEdgesOnly ==
    [][ player'.halt # player.halt =>
          \/ player'.halt = "buffered" /\ PlayedToTheEdge
          \/ player'.halt = "drained" /\ LastCameBack ]_sessionVars

\* Once the commands are over, playback reaches the end of the playlist, unless
\* the program ends there (HaltsAtEdgesOnly).
PlaybackEnds == player.state = "Playing" ~> player.state = "Stopped" \/ player.halt # "none"

-----------------------------------------------------------------------------
(* What the theorems about sessions assume of the files and the device; the *)
(* instances of PlayerSession satisfy both.  Player's theorems need neither. *)

\* No call fails, though the device may run out of data; every track is FLAC and
\* opens and ends with a shorter buffer; and a device that plays the rate of a track
\* has the bits for it.
WellServed ==
    /\ Failures \subseteq {"underrun"} /\ Broken = {}
    /\ \A t \in Tracks : Codec[t] = "flac" /\ HasRest[t]
    /\ \A t, u \in Tracks :
          SpecsOf[t].rate = Settled[SpecsOf[u]].rate =>
              SpecsOf[t].bps <= Settled[SpecsOf[u]].bps

\* For HearsWholePlaylist also: a track shorter than a buffer is not one for which
\* the device is prepared again, because the buffer decoded first is thrown away.
NoneDropped ==
    /\ \A t \in Tracks : FullBuffers[t] = 0 => SameLayout(SpecsOf[t], Settled[SpecsOf[t]])
    /\ \A pl \in Playlists : \A i \in 2..Length(pl) :
          FullBuffers[TracksOf[pl][i]] = 0 =>
             SameLayout(SpecsOf[TracksOf[pl][i]], SpecsOf[TracksOf[pl][i - 1]])
=============================================================================
