------------------------------- MODULE Decoding -------------------------------
(***************************************************************************)
(* A track from its file to the player: Decoder::Manager                   *)
(* (melin/decoder.cpp) lists it with its length, the library may keep it   *)
(* as a document (core/track.cpp), and the player opens it with the first  *)
(* plugin that knows its type; the FLAC and WavPack plugins decode what    *)
(* the player asks for.  The libraries are external: TagLib tells tags and *)
(* whole seconds, libFLAC decodes block by block and hands over whole      *)
(* blocks, WavPack as many samples as it is asked for.  A sample is its    *)
(* place in the track, and a length counts samples; the player asks for a  *)
(* fixed number each time and seeks between two calls.                     *)
(***************************************************************************)
EXTENDS Integers, SequencesExt

CONSTANTS
    Files,      \* [kind, channels, block, total, data, bad, ask]
    Second,     \* samples in a second
    MaxSeeks    \* bound on the seeks

\* "total" is what the header says and "data" what the file holds; the block
\* that holds sample "bad" is corrupt (-1: none); "ask" is what the player's
\* buffer time comes to.
\* "other" is a type TagLib knows and no plugin does, "text" and "cue" are the
\* files that are not listed: unknown to TagLib, or with a CUEFILE tag.
ASSUME DecodingAssumption ==
    /\ \A f \in Files :
          /\ f.kind \in {"flac", "wavpack", "other", "text", "cue"}
          /\ f.channels \in Nat \ {0} /\ f.block \in Nat \ {0} /\ f.ask \in Nat \ {0}
          /\ f.total \in Nat /\ f.data \in 0..f.total /\ f.bad \in -1..f.total - 1
    /\ Second \in Nat \ {0} /\ MaxSeeks \in Nat

VARIABLES
    file,
    gone,       \* the file has been removed
    providers,  \* kinds whose plugin has been loaded
    entry,      \* the track as listed: [length, from, specs], or NoEntry
    lib,        \* libFLAC: "sync", "end", "lost" (a seek failed half-way)
    at,         \* the next sample the library decodes
    buf,        \* FlacDecoder::buf, decoded and not delivered
    pc,         \* what the player has come to
    heard,      \* history: the samples delivered, in order
    targets,    \* history: where seeks have gone
    seeks

vars == <<file, gone, providers, entry, lib, at, buf, pc, heard, targets, seeks>>
-----------------------------------------------------------------------------
Smaller(a, b) == IF a < b THEN a ELSE b

\* The end of the block that sample s is in.
BlockEnd(s) == Smaller((s \div file.block + 1) * file.block, file.data)
Samples(a, b) == [i \in 1..b - a |-> a + i - 1]
Corrupt(a, b) == file.bad \in a..b - 1

NoEntry == [length |-> 0, from |-> "nowhere", specs |-> "none"]

Init ==
    /\ file \in Files /\ gone = FALSE
    /\ providers = {} /\ entry = NoEntry
    /\ lib = "sync" /\ at = 0 /\ buf = <<>>
    /\ pc = "closed" /\ heard = <<>>
    /\ targets = {} /\ seeks = 0

AddProvider(kind) ==
    /\ pc = "closed" /\ kind \notin providers
    /\ providers' = providers \cup {kind}
    /\ UNCHANGED <<file, gone, entry, lib, at, buf, pc, heard, targets, seeks>>

\* The FLAC decoder decodes one block and goes back to the first; WavPack's
\* specifications are those of a block's header.
MakesFlac == file.kind = "flac" /\ file.data > 0 /\ ~Corrupt(0, BlockEnd(0))
MakesWavpack == file.kind = "wavpack" /\ file.data > 0

\* Input::Manager gives a stream even of a file that is gone, in its failed
\* state; its type is then guessed from a buffer nothing was read into.
Readable == ~gone
Detected == IF Readable THEN {file.kind} ELSE {"flac", "wavpack", "other"}
Supported == {"flac", "wavpack"} \cap providers

\* The one plugin that is asked must make a decoder, which it cannot of a
\* failed stream.
Opens == Detected \cap Supported # {} /\ Readable /\ (MakesFlac \/ MakesWavpack)
Duration == file.total

\* TagLib's length is a whole number of seconds.
TaglibLength == (file.total \div Second) * Second

\* A faulty Listed: TagLib's length is written last.
Listed_in_seconds ==
    IF Opens THEN [length |-> TaglibLength, from |-> "decoder", specs |-> "decoder"]
    ELSE [length |-> TaglibLength, from |-> "taglib", specs |-> "taglib"]

\* The length is the decoder's if the track can be opened now.
Listed ==
    IF Opens THEN [length |-> Duration, from |-> "decoder", specs |-> "decoder"]
    ELSE [length |-> TaglibLength, from |-> "taglib", specs |-> "taglib"]

List ==
    /\ pc = "closed" /\ entry = NoEntry
    /\ Readable /\ file.kind \notin {"text", "cue"}
    /\ entry' = Listed
    /\ UNCHANGED <<file, gone, providers, lib, at, buf, pc, heard, targets, seeks>>

\* The library's document keeps where the track is, its start and its end; the
\* constructor does not read the specifications back.
FromDocument(e) == [e EXCEPT !.specs = "none"]

Restore ==
    /\ pc = "closed" /\ entry # NoEntry
    /\ entry' = FromDocument(entry)
    /\ UNCHANGED <<file, gone, providers, lib, at, buf, pc, heard, targets, seeks>>

LoseFile ==
    /\ pc = "closed" /\ entry # NoEntry
    /\ gone' = TRUE
    /\ UNCHANGED <<file, providers, entry, lib, at, buf, pc, heard, targets, seeks>>

\* Only what has been listed is played.
Open ==
    /\ pc = "closed" /\ entry # NoEntry
    /\ pc' = IF Opens THEN "idle" ELSE "refused"
    /\ UNCHANGED <<file, gone, providers, entry, lib, at, buf, heard, targets, seeks>>
-----------------------------------------------------------------------------
\* FlacDecoder::valid with state l and buffer b, wavpack_decoder::valid.
Valid(l, b) == file.kind = "wavpack" \/ ~(l = "end" /\ b = <<>>)

\* A faulty Outcome: the error is not looked at.
Outcome_ignores_eof(n, eof, valid) ==
    IF n = 0 /\ ~eof THEN "overrun"
    ELSE IF n < file.ask /\ ~valid THEN "next" ELSE "idle"

\* What n samples, and the error if there is one, are to the player: it goes
\* on to the next track, stops at the end, or goes on asking.  Nothing and no
\* error is FlacDecoder::decode's -1.
Outcome(n, eof, valid) ==
    IF n = 0 /\ ~eof THEN "overrun"
    ELSE IF n < file.ask /\ ~valid THEN "next"
    ELSE IF eof THEN "eof" ELSE "idle"

AskFlac ==
    /\ pc = "idle" /\ file.kind = "flac"
    /\ pc' = "asked"
    /\ UNCHANGED <<file, gone, providers, entry, lib, at, buf, heard, targets, seeks>>

More == Len(buf) < file.ask /\ lib # "end"

\* process_single() adds a block to buf.
ProcessBlock ==
    /\ pc = "asked" /\ More
    /\ lib = "sync" /\ at < file.data
    /\ IF Corrupt(at, BlockEnd(at))
       THEN pc' = "caught" /\ UNCHANGED <<at, buf>>
       ELSE at' = BlockEnd(at) /\ buf' = buf \o Samples(at, BlockEnd(at)) /\ UNCHANGED pc
    /\ UNCHANGED <<file, gone, providers, entry, lib, heard, targets, seeks>>

\* A faulty ProcessEnd: what is in buf is given up at the end of the stream.
ProcessEnd_drops_rest ==
    /\ pc = "asked" /\ More
    /\ lib = "lost" \/ at >= file.data
    /\ lib' = IF lib = "lost" THEN lib ELSE "end"
    /\ buf' = <<>>
    /\ pc' = Outcome(0, TRUE, Valid(lib', buf'))
    /\ UNCHANGED <<file, gone, providers, entry, at, heard, targets, seeks>>

\* It finds the end, or is lost: eof unless something is left to deliver.
ProcessEnd ==
    /\ pc = "asked" /\ More
    /\ lib = "lost" \/ at >= file.data
    /\ lib' = IF lib = "lost" THEN lib ELSE "end"
    /\ pc' = IF buf = <<>> THEN Outcome(0, TRUE, Valid(lib', buf)) ELSE "leaves"
    /\ UNCHANGED <<file, gone, providers, entry, at, buf, heard, targets, seeks>>

\* A faulty Deliver: it copies without erasing.
Deliver_keeps ==
    /\ pc = "leaves" \/ (pc = "asked" /\ ~More)
    /\ LET n == Smaller(file.ask, Len(buf))
       IN /\ heard' = heard \o SubSeq(buf, 1, n)
          /\ buf' = SubSeq(buf, n, Len(buf))
          /\ pc' = Outcome(n, FALSE, Valid(lib, buf'))
    /\ UNCHANGED <<file, gone, providers, entry, lib, at, targets, seeks>>

Deliver ==
    /\ pc = "leaves" \/ (pc = "asked" /\ ~More)
    /\ LET n == Smaller(file.ask, Len(buf))
       IN /\ heard' = heard \o SubSeq(buf, 1, n)
          /\ buf' = SubSeq(buf, n + 1, Len(buf))
          /\ pc' = Outcome(n, FALSE, Valid(lib, buf'))
    /\ UNCHANGED <<file, gone, providers, entry, lib, at, targets, seeks>>

\* The player asks in bytes; WavPack counts a sample once for all channels.
\* It plays what is corrupt as silence; the error counts only at the end.
DecodeWavpack ==
    /\ pc = "idle" /\ file.kind = "wavpack"
    /\ LET n == Smaller(file.ask \div file.channels, IF at < file.data THEN file.data - at ELSE 0)
           eof == n * file.channels # file.ask
       IN IF eof /\ (Corrupt(at, at + n) \/ file.bad \in ToSet(heard))
          THEN pc' = "caught" /\ UNCHANGED <<at, heard>>
          ELSE /\ at' = at + n /\ heard' = heard \o Samples(at, at + n)
               /\ pc' = Outcome(n, eof, Valid(lib, buf))
    /\ UNCHANGED <<file, gone, providers, entry, lib, buf, targets, seeks>>
-----------------------------------------------------------------------------
\* FlacDecoder::seek leaves buf alone, and seek_absolute() hands over the rest
\* of the block the sample is in.
SeekFlac(s) ==
    /\ file.kind = "flac"
    /\ IF lib = "lost" \/ s >= file.total THEN UNCHANGED <<lib, at, buf, targets>>
       ELSE IF s >= file.data THEN lib' = "lost" /\ UNCHANGED <<at, buf, targets>>
       ELSE /\ lib' = "sync" /\ at' = BlockEnd(s)
            /\ buf' = buf \o Samples(s, BlockEnd(s))
            /\ targets' = targets \cup {s}

SeekWavpack(s) ==
    /\ file.kind = "wavpack"
    /\ IF s >= file.total THEN UNCHANGED <<at, targets>>
       ELSE at' = s /\ targets' = targets \cup {s}
    /\ UNCHANGED <<lib, buf>>

Seek ==
    /\ pc = "idle" /\ seeks < MaxSeeks
    /\ \E s \in 0..file.total : SeekFlac(s) \/ SeekWavpack(s)
    /\ seeks' = seeks + 1
    /\ UNCHANGED <<file, gone, providers, entry, pc, heard>>

Decode == AskFlac \/ ProcessBlock \/ ProcessEnd \/ Deliver \/ DecodeWavpack

Next ==
    \/ \E k \in {"flac", "wavpack"} : AddProvider(k)
    \/ List \/ Restore \/ LoseFile
    \/ Open \/ Decode \/ Seek

\* The player goes on asking while the source has more.
Spec == Init /\ [][Next]_vars /\ WF_vars(Open) /\ WF_vars(Decode)
-----------------------------------------------------------------------------
Ended == {"next", "eof", "caught", "refused"}

\* The types; the player's next sample is the one after the last or one that
\* was sought, whatever sizes blocks and requests have: none is lost, none is
\* heard twice.
NoGaps ==
    /\ lib \in {"sync", "end", "lost"} /\ at \in 0..file.total
    /\ \A i \in DOMAIN heard :
          \/ heard[i] \in targets
          \/ heard[i] = IF i = 1 THEN 0 ELSE heard[i - 1] + 1

\* When the player leaves a track for the next, or finds its end, it has had
\* the last sample there is, unless nothing after a failed seek can be decoded
\* or what it asks for does not divide by the channels; and it is never told
\* that a finished track has given it samples (decode()'s -1).
EndIsTheEnd ==
    /\ pc # "overrun"
    /\ pc \in {"next", "eof"} =>
          \/ heard # <<>> /\ Last(heard) = file.data - 1
          \/ lib = "lost"
          \/ file.kind = "wavpack" /\ (file.data = 0 \/ file.ask % file.channels # 0
                                          \/ \E s \in targets : s >= file.data)

\* A track that was listed with its decoder's length opens as long as the file
\* is there, however long ago that was, and a listener who lets it play hears
\* that length; a track listed before its plugin was loaded keeps TagLib's.
ListedLengthPlays ==
    entry # NoEntry /\ entry.from = "decoder" =>
        /\ pc = "refused" => gone
        /\ pc \in {"next", "eof"} /\ targets = {} /\ file.data = file.total =>
              \/ Len(heard) = entry.length
              \/ lib = "lost" \/ (file.kind = "wavpack" /\ file.ask % file.channels # 0)

\* A source that is asked again and again comes to its end.
ReadingEnds == entry # NoEntry ~> pc \in Ended
=============================================================================
