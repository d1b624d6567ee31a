---------------------------- MODULE DecodingProofs ----------------------------
(***************************************************************************)
(* What the player gets of a track, for files of any length cut into       *)
(* blocks of any size and asked for by any number of samples, with any     *)
(* number of seeks: no sample is lost or heard twice, an end that is       *)
(* announced is the end of the data, and a track listed with its decoder's *)
(* length opens and has that length.                                       *)
(***************************************************************************)
EXTENDS Decoding, SequenceTheorems, TLAPS

-----------------------------------------------------------------------------
(* The inductive invariant *)

TypeOK ==
    /\ file \in Files /\ gone \in BOOLEAN /\ providers \subseteq {"flac", "wavpack"}
    /\ entry \in [length : Nat, from : {"nowhere", "decoder", "taglib"},
                  specs : {"none", "decoder", "taglib"}]
    /\ lib \in {"sync", "end", "lost"}
    /\ at \in Nat /\ at <= file.total
    /\ buf \in Seq(Nat) /\ heard \in Seq(Nat) /\ targets \subseteq Nat /\ seeks \in Nat
    /\ pc \in {"closed", "idle", "asked", "leaves", "next", "eof", "caught", "refused"}

\* What has been decoded, whether the player has it yet or not.
Stream == heard \o buf

Chained(q, ts) ==
    \A i \in 1..Len(q) : q[i] \in ts \/ q[i] = IF i = 1 THEN 0 ELSE q[i - 1] + 1
Straight(q) == \A i \in 1..Len(q) : q[i] = i - 1
Reaches(q, x) == IF q = <<>> THEN x = 0 ELSE q[Len(q)] = x - 1

\* The library stands where the stream stops; WavPack's also where a seek has
\* put it, which may be past the data.
InPlace ==
    /\ Chained(Stream, targets)
    /\ targets = {} => Straight(Stream)
    /\ Reaches(Stream, at) \/ (file.kind # "flac" /\ at \in targets)
    /\ at <= file.data \/ (file.kind # "flac" /\ at \in targets)
    /\ file.kind # "flac" => buf = <<>> /\ lib = "sync"

\* libFLAC has found the end when the last block is in the buffer, and then
\* one more delivery, shorter than what is asked for, ends the track.
AtTheEnd ==
    /\ lib = "end" => at = file.data /\ pc \in {"leaves", "next", "eof"}
    /\ pc = "leaves" => lib \in {"end", "lost"} /\ buf # <<>> /\ Len(buf) < file.ask
    /\ pc \in {"asked", "leaves"} => file.kind = "flac"
    /\ pc \notin {"closed", "refused"} => file.data > 0 /\ file.kind \in {"flac", "wavpack"}

\* What could be opened when it was listed still can, while the file is there.
StillOpens ==
    /\ entry.from = "decoder" =>
          entry.length = file.total /\ file.kind \in Supported /\ (MakesFlac \/ MakesWavpack)
    /\ pc = "refused" => ~Opens

IInv == TypeOK /\ InPlace /\ AtTheEnd /\ StillOpens /\ EndIsTheEnd
-----------------------------------------------------------------------------
(* Files, blocks and samples *)

LEMMA DivFacts ==
    ASSUME NEW s \in Nat, NEW b \in Nat \ {0}
    PROVE  /\ s \div b \in Nat
           /\ (s \div b + 1) * b \in Nat /\ (s \div b + 1) * b > s
           /\ s % b = 0 => (s \div b) * b = s
OBVIOUS

LEMMA FileFacts ==
    ASSUME TypeOK
    PROVE  /\ file.kind \in {"flac", "wavpack", "other", "text", "cue"}
           /\ file.channels \in Nat \ {0} /\ file.block \in Nat \ {0} /\ file.ask \in Nat \ {0}
           /\ file.total \in Nat /\ file.data \in Nat /\ file.data <= file.total
BY DecodingAssumption DEF TypeOK

\* A block ends after each sample of the data it holds, and in the data.
LEMMA BlockEndAfter ==
    ASSUME TypeOK, NEW s \in Nat, s < file.data
    PROVE  BlockEnd(s) \in Nat /\ s < BlockEnd(s) /\ BlockEnd(s) <= file.data
<1>1. file.block \in Nat \ {0} /\ file.data \in Nat  BY FileFacts
<1>2. (s \div file.block + 1) * file.block \in Nat /\ (s \div file.block + 1) * file.block > s
  BY <1>1, DivFacts
<1> QED  BY <1>1, <1>2 DEF BlockEnd, Smaller

LEMMA SamplesAre ==
    ASSUME NEW a \in Nat, NEW b \in Nat, a <= b
    PROVE  /\ Samples(a, b) \in Seq(Nat) /\ Len(Samples(a, b)) = b - a
           /\ \A i \in 1..(b - a) : Samples(a, b)[i] = a + i - 1
<1>1. b - a \in Nat  OBVIOUS
<1>2. Samples(a, b) \in [1..(b - a) -> Nat]  BY DEF Samples
<1>3. Samples(a, b) \in Seq(Nat)  BY <1>1, <1>2, SeqDef
<1>4. Len(Samples(a, b)) = b - a  BY <1>1, <1>2, <1>3, LenProperties
<1> QED  BY <1>3, <1>4 DEF Samples

\* The stream goes on with samples that start where it stopped, or at a target.
LEMMA StreamGrows ==
    ASSUME NEW q \in Seq(Nat), NEW ts, NEW us, Chained(q, ts), ts \subseteq us,
           NEW a \in Nat, NEW b \in Nat, a < b,
           a \in us \/ Reaches(q, a),
           us = {} => Straight(q) /\ Reaches(q, a),
           NEW r, r = q \o Samples(a, b)
    PROVE  /\ r \in Seq(Nat) /\ r # <<>> /\ Chained(r, us) /\ Reaches(r, b)
           /\ us = {} => Straight(r)
<1> DEFINE x == Samples(a, b)
<1>1. x \in Seq(Nat) /\ Len(x) = b - a /\ \A i \in 1..(b - a) : x[i] = a + i - 1
  BY SamplesAre
<1>2. Len(q) \in Nat /\ (q # <<>> => Len(q) >= 1) /\ (q = <<>> => Len(q) = 0)
  BY LenProperties, EmptySeq
<1> HIDE DEF x
<1>3. /\ r \in Seq(Nat) /\ Len(r) = Len(q) + (b - a)
      /\ \A i \in 1..(Len(q) + (b - a)) : r[i] = IF i <= Len(q) THEN q[i] ELSE x[i - Len(q)]
  <2>1. r = q \o x  BY DEF x
  <2>2. /\ r \in Seq(Nat) /\ Len(r) = Len(q) + Len(x)
        /\ \A i \in 1..(Len(q) + Len(x)) : r[i] = IF i <= Len(q) THEN q[i] ELSE x[i - Len(q)]
    <3>1. x \in Seq(Nat)  BY <1>1
    <3>2. /\ q \o x \in Seq(Nat) /\ Len(q \o x) = Len(q) + Len(x)
          /\ \A i \in 1..(Len(q) + Len(x)) :
                (q \o x)[i] = IF i <= Len(q) THEN q[i] ELSE x[i - Len(q)]
      BY <3>1, ConcatProperties
    <3> QED  BY <2>1, <3>2
  <2> QED  BY <1>1, <2>2
<1> DEFINE n == Len(q)
           m == Len(r)
<1>n. n \in Nat /\ m \in Nat /\ m = n + (b - a) /\ m > n  BY <1>2, <1>3
<1>4. \A i \in 1..n : r[i] = q[i]  BY <1>3, <1>n
<1>5. ASSUME NEW i \in (n + 1)..m PROVE r[i] = a + (i - n) - 1
  <2>1. i \in 1..(n + (b - a)) /\ ~(i <= n) /\ i - n \in 1..(b - a)  BY <1>n
  <2>2. r[i] = x[i - n]  BY <1>3, <2>1
  <2> QED  BY <1>1, <2>1, <2>2
<1>6. r # <<>>  BY <1>n, EmptySeq
<1>7. Reaches(r, b)
  <2>1. m \in (n + 1)..m  BY <1>n
  <2>2. r[m] = a + (m - n) - 1  BY <1>5, <2>1
  <2> QED  BY <1>n, <1>6, <2>2 DEF Reaches
<1>8. Chained(r, us)
  <2> SUFFICES ASSUME NEW i \in 1..m
               PROVE  r[i] \in us \/ r[i] = IF i = 1 THEN 0 ELSE r[i - 1] + 1
    BY DEF Chained
  <2>1. CASE i \in 1..n
    <3>1. q[i] \in us \/ q[i] = IF i = 1 THEN 0 ELSE q[i - 1] + 1  BY <2>1 DEF Chained
    <3>2. i # 1 => i - 1 \in 1..n  BY <1>n, <2>1
    <3> QED  BY <1>4, <2>1, <3>1, <3>2
  <2>2. CASE i = n + 1
    <3>1. r[i] = a
      <4>1. i \in (n + 1)..m  BY <1>n, <2>2
      <4>2. r[i] = a + (i - n) - 1  BY <1>5, <4>1
      <4> QED  BY <1>n, <2>2, <4>2
    <3>2. CASE Reaches(q, a)
      <4>1. CASE q = <<>>  BY <1>2, <2>2, <3>1, <3>2, <4>1 DEF Reaches
      <4>2. CASE q # <<>>
        <5>1. i # 1 /\ i - 1 = n /\ n \in 1..n  BY <1>2, <1>n, <2>2, <4>2
        <5>2. r[i - 1] = a - 1  BY <1>4, <3>2, <4>2, <5>1 DEF Reaches
        <5> QED  BY <3>1, <5>1, <5>2
      <4> QED  BY <4>1, <4>2
    <3> QED  BY <3>1, <3>2
  <2>3. CASE i \in (n + 2)..m
    <3>1. i - 1 \in (n + 1)..m /\ i \in (n + 1)..m /\ i # 1  BY <1>n, <2>3
    <3>2. r[i] = a + (i - n) - 1 /\ r[i - 1] = a + ((i - 1) - n) - 1  BY <1>5, <3>1
    <3>3. a + (i - n) - 1 = a + ((i - 1) - n) - 1 + 1  BY <1>n
    <3> QED  BY <3>1, <3>2, <3>3
  <2>4. i \in 1..n \/ i = n + 1 \/ i \in (n + 2)..m  BY <1>n
  <2> QED  BY <2>1, <2>2, <2>3, <2>4
<1>9. ASSUME us = {} PROVE Straight(r)
  <2>1. Straight(q) /\ Reaches(q, a)  BY <1>9
  <2>2. a = n
    <3>1. CASE q = <<>>  BY <1>2, <2>1, <3>1 DEF Reaches
    <3>2. CASE q # <<>>
      <4>1. q[n] = a - 1 /\ q[n] = n - 1  BY <1>2, <2>1, <3>2 DEF Reaches, Straight
      <4> QED  BY <1>n, <4>1
    <3> QED  BY <3>1, <3>2
  <2>3. ASSUME NEW i \in 1..m PROVE r[i] = i - 1
    <3>1. CASE i \in 1..n  BY <1>4, <2>1, <3>1 DEF Straight
    <3>2. CASE i \in (n + 1)..m
      <4>1. r[i] = a + (i - n) - 1  BY <1>5, <3>2
      <4> QED  BY <1>n, <2>2, <4>1
    <3> QED  BY <1>n, <3>1, <3>2
  <2> QED  BY <2>3 DEF Straight
<1> QED  BY <1>3, <1>6, <1>7, <1>8, <1>9

-----------------------------------------------------------------------------
(* Actions that decode nothing *)

LEMMA SameStream ==
    ASSUME IInv, UNCHANGED <<file, lib, at, buf, heard, targets>>
    PROVE  InPlace'
BY DEF IInv, InPlace, Stream, Chained, Straight, Reaches

LEMMA ClosedKeeps ==
    ASSUME IInv, pc = "closed",
           UNCHANGED <<file, lib, at, buf, pc, heard, targets, seeks>>, TypeOK', StillOpens'
    PROVE  IInv'
<1>1. InPlace'  BY SameStream
<1>2. AtTheEnd' /\ EndIsTheEnd'  BY DEF IInv, AtTheEnd, EndIsTheEnd
<1> QED  BY <1>1, <1>2 DEF IInv

LEMMA AddProviderKeeps ==
    ASSUME IInv, NEW k \in {"flac", "wavpack"}, AddProvider(k) PROVE IInv'
<1>1. TypeOK'  BY DEF IInv, TypeOK, AddProvider
<1>2. StillOpens'
  BY DEF IInv, StillOpens, AddProvider, Supported, MakesFlac, MakesWavpack, Corrupt, BlockEnd
<1> QED  BY <1>1, <1>2, ClosedKeeps DEF AddProvider

\* What opens when it is listed can be opened later.
LEMMA ListKeeps == ASSUME IInv, List PROVE IInv'
<1>1. file.total \in Nat /\ TaglibLength \in Nat
  <2>1. file.total \in Nat  BY FileFacts DEF IInv
  <2>2. file.total \div Second \in Nat /\ Second \in Nat  BY <2>1, DivFacts, DecodingAssumption
  <2> QED  BY <2>1, <2>2 DEF TaglibLength
<1>2. entry' = Listed /\ UNCHANGED <<file, gone, providers, lib, at, buf, pc, heard, targets, seeks>>
      /\ pc = "closed" /\ Readable
  BY DEF List
<1>3. TypeOK'  BY <1>1, <1>2 DEF IInv, TypeOK, Listed, Duration
<1>4. entry'.from = "decoder" =>
        entry'.length = file.total /\ file.kind \in Supported /\ (MakesFlac \/ MakesWavpack)
  <2>1. Opens => file.kind \in Supported /\ (MakesFlac \/ MakesWavpack)
    BY <1>2 DEF Opens, Detected
  <2> QED  BY <1>2, <2>1 DEF Listed, Duration
<1>5. StillOpens'
  BY <1>2, <1>4 DEF StillOpens, Supported, MakesFlac, MakesWavpack, Corrupt, BlockEnd
<1> QED  BY <1>2, <1>3, <1>5, ClosedKeeps

LEMMA RestoreKeeps == ASSUME IInv, Restore PROVE IInv'
<1>1. TypeOK'  BY DEF IInv, TypeOK, Restore, FromDocument
<1>2. entry'.from = entry.from /\ entry'.length = entry.length
  BY DEF IInv, TypeOK, Restore, FromDocument
<1>3. StillOpens'
  BY <1>2 DEF IInv, StillOpens, Restore, Supported, MakesFlac, MakesWavpack, Corrupt, BlockEnd
<1> QED  BY <1>1, <1>3, ClosedKeeps DEF Restore

LEMMA LoseFileKeeps == ASSUME IInv, LoseFile PROVE IInv'
<1>1. TypeOK'  BY DEF IInv, TypeOK, LoseFile
<1>2. StillOpens'
  BY DEF IInv, StillOpens, LoseFile, Supported, MakesFlac, MakesWavpack, Corrupt, BlockEnd
<1> QED  BY <1>1, <1>2, ClosedKeeps DEF LoseFile

LEMMA SameOpens ==
    ASSUME StillOpens, UNCHANGED <<file, gone, providers, entry>>, pc' = "refused" => ~Opens
    PROVE  StillOpens'
BY DEF StillOpens, Opens, Detected, Readable, Supported, MakesFlac, MakesWavpack, Corrupt, BlockEnd

LEMMA OpenKeeps == ASSUME IInv, Open PROVE IInv'
<1>1. /\ pc = "closed" /\ pc' = IF Opens THEN "idle" ELSE "refused"
      /\ UNCHANGED <<file, gone, providers, entry, lib, at, buf, heard, targets, seeks>>
  BY DEF Open
<1>2. TypeOK'  BY <1>1 DEF IInv, TypeOK
<1>3. InPlace'  BY <1>1, SameStream
<1>4. Opens => file.data > 0 /\ file.kind \in {"flac", "wavpack"}
  BY DEF Opens, MakesFlac, MakesWavpack
<1>5. AtTheEnd' /\ EndIsTheEnd'  BY <1>1, <1>4 DEF IInv, AtTheEnd, EndIsTheEnd
<1>6. StillOpens'  BY <1>1, SameOpens DEF IInv
<1> QED  BY <1>2, <1>3, <1>5, <1>6 DEF IInv

LEMMA AskFlacKeeps == ASSUME IInv, AskFlac PROVE IInv'
<1>1. TypeOK' /\ AtTheEnd' /\ EndIsTheEnd'
  BY DEF IInv, TypeOK, AtTheEnd, EndIsTheEnd, AskFlac
<1>2. InPlace'  BY SameStream DEF AskFlac
<1>3. StillOpens'  BY SameOpens DEF IInv, AskFlac
<1> QED  BY <1>1, <1>2, <1>3 DEF IInv

-----------------------------------------------------------------------------
(* Decoding and seeking *)

LEMMA StreamFacts ==
    ASSUME IInv
    PROVE  /\ Stream \in Seq(Nat) /\ Chained(Stream, targets)
           /\ targets = {} => Straight(Stream) /\ Reaches(Stream, at)
           /\ at \in targets \/ Reaches(Stream, at)
           /\ file.kind = "flac" => Reaches(Stream, at) /\ at <= file.data
           /\ file.kind = "wavpack" => Stream = heard
<1>1. Stream \in Seq(Nat)  BY ConcatProperties DEF IInv, TypeOK, Stream
<1>2. file.kind = "wavpack" => Stream = heard
  BY ConcatEmptySeq DEF IInv, TypeOK, InPlace, Stream
<1> QED  BY <1>1, <1>2 DEF IInv, InPlace

LEMMA ProcessBlockKeeps == ASSUME IInv, ProcessBlock PROVE IInv'
<1>1. /\ TypeOK /\ file.kind = "flac" /\ pc = "asked" /\ lib = "sync" /\ at \in Nat /\ at < file.data
      /\ UNCHANGED <<file, gone, providers, entry, lib, heard, targets, seeks>>
  BY DEF ProcessBlock, IInv, TypeOK, AtTheEnd
<1>2. CASE Corrupt(at, BlockEnd(at))
  <2>1. pc' = "caught" /\ UNCHANGED <<at, buf>>  BY <1>2 DEF ProcessBlock
  <2>2. InPlace'  BY <1>1, <2>1, SameStream
  <2>3. TypeOK' /\ AtTheEnd' /\ EndIsTheEnd'
    BY <1>1, <2>1 DEF IInv, TypeOK, AtTheEnd, EndIsTheEnd
  <2>4. StillOpens'  BY <1>1, <2>1, SameOpens DEF IInv
  <2> QED  BY <2>2, <2>3, <2>4 DEF IInv
<1>3. CASE ~Corrupt(at, BlockEnd(at))
  <2> DEFINE e == BlockEnd(at)
  <2>1. at' = e /\ buf' = buf \o Samples(at, e) /\ pc' = pc  BY <1>3 DEF ProcessBlock
  <2>2. e \in Nat /\ at < e /\ e <= file.data /\ e <= file.total
    BY <1>1, BlockEndAfter, FileFacts
  <2> HIDE DEF e
  <2>3. Samples(at, e) \in Seq(Nat)  BY <1>1, <2>2, SamplesAre
  <2>4. buf \in Seq(Nat) /\ heard \in Seq(Nat)  BY <1>1 DEF TypeOK
  <2>5. buf' \in Seq(Nat)  BY <2>1, <2>3, <2>4, ConcatProperties
  <2>6. Stream' = Stream \o Samples(at, e)
    <3>1. (heard \o buf) \o Samples(at, e) = heard \o (buf \o Samples(at, e))
      BY <2>3, <2>4, ConcatAssociative
    <3> QED  BY <1>1, <2>1, <3>1 DEF Stream
  <2>7. /\ Stream \in Seq(Nat) /\ Chained(Stream, targets) /\ Reaches(Stream, at)
        /\ targets = {} => Straight(Stream) /\ Reaches(Stream, at)
    BY <1>1, StreamFacts
  <2>8. /\ Chained(Stream', targets) /\ Reaches(Stream', e)
        /\ targets = {} => Straight(Stream')
    BY <1>1, <2>2, <2>6, <2>7, StreamGrows
  <2>9. InPlace'  BY <1>1, <2>1, <2>2, <2>8 DEF InPlace, Chained, Straight, Reaches, Stream
  <2>10. TypeOK'  BY <1>1, <2>1, <2>2, <2>5 DEF TypeOK
  <2>11. AtTheEnd' /\ EndIsTheEnd'  BY <1>1, <2>1 DEF IInv, AtTheEnd, EndIsTheEnd
  <2>12. StillOpens'  BY <1>1, <2>1, SameOpens DEF IInv
  <2> QED  BY <2>9, <2>10, <2>11, <2>12 DEF IInv
<1> QED  BY <1>2, <1>3

\* A stream that reaches the end of the data has its last sample.
LEMMA ReachesEnd ==
    ASSUME NEW q, NEW x \in Nat, x > 0, Reaches(q, x)
    PROVE  q # <<>> /\ Last(q) = x - 1
BY DEF Reaches, Last

LEMMA ProcessEndKeeps == ASSUME IInv, ProcessEnd PROVE IInv'
<1>1. /\ TypeOK /\ file.kind = "flac" /\ pc = "asked" /\ lib # "end" /\ Len(buf) < file.ask
      /\ lib = "lost" \/ at >= file.data
      /\ lib' = IF lib = "lost" THEN lib ELSE "end"
      /\ pc' = IF buf = <<>> THEN Outcome(0, TRUE, Valid(lib', buf)) ELSE "leaves"
      /\ UNCHANGED <<file, gone, providers, entry, at, buf, heard, targets, seeks>>
      /\ file.data > 0 /\ file.data \in Nat /\ file.ask \in Nat \ {0}
      /\ heard \in Seq(Nat) /\ buf \in Seq(Nat)
  BY FileFacts DEF ProcessEnd, More, IInv, TypeOK, AtTheEnd
<1>2. Reaches(Stream, at) /\ at <= file.data /\ at \in Nat
  BY <1>1, StreamFacts DEF TypeOK
<1>3. lib' \in {"end", "lost"} /\ (lib' = "end" => at = file.data)  BY <1>1, <1>2
<1>4. buf = <<>> => pc' = IF lib' = "end" THEN "next" ELSE "eof"
  <2> SUFFICES ASSUME buf = <<>> PROVE pc' = IF lib' = "end" THEN "next" ELSE "eof"
    OBVIOUS
  <2>1. Valid(lib', buf) = (lib' # "end")  BY <1>1 DEF Valid
  <2> QED  BY <1>1, <1>3, <2>1 DEF Outcome
<1>5. pc' \in {"leaves", "next", "eof"}  BY <1>1, <1>3, <1>4
<1>6. TypeOK'  BY <1>1, <1>3, <1>5 DEF TypeOK
<1>7. InPlace'  BY <1>1 DEF IInv, InPlace, Stream, Chained, Straight, Reaches
<1>8. AtTheEnd'
  <2>1. pc' = "leaves" => buf # <<>>  BY <1>1, <1>4
  <2> QED  BY <1>1, <1>3, <1>5, <2>1 DEF AtTheEnd
<1>9. EndIsTheEnd'
  <2>1. ASSUME buf = <<>>, lib' = "end" PROVE heard # <<>> /\ Last(heard) = file.data - 1
    <3>1. Stream = heard  BY <1>1, <2>1, ConcatEmptySeq DEF Stream
    <3> QED  BY <1>1, <1>2, <1>3, <2>1, <3>1, ReachesEnd
  <2>2. pc' \in {"next", "eof"} => buf = <<>>  BY <1>1
  <2> QED  BY <1>1, <1>3, <1>5, <2>1, <2>2 DEF EndIsTheEnd
<1>10. StillOpens'  BY <1>1, <1>5, SameOpens DEF IInv
<1> QED  BY <1>6, <1>7, <1>8, <1>9, <1>10 DEF IInv

\* What is delivered moves from the buffer to the player.
LEMMA DeliverKeeps == ASSUME IInv, Deliver PROVE IInv'
<1> DEFINE n == Smaller(file.ask, Len(buf))
<1>1. /\ TypeOK /\ file.kind = "flac" /\ pc \in {"leaves", "asked"}
      /\ pc = "leaves" \/ Len(buf) >= file.ask \/ lib = "end"
      /\ heard' = heard \o SubSeq(buf, 1, n)
      /\ buf' = SubSeq(buf, n + 1, Len(buf))
      /\ pc' = Outcome(n, FALSE, Valid(lib, buf'))
      /\ UNCHANGED <<file, gone, providers, entry, lib, at, targets, seeks>>
      /\ file.data > 0
  <2>1. pc = "leaves" \/ (pc = "asked" /\ ~More)  BY DEF Deliver
  <2>2. lib = "end" \/ ~(Len(buf) < file.ask) \/ pc = "leaves"  BY <2>1 DEF More
  <2>3. TypeOK /\ file.kind = "flac" /\ file.data > 0  BY <2>1 DEF IInv, AtTheEnd
  <2>4. Len(buf) \in Nat /\ file.ask \in Nat  BY <2>3, FileFacts, LenProperties DEF TypeOK
  <2>5. /\ heard' = heard \o SubSeq(buf, 1, n)
        /\ buf' = SubSeq(buf, n + 1, Len(buf))
        /\ pc' = Outcome(n, FALSE, Valid(lib, buf'))
        /\ UNCHANGED <<file, gone, providers, entry, lib, at, targets, seeks>>
    BY DEF Deliver
  <2> QED  BY <2>1, <2>2, <2>3, <2>4, <2>5
<1>2. /\ heard \in Seq(Nat) /\ buf \in Seq(Nat) /\ Len(buf) \in Nat /\ at \in Nat
      /\ file.data \in Nat /\ file.ask \in Nat \ {0}
  BY <1>1, FileFacts, LenProperties DEF TypeOK
<1>3. pc = "leaves" => lib \in {"end", "lost"} /\ buf # <<>> /\ Len(buf) < file.ask
  BY DEF IInv, AtTheEnd
<1>4. lib = "end" => pc = "leaves" /\ at = file.data  BY <1>1 DEF IInv, AtTheEnd
<1>5. Len(buf) >= 1
  <2>1. buf # <<>> => Len(buf) >= 1  BY <1>2, EmptySeq
  <2> QED  BY <1>1, <1>2, <1>3, <1>4, <2>1
<1>6. n \in Nat /\ n >= 1 /\ n <= Len(buf) /\ n <= file.ask
  BY <1>2, <1>5 DEF Smaller
<1>7. lib = "end" => n = Len(buf) /\ n < file.ask
  BY <1>2, <1>3, <1>4 DEF Smaller
<1> HIDE DEF n
<1>8. /\ SubSeq(buf, 1, n) \in Seq(Nat) /\ buf' \in Seq(Nat)
      /\ SubSeq(buf, 1, n) \o buf' = buf
  <2>1. \A i \in 1..Len(buf) : buf[i] \in Nat  BY <1>2, ElementOfSeq
  <2>2. SubSeq(buf, 1, n) \in Seq(Nat)  BY <1>2, <1>6, <2>1, SubSeqProperties
  <2>3. SubSeq(buf, n + 1, Len(buf)) \in Seq(Nat)  BY <1>2, <1>6, <2>1, SubSeqProperties
  <2>4. SubSeq(buf, 1, n) \o SubSeq(buf, n + 1, Len(buf)) = SubSeq(buf, 1, Len(buf))
    <3>1. 1 \in 1..(Len(buf) + 1) /\ n \in (1 - 1)..Len(buf) /\ Len(buf) \in n..Len(buf)
      BY <1>2, <1>6
    <3> QED  BY <1>2, <3>1, ConcatAdjacentSubSeq
  <2>5. SubSeq(buf, 1, Len(buf)) = buf  BY <1>2, SubSeqFull
  <2> QED  BY <1>1, <2>2, <2>3, <2>4, <2>5
<1>9. heard' \in Seq(Nat)  BY <1>1, <1>2, <1>8, ConcatProperties
<1>10. Stream' = Stream
  <2>1. (heard \o SubSeq(buf, 1, n)) \o buf' = heard \o (SubSeq(buf, 1, n) \o buf')
    <3> DEFINE x == SubSeq(buf, 1, n)
               y == buf'
    <3>1. heard \in Seq(Nat) /\ x \in Seq(Nat) /\ y \in Seq(Nat)  BY <1>2, <1>8
    <3> HIDE DEF x, y
    <3>2. (heard \o x) \o y = heard \o (x \o y)  BY <3>1, ConcatAssociative
    <3> QED  BY <3>2 DEF x, y
  <2> QED  BY <1>1, <1>8, <2>1 DEF Stream
<1>11. lib = "end" => buf' = <<>>
  <2>1. ASSUME lib = "end" PROVE SubSeq(buf, n + 1, Len(buf)) = <<>>
    BY <1>2, <1>7, <2>1, SubSeqEmpty
  <2> QED  BY <1>1, <2>1
<1>12. pc' = (IF lib = "end" THEN "next" ELSE "idle")
  BY <1>1, <1>2, <1>6, <1>7, <1>11 DEF Outcome, Valid
<1>13. TypeOK'  BY <1>1, <1>8, <1>9, <1>12 DEF TypeOK
<1>14. InPlace'
  <2>1. /\ Chained(Stream, targets)' /\ (targets = {} => Straight(Stream))' /\ Reaches(Stream, at)'
    BY <1>1, <1>10, StreamFacts DEF Chained, Straight, Reaches
  <2>2. at <= file.data  BY <1>1, StreamFacts
  <2> QED  BY <1>1, <2>1, <2>2 DEF InPlace
<1>15. AtTheEnd'  BY <1>1, <1>4, <1>12 DEF AtTheEnd
<1>16. EndIsTheEnd'
  <2>1. ASSUME lib = "end" PROVE heard' # <<>> /\ Last(heard') = file.data - 1
    <3>1. Stream = heard'
      <4>1. Stream' = heard' \o <<>>  BY <1>11, <2>1 DEF Stream
      <4>2. heard' \o <<>> = heard'  BY <1>9, ConcatEmptySeq
      <4> QED  BY <1>10, <4>1, <4>2
    <3>2. Reaches(heard', file.data)  BY <1>1, <1>4, <2>1, <3>1, StreamFacts
    <3> QED  BY <1>1, <1>2, <3>2, ReachesEnd
  <2> QED  BY <1>1, <1>12, <2>1 DEF EndIsTheEnd
<1>17. StillOpens'  BY <1>1, <1>12, SameOpens DEF IInv
<1> QED  BY <1>13, <1>14, <1>15, <1>16, <1>17 DEF IInv

\* WavPack gives what it is asked for, and less only at the end.
LEMMA DecodeWavpackKeeps == ASSUME IInv, DecodeWavpack PROVE IInv'
<1> DEFINE per == file.ask \div file.channels
           rest == IF at < file.data THEN file.data - at ELSE 0
           n == Smaller(per, rest)
           eof == n * file.channels # file.ask
           c == eof /\ (Corrupt(at, at + n) \/ file.bad \in ToSet(heard))
<1>1. /\ TypeOK /\ file.kind = "wavpack" /\ pc = "idle" /\ lib = "sync" /\ buf = <<>>
      /\ file.data > 0 /\ heard \in Seq(Nat) /\ at \in Nat /\ at <= file.total
      /\ UNCHANGED <<file, gone, providers, entry, lib, buf, targets, seeks>>
  BY DEF DecodeWavpack, IInv, TypeOK, InPlace, AtTheEnd
<1>2. /\ file.ask \in Nat \ {0} /\ file.channels \in Nat \ {0} /\ file.data \in Nat
      /\ file.total \in Nat /\ file.data <= file.total
  BY <1>1, FileFacts
<1>3. CASE c
  <2>1. pc' = "caught" /\ UNCHANGED <<at, heard>>  BY <1>3 DEF DecodeWavpack
  <2>2. InPlace'  BY <1>1, <2>1, SameStream
  <2>3. TypeOK' /\ AtTheEnd' /\ EndIsTheEnd'
    BY <1>1, <2>1 DEF IInv, TypeOK, AtTheEnd, EndIsTheEnd
  <2>4. StillOpens'  BY <1>1, <2>1, SameOpens DEF IInv
  <2> QED  BY <2>2, <2>3, <2>4 DEF IInv
<1>4. CASE ~c
  <2>1. /\ at' = at + n /\ heard' = heard \o Samples(at, at + n)
        /\ pc' = Outcome(n, eof, Valid(lib, buf))
    BY <1>4 DEF DecodeWavpack
  <2>2. per \in Nat /\ (file.ask % file.channels = 0 => per * file.channels = file.ask)
    BY <1>2, DivFacts
  <2>3. n \in Nat /\ n <= rest /\ (n # per => n = rest) /\ rest \in Nat
    BY <1>1, <1>2, <2>2 DEF Smaller
  <2>4. n = 0 => eof  BY <1>2
  <2>5. eof /\ file.ask % file.channels = 0 => n = rest  BY <2>2, <2>3
  <2>6. pc' = IF eof THEN "eof" ELSE "idle"
    BY <1>1, <2>1, <2>4 DEF Outcome, Valid
  <2>7. at + n \in Nat /\ at + n <= file.total /\ (n > 0 => at + n <= file.data)
        /\ (n = rest => at + n = IF at < file.data THEN file.data ELSE at)
        /\ (n > 0 => at < at + n) /\ (n = 0 => at + n = at)
    BY <1>1, <1>2, <2>3
  <2> DEFINE e == at + n
  <2> HIDE DEF n, eof, rest, per, c
  <2>8. /\ Chained(heard, targets) /\ (targets = {} => Straight(heard) /\ Reaches(heard, at))
        /\ at \in targets \/ Reaches(heard, at)
        /\ at \in targets \/ at <= file.data
        /\ Stream = heard
    BY <1>1, StreamFacts DEF IInv, InPlace
  <2>9. /\ heard' \in Seq(Nat) /\ Chained(heard', targets) /\ (targets = {} => Straight(heard'))
        /\ (at \in targets /\ n = 0) \/ Reaches(heard', at + n)
        /\ (at \in targets /\ n = 0) \/ at + n <= file.data
    <3>1. CASE n = 0
      <4>1. Samples(at, e) = <<>>
        <5>1. at \in Nat /\ e \in Nat /\ at <= e /\ e - at = 0  BY <1>1, <2>7, <3>1
        <5> HIDE DEF e
        <5>2. Samples(at, e) \in Seq(Nat) /\ Len(Samples(at, e)) = e - at
          BY <5>1, SamplesAre
        <5> QED  BY <5>1, <5>2, EmptySeq
      <4>2. heard' = heard  BY <1>1, <2>1, <4>1, ConcatEmptySeq
      <4> QED  BY <1>1, <2>7, <2>8, <3>1, <4>2
    <3>2. CASE n > 0
      <4>1. e \in Nat /\ at < e /\ e <= file.data  BY <2>7, <3>2
      <4>2. heard' = heard \o Samples(at, e)  BY <2>1
      <4> HIDE DEF e
      <4>3. /\ heard' \in Seq(Nat) /\ Chained(heard', targets) /\ Reaches(heard', e)
            /\ targets = {} => Straight(heard')
        BY <1>1, <2>8, <4>1, <4>2, StreamGrows
      <4> QED  BY <4>1, <4>3 DEF e
    <3> QED  BY <2>3, <3>1, <3>2
  <2>10. Stream' = heard'  BY <1>1, <2>9, ConcatEmptySeq DEF Stream
  <2>11. InPlace'
    <3>1. /\ Chained(Stream, targets)' /\ (targets = {} => Straight(Stream))'
      BY <1>1, <2>9, <2>10 DEF Chained, Straight
    <3>2. Reaches(Stream, at)' \/ at' \in targets
      BY <1>1, <2>1, <2>7, <2>9, <2>10 DEF Reaches
    <3>3. at' <= file.data \/ at' \in targets  BY <2>1, <2>7, <2>9
    <3> QED  BY <1>1, <3>1, <3>2, <3>3 DEF InPlace
  <2>12. TypeOK'  BY <1>1, <2>1, <2>6, <2>7, <2>9 DEF TypeOK
  <2>13. AtTheEnd'  BY <1>1, <2>6 DEF AtTheEnd
  <2>14. EndIsTheEnd'
    <3>1. ASSUME eof, file.ask % file.channels = 0, \A s \in targets : s < file.data
          PROVE  heard' # <<>> /\ Last(heard') = file.data - 1
      <4>1. at + n >= file.data  BY <1>1, <1>2, <2>5, <2>7, <3>1
      <4>2. at \in targets => at < file.data  BY <3>1
      <4>3. ~(at \in targets /\ n = 0)  BY <1>1, <1>2, <2>7, <4>1, <4>2
      <4>4. at + n = file.data /\ Reaches(heard', file.data)  BY <1>2, <2>7, <2>9, <4>1, <4>3
      <4> QED  BY <1>1, <1>2, <4>4, ReachesEnd
    <3>2. \A s \in targets : s \in Nat /\ (s < file.data \/ s >= file.data)
      BY <1>1, <1>2 DEF TypeOK
    <3> QED  BY <1>1, <2>6, <3>1, <3>2 DEF EndIsTheEnd
  <2>15. StillOpens'  BY <1>1, <2>6, SameOpens DEF IInv
  <2> QED  BY <2>11, <2>12, <2>13, <2>14, <2>15 DEF IInv
<1> QED  BY <1>3, <1>4

LEMMA SeekFlacKeeps ==
    ASSUME IInv, pc = "idle", NEW s \in 0..file.total, SeekFlac(s), seeks' = seeks + 1,
           UNCHANGED <<file, gone, providers, entry, pc, heard>>
    PROVE  IInv'
<1>1. /\ TypeOK /\ file.kind = "flac" /\ lib # "end" /\ s \in Nat /\ seeks' \in Nat
      /\ buf \in Seq(Nat) /\ heard \in Seq(Nat)
  BY FileFacts DEF SeekFlac, IInv, TypeOK, AtTheEnd
<1>2. /\ EndIsTheEnd' /\ StillOpens'  BY SameOpens DEF IInv, EndIsTheEnd
<1>3. CASE lib' # "end" /\ UNCHANGED <<at, buf, targets>> /\ lib' \in {"sync", "lost"}
  <2>1. InPlace'  BY <1>1, <1>3 DEF IInv, InPlace, Stream, Chained, Straight, Reaches
  <2>2. TypeOK' /\ AtTheEnd'  BY <1>1, <1>3 DEF IInv, TypeOK, AtTheEnd
  <2> QED  BY <1>2, <2>1, <2>2 DEF IInv
<1>4. CASE s < file.data /\ lib' = "sync" /\ at' = BlockEnd(s)
           /\ buf' = buf \o Samples(s, BlockEnd(s)) /\ targets' = targets \cup {s}
  <2> DEFINE e == BlockEnd(s)
  <2>1. e \in Nat /\ s < e /\ e <= file.data /\ e <= file.total
    BY <1>1, <1>4, BlockEndAfter, FileFacts
  <2> HIDE DEF e
  <2>2. Samples(s, e) \in Seq(Nat)  BY <1>1, <2>1, SamplesAre
  <2>3. buf' = buf \o Samples(s, e) /\ at' = e  BY <1>4 DEF e
  <2>4. buf' \in Seq(Nat)  BY <1>1, <2>2, <2>3, ConcatProperties
  <2>5. Stream' = Stream \o Samples(s, e)
    <3>1. (heard \o buf) \o Samples(s, e) = heard \o (buf \o Samples(s, e))
      BY <1>1, <2>2, ConcatAssociative
    <3> QED  BY <2>3, <3>1 DEF Stream
  <2>6. Stream \in Seq(Nat) /\ Chained(Stream, targets)  BY StreamFacts
  <2>7. targets \subseteq targets' /\ s \in targets' /\ targets' # {}  BY <1>4
  <2>8. Chained(Stream', targets') /\ Reaches(Stream', e)
    BY <1>1, <2>1, <2>5, <2>6, <2>7, StreamGrows
  <2>9. InPlace'  BY <1>1, <2>1, <2>3, <2>7, <2>8 DEF InPlace, Chained, Reaches, Stream
  <2>10. TypeOK' /\ AtTheEnd'
    BY <1>1, <1>4, <2>1, <2>3, <2>4 DEF IInv, TypeOK, AtTheEnd
  <2> QED  BY <1>2, <2>9, <2>10 DEF IInv
<1>5. lib \in {"sync", "lost"} /\ s \in Nat /\ file.data \in Nat  BY <1>1, FileFacts DEF TypeOK
<1>6. CASE lib = "lost" \/ s >= file.total
  BY <1>1, <1>3, <1>5, <1>6 DEF SeekFlac
<1>7. CASE ~(lib = "lost" \/ s >= file.total) /\ s >= file.data
  BY <1>1, <1>3, <1>7 DEF SeekFlac
<1>8. CASE ~(lib = "lost" \/ s >= file.total) /\ ~(s >= file.data)
  BY <1>4, <1>5, <1>8 DEF SeekFlac
<1> QED  BY <1>6, <1>7, <1>8

LEMMA SeekWavpackKeeps ==
    ASSUME IInv, pc = "idle", NEW s \in 0..file.total, SeekWavpack(s), seeks' = seeks + 1,
           UNCHANGED <<file, gone, providers, entry, pc, heard>>
    PROVE  IInv'
<1>1. /\ TypeOK /\ file.kind = "wavpack" /\ s \in Nat /\ s <= file.total /\ seeks' \in Nat
      /\ UNCHANGED <<lib, buf>> /\ lib = "sync" /\ buf = <<>>
  BY FileFacts DEF SeekWavpack, IInv, TypeOK, InPlace
<1>2. /\ EndIsTheEnd' /\ StillOpens'  BY SameOpens DEF IInv, EndIsTheEnd
<1>3. CASE UNCHANGED <<at, targets>>
  <2>1. InPlace'  BY <1>1, <1>3, SameStream
  <2>2. TypeOK' /\ AtTheEnd'  BY <1>1, <1>3 DEF IInv, TypeOK, AtTheEnd
  <2> QED  BY <1>2, <2>1, <2>2 DEF IInv
<1>4. CASE at' = s /\ targets' = targets \cup {s}
  <2>1. Chained(Stream, targets)'
    <3>1. Stream' = Stream /\ targets \subseteq targets'  BY <1>1, <1>4 DEF Stream
    <3>2. Chained(Stream, targets)  BY DEF IInv, InPlace
    <3> QED  BY <3>1, <3>2 DEF Chained
  <2>2. InPlace'  BY <1>1, <1>4, <2>1 DEF InPlace
  <2>3. TypeOK' /\ AtTheEnd'  BY <1>1, <1>4 DEF IInv, TypeOK, AtTheEnd
  <2> QED  BY <1>2, <2>2, <2>3 DEF IInv
<1> QED  BY <1>3, <1>4 DEF SeekWavpack

-----------------------------------------------------------------------------
(* The theorems *)

LEMMA InitIInv == Init => IInv
<1> SUFFICES ASSUME Init PROVE IInv  OBVIOUS
<1>1. file \in Files /\ file.total \in Nat /\ file.data \in Nat  BY DecodingAssumption DEF Init
<1>2. <<>> \in Seq(Nat)  BY EmptySeq
<1>3. TypeOK
  <2>1. NoEntry \in [length : Nat, from : {"nowhere", "decoder", "taglib"},
                      specs : {"none", "decoder", "taglib"}]
    BY DEF NoEntry
  <2>2. 0 <= file.total  BY <1>1
  <2> QED  BY <1>1, <1>2, <2>1, <2>2 DEF Init, TypeOK
<1>4. Stream = <<>> /\ Len(<<>>) = 0  BY <1>2, EmptySeq, ConcatEmptySeq DEF Init, Stream
<1>5. InPlace  BY <1>1, <1>4 DEF Init, InPlace, Chained, Straight, Reaches
<1>6. AtTheEnd /\ StillOpens /\ EndIsTheEnd
  BY DEF Init, AtTheEnd, StillOpens, EndIsTheEnd, NoEntry
<1> QED  BY <1>3, <1>5, <1>6 DEF IInv

LEMMA StepIInv == IInv /\ [Next]_vars => IInv'
<1> SUFFICES ASSUME IInv, [Next]_vars PROVE IInv'  OBVIOUS
<1>1. ASSUME NEW k \in {"flac", "wavpack"}, AddProvider(k) PROVE IInv'
  BY <1>1, AddProviderKeeps
<1>2. CASE List  BY <1>2, ListKeeps
<1>3. CASE Restore  BY <1>3, RestoreKeeps
<1>4. CASE LoseFile  BY <1>4, LoseFileKeeps
<1>5. CASE Open  BY <1>5, OpenKeeps
<1>6. CASE Decode
  BY <1>6, AskFlacKeeps, ProcessBlockKeeps, ProcessEndKeeps, DeliverKeeps, DecodeWavpackKeeps
  DEF Decode
<1>7. CASE Seek
  <2>1. /\ pc = "idle" /\ seeks' = seeks + 1
        /\ UNCHANGED <<file, gone, providers, entry, pc, heard>>
    BY <1>7 DEF Seek
  <2>2. PICK s \in 0..file.total : SeekFlac(s) \/ SeekWavpack(s)  BY <1>7 DEF Seek
  <2> QED  BY <2>1, <2>2, SeekFlacKeeps, SeekWavpackKeeps
<1>8. CASE UNCHANGED vars
  <2>1. InPlace'  BY <1>8, SameStream DEF vars
  <2>2. TypeOK' /\ AtTheEnd' /\ EndIsTheEnd'
    BY <1>8 DEF IInv, TypeOK, AtTheEnd, EndIsTheEnd, vars
  <2>3. StillOpens'  BY <1>8, SameOpens DEF IInv, StillOpens, vars
  <2> QED  BY <2>1, <2>2, <2>3 DEF IInv
<1> QED  BY <1>1, <1>2, <1>3, <1>4, <1>5, <1>6, <1>7, <1>8 DEF Next

\* Everything the theorems below need of a state, kept by each step.
THEOREM IInvHolds == Spec => []IInv
<1>1. Init => IInv  BY InitIInv
<1>2. IInv /\ [Next]_vars => IInv'  BY StepIInv
<1> QED  BY <1>1, <1>2, PTL DEF Spec

\* No sample is lost and none is heard twice between the file and the player,
\* however its blocks and the requests are cut and wherever it seeks.
THEOREM GaplessDecoding == Spec => []NoGaps
<1>1. IInv => NoGaps
  <2> SUFFICES ASSUME IInv PROVE NoGaps  OBVIOUS
  <2>1. heard \in Seq(Nat) /\ buf \in Seq(Nat) /\ DOMAIN heard = 1..Len(heard) /\ Len(heard) \in Nat
        /\ Len(buf) \in Nat
    BY LenProperties DEF IInv, TypeOK
  <2>2. /\ Len(Stream) = Len(heard) + Len(buf)
        /\ \A i \in 1..(Len(heard) + Len(buf)) :
              Stream[i] = IF i <= Len(heard) THEN heard[i] ELSE buf[i - Len(heard)]
    BY <2>1, ConcatProperties DEF Stream
  <2>3. ASSUME NEW i \in 1..Len(heard)
        PROVE  heard[i] \in targets \/ heard[i] = IF i = 1 THEN 0 ELSE heard[i - 1] + 1
    <3>1. i \in 1..(Len(heard) + Len(buf)) /\ Stream[i] = heard[i]  BY <2>1, <2>2
    <3>2. i # 1 => Stream[i - 1] = heard[i - 1]
      <4>1. i # 1 => i - 1 \in 1..(Len(heard) + Len(buf)) /\ i - 1 <= Len(heard)  BY <2>1
      <4> QED  BY <2>2, <4>1
    <3>3. Stream[i] \in targets \/ Stream[i] = IF i = 1 THEN 0 ELSE Stream[i - 1] + 1
      BY <2>2, <3>1 DEF IInv, InPlace, Chained
    <3> QED  BY <3>1, <3>2, <3>3
  <2>4. lib \in {"sync", "end", "lost"} /\ at \in 0..file.total
    BY FileFacts DEF IInv, TypeOK
  <2> QED  BY <2>1, <2>3, <2>4 DEF NoGaps
<1> QED  BY <1>1, IInvHolds, PTL

\* When the player leaves a track for the next one, or is told that it is
\* over, it has had its last sample.
THEOREM AnnouncedEnd == Spec => []EndIsTheEnd
<1>1. IInv => EndIsTheEnd  BY DEF IInv
<1> QED  BY <1>1, IInvHolds, PTL

\* What is listed with its decoder's length opens later, from a document of
\* the library too, unless the file has gone, and plays that many samples.
THEOREM ListedLength == Spec => []ListedLengthPlays
<1>1. IInv => ListedLengthPlays
  <2> SUFFICES ASSUME IInv, entry # NoEntry, entry.from = "decoder" PROVE ListedLengthPlays
    BY DEF ListedLengthPlays
  <2>1. entry.length = file.total /\ (~gone => Opens)
    BY DEF IInv, StillOpens, Opens, Readable, Detected
  <2>2. pc = "refused" => gone  BY <2>1 DEF IInv, StillOpens
  <2>3. ASSUME pc \in {"next", "eof"}, targets = {}, file.data = file.total,
               lib # "lost", ~(file.kind = "wavpack" /\ file.ask % file.channels # 0)
        PROVE  Len(heard) = entry.length
    <3>1. file.data > 0 /\ file.data \in Nat
      BY <2>3, FileFacts DEF IInv, AtTheEnd
    <3>2. heard # <<>> /\ Last(heard) = file.data - 1
      BY <2>3, <3>1 DEF IInv, EndIsTheEnd
    <3>3. heard \in Seq(Nat) /\ buf \in Seq(Nat) /\ Len(heard) \in Nat \ {0} /\ Len(buf) \in Nat
      BY <3>2, EmptySeq, LenProperties DEF IInv, TypeOK
    <3>4. Stream[Len(heard)] = heard[Len(heard)] /\ Len(heard) \in 1..Len(Stream)
      <4>1. /\ Len(Stream) = Len(heard) + Len(buf)
            /\ \A i \in 1..(Len(heard) + Len(buf)) :
                  Stream[i] = IF i <= Len(heard) THEN heard[i] ELSE buf[i - Len(heard)]
        BY <3>3, ConcatProperties DEF Stream
      <4> QED  BY <3>3, <4>1
    <3>5. Stream[Len(heard)] = Len(heard) - 1
      BY <2>3, <3>4 DEF IInv, InPlace, Straight
    <3>6. Len(heard) - 1 = file.data - 1  BY <3>2, <3>4, <3>5 DEF Last
    <3> QED  BY <2>1, <2>3, <3>1, <3>3, <3>6
  <2> QED  BY <2>2, <2>3 DEF ListedLengthPlays
<1> QED  BY <1>1, IInvHolds, PTL
=============================================================================
