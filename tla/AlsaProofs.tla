------------------------------ MODULE AlsaProofs ------------------------------
(***************************************************************************)
(* What AlsaOutput keeps for every set of handles, formats and writes: its *)
(* types, that only handles of failed devices leak, that a device in use   *)
(* was set up, and that it implements OutputDevice.  A failed call leaves  *)
(* the device half-way, so what prepare, play and stop may rely on is said *)
(* by WhatIsKnown.                                                         *)
(***************************************************************************)
EXTENDS AlsaOutput, TLAPS

\* A new device has no handle, and a stopped one has none left; a descriptor is
\* held only with a handle.
WhatIsKnown ==
    /\ ~known => pdh = 0
    /\ known /\ st = "Stopped" => pdh = 0
    /\ fd => pdh # 0

IInv == TypeOK /\ WhatIsKnown /\ OnlyFailedLeak /\ InUseIsSetUp

USE AlsaAssumption
-----------------------------------------------------------------------------
\* A set of formats has a lowest one from i upwards, when it has any there.
LEMMA HigherIsSupported ==
    ASSUME NEW i \in 1..5, HasHigher(i)
    PROVE  Higher(i) \in Supported
<1>1. Supported \subseteq 1..5  BY DEF Supported
<1>2. \E j \in Supported : j >= i /\ \A k \in Supported : k >= i => j <= k
  <2> DEFINE S == Supported
  <2> HIDE DEF S
  <2>1. S \subseteq 1..5 /\ \E j \in S : j >= i  BY <1>1 DEF S, HasHigher
  <2>2. \E j \in S : j >= i /\ \A k \in S : k >= i => j <= k  BY <2>1, SMT
  <2> QED  BY <2>2 DEF S
<1> QED  BY <1>2 DEF Higher

\* Without one there, the highest below i is supported and below i.
LEMMA LowerIsSupported ==
    ASSUME NEW i \in 1..5, ~HasHigher(i), Supported # {}
    PROVE  Lower(i) \in Supported /\ Lower(i) < i
<1>1. Supported \subseteq 1..5  BY DEF Supported
<1>2. \E j \in Supported : j <= i /\ \A k \in Supported : k <= i => j >= k
  <2> DEFINE S == Supported
  <2> HIDE DEF S
  <2>1. S \subseteq 1..5 /\ S # {} /\ \A j \in S : ~(j >= i)  BY <1>1 DEF S, HasHigher
  <2>2. \A j \in S : j \in {1, 2, 3, 4} /\ j < i  BY <2>1
  <2> DEFINE Highest(j) == j <= i /\ \A k \in S : k <= i => j >= k
  <2>3. 4 \in S => Highest(4)  BY <2>2
  <2>4. 4 \notin S /\ 3 \in S => Highest(3)  BY <2>2
  <2>5. 4 \notin S /\ 3 \notin S /\ 2 \in S => Highest(2)  BY <2>2
  <2>6. 4 \notin S /\ 3 \notin S /\ 2 \notin S => 1 \in S /\ Highest(1)
    <3>1. 4 \notin S /\ 3 \notin S /\ 2 \notin S => \A j \in S : j = 1  BY <2>2
    <3>2. PICK j \in S : TRUE  BY <2>1
    <3>3. (\A k \in S : k = 1) => 1 \in S  BY <3>2
    <3>4. 1 \in S => 1 <= i  BY <2>2
    <3> QED  BY <3>1, <3>3, <3>4
  <2> HIDE DEF Highest
  <2>7. \E j \in S : Highest(j)  BY <2>3, <2>4, <2>5, <2>6
  <2> QED  BY <2>7 DEF S, Highest
<1>3. Lower(i) \in Supported  BY <1>2 DEF Lower
<1>4. ~(Lower(i) >= i)  BY <1>3 DEF HasHigher
<1>5. Lower(i) \in 1..5  BY <1>1, <1>3
<1> QED  BY <1>3, <1>4, <1>5

\* prepare settles on a format of the device; its bits are those it asks the
\* player for, except below 16 and 32 bits (alsa_output_service_impl.cpp:117-140).
LEMMA SettleIsRight ==
    ASSUME NEW b, NEW f \in Settle(b)
    PROVE  /\ f[1] \in 1..5
           /\ f[2] = bpss[f[1]] \/ (b = 16 /\ f[1] = 1) \/ (b = 32 /\ f[1] < 5)
<1> DEFINE i == Index(b)
<1>1. i # 0 /\ Supported # {}  BY DEF Settle
<1>2. i \in 1..5  BY <1>1 DEF Index
<1>3. Supported \subseteq 1..5  BY DEF Supported
<1>4. CASE HasHigher(i)
  <2>1. f = <<Higher(i), bpss[Higher(i)]>>  BY <1>1, <1>4 DEF Settle
  <2>2. Higher(i) \in 1..5  BY <1>2, <1>3, <1>4, HigherIsSupported
  <2> QED  BY <2>1, <2>2
<1>5. CASE ~HasHigher(i)
  <2> DEFINE j == Lower(i)
  <2>1. PICK x \in BpsBelow(i, j) : f = <<j, x>>  BY <1>1, <1>5 DEF Settle
  <2>2. j \in 1..5 /\ j < i  BY <1>1, <1>2, <1>3, <1>5, LowerIsSupported
  <2>3. b = 16 => j = 1  BY <2>2 DEF Index
  <2>4. b = 32 => j < 5  BY <2>2 DEF Index
  <2>5. b # 8  BY <2>2 DEF Index
  <2>6. b = 24 => x = bpss[j]
    <3> HAVE b = 24
    <3>1. i = 3  BY DEF Index
    <3>2. 6 - 2 * i + j = j  BY <3>1, <2>2
    <3>3. BpsBelow(i, j) = {bpss[j]}  BY <3>2, <2>2 DEF BpsBelow
    <3> QED  BY <3>3, <2>1
  <2>7. b \in {8, 16, 24, 32}  BY <1>1 DEF Index
  <2> QED  BY <2>1, <2>2, <2>3, <2>4, <2>5, <2>6, <2>7
<1> QED  BY <1>4, <1>5
-----------------------------------------------------------------------------
LEMMA NoWaits == <<>> \in Seq(Writes)
OBVIOUS

LEMMA InitGood == Init => IInv
<1> SUFFICES ASSUME Init PROVE IInv  OBVIOUS
<1>1. TypeOK
  <2>1. waits \in Seq(Writes)  BY NoWaits DEF Init
  <2>2. fmt \in 0..5 /\ pdh \in Handles \cup {0} /\ taken \in Handles \cup {0}  BY DEF Init
  <2> QED  BY <2>1, <2>2 DEF Init, TypeOK, PcmStates
<1>2. WhatIsKnown /\ OnlyFailedLeak /\ InUseIsSetUp
  BY DEF Init, WhatIsKnown, OnlyFailedLeak, InUseIsSetUp, InUse
<1> QED  BY <1>1, <1>2 DEF IInv

\* A step that changes nothing.
LEMMA StutterGood == IInv /\ UNCHANGED vars => IInv'
BY DEF IInv, TypeOK, PcmStates, WhatIsKnown, OnlyFailedLeak, InUseIsSetUp, InUse,
       vars, specs, writes

\* A refused call and one that crashes change no state of the device.
LEMMA KeepsGood ==
    ASSUME IInv, Keeps, halt' \in BOOLEAN, UNCHANGED <<io, taken, device>>
    PROVE  IInv'
BY DEF IInv, TypeOK, PcmStates, WhatIsKnown, OnlyFailedLeak, InUseIsSetUp, InUse, Keeps, specs

\* prepare, from a new, stopped or failed device.
LEMMA PreparedGood ==
    ASSUME IInv, NEW b, Prepared(b), UNCHANGED <<io, taken, device>>
    PROVE  IInv'
<1> USE DEF IInv, TypeOK, Becomes
<1>1. CASE OpenFails(b)
  BY <1>1 DEF Prepared, OpenFails, WhatIsKnown, OnlyFailedLeak, InUseIsSetUp, InUse,
     Device!DeviceStates, PcmStates
<1>2. ASSUME Opens
      PROVE  /\ pdh' \in Handles /\ open' \subseteq Handles /\ pcm' \in PcmStates
             /\ pdh' \in open' /\ open' \subseteq {pdh'} \cup abandoned
  <2>1. CASE pdh # 0 /\ UNCHANGED <<pdh, open, pcm>>  BY <2>1 DEF OnlyFailedLeak
  <2>2. CASE pdh = 0
    <3>1. PICK h \in Handles : pdh' = h /\ open' = open \cup {h} /\ pcm' = "open"
      BY <1>2, <2>2 DEF Opens
    <3>2. open \subseteq abandoned  BY <2>2 DEF OnlyFailedLeak
    <3> QED  BY <3>1, <3>2 DEF PcmStates
  <2> QED  BY <1>2, <2>1, <2>2 DEF Opens
<1>3. CASE ParamsFail(b)
  <2>1. Opens /\ st' = "Error" /\ known' = TRUE /\ UNCHANGED <<fd, fmt, waits, halt, abandoned>>
    BY <1>3 DEF Prepared, ParamsFail
  <2> QED  BY <2>1, <1>2 DEF WhatIsKnown, OnlyFailedLeak, InUseIsSetUp, InUse,
              Device!DeviceStates
<1>4. CASE SetsUp(b)
  <2>1. Opens /\ st' = "Ready" /\ known' = TRUE /\ fd' = TRUE /\ asked' = b
        /\ UNCHANGED <<waits, halt, abandoned>>
    BY <1>4 DEF Prepared, SetsUp
  <2>2. PICK f \in Settle(b) : fmt' = f[1] /\ bps' = f[2]  BY <1>4 DEF SetsUp
  <2>3. f[1] \in 1..5
        /\ (f[2] = bpss[f[1]] \/ (b = 16 /\ f[1] = 1) \/ (b = 32 /\ f[1] < 5))
    BY SettleIsRight
  <2>4. TypeOK'  BY <2>1, <2>2, <2>3, <1>2 DEF Device!DeviceStates
  <2>5. pdh' # 0  BY <2>1, <1>2
  <2>6. InUseIsSetUp'  BY <2>1, <2>2, <2>3, <2>5 DEF InUseIsSetUp
  <2>7. WhatIsKnown' /\ OnlyFailedLeak'
    BY <2>1, <2>5, <1>2 DEF WhatIsKnown, OnlyFailedLeak
  <2> QED  BY <2>4, <2>6, <2>7
<1> QED  BY <1>1, <1>3, <1>4 DEF Prepared

\* Starting or resuming: only a device that was set up has a handle and says
\* Ready or Paused.
LEMMA StartsGood ==
    ASSUME IInv, st \in {"Ready", "Paused"}, pdh # 0,
           Becomes("Playing"), pcm' \in PcmStates,
           UNCHANGED <<pdh, open, fd, specs, waits, halt, abandoned, io, taken, device>>
    PROVE  IInv'
BY DEF IInv, TypeOK, Becomes, WhatIsKnown, OnlyFailedLeak, InUseIsSetUp, InUse, specs,
       Device!DeviceStates

LEMMA UnpauseGood ==
    ASSUME IInv, st = "Paused", Unpause, UNCHANGED <<io, taken, device>>
    PROVE  IInv'
<1>1. CASE pdh # 0 /\ Becomes("Playing")
           /\ UNCHANGED <<pdh, open, fd, specs, waits, halt, abandoned>> /\ pcm' \in PcmStates
  BY <1>1, StartsGood
<1>2. CASE Keeps /\ halt' \in BOOLEAN
  BY <1>2, KeepsGood
<1>3. TypeOK  BY DEF IInv
<1> QED  BY <1>1, <1>2, <1>3 DEF Unpause, Refused, Crash, TypeOK, PcmStates

LEMMA PlayGood ==
    ASSUME IInv, Play, UNCHANGED <<io, taken, device>>
    PROVE  IInv'
<1>1. TypeOK  BY DEF IInv
<1>2. CASE Prepared(bps)  BY <1>2, PreparedGood
<1>3. CASE st = "Ready" /\ Starts
  BY <1>3, StartsGood DEF Starts, PcmStates
<1>4. CASE Refused \/ Crash  BY <1>1, <1>4, KeepsGood DEF Refused, Crash, TypeOK
<1>5. CASE st = "Paused" /\ Unpause  BY <1>5, UnpauseGood
<1> QED  BY <1>2, <1>3, <1>4, <1>5 DEF Play

LEMMA PauseGood ==
    ASSUME IInv, Pause, UNCHANGED <<io, taken, device>>
    PROVE  IInv'
<1>1. TypeOK  BY DEF IInv
<1>2. CASE /\ st = "Playing" /\ pdh # 0 /\ pcm # "gone"
           /\ pcm' = IF device.canPause THEN "paused" ELSE "dropped"
           /\ Becomes("Paused") /\ CancelWaits
           /\ UNCHANGED <<pdh, open, fd, specs, halt, abandoned>>
  BY <1>2 DEF IInv, TypeOK, PcmStates, Becomes, CancelWaits, WhatIsKnown, OnlyFailedLeak,
              InUseIsSetUp, InUse, specs, Device!DeviceStates
<1>3. CASE Refused \/ Crash  BY <1>1, <1>3, KeepsGood DEF Refused, Crash, TypeOK
<1>4. CASE st = "Paused" /\ Unpause  BY <1>4, UnpauseGood
<1> QED  BY <1>2, <1>3, <1>4 DEF Pause

LEMMA StopGood ==
    ASSUME IInv, Stop, UNCHANGED <<io, taken, device>>
    PROVE  IInv'
<1>1. CASE Stopped
  <2>1. pdh' = 0 /\ fd' = FALSE /\ st' = "Stopped" /\ known' = TRUE
    BY <1>1 DEF Stopped, Becomes
  <2>2. TypeOK'
    BY <1>1, NoWaits DEF IInv, TypeOK, Stopped, Becomes, PcmStates, Device!DeviceStates, specs
  <2>3. open' \subseteq abandoned'
    <3>1. CASE Closes
      BY <1>1, <3>1 DEF Stopped, IInv, OnlyFailedLeak
    <3>2. CASE ~Closes
      BY <1>1, <3>2 DEF Stopped, IInv, OnlyFailedLeak, TypeOK
    <3> QED  BY <3>1, <3>2
  <2> QED  BY <2>1, <2>2, <2>3 DEF IInv, WhatIsKnown, OnlyFailedLeak, InUseIsSetUp, InUse
<1>2. CASE StopFails
  BY <1>2 DEF StopFails, CancelWaits, IInv, TypeOK, PcmStates, WhatIsKnown, OnlyFailedLeak,
              InUseIsSetUp, InUse, specs
<1> QED  BY <1>1, <1>2 DEF Stop

LEMMA CancelGood ==
    ASSUME IInv, Cancel, UNCHANGED <<io, taken, device>>
    PROVE  IInv'
BY DEF Cancel, CancelWaits, IInv, TypeOK, PcmStates, WhatIsKnown, OnlyFailedLeak,
       InUseIsSetUp, InUse, specs

\* A stopped device has no handle, so that none is lost with it.
LEMMA ReplaceGood ==
    ASSUME IInv, Replace, UNCHANGED <<io, taken, device>>
    PROVE  IInv'
<1>1. known' = FALSE /\ pdh' = 0 /\ fd' = FALSE /\ UNCHANGED <<open, abandoned>>
  BY DEF Replace, Created
<1>2. pdh = 0  BY DEF Replace, IInv, WhatIsKnown, TypeOK
<1>3. TypeOK'
  <2>1. waits' \in Seq(Writes)  BY NoWaits DEF Replace
  <2>2. fmt' \in 0..5 /\ pdh' \in Handles \cup {0}  BY DEF Replace, Created
  <2> QED  BY <2>1, <2>2 DEF Replace, Created, IInv, TypeOK, PcmStates
<1> QED
  BY <1>1, <1>2, <1>3 DEF IInv, WhatIsKnown, OnlyFailedLeak, InUseIsSetUp, InUse

LEMMA CallGood == IInv /\ Call => IInv'
<1> SUFFICES ASSUME IInv, Call PROVE IInv'  OBVIOUS
<1>1. UNCHANGED <<io, taken, device>>  BY DEF Call
<1>2. ASSUME NEW b \in Bits, Prepare(b) PROVE IInv'
  BY <1>1, <1>2, PreparedGood DEF Prepare
<1> QED  BY <1>1, <1>2, PlayGood, PauseGood, StopGood, CancelGood, ReplaceGood DEF Call
-----------------------------------------------------------------------------
\* Writes and the I/O thread leave the player's side of the device alone.
LEMMA WritesGood ==
    ASSUME IInv, TypeOK', halt' \in BOOLEAN,
           UNCHANGED <<st, known, pdh, open, fd, specs, abandoned>>
    PROVE  IInv'
BY DEF IInv, WhatIsKnown, OnlyFailedLeak, InUseIsSetUp, InUse, specs

LEMMA AsyncWriteGood ==
    ASSUME IInv, NEW w \in Writes, AsyncWrite(w)
    PROVE  IInv'
<1>1. TypeOK'  BY DEF AsyncWrite, IInv, TypeOK, PcmStates, specs
<1> QED  BY <1>1, WritesGood DEF AsyncWrite, TypeOK

LEMMA IoThreadGood == IInv /\ IoThread => IInv'
<1> SUFFICES ASSUME IInv, IoThread PROVE IInv'  OBVIOUS
<1> USE DEF Same
<1>1. CASE Wake
  <2>1. waits \in Seq(Writes) /\ waits # <<>> => Tail(waits) \in Seq(Writes)  OBVIOUS
  <2>2. TypeOK'  BY <1>1, <2>1 DEF Wake, IInv, TypeOK, PcmStates, specs
  <2> QED  BY <1>1, <2>2, WritesGood DEF Wake, TypeOK
<1>2. CASE WriteChecks
  <2>1. TypeOK'  BY <1>2 DEF WriteChecks, IInv, TypeOK, PcmStates, specs
  <2> QED  BY <1>2, <2>1, WritesGood DEF WriteChecks, TypeOK
<1>3. CASE Writei
  <2>1. TypeOK'  BY <1>3 DEF Writei, IInv, TypeOK, PcmStates, specs, writes
  <2> QED  BY <1>3, <2>1, WritesGood DEF Writei, TypeOK
<1>4. CASE WriteEnds
  <2>1. waits' \in Seq(Writes)
    BY <1>4 DEF WriteEnds, IInv, TypeOK, writes
  <2>2. TypeOK'  BY <1>4, <2>1 DEF WriteEnds, IInv, TypeOK, PcmStates, specs, writes
  <2> QED  BY <1>4, <2>2, WritesGood DEF WriteEnds, TypeOK
<1> QED  BY <1>1, <1>2, <1>3, <1>4 DEF IoThread

LEMMA UnplugGood == IInv /\ Unplug => IInv'
<1> SUFFICES ASSUME IInv, Unplug PROVE IInv'  OBVIOUS
<1>1. TypeOK'  BY DEF Unplug, IInv, TypeOK, PcmStates, specs, writes
<1> QED  BY <1>1, WritesGood DEF Unplug, TypeOK

LEMMA NextGood == IInv /\ [Next]_vars => IInv'
BY StutterGood, CallGood, AsyncWriteGood, IoThreadGood, UnplugGood DEF Next

\* The inductive invariant.
THEOREM DeviceInvHolds == Spec => []IInv
BY InitGood, NextGood, PTL DEF Spec

\* Every variable keeps its type, whatever fails and whenever it is unplugged.
THEOREM DeviceTypeCorrect == Spec => []TypeOK
<1>1. IInv => TypeOK  BY DEF IInv
<1> QED  BY DeviceInvHolds, <1>1, PTL

\* Only handles of devices that failed are ever lost
\* (stop, alsa_output_service_impl.cpp:293-306).
THEOREM OnlyFailedEverLeak == Spec => []OnlyFailedLeak
<1>1. IInv => OnlyFailedLeak  BY DEF IInv
<1> QED  BY DeviceInvHolds, <1>1, PTL

\* A device in use has its handle and descriptor, and asks for the bits of its
\* format (prepare, alsa_output_service_impl.cpp:84-207).
THEOREM InUseSetUp == Spec => []InUseIsSetUp
<1>1. IInv => InUseIsSetUp  BY DEF IInv
<1> QED  BY DeviceInvHolds, <1>1, PTL
-----------------------------------------------------------------------------
LEMMA DeviceInit == Init => Device!Init
BY DEF Init, Device!Init

\* Every call is a step of an output device, or none.
LEMMA CallIsStep == IInv /\ Call => [Device!Next]_<<st, fd>>
<1> SUFFICES ASSUME IInv, Call PROVE [Device!Next]_<<st, fd>>  OBVIOUS
<1> USE DEF Becomes, Device!Next
<1>1. ASSUME NEW b, Prepared(b) PROVE Device!Prepares \/ Device!PrepareFails
  BY <1>1 DEF Prepared, OpenFails, ParamsFail, SetsUp, Device!Prepares, Device!PrepareFails,
              IInv, TypeOK
<1>2. ASSUME pdh # 0, st \in {"Ready", "Playing", "Paused"} PROVE fd
  BY <1>2 DEF IInv, WhatIsKnown, InUseIsSetUp, InUse, TypeOK
<1>3. ASSUME st = "Paused", Unpause PROVE [Device!Next]_<<st, fd>>
  BY <1>2, <1>3 DEF Unpause, Refused, Crash, Keeps, Device!Plays
<1>4. CASE Play
  BY <1>1, <1>2, <1>3, <1>4 DEF Play, Starts, Refused, Crash, Keeps, Device!Plays
<1>5. CASE Pause
  BY <1>2, <1>3, <1>5 DEF Pause, Refused, Crash, Keeps, Device!Pauses
<1>6. CASE Stop  BY <1>6 DEF Stop, Stopped, StopFails, Device!Stops
<1>7. CASE Cancel  BY <1>7 DEF Cancel
<1>8. CASE Replace  BY <1>8 DEF Replace, Created, Device!Replaced
<1>9. ASSUME NEW b \in Bits, Prepare(b) PROVE [Device!Next]_<<st, fd>>
  BY <1>1, <1>9 DEF Prepare
<1> QED  BY <1>4, <1>5, <1>6, <1>7, <1>8, <1>9 DEF Call

LEMMA NextIsStep == IInv /\ [Next]_vars => [Device!Next]_<<st, fd>>
<1> SUFFICES ASSUME IInv, [Next]_vars PROVE [Device!Next]_<<st, fd>>  OBVIOUS
<1>1. CASE Call  BY <1>1, CallIsStep
<1>2. CASE UNCHANGED <<st, fd>>  BY <1>2
<1>3. UNCHANGED vars => UNCHANGED <<st, fd>>  BY DEF vars
<1>4. (\E w \in Writes : AsyncWrite(w)) \/ IoThread \/ Unplug => UNCHANGED <<st, fd>>
  BY DEF AsyncWrite, IoThread, Wake, WriteChecks, Writei, WriteEnds, Unplug, Same
<1> QED  BY <1>1, <1>2, <1>3, <1>4 DEF Next

\* The ALSA output is the output device the player expects: whatever fails, it
\* plays only after it was set up (audio_impl.hpp; play and pause,
\* alsa_output_service_impl.cpp:208-292).
THEOREM IsDevice == Spec => IsOutputDevice
<1>1. Spec => Device!Spec
  BY DeviceInit, NextIsStep, DeviceInvHolds, PTL DEF Spec, Device!Spec
<1> QED  BY <1>1 DEF IsOutputDevice
=============================================================================
