------------------------------ MODULE AlsaOutput ------------------------------
(***************************************************************************)
(* The ALSA output (plugins/alsa/alsa_output_service_impl.cpp) behind the  *)
(* audio I/O interface (asio/audio_io.hpp, audio_service.hpp).  The player *)
(* calls it, one call at a time, and prepares a device only when it has    *)
(* just been given it; a write waits for the PCM's descriptor and is made  *)
(* on the I/O thread, which holds no lock of the player's.  The PCM is     *)
(* libasound's: any call to it may fail, and it may be unplugged.          *)
(***************************************************************************)
EXTENDS Integers, Sequences

CONSTANTS
    Handles,    \* what snd_pcm_open returns
    Bits,       \* bits per sample that tracks come in
    Stray,      \* what may lie before bpss in memory
    Supports,   \* the sets of formats devices may support
    Writes      \* the writes in flight, at most

ASSUME AlsaAssumption ==
    /\ Handles \subseteq Nat \ {0}
    /\ Bits \subseteq Nat /\ Stray \subseteq Nat

VARIABLES
    st,         \* m_state
    known,      \* m_state has been assigned
    pdh,        \* m_pdh, 0 for null
    open,       \* handles opened and not closed
    pcm,        \* state of the PCM behind m_pdh
    fd,         \* m_asio_fd holds its descriptor
    asked, bps, \* bits asked for, bits in m_current_specs
    fmt,        \* the format set, as an index into formats
    waits,      \* writes waiting for the descriptor, first come first served
    io,         \* the I/O thread: "idle", "woken", "writing", "written"
    taken,      \* the handle it writes to
    halt,       \* the program has crashed
    device,     \* [formats, canPause, exclusive] of the hardware
    abandoned   \* history: handles forgotten in a failed device's stop()

specs == <<asked, bps, fmt>>
writes == <<waits, io, taken>>
vars == <<st, known, pdh, open, pcm, fd, specs, writes, halt, device, abandoned>>

Device == INSTANCE OutputDevice WITH ready <- fd
-----------------------------------------------------------------------------
formats == <<"S8", "S16_LE", "S24_3LE", "S24_LE", "S32_LE">>
bpss == <<8, 16, 24, 24, 32>>
Index(b) == CASE b = 8 -> 1 [] b = 16 -> 2 [] b = 24 -> 3 [] b = 32 -> 5 [] OTHER -> 0
Supported == {i \in 1..5 : formats[i] \in device.formats}

\* The nearest format with as many bits or more, else with fewer.
Higher(i) == CHOOSE j \in Supported : j >= i /\ \A k \in Supported : k >= i => j <= k
Lower(i) == CHOOSE j \in Supported : j <= i /\ \A k \in Supported : k <= i => j >= k
HasHigher(i) == \E j \in Supported : j >= i

\* Going down, bps starts from the place fmt has counted from the end.
BpsBelow(i, j) == IF 6 - 2 * i + j >= 1 THEN {bpss[6 - 2 * i + j]} ELSE Stray

\* A faulty Settle: a higher format is set without a word of it.
Settle_keeps_bps(b) ==
    LET i == Index(b) IN
    IF i = 0 \/ Supported = {} THEN {}
    ELSE IF HasHigher(i) THEN {<<Higher(i), b>>}
    ELSE {<<Lower(i), x>> : x \in BpsBelow(i, Lower(i))}

\* The formats and bits prepare may settle on for b bits.
Settle(b) ==
    LET i == Index(b) IN
    IF i = 0 \/ Supported = {} THEN {}
    ELSE IF HasHigher(i) THEN {<<Higher(i), bpss[Higher(i)]>>}
    ELSE {<<Lower(i), x>> : x \in BpsBelow(i, Lower(i))}
-----------------------------------------------------------------------------
Created ==
    /\ st' \in Device!DeviceStates /\ known' = FALSE
    /\ pdh' = 0 /\ pcm' = "none" /\ fd' = FALSE
    /\ asked' = 0 /\ bps' = 0 /\ fmt' = 0

Init ==
    /\ st \in Device!DeviceStates /\ known = FALSE
    /\ pdh = 0 /\ open = {} /\ pcm = "none" /\ fd = FALSE
    /\ asked = 0 /\ bps = 0 /\ fmt = 0
    /\ waits = <<>> /\ io = "idle" /\ taken = 0
    /\ halt = FALSE
    /\ device \in [formats : Supports, canPause : BOOLEAN, exclusive : BOOLEAN]
    /\ abandoned = {}

Becomes(s) == st' = s /\ known' = TRUE
Keeps == UNCHANGED <<st, known, pdh, open, pcm, fd, specs, waits, abandoned>>

\* A handler that is waiting is called with an error when its wait is cancelled.
CancelWaits == waits' = IF fd THEN <<>> ELSE waits

\* A call that libasound refuses, which throws and changes nothing.
Refused == Keeps /\ UNCHANGED halt
\* A call with a null handle or null parameters.
Crash == halt' = TRUE /\ Keeps

Opens ==
    \/ pdh # 0 /\ UNCHANGED <<pdh, open, pcm>>
    \/ /\ pdh = 0 /\ ~(device.exclusive /\ open # {})
       /\ \E h \in Handles \ (open \cup {taken}) :
             pdh' = h /\ open' = open \cup {h} /\ pcm' = "open"

OpenFails(b) ==
    /\ pdh = 0
    /\ Becomes("Error")
    /\ asked' = b /\ bps' = b
    /\ UNCHANGED <<pdh, open, pcm, fd, fmt>>

\* The bits are unknown, or a parameter is refused: the handle stays open.
ParamsFail(b) ==
    /\ Opens
    /\ Becomes("Error")
    /\ asked' = b /\ bps' \in {b} \cup {f[2] : f \in Settle(b)}
    /\ UNCHANGED <<fd, fmt>>

SetsUp(b) ==
    /\ pcm # "gone"
    /\ Opens
    /\ Becomes("Ready")
    /\ asked' = b
    /\ \E f \in Settle(b) : fmt' = f[1] /\ bps' = f[2]
    /\ fd' = TRUE

Prepared(b) ==
    /\ OpenFails(b) \/ ParamsFail(b) \/ SetsUp(b)
    /\ UNCHANGED <<waits, halt, abandoned>>

\* The player prepares the device it has just been given.
Prepare(b) == ~known /\ pdh = 0 /\ Prepared(b)

Starts ==
    /\ pdh # 0 /\ pcm # "gone"
    /\ Becomes("Playing") /\ pcm' = "running"
    /\ UNCHANGED <<pdh, open, fd, specs, waits, halt, abandoned>>

\* unpause(): the results of snd_pcm_prepare and snd_pcm_start are not looked at.
Unpause ==
    \/ /\ pdh # 0
       /\ IF device.canPause THEN pcm = "paused" /\ pcm' = "running"
          ELSE pcm' \in {pcm} \cup (IF pcm = "gone" THEN {} ELSE {"running"})
       /\ Becomes("Playing")
       /\ UNCHANGED <<pdh, open, fd, specs, waits, halt, abandoned>>
    \/ pdh # 0 /\ device.canPause /\ Refused
    \/ pdh = 0 /\ Crash

Play ==
    \/ st \in {"Stopped", "Error"} /\ Prepared(bps)
    \/ st = "Ready" /\ (Starts \/ (pdh # 0 /\ Refused) \/ (pdh = 0 /\ Crash))
    \/ st = "Paused" /\ Unpause

Pause ==
    \/ /\ st = "Playing" /\ pdh # 0 /\ pcm # "gone"
       /\ pcm' = IF device.canPause THEN "paused" ELSE "dropped"
       /\ Becomes("Paused") /\ CancelWaits
       /\ UNCHANGED <<pdh, open, fd, specs, halt, abandoned>>
    \/ st = "Playing" /\ pdh # 0 /\ Refused
    \/ st = "Playing" /\ pdh = 0 /\ Crash
    \/ st = "Paused" /\ Unpause
-----------------------------------------------------------------------------
\* A stopped or failed device's handle is not closed, but it is forgotten.
Closes == st \notin {"Stopped", "Error"} /\ pdh # 0

\* A faulty Stopped: the handle is never closed.
Stopped_no_close ==
    /\ pcm # "gone" \/ ~Closes
    /\ Becomes("Stopped")
    /\ pdh' = 0 /\ pcm' = "none" /\ fd' = FALSE
    /\ waits' = <<>>
    /\ open' = open
    /\ abandoned' = abandoned \cup IF Closes THEN {} ELSE {pdh} \ {0}
    /\ UNCHANGED <<specs, halt>>

\* Another faulty Stopped: the descriptor is not released.
Stopped_no_release ==
    /\ pcm # "gone" \/ ~Closes
    /\ Becomes("Stopped")
    /\ pdh' = 0 /\ pcm' = "none"
    /\ UNCHANGED <<fd, waits>>
    /\ open' = IF Closes THEN open \ {pdh} ELSE open
    /\ abandoned' = abandoned \cup IF Closes THEN {} ELSE {pdh} \ {0}
    /\ UNCHANGED <<specs, halt>>

Stopped ==
    /\ pcm # "gone" \/ ~Closes
    /\ Becomes("Stopped")
    /\ pdh' = 0 /\ pcm' = "none" /\ fd' = FALSE
    /\ waits' = <<>>
    /\ open' = IF Closes THEN open \ {pdh} ELSE open
    /\ abandoned' = abandoned \cup IF Closes THEN {} ELSE {pdh} \ {0}
    /\ UNCHANGED <<specs, halt>>

\* snd_pcm_drop or snd_pcm_close fails: only the waits are cancelled.
StopFails ==
    /\ Closes
    /\ CancelWaits
    /\ UNCHANGED <<st, known, pdh, open, pcm, fd, specs, halt, abandoned>>

Stop == Stopped \/ StopFails

Cancel ==
    /\ waits # <<>> /\ CancelWaits
    /\ UNCHANGED <<st, known, pdh, open, pcm, fd, specs, halt, abandoned>>

\* The player makes another device of the one it has stopped.
Replace ==
    /\ st = "Stopped" /\ known
    /\ Created /\ waits' = <<>>
    /\ UNCHANGED <<open, halt, abandoned>>

\* A call by the player, whatever the I/O thread is doing.
Call ==
    /\ ~halt
    /\ (\E b \in Bits : Prepare(b)) \/ Play \/ Pause \/ Stop \/ Cancel \/ Replace
    /\ UNCHANGED <<io, taken, device>>
-----------------------------------------------------------------------------
\* Without a descriptor the handler is called at once, with an error.
AsyncWrite(w) ==
    /\ ~halt
    /\ fd /\ w \notin {waits[i] : i \in DOMAIN waits}
    /\ waits' = Append(waits, w)
    /\ UNCHANGED <<st, known, pdh, open, pcm, fd, specs, io, taken, halt, device, abandoned>>

Same == UNCHANGED <<st, known, pdh, open, pcm, fd, specs, halt, device, abandoned>>

\* A paused PCM takes no samples; one that was dropped or is gone is an error.
Wake ==
    /\ ~halt
    /\ io = "idle" /\ waits # <<>> /\ pcm \notin {"paused", "none"}
    /\ waits' = Tail(waits) /\ io' = "woken"
    /\ UNCHANGED taken /\ Same

WriteChecks ==
    /\ ~halt /\ io = "woken"
    /\ IF pdh = 0 THEN io' = "idle" /\ UNCHANGED taken
       ELSE io' = "writing" /\ taken' = pdh
    /\ UNCHANGED waits /\ Same

\* After an underrun the PCM is recovered and nothing was written.
Writei ==
    /\ ~halt /\ io = "writing"
    /\ IF taken \in open
       THEN /\ \/ pcm \in {"running", "open"} /\ io' = "written" /\ UNCHANGED taken
               \/ io' = "idle" /\ taken' = 0
            /\ UNCHANGED waits /\ Same
       ELSE /\ halt' = TRUE
            /\ UNCHANGED <<st, known, pdh, open, pcm, fd, specs, writes, device, abandoned>>

\* What is left of the buffer is written next, by asio::async_write.
WriteEnds ==
    /\ ~halt /\ io = "written"
    /\ IF pdh # 0
       THEN /\ io' = "idle" /\ taken' = 0
            /\ waits' \in {waits} \cup {Append(waits, w) : w \in
                  IF fd THEN Writes \ {waits[i] : i \in DOMAIN waits} ELSE {}}
            /\ Same
       ELSE /\ halt' = TRUE
            /\ UNCHANGED <<st, known, pdh, open, pcm, fd, specs, writes, device, abandoned>>

IoThread == Wake \/ WriteChecks \/ Writei \/ WriteEnds

Unplug ==
    /\ ~halt /\ pcm \notin {"none", "gone"}
    /\ pcm' = "gone"
    /\ UNCHANGED <<st, known, pdh, open, fd, specs, writes, halt, device, abandoned>>

Next == Call \/ (\E w \in Writes : AsyncWrite(w)) \/ IoThread \/ Unplug

Spec == Init /\ [][Next]_vars /\ WF_vars(IoThread)
-----------------------------------------------------------------------------
PcmStates == {"none", "open", "running", "paused", "dropped", "gone"}

\* Every variable keeps its type.
TypeOK ==
    /\ st \in Device!DeviceStates /\ known \in BOOLEAN /\ fd \in BOOLEAN /\ halt \in BOOLEAN
    /\ pdh \in Handles \cup {0} /\ open \subseteq Handles /\ abandoned \subseteq Handles
    /\ pcm \in PcmStates
    /\ fmt \in 0..5 /\ waits \in Seq(Writes)
    /\ io \in {"idle", "woken", "writing", "written"} /\ taken \in Handles \cup {0}

\* The handles the program has are the one in use, which was not closed before,
\* and those of devices that could not be prepared: stop() in state Error
\* forgets these without closing them (alsa_output_service_impl.cpp:293-306).
OnlyFailedLeak ==
    /\ pdh \in open \cup {0}
    /\ open \subseteq {pdh} \cup abandoned

InUse == known /\ st \in {"Ready", "Playing", "Paused"}

\* A device that says Ready, Playing or Paused has a handle to play to and a
\* descriptor to wait for, whatever call failed before, and asks the player for
\* as many bits as the format it set has, except where the search for a lower
\* format starts at the wrong place (alsa_output_service_impl.cpp:131-136).
InUseIsSetUp ==
    InUse =>
        /\ pdh # 0 /\ fd
        /\ bps = bpss[fmt] \/ (asked = 16 /\ fmt = 1) \/ (asked = 32 /\ fmt < 5)

\* Seen from the player the device is an output device: it plays only after
\* it was set up, and a failure or a stop takes it back to the start.
IsOutputDevice == Device!Spec

\* A write that waits is made or cancelled, unless the device is paused or
\* the program has crashed.
WritesAnswered ==
    \A w \in Writes :
        (\E i \in DOMAIN waits : waits[i] = w)
            ~> ((\A i \in DOMAIN waits : waits[i] # w) \/ pcm = "paused" \/ halt)

\* "assert(m_pdh != nullptr)" after snd_pcm_writei
\* (alsa_output_service_impl.cpp:331).
HandleStays == io = "written" => pdh # 0
=============================================================================
