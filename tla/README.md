# Verification of melosic

melosic is a plugin-based music player in C++: a core that plays playlists
through a decoder and an output device, managers for plugins, configuration,
playlists and the library, and a Qt/QML user interface. This directory holds
TLA+ models of it, the TLC configurations that check them on small instances,
and theorems about them that TLAPS checks for every value of the constants.
Paths below are relative to `src/src/melosic/`.

## 1. The system

| Part | Source | State it keeps | Operations | What makes it correct |
|---|---|---|---|---|
| Player | `core/player.cpp` | state object (Stopped, Playing, Paused, Error), current playlist, iterator, current and pre-loaded source, device, `in_buf`; all under `mu` | play, pause, stop, next, previous, jumpTo, seek; `write_handler`, `read_handler`; slots for a new playlist and a new device | the state reported is the device's; a player that is Playing is fed; every track is heard once and in order; late completions do nothing |
| Output device | `plugins/alsa/` behind `asio/audio_*.hpp` | `m_state`, PCM handle, descriptor, specs | prepare, play, pause, stop, cancel, asynchronous write | no handle is lost but a failed device's; a device in use was set up; every write is answered |
| Output manager | `melin/output.cpp` | factories, chosen sink | createASIOSink, its settings | the player is told of a new sink after it was chosen |
| Decoders | `melin/decoder.cpp`, `plugins/flac`, `plugins/wavpack`, `core/track.cpp` | providers, open stream, decoded rest, position | list, open, decode, seek, valid | no sample is lost or repeated; the end a player is told of is the end |
| Playlists | `melin/playlist.cpp`, `core/playlist.cpp` | playlists and the current one; tracks | insert, erase, setCurrent; insert, erase, iterate | everybody comes to follow the current playlist |
| Signals | `common/signal_core.hpp`, `connection.hpp` | slot lists; one signal thread, one disconnect thread | connect, disconnect, call | each call reaches the slots copied; a slot that throws is gone afterwards |
| Config | `melin/config.cpp` | tree of nodes; the file | load, save, createChild, merge, putNode | what was applied and saved comes back; managers work with what the tree says |
| Plugins, kernel, main | `melin/plugin.cpp`, `melin/kernel.cpp`, `main.cpp` | managers, threads, loaded plugins | start-up, loadPlugins, exit | a start ends; the plugins are those configured |
| Library | `melin/library.cpp` | directories, JSON database, scanning flag | setting, scan (look, add, update, prune), query | no name twice; what is configured and there is recorded; scans end |
| Playlist views | `gui/playlistmodel.cpp`, `gui/categoryproxymodel.cpp`, `gui/playlistmanagermodel.cpp` | rows; blocks of rows of one category; models of playlists | insert, remove, move, refresh; the announcements before and after | blocks are the stretches of one category; headers stand where they belong |
| Filter panes | `gui/filterpane.cpp`, `gui/selectionmodel.cpp`, `gui/mainwindow.qml` | query, rows, selection, timer of each pane | scan events, select, setQuery | a pane shows what its query finds, and asks what the pane before generated |
| Configuration dialog | `gui/configmanager.cpp` | what each widget shows and would reset to | edit, Reset, Apply | only edits are written |

How they interact. The GUI thread calls the player and the managers directly.
The managers emit signals; their slots run one at a time on the signal thread,
on a copy of the slot list, and a slot that throws is disconnected by another
thread. Writes to the device are asynchronous: `read_handler` posts a lambda to
a thread pool, the lambda starts `async_write`, and its handler runs on the
single thread of the audio `io_service`, where it calls `write_handler` for the
next buffer. Scans run on a thread pool of the library and tell of their start
and end by signals. The GUI's models hear of changes as slots or as queued
events, and panes and proxies mend themselves call by call.

What is hard here: `play` releases `mu` between its two halves; completions
arrive after the session they belong to; the device can fail or be replaced in
the middle of a transition; signals bring news of a state that has changed
again; a slot may emit; a save may be cut short; scans overlap; rows are
announced before and after they change. `PROJECT.json` lists these hazards at
their lines, each with the properties that look for it.

## 2. The modules

| Module | Models | Composed of |
|---|---|---|
| `Player` | the player and, as far as it uses them, device, decoders, iterators | |
| `PlayerSession` | `Player` with a listener who waits, or who skips; implements `GaplessPlayback` | `Player` |
| `GaplessPlayback` | abstract: a playlist's buffers come out in order, each once | |
| `AlsaOutput` | the ALSA output with libasound and the I/O thread; implements `OutputDevice` | |
| `OutputDevice` | abstract: what the player expects of a device | |
| `Decoding` | a track from its file to the player: listing, opening, decoding, seeking | |
| `Signals` | connections, calls, the signal thread and the disconnect thread | |
| `Settings` | the configuration's file and tree, the managers that apply it, plugins, the dialog, crashes | |
| `Library` | the library, its directories, scans and transactions, restarts | |
| `Playlists` | the playlist manager, the GUI's model, player and controls that follow it | |
| `Categories` | a playlist's model and the proxy that groups its rows | |
| `Filters` | the filter panes over a library that scans change | |
| `AlsaProofs`, `DecodingProofs`, `SignalsProofs`, `SettingsProofs`, `LibraryProofs`, `PlaylistsProofs`, `FiltersProofs` | the theorems about one module each | the module |
| `PlayerProofs` | the theorems about `Player`, and about sessions | `PlayerSession` |

`MC<module>` are the instances TLC checks. An operator that begins with the
name of another and is commented as faulty (`Stopped_no_close`) is a plausible
bug in the code the other models; no specification uses it, and each shows that
a property notices it.

**`Player`**. What `mu` protects is one record, `player`; one critical section
is one action, whose operators have the names of the functions (`play_impl`,
`next_impl`, `read_handler`, ...) and are composed in the order of the calls.
`Then` and `Catch` are the control flow of C++: nothing runs after a throw, and
a handler runs after one. `thrown` is an exception on its way up; `halt` names
the assert, null dereference or second lock that ends the program. The other
variables are the call of `write_handler` each thread is about to make
(`call`), the slot of the signal thread that is half done (`sig`), whether the
sink slot is still connected, and the number of commands given.

| Thread | Actions |
|---|---|
| GUI | `Play`, `Pause`, `Stop`, `NextTrack`, `PreviousTrack`, `JumpTo`, `Seek`, and `WriteHandler("gui")`, the second half of play() |
| audio `io_service` | `DeviceWrite`, `DeviceFail`, `DeviceUnderrun` (a write that fails, or that recovers an underrun and completes with nothing written and no error, its remainder put back), `HandleError`, then `WriteHandler("audio")` |
| pool | `StartWrite`, the posted lambda |
| signal | `ChangePlaylist` and `EnterPlaylist` (the slot's two steps), `ChangeSink` |

**`PlayerSession`** records in `heard` what the device took since playback began,
and maps to `GaplessPlayback`. Seeking goes to any of `Places`: what a seek leaves
of a track is any number of whole buffers, with or without a shorter one, so that
the last decode may also return nothing. `previous` on the first track resets the
decoder (`Rewound`): WavPack's does nothing, FLAC's loses the first block. The
module also states what the theorems about sessions
assume of files and device (`WellServed`, `NoneDropped`); TLC evaluates both on
the instance of the runs.

**`AlsaOutput`**. Each call of the service is one action of the player's side
(`Prepare`, `Play`, `Pause`, `Stop`, `Cancel`, `Replace`), with the ways it can
fail as disjuncts; `Settle` is the search for a format. The I/O thread makes a
write in four steps (`Wake`, `WriteChecks`, `Writei`, `WriteEnds`), between
which the player may call anything. libasound and the hardware are external: a
call may be refused, and `Unplug` may come at any moment.

**`Decoding`**. `List` is `tracks()`, `Restore` a track made from the library's
document, `Open` the first plugin that knows the file, `Decode` one request of
the player with what it concludes from it (`Outcome`), `Seek` one seek. A sample
is its place in the track. libFLAC hands over whole blocks, WavPack what it is
asked for; the rest a FLAC request leaves over stays in `buf`.

**`Signals`**. `Call` copies the slots and dispatches; a call inside a slot
(`SlotEmits`) runs at once with the signal's mutex held. `SlotThrows` leaves a
failure to the disconnect thread (`CountDown`, then `DisconnectFailed`);
`Finish` spins until the count is zero. `Expire` drops an object that a slot
holds weakly.

**`Settings`**. `phase` is where the main thread is: load, save, plugins,
window, dialog, exit. Each manager's slot of "loaded" is the steps create,
merge, apply and connect of its section (`jobs`), taken by the signal thread;
`PutNode` tells the managers through `updates`, and `Told` is their
`variableUpdateSlot`: a manager knows some keys (`Keys`), ignores a value of a
type it does not read, and the plugin manager clears a list before it reads the
new one (`ListOf`), so that of a value that is no list nothing is left, of a
list with something else in it the part before, and of no search paths the
default ones. The blacklist has no default node. `LoadPlugins` goes by what was
applied so far, and `LoadPluginsThrows` (a bad blacklist, a directory that
cannot be walked, a plugin's `init`) ends main(), where the kernel saves again.
A crash may come at any step; `SaveBegin` truncates the file, `SaveEnd`
completes it.

**`Library`**. `queue` is the signal thread's (loaded, directories changed,
plugins loaded, scan started, scan ended), `tasks` are the scans on the pool,
each with a place: `ScanStarts`, `LockDirs`, then for each directory `Prune`,
`Visit` and `DirDone` in two transactions. A transaction can be begun when no
other is open; `Stop` undoes an open one. Between any two steps files are
written or removed and the setting changes. A name that is no directory is skipped
(`Named`), and a stored value that is no list of names leaves no directory, at which
`LoadedEnds` drops everything. Directories themselves neither come nor go while the
program runs, so that the tests of `exists` before a walk pass; `bad_get` ends a
scan's signal (285) only while one runs, which is not the case at "loaded", and the
dialog keeps a value's type.

**`Playlists`**. The GUI thread's call of the manager is begun, signals with
the lock released, and returns; `queue` and `frames` are the calls on the
signal thread, one inside the other when the model's slot sets the current
playlist again. Player and controls follow by slots of their own.

**`Categories`**. Every handler of the proxy is an operator on one record (rows,
`owner`, `first`, `count`, what the delegates hold), and an operation of the
playlist is the handlers before it, the change and the handlers after it, in the
order Qt calls them; Qt's move of persistent indices is external. The view comes
and goes (`SetCategory`, `DropView`). `asserts` is whether the build has
`checkForConsistency` (`NDEBUG` takes its calls away; the other asserts stay in
every build, by `BOOST_ENABLE_ASSERT_HANDLER`): `Checked` runs it where the proxy
does, after a change of data, a removal and a move, and also before rows go, when
counts are lowered and the rows are still there. New rows get their delegates once
the handlers are done, when the view is laid out (`NewDelegates`, with its
`assert(m_block)`). `Blank` is a row of no category, which loses its block. `odd`
records which of the exceptions named in the properties has occurred.

**`Filters`**. A query is the set of tracks it finds. Calls run one inside the
other on the GUI thread: `queryChanged` of a pane generates its query, which sets
that of the next, and refreshes it, which clears its selection, which generates
again. `todo` is the stack of what they have still to do, innermost first:
`Generate` is `generate_query()`, `Refresh` and `Answer` are the two halves of
`refresh()`, before and after the selection is cleared. The GUI thread does
nothing else until the stack is empty, but a scan may change the library between
any two steps. Scans reach the panes through the signal thread and queued events;
a pane with a delay has a timer (`Timeout`).

### Abstractions

- A buffer is a track and its number; its bytes are not modelled. A write either
  completes or does not: what is left after a partial write, one that fails, or
  one that recovers an underrun, is the same buffer.
- `Player`: a track is `FullBuffers` whole buffers and perhaps a shorter one;
  `Outcomes` says which kind of call fails, for the whole critical section; the
  state of a new ALSA service is not initialised by its constructor and is any
  value of `Garbage`; `seek` is one step.
- `AlsaOutput`: only formats and bits of the hardware parameters; `Stray` is
  what an index before `bpss` may read.
- `Settings`: a node is a value of a small set; the file is a tree, missing, or
  broken. A plugin is whether its interface is current, whether it is a decoder
  and whether its provider has the type expected. A manager that lacks a value
  in the tree works with what it starts with.
- `Library`: a directory is a name with the files under it and the locations
  that begin with it; a track is how many documents there are for a location.
- `Playlists`: a playlist's tracks are left out but for the one playing.
- Logging, wording and layout are left out.

## 3. The runs

| Run | Question | Instance, distinct states |
|---|---|---|
| `player_full` | Do `TypeOK`, `StateMatchesDevice`, `NoOrphanedWrite`, `PlayingIsFed` and `LateCompletionIsHarmless` hold whatever the user does and whichever call fails? | 2 playlists; a FLAC track, a WavPack one shorter than a buffer and of another format, one that cannot be opened; a device that settles on CD audio; 6 commands of any kind, underruns; 368,071 |
| `session_listen` | Does a listener who waits hear each playlist whole (`HearsWholePlaylist`, the refinement of `GaplessPlayback`), and does it end (`HearingEnds`)? | 2 playlists of 3 tracks in different order and an empty one, a change of rate, 6 commands; 379 |
| `session_skip` | Under next, previous and seek at any moment: `SourceMatchesIterator`, `OneChain`, `HaltsAtEdgesOnly`, `PlaybackEnds`? | the same playlists, 5 commands, underruns; 103,872 |
| `device` | Is the ALSA output an `OutputDevice` (`IsOutputDevice`), is no handle lost but a failed device's (`OnlyFailedLeak`), is a device in use set up (`InUseIsSetUp`), is every write answered (`WritesAnswered`)? | 2 handles, 2 writes, 16, 20 and 32 bits, devices with several, one or no formats, that can pause or not, exclusive or not; 43,618 |
| `decoding` | Is no sample lost or heard twice (`NoGaps`), is the end the end (`EndIsTheEnd`), is the length listed what is heard (`ListedLengthPlays`), does reading end (`ReadingEnds`)? | tracks of 5 samples in blocks of 2, whole, cut or corrupt, requests of 2 to 4, 2 seeks; 161,520 |
| `signals` | Is no failure counted in a frame that is gone (`CountersAreLive`), does every slot copied run (`EveryCopyRuns`), do calls end and leave no failed slot (`CallsEndOrEmbrace`)? | 2 signals, 4 slots, one that emits and two bound to objects that may go, 2 calls; 91,141 |
| `settings` | `WorkingFollowsTree`, `SettingsSurvive`, `PluginsAsConfigured`, `OnlyEditsAreApplied`, `StartsUp` | 3 managers, 3 sections, 5 nodes of three types, 4 plugins, files with values of the wrong type, 2 starts, one edit, a crash anywhere; 145,653 |
| `library` | `NoNameTwice`, `OnlyConfigured`, `Complete`, `ScansEnd` | 2 directories, one's name a prefix of the other's, a link, a name of nothing, a stored value that cannot be read, 2 files, 2 events of the world; 436,420 |
| `playlists` | `AllFollow`, `StuckOnlyIfCrossed`, `ComesToRest` | 3 playlists, 5 operations; 77,663 |
| `categories` | `BlocksAreRuns`, `HeadersDrawn` | 4 rows, 2 categories (symmetric) and rows of none, builds with and without the check, any number of operations; 22,203 |
| `filters` | `ValuesAreSelected`, `QueriesChain`, `ShowsLibrary`, `PanesLeaveScanning` | 2 panes, one delayed, 2 tracks, 2 scans, 2 selections; 706,415 |
| `says_handle_stays` | the assert after `snd_pcm_writei` | as `device`; ends in a counterexample |

Bounds, and why they are enough. `MaxOps` of `player_full` counts the commands:
six suffice for the situations that the hazards name, which are choose, play and
four more, such as pause, next, play and stop before a late completion. Three
tracks give a first, a middle and a last one; `PreloadAt = 2` makes the
pre-loaded source live through several steps. The sessions put the track shorter
than a buffer after one of the same rate, because a short track of another rate
is dropped whole (its only buffer is the one thrown away for the re-preparation,
after the iterator has moved on). Two handles let a new device meet the handle an
old one leaked. Blocks of two samples against requests of two, three and four
give requests that divide them and requests that do not. Two calls of two signals
are the fewest that nest and overlap. Two starts let a crash or a bad setting of
the first meet the second. Two events let scans overlap with a change, and a
change with a restart. Five operations on three playlists let two changes cross.
Four rows have a first, a last and two middle rows, so that a stretch can be
split, joined and moved. Two panes make a chain; the query of each further pane
depends on the one before in the same way.

The sessions are narrower than `player_full` on purpose: they state what the
player promises to a user who does not pause, stop, jump or change the device
during playback. With those, the promises do not hold, as section 4 says. They
also issue no command between the two steps of `currentPlaylistChangedSlot`,
where the iterator still belongs to the old playlist. `categories` stops at a
step the proxy does not mend (its constraint `Mended`): a move that leaves the
blocks skewed, a category set over rows, a row of no category. What is claimed
of the step itself is checked there. `session_listen` is run without underruns, as
one at the last buffer ends the program (section 4) and with it the promise that
playback stops; that what is heard is right with them too is a theorem.

Deadlock is not checked where the system really stops: the player rests when
nothing plays and the commands are used up, the signal threads when no call is
left, the program after its last start, panes and library when nobody does
anything, a device that crashed.

Fairness is of threads that run while they have work, and weak but for the
device's: it may run out of data, but not every time it is given some (`Taken`).

| Module | Fair | Why |
|---|---|---|
| `PlayerSession` | each thread's `WriteHandler` and posted work; strongly, the device's taking of a write | `io_service::run` and the pools run what is posted; a command in progress returns |
| `AlsaOutput` | `IoThread` | the audio thread runs `io_service::run` (`melin/kernel.cpp:47`) |
| `Decoding` | `Open`, `Decode` | the player goes on asking while a source has more |
| `Signals` | `SignalThread`, `DisconnectThread` | two pools of one thread each (`common/signal_core.hpp:65`) |
| `Settings` | `MainThread`, `SignalThread` | a start and a save go on by themselves |
| `Library` | `SignalThread`, `Pool` | as above; a task that waits for a lock or a transaction is disabled meanwhile |
| `Playlists` | `Gui`, `SignalThread` | a call of the GUI thread that was begun goes on |
| `Filters` | `Starting`, `Scanner`, `TellPanes`, `Events`, `GoesOn`, each `Timeout` | the threads, the event loop and its timers run, and a call in progress goes on |

No command, edit or event of the world is fair: a user need not do anything.

## 4. Where the code says otherwise

`says_handle_stays` checks `assert(m_pdh != nullptr)` after `snd_pcm_writei`
(`plugins/alsa/alsa_output_service_impl.cpp:331`): `stop()` takes no lock that
the write takes and may close the handle between the two. `findings` in
`PROJECT.json` quotes it.

The models reproduce more behaviour that a reader of the code might not expect.
It is named in the properties as an exception, or by a value of `halt`:

- Player: a jump keeps the source pre-loaded for another track; a WavPack track
  that ends locks `mu` again from `read_handler`; a track that cannot be opened
  is a null source that is dereferenced, or fails the assert after pre-loading;
  a FLAC source left with whole buffers, by its length, by a seek or by the
  reset of `previous`, ends with an empty decode, at which
  `assert(!in_buf.empty())` fails (`core/player.cpp:388`); an underrun that is
  recovered completes with 0 bytes and no error
  (`alsa_output_service_impl.cpp:324-328`), its buffer goes back to `in_buf`,
  and at the end of the playlist `assert(in_buf.empty())` fails (415), as it
  does after pause, next and play. `HaltsAtEdgesOnly` names the two. A change of
  sink while Playing stops and replaces the device (577-583), `play_impl` does
  nothing in that state and the waiting write ends as cancelled, so that the
  player is Playing in silence on a device nobody set up until it is stopped;
  `PlayingIsFed` names it and shows that nothing else leads there. A change of
  sink while Paused fails, as the new device is not prepared either: the player
  stops in Error, or an assert fails; a device that settles on another rate
  makes the re-preparation loop; `widen` aborts for a device with fewer bits
  than the track.
- Signals: a nested call that fails again before the disconnect thread is done
  with an earlier failure waits for that thread, which waits for its mutex
  (`Embraced`). The future of a call is ready before the slot is gone, though
  `signal_test.cpp:180` counts the slots then.
- Settings: a crash inside a save leaves a file that does not parse, and the
  next start finds no section and hangs in `createChild` with the tree locked. A
  blacklist that is no regular expression, or a decoder plugin of a foreign
  type, ends every start until the file is mended by hand, and so does a search
  path that cannot be walked. A list that cannot be read is not ignored: it is
  cleared first, so that a bad blacklist bars nothing, and bad search paths are
  none at all where an empty list would be the defaults. An update that falls
  between applying a section and connecting to it is not heard.
- Library: a link that is configured before or after its directory has the files
  of both recorded under both names, so that a file is there twice, though no
  name is; a "directories" that cannot be read at start drops every track; a
  directory that is removed takes the tracks of another whose name begins the
  same; a directory removed during its scan leaves tracks; an update removes a
  track and does not add it again until the next scan.
- Playlists: two changes of the current playlist that cross let the model's slot
  wait for itself. The jump of a double click may be undone by the player's
  slot.
- Categories: the check for consistency also runs before rows are removed or
  moved (`categoryproxymodel.cpp:123`, 141), when they are already counted out
  of their block and still there: with rows A A B, to remove the second A leaves
  a block of one row before a row 3 that does not follow it, and the assert
  fails in builds that have the check. `BlocksAreRuns` says for which rows:
  those cut out of a stretch they do not begin and that is not the last. A new
  row of no category fails its delegate's assert (506). Two or more rows moved
  up from the middle leave two blocks for one stretch; a category set over a
  playlist that has rows fails an assert.
- Filters: a pane made just as a scan ends stays empty.
- AlsaOutput: `stop()` in state Error forgets the handle without closing it; the
  search for a lower format starts at a wrong index, so that the bits told to
  the player are not those of the format.

## 5. The proofs

Every theorem is proved for all values of the constants that satisfy the
assumptions its module states (`TrackAssumption`, `LibraryAssumption`, ...), and
those about sessions name two more, `WellServed` and `NoneDropped`. The form is
the same everywhere: an inductive invariant (`Inv`, `IInv`, `SInv`, `HInv`), one
lemma for what each action or operator does to it, and a temporal step that
combines them. TLC checked each invariant on a small instance before it was
proved.

| Module | Theorems |
|---|---|
| `PlayerProofs`, the player | `TypeCorrect`, `StateMatches`, `NoOrphaned`, `AlwaysFed` (`PlayingIsFed`), `LateCompletion` |
| `PlayerProofs`, sessions | `SessionIsPlayer`, `SkipsKeepOneChain` (`OneChain`), `SkipsHaltAtEdgesOnly` (`HaltsAtEdgesOnly`), `SkipsMatchSource` (`SourceMatchesIterator`), and the refinement `ListenerHearsAll` (`HearsWholePlaylist`) |
| `AlsaProofs` | `DeviceTypeCorrect`, `OnlyFailedEverLeak`, `InUseSetUp`, and the refinement `IsDevice` |
| `DecodingProofs` | `GaplessDecoding` (`NoGaps`), `AnnouncedEnd` (`EndIsTheEnd`), `ListedLength` (`ListedLengthPlays`) |
| `SignalsProofs` | `CountersLive` (`CountersAreLive`), `EveryCopy` (`EveryCopyRuns`) |
| `SettingsProofs` | `ManagersFollow` (`WorkingFollowsTree`), `AppliedSurvives` (`SettingsSurvive`), `PluginsConfigured` (`PluginsAsConfigured`), and the action property `EditsApplied` (`OnlyEditsAreApplied`) |
| `LibraryProofs` | `NamesRecordedOnce` (`NoNameTwice`), `OnlyWhatIsConfigured` (`OnlyConfigured`), `EverythingFound` (`Complete`) |
| `PlaylistsProofs` | `EveryoneFollows` (`AllFollow`), `NeverStuckByOneChange` (`StuckOnlyIfCrossed`) |
| `FiltersProofs` | `ValuesSelected` (`ValuesAreSelected`), `ChainOfQueries` (`QueriesChain`), `LibraryShown` (`ShowsLibrary`) |

**Player.** The three invariants are not inductive alone. `Inv` adds: an
iterator is null or points into its playlist or to its end (`IteratorSound`,
without which a track fetched through it has no type); a source is null or
decodes a known track (`SourceSound`); a device with an open descriptor is
Ready, Playing or Paused and writes wait only then (`Sound`); and the player's
state agrees with it (`Agree`). `Good(p)` is this for one record. Each operator
of `Player` has a lemma that it preserves `Good`, with the facts its callers
need: that a `stop_impl` that did not throw leaves the player idle and the device
closed, that a move of the iterator leaves the device alone. An action then keeps
`Inv` by the lemmas of the operators it composes; there is one lemma per group of
actions, one case per action. `LateCompletion` follows from the actions: where
the state is not Playing, every step that is neither a command nor a slot only
moves buffers between queues. `Inv` types what those steps touch.

`PlayingIsFed` is a state and a step. That a player that is Playing on a device
that is set up is fed (`SetUpFed`) is inductive relative to `Inv`. The argument
is one of handing over: `write_handler` that was entered either queues a buffer,
or leaves the state other than Playing, or ends the thread by an exception
(`Handled`); what moves a buffer from one queue to the next leaves one in the
next; and a command that leaves the player Playing either touched no queue
(`Kept`) or calls `write_handler` itself (`FedBy`). What is left is a player
that is Playing or Paused with a device nobody set up. No step brings it there
but a change of sink (`AttachedStep`): each operator of the player ends with a
device that is set up, or in a state that needs none, or by an exception or a
failed assert; and of a change of sink a Paused player never returns, as playing
the new device fails (`PausedSwitchFails`).

**Sessions.** `SessionIsPlayer` is the composition: each step of a session is a
step of `Player`, so that everything above holds of sessions too. The other
theorems need what the run's instance has, `WellServed`: no call fails, though
the device may run out of data, every track is FLAC, opens and ends with a
buffer shorter than the others, and a device that plays at the rate of a track
has the bits for it. Each part is needed: a file that does not open, a WavPack
track, a FLAC track of whole buffers (for the listener, who does not seek) and a
device with fewer bits are four ways to `halt` that section 4 names, and a call
that fails leaves the session by way of Error. Nothing is assumed of what rate a
device settles on, of lengths (a track may be shorter than a buffer), of
playlists (they may be empty, or repeat a track), of `PreloadAt` or of the
number of commands. `SInv` says that a player that plays has one link of the
chain of writes (a call of `write_handler`, with a buffer in `in_buf` only if an
underrun brought it back, a posted lambda, or a waiting write) and a Stopped one
has none and nothing pre-loaded; that the open source is the iterator's track
with something left and the pre-loaded one is the next track from its start
(`Placed`, `Following`); and that an open device was prepared for some track
(`Fitted`, which keeps `widen` from its assert). A step keeps it or ends the
program at an edge (`SInvNext`): an empty decode where a seek or a reset left
whole buffers, or the end of the playlist with a buffer that came back; after
that nothing moves (`Ended`).

`ListenerHearsAll` is the refinement of `GaplessPlayback`. `HInv` relates the
three places where a buffer of the program can be: what was heard is a prefix of
it, the buffer posted, waiting or brought back is the next one, and the buffers
of the tracks before the iterator's plus the place in the open source are as
many as were decoded (`Decoded`). A call of `write_handler` has one of three
effects: `Over`, which implements `Finish` since nothing of the program is left;
`Posted`, which moves the place by one, into the next track after the last
buffer; and `Prepared`, which prepares the device again. The last throws a
buffer away and opens the track anew, so nothing may have been played of it:
`Matched` says that the rate of the device can differ from the track's only
before its first buffer. A track shorter than a buffer is lost there, since the
iterator has moved on when its only buffer is thrown away. `NoneDropped`
excludes that case, and without it TLC refutes `HearsWholePlaylist`. The program
is a concatenation over the playlist (`FlattenSeq`), about which nothing can be
had by the library's induction; its steps are proved of the least index that
would break them (`NatMin`, from the well-foundedness of the numbers).

**ALSA.** The inductive invariant adds what every call relies on
(`WhatIsKnown`): a new or a stopped device has no handle, and a descriptor comes
with a handle. Without it `Replace` would lose the handle of a stopped device,
and `play` could start one that was never set up. `SettleIsRight` is the lemma
about the search for a format: whatever the hardware supports, the bits told to
the player are the format's, but below 16 and 32 bits. A step of the
specification is then a step of `OutputDevice` or none, since a device that is
Ready or Paused with a handle has its descriptor.

**Decoding.** What was heard and what is still in the buffer is one stream that
counts up by one, but where a seek was made, and the library stands where the
stream stops (`InPlace`); when libFLAC has found the end, the last block is in the
buffer and one shorter delivery is left (`AtTheEnd`). The length of files, blocks
and requests is arbitrary, and `BlockEndAfter` is the arithmetic of blocks. The
proof showed that the three tests of `Outcome` overlapped as a `CASE`; it is now
the chain of `if`s of the code.

**Signals.** A call has a name, its number and the connections it was nested
through; the frames on the signal thread are a tower of such names (`Tower`), so
that no two have the same. The counter of a frame is exactly the number of its
failures in the disconnect thread's queue (`CountsAgree`): with less, the last but
one could take it to zero and the frame could go. What is owed is left in a call
that is waiting or running (`OwedWaits`), and no name comes back after it is over.

**Settings.** What the user applied is in the tree, in the file being written or
in the file, by phase (`Kept`); a widget that nobody edited shows what it was made
of (`WidgetsShow`); a section is merged before it is applied (`MergedFirst`), which
depends on the order of the steps within a slot of "loaded"; and who does not
follow the tree has an update coming, lost or garbled (`Followed`). To follow is to
work with what `Uses` makes of the node, which is stable: told the same again, a
manager changes nothing. What the plugins are loaded by is then what the user last
saved, as `Kept` says of the tree.

**Library.** At most one task is in a transaction, and what it will add was not
recorded when the transaction began (`OneTransaction`, `AddedOnce`), although two
scans of everything may be on the pool. `Accounted` says where records may come
from: the directories configured, those that were removed under a scan, and
linked names; it covers what an aborted transaction would restore. For `Complete`
a second invariant, `CInv`, says of every file of a configured directory that it
is found or due (`FoundOrDue`): to the scan of everything that the plugins' call
will post, or to a scan that is waiting for, or walking, a directory that holds it.
What a walk skips as known must still be recorded or lost, and what an aborted
transaction takes away must be of the directory that could not be read (`KnownKept`).
`LinkAssumption` says that a directory named through a link holds the files of the
one it is a link to: a scan walks the name that was configured, while `m_dirs` has
the canonical one.

**Playlists.** News of a playlist that came or went is due exactly when the
model's list differs (`NewsIsDue`), in order, and reaches the model before it
hears that the playlist is current (`KnownInTime`). Until two changes cross,
everything said of the current playlist is true and nothing is said from inside a
slot (`OneChange`); whoever does not follow has yet to hear (`Followed`).

**Filter panes.** None of the three invariants is inductive, because each speaks
of what the calls in progress have still to do. While an `Answer` of a pane is on
the stack, nothing is selected in it (`SelectionKept`): that is why new rows come
under no selection. A pane whose query is not what its own query and selection say
is delayed or has a `Generate` on the stack, and the query of the next is always
what it generated (`Chained`), in the middle of a cascade too. For `ShowsLibrary`,
a pane that does not show what its query finds is due (`ShownOrDue`): to a
`Refresh` or `Answer` on the stack, to a scan that waits, or to the end of a scan
that it will hear of. That a pane does hear of it takes three orders, each of one
queue: a signal that was said to be heard is followed by heard ones only, a start
is followed by its end or the scan still runs (`SignalsInOrder`), and an event that
makes a pane blind is followed by one that does not (`EventsInOrder`, `BlindHear`),
but for panes made between (`missed`). Nothing depends on the number of panes, which
of them are delayed, or how many scans overlap.

Only model-checked: the invariants of `Categories`, whose operations are folds
over the rows; what a fold gives for every input would need induction. All
liveness (`HearingEnds`, `PlaybackEnds`, `WritesAnswered`, `ReadingEnds`,
`CallsEndOrEmbrace`, `StartsUp`, `ScansEnd`, `ComesToRest`, `PanesLeaveScanning`)
is outside what TLAPS proves here.

## 6. Not modelled

- `TrackSource` in `melin/decoder.cpp`, `FileCache`, `DynamicTreeModel` and the
  removal functions of `Config`: nothing of the program uses them.
- `get_pcm_md5` and `decode_all`, which only the WavPack plugin's verification
  calls; reading a WavPack stream.
- `plugins/alsa/alsa_provider.cpp`, whose `make_output` returns nothing and
  whose provider nobody adds; rates, periods and channels of the hardware
  parameters.
- Channels and sample rate of a track made from a document, which are not read
  back.
- Iterators of a playlist that is changed while it plays.
- Destruction of the player and the managers while work is queued.
- What a category's criterion or a tag computes, drag and drop, and layout.
- The Last.fm client and logging, which hold little logic of the program's own.

## 7. Plan

1. Write the folds of `Categories` so that its invariants can be proved.
2. A finer `seek`, which reads the current source without `mu`.
3. Rates of the hardware parameters in `AlsaOutput`, and the composition of
   `Player` with it in place of its own device.
4. Shutdown: the order in which `~Kernel` and `~Player` end what is queued.
