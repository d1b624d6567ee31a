------------------------------ MODULE Library ------------------------------
(***************************************************************************)
(* The media library (melin/library.cpp): a database of tracks kept in     *)
(* step with the directories that are configured.  Changes of the setting  *)
(* arrive on the signal thread, scans run on a thread pool, each directory *)
(* in two transactions on the one collection, and whether a scan is        *)
(* running is known only by signals.  The program may end at any moment;   *)
(* what a transaction did not commit is then undone.                       *)
(***************************************************************************)
EXTENDS Naturals, Sequences, FiniteSets

CONSTANTS
    Dirs,       \* names that may be configured
    Directories, \* those that name a directory; directories neither come nor go
    Canon,      \* name -> the name without symbolic links
    Uris,       \* names of files
    FileOf,     \* name of a file -> the file
    In,         \* directory -> the names a walk of it finds
    Begins,     \* directory -> the names that begin with its name
    Supported,  \* files some decoder reads tracks from
    Ignored,    \* names whose extension is on the blacklist
    Settings,   \* what "directories" may be set to
    Garbled,    \* a stored value that is not a list of names
    None, MaxEvents  \* bound: starts, changes of the setting and of files

ASSUME LibraryAssumption ==
    /\ Canon \in [Dirs -> Dirs] /\ \A d \in Dirs : Canon[Canon[d]] = Canon[d]
    /\ Directories \subseteq Dirs /\ {Canon[d] : d \in Directories} \subseteq Directories
    /\ In \in [Dirs -> SUBSET Uris] /\ Begins \in [Dirs -> SUBSET Uris]
    /\ \A d \in Dirs : In[d] \subseteq Begins[d]
    /\ Settings \subseteq SUBSET Dirs /\ Garbled \notin Settings
    /\ None \notin Nat \cup Dirs
    /\ MaxEvents \in Nat

\* The walk of a directory named through a link comes to the same files.
ASSUME LinkAssumption ==
    \A d \in Dirs : {FileOf[u] : u \in In[Canon[d]] \ Ignored}
                      \subseteq {FileOf[u] : u \in In[d] \ Ignored}

VARIABLES
    disk,       \* the files there are
    setting,    \* the value of "directories"
    lib,        \* the collection: name -> number of its tracks' records
    stale,      \* names recorded before their file was last written
    tran,       \* who is in a transaction: a task, 0 for loadedSlot, or None
    before,     \* the collection when the transaction began
    running,    \* the program runs
    queue,      \* calls on the signal thread, the first one running
    dirs,       \* m_dirs
    lock,       \* the task that holds m_dirs' lock, or None
    plugins,    \* pluginsLoaded
    scanning,   \* m_scanning
    tasks,      \* scans on the pool: task -> what it is doing
    events,
    lost,       \* history: names this session need not find
    late        \* history: names of directories removed while scans ran

vars == <<disk, setting, lib, stale, tran, before, running, queue, dirs, lock, plugins,
          scanning, tasks, events, lost, late>>
base == <<lib, stale, tran, before>>
user == <<disk, setting, events>>
flags == <<running, plugins, scanning>>

-----------------------------------------------------------------------------
FileSet == {FileOf[u] : u \in Uris}
Exists(u) == FileOf[u] \in disk
Recorded == {u \in Uris : lib[u] > 0}
NoTracks == [u \in Uris |-> 0]
Drop(names) == [u \in Uris |-> IF u \in names THEN 0 ELSE lib[u]]
Under(ds) == UNION {Begins[d] : d \in ds}
CanonOf(ds) == {Canon[d] : d \in ds}

\* The directories that a value names; what is no directory is skipped.
Named(v) == IF v = Garbled THEN {} ELSE v \cap Directories

\* A call on the signal thread's queue.
Call(op, ds) == [op |-> op, dirs |-> ds]
Calls(op) == queue # <<>> /\ Head(queue).op = op

\* A scan waiting for its turn: of the directories ds, or of all of m_dirs.
Scan(all, ds) ==
    [at |-> "wait", all |-> all, dirs |-> ds, dir |-> None, known |-> {}, left |-> {}]

Post(t) ==
    LET i == CHOOSE j \in 1..(Cardinality(DOMAIN tasks) + 1) : j \notin DOMAIN tasks
    IN  [j \in DOMAIN tasks \cup {i} |-> IF j = i THEN t ELSE tasks[j]]

At(i, p) == tasks[i].at = p
Goes(i, t) == tasks' = [tasks EXCEPT ![i] = t]

Untouched == [lib |-> NoTracks, stale |-> {}]

\* unique_transaction: the second to begin waits; leaving normally commits.
Begin(i) == tran = None /\ tran' = i /\ before' = [lib |-> lib, stale |-> stale]
Commit == tran' = None /\ before' = Untouched

\* The names inserted into m_dirs that were not there, one for each directory.
Fresh(ns, ds, old) ==
    /\ ns \subseteq ds
    /\ CanonOf(ns) = CanonOf(ds) \ old
    /\ \A a, b \in ns : Canon[a] = Canon[b] => a = b

-----------------------------------------------------------------------------
Init ==
    /\ disk = FileSet
    /\ setting \in Settings \cup {Garbled}
    /\ lib = NoTracks /\ stale = {} /\ tran = None /\ before = Untouched
    /\ running = FALSE /\ plugins = FALSE /\ scanning = FALSE
    /\ queue = <<>> /\ dirs = {} /\ lock = None /\ tasks = [i \in {} |-> Scan(TRUE, {})]
    /\ events = 0
    /\ lost = {} /\ late = {}

\* The configuration's loaded signal and then pluginsLoaded are emitted.
Start ==
    /\ ~running /\ events < MaxEvents
    /\ running' = TRUE
    /\ events' = events + 1
    /\ queue' = <<Call("loaded", {}), Call("plugins", {})>>
    /\ lost' = {} /\ late' = {}
    /\ UNCHANGED <<disk, setting, base, dirs, lock, plugins, scanning, tasks>>

\* The program ends, normally or not: the database is closed as it is.
Stop ==
    /\ running
    /\ running' = FALSE /\ plugins' = FALSE /\ scanning' = FALSE
    /\ IF tran = None THEN UNCHANGED <<lib, stale>>
       ELSE lib' = before.lib /\ stale' = before.stale
    /\ Commit
    /\ queue' = <<>> /\ dirs' = {} /\ lock' = None
    /\ tasks' = [i \in {} |-> Scan(TRUE, {})]
    /\ UNCHANGED <<user, lost, late>>

\* A file is written, or removed.
WriteFile(f) ==
    /\ events < MaxEvents
    /\ events' = events + 1
    /\ disk' = disk \cup {f}
    /\ stale' = stale \cup {u \in Recorded : FileOf[u] = f}
    /\ lost' = lost \cup {u \in Uris : FileOf[u] = f}
    /\ UNCHANGED <<setting, lib, tran, before, flags, queue, dirs, lock, tasks, late>>

RemoveFile(f) ==
    /\ events < MaxEvents /\ f \in disk
    /\ events' = events + 1
    /\ disk' = disk \ {f}
    /\ UNCHANGED <<setting, base, flags, queue, dirs, lock, tasks, lost, late>>

\* The user sets "directories" once the library listens to its section.
ChangeSetting(ds) ==
    /\ running /\ events < MaxEvents
    /\ \A k \in DOMAIN queue : queue[k].op # "loaded"
    /\ ds \in Settings \ {setting}
    /\ setting' = ds
    /\ events' = events + 1
    /\ queue' = Append(queue, Call("directories", ds))
    /\ UNCHANGED <<disk, base, flags, dirs, lock, tasks, lost, late>>

-----------------------------------------------------------------------------
\* loadedSlot opens a transaction, applies the setting, if it can be read, and
\* drops the tracks that are under no configured directory.
LoadedBegins ==
    /\ Calls("loaded") /\ tran # 0
    /\ Begin(0)
    /\ UNCHANGED <<user, lib, stale, flags, queue, dirs, lock, tasks, lost, late>>

LoadedEnds ==
    /\ Calls("loaded") /\ tran = 0
    /\ lock = None
    /\ dirs' = CanonOf(Named(setting))
    /\ \/ setting = Garbled /\ UNCHANGED tasks
       \/ /\ setting # Garbled
          /\ \E ns \in SUBSET Named(setting) :
                Fresh(ns, Named(setting), {}) /\ tasks' = Post(Scan(FALSE, ns))
    /\ lib' = Drop(Uris \ Under(dirs'))
    /\ Commit
    /\ queue' = Tail(queue)
    /\ UNCHANGED <<user, stale, flags, lock, lost, late>>

\* A faulty SetDirectories: what a removed directory held stays.
SetDirectories_keeps_tracks ==
    /\ Calls("directories") /\ lock = None
    /\ LET gone == dirs \ Head(queue).dirs
           named == Named(Head(queue).dirs)
       IN  /\ dirs' = (dirs \ gone) \cup CanonOf(named)
           /\ \E ns \in SUBSET named :
                 Fresh(ns, named, dirs \ gone) /\ tasks' = Post(Scan(FALSE, ns))
    /\ queue' = Tail(queue)
    /\ UNCHANGED <<user, base, flags, lock, lost, late>>

\* A faulty SetDirectories: directories kept are scanned, new ones are not.
SetDirectories_scans_old ==
    /\ Calls("directories") /\ lock = None
    /\ LET gone == dirs \ Head(queue).dirs
           named == Named(Head(queue).dirs)
       IN  /\ lib' = Drop(Under(gone))
           /\ lost' = lost \cup (Under(gone) \cap Recorded)
           /\ late' = IF DOMAIN tasks = {} THEN late ELSE late \cup Under(gone)
           /\ dirs' = (dirs \ gone) \cup CanonOf(named)
           /\ tasks' = Post(Scan(FALSE, dirs \ gone))
    /\ queue' = Tail(queue)
    /\ UNCHANGED <<user, stale, tran, before, flags, lock>>

\* variableUpdateSlot for "directories": what went is dropped from the database,
\* outside any transaction, and what is new is scanned on the pool.
SetDirectories ==
    /\ Calls("directories") /\ lock = None
    /\ LET gone == dirs \ Head(queue).dirs
           named == Named(Head(queue).dirs)
       IN  /\ lib' = Drop(Under(gone))
           /\ lost' = lost \cup (Under(gone) \cap Recorded)
           /\ late' = IF DOMAIN tasks = {} THEN late ELSE late \cup Under(gone)
           /\ dirs' = (dirs \ gone) \cup CanonOf(named)
           /\ \E ns \in SUBSET named :
                 Fresh(ns, named, dirs \ gone) /\ tasks' = Post(Scan(FALSE, ns))
    /\ queue' = Tail(queue)
    /\ UNCHANGED <<user, stale, tran, before, flags, lock>>

PluginsLoaded ==
    /\ Calls("plugins")
    /\ plugins' = TRUE
    /\ tasks' = Post(Scan(TRUE, {}))
    /\ queue' = Tail(queue)
    /\ UNCHANGED <<user, base, running, scanning, dirs, lock, lost, late>>

ScanStarted ==
    /\ Calls("started")
    /\ scanning' = TRUE
    /\ queue' = Tail(queue)
    /\ UNCHANGED <<user, base, running, plugins, dirs, lock, tasks, lost, late>>

ScanEnded ==
    /\ Calls("ended")
    /\ scanning' = FALSE
    /\ queue' = Tail(queue)
    /\ UNCHANGED <<user, base, running, plugins, dirs, lock, tasks, lost, late>>

-----------------------------------------------------------------------------
\* A scan waits until none is known to run and says it started.
ScanStarts(i) ==
    /\ At(i, "wait") /\ ~scanning
    /\ queue' = Append(queue, Call("started", {}))
    /\ Goes(i, [tasks[i] EXCEPT !.at = IF tasks[i].all THEN "lock" ELSE "next"])
    /\ UNCHANGED <<user, base, flags, dirs, lock, lost, late>>

\* scan() of everything keeps m_dirs locked until it is over.
LockDirs(i) ==
    /\ At(i, "lock") /\ lock = None
    /\ lock' = i
    /\ Goes(i, [tasks[i] EXCEPT !.at = "next", !.dirs = dirs])
    /\ UNCHANGED <<user, base, flags, queue, dirs, lost, late>>

SkipDir(i) ==
    /\ At(i, "next") /\ ~plugins
    /\ \E d \in tasks[i].dirs : Goes(i, [tasks[i] EXCEPT !.dirs = @ \ {d}])
    /\ UNCHANGED <<user, base, flags, queue, dirs, lock, lost, late>>

\* The first transaction: what is known of the directory.
BeginPrune(i) ==
    /\ At(i, "next") /\ plugins
    /\ Begin(i)
    /\ \E d \in tasks[i].dirs :
          Goes(i, [tasks[i] EXCEPT !.at = "prune", !.dirs = @ \ {d}, !.dir = d,
                                   !.known = Recorded \cap Begins[d]])
    /\ UNCHANGED <<user, lib, stale, flags, queue, dirs, lock, lost, late>>

\* Records of files that no longer exist are removed.
Prune(i) ==
    /\ At(i, "prune")
    /\ lib' = Drop({u \in tasks[i].known : ~Exists(u)})
    /\ Commit
    /\ Goes(i, [tasks[i] EXCEPT !.at = "between"])
    /\ UNCHANGED <<user, stale, flags, queue, dirs, lock, lost, late>>

\* A faulty BeginAdd: the answer to the first query is used again.
BeginAdd_reuses_query(i) ==
    /\ At(i, "between")
    /\ Begin(i)
    /\ Goes(i, [tasks[i] EXCEPT !.at = "add", !.left = In[tasks[i].dir] \ Ignored])
    /\ UNCHANGED <<user, lib, stale, flags, queue, dirs, lock, lost, late>>

\* The second transaction: the directory is walked.
BeginAdd(i) ==
    /\ At(i, "between")
    /\ Begin(i)
    /\ Goes(i, [tasks[i] EXCEPT !.at = "add", !.known = Recorded \cap Begins[tasks[i].dir],
                                !.left = In[tasks[i].dir] \ Ignored])
    /\ UNCHANGED <<user, lib, stale, flags, queue, dirs, lock, lost, late>>

\* add() records the tracks of a file that a decoder reads.
Added(u) == lib' = [lib EXCEPT ![u] = @ + 1] /\ stale' = stale \ {u} /\ UNCHANGED lost

\* update() of a file removes it.
Updated(u) == lib' = Drop({u}) /\ stale' = stale \ {u} /\ lost' = lost \cup {u}

\* A file not known is added; one written since it was recorded is "updated".
Visit(i) ==
    /\ At(i, "add")
    /\ \E u \in tasks[i].left :
          /\ Goes(i, [tasks[i] EXCEPT !.left = @ \ {u}])
          /\ \/ Exists(u) /\ u \notin tasks[i].known /\ FileOf[u] \in Supported /\ Added(u)
             \/ Exists(u) /\ u \in tasks[i].known \cap stale /\ Updated(u)
             \/ /\ Exists(u) => IF u \in tasks[i].known THEN u \notin stale
                                                       ELSE FileOf[u] \notin Supported
                /\ UNCHANGED <<lib, stale, lost>>
    /\ UNCHANGED <<user, tran, before, flags, queue, dirs, lock, late>>

DirDone(i) ==
    /\ At(i, "add") /\ tasks[i].left = {}
    /\ Commit
    /\ Goes(i, [tasks[i] EXCEPT !.at = "next", !.dir = None, !.known = {}])
    /\ UNCHANGED <<user, lib, stale, flags, queue, dirs, lock, lost, late>>

\* The database or the file system fails: the rest of the directory is left.
DirFails(i) ==
    /\ At(i, "prune") \/ At(i, "add")
    /\ \/ UNCHANGED <<lib, stale>>
       \/ lib' = before.lib /\ stale' = before.stale
    /\ Commit
    /\ lost' = lost \cup In[tasks[i].dir]
    /\ Goes(i, [tasks[i] EXCEPT !.at = "next", !.dir = None, !.known = {}, !.left = {}])
    /\ UNCHANGED <<user, flags, queue, dirs, lock, late>>

\* A faulty ScanEnds: only scans of new directories say that they ended.
ScanEnds_silently(i) ==
    /\ At(i, "next") /\ tasks[i].dirs = {}
    /\ lock' = IF lock = i THEN None ELSE lock
    /\ queue' = IF tasks[i].all THEN queue ELSE Append(queue, Call("ended", {}))
    /\ tasks' = [j \in DOMAIN tasks \ {i} |-> tasks[j]]
    /\ UNCHANGED <<user, base, flags, dirs, lost, late>>

ScanEnds(i) ==
    /\ At(i, "next") /\ tasks[i].dirs = {}
    /\ lock' = IF lock = i THEN None ELSE lock
    /\ queue' = Append(queue, Call("ended", {}))
    /\ tasks' = [j \in DOMAIN tasks \ {i} |-> tasks[j]]
    /\ UNCHANGED <<user, base, flags, dirs, lost, late>>

-----------------------------------------------------------------------------
SignalThread ==
    \/ LoadedBegins \/ LoadedEnds \/ SetDirectories \/ PluginsLoaded \/ ScanStarted \/ ScanEnded

Works(i) ==
    \/ ScanStarts(i) \/ LockDirs(i) \/ SkipDir(i) \/ BeginPrune(i) \/ Prune(i) \/ BeginAdd(i)
    \/ Visit(i) \/ DirDone(i) \/ DirFails(i) \/ ScanEnds(i)

Pool == \E i \in DOMAIN tasks : Works(i)

World ==
    \/ Start \/ Stop
    \/ \E f \in FileSet : WriteFile(f) \/ RemoveFile(f)
    \/ \E ds \in Settings : ChangeSetting(ds)

Next == SignalThread \/ Pool \/ World

Spec == Init /\ [][Next]_vars /\ WF_vars(SignalThread) /\ WF_vars(Pool)
-----------------------------------------------------------------------------
Quiet == queue = <<>> /\ DOMAIN tasks = {}

\* Names reached through a symbolic link.
Linked == UNION {In[d] : d \in {e \in Dirs : Canon[e] # e}}

\* Scans of one directory may overlap, yet no name is recorded twice: each scan
\* looks and adds in one transaction (library.cpp:398-400, 453-454).  It is names,
\* not files, that are known apart: a file reached through a link and by its
\* directory is recorded under both, as names are what is compared (451).
NoNameTwice == \A u \in Uris : lib[u] <= 1

\* At rest the library holds only what is under a configured directory, but for
\* one removed while scans were running and names with links (library.cpp:247).
OnlyConfigured ==
    running /\ Quiet => Recorded \subseteq Under(dirs) \cup late \cup Linked

\* At rest every file of a configured directory is there, under one of its
\* names, unless it was written in this session, its directory could not be
\* read, it was removed as an "update", or it went with another directory whose
\* name its own begins with.
Complete ==
    running /\ Quiet =>
        \A d \in dirs : \A u \in In[d] \ Ignored :
            FileOf[u] \in (disk \cap Supported) \ {FileOf[v] : v \in lost} =>
                \E v \in Recorded : FileOf[v] = FileOf[u]

\* Scans end and are known to have ended: nothing waits for m_scanning, the lock
\* on m_dirs or a transaction for ever.
ScansEnd == <>[](running => Quiet /\ ~scanning)
=============================================================================
