---------------------------- MODULE LibraryProofs ----------------------------
(***************************************************************************)
(* What the library keeps for any directories and files, however their     *)
(* names overlap and whatever links, failures, changes of the setting and  *)
(* restarts come while scans run: no name is recorded twice, and at rest   *)
(* nothing is recorded that the configured directories do not account for, *)
(* and every file of theirs is, but for those a session may have lost.     *)
(***************************************************************************)
EXTENDS Library, FiniteSetTheorems, SequenceTheorems, TLAPS

-----------------------------------------------------------------------------
(* The inductive invariant *)

Task == [at : {"wait", "lock", "next", "prune", "between", "add"}, all : BOOLEAN,
         dirs : SUBSET Dirs, dir : Dirs \cup {None}, known : SUBSET Uris, left : SUBSET Uris]

SignalCall == [op : {"loaded", "plugins", "directories", "started", "ended"}, dirs : SUBSET Dirs]

TypeOK ==
    /\ setting \in Settings \cup {Garbled}
    /\ lib \in [Uris -> Nat] /\ before.lib \in [Uris -> Nat]
    /\ running \in BOOLEAN
    /\ queue \in Seq(SignalCall)
    /\ dirs \subseteq Dirs
    /\ IsFiniteSet(DOMAIN tasks) /\ DOMAIN tasks \subseteq Nat \ {0}
    /\ \A i \in DOMAIN tasks : tasks[i] \in Task

\* A task is in a transaction from where it begins one to where it commits.
OneTransaction ==
    /\ \A i \in DOMAIN tasks :
          /\ tasks[i].at \in {"prune", "add"} <=> tran = i
          /\ tasks[i].at \in {"prune", "between", "add"} => tasks[i].dir \in Dirs
          /\ tasks[i].at = "add" => tasks[i].left \subseteq In[tasks[i].dir]
    /\ tran \in DOMAIN tasks \cup {0, None}
    /\ tran = 0 => Calls("loaded")

\* The walk of a directory comes to no name twice, and what it will add was not
\* recorded when its transaction began.
AddedOnce ==
    /\ \A u \in Uris : lib[u] <= 1 /\ before.lib[u] <= 1
    /\ \A i \in DOMAIN tasks : tasks[i].at = "add" =>
          \A u \in tasks[i].left \ tasks[i].known : lib[u] = 0

\* Nothing runs before the configuration has been applied.
LoadedFirst ==
    /\ \A k \in 1..Len(queue) : queue[k].op = "loaded" => k = 1
    /\ Calls("loaded") => DOMAIN tasks = {}
    /\ ~running => queue = <<>> /\ DOMAIN tasks = {}

\* What the configured directories, or those removed under a scan, account for.
Allowed == Under(dirs) \cup late \cup Linked

RecordedIn(l) == {u \in Uris : l[u] > 0}

\* What is recorded, what a transaction would restore and what scans have yet
\* to walk.
Accounted ==
    /\ running /\ ~Calls("loaded") =>
          Recorded \subseteq Allowed /\ (tran # None => RecordedIn(before.lib) \subseteq Allowed)
    /\ \A i \in DOMAIN tasks :
          /\ \A d \in tasks[i].dirs : In[d] \subseteq Allowed
          /\ tasks[i].dir # None => In[tasks[i].dir] \subseteq Allowed

IInv == TypeOK /\ OneTransaction /\ AddedOnce /\ LoadedFirst /\ Accounted
-----------------------------------------------------------------------------
(* Calls on the signal thread *)

\* A call put at the end: the first one stays the first.
LEMMA CallQueued ==
    ASSUME TypeOK, NEW c \in SignalCall, c.op # "loaded", queue' = Append(queue, c),
           \A k \in 1..Len(queue) : queue[k].op = "loaded" => k = 1
    PROVE  /\ queue' \in Seq(SignalCall)
           /\ \A k \in 1..Len(queue') : queue'[k].op = "loaded" => k = 1
           /\ Calls("loaded")' <=> Calls("loaded")
<1>1. queue \in Seq(SignalCall)  BY DEF TypeOK
<1>2. /\ Append(queue, c) \in Seq(SignalCall) /\ Append(queue, c) # <<>>
      /\ Len(Append(queue, c)) = Len(queue) + 1
      /\ \A k \in 1..Len(queue) : Append(queue, c)[k] = queue[k]
      /\ Append(queue, c)[Len(queue) + 1] = c
  BY <1>1, AppendProperties
<1>3. Len(queue) \in Nat  BY <1>1, LenProperties
<1>4. Head(Append(queue, c)) = IF queue = <<>> THEN c ELSE Head(queue)
  BY <1>1, HeadTailAppend
<1>5. ASSUME NEW k \in 1..Len(queue'), queue'[k].op = "loaded" PROVE k = 1
  <2>1. k \in 1..Len(queue) \/ k = Len(queue) + 1  BY <1>2, <1>3
  <2> QED  BY <1>2, <1>5, <2>1
<1>6. Calls("loaded")' <=> Calls("loaded")  BY <1>2, <1>4 DEF Calls
<1> QED  BY <1>2, <1>5, <1>6

\* A call that has been made: the configuration is loaded once.
LEMMA CallMade ==
    ASSUME TypeOK, queue # <<>>, queue' = Tail(queue),
           \A k \in 1..Len(queue) : queue[k].op = "loaded" => k = 1
    PROVE  /\ Head(queue) \in SignalCall
           /\ queue' \in Seq(SignalCall)
           /\ \A k \in 1..Len(queue') : queue'[k].op = "loaded" => k = 1
           /\ ~Calls("loaded")'
<1>1. queue \in Seq(SignalCall)  BY DEF TypeOK
<1>2. /\ Head(queue) \in SignalCall
      /\ queue' \in Seq(SignalCall) /\ Len(queue') = Len(queue) - 1
      /\ \A k \in 1..Len(queue') : queue'[k] = queue[k + 1]
  BY <1>1, HeadTailProperties
<1>3. Len(queue) \in Nat /\ Len(queue') \in Nat  BY <1>1, <1>2, LenProperties
<1>4. ASSUME NEW k \in 1..Len(queue') PROVE queue'[k].op # "loaded"
  <2>1. k + 1 \in 1..Len(queue) /\ k + 1 # 1  BY <1>2, <1>3
  <2> QED  BY <1>2, <2>1
<1>5. ~Calls("loaded")'
  <2>1. CASE queue' = <<>>  BY <2>1 DEF Calls
  <2>2. CASE queue' # <<>>
    <3>1. Len(queue') \in Nat \ {0}  BY <1>2, <2>2, EmptySeq
    <3>2. 1 \in 1..Len(queue')
      <4> DEFINE m == Len(queue')
      <4>1. m \in Nat \ {0}  BY <3>1
      <4> HIDE DEF m
      <4>2. 1 \in 1..m  BY <4>1
      <4> QED  BY <4>2 DEF m
    <3>3. Head(queue') = queue'[1]  BY <1>2, <2>2
    <3> QED  BY <1>4, <3>2, <3>3 DEF Calls
  <2> QED  BY <2>1, <2>2
<1> QED  BY <1>2, <1>4, <1>5

-----------------------------------------------------------------------------
(* Scans on the pool *)

\* A scan that is posted is a new one, and the others go on as they were.
LEMMA PostAdds ==
    ASSUME TypeOK, NEW t, tasks' = Post(t)
    PROVE  \E i \in Nat \ {0} :
              /\ i \notin DOMAIN tasks /\ DOMAIN tasks' = DOMAIN tasks \cup {i}
              /\ tasks'[i] = t /\ \A j \in DOMAIN tasks : tasks'[j] = tasks[j]
              /\ IsFiniteSet(DOMAIN tasks')
<1> DEFINE D == DOMAIN tasks
           n == Cardinality(D)
           i == CHOOSE j \in 1..(n + 1) : j \notin D
<1>1. IsFiniteSet(D) /\ n \in Nat  BY FS_CardinalityType DEF TypeOK
<1>2. \E j \in 1..(n + 1) : j \notin D
  <2> SUFFICES ASSUME 1..(n + 1) \subseteq D PROVE FALSE  OBVIOUS
  <2> HIDE DEF D, n
  <2>1. n = Cardinality(D)  BY DEF n
  <2>2. 1..(n + 1) \in SUBSET D  OBVIOUS
  <2>3. Cardinality(1..(n + 1)) <= Cardinality(D)  BY <1>1, <2>2, FS_Subset
  <2>4. 1 \in Int /\ n + 1 \in Int  BY <1>1
  <2>5. Cardinality(1..(n + 1)) = IF 1 > n + 1 THEN 0 ELSE (n + 1) - 1 + 1
    BY <2>4, FS_Interval
  <2> QED  BY <1>1, <2>1, <2>3, <2>5
<1>3. i \in 1..(n + 1) /\ i \notin D  BY <1>2
<1>4. i \in Nat \ {0}  BY <1>1, <1>3
<1>5. tasks' = [j \in D \cup {i} |-> IF j = i THEN t ELSE tasks[j]]  BY DEF Post
<1> HIDE DEF i, n
<1>6. DOMAIN tasks' = D \cup {i} /\ tasks'[i] = t /\ \A j \in D : tasks'[j] = tasks[j]
  BY <1>3, <1>5
<1>7. IsFiniteSet(D \cup {i})  BY <1>1, FS_AddElement
<1> QED  BY <1>3, <1>4, <1>6, <1>7

\* A scan goes on, and no other does.
LEMMA GoesOn ==
    ASSUME NEW i \in DOMAIN tasks, NEW t, Goes(i, t)
    PROVE  /\ DOMAIN tasks' = DOMAIN tasks /\ tasks'[i] = t
           /\ \A j \in DOMAIN tasks : j # i => tasks'[j] = tasks[j]
BY DEF Goes

\* While a scan is on the pool the program runs and is configured.
LEMMA PoolRuns ==
    ASSUME IInv, NEW i \in DOMAIN tasks
    PROVE  running /\ ~Calls("loaded") /\ tran # 0 /\ i \in Nat \ {0} /\ tasks[i] \in Task
BY DEF IInv, TypeOK, OneTransaction, LoadedFirst

\* What a scan says on the signal thread loads no configuration.
LEMMA PoolLoadedFirst ==
    ASSUME IInv, NEW i \in DOMAIN tasks, running' = running,
           \/ queue' = queue
           \/ \E op \in {"started", "ended"} : queue' = Append(queue, Call(op, {}))
    PROVE  LoadedFirst' /\ queue' \in Seq(SignalCall) /\ running' /\ ~Calls("loaded")'
<1>1. running' /\ ~Calls("loaded")  BY PoolRuns
<1>2. TypeOK /\ LoadedFirst  BY DEF IInv
<1>3. CASE queue' = queue
  <2>1. queue' \in Seq(SignalCall)  BY <1>2, <1>3 DEF TypeOK
  <2>2. ~Calls("loaded")'  BY <1>1, <1>3 DEF Calls
  <2>3. LoadedFirst'  BY <1>1, <1>2, <1>3, <2>2 DEF LoadedFirst
  <2> QED  BY <1>1, <2>1, <2>2, <2>3
<1>4. CASE \E op \in {"started", "ended"} : queue' = Append(queue, Call(op, {}))
  <2>1. PICK op \in {"started", "ended"} : queue' = Append(queue, Call(op, {}))  BY <1>4
  <2>2. Call(op, {}) \in SignalCall /\ Call(op, {}).op # "loaded"  BY DEF Call, SignalCall
  <2>3. \A k \in 1..Len(queue) : queue[k].op = "loaded" => k = 1  BY <1>2 DEF LoadedFirst
  <2> HIDE DEF Call
  <2>4. /\ queue' \in Seq(SignalCall) /\ ~Calls("loaded")'
        /\ \A k \in 1..Len(queue') : queue'[k].op = "loaded" => k = 1
    BY <1>1, <1>2, <2>1, <2>2, <2>3, CallQueued
  <2> QED  BY <1>1, <2>4 DEF LoadedFirst
<1> QED  BY <1>3, <1>4

\* What holds of every scan on the pool, whoever is in a transaction.
LEMMA ScanFacts ==
    ASSUME IInv, NEW i \in DOMAIN tasks
    PROVE  /\ tasks[i].at \in {"prune", "add"} <=> tran = i
           /\ tasks[i].at \in {"prune", "between", "add"} =>
                tasks[i].dir \in Dirs /\ tasks[i].dir # None /\ In[tasks[i].dir] \subseteq Allowed
           /\ tasks[i].at = "add" => tasks[i].left \subseteq In[tasks[i].dir]
           /\ \A d \in tasks[i].dirs : d \in Dirs /\ In[d] \subseteq Allowed
           /\ tasks[i].at = "add" => \A u \in tasks[i].left \ tasks[i].known : lib[u] = 0
<1>1. tasks[i].at \in {"prune", "between", "add"} => tasks[i].dir \in Dirs
  BY DEF IInv, OneTransaction
<1>2. None \notin Dirs  BY LibraryAssumption
<1>3. tasks[i] \in Task  BY PoolRuns
<1>4. tasks[i].dirs \subseteq Dirs  BY <1>3 DEF Task
<1>5. /\ \A d \in tasks[i].dirs : In[d] \subseteq Allowed
      /\ tasks[i].dir # None => In[tasks[i].dir] \subseteq Allowed
  BY DEF IInv, Accounted
<1> QED  BY <1>1, <1>2, <1>4, <1>5 DEF IInv, OneTransaction, AddedOnce

\* While a scan is on the pool everything recorded is accounted for.
LEMMA PoolAccounted ==
    ASSUME IInv, NEW i \in DOMAIN tasks
    PROVE  /\ Recorded \subseteq Allowed
           /\ tran # None => RecordedIn(before.lib) \subseteq Allowed
BY PoolRuns DEF IInv, Accounted

\* A step of a scan outside its transactions: the collection stays as it is.
LEMMA OutsideKeeps ==
    ASSUME IInv, NEW i \in DOMAIN tasks, NEW t \in Task, Goes(i, t),
           tasks[i].at \in {"wait", "lock", "next"}, t.at \in {"lock", "next"},
           t.dir = tasks[i].dir, \A d \in t.dirs : In[d] \subseteq Allowed,
           UNCHANGED <<user, base, flags, dirs, late>>,
           queue' = queue \/ \E op \in {"started", "ended"} : queue' = Append(queue, Call(op, {}))
    PROVE  IInv'
<1>1. TypeOK /\ OneTransaction /\ AddedOnce /\ Accounted  BY DEF IInv
<1>2. /\ DOMAIN tasks' = DOMAIN tasks /\ tasks'[i] = t
      /\ \A j \in DOMAIN tasks : j # i => tasks'[j] = tasks[j]
  BY GoesOn
<1>3. running' = running  BY DEF flags
<1>4. LoadedFirst' /\ queue' \in Seq(SignalCall) /\ running' /\ ~Calls("loaded")'
  BY <1>3, PoolLoadedFirst
<1>5. running /\ ~Calls("loaded") /\ tran # 0  BY PoolRuns
<1>6. TypeOK'
  <2>1. \A j \in DOMAIN tasks' : tasks'[j] \in Task  BY <1>1, <1>2 DEF TypeOK
  <2> QED  BY <1>1, <1>2, <1>3, <1>4, <2>1 DEF TypeOK, user, base
<1>7. OneTransaction'
  <2>1. tran' = tran  BY DEF base
  <2>2. tran # i  BY <1>1 DEF OneTransaction
  <2> QED  BY <1>1, <1>2, <1>5, <2>1, <2>2 DEF OneTransaction
<1>8. AddedOnce'
  <2>1. lib' = lib /\ before' = before  BY DEF base
  <2> QED  BY <1>1, <1>2, <2>1 DEF AddedOnce
<1>9. Accounted'
  <2>1. lib' = lib /\ before' = before /\ tran' = tran  BY DEF base
  <2>2. Allowed' = Allowed  BY DEF Allowed, Under
  <2>3. Recorded' = Recorded  BY <2>1 DEF Recorded
  <2>4. \A j \in DOMAIN tasks' :
          /\ \A d \in tasks'[j].dirs : In[d] \subseteq Allowed
          /\ tasks'[j].dir # None => In[tasks'[j].dir] \subseteq Allowed
    BY <1>1, <1>2 DEF Accounted
  <2> HIDE DEF Allowed
  <2> QED  BY <1>1, <1>5, <2>1, <2>2, <2>3, <2>4 DEF Accounted, RecordedIn
<1> QED  BY <1>4, <1>6, <1>7, <1>8, <1>9 DEF IInv

LEMMA ScanStartsKeeps ==
    ASSUME IInv, NEW i \in DOMAIN tasks, ScanStarts(i)
    PROVE  IInv'
<1> DEFINE t == [tasks[i] EXCEPT !.at = IF tasks[i].all THEN "lock" ELSE "next"]
<1>1. tasks[i] \in Task /\ tasks[i].at = "wait"  BY PoolRuns DEF ScanStarts, At
<1>2. t \in Task /\ t.at \in {"lock", "next"} /\ t.dir = tasks[i].dir /\ t.dirs = tasks[i].dirs
  BY <1>1 DEF Task
<1>3. \A d \in t.dirs : In[d] \subseteq Allowed  BY <1>2, ScanFacts
<1>4. Goes(i, t) /\ queue' = Append(queue, Call("started", {}))  BY DEF ScanStarts
<1>5. UNCHANGED <<user, base, flags, dirs, late>>  BY DEF ScanStarts
<1> HIDE DEF t
<1> QED  BY <1>1, <1>2, <1>3, <1>4, <1>5, OutsideKeeps

LEMMA LockDirsKeeps ==
    ASSUME IInv, NEW i \in DOMAIN tasks, LockDirs(i)
    PROVE  IInv'
<1> DEFINE t == [tasks[i] EXCEPT !.at = "next", !.dirs = dirs]
<1>1. tasks[i] \in Task /\ tasks[i].at = "lock"  BY PoolRuns DEF LockDirs, At
<1>2. dirs \subseteq Dirs  BY DEF IInv, TypeOK
<1>3. t \in Task /\ t.at = "next" /\ t.dir = tasks[i].dir /\ t.dirs = dirs
  BY <1>1, <1>2 DEF Task
<1>4. \A d \in t.dirs : In[d] \subseteq Allowed
  BY <1>2, <1>3, LibraryAssumption DEF Allowed, Under
<1>5. Goes(i, t) /\ queue' = queue  BY DEF LockDirs
<1>6. UNCHANGED <<user, base, flags, dirs, late>>  BY DEF LockDirs
<1> HIDE DEF t
<1> QED  BY <1>1, <1>3, <1>4, <1>5, <1>6, OutsideKeeps

LEMMA SkipDirKeeps ==
    ASSUME IInv, NEW i \in DOMAIN tasks, SkipDir(i)
    PROVE  IInv'
<1>1. PICK e \in tasks[i].dirs : Goes(i, [tasks[i] EXCEPT !.dirs = @ \ {e}])  BY DEF SkipDir
<1> DEFINE t == [tasks[i] EXCEPT !.dirs = @ \ {e}]
<1>2. tasks[i] \in Task /\ tasks[i].at = "next"  BY PoolRuns DEF SkipDir, At
<1>3. t \in Task /\ t.at = "next" /\ t.dir = tasks[i].dir /\ t.dirs \subseteq tasks[i].dirs
  BY <1>2 DEF Task
<1>4. \A d \in t.dirs : In[d] \subseteq Allowed  BY <1>3, ScanFacts
<1>5. Goes(i, t)  BY <1>1
<1>6. queue' = queue /\ UNCHANGED <<user, base, flags, dirs, late>>  BY DEF SkipDir
<1> HIDE DEF t
<1> QED  BY <1>2, <1>3, <1>4, <1>5, <1>6, OutsideKeeps

\* A step of a scan that begins, works in or ends a transaction.
LEMMA InsideKeeps ==
    ASSUME IInv, NEW i \in DOMAIN tasks, NEW t \in Task, Goes(i, t),
           UNCHANGED <<user, flags, queue, dirs, late>>,
           tran \in {i, None}, tran' \in {i, None}, t.at \in {"prune", "add"} <=> tran' = i,
           t.at \in {"prune", "between", "add"} => t.dir \in Dirs,
           t.dir # None => In[t.dir] \subseteq Allowed,
           t.at = "add" => /\ t.left \subseteq In[t.dir]
                           /\ \A u \in t.left \ t.known : lib'[u] = 0,
           t.dirs \subseteq tasks[i].dirs,
           lib' \in [Uris -> Nat], \A u \in Uris : lib'[u] <= 1, RecordedIn(lib') \subseteq Allowed,
           before'.lib \in [Uris -> Nat], \A u \in Uris : before'.lib[u] <= 1,
           RecordedIn(before'.lib) \subseteq Allowed
    PROVE  IInv'
<1>1. TypeOK /\ OneTransaction /\ AddedOnce /\ Accounted  BY DEF IInv
<1>2. /\ DOMAIN tasks' = DOMAIN tasks /\ tasks'[i] = t
      /\ \A j \in DOMAIN tasks : j # i => tasks'[j] = tasks[j]
  BY GoesOn
<1>3. running' = running /\ queue' = queue  BY DEF flags
<1>4. LoadedFirst' /\ queue' \in Seq(SignalCall) /\ running' /\ ~Calls("loaded")'
  BY <1>3, PoolLoadedFirst
<1>5. running /\ ~Calls("loaded") /\ tran # 0 /\ i \in Nat \ {0}  BY PoolRuns
<1>6. None \notin Nat /\ None \notin Dirs  BY LibraryAssumption
<1>7. \A j \in DOMAIN tasks : j \in Nat \ {0}  BY <1>1 DEF TypeOK
<1>8. \A j \in DOMAIN tasks : j # i => tran # j /\ tran' # j  BY <1>6, <1>7
<1>9. TypeOK'
  <2>1. \A j \in DOMAIN tasks' : tasks'[j] \in Task  BY <1>1, <1>2 DEF TypeOK
  <2> QED  BY <1>1, <1>2, <1>3, <1>4, <2>1 DEF TypeOK, user
<1>10. OneTransaction'
  <2>1. ASSUME NEW j \in DOMAIN tasks'
        PROVE  /\ tasks'[j].at \in {"prune", "add"} <=> tran' = j
               /\ tasks'[j].at \in {"prune", "between", "add"} => tasks'[j].dir \in Dirs
               /\ tasks'[j].at = "add" => tasks'[j].left \subseteq In[tasks'[j].dir]
    <3>1. CASE j = i  BY <1>2, <3>1
    <3>2. CASE j # i
      <4>1. j \in DOMAIN tasks /\ tasks'[j] = tasks[j] /\ tran # j /\ tran' # j
        BY <1>2, <1>8, <3>2
      <4> QED  BY <1>1, <4>1 DEF OneTransaction
    <3> QED  BY <3>1, <3>2
  <2>2. tran' \in DOMAIN tasks' \cup {0, None} /\ tran' # 0
    BY <1>2, <1>5, <1>6
  <2> QED  BY <2>1, <2>2 DEF OneTransaction
<1>11. AddedOnce'
  <2>1. ASSUME NEW j \in DOMAIN tasks', tasks'[j].at = "add"
        PROVE  \A u \in tasks'[j].left \ tasks'[j].known : lib'[u] = 0
    <3>1. j = i  BY <1>1, <1>2, <1>8, <2>1 DEF OneTransaction
    <3> QED  BY <1>2, <2>1, <3>1
  <2> QED  BY <2>1 DEF AddedOnce
<1>12. Accounted'
  <2>1. Allowed' = Allowed  BY DEF Allowed, Under
  <2>2. Recorded' = RecordedIn(lib')  BY DEF Recorded, RecordedIn
  <2>3. ASSUME NEW j \in DOMAIN tasks'
        PROVE  /\ \A d \in tasks'[j].dirs : In[d] \subseteq Allowed
               /\ tasks'[j].dir # None => In[tasks'[j].dir] \subseteq Allowed
    <3>1. CASE j = i
      <4>1. \A d \in tasks[i].dirs : In[d] \subseteq Allowed  BY <1>1 DEF Accounted
      <4> QED  BY <1>2, <3>1, <4>1
    <3>2. CASE j # i  BY <1>1, <1>2, <3>2 DEF Accounted
    <3> QED  BY <3>1, <3>2
  <2>4. Recorded' \subseteq Allowed' /\ RecordedIn(before.lib)' \subseteq Allowed'
    BY <2>1, <2>2 DEF RecordedIn
  <2> HIDE DEF Allowed
  <2> QED  BY <2>1, <2>3, <2>4 DEF Accounted
<1> QED  BY <1>4, <1>9, <1>10, <1>11, <1>12 DEF IInv

\* What holds of the collection and of what a transaction would restore.
LEMMA LibFacts ==
    ASSUME IInv
    PROVE  /\ lib \in [Uris -> Nat] /\ \A u \in Uris : lib[u] <= 1
           /\ before.lib \in [Uris -> Nat] /\ \A u \in Uris : before.lib[u] <= 1
           /\ Recorded = RecordedIn(lib)
BY DEF IInv, TypeOK, AddedOnce, Recorded, RecordedIn

\* Before nothing there was nothing, and no transaction restores anything.
LEMMA NothingBefore ==
    /\ NoTracks \in [Uris -> Nat] /\ \A u \in Uris : NoTracks[u] <= 1
    /\ RecordedIn(NoTracks) = {} /\ Untouched.lib = NoTracks
BY DEF NoTracks, RecordedIn, Untouched

\* Records that are dropped are gone, and the others stay as they are.
LEMMA DropKeeps ==
    ASSUME IInv, NEW names
    PROVE  /\ Drop(names) \in [Uris -> Nat] /\ \A u \in Uris : Drop(names)[u] <= 1
           /\ RecordedIn(Drop(names)) = Recorded \ names
           /\ \A u \in Uris : lib[u] = 0 => Drop(names)[u] = 0
BY LibFacts DEF Drop, RecordedIn

LEMMA BeginPruneKeeps ==
    ASSUME IInv, NEW i \in DOMAIN tasks, BeginPrune(i)
    PROVE  IInv'
<1>1. PICK d \in tasks[i].dirs :
         Goes(i, [tasks[i] EXCEPT !.at = "prune", !.dirs = @ \ {d}, !.dir = d,
                                  !.known = Recorded \cap Begins[d]])
  BY DEF BeginPrune
<1> DEFINE t == [tasks[i] EXCEPT !.at = "prune", !.dirs = @ \ {d}, !.dir = d,
                                 !.known = Recorded \cap Begins[d]]
<1>2. tasks[i] \in Task /\ d \in Dirs /\ In[d] \subseteq Allowed  BY PoolRuns, ScanFacts
<1>3. /\ t \in Task /\ t.at = "prune" /\ t.dir = d /\ t.dirs \subseteq tasks[i].dirs
  BY <1>2 DEF Task, Recorded
<1>4. tran = None /\ tran' = i /\ lib' = lib /\ before'.lib = lib
  BY DEF BeginPrune, Begin
<1>5. Goes(i, t) /\ UNCHANGED <<user, flags, queue, dirs, late>>  BY <1>1 DEF BeginPrune
<1>6. Recorded \subseteq Allowed  BY PoolAccounted
<1> HIDE DEF t
<1> QED  BY <1>2, <1>3, <1>4, <1>5, <1>6, LibFacts, InsideKeeps

LEMMA PruneKeeps ==
    ASSUME IInv, NEW i \in DOMAIN tasks, Prune(i)
    PROVE  IInv'
<1> DEFINE t == [tasks[i] EXCEPT !.at = "between"]
<1>1. tasks[i] \in Task /\ tasks[i].at = "prune"  BY PoolRuns DEF Prune, At
<1>2. t \in Task /\ t.at = "between" /\ t.dir = tasks[i].dir /\ t.dirs = tasks[i].dirs
  BY <1>1 DEF Task
<1>3. tran = i /\ t.dir \in Dirs /\ In[t.dir] \subseteq Allowed  BY <1>1, <1>2, ScanFacts
<1>4. tran' = None /\ before'.lib = NoTracks  BY NothingBefore DEF Prune, Commit
<1>5. PICK names : lib' = Drop(names)  BY DEF Prune
<1>6. Goes(i, t) /\ UNCHANGED <<user, flags, queue, dirs, late>>  BY DEF Prune
<1>7. Recorded \subseteq Allowed  BY PoolAccounted
<1>8. i # None  BY PoolRuns, LibraryAssumption
<1>9. /\ lib' \in [Uris -> Nat] /\ \A u \in Uris : lib'[u] <= 1
      /\ RecordedIn(lib') \subseteq Allowed
  BY <1>5, <1>7, DropKeeps
<1> HIDE DEF t
<1> QED  BY <1>2, <1>3, <1>4, <1>6, <1>8, <1>9, NothingBefore, InsideKeeps

\* What will be added was not recorded: the walk finds names that begin with
\* the directory's, and those recorded were asked for in this transaction.
LEMMA BeginAddKeeps ==
    ASSUME IInv, NEW i \in DOMAIN tasks, BeginAdd(i)
    PROVE  IInv'
<1> DEFINE t == [tasks[i] EXCEPT !.at = "add", !.known = Recorded \cap Begins[tasks[i].dir],
                                 !.left = In[tasks[i].dir] \ Ignored]
<1>1. tasks[i] \in Task /\ tasks[i].at = "between"  BY PoolRuns DEF BeginAdd, At
<1>2. tasks[i].dir \in Dirs /\ In[tasks[i].dir] \subseteq Allowed  BY <1>1, ScanFacts
<1>3. In[tasks[i].dir] \subseteq Uris /\ In[tasks[i].dir] \subseteq Begins[tasks[i].dir]
  BY <1>2, LibraryAssumption
<1>4. /\ t \in Task /\ t.at = "add" /\ t.dir = tasks[i].dir /\ t.dirs = tasks[i].dirs
      /\ t.left \subseteq In[t.dir] /\ t.left \subseteq Begins[t.dir] /\ t.left \subseteq Uris
      /\ t.known = Recorded \cap Begins[t.dir]
  BY <1>1, <1>3 DEF Task, Recorded
<1>5. tran = None /\ tran' = i /\ lib' = lib /\ before'.lib = lib
  BY DEF BeginAdd, Begin
<1>6. Goes(i, t) /\ UNCHANGED <<user, flags, queue, dirs, late>>  BY DEF BeginAdd
<1>7. Recorded \subseteq Allowed  BY PoolAccounted
<1> HIDE DEF t
<1>8. \A u \in t.left \ t.known : lib'[u] = 0
  BY <1>4, <1>5, LibFacts DEF Recorded
<1> QED  BY <1>2, <1>4, <1>5, <1>6, <1>7, <1>8, LibFacts, InsideKeeps

LEMMA VisitKeeps ==
    ASSUME IInv, NEW i \in DOMAIN tasks, Visit(i)
    PROVE  IInv'
<1>1. PICK u \in tasks[i].left :
          /\ Goes(i, [tasks[i] EXCEPT !.left = @ \ {u}])
          /\ \/ u \notin tasks[i].known /\ Added(u)
             \/ Updated(u)
             \/ UNCHANGED lib
  BY DEF Visit
<1> DEFINE t == [tasks[i] EXCEPT !.left = @ \ {u}]
<1>2. tasks[i] \in Task /\ tasks[i].at = "add"  BY PoolRuns DEF Visit, At
<1>3. /\ t \in Task /\ t.at = "add" /\ t.dir = tasks[i].dir /\ t.dirs = tasks[i].dirs
      /\ t.left = tasks[i].left \ {u} /\ t.known = tasks[i].known
  BY <1>2 DEF Task
<1>4. /\ tran = i /\ t.dir \in Dirs /\ In[t.dir] \subseteq Allowed
      /\ tasks[i].left \subseteq In[t.dir] /\ tasks[i].left \subseteq Uris
      /\ \A v \in tasks[i].left \ tasks[i].known : lib[v] = 0
  BY <1>2, <1>3, ScanFacts DEF Task
<1>5. tran' = tran /\ before' = before /\ UNCHANGED <<user, flags, queue, dirs, late>>
  BY DEF Visit
<1>6. Goes(i, t)  BY <1>1
<1>7. i # None /\ Recorded \subseteq Allowed /\ RecordedIn(before.lib) \subseteq Allowed
  BY <1>4, PoolRuns, PoolAccounted, LibraryAssumption
<1> HIDE DEF t
<1>8. /\ lib' \in [Uris -> Nat] /\ \A v \in Uris : lib'[v] <= 1
      /\ RecordedIn(lib') \subseteq Allowed
      /\ \A v \in t.left \ t.known : lib'[v] = 0
  <2>1. CASE u \notin tasks[i].known /\ Added(u)
    <3>1. u \in Uris /\ lib[u] = 0 /\ u \in Allowed  BY <1>4, <2>1
    <3>2. lib' = [lib EXCEPT ![u] = lib[u] + 1]  BY <2>1 DEF Added
    <3>3. lib'[u] = 1 /\ \A v \in Uris : v # u => lib'[v] = lib[v]  BY <3>1, <3>2, LibFacts
    <3>4. lib' \in [Uris -> Nat]  BY <3>1, <3>2, LibFacts
    <3>5. \A v \in Uris : lib'[v] <= 1  BY <3>3, LibFacts
    <3>6. RecordedIn(lib') \subseteq Allowed
      BY <1>7, <3>1, <3>3 DEF RecordedIn, Recorded
    <3> QED  BY <1>3, <1>4, <3>3, <3>4, <3>5, <3>6
  <2>2. CASE Updated(u)
    <3>1. lib' = Drop({u})  BY <2>2 DEF Updated
    <3> QED  BY <1>3, <1>4, <1>7, <3>1, DropKeeps
  <2>3. CASE UNCHANGED lib  BY <1>3, <1>4, <1>7, <2>3, LibFacts
  <2> QED  BY <1>1, <2>1, <2>2, <2>3
<1> QED  BY <1>3, <1>4, <1>5, <1>6, <1>7, <1>8, LibFacts, InsideKeeps

LEMMA DirDoneKeeps ==
    ASSUME IInv, NEW i \in DOMAIN tasks, DirDone(i)
    PROVE  IInv'
<1> DEFINE t == [tasks[i] EXCEPT !.at = "next", !.dir = None, !.known = {}]
<1>1. tasks[i] \in Task /\ tasks[i].at = "add"  BY PoolRuns DEF DirDone, At
<1>2. t \in Task /\ t.at = "next" /\ t.dir = None /\ t.dirs = tasks[i].dirs
  BY <1>1 DEF Task
<1>3. tran = i /\ i # None  BY <1>1, ScanFacts, PoolRuns, LibraryAssumption
<1>4. tran' = None /\ before'.lib = NoTracks /\ lib' = lib
  BY NothingBefore DEF DirDone, Commit
<1>5. Goes(i, t) /\ UNCHANGED <<user, flags, queue, dirs, late>>  BY DEF DirDone
<1>6. Recorded \subseteq Allowed  BY PoolAccounted
<1> HIDE DEF t
<1> QED  BY <1>2, <1>3, <1>4, <1>5, <1>6, LibFacts, NothingBefore, InsideKeeps

LEMMA DirFailsKeeps ==
    ASSUME IInv, NEW i \in DOMAIN tasks, DirFails(i)
    PROVE  IInv'
<1> DEFINE t == [tasks[i] EXCEPT !.at = "next", !.dir = None, !.known = {}, !.left = {}]
<1>1. tasks[i] \in Task /\ tasks[i].at \in {"prune", "add"}  BY PoolRuns DEF DirFails, At
<1>2. t \in Task /\ t.at = "next" /\ t.dir = None /\ t.dirs = tasks[i].dirs
  BY <1>1 DEF Task
<1>3. tran = i /\ i # None  BY <1>1, ScanFacts, PoolRuns, LibraryAssumption
<1>4. tran' = None /\ before'.lib = NoTracks /\ lib' \in {lib, before.lib}
  BY NothingBefore DEF DirFails, Commit
<1>5. Goes(i, t) /\ UNCHANGED <<user, flags, queue, dirs, late>>  BY DEF DirFails
<1>6. Recorded \subseteq Allowed /\ RecordedIn(before.lib) \subseteq Allowed
  BY <1>3, PoolAccounted
<1>7. /\ lib' \in [Uris -> Nat] /\ \A u \in Uris : lib'[u] <= 1
      /\ RecordedIn(lib') \subseteq Allowed
  BY <1>4, <1>6, LibFacts
<1> HIDE DEF t
<1> QED  BY <1>2, <1>3, <1>4, <1>5, <1>7, NothingBefore, InsideKeeps

LEMMA ScanEndsKeeps ==
    ASSUME IInv, NEW i \in DOMAIN tasks, ScanEnds(i)
    PROVE  IInv'
<1>1. TypeOK /\ OneTransaction /\ AddedOnce /\ Accounted  BY DEF IInv
<1>2. tasks' = [j \in DOMAIN tasks \ {i} |-> tasks[j]] /\ tasks[i].at = "next"
  BY DEF ScanEnds, At
<1>3. DOMAIN tasks' = DOMAIN tasks \ {i} /\ \A j \in DOMAIN tasks' : tasks'[j] = tasks[j]
  BY <1>2
<1>4. UNCHANGED <<user, base, flags, dirs, late>> /\ queue' = Append(queue, Call("ended", {}))
  BY DEF ScanEnds
<1>5. running' = running  BY <1>4 DEF flags
<1>6. LoadedFirst' /\ queue' \in Seq(SignalCall) /\ running' /\ ~Calls("loaded")'
  BY <1>4, <1>5, PoolLoadedFirst
<1>7. running /\ ~Calls("loaded") /\ tran # 0  BY PoolRuns
<1>8. TypeOK'
  <2>1. IsFiniteSet(DOMAIN tasks')  BY <1>1, <1>3, FS_RemoveElement DEF TypeOK
  <2>2. \A j \in DOMAIN tasks' : tasks'[j] \in Task  BY <1>1, <1>3 DEF TypeOK
  <2>3. DOMAIN tasks' \subseteq Nat \ {0}  BY <1>1, <1>3 DEF TypeOK
  <2> QED  BY <1>1, <1>4, <1>5, <1>6, <2>1, <2>2, <2>3 DEF TypeOK, user, base
<1>9. OneTransaction'
  <2>1. tran' = tran /\ tran # i  BY <1>1, <1>2, <1>4 DEF OneTransaction, base
  <2> QED  BY <1>1, <1>3, <1>7, <2>1 DEF OneTransaction
<1>10. AddedOnce'
  <2>1. lib' = lib /\ before' = before  BY <1>4 DEF base
  <2> QED  BY <1>1, <1>3, <2>1 DEF AddedOnce
<1>11. Accounted'
  <2>1. lib' = lib /\ before' = before /\ tran' = tran  BY <1>4 DEF base
  <2>2. Allowed' = Allowed  BY <1>4 DEF Allowed, Under
  <2>3. Recorded' = Recorded  BY <2>1 DEF Recorded
  <2>4. \A j \in DOMAIN tasks' :
          /\ \A d \in tasks'[j].dirs : In[d] \subseteq Allowed
          /\ tasks'[j].dir # None => In[tasks'[j].dir] \subseteq Allowed
    BY <1>1, <1>3 DEF Accounted
  <2> HIDE DEF Allowed
  <2> QED  BY <1>1, <1>7, <2>1, <2>2, <2>3, <2>4 DEF Accounted, RecordedIn
<1> QED  BY <1>6, <1>8, <1>9, <1>10, <1>11 DEF IInv

LEMMA WorksKeeps ==
    ASSUME IInv, NEW i \in DOMAIN tasks, Works(i)
    PROVE  IInv'
<1>1. CASE ScanStarts(i)  BY <1>1, ScanStartsKeeps
<1>2. CASE LockDirs(i)  BY <1>2, LockDirsKeeps
<1>3. CASE SkipDir(i)  BY <1>3, SkipDirKeeps
<1>4. CASE BeginPrune(i)  BY <1>4, BeginPruneKeeps
<1>5. CASE Prune(i)  BY <1>5, PruneKeeps
<1>6. CASE BeginAdd(i)  BY <1>6, BeginAddKeeps
<1>7. CASE Visit(i)  BY <1>7, VisitKeeps
<1>8. CASE DirDone(i)  BY <1>8, DirDoneKeeps
<1>9. CASE DirFails(i)  BY <1>9, DirFailsKeeps
<1>10. CASE ScanEnds(i)  BY <1>10, ScanEndsKeeps
<1> QED
  BY <1>1, <1>2, <1>3, <1>4, <1>5, <1>6, <1>7, <1>8, <1>9, <1>10 DEF Works

-----------------------------------------------------------------------------
(* The signal thread *)

\* A scan may be posted, of directories accounted for.
Posts ==
    \/ tasks' = tasks
    \/ \E all \in BOOLEAN, ds \in SUBSET Dirs :
          tasks' = Post(Scan(all, ds)) /\ \A d \in ds : In[d] \subseteq Allowed'

\* A call that is made, and leaves what went on accounted for as well as before.
LEMMA CallKeeps ==
    ASSUME IInv, queue # <<>>, queue' = Tail(queue), UNCHANGED <<setting, running>>,
           (tran # 0 /\ tran' = tran) \/ (tran' = None /\ tran = 0),
           lib' \in [Uris -> Nat], \A u \in Uris : lib'[u] <= 1,
           \A u \in Uris : lib[u] = 0 => lib'[u] = 0,
           before'.lib \in [Uris -> Nat], \A u \in Uris : before'.lib[u] <= 1,
           dirs' \subseteq Dirs,
           Posts,
           RecordedIn(lib') \subseteq Allowed',
           tran' # None => RecordedIn(before'.lib) \subseteq Allowed',
           DOMAIN tasks # {} => Allowed \subseteq Allowed'
    PROVE  IInv'
<1>1. TypeOK /\ OneTransaction /\ AddedOnce /\ LoadedFirst /\ Accounted  BY DEF IInv
<1>2. running /\ running'  BY <1>1 DEF LoadedFirst
<1>3. /\ queue' \in Seq(SignalCall) /\ ~Calls("loaded")'
      /\ \A k \in 1..Len(queue') : queue'[k].op = "loaded" => k = 1
  BY <1>1, CallMade DEF LoadedFirst
<1>4. None \notin Nat /\ None \notin Dirs  BY LibraryAssumption
<1>5. /\ IsFiniteSet(DOMAIN tasks') /\ DOMAIN tasks' \subseteq Nat \ {0}
      /\ DOMAIN tasks \subseteq DOMAIN tasks'
      /\ \A j \in DOMAIN tasks : tasks'[j] = tasks[j]
      /\ \A j \in DOMAIN tasks' : j \notin DOMAIN tasks =>
            \E all \in BOOLEAN, ds \in SUBSET Dirs :
               tasks'[j] = Scan(all, ds) /\ \A d \in ds : In[d] \subseteq Allowed'
  <2>1. CASE tasks' = tasks  BY <1>1, <2>1 DEF TypeOK
  <2>2. CASE \E all \in BOOLEAN, ds \in SUBSET Dirs :
                tasks' = Post(Scan(all, ds)) /\ \A d \in ds : In[d] \subseteq Allowed'
    <3>1. PICK all \in BOOLEAN, ds \in SUBSET Dirs :
             tasks' = Post(Scan(all, ds)) /\ \A d \in ds : In[d] \subseteq Allowed'
      BY <2>2
    <3>2. PICK i \in Nat \ {0} :
             /\ i \notin DOMAIN tasks /\ DOMAIN tasks' = DOMAIN tasks \cup {i}
             /\ tasks'[i] = Scan(all, ds) /\ \A j \in DOMAIN tasks : tasks'[j] = tasks[j]
             /\ IsFiniteSet(DOMAIN tasks')
      BY <1>1, <3>1, PostAdds
    <3>3. DOMAIN tasks' \subseteq Nat \ {0}  BY <1>1, <3>2 DEF TypeOK
    <3>4. \A j \in DOMAIN tasks' : j \notin DOMAIN tasks => j = i  BY <3>2
    <3> HIDE DEF Scan, Allowed
    <3> QED  BY <3>1, <3>2, <3>3, <3>4
  <2> QED  BY <2>1, <2>2 DEF Posts
<1>6. TypeOK'
  <2>1. ASSUME NEW j \in DOMAIN tasks' PROVE tasks'[j] \in Task
    <3>1. CASE j \in DOMAIN tasks  BY <1>1, <1>5, <3>1 DEF TypeOK
    <3>2. CASE j \notin DOMAIN tasks
      <4>1. PICK all \in BOOLEAN, ds \in SUBSET Dirs : tasks'[j] = Scan(all, ds)
        BY <1>5, <3>2
      <4> QED  BY <4>1 DEF Scan, Task
    <3> QED  BY <3>1, <3>2
  <2>2. setting' \in Settings \cup {Garbled} /\ running' \in BOOLEAN  BY <1>1 DEF TypeOK
  <2> QED  BY <1>3, <1>5, <2>1, <2>2 DEF TypeOK
<1>7. \A j \in DOMAIN tasks' : j \notin DOMAIN tasks =>
         tasks'[j].at = "wait" /\ tasks'[j].dir = None
  BY <1>5 DEF Scan
<1>8. OneTransaction'
  <2>1. ASSUME NEW j \in DOMAIN tasks'
        PROVE  /\ tasks'[j].at \in {"prune", "add"} <=> tran' = j
               /\ tasks'[j].at \in {"prune", "between", "add"} => tasks'[j].dir \in Dirs
               /\ tasks'[j].at = "add" => tasks'[j].left \subseteq In[tasks'[j].dir]
    <3>1. j \in Nat \ {0}  BY <1>5
    <3>2. CASE j \in DOMAIN tasks
      <4>1. tasks'[j] = tasks[j]  BY <1>5, <3>2
      <4>2. tran = j <=> tran' = j  BY <1>4, <3>1
      <4> QED  BY <1>1, <3>2, <4>1, <4>2 DEF OneTransaction
    <3>3. CASE j \notin DOMAIN tasks
      <4>1. tran # j /\ tran' # j  BY <1>1, <1>4, <3>1, <3>3 DEF OneTransaction
      <4> QED  BY <1>7, <3>3, <4>1
    <3> QED  BY <3>2, <3>3
  <2>2. tran' # 0 /\ tran' \in DOMAIN tasks' \cup {None}
    BY <1>1, <1>4, <1>5 DEF OneTransaction
  <2> QED  BY <2>1, <2>2 DEF OneTransaction
<1>9. AddedOnce'
  <2>1. ASSUME NEW j \in DOMAIN tasks', tasks'[j].at = "add"
        PROVE  \A u \in tasks'[j].left \ tasks'[j].known : lib'[u] = 0
    <3>1. j \in DOMAIN tasks /\ tasks'[j] = tasks[j]  BY <1>5, <1>7, <2>1
    <3>2. tasks[j].left \subseteq Uris  BY <1>1, <3>1 DEF TypeOK, Task
    <3> QED  BY <1>1, <2>1, <3>1, <3>2 DEF AddedOnce
  <2> QED  BY <2>1 DEF AddedOnce
<1>10. LoadedFirst'  BY <1>2, <1>3 DEF LoadedFirst
<1>11. Accounted'
  <2>1. ASSUME NEW j \in DOMAIN tasks'
        PROVE  /\ \A d \in tasks'[j].dirs : In[d] \subseteq Allowed'
               /\ tasks'[j].dir # None => In[tasks'[j].dir] \subseteq Allowed'
    <3>1. CASE j \in DOMAIN tasks
      <4>1. tasks'[j] = tasks[j] /\ Allowed \subseteq Allowed'  BY <1>5, <3>1
      <4>2. /\ \A d \in tasks[j].dirs : In[d] \subseteq Allowed
            /\ tasks[j].dir # None => In[tasks[j].dir] \subseteq Allowed
        BY <1>1, <3>1 DEF Accounted
      <4> HIDE DEF Allowed
      <4> QED  BY <4>1, <4>2
    <3>2. CASE j \notin DOMAIN tasks
      <4>1. PICK all \in BOOLEAN, ds \in SUBSET Dirs :
               tasks'[j] = Scan(all, ds) /\ \A d \in ds : In[d] \subseteq Allowed'
        BY <1>5, <3>2
      <4>2. tasks'[j].dirs = ds /\ tasks'[j].dir = None  BY <4>1 DEF Scan
      <4> HIDE DEF Allowed
      <4> QED  BY <4>1, <4>2
    <3> QED  BY <3>1, <3>2
  <2>2. Recorded' = RecordedIn(lib')  BY DEF Recorded, RecordedIn
  <2>3. RecordedIn(before.lib)' = RecordedIn(before'.lib)  BY DEF RecordedIn
  <2> HIDE DEF Allowed
  <2> QED  BY <2>1, <2>2, <2>3 DEF Accounted
<1> QED  BY <1>6, <1>8, <1>9, <1>10, <1>11 DEF IInv

\* A call other than loadedSlot finds everything accounted for.
LEMMA CallAccounted ==
    ASSUME IInv, NEW op \in {"plugins", "directories", "started", "ended"}, Calls(op)
    PROVE  /\ queue # <<>> /\ tran # 0 /\ dirs \subseteq Dirs
           /\ Recorded \subseteq Allowed
           /\ tran # None => RecordedIn(before.lib) \subseteq Allowed
<1>1. queue # <<>> /\ ~Calls("loaded")  BY DEF Calls
<1> QED  BY <1>1 DEF IInv, TypeOK, OneTransaction, LoadedFirst, Accounted

\* Directories that are configured, or links to them, are accounted for.
LEMMA FreshAccounted ==
    ASSUME NEW ns, NEW ds \in SUBSET Dirs, NEW old, Fresh(ns, ds, old),
           CanonOf(ds) \subseteq dirs'
    PROVE  ns \in SUBSET Dirs /\ \A d \in ns : In[d] \subseteq Allowed'
<1>1. ns \subseteq ds  BY DEF Fresh
<1>2. ASSUME NEW d \in ns PROVE In[d] \subseteq Allowed'
  <2>1. d \in Dirs /\ Canon[d] \in dirs'  BY <1>1 DEF CanonOf
  <2>2. CASE Canon[d] = d
    <3>1. In[d] \subseteq Begins[d]  BY <2>1, LibraryAssumption
    <3>2. Begins[d] \subseteq Under(dirs')  BY <2>1, <2>2 DEF Under
    <3> QED  BY <3>1, <3>2 DEF Allowed, Under
  <2>3. CASE Canon[d] # d
    <3>1. In[d] \subseteq Linked  BY <2>1, <2>3 DEF Linked
    <3> QED  BY <3>1 DEF Allowed, Linked
  <2> QED  BY <2>2, <2>3
<1> QED  BY <1>1, <1>2

LEMMA CanonOfDirs ==
    ASSUME NEW ds \in SUBSET Dirs
    PROVE  CanonOf(ds) \subseteq Dirs
BY LibraryAssumption DEF CanonOf

\* What a value names are directories that may be configured.
LEMMA NamedDirs ==
    ASSUME NEW v
    PROVE  Named(v) \in SUBSET Dirs
BY LibraryAssumption DEF Named

LEMMA LoadedBeginsKeeps ==
    ASSUME IInv, LoadedBegins
    PROVE  IInv'
<1>1. TypeOK /\ OneTransaction /\ AddedOnce /\ LoadedFirst /\ Accounted  BY DEF IInv
<1>2. Calls("loaded") /\ DOMAIN tasks = {}  BY <1>1 DEF LoadedBegins, LoadedFirst
<1>3. /\ tran' = 0 /\ before'.lib = lib /\ lib' = lib /\ queue' = queue /\ tasks' = tasks
      /\ UNCHANGED <<setting, running, dirs>>
  BY DEF LoadedBegins, Begin, user, flags
<1>4. TypeOK'  BY <1>1, <1>3 DEF TypeOK
<1>5. Calls("loaded")'  BY <1>2, <1>3 DEF Calls
<1>6. OneTransaction'  BY <1>2, <1>3, <1>5 DEF OneTransaction
<1>7. AddedOnce'  BY <1>1, <1>2, <1>3 DEF AddedOnce
<1>8. LoadedFirst'  BY <1>1, <1>2, <1>3 DEF LoadedFirst
<1>9. Accounted'  BY <1>2, <1>3, <1>5 DEF Accounted
<1> QED  BY <1>4, <1>6, <1>7, <1>8, <1>9 DEF IInv

LEMMA LoadedEndsKeeps ==
    ASSUME IInv, LoadedEnds
    PROVE  IInv'
<1> DEFINE named == Named(setting)
<1>1. queue # <<>> /\ tran = 0 /\ DOMAIN tasks = {} /\ named \in SUBSET Dirs
  BY NamedDirs DEF LoadedEnds, Calls, IInv, LoadedFirst
<1>2. /\ queue' = Tail(queue) /\ UNCHANGED <<setting, running>>
      /\ tran' = None /\ before'.lib = NoTracks
  BY NothingBefore DEF LoadedEnds, Commit, user, flags
<1>3. dirs' = CanonOf(named) /\ lib' = Drop(Uris \ Under(dirs'))  BY DEF LoadedEnds
<1>4. \/ tasks' = tasks
      \/ \E ns \in SUBSET named : Fresh(ns, named, {}) /\ tasks' = Post(Scan(FALSE, ns))
  BY DEF LoadedEnds
<1> HIDE DEF named
<1>6. dirs' \subseteq Dirs  BY <1>1, <1>3, CanonOfDirs
<1>7. Recorded \ (Uris \ Under(dirs')) \subseteq Allowed'
  BY DEF Allowed, Under, Recorded
<1>8. /\ lib' \in [Uris -> Nat] /\ \A u \in Uris : lib'[u] <= 1
      /\ RecordedIn(lib') = Recorded \ (Uris \ Under(dirs'))
      /\ \A u \in Uris : lib[u] = 0 => lib'[u] = 0
  BY <1>3, DropKeeps
<1> HIDE DEF Allowed
<1>9. Posts
  <2>1. CASE tasks' = tasks  BY <2>1 DEF Posts
  <2>2. CASE \E ns \in SUBSET named : Fresh(ns, named, {}) /\ tasks' = Post(Scan(FALSE, ns))
    <3>1. PICK ns \in SUBSET named : Fresh(ns, named, {}) /\ tasks' = Post(Scan(FALSE, ns))
      BY <2>2
    <3>2. CanonOf(named) \subseteq dirs'  BY <1>3
    <3>3. ns \in SUBSET Dirs /\ \A d \in ns : In[d] \subseteq Allowed'
      BY <1>1, <3>1, <3>2, FreshAccounted
    <3>4. FALSE \in BOOLEAN  OBVIOUS
    <3> QED  BY <3>1, <3>3, <3>4 DEF Posts
  <2> QED  BY <1>4, <2>1, <2>2
<1> QED  BY <1>1, <1>2, <1>6, <1>7, <1>8, <1>9, NothingBefore, CallKeeps

LEMMA SetDirectoriesKeeps ==
    ASSUME IInv, SetDirectories
    PROVE  IInv'
<1> DEFINE ds == Head(queue).dirs
           gone == dirs \ ds
           named == Named(ds)
<1>1. Calls("directories")  BY DEF SetDirectories
<1>2. /\ queue # <<>> /\ tran # 0 /\ dirs \subseteq Dirs
      /\ Recorded \subseteq Allowed
      /\ tran # None => RecordedIn(before.lib) \subseteq Allowed
  BY <1>1, CallAccounted
<1>3. named \in SUBSET Dirs  BY NamedDirs
<1>4. /\ queue' = Tail(queue) /\ UNCHANGED <<setting, running, tran, before>>
      /\ lib' = Drop(Under(gone)) /\ dirs' = (dirs \ gone) \cup CanonOf(named)
      /\ late' = IF DOMAIN tasks = {} THEN late ELSE late \cup Under(gone)
  BY DEF SetDirectories, user, flags
<1>5. PICK ns \in SUBSET named : Fresh(ns, named, dirs \ gone) /\ tasks' = Post(Scan(FALSE, ns))
  BY DEF SetDirectories
<1> HIDE DEF ds, named
<1>6. dirs' \subseteq Dirs /\ CanonOf(named) \subseteq dirs'  BY <1>2, <1>3, <1>4, CanonOfDirs
<1>7. ns \in SUBSET Dirs /\ \A d \in ns : In[d] \subseteq Allowed'
  BY <1>3, <1>5, <1>6, FreshAccounted
<1>8. /\ lib' \in [Uris -> Nat] /\ \A u \in Uris : lib'[u] <= 1
      /\ RecordedIn(lib') = Recorded \ Under(gone)
      /\ \A u \in Uris : lib[u] = 0 => lib'[u] = 0
  BY <1>4, DropKeeps
<1>9. /\ Under(dirs) \subseteq Under(dirs \ gone) \cup Under(gone)
      /\ Under(dirs \ gone) \subseteq Under(dirs')
  BY <1>4 DEF Under
<1>10. Allowed' = Under(dirs') \cup late' \cup Linked  BY DEF Allowed, Under, Linked
<1>11. Allowed \ Under(gone) \subseteq Allowed'
  <2> HIDE DEF gone
  <2> QED  BY <1>4, <1>9, <1>10 DEF Allowed
<1>12. DOMAIN tasks # {} => Allowed \subseteq Allowed'
  <2> HIDE DEF gone
  <2> QED  BY <1>4, <1>9, <1>10 DEF Allowed
<1>13. tran # None => DOMAIN tasks # {}  BY <1>2 DEF IInv, OneTransaction
<1>14. /\ RecordedIn(lib') \subseteq Allowed'
       /\ tran' # None => RecordedIn(before'.lib) \subseteq Allowed'
  <2> HIDE DEF gone, Allowed
  <2> QED  BY <1>2, <1>4, <1>8, <1>11, <1>12, <1>13
<1> HIDE DEF Allowed
<1>15. /\ tran # 0 /\ tran' = tran /\ UNCHANGED <<setting, running>>
       /\ before'.lib \in [Uris -> Nat] /\ \A u \in Uris : before'.lib[u] <= 1
  BY <1>2, <1>4, LibFacts
<1>16. Posts
  <2>1. FALSE \in BOOLEAN  OBVIOUS
  <2> QED  BY <1>5, <1>7, <2>1 DEF Posts
<1>17. queue' = Tail(queue)  BY <1>4
<1> HIDE DEF gone
<1> QED  BY <1>2, <1>6, <1>8, <1>12, <1>14, <1>15, <1>16, <1>17, CallKeeps

\* A call that leaves the collection and the directories alone.
LEMMA FlagCallKeeps ==
    ASSUME IInv, NEW op \in {"plugins", "started", "ended"}, Calls(op), queue' = Tail(queue),
           UNCHANGED <<user, base, running, dirs, late>>,
           tasks' = tasks \/ tasks' = Post(Scan(TRUE, {}))
    PROVE  IInv'
<1>1. /\ queue # <<>> /\ tran # 0 /\ dirs \subseteq Dirs
      /\ Recorded \subseteq Allowed
      /\ tran # None => RecordedIn(before.lib) \subseteq Allowed
  BY CallAccounted
<1>2. UNCHANGED <<setting, lib, tran, before, running, dirs, late>>  BY DEF user, base
<1>3. Allowed' = Allowed  BY DEF Allowed, Under
<1>4. Posts
  <2>1. CASE tasks' = tasks  BY <2>1 DEF Posts
  <2>2. CASE tasks' = Post(Scan(TRUE, {}))
    <3>1. TRUE \in BOOLEAN /\ {} \in SUBSET Dirs  OBVIOUS
    <3>2. \A d \in {} : In[d] \subseteq Allowed'  OBVIOUS
    <3> QED  BY <2>2, <3>1, <3>2 DEF Posts
  <2> QED  BY <2>1, <2>2
<1>5. /\ RecordedIn(lib') \subseteq Allowed' /\ Allowed \subseteq Allowed'
      /\ tran' # None => RecordedIn(before'.lib) \subseteq Allowed'
  <2> HIDE DEF Allowed
  <2> QED  BY <1>1, <1>2, <1>3, LibFacts
<1>6. UNCHANGED <<setting, running>> /\ tran' = tran /\ dirs' \subseteq Dirs
  BY <1>1, <1>2
<1>7. /\ lib' \in [Uris -> Nat] /\ \A u \in Uris : lib'[u] <= 1
      /\ \A u \in Uris : lib[u] = 0 => lib'[u] = 0
      /\ before'.lib \in [Uris -> Nat] /\ \A u \in Uris : before'.lib[u] <= 1
  BY <1>2, LibFacts
<1> HIDE DEF Allowed
<1> QED  BY <1>1, <1>4, <1>5, <1>6, <1>7, CallKeeps

LEMMA SignalThreadKeeps ==
    ASSUME IInv, SignalThread
    PROVE  IInv'
<1>1. CASE LoadedBegins  BY <1>1, LoadedBeginsKeeps
<1>2. CASE LoadedEnds  BY <1>2, LoadedEndsKeeps
<1>3. CASE SetDirectories  BY <1>3, SetDirectoriesKeeps
<1>4. CASE PluginsLoaded  BY <1>4, FlagCallKeeps DEF PluginsLoaded
<1>5. CASE ScanStarted  BY <1>5, FlagCallKeeps DEF ScanStarted
<1>6. CASE ScanEnded  BY <1>6, FlagCallKeeps DEF ScanEnded
<1> QED  BY <1>1, <1>2, <1>3, <1>4, <1>5, <1>6 DEF SignalThread

-----------------------------------------------------------------------------
(* The user, the files, and the program's start and end *)

LEMMA StartKeeps ==
    ASSUME IInv, Start
    PROVE  IInv'
<1>1. TypeOK /\ OneTransaction /\ AddedOnce /\ LoadedFirst /\ Accounted  BY DEF IInv
<1>2. queue = <<>> /\ DOMAIN tasks = {}  BY <1>1 DEF Start, LoadedFirst
<1>3. /\ running' = TRUE /\ queue' = <<Call("loaded", {}), Call("plugins", {})>>
      /\ tasks' = tasks /\ UNCHANGED <<setting, lib, tran, before, dirs>>
  BY DEF Start, base
<1>4. /\ queue' \in Seq(SignalCall) /\ Len(queue') = 2 /\ Head(queue').op = "loaded"
      /\ queue' # <<>> /\ queue'[2].op = "plugins"
  <2>1. Call("loaded", {}) \in SignalCall /\ Call("plugins", {}) \in SignalCall
    BY DEF Call, SignalCall
  <2>2. Call("loaded", {}).op = "loaded" /\ Call("plugins", {}).op = "plugins"  BY DEF Call
  <2> HIDE DEF Call
  <2> QED  BY <1>3, <2>1, <2>2
<1>5. TypeOK'  BY <1>1, <1>3, <1>4 DEF TypeOK
<1>6. Calls("loaded")'  BY <1>4 DEF Calls
<1>7. OneTransaction'  BY <1>1, <1>2, <1>3, <1>6 DEF OneTransaction
<1>8. AddedOnce'  BY <1>1, <1>2, <1>3 DEF AddedOnce
<1>9. LoadedFirst'
  <2>1. \A k \in 1..Len(queue') : queue'[k].op = "loaded" => k = 1
    <3>1. 1..Len(queue') = {1, 2}  BY <1>4
    <3> QED  BY <1>4, <3>1
  <2> QED  BY <1>2, <1>3, <2>1 DEF LoadedFirst
<1>10. Accounted'  BY <1>2, <1>3, <1>6 DEF Accounted
<1> QED  BY <1>5, <1>7, <1>8, <1>9, <1>10 DEF IInv

LEMMA StopKeeps ==
    ASSUME IInv, Stop
    PROVE  IInv'
<1>1. TypeOK /\ AddedOnce  BY DEF IInv
<1>2. /\ running' = FALSE /\ queue' = <<>> /\ dirs' = {} /\ setting' = setting
      /\ tran' = None /\ before'.lib = NoTracks /\ lib' \in {lib, before.lib}
  BY NothingBefore DEF Stop, Commit, user
<1>3. DOMAIN tasks' = {}  BY DEF Stop
<1>4. /\ lib' \in [Uris -> Nat] /\ \A u \in Uris : lib'[u] <= 1
  BY <1>2, LibFacts
<1>5. TypeOK'
  <2>1. IsFiniteSet(DOMAIN tasks')  BY <1>3, FS_EmptySet
  <2>2. before'.lib \in [Uris -> Nat]  BY <1>2, NothingBefore
  <2>3. queue' \in Seq(SignalCall)  BY <1>2
  <2> QED  BY <1>1, <1>2, <1>3, <1>4, <2>1, <2>2, <2>3 DEF TypeOK
<1>6. OneTransaction'
  <2>1. None # 0  BY LibraryAssumption
  <2> QED  BY <1>2, <1>3, <2>1 DEF OneTransaction
<1>7. AddedOnce'  BY <1>2, <1>3, <1>4, NothingBefore DEF AddedOnce
<1>8. LoadedFirst'  BY <1>2, <1>3 DEF LoadedFirst, Calls
<1>9. Accounted'  BY <1>2, <1>3 DEF Accounted
<1> QED  BY <1>5, <1>6, <1>7, <1>8, <1>9 DEF IInv

\* A file that comes or goes changes no record.
LEMMA FilesKeep ==
    ASSUME IInv,
           UNCHANGED <<setting, lib, tran, before, flags, queue, dirs, lock, tasks, late>>
    PROVE  IInv'
<1>1. TypeOK /\ OneTransaction /\ AddedOnce /\ LoadedFirst /\ Accounted  BY DEF IInv
<1>2. running' = running  BY DEF flags
<1>3. TypeOK'  BY <1>1, <1>2 DEF TypeOK
<1>4. OneTransaction'  BY <1>1 DEF OneTransaction, Calls
<1>5. AddedOnce'  BY <1>1 DEF AddedOnce
<1>6. LoadedFirst'  BY <1>1, <1>2 DEF LoadedFirst, Calls
<1>7. Accounted'
  <2>1. Allowed' = Allowed  BY DEF Allowed, Under
  <2>2. Recorded' = Recorded  BY DEF Recorded
  <2>3. Calls("loaded")' = Calls("loaded")  BY DEF Calls
  <2>4. RecordedIn(before.lib)' = RecordedIn(before.lib)  BY DEF RecordedIn
  <2> HIDE DEF Allowed, Recorded, Calls
  <2> QED  BY <1>1, <1>2, <2>1, <2>2, <2>3, <2>4 DEF Accounted
<1> QED  BY <1>3, <1>4, <1>5, <1>6, <1>7 DEF IInv

LEMMA ChangeSettingKeeps ==
    ASSUME IInv, NEW ds \in Settings, ChangeSetting(ds)
    PROVE  IInv'
<1>1. TypeOK /\ OneTransaction /\ AddedOnce /\ LoadedFirst /\ Accounted  BY DEF IInv
<1>2. /\ running /\ running' = running /\ setting' = ds /\ tasks' = tasks
      /\ queue' = Append(queue, Call("directories", ds))
      /\ UNCHANGED <<lib, tran, before, dirs, late>>
  BY DEF ChangeSetting, base, flags
<1>3. Call("directories", ds) \in SignalCall /\ Call("directories", ds).op # "loaded"
  BY LibraryAssumption DEF Call, SignalCall
<1>4. /\ queue' \in Seq(SignalCall)
      /\ \A k \in 1..Len(queue') : queue'[k].op = "loaded" => k = 1
      /\ Calls("loaded")' <=> Calls("loaded")
  <2>1. \A k \in 1..Len(queue) : queue[k].op = "loaded" => k = 1  BY <1>1 DEF LoadedFirst
  <2> HIDE DEF Call
  <2> QED  BY <1>1, <1>2, <1>3, <2>1, CallQueued
<1>5. TypeOK'  BY <1>1, <1>2, <1>4 DEF TypeOK
<1>6. OneTransaction'  BY <1>1, <1>2, <1>4 DEF OneTransaction
<1>7. AddedOnce'  BY <1>1, <1>2 DEF AddedOnce
<1>8. LoadedFirst'  BY <1>1, <1>2, <1>4 DEF LoadedFirst
<1>9. Accounted'
  <2>1. Allowed' = Allowed  BY <1>2 DEF Allowed, Under
  <2>2. Recorded' = Recorded  BY <1>2 DEF Recorded
  <2>3. RecordedIn(before.lib)' = RecordedIn(before.lib)  BY <1>2 DEF RecordedIn
  <2> HIDE DEF Allowed, Recorded
  <2> QED  BY <1>1, <1>2, <1>4, <2>1, <2>2, <2>3 DEF Accounted
<1> QED  BY <1>5, <1>6, <1>7, <1>8, <1>9 DEF IInv

-----------------------------------------------------------------------------
(* What follows *)

LEMMA InitIsIInv ==
    ASSUME Init
    PROVE  IInv
<1>1. DOMAIN tasks = {} /\ queue = <<>> /\ tran = None /\ lib = NoTracks /\ before = Untouched
  BY DEF Init
<1>2. TypeOK
  <2>1. IsFiniteSet(DOMAIN tasks)  BY <1>1, FS_EmptySet
  <2>2. lib \in [Uris -> Nat] /\ before.lib \in [Uris -> Nat]  BY <1>1, NothingBefore
  <2>3. setting \in Settings \cup {Garbled} /\ running = FALSE /\ dirs = {}  BY DEF Init
  <2>4. queue \in Seq(SignalCall)  BY <1>1
  <2> QED  BY <1>1, <2>1, <2>2, <2>3, <2>4 DEF TypeOK
<1>3. None # 0  BY LibraryAssumption
<1>4. OneTransaction  BY <1>1, <1>3 DEF OneTransaction
<1>5. AddedOnce  BY <1>1, NothingBefore DEF AddedOnce
<1>6. LoadedFirst  BY <1>1 DEF LoadedFirst, Calls
<1>7. Accounted  BY <1>1 DEF Init, Accounted
<1> QED  BY <1>2, <1>4, <1>5, <1>6, <1>7 DEF IInv

LEMMA NextKeeps ==
    ASSUME IInv, [Next]_vars
    PROVE  IInv'
<1>1. CASE SignalThread  BY <1>1, SignalThreadKeeps
<1>2. CASE Pool  BY <1>2, WorksKeeps DEF Pool
<1>3. CASE World
  <2>1. CASE Start  BY <2>1, StartKeeps
  <2>2. CASE Stop  BY <2>2, StopKeeps
  <2>3. CASE \E f \in FileSet : WriteFile(f) \/ RemoveFile(f)
    BY <2>3, FilesKeep DEF WriteFile, RemoveFile, base
  <2>4. CASE \E ds \in Settings : ChangeSetting(ds)  BY <2>4, ChangeSettingKeeps
  <2> QED  BY <1>3, <2>1, <2>2, <2>3, <2>4 DEF World
<1>4. CASE UNCHANGED vars  BY <1>4, FilesKeep DEF vars, base, flags
<1> QED  BY <1>1, <1>2, <1>3, <1>4 DEF Next

\* Whatever scans, changes of the setting, failures and restarts overlap, one
\* scan at a time is in a transaction, what it will still add was not recorded
\* when the transaction began, and records and scans have an account.
THEOREM IInvHolds == Spec => []IInv
<1>1. Init => IInv  BY InitIsIInv
<1>2. IInv /\ [Next]_vars => IInv'  BY NextKeeps
<1> QED  BY <1>1, <1>2, PTL DEF Spec

\* However many scans of one directory overlap, none records a name that another
\* has recorded (library.cpp:398-400, 453-454).  It is a claim of names: a file that
\* is reached through a link, too, is recorded under each of its names.
THEOREM NamesRecordedOnce == Spec => []NoNameTwice
<1>1. IInv => NoNameTwice  BY DEF IInv, AddedOnce, NoNameTwice
<1> QED  BY <1>1, IInvHolds, PTL

\* When nothing is left to scan, everything recorded is under a directory that
\* is configured, was under one removed while scans ran, or was reached by a
\* name with a link (library.cpp:224-262).
THEOREM OnlyWhatIsConfigured == Spec => []OnlyConfigured
<1>1. IInv => OnlyConfigured
  BY DEF IInv, Accounted, OnlyConfigured, Quiet, Calls, Allowed
<1> QED  BY <1>1, IInvHolds, PTL

-----------------------------------------------------------------------------
(* Nothing is missed: what is found, and what is due *)

\* A file that the library has, or that this session need not find.
LostFiles == {FileOf[v] : v \in lost}
Found(f) == f \in (disk \cap Supported) \ LostFiles => \E v \in Recorded : FileOf[v] = f

\* Scan t will walk all of m_dirs, which it takes when it locks them ...
WillWalkAll(t) == t.all /\ t.at \in {"wait", "lock"}

\* ... or has been told its directories, and will come to the name w in n.
WillVisit(t, n, w) ==
    \/ n \in t.dirs /\ t.at # "lock" /\ ~WillWalkAll(t)
    \/ t.dir = n /\ (t.at \in {"prune", "between"} \/ (t.at = "add" /\ w \in t.left))

Due(f) == \E i \in DOMAIN tasks : \E n \in Dirs : \E w \in In[n] \ Ignored :
             FileOf[w] = f /\ WillVisit(tasks[i], n, w)

PluginsDue == \E k \in 1..Len(queue) : queue[k].op = "plugins"

\* Every file of a configured directory is found or will be: by a scan on the pool,
\* or by the scan of everything when the plugins have been loaded.
FoundOrDue ==
    \/ PluginsDue
    \/ /\ plugins
       /\ \/ \E i \in DOMAIN tasks : WillWalkAll(tasks[i])
          \/ \A d \in dirs : \A u \in In[d] \ Ignored : Found(FileOf[u]) \/ Due(FileOf[u])

\* What a scan knew of when it began to walk is recorded or lost, and what its
\* failure would undo is in the directory it walks.
KnownKept ==
    \A i \in DOMAIN tasks :
       /\ tasks[i].at = "add" =>
             \A w \in tasks[i].known : w \in Recorded \/ FileOf[w] \in LostFiles
       /\ tasks[i].at \in {"prune", "add"} =>
             Recorded \subseteq RecordedIn(before.lib) \cup In[tasks[i].dir]

CInv ==
    /\ Calls("loaded") => \E k \in 2..Len(queue) : queue[k].op = "plugins"
    /\ running => FoundOrDue
    /\ KnownKept

\* A file found stays found.
FoundKept == \A f : Found(f) => Found(f)'

LEMMA FoundStays ==
    ASSUME \A f : f \in disk' => f \in disk \/ f \in LostFiles',
           LostFiles \subseteq LostFiles',
           \A v \in Recorded : v \in Recorded' \/ FileOf[v] \notin disk' \/ FileOf[v] \in LostFiles'
    PROVE  FoundKept
<1> SUFFICES ASSUME NEW f, Found(f), f \in (disk' \cap Supported) \ LostFiles'
             PROVE  \E v \in Recorded' : FileOf[v] = f
  BY DEF FoundKept, Found
<1>1. f \in (disk \cap Supported) \ LostFiles  OBVIOUS
<1>2. PICK v \in Recorded : FileOf[v] = f  BY <1>1 DEF Found
<1> QED  BY <1>2

\* The scan of everything stays due while calls are added, or others made.
LEMMA PluginsStayDue ==
    ASSUME queue \in Seq(SignalCall), PluginsDue,
           \/ queue' = queue
           \/ \E c \in SignalCall : queue' = Append(queue, c)
           \/ queue # <<>> /\ Head(queue).op # "plugins" /\ queue' = Tail(queue)
    PROVE  PluginsDue'
<1>1. PICK k \in 1..Len(queue) : queue[k].op = "plugins"  BY DEF PluginsDue
<1>2. Len(queue) \in Nat  BY LenProperties
<1>3. CASE queue' = queue  BY <1>3 DEF PluginsDue
<1>4. ASSUME NEW c \in SignalCall, queue' = Append(queue, c) PROVE PluginsDue'
  <2>1. Len(queue') = Len(queue) + 1 /\ queue'[k] = queue[k]
    BY <1>4, AppendProperties
  <2>2. k \in 1..Len(queue')  BY <1>2, <2>1
  <2> QED  BY <1>1, <2>1, <2>2 DEF PluginsDue
<1>5. CASE queue # <<>> /\ Head(queue).op # "plugins" /\ queue' = Tail(queue)
  <2>1. Head(queue) = queue[1]  BY <1>5
  <2>2. k # 1  BY <1>1, <1>5, <2>1
  <2>3. /\ Len(queue') = Len(queue) - 1
        /\ \A m \in 1..(Len(queue) - 1) : queue'[m] = queue[m + 1]
    BY <1>5, HeadTailProperties
  <2>4. k - 1 \in 1..(Len(queue) - 1) /\ (k - 1) + 1 = k  BY <1>2, <2>2
  <2>5. queue'[k - 1] = queue[k]  BY <2>3, <2>4
  <2> QED  BY <1>1, <2>3, <2>4, <2>5 DEF PluginsDue
<1> QED  BY <1>3, <1>4, <1>5

\* Scan i goes on as t: it will still visit every name, or its file is found.
Visits(s, t) ==
    /\ \A n \in Dirs : \A w \in In[n] \ Ignored :
          WillVisit(s, n, w) => WillVisit(t, n, w) \/ Found(FileOf[w])'
    /\ WillWalkAll(s) => WillWalkAll(t) \/ (t.at = "next" /\ dirs \subseteq t.dirs)

LEMMA ScanMoves ==
    ASSUME IInv, CInv, NEW i \in DOMAIN tasks, NEW t, Goes(i, t),
           UNCHANGED <<flags, dirs>>, FoundKept,
           queue' = queue \/ \E op \in {"started", "ended"} : queue' = Append(queue, Call(op, {})),
           plugins => Visits(tasks[i], t)
    PROVE  FoundOrDue'
<1>1. /\ DOMAIN tasks' = DOMAIN tasks /\ tasks'[i] = t
      /\ \A j \in DOMAIN tasks : j # i => tasks'[j] = tasks[j]
  BY GoesOn
<1>2. running /\ FoundOrDue  BY PoolRuns DEF CInv
<1>3. CASE PluginsDue
  <2>1. \A op \in {"started", "ended"} : Call(op, {}) \in SignalCall  BY DEF Call, SignalCall
  <2>2. queue \in Seq(SignalCall)  BY DEF IInv, TypeOK
  <2> QED  BY <1>3, <2>1, <2>2, PluginsStayDue DEF FoundOrDue
<1>4. CASE plugins /\ \E j \in DOMAIN tasks : WillWalkAll(tasks[j])
  <2>1. plugins' /\ dirs' = dirs  BY <1>4 DEF flags
  <2>2. PICK j \in DOMAIN tasks : WillWalkAll(tasks[j])  BY <1>4
  <2>3. CASE j # i \/ WillWalkAll(t)
    <3>1. WillWalkAll(tasks'[j])  BY <1>1, <2>2, <2>3
    <3> QED  BY <1>1, <2>1, <3>1 DEF FoundOrDue
  <2>4. CASE j = i /\ t.at = "next" /\ dirs \subseteq t.dirs
    <3>1. ASSUME NEW d \in dirs, NEW u \in In[d] \ Ignored PROVE Due(FileOf[u])'
      <4>1. d \in Dirs /\ d \in t.dirs  BY <2>4 DEF IInv, TypeOK
      <4>2. WillVisit(tasks'[i], d, u)  BY <1>1, <2>4, <4>1 DEF WillVisit, WillWalkAll
      <4> QED  BY <1>1, <4>1, <4>2 DEF Due
    <3> QED  BY <2>1, <3>1 DEF FoundOrDue
  <2> QED  BY <1>4, <2>2, <2>3, <2>4 DEF Visits
<1>5. CASE plugins /\ \A d \in dirs : \A u \in In[d] \ Ignored :
                        Found(FileOf[u]) \/ Due(FileOf[u])
  <2>1. plugins' /\ dirs' = dirs  BY <1>5 DEF flags
  <2>2. ASSUME NEW f, Due(f) PROVE Found(f)' \/ Due(f)'
    <3>1. PICK j \in DOMAIN tasks : \E n \in Dirs : \E w \in In[n] \ Ignored :
             FileOf[w] = f /\ WillVisit(tasks[j], n, w)
      BY <2>2 DEF Due
    <3>2. PICK n \in Dirs : \E w \in In[n] \ Ignored :
             FileOf[w] = f /\ WillVisit(tasks[j], n, w)
      BY <3>1
    <3>3. PICK w \in In[n] \ Ignored : FileOf[w] = f /\ WillVisit(tasks[j], n, w)  BY <3>2
    <3>4. WillVisit(tasks'[j], n, w) \/ Found(f)'  BY <1>1, <1>5, <3>3 DEF Visits
    <3> QED  BY <1>1, <3>3, <3>4 DEF Due
  <2>3. ASSUME NEW d \in dirs, NEW u \in In[d] \ Ignored
        PROVE  Found(FileOf[u])' \/ Due(FileOf[u])'
    BY <1>5, <2>2 DEF FoundKept
  <2> QED  BY <2>1, <2>3 DEF FoundOrDue
<1> QED  BY <1>2, <1>3, <1>4, <1>5 DEF FoundOrDue

\* What scans know, when one of them goes on as t.
LEMMA KnownStays ==
    ASSUME IInv, CInv, NEW i \in DOMAIN tasks, NEW t, Goes(i, t),
           tran \in {i, None} \/ UNCHANGED <<lib, before, lost>>,
           t.at = "add" => \A w \in t.known : w \in Recorded' \/ FileOf[w] \in LostFiles',
           t.at \in {"prune", "add"} => Recorded' \subseteq RecordedIn(before'.lib) \cup In[t.dir]
    PROVE  KnownKept'
<1>1. /\ DOMAIN tasks' = DOMAIN tasks /\ tasks'[i] = t
      /\ \A j \in DOMAIN tasks : j # i => tasks'[j] = tasks[j]
  BY GoesOn
<1>2. ASSUME NEW j \in DOMAIN tasks, j # i, tasks[j].at \in {"prune", "add"}
      PROVE  UNCHANGED <<lib, before, lost>>
  <2>1. tran = j /\ j \in Nat  BY <1>2, ScanFacts, PoolRuns
  <2>2. j # None  BY <2>1, LibraryAssumption
  <2> QED  BY <1>2, <2>1, <2>2
<1>3. ASSUME NEW j \in DOMAIN tasks, j # i
      PROVE  /\ tasks'[j].at = "add" =>
                   \A w \in tasks'[j].known : w \in Recorded' \/ FileOf[w] \in LostFiles'
             /\ tasks'[j].at \in {"prune", "add"} =>
                   Recorded' \subseteq RecordedIn(before'.lib) \cup In[tasks'[j].dir]
  <2>1. tasks'[j] = tasks[j]  BY <1>1, <1>3
  <2>2. CASE tasks[j].at \in {"prune", "add"}
    <3>1. Recorded' = Recorded /\ LostFiles' = LostFiles /\ before' = before
      BY <1>2, <1>3, <2>2 DEF Recorded, LostFiles
    <3> QED  BY <2>1, <3>1 DEF CInv, KnownKept
  <2>3. CASE tasks[j].at \notin {"prune", "add"}  BY <2>1, <2>3
  <2> QED  BY <2>2, <2>3
<1> QED  BY <1>1, <1>3 DEF KnownKept

\* A step of a scan keeps the invariant when it keeps its two parts.
LEMMA ScanKeeps ==
    ASSUME IInv, NEW i \in DOMAIN tasks, UNCHANGED flags, FoundOrDue', KnownKept',
           queue' = queue \/ \E op \in {"started", "ended"} : queue' = Append(queue, Call(op, {}))
    PROVE  CInv'
<1>1. ~Calls("loaded")'  BY PoolLoadedFirst DEF flags
<1> QED  BY <1>1 DEF CInv

-----------------------------------------------------------------------------
(* Nothing is missed: the pool *)

\* Nothing is lost or dropped, and no file comes back.
LEMMA NothingLost ==
    ASSUME UNCHANGED <<user, lib, lost>>
    PROVE  FoundKept /\ LostFiles' = LostFiles /\ Recorded' = Recorded
<1>1. LostFiles' = LostFiles /\ Recorded' = Recorded /\ disk' = disk
  BY DEF LostFiles, Recorded, user
<1> QED  BY <1>1, FoundStays

LEMMA OutsideFinds ==
    ASSUME IInv, CInv, NEW i \in DOMAIN tasks, NEW t, Goes(i, t),
           t.at \in {"lock", "next"}, UNCHANGED <<user, base, flags, dirs, lost>>,
           queue' = queue \/ \E op \in {"started", "ended"} : queue' = Append(queue, Call(op, {})),
           plugins => Visits(tasks[i], t)
    PROVE  CInv'
<1>1. UNCHANGED <<lib, before, lost>>  BY DEF base
<1>2. FoundKept  BY <1>1, NothingLost
<1>3. FoundOrDue'  BY <1>2, ScanMoves
<1>4. KnownKept'  BY <1>1, KnownStays
<1> QED  BY <1>3, <1>4, ScanKeeps

LEMMA ScanStartsFinds ==
    ASSUME IInv, CInv, NEW i \in DOMAIN tasks, ScanStarts(i)
    PROVE  CInv'
<1> DEFINE t == [tasks[i] EXCEPT !.at = IF tasks[i].all THEN "lock" ELSE "next"]
<1>1. tasks[i] \in Task /\ tasks[i].at = "wait"  BY PoolRuns DEF ScanStarts, At
<1>2. /\ t.at = IF tasks[i].all THEN "lock" ELSE "next"
      /\ t.all = tasks[i].all /\ t.dirs = tasks[i].dirs
  BY <1>1 DEF Task
<1>3. Goes(i, t) /\ queue' = Append(queue, Call("started", {}))
      /\ UNCHANGED <<user, base, flags, dirs, lost>>
  BY DEF ScanStarts
<1> HIDE DEF t
<1>4. Visits(tasks[i], t)  BY <1>1, <1>2 DEF Visits, WillVisit, WillWalkAll
<1> QED  BY <1>2, <1>3, <1>4, OutsideFinds

LEMMA LockDirsFinds ==
    ASSUME IInv, CInv, NEW i \in DOMAIN tasks, LockDirs(i)
    PROVE  CInv'
<1>1. tasks[i] \in Task /\ tasks[i].at = "lock"  BY PoolRuns DEF LockDirs, At
<1> DEFINE t == [tasks[i] EXCEPT !.at = "next", !.dirs = dirs]
<1>2. t.at = "next" /\ t.dirs = dirs  BY <1>1 DEF Task
<1>3. Goes(i, t) /\ queue' = queue /\ UNCHANGED <<user, base, flags, dirs, lost>>
  BY DEF LockDirs
<1> HIDE DEF t
<1>4. Visits(tasks[i], t)  BY <1>1, <1>2 DEF Visits, WillVisit, WillWalkAll
<1> QED  BY <1>2, <1>3, <1>4, OutsideFinds

LEMMA SkipDirFinds ==
    ASSUME IInv, CInv, NEW i \in DOMAIN tasks, SkipDir(i)
    PROVE  CInv'
<1>1. PICK d \in tasks[i].dirs : Goes(i, [tasks[i] EXCEPT !.dirs = @ \ {d}])  BY DEF SkipDir
<1> DEFINE t == [tasks[i] EXCEPT !.dirs = @ \ {d}]
<1>2. tasks[i] \in Task /\ tasks[i].at = "next" /\ ~plugins  BY PoolRuns DEF SkipDir, At
<1>3. t.at = "next"  BY <1>2 DEF Task
<1>4. Goes(i, t) /\ queue' = queue /\ UNCHANGED <<user, base, flags, dirs, lost>>
  BY <1>1 DEF SkipDir
<1> HIDE DEF t
<1> QED  BY <1>2, <1>3, <1>4, OutsideFinds

LEMMA BeginPruneFinds ==
    ASSUME IInv, CInv, NEW i \in DOMAIN tasks, BeginPrune(i)
    PROVE  CInv'
<1>1. PICK d \in tasks[i].dirs :
         Goes(i, [tasks[i] EXCEPT !.at = "prune", !.dirs = @ \ {d}, !.dir = d,
                                  !.known = Recorded \cap Begins[d]])
  BY DEF BeginPrune
<1> DEFINE t == [tasks[i] EXCEPT !.at = "prune", !.dirs = @ \ {d}, !.dir = d,
                                 !.known = Recorded \cap Begins[d]]
<1>2. tasks[i] \in Task /\ tasks[i].at = "next"  BY PoolRuns DEF BeginPrune, At
<1>3. t.at = "prune" /\ t.dir = d /\ t.dirs = tasks[i].dirs \ {d}  BY <1>2 DEF Task
<1>4. tran = None /\ before'.lib = lib /\ UNCHANGED <<user, lib, lost>>
  BY DEF BeginPrune, Begin
<1>5. Goes(i, t) /\ queue' = queue /\ UNCHANGED <<flags, dirs>>  BY <1>1 DEF BeginPrune
<1> HIDE DEF t
<1>6. Visits(tasks[i], t)  BY <1>2, <1>3 DEF Visits, WillVisit, WillWalkAll
<1>7. FoundKept /\ Recorded' = RecordedIn(before'.lib)
  BY <1>4, NothingLost DEF Recorded, RecordedIn
<1>8. FoundOrDue'  BY <1>5, <1>6, <1>7, ScanMoves
<1>9. KnownKept'  BY <1>3, <1>4, <1>5, <1>7, KnownStays
<1> QED  BY <1>5, <1>8, <1>9, ScanKeeps

\* A scan prunes only names whose file is gone.
LEMMA PruneFinds ==
    ASSUME IInv, CInv, NEW i \in DOMAIN tasks, Prune(i)
    PROVE  CInv'
<1> DEFINE t == [tasks[i] EXCEPT !.at = "between"]
           names == {u \in tasks[i].known : ~Exists(u)}
<1>1. tasks[i] \in Task /\ tasks[i].at = "prune"  BY PoolRuns DEF Prune, At
<1>2. t.at = "between" /\ t.dir = tasks[i].dir /\ t.dirs = tasks[i].dirs  BY <1>1 DEF Task
<1>3. tran = i  BY <1>1, ScanFacts
<1>4. lib' = Drop(names) /\ UNCHANGED <<disk, lost>>  BY DEF Prune, user
<1>5. Goes(i, t) /\ queue' = queue /\ UNCHANGED <<flags, dirs>>  BY DEF Prune
<1>6. Recorded' = Recorded \ names
  <2>1. RecordedIn(Drop(names)) = Recorded \ names  BY DropKeeps
  <2> QED  BY <1>4, <2>1 DEF Recorded, RecordedIn
<1>7. FoundKept
  <2>1. \A v \in names : FileOf[v] \notin disk  BY DEF Exists
  <2>2. LostFiles' = LostFiles  BY <1>4 DEF LostFiles
  <2> HIDE DEF names
  <2> QED  BY <1>4, <1>6, <2>1, <2>2, FoundStays
<1> HIDE DEF t
<1>8. Visits(tasks[i], t)  BY <1>1, <1>2 DEF Visits, WillVisit, WillWalkAll
<1>9. FoundOrDue'  BY <1>5, <1>7, <1>8, ScanMoves
<1>10. KnownKept'  BY <1>2, <1>3, <1>5, KnownStays
<1> QED  BY <1>5, <1>9, <1>10, ScanKeeps

LEMMA BeginAddFinds ==
    ASSUME IInv, CInv, NEW i \in DOMAIN tasks, BeginAdd(i)
    PROVE  CInv'
<1> DEFINE t == [tasks[i] EXCEPT !.at = "add", !.known = Recorded \cap Begins[tasks[i].dir],
                                 !.left = In[tasks[i].dir] \ Ignored]
<1>1. tasks[i] \in Task /\ tasks[i].at = "between"  BY PoolRuns DEF BeginAdd, At
<1>2. /\ t.at = "add" /\ t.dir = tasks[i].dir /\ t.dirs = tasks[i].dirs
      /\ t.left = In[t.dir] \ Ignored /\ t.known \subseteq Recorded
  BY <1>1 DEF Task
<1>3. tran = None /\ before'.lib = lib /\ UNCHANGED <<user, lib, lost>>
  BY DEF BeginAdd, Begin
<1>4. Goes(i, t) /\ queue' = queue /\ UNCHANGED <<flags, dirs>>  BY DEF BeginAdd
<1> HIDE DEF t
<1>5. Visits(tasks[i], t)  BY <1>1, <1>2 DEF Visits, WillVisit, WillWalkAll
<1>6. FoundKept /\ Recorded' = Recorded /\ Recorded' = RecordedIn(before'.lib)
  BY <1>3, NothingLost DEF Recorded, RecordedIn
<1>7. FoundOrDue'  BY <1>4, <1>5, <1>6, ScanMoves
<1>8. KnownKept'  BY <1>2, <1>3, <1>4, <1>6, KnownStays
<1> QED  BY <1>4, <1>7, <1>8, ScanKeeps

\* A file visited is recorded, or there is no use in it, or it is lost.
LEMMA VisitFinds ==
    ASSUME IInv, CInv, NEW i \in DOMAIN tasks, Visit(i)
    PROVE  CInv'
<1>1. PICK u \in tasks[i].left :
         /\ Goes(i, [tasks[i] EXCEPT !.left = @ \ {u}])
         /\ \/ Exists(u) /\ u \notin tasks[i].known /\ FileOf[u] \in Supported /\ Added(u)
            \/ Exists(u) /\ u \in tasks[i].known \cap stale /\ Updated(u)
            \/ /\ Exists(u) => IF u \in tasks[i].known THEN u \notin stale
                                                      ELSE FileOf[u] \notin Supported
               /\ UNCHANGED <<lib, stale, lost>>
  BY DEF Visit
<1> DEFINE t == [tasks[i] EXCEPT !.left = @ \ {u}]
<1>2. tasks[i] \in Task /\ tasks[i].at = "add"  BY PoolRuns DEF Visit, At
<1>3. /\ t.at = "add" /\ t.dir = tasks[i].dir /\ t.dirs = tasks[i].dirs
      /\ t.left = tasks[i].left \ {u} /\ t.known = tasks[i].known /\ t.known \subseteq Uris
  BY <1>2 DEF Task
<1>4. tran = i /\ u \in In[tasks[i].dir] /\ u \in Uris  BY <1>2, ScanFacts DEF Task
<1>5. UNCHANGED <<disk, before>> /\ queue' = queue /\ UNCHANGED <<flags, dirs>>
  BY DEF Visit, user
<1>6. Goes(i, t)  BY <1>1
<1> HIDE DEF t
<1>7. /\ \A w \in tasks[i].known : w \in Recorded \/ FileOf[w] \in LostFiles
      /\ Recorded \subseteq RecordedIn(before.lib) \cup In[tasks[i].dir]
  BY <1>2 DEF CInv, KnownKept
<1>8. /\ LostFiles \subseteq LostFiles'
      /\ \A v \in Recorded : v \in Recorded' \/ FileOf[v] \in LostFiles'
      /\ Recorded' \subseteq Recorded \cup {u}
      /\ FileOf[u] \in (disk \cap Supported) \ LostFiles' => u \in Recorded'
  <2>1. CASE Exists(u) /\ u \notin tasks[i].known /\ FileOf[u] \in Supported /\ Added(u)
    <3>1. lib' = [lib EXCEPT ![u] = lib[u] + 1] /\ lost' = lost  BY <2>1 DEF Added
    <3>2. lib'[u] > 0 /\ \A v \in Uris : v # u => lib'[v] = lib[v]  BY <1>4, <3>1, LibFacts
    <3>3. LostFiles' = LostFiles  BY <3>1 DEF LostFiles
    <3> QED  BY <1>4, <3>2, <3>3 DEF Recorded
  <2>2. CASE Updated(u)
    <3>1. lib' = Drop({u}) /\ lost' = lost \cup {u}  BY <2>2 DEF Updated
    <3>2. LostFiles \subseteq LostFiles' /\ FileOf[u] \in LostFiles'  BY <3>1 DEF LostFiles
    <3>3. Recorded' = Recorded \ {u}
      <4>1. RecordedIn(Drop({u})) = Recorded \ {u}  BY DropKeeps
      <4> QED  BY <3>1, <4>1 DEF Recorded, RecordedIn
    <3> QED  BY <3>2, <3>3
  <2>3. CASE /\ Exists(u) => IF u \in tasks[i].known THEN u \notin stale
                                                    ELSE FileOf[u] \notin Supported
             /\ UNCHANGED <<lib, stale, lost>>
    <3>1. LostFiles' = LostFiles /\ Recorded' = Recorded  BY <2>3 DEF LostFiles, Recorded
    <3>2. FileOf[u] \in (disk \cap Supported) \ LostFiles => u \in Recorded
      BY <1>7, <2>3 DEF Exists
    <3> QED  BY <3>1, <3>2
  <2> QED  BY <1>1, <2>1, <2>2, <2>3
<1>9. FoundKept  BY <1>5, <1>8, FoundStays
<1>10. Found(FileOf[u])'  BY <1>5, <1>8 DEF Found
<1>11. Visits(tasks[i], t)  BY <1>2, <1>3, <1>10 DEF Visits, WillVisit, WillWalkAll
<1>12. FoundOrDue'  BY <1>5, <1>6, <1>9, <1>11, ScanMoves
<1>13. KnownKept'
  <2>1. \A w \in t.known : w \in Recorded' \/ FileOf[w] \in LostFiles'  BY <1>3, <1>7, <1>8
  <2>2. Recorded' \subseteq RecordedIn(before'.lib) \cup In[t.dir]
    BY <1>3, <1>4, <1>5, <1>7, <1>8
  <2> QED  BY <1>4, <1>6, <2>1, <2>2, KnownStays
<1> QED  BY <1>5, <1>12, <1>13, ScanKeeps

LEMMA DirDoneFinds ==
    ASSUME IInv, CInv, NEW i \in DOMAIN tasks, DirDone(i)
    PROVE  CInv'
<1> DEFINE t == [tasks[i] EXCEPT !.at = "next", !.dir = None, !.known = {}]
<1>1. tasks[i] \in Task /\ tasks[i].at = "add" /\ tasks[i].left = {}
  BY PoolRuns DEF DirDone, At
<1>2. t.at = "next" /\ t.dirs = tasks[i].dirs  BY <1>1 DEF Task
<1>3. tran = i /\ UNCHANGED <<user, lib, lost>>  BY <1>1, ScanFacts DEF DirDone
<1>4. Goes(i, t) /\ queue' = queue /\ UNCHANGED <<flags, dirs>>  BY DEF DirDone
<1> HIDE DEF t
<1>5. Visits(tasks[i], t)  BY <1>1, <1>2 DEF Visits, WillVisit, WillWalkAll
<1>6. FoundKept  BY <1>3, NothingLost
<1>7. FoundOrDue'  BY <1>4, <1>5, <1>6, ScanMoves
<1>8. KnownKept'  BY <1>2, <1>3, <1>4, KnownStays
<1> QED  BY <1>4, <1>7, <1>8, ScanKeeps

\* What a failure leaves unvisited, or undoes, is in the directory that is given up.
LEMMA DirFailsFinds ==
    ASSUME IInv, CInv, NEW i \in DOMAIN tasks, DirFails(i)
    PROVE  CInv'
<1> DEFINE t == [tasks[i] EXCEPT !.at = "next", !.dir = None, !.known = {}, !.left = {}]
           d == tasks[i].dir
<1>1. tasks[i] \in Task /\ tasks[i].at \in {"prune", "add"}  BY PoolRuns DEF DirFails, At
<1>2. t.at = "next" /\ t.dirs = tasks[i].dirs  BY <1>1 DEF Task
<1>3. tran = i  BY <1>1, ScanFacts
<1>4. lib' \in {lib, before.lib} /\ disk' = disk /\ lost' = lost \cup In[d]
  BY DEF DirFails, user
<1>5. Goes(i, t) /\ queue' = queue /\ UNCHANGED <<flags, dirs>>  BY DEF DirFails
<1>6. LostFiles \subseteq LostFiles' /\ \A w \in In[d] : FileOf[w] \in LostFiles'
  BY <1>4 DEF LostFiles
<1>7. Recorded \subseteq RecordedIn(before.lib) \cup In[d]  BY <1>1 DEF CInv, KnownKept
<1> HIDE DEF t, d
<1>8. \A v \in Recorded : v \in Recorded' \/ FileOf[v] \in LostFiles'
  BY <1>4, <1>6, <1>7 DEF Recorded, RecordedIn
<1>9. FoundKept  BY <1>4, <1>6, <1>8, FoundStays
<1>10. \A w \in In[d] : Found(FileOf[w])'  BY <1>6 DEF Found
<1>11. Visits(tasks[i], t)  BY <1>1, <1>2, <1>10 DEF Visits, WillVisit, WillWalkAll, d
<1>12. FoundOrDue'  BY <1>5, <1>9, <1>11, ScanMoves
<1>13. KnownKept'  BY <1>2, <1>3, <1>5, KnownStays
<1> QED  BY <1>5, <1>12, <1>13, ScanKeeps

\* A scan ends when it has nothing more to visit.
LEMMA ScanEndsFinds ==
    ASSUME IInv, CInv, NEW i \in DOMAIN tasks, ScanEnds(i)
    PROVE  CInv'
<1>1. tasks' = [j \in DOMAIN tasks \ {i} |-> tasks[j]] /\ tasks[i].at = "next"
      /\ tasks[i].dirs = {}
  BY DEF ScanEnds, At
<1>2. DOMAIN tasks' = DOMAIN tasks \ {i} /\ \A j \in DOMAIN tasks' : tasks'[j] = tasks[j]
  BY <1>1
<1>3. /\ UNCHANGED <<user, lib, before, lost, dirs>> /\ UNCHANGED flags
      /\ queue' = Append(queue, Call("ended", {}))
  BY DEF ScanEnds, base
<1>4. FoundKept /\ LostFiles' = LostFiles /\ Recorded' = Recorded  BY <1>3, NothingLost
<1>5. running /\ FoundOrDue  BY PoolRuns DEF CInv
<1>6. FoundOrDue'
  <2>1. CASE PluginsDue
    <3>1. Call("ended", {}) \in SignalCall  BY DEF Call, SignalCall
    <3>2. queue \in Seq(SignalCall)  BY DEF IInv, TypeOK
    <3> QED  BY <1>3, <2>1, <3>1, <3>2, PluginsStayDue DEF FoundOrDue
  <2>2. plugins' = plugins /\ dirs' = dirs  BY <1>3 DEF flags
  <2>3. CASE plugins /\ \E j \in DOMAIN tasks : WillWalkAll(tasks[j])
    <3>1. PICK j \in DOMAIN tasks : WillWalkAll(tasks[j])  BY <2>3
    <3>2. j # i  BY <1>1, <3>1 DEF WillWalkAll
    <3>3. j \in DOMAIN tasks' /\ WillWalkAll(tasks'[j])  BY <1>2, <3>1, <3>2
    <3> QED  BY <2>2, <2>3, <3>3 DEF FoundOrDue
  <2>4. CASE plugins /\ \A d \in dirs : \A u \in In[d] \ Ignored :
                          Found(FileOf[u]) \/ Due(FileOf[u])
    <3>1. \A n, w : ~WillVisit(tasks[i], n, w)  BY <1>1 DEF WillVisit
    <3>2. \A f : Due(f) => Due(f)'  BY <1>2, <3>1 DEF Due
    <3> QED  BY <1>4, <2>2, <2>4, <3>2 DEF FoundOrDue, FoundKept
  <2> QED  BY <1>5, <2>1, <2>3, <2>4 DEF FoundOrDue
<1>7. KnownKept'  BY <1>2, <1>3, <1>4 DEF CInv, KnownKept
<1> QED  BY <1>3, <1>6, <1>7, ScanKeeps

LEMMA WorksFinds ==
    ASSUME IInv, CInv, NEW i \in DOMAIN tasks, Works(i)
    PROVE  CInv'
<1>1. CASE ScanStarts(i)  BY <1>1, ScanStartsFinds
<1>2. CASE LockDirs(i)  BY <1>2, LockDirsFinds
<1>3. CASE SkipDir(i)  BY <1>3, SkipDirFinds
<1>4. CASE BeginPrune(i)  BY <1>4, BeginPruneFinds
<1>5. CASE Prune(i)  BY <1>5, PruneFinds
<1>6. CASE BeginAdd(i)  BY <1>6, BeginAddFinds
<1>7. CASE Visit(i)  BY <1>7, VisitFinds
<1>8. CASE DirDone(i)  BY <1>8, DirDoneFinds
<1>9. CASE DirFails(i)  BY <1>9, DirFailsFinds
<1>10. CASE ScanEnds(i)  BY <1>10, ScanEndsFinds
<1> QED
  BY <1>1, <1>2, <1>3, <1>4, <1>5, <1>6, <1>7, <1>8, <1>9, <1>10 DEF Works

-----------------------------------------------------------------------------
(* Nothing is missed: the signal thread, and the world *)

\* What scans know when none moves: a scan in a transaction keeps it.
LEMMA KnownSame ==
    ASSUME CInv, before' = before, Recorded' \subseteq Recorded,
           \A v \in Recorded : v \in Recorded' \/ FileOf[v] \in LostFiles',
           LostFiles \subseteq LostFiles',
           \A j \in DOMAIN tasks' : (j \in DOMAIN tasks /\ tasks'[j] = tasks[j])
                                      \/ tasks'[j].at = "wait"
    PROVE  KnownKept'
<1> SUFFICES ASSUME NEW j \in DOMAIN tasks', tasks'[j].at \in {"prune", "add"}
             PROVE  /\ tasks'[j].at = "add" =>
                          \A w \in tasks'[j].known : w \in Recorded' \/ FileOf[w] \in LostFiles'
                    /\ Recorded' \subseteq RecordedIn(before'.lib) \cup In[tasks'[j].dir]
  BY DEF KnownKept
<1>1. j \in DOMAIN tasks /\ tasks'[j] = tasks[j]  OBVIOUS
<1> QED  BY <1>1 DEF CInv, KnownKept

\* A call or an event that leaves the scans alone.
LEMMA ScansSame ==
    ASSUME IInv, CInv, FoundKept, UNCHANGED <<lib, before, running, plugins, dirs, tasks>>,
           LostFiles \subseteq LostFiles',
           PluginsDue => PluginsDue',
           Calls("loaded")' => \E k \in 2..Len(queue') : queue'[k].op = "plugins"
    PROVE  CInv'
<1>1. Recorded' = Recorded  BY DEF Recorded
<1>2. KnownKept'  BY <1>1, KnownSame
<1>3. \A f : Due(f)' = Due(f)  BY DEF Due
<1>4. FoundOrDue => FoundOrDue'  BY <1>3 DEF FoundOrDue, FoundKept
<1> QED  BY <1>2, <1>4 DEF CInv

\* A call other than loadedSlot has been made: the configuration was loaded before.
LEMMA CallOver ==
    ASSUME IInv, queue # <<>>, queue' = Tail(queue)
    PROVE  /\ queue \in Seq(SignalCall) /\ ~Calls("loaded")'
           /\ Head(queue).op # "plugins" /\ PluginsDue => PluginsDue'
<1>1. queue \in Seq(SignalCall)  BY DEF IInv, TypeOK
<1>2. ~Calls("loaded")'  BY CallMade DEF IInv, LoadedFirst
<1> QED  BY <1>1, <1>2, PluginsStayDue

\* Loading begins before there are scans, with the plugins' call to come.
LEMMA LoadedBeginsFinds ==
    ASSUME IInv, CInv, LoadedBegins
    PROVE  CInv'
<1>1. Calls("loaded") /\ DOMAIN tasks = {}  BY DEF LoadedBegins, IInv, LoadedFirst
<1>2. queue' = queue /\ tasks' = tasks  BY DEF LoadedBegins
<1>3. PICK k \in 2..Len(queue) : queue[k].op = "plugins"  BY <1>1 DEF CInv
<1>4. k \in 1..Len(queue)
  <2>1. Len(queue) \in Nat  BY LenProperties DEF IInv, TypeOK
  <2> QED  BY <2>1
<1>5. PluginsDue'  BY <1>2, <1>3, <1>4 DEF PluginsDue
<1>6. KnownKept'  BY <1>1, <1>2 DEF KnownKept
<1> QED  BY <1>2, <1>3, <1>5, <1>6 DEF CInv, FoundOrDue

\* A scan that is posted, and those there were.
LEMMA PostDue ==
    ASSUME IInv, NEW t, t.at = "wait", tasks' = Post(t)
    PROVE  /\ \A j \in DOMAIN tasks' : (j \in DOMAIN tasks /\ tasks'[j] = tasks[j])
                                         \/ tasks'[j].at = "wait"
           /\ \A f : Due(f) => Due(f)'
           /\ (\E j \in DOMAIN tasks : WillWalkAll(tasks[j]))
                => \E j \in DOMAIN tasks' : WillWalkAll(tasks'[j])
           /\ \E i \in DOMAIN tasks' : tasks'[i] = t
<1>1. PICK i \in Nat \ {0} :
         /\ i \notin DOMAIN tasks /\ DOMAIN tasks' = DOMAIN tasks \cup {i}
         /\ tasks'[i] = t /\ \A j \in DOMAIN tasks : tasks'[j] = tasks[j]
  BY PostAdds DEF IInv
<1>2. \A f : Due(f) => Due(f)'  BY <1>1 DEF Due
<1> QED  BY <1>1, <1>2

LEMMA LoadedEndsFinds ==
    ASSUME IInv, CInv, LoadedEnds
    PROVE  CInv'
<1>1. Calls("loaded") /\ DOMAIN tasks = {} /\ queue # <<>> /\ queue' = Tail(queue)
  BY DEF LoadedEnds, IInv, LoadedFirst, Calls
<1>2. queue \in Seq(SignalCall) /\ ~Calls("loaded")'  BY <1>1, CallOver
<1>3. PluginsDue'
  <2>1. PICK k \in 2..Len(queue) : queue[k].op = "plugins"  BY <1>1 DEF CInv
  <2>2. /\ Len(queue) \in Nat /\ Len(queue') = Len(queue) - 1
        /\ \A m \in 1..(Len(queue) - 1) : queue'[m] = queue[m + 1]
    BY <1>1, <1>2, HeadTailProperties, LenProperties
  <2>3. k - 1 \in 1..(Len(queue) - 1) /\ (k - 1) + 1 = k  BY <2>2
  <2>4. queue'[k - 1] = queue[k]  BY <2>2, <2>3
  <2> QED  BY <2>1, <2>2, <2>3, <2>4 DEF PluginsDue
<1>4. tasks' = tasks \/ \E ns : tasks' = Post(Scan(FALSE, ns))  BY DEF LoadedEnds
<1>5. \A j \in DOMAIN tasks' : tasks'[j].at = "wait"
  <2>1. CASE tasks' = tasks  BY <1>1, <2>1
  <2>2. CASE \E ns : tasks' = Post(Scan(FALSE, ns))
    <3>1. PICK ns : tasks' = Post(Scan(FALSE, ns))  BY <2>2
    <3>2. Scan(FALSE, ns).at = "wait"  BY DEF Scan
    <3> HIDE DEF Scan
    <3> QED  BY <1>1, <3>1, <3>2, PostDue
  <2> QED  BY <1>4, <2>1, <2>2
<1>6. KnownKept'  BY <1>5 DEF KnownKept
<1> QED  BY <1>2, <1>3, <1>6 DEF CInv, FoundOrDue

\* A change of the setting loses what it drops and scans what is new.
LEMMA SetDirectoriesFinds ==
    ASSUME IInv, CInv, SetDirectories
    PROVE  CInv'
<1> DEFINE ds == Head(queue).dirs
           gone == dirs \ ds
           named == Named(ds)
<1>1. queue # <<>> /\ Head(queue).op = "directories" /\ queue' = Tail(queue)
  BY DEF SetDirectories, Calls
<1>2. queue \in Seq(SignalCall) /\ ~Calls("loaded")' /\ (PluginsDue => PluginsDue')
  BY <1>1, CallOver
<1>3. named \in SUBSET Dirs  BY NamedDirs
<1>4. /\ UNCHANGED <<disk, before, running, plugins>>
      /\ lib' = Drop(Under(gone)) /\ dirs' = (dirs \ gone) \cup CanonOf(named)
      /\ lost' = lost \cup (Under(gone) \cap Recorded)
  BY DEF SetDirectories, user, flags
<1>5. PICK ns \in SUBSET named : Fresh(ns, named, dirs \ gone) /\ tasks' = Post(Scan(FALSE, ns))
  BY DEF SetDirectories
<1> HIDE DEF ds, gone, named
<1>6. Recorded' = Recorded \ Under(gone)
  <2>1. RecordedIn(Drop(Under(gone))) = Recorded \ Under(gone)  BY DropKeeps
  <2> QED  BY <1>4, <2>1 DEF Recorded, RecordedIn
<1>7. /\ LostFiles \subseteq LostFiles'
      /\ \A v \in Recorded : v \in Recorded' \/ FileOf[v] \in LostFiles'
  BY <1>4, <1>6 DEF LostFiles
<1>8. FoundKept  BY <1>4, <1>7, FoundStays
<1> DEFINE t == Scan(FALSE, ns)
<1>9. t.at = "wait" /\ t.dirs = ns /\ ~t.all  BY DEF Scan
<1>10. tasks' = Post(t)  BY <1>5
<1> HIDE DEF t
<1>11. /\ \A j \in DOMAIN tasks' : (j \in DOMAIN tasks /\ tasks'[j] = tasks[j])
                                     \/ tasks'[j].at = "wait"
       /\ \A f : Due(f) => Due(f)'
       /\ (\E j \in DOMAIN tasks : WillWalkAll(tasks[j]))
            => \E j \in DOMAIN tasks' : WillWalkAll(tasks'[j])
       /\ \E i \in DOMAIN tasks' : tasks'[i] = t
  BY <1>9, <1>10, PostDue
<1>12. KnownKept'
  <2>1. Recorded' \subseteq Recorded /\ before' = before  BY <1>4, <1>6
  <2> QED  BY <1>7, <1>11, <2>1, KnownSame
<1>13. running  BY <1>1 DEF IInv, LoadedFirst
<1>14. FoundOrDue'
  <2>1. CASE PluginsDue  BY <1>2, <2>1 DEF FoundOrDue
  <2>2. CASE plugins /\ \E j \in DOMAIN tasks : WillWalkAll(tasks[j])
    BY <1>4, <1>11, <2>2 DEF FoundOrDue
  <2>3. CASE plugins /\ \A d \in dirs : \A u \in In[d] \ Ignored :
                          Found(FileOf[u]) \/ Due(FileOf[u])
    <3>1. ASSUME NEW d \in dirs', NEW u \in In[d] \ Ignored
          PROVE  Found(FileOf[u])' \/ Due(FileOf[u])'
      <4>1. CASE d \in dirs \ gone  BY <1>8, <1>11, <2>3, <4>1 DEF FoundKept
      <4>2. CASE d \notin dirs \ gone
        <5>1. d \in CanonOf(ns)  BY <1>4, <1>5, <4>2 DEF Fresh
        <5>2. PICK n \in ns : Canon[n] = d  BY <5>1 DEF CanonOf
        <5>3. n \in Dirs  BY <1>3
        <5>4. FileOf[u] \in {FileOf[w] : w \in In[n] \ Ignored}  BY <5>2, <5>3, LinkAssumption
        <5>5. PICK w \in In[n] \ Ignored : FileOf[w] = FileOf[u]  BY <5>4
        <5>6. PICK i \in DOMAIN tasks' : tasks'[i] = t  BY <1>11
        <5>7. WillVisit(tasks'[i], n, w)  BY <1>9, <5>6 DEF WillVisit, WillWalkAll
        <5> QED  BY <5>3, <5>5, <5>6, <5>7 DEF Due
      <4> QED  BY <4>1, <4>2
    <3> QED  BY <1>4, <2>3, <3>1 DEF FoundOrDue
  <2> QED  BY <1>13, <2>1, <2>2, <2>3 DEF CInv, FoundOrDue
<1> QED  BY <1>2, <1>12, <1>14 DEF CInv

\* With the plugins loaded everything configured is scanned.
LEMMA PluginsLoadedFinds ==
    ASSUME IInv, CInv, PluginsLoaded
    PROVE  CInv'
<1>1. queue # <<>> /\ queue' = Tail(queue) /\ plugins' /\ tasks' = Post(Scan(TRUE, {}))
  BY DEF PluginsLoaded, Calls
<1>2. ~Calls("loaded")'  BY <1>1, CallOver
<1> DEFINE t == Scan(TRUE, {})
<1>3. t.at = "wait" /\ WillWalkAll(t)  BY DEF Scan, WillWalkAll
<1>4. tasks' = Post(t)  BY <1>1
<1> HIDE DEF t
<1>5. /\ \A j \in DOMAIN tasks' : (j \in DOMAIN tasks /\ tasks'[j] = tasks[j])
                                    \/ tasks'[j].at = "wait"
      /\ \E i \in DOMAIN tasks' : tasks'[i] = t
  BY <1>3, <1>4, PostDue
<1>6. UNCHANGED <<user, lib, before, lost>>  BY DEF PluginsLoaded, base
<1>7. KnownKept'  BY <1>5, <1>6, NothingLost, KnownSame
<1>8. FoundOrDue'  BY <1>1, <1>3, <1>5 DEF FoundOrDue
<1> QED  BY <1>2, <1>7, <1>8 DEF CInv

LEMMA ScanningFinds ==
    ASSUME IInv, CInv, ScanStarted \/ ScanEnded
    PROVE  CInv'
<1>1. /\ queue # <<>> /\ queue' = Tail(queue) /\ Head(queue).op # "plugins"
      /\ UNCHANGED <<user, lib, before, running, plugins, dirs, tasks, lost>>
  BY DEF ScanStarted, ScanEnded, Calls, base
<1>2. ~Calls("loaded")' /\ (PluginsDue => PluginsDue')  BY <1>1, CallOver
<1>3. FoundKept /\ LostFiles' = LostFiles  BY <1>1, NothingLost
<1> QED  BY <1>1, <1>2, <1>3, ScansSame

LEMMA SignalThreadFinds ==
    ASSUME IInv, CInv, SignalThread
    PROVE  CInv'
BY LoadedBeginsFinds, LoadedEndsFinds, SetDirectoriesFinds, PluginsLoadedFinds, ScanningFinds
   DEF SignalThread

LEMMA StartFinds ==
    ASSUME IInv, CInv, Start
    PROVE  CInv'
<1>1. DOMAIN tasks = {} /\ tasks' = tasks  BY DEF Start, IInv, LoadedFirst
<1>2. queue' = <<Call("loaded", {}), Call("plugins", {})>>  BY DEF Start
<1>3. Len(queue') = 2 /\ queue'[2].op = "plugins"
  <2>1. Call("plugins", {}).op = "plugins"  BY DEF Call
  <2> HIDE DEF Call
  <2> QED  BY <1>2, <2>1
<1>4. 2 \in 2..Len(queue') /\ 2 \in 1..Len(queue')  BY <1>3
<1>5. PluginsDue'  BY <1>3, <1>4 DEF PluginsDue
<1>6. KnownKept'  BY <1>1 DEF KnownKept
<1> QED  BY <1>3, <1>4, <1>5, <1>6 DEF CInv, FoundOrDue

LEMMA StopFinds ==
    ASSUME Stop
    PROVE  CInv'
<1>1. running' = FALSE /\ queue' = <<>> /\ DOMAIN tasks' = {}  BY DEF Stop
<1> QED  BY <1>1 DEF CInv, Calls, KnownKept

\* A file that is written is lost to this session, one that is removed not due.
LEMMA FilesFind ==
    ASSUME IInv, CInv, NEW f \in FileSet, WriteFile(f) \/ RemoveFile(f)
    PROVE  CInv'
<1>1. UNCHANGED <<lib, before, running, plugins, dirs, tasks, queue>>
  BY DEF WriteFile, RemoveFile, base, flags
<1>2. Recorded' = Recorded  BY <1>1 DEF Recorded
<1>3. LostFiles \subseteq LostFiles' /\ (\A g : g \in disk' => g \in disk \/ g \in LostFiles')
  <2>1. CASE WriteFile(f)
    <3>1. disk' = disk \cup {f} /\ lost' = lost \cup {u \in Uris : FileOf[u] = f}
      BY <2>1 DEF WriteFile
    <3>2. PICK u \in Uris : FileOf[u] = f  BY DEF FileSet
    <3> QED  BY <3>1, <3>2 DEF LostFiles
  <2>2. CASE RemoveFile(f)  BY <2>2 DEF RemoveFile, LostFiles
  <2> QED  BY <2>1, <2>2
<1>4. FoundKept  BY <1>2, <1>3, FoundStays
<1>5. PluginsDue' = PluginsDue /\ Calls("loaded")' = Calls("loaded")
  BY <1>1 DEF PluginsDue, Calls
<1> QED  BY <1>1, <1>3, <1>4, <1>5, ScansSame DEF CInv

LEMMA ChangeSettingFinds ==
    ASSUME IInv, CInv, NEW ds \in Settings, ChangeSetting(ds)
    PROVE  CInv'
<1>1. /\ queue' = Append(queue, Call("directories", ds))
      /\ \A k \in DOMAIN queue : queue[k].op # "loaded"
      /\ UNCHANGED <<disk, lib, before, running, plugins, dirs, tasks, lost>>
  BY DEF ChangeSetting, base, flags
<1>2. queue \in Seq(SignalCall)  BY DEF IInv, TypeOK
<1>3. Call("directories", ds) \in SignalCall /\ Call("directories", ds).op # "loaded"
  BY LibraryAssumption DEF Call, SignalCall
<1> HIDE DEF Call
<1>4. ~Calls("loaded")
  <2>1. queue # <<>> => 1 \in DOMAIN queue /\ Head(queue) = queue[1]
    BY <1>2, LenProperties, EmptySeq
  <2> QED  BY <1>1, <2>1 DEF Calls
<1>5. ~Calls("loaded")'  BY <1>1, <1>3, <1>4, CallQueued DEF IInv, LoadedFirst
<1>6. PluginsDue => PluginsDue'  BY <1>1, <1>2, <1>3, PluginsStayDue
<1>7. Recorded' = Recorded /\ LostFiles' = LostFiles  BY <1>1 DEF Recorded, LostFiles
<1>8. FoundKept  BY <1>1, <1>7, FoundStays
<1> QED  BY <1>1, <1>5, <1>6, <1>7, <1>8, ScansSame

LEMMA NextFinds ==
    ASSUME IInv, CInv, [Next]_vars
    PROVE  CInv'
<1>1. CASE SignalThread  BY <1>1, SignalThreadFinds
<1>2. CASE Pool  BY <1>2, WorksFinds DEF Pool
<1>3. CASE World  BY <1>3, StartFinds, StopFinds, FilesFind, ChangeSettingFinds DEF World
<1>4. CASE UNCHANGED vars
  <2>1. UNCHANGED <<user, lib, before, running, plugins, dirs, tasks, queue, lost>>
    BY <1>4 DEF vars, user
  <2>2. FoundKept /\ LostFiles' = LostFiles  BY <2>1, NothingLost
  <2>3. PluginsDue' = PluginsDue /\ Calls("loaded")' = Calls("loaded")
    BY <2>1 DEF PluginsDue, Calls
  <2> QED  BY <2>1, <2>2, <2>3, ScansSame DEF CInv
<1> QED  BY <1>1, <1>2, <1>3, <1>4 DEF Next

\* Until it is found, each file of a configured directory is due: to the scan of
\* everything that the plugins' call will post, or to a scan on the pool.
THEOREM CInvHolds == Spec => []CInv
<1>1. Init => CInv
  BY DEF Init, CInv, Calls, KnownKept
<1> QED  BY <1>1, NextFinds, IInvHolds, PTL DEF Spec

\* When nothing is left to scan, every file of a configured directory is recorded,
\* under one of its names, but for those this session may have lost
\* (library.cpp:213-262, 358-470).
THEOREM EverythingFound == Spec => []Complete
<1>1. IInv /\ CInv => Complete
  <2> SUFFICES ASSUME IInv, CInv, running, Quiet,
                      NEW d \in dirs, NEW u \in In[d] \ Ignored,
                      FileOf[u] \in (disk \cap Supported) \ LostFiles
               PROVE  \E v \in Recorded : FileOf[v] = FileOf[u]
    BY DEF Complete, LostFiles
  <2>1. queue = <<>> /\ DOMAIN tasks = {}  BY DEF Quiet
  <2>2. ~PluginsDue
    <3>1. 1..Len(queue) = {}  BY <2>1
    <3> QED  BY <3>1 DEF PluginsDue
  <2>3. ~Due(FileOf[u])  BY <2>1 DEF Due
  <2>4. Found(FileOf[u])  BY <2>1, <2>2, <2>3 DEF CInv, FoundOrDue
  <2> QED  BY <2>4 DEF Found
<1> QED  BY <1>1, CInvHolds, IInvHolds, PTL
=============================================================================
