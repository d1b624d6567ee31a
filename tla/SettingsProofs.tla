---------------------------- MODULE SettingsProofs ----------------------------
(***************************************************************************)
(* What the configuration keeps for any sections, nodes and managers, and  *)
(* any number of starts, edits and crashes: what the user applied and      *)
(* saved is there in the next run, only what was edited is written, the    *)
(* plugins are those the settings name, and the managers work with what    *)
(* the tree says.                                                          *)
(***************************************************************************)
EXTENDS Settings, SequenceTheorems, TLAPS

-----------------------------------------------------------------------------
(* The inductive invariant *)

JobStep ==
    [op : {"create", "merge", "apply", "connect"}, mgr : Managers, sec : Secs]
Widget == [reset : Vals, shown : Vals, touched : BOOLEAN]
News == [node : Nodes, val : Vals, to : SUBSET Managers]

Saving == {"startSave", "applySave", "exitSave"}

TypeOK ==
    /\ file \in Readable \cup {Missing, Broken}
    /\ writing \in Readable \cup {None}
    /\ phase \in {"off", "load", "plugins", "window", "gui", "apply"} \cup Saving
    /\ secs \subseteq Secs /\ tree \in Trees
    /\ jobs \in Seq(Seq(JobStep)) /\ \A i \in 1..Len(jobs) : jobs[i] # <<>>
    /\ updates \in Seq(News) /\ alive \in BOOLEAN
    /\ working \in [Managers \X Nodes -> Vals]
    /\ widgets \in [Nodes -> Widget \cup {None}]
    /\ wanted \in Trees /\ durable \in Trees

\* Before the configuration is loaded nothing is there, and before the plugins
\* are loaded nothing is put.
NotYet ==
    /\ phase \in {"off", "load"} => jobs = <<>> /\ working = Defaults
    /\ phase \in {"off", "load", "startSave", "plugins"} =>
          updates = <<>> /\ missed = {} /\ torn = {} /\ plan = None
    /\ alive => phase = "apply"

\* What the user applied is in the tree, on its way into the file, or in it.
Keeps(t, w) == \A n \in Nodes : w[n] # None => t[n] = w[n]
HeldIn(f, w) == IF f \in Readable THEN Keeps(f.nodes, w) ELSE w = NoTree
Kept ==
    /\ file # Broken => HeldIn(file, durable)
    /\ phase \in {"off", "load"} => HeldIn(file, wanted)
    /\ phase \notin {"off", "load"} => Keeps(tree, wanted)
    /\ writing # None => phase \in Saving /\ Keeps(writing.nodes, wanted)

\* A widget shows what it was made of or reset to unless the user edited it.
Unedited(n) == widgets[n].shown = Shown[widgets[n].reset]
WidgetsShow ==
    \A n \in Nodes : widgets[n] # None =>
        /\ Shown[widgets[n].shown] = widgets[n].shown
        /\ n \notin meant => Unedited(n) /\ (n \in Flagged => ~widgets[n].touched)
        /\ n \in Flagged /\ ~widgets[n].touched => Unedited(n)

\* A section is merged before it is applied, and merging leaves no default out.
Due(op, m, s) == \E i \in 1..Len(jobs) : \E k \in 1..Len(jobs[i]) : jobs[i][k] = Step(op, m, s)
SlotInOrder(slot) ==
    \A k \in 1..Len(slot) : slot[k].op = "merge" =>
       \E l \in 1..Len(slot) : l > k /\ slot[l] = Step("apply", slot[k].mgr, slot[k].sec)
MergedFirst ==
    /\ \A i \in 1..Len(jobs) : SlotInOrder(jobs[i])
    /\ phase \notin {"off", "load"} =>
          \A m \in Managers : ~Due("merge", m, Own[m]) =>
             \A n \in InSec(Own[m]) : Default[n] # None => tree[n] # None

Hears(m, s) == s \in {Own[m], Also[m]}

\* A section that is applied is followed, but for news that is lost, garbled or
\* still to come.
Follows(m, n) ==
    working[<<m, n>>] = IF tree[n] = None THEN Initial(n) ELSE Uses(n, tree[n], working[<<m, n>>])
Coming(n) == \E i \in 1..Len(updates) : updates[i].node = n
Followed ==
    /\ \A m \in Managers, n \in Nodes : tree[n] = None => Follows(m, n)
    /\ phase \notin {"off", "load"} =>
          \A m \in Managers, n \in Nodes :
             Heeds(m, n) /\ n \notin missed \cup torn /\ ~Due("apply", m, SecOf[n]) =>
                Follows(m, n) \/ Coming(n)

\* The news that putNode still waits with is of what the tree says, and reaches
\* whoever does not yet know.
Last == updates[Len(updates)]
NewsReaches(n, to) ==
    \A m \in Managers : Heeds(m, n) =>
       m \in to \/ Due("apply", m, SecOf[n]) \/ Follows(m, n)
NewsIsTrue ==
    /\ \A i \in 1..Len(updates) :
          /\ tree[updates[i].node] # None
          /\ \A m \in updates[i].to : <<m, SecOf[updates[i].node]>> \in listening
    /\ alive /\ updates # <<>> =>
          /\ tree[Last.node] = Last.val
          /\ \A i \in 1..Len(updates) : updates[i].node = Last.node => updates[i].to \subseteq Last.to
          /\ Last.node \notin missed => NewsReaches(Last.node, Last.to)

IInv ==
    /\ TypeOK /\ NotYet /\ Kept /\ WidgetsShow /\ MergedFirst /\ Followed /\ NewsIsTrue
    /\ PluginsAsConfigured
-----------------------------------------------------------------------------
(* What the slots make of a value *)

\* What a manager uses is a value, and to be told the same twice changes nothing.
LEMMA UsesIs ==
    ASSUME NEW n \in Nodes, NEW v \in Vals, NEW old \in Vals
    PROVE  /\ Uses(n, v, old) \in Vals
           /\ Uses(n, v, Uses(n, v, old)) = Uses(n, v, old)
           /\ n \in {Paths, Barred} => Uses(n, v, old) = ListOf(n, v)
<1>1. ListOf(n, v) \in Vals  BY SettingsAssumption DEF ListOf
<1>2. CASE n \in {Paths, Barred}
  <2>1. \A w : Uses(n, v, w) = ListOf(n, v)  BY <1>2 DEF Uses
  <2> QED  BY <1>1, <2>1
<1>3. CASE n \notin {Paths, Barred} /\ v \in Fits[n]
  <2>1. \A w : Uses(n, v, w) = v  BY <1>3 DEF Uses
  <2> QED  BY <1>3, <2>1
<1>4. CASE n \notin {Paths, Barred} /\ v \notin Fits[n]
  <2>1. \A w : Uses(n, v, w) = w  BY <1>4 DEF Uses
  <2> QED  BY <1>4, <2>1
<1> QED  BY <1>2, <1>3, <1>4

\* A manager starts with a value, and to be told its default changes nothing then.
LEMMA InitialIs ==
    /\ \A n \in Nodes : Initial(n) \in Vals
    /\ \A n \in Nodes : Default[n] # None =>
          Initial(n) = Default[n] /\ Uses(n, Default[n], Default[n]) = Default[n]
<1>1. \A n \in Nodes : Initial(n) \in Vals  BY SettingsAssumption DEF Initial
<1>2. ASSUME NEW n \in Nodes, Default[n] # None
      PROVE  Uses(n, Default[n], Default[n]) = Default[n]
  <2>1. n # Barred  BY <1>2, SettingsAssumption
  <2>2. CASE n = Paths
    <3>1. Uses(n, Default[n], Default[n]) = ListOf(n, Default[n])  BY <2>2 DEF Uses
    <3>2. ListOf(n, Default[n]) = Default[n]  BY <2>2, SettingsAssumption DEF ListOf
    <3> QED  BY <3>1, <3>2
  <2>3. CASE n # Paths  BY <2>1, <2>3 DEF Uses
  <2> QED  BY <2>2, <2>3
<1>3. \A n \in Nodes : Default[n] # None => Initial(n) = Default[n]  BY DEF Initial
<1> QED  BY <1>1, <1>2, <1>3

\* A manager knows nodes of the sections it hears of only.
LEMMA HeededIsHeard ==
    ASSUME NEW m \in Managers, NEW n \in Nodes, Heeds(m, n)
    PROVE  SecOf[n] \in Secs /\ Hears(m, SecOf[n])
<1>1. n \in InSec(Own[m]) \cup InSec(Also[m])  BY SettingsAssumption DEF Heeds
<1> QED  BY <1>1, SettingsAssumption DEF InSec, Hears

-----------------------------------------------------------------------------
(* The slots of "loaded" *)

\* The first job is the first step of the first slot.
LEMMA JobIs ==
    ASSUME TypeOK, jobs # <<>>
    PROVE  /\ Len(jobs) \in Nat \ {0} /\ jobs[1] \in Seq(JobStep) /\ jobs[1] # <<>>
           /\ Len(jobs[1]) \in Nat \ {0} /\ Head(jobs) = jobs[1]
           /\ Job = jobs[1][1] /\ Job \in JobStep
<1>1. jobs \in Seq(Seq(JobStep))  BY DEF TypeOK
<1>2. Len(jobs) \in Nat \ {0}  BY <1>1, EmptySeq
<1>3. Head(jobs) = jobs[1] /\ Head(jobs) \in Seq(JobStep)  BY <1>1, HeadTailProperties
<1>4. jobs[1] # <<>>  BY <1>2 DEF TypeOK
<1>5. Len(jobs[1]) \in Nat \ {0}  BY <1>3, <1>4, EmptySeq
<1>6. Head(jobs[1]) = jobs[1][1] /\ Head(jobs[1]) \in JobStep
  BY <1>3, <1>4, HeadTailProperties
<1> QED  BY <1>2, <1>3, <1>4, <1>5, <1>6 DEF Job

\* What is left of the slots when a job is done.
LEMMA JobsLeft ==
    ASSUME TypeOK, jobs # <<>>, JobDone
    PROVE  /\ jobs' \in Seq(Seq(JobStep)) /\ \A i \in 1..Len(jobs') : jobs'[i] # <<>>
           /\ \/ /\ Len(jobs[1]) = 1 /\ Len(jobs') = Len(jobs) - 1
                 /\ \A i \in 1..Len(jobs') : jobs'[i] = jobs[i + 1]
              \/ /\ Len(jobs') = Len(jobs) /\ Len(jobs'[1]) = Len(jobs[1]) - 1
                 /\ \A k \in 1..Len(jobs'[1]) : jobs'[1][k] = jobs[1][k + 1]
                 /\ \A i \in 2..Len(jobs') : jobs'[i] = jobs[i]
<1>1. jobs \in Seq(Seq(JobStep)) /\ \A i \in 1..Len(jobs) : jobs[i] # <<>>  BY DEF TypeOK
<1>2. /\ Len(jobs) \in Nat \ {0} /\ jobs[1] \in Seq(JobStep) /\ jobs[1] # <<>>
      /\ Len(jobs[1]) \in Nat \ {0} /\ Head(jobs) = jobs[1]
  BY JobIs
<1>3. /\ Tail(jobs) \in Seq(Seq(JobStep)) /\ Len(Tail(jobs)) = Len(jobs) - 1
      /\ \A i \in 1..Len(Tail(jobs)) : Tail(jobs)[i] = jobs[i + 1]
  BY <1>1, <1>2, HeadTailProperties, EmptySeq
<1>4. CASE Len(jobs[1]) = 1
  <2>1. jobs' = Tail(jobs)  BY <1>2, <1>4 DEF JobDone
  <2>2. \A i \in 1..Len(jobs') : i + 1 \in 1..Len(jobs)  BY <1>2, <1>3, <2>1
  <2> QED  BY <1>1, <1>3, <1>4, <2>1, <2>2
<1>5. CASE Len(jobs[1]) # 1
  <2> DEFINE t == Tail(jobs[1])
             r == Tail(jobs)
  <2>1. jobs' = <<t>> \o r  BY <1>2, <1>5 DEF JobDone
  <2>2. /\ t \in Seq(JobStep) /\ Len(t) = Len(jobs[1]) - 1
        /\ \A k \in 1..Len(t) : t[k] = jobs[1][k + 1]
    BY <1>2, HeadTailProperties
  <2>3. t # <<>>
    <3>1. Len(t) # 0  BY <1>2, <1>5, <2>2
    <3> QED  BY <3>1, EmptySeq
  <2>4. /\ r \in Seq(Seq(JobStep)) /\ Len(r) = Len(jobs) - 1
        /\ \A i \in 1..Len(r) : r[i] = jobs[i + 1]
    BY <1>3
  <2> HIDE DEF t, r
  <2>5. <<t>> \in Seq(Seq(JobStep)) /\ Len(<<t>>) = 1 /\ <<t>>[1] = t  BY <2>2
  <2>6. /\ <<t>> \o r \in Seq(Seq(JobStep)) /\ Len(<<t>> \o r) = Len(<<t>>) + Len(r)
        /\ \A i \in 1..(Len(<<t>>) + Len(r)) :
              (<<t>> \o r)[i] = IF i <= Len(<<t>>) THEN <<t>>[i] ELSE r[i - Len(<<t>>)]
    BY <2>4, <2>5, ConcatProperties
  <2>7. jobs' \in Seq(Seq(JobStep)) /\ Len(jobs') = Len(jobs) /\ jobs'[1] = t
    BY <1>2, <2>1, <2>4, <2>5, <2>6
  <2>8. ASSUME NEW i \in 2..Len(jobs') PROVE jobs'[i] = jobs[i]
    <3>1. i \in 1..(Len(<<t>>) + Len(r)) /\ ~(i <= Len(<<t>>)) /\ i - 1 \in 1..Len(r)
      BY <1>2, <2>4, <2>5, <2>7
    <3>2. jobs'[i] = r[i - 1]  BY <2>1, <2>5, <2>6, <3>1
    <3>3. r[i - 1] = jobs[(i - 1) + 1]  BY <2>4, <3>1
    <3> QED  BY <3>2, <3>3
  <2>9. \A i \in 1..Len(jobs') : i = 1 \/ (i \in 2..Len(jobs') /\ i \in 1..Len(jobs))
    BY <1>2, <2>7
  <2> QED  BY <1>1, <2>2, <2>3, <2>7, <2>8, <2>9
<1> QED  BY <1>4, <1>5

\* What was due is due still, but for the job that is done.
LEMMA DueLeft ==
    ASSUME TypeOK, jobs # <<>>, JobDone
    PROVE  /\ \A op, m, s : Due(op, m, s)' => Due(op, m, s)
           /\ \A op, m, s : Due(op, m, s) => Due(op, m, s)' \/ Job = Step(op, m, s)
<1>1. /\ Len(jobs) \in Nat \ {0} /\ jobs[1] \in Seq(JobStep) /\ Len(jobs[1]) \in Nat \ {0}
      /\ Job = jobs[1][1]
  BY JobIs
<1>2. jobs' \in Seq(Seq(JobStep))  BY JobsLeft
<1>3. Len(jobs') \in Nat  BY <1>2, LenProperties
<1>4. CASE /\ Len(jobs[1]) = 1 /\ Len(jobs') = Len(jobs) - 1
           /\ \A i \in 1..Len(jobs') : jobs'[i] = jobs[i + 1]
  <2>1. ASSUME NEW op, NEW m, NEW s, Due(op, m, s)' PROVE Due(op, m, s)
    <3>1. PICK i \in 1..Len(jobs') : \E k \in 1..Len(jobs'[i]) : jobs'[i][k] = Step(op, m, s)
      BY <2>1 DEF Due, Step
    <3>2. i + 1 \in 1..Len(jobs) /\ jobs'[i] = jobs[i + 1]  BY <1>1, <1>4
    <3>3. \E k \in 1..Len(jobs[i + 1]) : jobs[i + 1][k] = Step(op, m, s)  BY <3>1, <3>2
    <3> QED  BY <3>2, <3>3 DEF Due
  <2>2. ASSUME NEW op, NEW m, NEW s, Due(op, m, s), Job # Step(op, m, s) PROVE Due(op, m, s)'
    <3>1. PICK i \in 1..Len(jobs) : \E k \in 1..Len(jobs[i]) : jobs[i][k] = Step(op, m, s)
      BY <2>2 DEF Due
    <3>2. i # 1
      <4>1. \A k \in 1..1 : k = 1  OBVIOUS
      <4> QED  BY <1>1, <1>4, <2>2, <3>1, <4>1
    <3>3. i - 1 \in 1..Len(jobs') /\ (i - 1) + 1 = i  BY <1>1, <1>4, <3>2
    <3>4. jobs'[i - 1] = jobs[i]  BY <1>4, <3>3
    <3>5. \E k \in 1..Len(jobs'[i - 1]) : jobs'[i - 1][k] = Step(op, m, s)  BY <3>1, <3>4
    <3>6. \E j \in 1..Len(jobs') : \E k \in 1..Len(jobs'[j]) : jobs'[j][k] = Step(op, m, s)
      BY <3>3, <3>5
    <3> QED  BY <3>6 DEF Due, Step
  <2> QED  BY <2>1, <2>2
<1>5. CASE /\ Len(jobs') = Len(jobs) /\ Len(jobs'[1]) = Len(jobs[1]) - 1
           /\ \A k \in 1..Len(jobs'[1]) : jobs'[1][k] = jobs[1][k + 1]
           /\ \A i \in 2..Len(jobs') : jobs'[i] = jobs[i]
  <2>1. ASSUME NEW op, NEW m, NEW s, Due(op, m, s)' PROVE Due(op, m, s)
    <3>1. PICK i \in 1..Len(jobs') : \E k \in 1..Len(jobs'[i]) : jobs'[i][k] = Step(op, m, s)
      BY <2>1 DEF Due, Step
    <3>2. CASE i = 1
      <4>1. PICK k \in 1..Len(jobs'[1]) : jobs'[1][k] = Step(op, m, s)  BY <3>1, <3>2
      <4>2. k + 1 \in 1..Len(jobs[1])  BY <1>1, <1>5
      <4>3. jobs[1][k + 1] = Step(op, m, s)  BY <1>5, <4>1
      <4>4. 1 \in 1..Len(jobs)  BY <1>1
      <4> QED  BY <4>2, <4>3, <4>4 DEF Due
    <3>3. CASE i # 1
      <4>1. i \in 2..Len(jobs') /\ i \in 1..Len(jobs)  BY <1>1, <1>5, <3>3
      <4>2. jobs'[i] = jobs[i]  BY <1>5, <4>1
      <4> QED  BY <3>1, <4>1, <4>2 DEF Due
    <3> QED  BY <3>2, <3>3
  <2>2. ASSUME NEW op, NEW m, NEW s, Due(op, m, s), Job # Step(op, m, s) PROVE Due(op, m, s)'
    <3>1. PICK i \in 1..Len(jobs) : \E k \in 1..Len(jobs[i]) : jobs[i][k] = Step(op, m, s)
      BY <2>2 DEF Due
    <3>2. i \in 1..Len(jobs')  BY <1>5
    <3>3. \E k \in 1..Len(jobs'[i]) : jobs'[i][k] = Step(op, m, s)
      <4>1. CASE i = 1
        <5>1. PICK k \in 1..Len(jobs[1]) : jobs[1][k] = Step(op, m, s)  BY <3>1, <4>1
        <5>2. k # 1  BY <1>1, <2>2, <5>1
        <5>3. k - 1 \in 1..Len(jobs'[1]) /\ (k - 1) + 1 = k  BY <1>1, <1>5, <5>2
        <5>4. jobs'[1][k - 1] = jobs[1][k]  BY <1>5, <5>3
        <5> QED  BY <4>1, <5>1, <5>3, <5>4
      <4>2. CASE i # 1
        <5>1. i \in 2..Len(jobs')  BY <1>1, <1>5, <4>2
        <5>2. jobs'[i] = jobs[i]  BY <1>5, <5>1
        <5> QED  BY <3>1, <5>2
      <4> QED  BY <4>1, <4>2
    <3> QED  BY <3>2, <3>3 DEF Due, Step
  <2> QED  BY <2>1, <2>2
<1> QED  BY <1>4, <1>5, JobsLeft

\* What is left of a slot is in order.
LEMMA OrderLeft ==
    ASSUME TypeOK, jobs # <<>>, JobDone, \A i \in 1..Len(jobs) : SlotInOrder(jobs[i])
    PROVE  \A i \in 1..Len(jobs') : SlotInOrder(jobs'[i])
<1>1. /\ Len(jobs) \in Nat \ {0} /\ Len(jobs[1]) \in Nat \ {0}  BY JobIs
<1>2. SUFFICES ASSUME NEW i \in 1..Len(jobs') PROVE SlotInOrder(jobs'[i])  OBVIOUS
<1>3. CASE /\ Len(jobs[1]) = 1 /\ Len(jobs') = Len(jobs) - 1
           /\ \A j \in 1..Len(jobs') : jobs'[j] = jobs[j + 1]
  <2>1. i + 1 \in 1..Len(jobs)  BY <1>1, <1>3
  <2> QED  BY <1>3, <2>1
<1>4. CASE /\ Len(jobs') = Len(jobs) /\ Len(jobs'[1]) = Len(jobs[1]) - 1
           /\ \A k \in 1..Len(jobs'[1]) : jobs'[1][k] = jobs[1][k + 1]
           /\ \A j \in 2..Len(jobs') : jobs'[j] = jobs[j]
  <2>1. CASE i = 1
    <3>1. SlotInOrder(jobs[1])  BY <1>1
    <3> DEFINE n == Len(jobs'[1])
    <3>2. n \in Nat /\ Len(jobs[1]) = n + 1 /\ \A k \in 1..n : jobs'[1][k] = jobs[1][k + 1]
      <4>1. Len(jobs[1]) \in Nat \ {0} /\ n = Len(jobs[1]) - 1  BY <1>1, <1>4
      <4>2. \A k \in 1..n : jobs'[1][k] = jobs[1][k + 1]  BY <1>4
      <4> HIDE DEF n
      <4> QED  BY <4>1, <4>2
    <3> HIDE DEF n
    <3>3. ASSUME NEW k \in 1..n, jobs'[1][k].op = "merge"
          PROVE  \E l \in 1..n :
                    l > k /\ jobs'[1][l] = Step("apply", jobs'[1][k].mgr, jobs'[1][k].sec)
      <4>1. k + 1 \in 1..Len(jobs[1]) /\ jobs'[1][k] = jobs[1][k + 1]  BY <3>2
      <4>2. PICK l \in 1..Len(jobs[1]) :
               l > k + 1 /\ jobs[1][l] = Step("apply", jobs[1][k + 1].mgr, jobs[1][k + 1].sec)
        BY <3>1, <3>3, <4>1 DEF SlotInOrder
      <4>3. l - 1 \in 1..n /\ l - 1 > k /\ (l - 1) + 1 = l  BY <3>2, <4>2
      <4>4. jobs'[1][l - 1] = jobs[1][l]  BY <3>2, <4>3
      <4> QED  BY <4>1, <4>2, <4>3, <4>4
    <3> QED  BY <2>1, <3>3 DEF n, SlotInOrder
  <2>2. CASE i # 1
    <3>1. i \in 2..Len(jobs') /\ i \in 1..Len(jobs)  BY <1>1, <1>4, <2>2
    <3> QED  BY <1>4, <3>1
  <2> QED  BY <2>1, <2>2
<1> QED  BY <1>3, <1>4, JobsLeft

\* A manager's slot merges its section before it applies it, and applies what
\* the manager hears of.
LEMMA LoadedSlotIs ==
    ASSUME NEW m \in Managers
    PROVE  /\ LoadedSlot(m) \in Seq(JobStep) /\ LoadedSlot(m) # <<>>
           /\ SlotInOrder(LoadedSlot(m))
           /\ \E k \in 1..Len(LoadedSlot(m)) : LoadedSlot(m)[k] = Step("merge", m, Own[m])
           /\ \A s \in Secs : Hears(m, s) =>
                 \E k \in 1..Len(LoadedSlot(m)) : LoadedSlot(m)[k] = Step("apply", m, s)
<1> DEFINE a == <<Step("create", m, Own[m]), Step("merge", m, Own[m]),
                  Step("apply", m, Own[m]), Step("connect", m, Own[m])>>
           b == IF Also[m] = NoSec THEN <<>>
                ELSE <<Step("create", m, Also[m]), Step("apply", m, Also[m]),
                       Step("connect", m, Also[m])>>
           c == LoadedSlot(m)
<1>1. \A op \in {"create", "merge", "apply", "connect"}, s \in Secs : Step(op, m, s) \in JobStep
  BY DEF Step, JobStep
<1>2. Own[m] \in Secs /\ (Also[m] # NoSec => Also[m] \in Secs) /\ NoSec \notin Secs
  BY SettingsAssumption
<1>3. \A op, s : Step(op, m, s).op = op /\ Step(op, m, s).mgr = m /\ Step(op, m, s).sec = s
  BY DEF Step
<1> HIDE DEF Step
<1>4. /\ a \in Seq(JobStep) /\ Len(a) = 4 /\ a[1].op = "create" /\ a[4].op = "connect"
      /\ a[2] = Step("merge", m, Own[m]) /\ a[3] = Step("apply", m, Own[m])
  <2>1. /\ Step("create", m, Own[m]) \in JobStep /\ Step("merge", m, Own[m]) \in JobStep
        /\ Step("apply", m, Own[m]) \in JobStep /\ Step("connect", m, Own[m]) \in JobStep
    BY <1>1, <1>2
  <2> QED  BY <1>3, <2>1
<1>5. /\ b \in Seq(JobStep) /\ Len(b) \in Nat
      /\ \A k \in 1..Len(b) : b[k].op # "merge"
      /\ Also[m] # NoSec => Len(b) = 3 /\ b[2] = Step("apply", m, Also[m])
  <2>1. CASE Also[m] = NoSec
    <3>1. b = <<>>  BY <2>1
    <3> HIDE DEF b
    <3> QED  BY <2>1, <3>1
  <2>2. CASE Also[m] # NoSec
    <3>1. b = <<Step("create", m, Also[m]), Step("apply", m, Also[m]),
                Step("connect", m, Also[m])>>
      BY <2>2
    <3>2. /\ Step("create", m, Also[m]) \in JobStep /\ Step("apply", m, Also[m]) \in JobStep
          /\ Step("connect", m, Also[m]) \in JobStep
      BY <1>1, <1>2, <2>2
    <3> HIDE DEF b
    <3>3. b \in Seq(JobStep) /\ Len(b) = 3  BY <3>1, <3>2
    <3>4. b[1].op = "create" /\ b[2] = Step("apply", m, Also[m]) /\ b[3].op = "connect"
      BY <1>3, <3>1
    <3>5. \A k \in 1..3 : k = 1 \/ k = 2 \/ k = 3  OBVIOUS
    <3> QED  BY <1>3, <3>3, <3>4, <3>5
  <2> QED  BY <2>1, <2>2
<1>6. c = a \o b  BY DEF LoadedSlot
<1> HIDE DEF a, b, c
<1>7. /\ a \o b \in Seq(JobStep) /\ Len(a \o b) = Len(a) + Len(b)
      /\ \A k \in 1..(Len(a) + Len(b)) : (a \o b)[k] = IF k <= Len(a) THEN a[k] ELSE b[k - Len(a)]
  BY <1>4, <1>5, ConcatProperties
<1>8. /\ c \in Seq(JobStep) /\ Len(c) = 4 + Len(b)
      /\ \A k \in 1..(4 + Len(b)) : c[k] = IF k <= 4 THEN a[k] ELSE b[k - 4]
  BY <1>4, <1>6, <1>7
<1>9. c # <<>>
  <2>1. Len(c) # 0  BY <1>5, <1>8
  <2> QED  BY <2>1, EmptySeq
<1>10. {1, 2, 3, 4} \subseteq 1..Len(c) /\ \A k \in {1, 2, 3, 4} : c[k] = a[k]
  BY <1>5, <1>8
<1>11. SlotInOrder(c)
  <2>1. SUFFICES ASSUME NEW k \in 1..Len(c), c[k].op = "merge"
                 PROVE  \E l \in 1..Len(c) : l > k /\ c[l] = Step("apply", c[k].mgr, c[k].sec)
    BY DEF SlotInOrder
  <2>2. k = 2
    <3>1. CASE k <= 4
      <4>1. k \in {1, 2, 3, 4}  BY <1>5, <1>8, <3>1
      <4> QED  BY <1>3, <1>4, <1>10, <2>1, <4>1
    <3>2. CASE ~(k <= 4)
      <4>1. k - 4 \in 1..Len(b) /\ c[k] = b[k - 4]  BY <1>5, <1>8, <3>2
      <4> QED  BY <1>5, <2>1, <4>1
    <3> QED  BY <3>1, <3>2
  <2>3. c[2].mgr = m /\ c[2].sec = Own[m]  BY <1>3, <1>4, <1>10
  <2>4. 3 \in 1..Len(c) /\ 3 > 2 /\ c[3] = Step("apply", m, Own[m])  BY <1>4, <1>10
  <2> QED  BY <2>2, <2>3, <2>4
<1>12. \E k \in 1..Len(c) : c[k] = Step("merge", m, Own[m])  BY <1>4, <1>10
<1>13. ASSUME NEW s \in Secs, Hears(m, s)
       PROVE  \E k \in 1..Len(c) : c[k] = Step("apply", m, s)
  <2>1. CASE s = Own[m]  BY <1>4, <1>10, <2>1
  <2>2. CASE s = Also[m]
    <3>1. Also[m] # NoSec  BY <1>2, <2>2
    <3>2. 6 \in 1..Len(c) /\ c[6] = b[2]  BY <1>5, <1>8, <3>1
    <3> QED  BY <1>5, <2>2, <3>1, <3>2
  <2> QED  BY <1>13, <2>1, <2>2 DEF Hears
<1> QED  BY <1>8, <1>9, <1>11, <1>12, <1>13 DEF c

\* When the configuration is loaded every section has yet to be merged and
\* applied.
LEMMA LoadedSlotsAre ==
    ASSUME jobs' = LoadedSlots
    PROVE  /\ jobs' \in Seq(Seq(JobStep)) /\ \A i \in 1..Len(jobs') : jobs'[i] # <<>>
           /\ \A i \in 1..Len(jobs') : SlotInOrder(jobs'[i])
           /\ \A m \in Managers : Due("merge", m, Own[m])'
           /\ \A m \in Managers, s \in Secs : Hears(m, s) => Due("apply", m, s)'
<1>1. Mgrs \in Seq(Managers)  BY SettingsAssumption
<1> DEFINE n == Len(Mgrs)
<1>2. n \in Nat /\ DOMAIN Mgrs = 1..n /\ \A i \in 1..n : Mgrs[i] \in Managers
  BY <1>1, LenProperties
<1>3. jobs' = [i \in 1..n |-> LoadedSlot(Mgrs[i])]  BY <1>2 DEF LoadedSlots
<1> HIDE DEF n
<1>4. jobs' \in [1..n -> Seq(JobStep)]  BY <1>2, <1>3, LoadedSlotIs
<1>5. jobs' \in Seq(Seq(JobStep))  BY <1>2, <1>4, SeqDef
<1>6. Len(jobs') = n  BY <1>2, <1>4, <1>5, LenProperties
<1>7. \A i \in 1..n : jobs'[i] = LoadedSlot(Mgrs[i])  BY <1>3
<1>8. ASSUME NEW m \in Managers
      PROVE  /\ Due("merge", m, Own[m])'
             /\ \A s \in Secs : Hears(m, s) => Due("apply", m, s)'
  <2>1. PICK i \in 1..n : Mgrs[i] = m  BY <1>2 DEF Managers
  <2>2. i \in 1..Len(jobs') /\ jobs'[i] = LoadedSlot(m)  BY <1>6, <1>7, <2>1
  <2>3. /\ \E k \in 1..Len(jobs'[i]) : jobs'[i][k] = Step("merge", m, Own[m])
        /\ \A s \in Secs : Hears(m, s) =>
              \E k \in 1..Len(jobs'[i]) : jobs'[i][k] = Step("apply", m, s)
    BY <2>2, LoadedSlotIs
  <2> QED  BY <2>2, <2>3 DEF Due, Step
<1>9. \A i \in 1..n : jobs'[i] # <<>> /\ SlotInOrder(jobs'[i])  BY <1>2, <1>7, LoadedSlotIs
<1> QED  BY <1>5, <1>6, <1>8, <1>9

\* A section is applied or due to be.
LEMMA AppliedIsNotDue ==
    ASSUME TypeOK, NEW m, NEW s
    PROVE  Applied(m, s) <=> ~Due("apply", m, s)
<1>1. \A i \in 1..Len(jobs) : DOMAIN jobs[i] = 1..Len(jobs[i])
  BY LenProperties DEF TypeOK
<1>2. DOMAIN jobs = 1..Len(jobs)  BY LenProperties DEF TypeOK
<1> QED  BY <1>1, <1>2 DEF Applied, Due
-----------------------------------------------------------------------------
(* The main thread where it leaves file, tree and news alone *)

Early == {"off", "load"}
BeforePuts == {"off", "load", "startSave", "plugins"}

\* A step that moves the main thread on, or only writes the file, changes the
\* dialog's widgets, the plugins or what history remembers of them.
LEMMA WritesOrMovesOn ==
    ASSUME IInv,
           UNCHANGED <<conf, jobs, updates, listening, working, wanted, missed, torn>>,
           file' \in Readable \cup {Missing, Broken}, writing' \in Readable \cup {None},
           durable' \in Trees, Kept',
           phase' \in {"off", "load", "plugins", "window", "gui", "apply"} \cup Saving,
           phase' \in Early <=> phase \in Early,
           phase' \in BeforePuts => phase \in BeforePuts /\ plan' = None,
           alive' \in BOOLEAN, alive' => alive /\ phase' = "apply",
           widgets' \in [Nodes -> Widget \cup {None}],
           WidgetsShow', PluginsAsConfigured'
    PROVE  IInv'
<1>1. TypeOK /\ NotYet /\ MergedFirst /\ Followed /\ NewsIsTrue  BY DEF IInv
<1>2. UNCHANGED <<secs, tree>>  BY DEF conf
<1>3. TypeOK'  BY <1>1, <1>2 DEF TypeOK
<1>4. NotYet'  BY <1>1 DEF NotYet, Early, BeforePuts
<1>6. \A op, m, s : Due(op, m, s)' <=> Due(op, m, s)  BY DEF Due, Step
<1>7. MergedFirst'  BY <1>1, <1>2, <1>6 DEF MergedFirst, Early
<1>8. Followed'
  <2>1. \A m, n : (Follows(m, n)' <=> Follows(m, n)) /\ (Coming(n)' <=> Coming(n))
    BY <1>2 DEF Follows, Coming
  <2> HIDE DEF Due, Follows, Coming
  <2> QED  BY <1>1, <1>2, <1>6, <2>1 DEF Followed, Early
<1>9. NewsIsTrue'
  <2>1. \A m, n : Follows(m, n)' <=> Follows(m, n)  BY <1>2 DEF Follows
  <2>2. Last' = Last  BY DEF Last
  <2> HIDE DEF Due, Follows, Last
  <2>3. NewsReaches(Last.node, Last.to)' <=> NewsReaches(Last.node, Last.to)
    BY <1>6, <2>1, <2>2 DEF NewsReaches
  <2> HIDE DEF NewsReaches
  <2> QED  BY <1>1, <1>2, <2>2, <2>3 DEF NewsIsTrue
<1> QED  BY <1>3, <1>4, <1>7, <1>8, <1>9 DEF IInv

LEMMA MovesOn ==
    ASSUME IInv,
           UNCHANGED <<disk, conf, jobs, updates, listening, working, wanted, durable, missed, torn>>,
           phase' \in {"off", "load", "plugins", "window", "gui", "apply"} \cup Saving,
           phase' \in Early <=> phase \in Early,
           phase' \in BeforePuts => phase \in BeforePuts /\ plan' = None,
           writing # None => phase' \in Saving,
           alive' \in BOOLEAN, alive' => alive /\ phase' = "apply",
           widgets' \in [Nodes -> Widget \cup {None}],
           WidgetsShow', PluginsAsConfigured'
    PROVE  IInv'
<1>1. TypeOK /\ Kept  BY DEF IInv
<1>2. UNCHANGED <<file, writing, tree>>  BY DEF disk, conf
<1>3. Kept'  BY <1>1, <1>2 DEF Kept, Early
<1>4. /\ file' \in Readable \cup {Missing, Broken} /\ writing' \in Readable \cup {None}
      /\ durable' \in Trees
  BY <1>1, <1>2 DEF TypeOK
<1> QED  BY <1>3, <1>4, WritesOrMovesOn

\* The steps that change nothing but where the main thread is.
LEMMA OnlyMovesOn ==
    ASSUME IInv,
           UNCHANGED <<disk, conf, signal, plugins, widgets, history>>,
           alive' = alive \/ alive' = FALSE,
           \/ phase' = phase
           \/ /\ <<phase, phase'>> \in {<<"off", "load">>, <<"gui", "apply">>,
                                        <<"apply", "applySave">>, <<"gui", "exitSave">>}
              /\ ~alive
    PROVE  IInv'
<1>1. TypeOK /\ NotYet /\ Kept /\ WidgetsShow /\ PluginsAsConfigured  BY DEF IInv
<1>2. UNCHANGED <<jobs, updates, listening, working, wanted, durable, missed, torn, plan, meant>>
  BY DEF signal, history
<1>3. phase' \in {"off", "load", "plugins", "window", "gui", "apply"} \cup Saving
  BY <1>1 DEF TypeOK, Saving
<1>4. /\ phase' \in Early <=> phase \in Early
      /\ phase' \in BeforePuts => phase \in BeforePuts
      /\ phase' \in BeforePuts => plan' = None
  BY <1>1, <1>2 DEF Early, BeforePuts, NotYet
<1>5. writing # None => phase' \in Saving  BY <1>1 DEF Kept, Saving
<1>6. alive' \in BOOLEAN /\ (alive' => alive /\ phase' = "apply")
  <2>1. alive' \in BOOLEAN  BY <1>1 DEF TypeOK
  <2>2. ASSUME alive' PROVE alive /\ phase' = "apply"
    <3>1. alive  BY <2>2
    <3>2. phase = "apply"  BY <1>1, <3>1 DEF NotYet
    <3>3. phase' = phase  BY <3>1
    <3> QED  BY <3>1, <3>2, <3>3
  <2> QED  BY <2>1, <2>2
<1>7. widgets' \in [Nodes -> Widget \cup {None}]  BY <1>1 DEF TypeOK
<1>8. WidgetsShow'  BY <1>1, <1>2 DEF WidgetsShow, Unedited
<1>9. PluginsAsConfigured'  BY <1>1, <1>2 DEF PluginsAsConfigured, Constructed
<1> QED  BY <1>2, <1>3, <1>4, <1>5, <1>6, <1>7, <1>8, <1>9, MovesOn

LEMMA LoadPluginsKeeps ==
    ASSUME IInv, LoadPlugins
    PROVE  IInv'
<1>1. TypeOK /\ NotYet /\ Kept /\ WidgetsShow /\ MergedFirst /\ Followed  BY DEF IInv
<1>2. /\ phase = "plugins" /\ phase' = "window" /\ alive' = alive
      /\ UNCHANGED <<disk, conf, jobs, updates, listening, working, wanted, durable, missed, torn,
                     widgets, meant>>
  BY DEF LoadPlugins, signal
<1>3. writing = None /\ ~alive  BY <1>1, <1>2 DEF Kept, Saving, NotYet
<1>4. widgets' \in [Nodes -> Widget \cup {None}] /\ alive' \in BOOLEAN
  BY <1>1, <1>2 DEF TypeOK
<1>5. WidgetsShow'  BY <1>1, <1>2 DEF WidgetsShow, Unedited
<1>6. PluginsAsConfigured'
  <2>1. CASE Applied(PluginMgr, Own[PluginMgr])
    <3> DEFINE m == PluginMgr
    <3>1. m \in Managers /\ {Paths, Barred} \subseteq InSec(Own[m])  BY SettingsAssumption
    <3>2. ~Due("apply", m, Own[m])  BY <1>1, <2>1, AppliedIsNotDue
    <3>3. ~Due("merge", m, Own[m])
      <4>1. SUFFICES ASSUME Due("merge", m, Own[m]) PROVE FALSE  OBVIOUS
      <4>2. PICK i \in 1..Len(jobs) :
               \E k \in 1..Len(jobs[i]) : jobs[i][k] = Step("merge", m, Own[m])
        BY <4>1 DEF Due
      <4>3. PICK k \in 1..Len(jobs[i]) : jobs[i][k] = Step("merge", m, Own[m])  BY <4>2
      <4>4. SlotInOrder(jobs[i])  BY <1>1 DEF MergedFirst
      <4>5. jobs[i][k].op = "merge" /\ jobs[i][k].mgr = m /\ jobs[i][k].sec = Own[m]
        BY <4>3 DEF Step
      <4>6. PICK l \in 1..Len(jobs[i]) : jobs[i][l] = Step("apply", m, Own[m])
        BY <4>4, <4>5 DEF SlotInOrder
      <4> QED  BY <3>2, <4>6 DEF Due
    <3> HIDE DEF m
    <3>4. ASSUME NEW n \in {Paths, Barred}
          PROVE  working[<<m, n>>] = IF tree[n] = None THEN Initial(n) ELSE ListOf(n, tree[n])
      <4>1. n \in Nodes /\ SecOf[n] = Own[m]  BY <3>1 DEF InSec
      <4>2. missed = {} /\ torn = {} /\ updates = <<>>  BY <1>1, <1>2 DEF NotYet
      <4>3. ~Coming(n)  BY <4>2 DEF Coming
      <4>4. Heeds(m, n)  BY SettingsAssumption DEF Heeds, m
      <4>5. Follows(m, n)  BY <1>1, <1>2, <3>1, <3>2, <4>1, <4>2, <4>3, <4>4 DEF Followed
      <4>6. tree[n] # None => Uses(n, tree[n], working[<<m, n>>]) = ListOf(n, tree[n])
        <5>1. working[<<m, n>>] \in Vals  BY <1>1, <3>1, <4>1 DEF TypeOK
        <5>2. tree[n] # None => tree[n] \in Vals  BY <1>1, <4>1 DEF TypeOK, Trees
        <5> QED  BY <4>1, <5>1, <5>2, UsesIs
      <4> QED  BY <4>5, <4>6 DEF Follows
    <3>5. tree[Paths] # None
      <4>1. Paths \in InSec(Own[m]) /\ Default[Paths] # None  BY <3>1, SettingsAssumption
      <4> QED  BY <1>1, <1>2, <3>1, <3>3, <4>1 DEF MergedFirst
    <3>6. \A n \in {Paths, Barred} : Asked[n] = tree[n]
      <4>1. {Paths, Barred} \subseteq Nodes  BY <3>1 DEF InSec
      <4>2. Keeps(tree, wanted)  BY <1>1, <1>2 DEF Kept
      <4> QED  BY <4>1, <4>2 DEF Asked, Keeps
    <3>7. Initial(Barred) = Nothing  BY SettingsAssumption DEF Initial
    <3> DEFINE barred == IF tree[Barred] = None THEN Nothing ELSE ListOf(Barred, tree[Barred])
    <3>8. plugins' = Constructed(Found[ListOf(Paths, tree[Paths])] \ Bars[barred])
      <4>1. working[<<m, Paths>>] = ListOf(Paths, tree[Paths])  BY <3>4, <3>5
      <4>2. working[<<m, Barred>>] = barred  BY <3>4, <3>7
      <4> HIDE DEF barred
      <4> QED  BY <4>1, <4>2 DEF LoadPlugins, Loadable, m
    <3>9. plan' = Asked  BY <2>1 DEF LoadPlugins
    <3>10. plan'[Paths] = tree[Paths] /\ plan'[Barred] = tree[Barred]  BY <3>6, <3>9
    <3> QED  BY <3>8, <3>10 DEF PluginsAsConfigured, Constructed
  <2>2. CASE ~Applied(PluginMgr, Own[PluginMgr])
    BY <2>2 DEF LoadPlugins, PluginsAsConfigured
  <2> QED  BY <2>1, <2>2
<1>7. /\ phase' \in {"off", "load", "plugins", "window", "gui", "apply"} \cup Saving
      /\ phase' \in Early <=> phase \in Early
      /\ ~(phase' \in BeforePuts)
  BY <1>2 DEF Early, BeforePuts
<1> QED  BY <1>2, <1>3, <1>4, <1>5, <1>6, <1>7, MovesOn

LEMMA LoadPluginsThrowsKeeps ==
    ASSUME IInv, LoadPluginsThrows
    PROVE  IInv'
<1>1. TypeOK /\ NotYet /\ WidgetsShow  BY DEF IInv
<1>2. /\ phase = "plugins" /\ phase' = "exitSave" /\ alive' = alive
      /\ UNCHANGED <<disk, conf, jobs, updates, listening, working, wanted, durable, missed, torn,
                     widgets, meant, plan>>
  BY DEF LoadPluginsThrows, signal, history
<1>3. ~alive /\ plan' = None  BY <1>1, <1>2 DEF NotYet
<1>4. widgets' \in [Nodes -> Widget \cup {None}] /\ alive' \in BOOLEAN
  BY <1>1, <1>2 DEF TypeOK
<1>5. WidgetsShow'  BY <1>1, <1>2 DEF WidgetsShow, Unedited
<1>6. PluginsAsConfigured'  BY <1>3 DEF PluginsAsConfigured
<1>7. /\ phase' \in Saving /\ (phase' \in Early <=> phase \in Early)
      /\ ~(phase' \in BeforePuts)
  BY <1>2 DEF Early, BeforePuts, Saving
<1>8. phase' \in {"off", "load", "plugins", "window", "gui", "apply"} \cup Saving  BY <1>7
<1> QED  BY <1>2, <1>3, <1>4, <1>5, <1>6, <1>7, <1>8, MovesOn

-----------------------------------------------------------------------------
(* The dialog *)

LEMMA BuildDialogKeeps ==
    ASSUME IInv, BuildDialog
    PROVE  IInv'
<1>1. TypeOK /\ NotYet /\ Kept /\ PluginsAsConfigured  BY DEF IInv
<1>2. /\ phase = "window" /\ phase' = "gui" /\ alive' = alive
      /\ UNCHANGED <<disk, conf, jobs, updates, listening, working, wanted, durable, missed, torn,
                     plugins, meant, plan>>
      /\ widgets' = [n \in Nodes |-> IF SecOf[n] \in secs /\ tree[n] # None
                                     THEN WidgetFor(tree[n]) ELSE None]
  BY DEF BuildDialog, signal, history
<1>3. writing = None /\ ~alive  BY <1>1, <1>2 DEF Kept, Saving, NotYet
<1>4. \A n \in Nodes : widgets'[n] = None \/
         \E v \in Vals : /\ widgets'[n] = WidgetFor(v) /\ WidgetFor(v) \in Widget
                         /\ WidgetFor(v).reset = v /\ WidgetFor(v).shown = Shown[v]
                         /\ ~WidgetFor(v).touched
  <2>1. \A v \in Vals : /\ WidgetFor(v) \in Widget /\ WidgetFor(v).reset = v
                        /\ WidgetFor(v).shown = Shown[v] /\ ~WidgetFor(v).touched
    BY SettingsAssumption DEF WidgetFor, Widget
  <2>2. \A n \in Nodes : tree[n] # None => tree[n] \in Vals  BY <1>1 DEF TypeOK, Trees
  <2> HIDE DEF WidgetFor
  <2> QED  BY <1>2, <2>1, <2>2
<1>5. widgets' \in [Nodes -> Widget \cup {None}]
  <2>1. \A n \in Nodes : widgets'[n] \in Widget \cup {None}  BY <1>4
  <2> HIDE DEF WidgetFor
  <2> QED  BY <1>2, <2>1
<1>6. WidgetsShow'
  <2> SUFFICES ASSUME NEW n \in Nodes, widgets'[n] # None
               PROVE  /\ Shown[widgets'[n].shown] = widgets'[n].shown
                      /\ widgets'[n].shown = Shown[widgets'[n].reset]
                      /\ ~widgets'[n].touched
    BY DEF WidgetsShow, Unedited
  <2>1. PICK v \in Vals : /\ widgets'[n] = WidgetFor(v) /\ WidgetFor(v).reset = v
                          /\ WidgetFor(v).shown = Shown[v] /\ ~WidgetFor(v).touched
    BY <1>4
  <2> QED  BY <2>1, SettingsAssumption
<1>7. PluginsAsConfigured'  BY <1>1, <1>2 DEF PluginsAsConfigured, Constructed
<1>8. /\ phase' \in {"off", "load", "plugins", "window", "gui", "apply"} \cup Saving
      /\ phase' \in Early <=> phase \in Early
      /\ ~(phase' \in BeforePuts) /\ alive' \in BOOLEAN
  BY <1>1, <1>2 DEF Early, BeforePuts, TypeOK
<1> QED  BY <1>2, <1>3, <1>5, <1>6, <1>7, <1>8, MovesOn

\* Only widgets change, and what the user is known to have edited.
LEMMA DialogKeeps ==
    ASSUME IInv, phase = "gui",
           UNCHANGED <<disk, phase, conf, signal, alive, plugins, wanted, durable, missed, torn, plan>>,
           widgets' \in [Nodes -> Widget \cup {None}], WidgetsShow'
    PROVE  IInv'
<1>1. TypeOK /\ NotYet /\ Kept /\ PluginsAsConfigured  BY DEF IInv
<1>2. UNCHANGED <<disk, conf, jobs, updates, listening, working, wanted, durable, missed, torn>>
  BY DEF signal
<1>3. writing = None /\ ~alive  BY <1>1 DEF Kept, Saving, NotYet
<1>4. PluginsAsConfigured'  BY <1>1 DEF PluginsAsConfigured, Constructed
<1>5. /\ phase' \in {"off", "load", "plugins", "window", "gui", "apply"} \cup Saving
      /\ phase' \in Early <=> phase \in Early
      /\ ~(phase' \in BeforePuts) /\ alive' \in BOOLEAN /\ ~alive'
  BY <1>1, <1>3 DEF Early, BeforePuts, TypeOK
<1> QED  BY <1>2, <1>3, <1>4, <1>5, MovesOn

LEMMA EditKeeps ==
    ASSUME IInv, NEW n \in Nodes, NEW v \in Vals, Edit(n, v)
    PROVE  IInv'
<1>1. TypeOK /\ WidgetsShow  BY DEF IInv
<1>2. widgets[n] # None /\ widgets[n] \in Widget /\ Shown[v] = v  BY <1>1 DEF Edit, TypeOK
<1> DEFINE w == [widgets[n] EXCEPT !.shown = v, !.touched = TRUE]
<1>3. widgets' = [widgets EXCEPT ![n] = w] /\ meant' = meant \cup {n}
  BY DEF Edit
<1>4. w \in Widget /\ w.shown = v /\ w.touched  BY <1>2 DEF Widget
<1> HIDE DEF w
<1>5. widgets' \in [Nodes -> Widget \cup {None}] /\ widgets'[n] = w
      /\ \A m \in Nodes : m # n => widgets'[m] = widgets[m]
  BY <1>1, <1>3, <1>4 DEF TypeOK
<1>6. WidgetsShow'
  <2> SUFFICES ASSUME NEW m \in Nodes, widgets'[m] # None
               PROVE  /\ Shown[widgets'[m].shown] = widgets'[m].shown
                      /\ m \notin meant' => Unedited(m)' /\ (m \in Flagged => ~widgets'[m].touched)
                      /\ m \in Flagged /\ ~widgets'[m].touched => Unedited(m)'
    BY DEF WidgetsShow
  <2>1. CASE m = n  BY <1>2, <1>3, <1>4, <1>5, <2>1
  <2>2. CASE m # n
    <3>1. widgets'[m] = widgets[m] /\ (m \notin meant' => m \notin meant)  BY <1>3, <1>5, <2>2
    <3> QED  BY <1>1, <3>1 DEF WidgetsShow, Unedited
  <2> QED  BY <2>1, <2>2
<1> QED  BY <1>5, <1>6, DialogKeeps DEF Edit

\* What a widget shows after a reset is what it was reset to.
LEMMA ResetButtonKeeps ==
    ASSUME IInv, ResetButton
    PROVE  IInv'
<1>1. TypeOK /\ WidgetsShow  BY DEF IInv
<1>2. widgets' = [n \in Nodes |-> IF Modified(n) THEN Resetting(widgets[n]) ELSE widgets[n]]
  BY DEF ResetButton
<1>3. ASSUME NEW n \in Nodes, Modified(n)
      PROVE  /\ widgets[n] \in Widget /\ Resetting(widgets[n]) \in Widget
             /\ Resetting(widgets[n]).shown = Shown[Resetting(widgets[n]).reset]
             /\ Shown[Resetting(widgets[n]).shown] = Resetting(widgets[n]).shown
             /\ ~Resetting(widgets[n]).touched
  <2> DEFINE r == Resetting(widgets[n])
  <2>1. widgets[n] \in Widget  BY <1>1, <1>3 DEF TypeOK, Modified
  <2>2. Shown[widgets[n].reset] \in Vals  BY <2>1, SettingsAssumption DEF Widget
  <2>3. /\ r \in Widget /\ r.reset = widgets[n].reset /\ r.shown = Shown[widgets[n].reset]
        /\ r.touched = FALSE
    BY <2>1, <2>2 DEF Resetting, Widget
  <2>4. widgets[n].reset \in Vals  BY <2>1 DEF Widget
  <2> HIDE DEF r
  <2>5. Shown[r.shown] = r.shown  BY <2>3, <2>4, SettingsAssumption
  <2> QED  BY <2>1, <2>3, <2>5 DEF r
<1>4. widgets' \in [Nodes -> Widget \cup {None}]
  <2>1. ASSUME NEW n \in Nodes PROVE widgets'[n] \in Widget \cup {None}
    <3> HIDE DEF Modified, Resetting
    <3>1. CASE Modified(n)  BY <1>2, <1>3, <3>1
    <3>2. CASE ~Modified(n)  BY <1>1, <1>2, <3>2 DEF TypeOK
    <3> QED  BY <3>1, <3>2
  <2> HIDE DEF Modified, Resetting
  <2> QED  BY <1>2, <2>1
<1>5. WidgetsShow'
  <2> SUFFICES ASSUME NEW n \in Nodes, widgets'[n] # None
               PROVE  /\ Shown[widgets'[n].shown] = widgets'[n].shown
                      /\ Unedited(n)' /\ (n \in Flagged => ~widgets'[n].touched)
    BY DEF WidgetsShow
  <2>1. CASE Modified(n)
    <3>1. widgets'[n] = Resetting(widgets[n])  BY <1>2, <2>1
    <3> HIDE DEF Resetting
    <3> QED  BY <1>3, <2>1, <3>1 DEF Unedited
  <2>2. CASE ~Modified(n)
    <3>1. widgets'[n] = widgets[n] /\ widgets[n] # None  BY <1>2, <2>2
    <3>2. Shown[widgets[n].shown] = widgets[n].shown  BY <1>1, <3>1 DEF WidgetsShow
    <3>3. CASE n \in Flagged
      <4>1. ~widgets[n].touched  BY <2>2, <3>1, <3>3 DEF Modified
      <4>2. Unedited(n)  BY <1>1, <3>1, <3>3, <4>1 DEF WidgetsShow
      <4> QED  BY <3>1, <3>2, <4>1, <4>2 DEF Unedited
    <3>4. CASE n \notin Flagged
      <4>1. widgets[n].shown = widgets[n].reset  BY <2>2, <3>1, <3>4 DEF Modified
      <4> QED  BY <3>1, <3>2, <3>4, <4>1 DEF Unedited
    <3> QED  BY <3>3, <3>4
  <2> QED  BY <2>1, <2>2
<1> QED  BY <1>4, <1>5, DialogKeeps DEF ResetButton

-----------------------------------------------------------------------------
(* The file *)

\* Whenever the process ends, what was saved last is in the file if it can be
\* read, and the user is owed what is in the file.
LEMMA GoneKeeps ==
    ASSUME IInv,
           phase' = "off", writing' = None, secs' = {}, tree' = NoTree,
           jobs' = <<>>, updates' = <<>>, alive' = FALSE,
           working' = Defaults, widgets' = NoTree,
           missed' = {}, torn' = {}, plan' = None,
           file' \in Readable \cup {Missing, Broken}, wanted' \in Trees, durable' \in Trees,
           HeldIn(file', wanted'), file' # Broken => HeldIn(file', durable')
    PROVE  IInv'
<1>1. NoTree \in Trees /\ \A n \in Nodes : NoTree[n] = None  BY DEF NoTree, Trees
<1>2. Len(<<>>) = 0 /\ \A i \in 1..0 : FALSE  OBVIOUS
<1>3. Defaults \in [Managers \X Nodes -> Vals]
      /\ \A m \in Managers, n \in Nodes : Defaults[<<m, n>>] = Initial(n)
  BY InitialIs DEF Defaults
<1>4. TypeOK'
  <2>1. jobs' \in Seq(Seq(JobStep)) /\ \A i \in 1..Len(jobs') : jobs'[i] # <<>>
    BY <1>2
  <2>2. updates' \in Seq(News)  OBVIOUS
  <2>3. widgets' \in [Nodes -> Widget \cup {None}]  BY DEF NoTree
  <2> QED  BY <1>1, <1>3, <2>1, <2>2, <2>3 DEF TypeOK
<1>5. NotYet'  BY DEF NotYet
<1>6. Kept'  BY DEF Kept, HeldIn, Keeps
<1>7. WidgetsShow'  BY <1>1 DEF WidgetsShow
<1>8. MergedFirst'  BY <1>2 DEF MergedFirst
<1>9. Followed'  BY <1>1, <1>3 DEF Followed, Follows, Defaults
<1>10. NewsIsTrue'  BY <1>2 DEF NewsIsTrue
<1>11. PluginsAsConfigured'  BY DEF PluginsAsConfigured
<1> QED  BY <1>4, <1>5, <1>6, <1>7, <1>8, <1>9, <1>10, <1>11 DEF IInv

LEMMA CrashKeeps ==
    ASSUME IInv, Crash
    PROVE  IInv'
<1>1. TypeOK /\ Kept  BY DEF IInv
<1>2. /\ file' = file /\ durable' = durable
      /\ wanted' = IF file = Broken THEN NoTree ELSE durable
  BY DEF Crash, Gone
<1>3. NoTree \in Trees  BY DEF NoTree, Trees
<1>4. HeldIn(Broken, NoTree)  BY SettingsAssumption DEF HeldIn
<1>5. HeldIn(file', wanted') /\ (file' # Broken => HeldIn(file', durable'))
  BY <1>1, <1>2, <1>4 DEF Kept
<1>6. /\ file' \in Readable \cup {Missing, Broken} /\ wanted' \in Trees /\ durable' \in Trees
  BY <1>1, <1>2, <1>3 DEF TypeOK
<1> HIDE DEF HeldIn
<1> QED  BY <1>5, <1>6, GoneKeeps DEF Crash, Gone

LEMMA ExitEndKeeps ==
    ASSUME IInv, ExitEnd
    PROVE  IInv'
<1>1. TypeOK /\ Kept  BY DEF IInv
<1>2. file' = writing /\ durable' = wanted /\ wanted' = wanted /\ writing # None
  BY DEF ExitEnd
<1>3. writing \in Readable /\ Keeps(writing.nodes, wanted)  BY <1>1, <1>2 DEF TypeOK, Kept
<1>4. HeldIn(writing, wanted)  BY <1>3 DEF HeldIn
<1>5. HeldIn(file', wanted') /\ (file' # Broken => HeldIn(file', durable'))
  BY <1>2, <1>4
<1>6. /\ file' \in Readable \cup {Missing, Broken} /\ wanted' \in Trees /\ durable' \in Trees
  BY <1>1, <1>2, <1>3 DEF TypeOK
<1> HIDE DEF HeldIn
<1> QED  BY <1>5, <1>6, GoneKeeps DEF ExitEnd

LEMMA SaveBeginKeeps ==
    ASSUME IInv, SaveBegin
    PROVE  IInv'
<1>1. TypeOK /\ NotYet /\ Kept /\ WidgetsShow /\ PluginsAsConfigured  BY DEF IInv
<1>2. /\ phase \in Saving /\ phase' = phase /\ writing' = Snapshot /\ file' = Broken
      /\ UNCHANGED <<conf, jobs, updates, listening, working, wanted, durable, missed, torn,
                     alive, plugins, widgets, meant, plan>>
  BY DEF SaveBegin, Saving, signal, history
<1>3. Snapshot \in Readable /\ Snapshot.nodes = tree
  BY <1>1 DEF Snapshot, Readable, TypeOK
<1>4. Kept'
  <2>1. phase \notin {"off", "load"}  BY <1>2 DEF Saving
  <2>2. Keeps(tree, wanted)  BY <1>1, <2>1 DEF Kept
  <2>3. tree' = tree  BY <1>2 DEF conf
  <2> HIDE DEF Keeps
  <2> QED  BY <1>2, <1>3, <2>1, <2>2, <2>3 DEF Kept, Keeps
<1>5. /\ file' \in Readable \cup {Missing, Broken} /\ writing' \in Readable \cup {None}
      /\ durable' \in Trees /\ alive' \in BOOLEAN /\ widgets' \in [Nodes -> Widget \cup {None}]
  BY <1>1, <1>2, <1>3 DEF TypeOK
<1>6. /\ phase' \in {"off", "load", "plugins", "window", "gui", "apply"} \cup Saving
      /\ phase' \in Early <=> phase \in Early
      /\ phase' \in BeforePuts => phase \in BeforePuts /\ plan' = None
  BY <1>1, <1>2 DEF Early, BeforePuts, NotYet
<1>7. alive' => alive /\ phase' = "apply"
  <2>1. ~alive  BY <1>1, <1>2 DEF NotYet, Saving
  <2> QED  BY <1>2, <2>1
<1>8. WidgetsShow' /\ PluginsAsConfigured'
  BY <1>1, <1>2 DEF WidgetsShow, Unedited, PluginsAsConfigured, Constructed
<1>9. UNCHANGED <<conf, jobs, updates, listening, working, wanted, missed, torn>>  BY <1>2
<1> QED  BY <1>4, <1>5, <1>6, <1>7, <1>8, <1>9, WritesOrMovesOn

LEMMA SaveEndKeeps ==
    ASSUME IInv, SaveEnd
    PROVE  IInv'
<1>1. TypeOK /\ NotYet /\ Kept /\ WidgetsShow /\ PluginsAsConfigured  BY DEF IInv
<1>2. /\ phase \in {"startSave", "applySave"}
      /\ phase' = IF phase = "startSave" THEN "plugins" ELSE "gui"
      /\ writing # None /\ file' = writing /\ writing' = None /\ durable' = wanted
      /\ UNCHANGED <<conf, jobs, updates, listening, working, wanted, missed, torn,
                     alive, plugins, widgets, meant, plan>>
  BY DEF SaveEnd, signal
<1>3. writing \in Readable /\ Keeps(writing.nodes, wanted)  BY <1>1, <1>2 DEF TypeOK, Kept
<1>4. Kept'
  <2>1. HeldIn(writing, wanted)  BY <1>3 DEF HeldIn
  <2>2. phase \notin {"off", "load"} /\ phase' \notin {"off", "load"}  BY <1>2
  <2>3. Keeps(tree, wanted)  BY <1>1, <2>2 DEF Kept
  <2>4. tree' = tree  BY <1>2 DEF conf
  <2> HIDE DEF HeldIn, Keeps
  <2> QED  BY <1>2, <2>1, <2>2, <2>3, <2>4 DEF Kept, HeldIn, Keeps
<1>5. /\ file' \in Readable \cup {Missing, Broken} /\ writing' \in Readable \cup {None}
      /\ durable' \in Trees /\ alive' \in BOOLEAN /\ widgets' \in [Nodes -> Widget \cup {None}]
  BY <1>1, <1>2, <1>3 DEF TypeOK
<1>6. /\ phase' \in {"off", "load", "plugins", "window", "gui", "apply"} \cup Saving
      /\ phase' \in Early <=> phase \in Early
      /\ phase' \in BeforePuts => phase \in BeforePuts /\ plan' = None
  BY <1>1, <1>2 DEF Early, BeforePuts, NotYet
<1>7. alive' => alive /\ phase' = "apply"
  <2>1. ~alive  BY <1>1, <1>2 DEF NotYet
  <2> QED  BY <1>2, <2>1
<1>8. WidgetsShow' /\ PluginsAsConfigured'
  BY <1>1, <1>2 DEF WidgetsShow, Unedited, PluginsAsConfigured, Constructed
<1>9. UNCHANGED <<conf, jobs, updates, listening, working, wanted, missed, torn>>  BY <1>2
<1> QED  BY <1>4, <1>5, <1>6, <1>7, <1>8, <1>9, WritesOrMovesOn

LEMMA LoadConfigKeeps ==
    ASSUME IInv, LoadConfig
    PROVE  IInv'
<1>1. TypeOK /\ NotYet /\ Kept /\ WidgetsShow /\ Followed /\ PluginsAsConfigured  BY DEF IInv
<1>2. /\ phase = "load" /\ phase' = "startSave" /\ jobs' = LoadedSlots
      /\ UNCHANGED <<file, writing, updates, listening, working, wanted, durable, missed, torn,
                     alive, plugins, widgets, meant, plan>>
  BY DEF LoadConfig, disk, history
<1>3. /\ updates = <<>> /\ missed = {} /\ torn = {} /\ plan = None /\ working = Defaults
      /\ ~alive
  BY <1>1, <1>2 DEF NotYet
<1>4. /\ jobs' \in Seq(Seq(JobStep)) /\ \A i \in 1..Len(jobs') : jobs'[i] # <<>>
      /\ \A i \in 1..Len(jobs') : SlotInOrder(jobs'[i])
      /\ \A m \in Managers : Due("merge", m, Own[m])'
      /\ \A m \in Managers, s \in Secs : Hears(m, s) => Due("apply", m, s)'
  BY <1>2, LoadedSlotsAre
<1>5. secs' \subseteq Secs /\ tree' \in Trees /\ Keeps(tree', wanted)
  <2>1. HeldIn(file, wanted)  BY <1>1, <1>2 DEF Kept
  <2>2. CASE file \in {Missing, Broken}
    <3>1. secs' = secs /\ tree' = tree  BY <2>2 DEF LoadConfig, conf
    <3>2. wanted = NoTree  BY <2>1, <2>2, SettingsAssumption DEF HeldIn
    <3> QED  BY <1>1, <3>1, <3>2 DEF TypeOK, Keeps, NoTree
  <2>3. CASE file \notin {Missing, Broken}
    <3>1. secs' = file.secs /\ tree' = file.nodes  BY <2>3 DEF LoadConfig
    <3>2. file \in Readable  BY <1>1, <2>3 DEF TypeOK
    <3>3. file.secs \subseteq Secs /\ file.nodes \in Trees  BY <3>2 DEF Readable
    <3> QED  BY <2>1, <3>1, <3>2, <3>3 DEF HeldIn
  <2> QED  BY <2>2, <2>3
<1>6. TypeOK'  BY <1>1, <1>2, <1>4, <1>5 DEF TypeOK, Saving
<1>7. NotYet'  BY <1>2, <1>3 DEF NotYet
<1>8. Kept'
  <2>1. file # Broken => HeldIn(file, durable)  BY <1>1 DEF Kept
  <2>2. writing = None  BY <1>1, <1>2 DEF Kept, Saving
  <2> HIDE DEF HeldIn, Keeps
  <2> QED  BY <1>2, <1>5, <2>1, <2>2 DEF Kept, HeldIn, Keeps
<1>9. WidgetsShow' /\ PluginsAsConfigured'
  BY <1>1, <1>2 DEF WidgetsShow, Unedited, PluginsAsConfigured, Constructed
<1>10. MergedFirst'
  <2> HIDE DEF Due
  <2> QED  BY <1>4 DEF MergedFirst
<1>11. Followed'
  <2>1. \A m \in Managers, n \in Nodes : tree'[n] = None => Follows(m, n)'
    BY <1>2, <1>3 DEF Follows, Defaults
  <2>2. \A m \in Managers, n \in Nodes : Heeds(m, n) => Due("apply", m, SecOf[n])'
    BY <1>4, HeededIsHeard
  <2> HIDE DEF Due, Follows, Coming
  <2> QED  BY <1>4, <2>1, <2>2 DEF Followed
<1>12. NewsIsTrue'
  <2>1. Len(updates') = 0  BY <1>2, <1>3
  <2> QED  BY <1>2, <1>3, <2>1 DEF NewsIsTrue
<1> QED  BY <1>6, <1>7, <1>8, <1>9, <1>10, <1>11, <1>12 DEF IInv

-----------------------------------------------------------------------------
(* The signal thread *)

LEMMA NewsFacts ==
    ASSUME TypeOK
    PROVE  /\ Len(updates) \in Nat /\ (updates # <<>> => Len(updates) \in 1..Len(updates))
           /\ \A i \in 1..Len(updates) :
                 updates[i] \in News /\ updates[i].node \in Nodes /\ updates[i].val \in Vals
                 /\ updates[i].to \subseteq Managers
<1>1. updates \in Seq(News)  BY DEF TypeOK
<1>2. Len(updates) \in Nat /\ \A i \in 1..Len(updates) : updates[i] \in News
  BY <1>1, LenProperties
<1>3. \A u \in News : u.node \in Nodes /\ u.val \in Vals /\ u.to \subseteq Managers  BY DEF News
<1>4. updates # <<>> => Len(updates) \in 1..Len(updates)
  <2>1. updates # <<>> => Len(updates) \in Nat \ {0}  BY <1>1, EmptySeq
  <2> QED  BY <2>1
<1> QED  BY <1>2, <1>3, <1>4

\* A job that is done: sections only fill up with defaults, and who is told of
\* a node is told what the tree says.
LEMMA JobKeeps ==
    ASSUME IInv, jobs # <<>>, JobDone,
           UNCHANGED <<disk, phase, updates, alive, plugins, widgets, history>>,
           secs' = secs, tree' \in Trees,
           \A n \in Nodes : tree[n] # None => tree'[n] = tree[n],
           \A n \in Nodes : tree[n] = None => tree'[n] \in {None, Default[n]},
           Job.op = "merge" => \A n \in InSec(Job.sec) : Default[n] # None => tree'[n] # None,
           working' \in [Managers \X Nodes -> Vals],
           \A m \in Managers, n \in Nodes :
              \/ working'[<<m, n>>] = working[<<m, n>>]
              \/ tree[n] # None /\ working'[<<m, n>>] = Uses(n, tree[n], working[<<m, n>>]),
           Job.op = "apply" => \A n \in InSec(Job.sec) :
              tree[n] # None /\ Heeds(Job.mgr, n) =>
                 working'[<<Job.mgr, n>>] = Uses(n, tree[n], working[<<Job.mgr, n>>]),
           listening \subseteq listening'
    PROVE  IInv'
<1>1. TypeOK /\ NotYet /\ Kept /\ WidgetsShow /\ MergedFirst /\ Followed /\ NewsIsTrue
      /\ PluginsAsConfigured
  BY DEF IInv
<1>2. UNCHANGED <<file, writing, wanted, durable, missed, torn, meant, plan>>
  BY DEF disk, history
<1>3. phase \notin Early  BY <1>1 DEF NotYet, Early
<1>4. /\ jobs' \in Seq(Seq(JobStep)) /\ \A i \in 1..Len(jobs') : jobs'[i] # <<>>
      /\ \A i \in 1..Len(jobs') : SlotInOrder(jobs'[i])
  BY <1>1, JobsLeft, OrderLeft DEF MergedFirst
<1>5. /\ \A op, m, s : Due(op, m, s)' => Due(op, m, s)
      /\ \A op, m, s : Due(op, m, s) => Due(op, m, s)' \/ Job = Step(op, m, s)
  BY <1>1, DueLeft
<1>6. \A op, m, s : Step(op, m, s).op = op /\ Step(op, m, s).mgr = m /\ Step(op, m, s).sec = s
  BY DEF Step
<1> HIDE DEF Due, Step, Job
<1>7. TypeOK'  BY <1>1, <1>2, <1>4 DEF TypeOK
<1>8. NotYet'  BY <1>1, <1>2, <1>3 DEF NotYet, Early
<1>9. Kept'  BY <1>1, <1>2, <1>3 DEF Kept, Early, Keeps, HeldIn
<1>10. WidgetsShow' /\ PluginsAsConfigured'
  BY <1>1, <1>2 DEF WidgetsShow, Unedited, PluginsAsConfigured, Constructed
<1>11. MergedFirst'
  <2>1. ASSUME NEW m \in Managers, ~Due("merge", m, Own[m])', NEW n \in InSec(Own[m]),
               Default[n] # None
        PROVE  tree'[n] # None
    <3>1. n \in Nodes  BY DEF InSec
    <3>2. CASE ~Due("merge", m, Own[m])
      <4>1. tree[n] # None  BY <1>1, <1>3, <2>1, <3>2 DEF MergedFirst, Early
      <4> QED  BY <3>1, <4>1
    <3>3. CASE Job = Step("merge", m, Own[m])
      <4>1. Job.op = "merge" /\ Job.sec = Own[m]  BY <1>6, <3>3
      <4> QED  BY <2>1, <4>1
    <3> QED  BY <1>5, <2>1, <3>2, <3>3
  <2> QED  BY <1>4, <2>1 DEF MergedFirst
<1>12. \A m \in Managers, n \in Nodes :
          working[<<m, n>>] \in Vals /\ (tree[n] # None => tree[n] \in Vals)
  BY <1>1 DEF TypeOK, Trees
<1>13. ASSUME NEW m \in Managers, NEW n \in Nodes, Follows(m, n) PROVE Follows(m, n)'
  <2>1. CASE tree[n] = None
    <3>1. working'[<<m, n>>] = working[<<m, n>>]  BY <2>1
    <3>2. working[<<m, n>>] = Initial(n)  BY <1>13, <2>1 DEF Follows
    <3>3. tree'[n] = None \/ (tree'[n] # None /\ tree'[n] = Default[n])  BY <2>1
    <3>4. CASE tree'[n] = None  BY <3>1, <3>2, <3>4 DEF Follows
    <3>5. CASE tree'[n] # None /\ tree'[n] = Default[n]
      <4>1. Initial(n) = Default[n] /\ Uses(n, Default[n], Default[n]) = Default[n]
        BY <3>5, InitialIs
      <4> QED  BY <3>1, <3>2, <3>5, <4>1 DEF Follows
    <3> QED  BY <3>3, <3>4, <3>5
  <2>2. CASE tree[n] # None
    <3>1. tree'[n] = tree[n]  BY <2>2
    <3>2. working[<<m, n>>] = Uses(n, tree[n], working[<<m, n>>])  BY <1>13, <2>2 DEF Follows
    <3>3. working'[<<m, n>>] = working[<<m, n>>]  BY <3>2
    <3> QED  BY <2>2, <3>1, <3>2, <3>3 DEF Follows
  <2> QED  BY <2>1, <2>2
<1>14. ASSUME NEW m \in Managers, NEW n \in Nodes,
              Due("apply", m, SecOf[n]), ~Due("apply", m, SecOf[n])'
       PROVE  Heeds(m, n) => Follows(m, n)'
  <2> SUFFICES ASSUME Heeds(m, n) PROVE Follows(m, n)'  OBVIOUS
  <2>1. Job.op = "apply" /\ Job.mgr = m /\ Job.sec = SecOf[n]  BY <1>5, <1>6, <1>14
  <2>2. CASE tree[n] = None  BY <1>1, <1>13, <2>2 DEF Followed
  <2>3. CASE tree[n] # None
    <3>1. n \in InSec(Job.sec)  BY <2>1 DEF InSec
    <3>2. working'[<<m, n>>] = Uses(n, tree[n], working[<<m, n>>])  BY <2>1, <2>3, <3>1
    <3>3. Uses(n, tree[n], working'[<<m, n>>]) = working'[<<m, n>>]
      BY <1>12, <2>3, <3>2, UsesIs
    <3>4. tree'[n] = tree[n]  BY <2>3
    <3> QED  BY <2>3, <3>3, <3>4 DEF Follows
  <2> QED  BY <2>2, <2>3
<1>15. Followed'
  <2>1. \A n : Coming(n)' <=> Coming(n)  BY DEF Coming
  <2>2. ASSUME NEW m \in Managers, NEW n \in Nodes, tree'[n] = None PROVE Follows(m, n)'
    BY <1>1, <1>13, <2>2 DEF Followed
  <2>3. ASSUME NEW m \in Managers, NEW n \in Nodes,
               Heeds(m, n), n \notin missed \cup torn, ~Due("apply", m, SecOf[n])'
        PROVE  Follows(m, n)' \/ Coming(n)'
    <3> HIDE DEF Follows, Coming
    <3>1. CASE Due("apply", m, SecOf[n])  BY <1>14, <2>3, <3>1
    <3>2. CASE ~Due("apply", m, SecOf[n])
      <4>1. Follows(m, n) \/ Coming(n)  BY <1>1, <1>3, <2>3, <3>2 DEF Followed, Early
      <4> QED  BY <1>13, <2>1, <4>1
    <3> QED  BY <3>1, <3>2
  <2> HIDE DEF Follows, Coming
  <2> QED  BY <1>2, <2>2, <2>3 DEF Followed
<1>16. NewsIsTrue'
  <2>1. \A i \in 1..Len(updates) : updates[i].node \in Nodes  BY <1>1, NewsFacts
  <2>2. \A i \in 1..Len(updates) :
           /\ tree[updates[i].node] # None /\ tree'[updates[i].node] # None
           /\ \A m \in updates[i].to : <<m, SecOf[updates[i].node]>> \in listening'
    BY <1>1, <2>1 DEF NewsIsTrue
  <2>3. Last' = Last  BY DEF Last
  <2>4. ASSUME alive, updates # <<>>
        PROVE  /\ tree'[Last.node] = Last.val
               /\ \A i \in 1..Len(updates) :
                     updates[i].node = Last.node => updates[i].to \subseteq Last.to
               /\ Last.node \notin missed => NewsReaches(Last.node, Last.to)'
    <3>1. Last.node \in Nodes /\ tree[Last.node] # None
      <4>1. Len(updates) \in 1..Len(updates)  BY <1>1, <2>4, NewsFacts
      <4> QED  BY <2>1, <2>2, <4>1 DEF Last
    <3>2. PICK n \in Nodes : n = Last.node  BY <3>1
    <3>3. PICK to : to = Last.to  OBVIOUS
    <3>4. /\ tree[n] = Last.val
          /\ \A i \in 1..Len(updates) :
                updates[i].node = Last.node => updates[i].to \subseteq Last.to
          /\ n \notin missed => NewsReaches(n, to)
      BY <1>1, <2>4, <3>2, <3>3 DEF NewsIsTrue
    <3>5. tree'[n] = Last.val  BY <3>1, <3>2, <3>4
    <3>6. ASSUME n \notin missed PROVE NewsReaches(n, to)'
      <4>1. SUFFICES ASSUME NEW m \in Managers, Heeds(m, n)
                     PROVE  m \in to \/ Due("apply", m, SecOf[n])' \/ Follows(m, n)'
        BY DEF NewsReaches, Heeds
      <4>2. m \in to \/ Due("apply", m, SecOf[n]) \/ Follows(m, n)
        BY <3>4, <3>6, <4>1 DEF NewsReaches
      <4> HIDE DEF Follows
      <4> QED  BY <1>13, <1>14, <4>1, <4>2
    <3>7. NewsReaches(Last.node, Last.to)' <=> NewsReaches(n, to)'
      BY <2>3, <3>2, <3>3 DEF NewsReaches
    <3> QED  BY <3>2, <3>4, <3>5, <3>6, <3>7
  <2> HIDE DEF NewsReaches, Last
  <2> QED  BY <1>2, <2>2, <2>3, <2>4 DEF NewsIsTrue
<1> QED  BY <1>7, <1>8, <1>9, <1>10, <1>11, <1>15, <1>16 DEF IInv

LEMMA CreateKeeps ==
    ASSUME IInv, Create
    PROVE  IInv'
<1>1. TypeOK /\ NotYet /\ Kept /\ WidgetsShow /\ PluginsAsConfigured  BY DEF IInv
<1>2. jobs # <<>> /\ Job.op = "create"  BY DEF Create, Has
<1>3. UNCHANGED <<disk, phase, conf, updates, alive, listening, working, plugins, widgets, history>>
  BY DEF Create
<1>4. secs' = secs /\ tree' = tree  BY <1>3 DEF conf
<1>5. CASE JobDone
  <2>1. tree' \in Trees /\ working' \in [Managers \X Nodes -> Vals]
    BY <1>1, <1>3, <1>4 DEF TypeOK
  <2> HIDE DEF Job, JobDone
  <2> QED  BY <1>2, <1>3, <1>4, <1>5, <2>1, JobKeeps
<1>6. CASE jobs' = jobs
  <2>1. UNCHANGED <<wanted, durable, missed, torn, meant, plan>>  BY <1>3 DEF history
  <2>2. phase' \in Early <=> phase \in Early  BY <1>3
  <2>3. phase' \in BeforePuts => phase \in BeforePuts /\ plan' = None
    BY <1>1, <1>3, <2>1 DEF NotYet, BeforePuts
  <2>4. /\ phase' \in {"off", "load", "plugins", "window", "gui", "apply"} \cup Saving
        /\ alive' \in BOOLEAN /\ widgets' \in [Nodes -> Widget \cup {None}]
    BY <1>1, <1>3 DEF TypeOK
  <2>5. writing # None => phase' \in Saving  BY <1>1, <1>3 DEF Kept
  <2>6. WidgetsShow' /\ PluginsAsConfigured'
    BY <1>1, <1>3, <2>1 DEF WidgetsShow, Unedited, PluginsAsConfigured, Constructed
  <2>7. alive' => alive /\ phase' = "apply"
    <3>1. alive' = alive /\ phase' = phase  BY <1>3
    <3> QED  BY <1>1, <3>1 DEF NotYet
  <2> QED  BY <1>3, <1>6, <2>1, <2>2, <2>3, <2>4, <2>5, <2>6, <2>7, MovesOn
<1> QED  BY <1>5, <1>6 DEF Create

LEMMA MergeKeeps ==
    ASSUME IInv, Merge
    PROVE  IInv'
<1>1. TypeOK  BY DEF IInv
<1>2. jobs # <<>> /\ Job.op = "merge" /\ JobDone  BY DEF Merge, Has
<1>3. /\ UNCHANGED <<disk, phase, secs, updates, alive, listening, working, plugins, widgets, history>>
      /\ tree' = [n \in Nodes |->
                    IF SecOf[n] = Job.sec /\ tree[n] = None THEN Default[n] ELSE tree[n]]
  BY DEF Merge
<1> HIDE DEF Job, JobDone
<1>4. /\ tree' \in Trees
      /\ \A n \in Nodes : tree[n] # None => tree'[n] = tree[n]
      /\ \A n \in Nodes : tree[n] = None => tree'[n] \in {None, Default[n]}
      /\ \A n \in InSec(Job.sec) : Default[n] # None => tree'[n] # None
  BY <1>1, <1>3, SettingsAssumption DEF TypeOK, Trees, InSec
<1>5. working' \in [Managers \X Nodes -> Vals]  BY <1>1, <1>3 DEF TypeOK
<1> QED  BY <1>2, <1>3, <1>4, <1>5, JobKeeps

\* Who is told, of which nodes, and who is not.
AreTold(w, ms, ns, vals) ==
    /\ w \in [Managers \X Nodes -> Vals]
    /\ \A m \in Managers, n \in Nodes :
          IF m \in ms /\ n \in ns /\ Heeds(m, n) /\ vals[n] # None
          THEN w[<<m, n>>] = Uses(n, vals[n], working[<<m, n>>])
          ELSE w[<<m, n>>] = working[<<m, n>>]

LEMMA ToldIs ==
    ASSUME TypeOK, NEW ms, NEW ns, NEW vals \in Trees, NEW w, w = Told(ms, ns, vals)
    PROVE  AreTold(w, ms, ns, vals)
<1>1. \A p \in Managers \X Nodes : p[2] \in Nodes /\ p = <<p[1], p[2]>>  OBVIOUS
<1>2. \A n \in Nodes : vals[n] # None => vals[n] \in Vals  BY DEF Trees
<1>3. working \in [Managers \X Nodes -> Vals]  BY DEF TypeOK
<1>4. \A p \in Managers \X Nodes : w[p] =
         IF p[1] \in ms /\ p[2] \in ns /\ Heeds(p[1], p[2]) /\ vals[p[2]] # None
         THEN Uses(p[2], vals[p[2]], working[p]) ELSE working[p]
  BY DEF Told
<1>5. w \in [Managers \X Nodes -> Vals]
  <2>1. \A p \in Managers \X Nodes : w[p] \in Vals
    BY <1>1, <1>2, <1>3, <1>4, UsesIs
  <2> QED  BY <2>1 DEF Told
<1>6. \A m \in Managers, n \in Nodes :
         <<m, n>> \in Managers \X Nodes /\ <<m, n>>[1] = m /\ <<m, n>>[2] = n
  OBVIOUS
<1> QED  BY <1>4, <1>5, <1>6 DEF AreTold

LEMMA ApplyKeeps ==
    ASSUME IInv, Apply
    PROVE  IInv'
<1>1. TypeOK /\ tree \in Trees  BY DEF IInv, TypeOK
<1>2. jobs # <<>> /\ Job.op = "apply" /\ JobDone  BY DEF Apply, Has
<1>3. /\ UNCHANGED <<disk, phase, conf, updates, alive, listening, plugins, widgets, history>>
      /\ working' = Told({Job.mgr}, InSec(Job.sec), tree)
  BY DEF Apply
<1>4. secs' = secs /\ tree' = tree  BY <1>3 DEF conf
<1>5. Job.mgr \in Managers  BY <1>1, <1>2, JobIs DEF JobStep
<1> HIDE DEF Job, JobDone
<1>6. /\ working' \in [Managers \X Nodes -> Vals]
      /\ \A m \in Managers, n \in Nodes :
           IF m \in {Job.mgr} /\ n \in InSec(Job.sec) /\ Heeds(m, n) /\ tree[n] # None
           THEN working'[<<m, n>>] = Uses(n, tree[n], working[<<m, n>>])
           ELSE working'[<<m, n>>] = working[<<m, n>>]
  <2>1. PICK ms, ns, vals, w :
           ms = {Job.mgr} /\ ns = InSec(Job.sec) /\ vals = tree /\ w = working'
    OBVIOUS
  <2>2. vals \in Trees  BY <1>1, <2>1
  <2>3. w = Told(ms, ns, vals)  BY <1>3, <2>1
  <2>4. AreTold(w, ms, ns, vals)  BY <1>1, <2>2, <2>3, ToldIs
  <2> QED  BY <2>1, <2>4 DEF AreTold
<1>7. \A n \in InSec(Job.sec) : tree[n] # None /\ Heeds(Job.mgr, n) =>
         working'[<<Job.mgr, n>>] = Uses(n, tree[n], working[<<Job.mgr, n>>])
  BY <1>5, <1>6 DEF InSec
<1>8. ASSUME NEW m \in Managers, NEW n \in Nodes
      PROVE  \/ working'[<<m, n>>] = working[<<m, n>>]
             \/ tree[n] # None /\ working'[<<m, n>>] = Uses(n, tree[n], working[<<m, n>>])
  <2>1. CASE m \in {Job.mgr} /\ n \in InSec(Job.sec) /\ Heeds(m, n) /\ tree[n] # None
    BY <1>6, <2>1
  <2>2. CASE ~(m \in {Job.mgr} /\ n \in InSec(Job.sec) /\ Heeds(m, n) /\ tree[n] # None)
    BY <1>6, <2>2
  <2> QED  BY <2>1, <2>2
<1> QED  BY <1>1, <1>2, <1>3, <1>4, <1>6, <1>7, <1>8, JobKeeps

LEMMA ConnectKeeps ==
    ASSUME IInv, Connect
    PROVE  IInv'
<1>1. TypeOK  BY DEF IInv
<1>2. jobs # <<>> /\ Job.op = "connect" /\ JobDone  BY DEF Connect, Has
<1>3. /\ UNCHANGED <<disk, phase, conf, updates, alive, working, plugins, widgets, history>>
      /\ listening \subseteq listening'
  BY DEF Connect
<1>4. secs' = secs /\ tree' = tree  BY <1>3 DEF conf
<1>5. tree' \in Trees /\ working' \in [Managers \X Nodes -> Vals]
  BY <1>1, <1>3, <1>4 DEF TypeOK
<1> HIDE DEF Job, JobDone
<1> QED  BY <1>2, <1>3, <1>4, <1>5, JobKeeps

\* What is told of the first news, told live if putNode still waits with it.
LEMMA ToldOfNews ==
    ASSUME IInv, Update
    PROVE  LET u == updates[1]
               live == alive /\ Len(updates) = 1
           IN  /\ working' \in [Managers \X Nodes -> Vals]
               /\ \A m \in Managers, n \in Nodes :
                     n # u.node \/ m \notin u.to => working'[<<m, n>>] = working[<<m, n>>]
               /\ live => \A m \in u.to : Heeds(m, u.node) =>
                  working'[<<m, u.node>>] = Uses(u.node, u.val, working[<<m, u.node>>])
               /\ torn' = IF live THEN torn \ {u.node} ELSE torn \cup {u.node}
<1> DEFINE u == updates[1]
           live == alive /\ Len(updates) = 1
<1>1. TypeOK  BY DEF IInv
<1>2. updates # <<>> /\ updates \in Seq(News)  BY <1>1 DEF Update, TypeOK
<1>3. Head(updates) = u  BY <1>2, HeadTailProperties
<1>4. u \in News /\ u.node \in Nodes /\ u.val \in Vals /\ u.to \subseteq Managers
  <2>1. 1 \in 1..Len(updates)
    <3>1. Len(updates) \in Nat \ {0}  BY <1>2, EmptySeq
    <3> QED  BY <3>1
  <2> QED  BY <1>1, <2>1, NewsFacts
<1>5. /\ \E v \in Vals :
            /\ live => v = u.val
            /\ working' = Told(u.to, {u.node}, [n \in Nodes |-> v])
      /\ torn' = IF live THEN torn \ {u.node} ELSE torn \cup {u.node}
  BY <1>3 DEF Update
<1>6. None \notin Vals  BY SettingsAssumption
<1> HIDE DEF u, live
<1>7. \E ms, ns, vals, w :
         /\ ms = u.to /\ ns = {u.node} /\ w = working' /\ vals \in Trees
         /\ live => vals[u.node] = u.val
         /\ w = Told(ms, ns, vals)
  <2>1. PICK v \in Vals :
           (live => v = u.val) /\ working' = Told(u.to, {u.node}, [n \in Nodes |-> v])
    BY <1>5
  <2>2. [n \in Nodes |-> v] \in Trees /\ (live => [n \in Nodes |-> v][u.node] = u.val)
    BY <1>4, <2>1 DEF Trees
  <2> QED  BY <2>1, <2>2
<1>8. PICK ms, ns, vals, w :
         /\ ms = u.to /\ ns = {u.node} /\ w = working' /\ vals \in Trees
         /\ live => vals[u.node] = u.val
         /\ w = Told(ms, ns, vals)
  BY <1>7
<1>9. vals \in Trees /\ w = Told(ms, ns, vals)  BY <1>8
<1>10. AreTold(w, ms, ns, vals)  BY <1>1, <1>9, ToldIs
<1>11. /\ w \in [Managers \X Nodes -> Vals]
       /\ \A m \in Managers, n \in Nodes :
             IF m \in ms /\ n \in ns /\ Heeds(m, n) /\ vals[n] # None
             THEN w[<<m, n>>] = Uses(n, vals[n], working[<<m, n>>])
             ELSE w[<<m, n>>] = working[<<m, n>>]
  BY <1>10 DEF AreTold
<1>13. \A m \in Managers, n \in Nodes :
          n # u.node \/ m \notin u.to => working'[<<m, n>>] = working[<<m, n>>]
  BY <1>8, <1>11
<1>14. live => \A m \in u.to : Heeds(m, u.node) =>
                  working'[<<m, u.node>>] = Uses(u.node, u.val, working[<<m, u.node>>])
  BY <1>4, <1>6, <1>8, <1>11
<1> QED  BY <1>5, <1>8, <1>11, <1>13, <1>14 DEF u, live

\* The first of the news is told; what is garbled is torn from then on.
LEMMA UpdateKeeps ==
    ASSUME IInv, Update
    PROVE  IInv'
<1>1. TypeOK /\ NotYet /\ Kept /\ WidgetsShow /\ MergedFirst /\ Followed /\ NewsIsTrue
      /\ PluginsAsConfigured
  BY DEF IInv
<1>2. /\ jobs = <<>> /\ updates # <<>> /\ updates' = Tail(updates)
      /\ UNCHANGED <<file, writing, phase, secs, tree, jobs, alive, listening, plugins, widgets,
                     wanted, durable, missed, meant, plan>>
  BY DEF Update, disk, conf
<1> DEFINE u == updates[1]
           live == alive /\ Len(updates) = 1
<1>3. /\ working' \in [Managers \X Nodes -> Vals]
      /\ \A m \in Managers, n \in Nodes :
            n # u.node \/ m \notin u.to => working'[<<m, n>>] = working[<<m, n>>]
      /\ live => \A m \in u.to : Heeds(m, u.node) =>
                  working'[<<m, u.node>>] = Uses(u.node, u.val, working[<<m, u.node>>])
      /\ torn' = IF live THEN torn \ {u.node} ELSE torn \cup {u.node}
  BY ToldOfNews
<1>4. updates \in Seq(News) /\ Len(updates) \in Nat \ {0}
  BY <1>1, <1>2, EmptySeq DEF TypeOK
<1>5. /\ updates' \in Seq(News) /\ Len(updates') = Len(updates) - 1
      /\ \A i \in 1..Len(updates') : updates'[i] = updates[i + 1]
  BY <1>2, <1>4, HeadTailProperties
<1>6. \A i \in 1..Len(updates') : i + 1 \in 1..Len(updates)  BY <1>4, <1>5
<1>7. \A i \in 2..Len(updates) : i - 1 \in 1..Len(updates') /\ updates'[i - 1] = updates[i]
  <2>1. ASSUME NEW i \in 2..Len(updates)
        PROVE  i - 1 \in 1..Len(updates') /\ (i - 1) + 1 = i
    BY <1>4, <1>5
  <2> QED  BY <1>5, <2>1
<1>8. phase \notin {"off", "load", "startSave", "plugins"}  BY <1>1, <1>2 DEF NotYet
<1>9. 1 \in 1..Len(updates) /\ \A i \in 1..Len(updates) : i = 1 \/ i \in 2..Len(updates)
  BY <1>4
<1>10. u.node \in Nodes /\ u.to \subseteq Managers /\ tree[u.node] # None
  <2>1. u.node \in Nodes /\ u.to \subseteq Managers  BY <1>1, <1>9, NewsFacts
  <2>2. tree[u.node] # None  BY <1>1, <1>9 DEF NewsIsTrue
  <2> QED  BY <2>1, <2>2
<1>11. \A op, m, s : ~Due(op, m, s)
  <2>1. Len(jobs) = 0  BY <1>2
  <2> QED  BY <2>1 DEF Due
<1>12. \A op, m, s : Due(op, m, s)' <=> Due(op, m, s)  BY <1>2 DEF Due, Step
<1>13. \A m \in Managers, n \in Nodes :
          working[<<m, n>>] \in Vals /\ (tree[n] # None => tree[n] \in Vals)
  BY <1>1 DEF TypeOK, Trees
<1>14. live => Last = u  BY DEF Last
<1>15. live => tree[u.node] = u.val /\ (u.node \notin missed => NewsReaches(u.node, u.to))
  <2>1. live => alive  OBVIOUS
  <2> HIDE DEF live, u, NewsReaches, Last
  <2> QED  BY <1>1, <1>2, <1>14, <2>1 DEF NewsIsTrue
<1> HIDE DEF u, live, Due
<1>20. TypeOK'  BY <1>1, <1>2, <1>3, <1>5 DEF TypeOK
<1>21. NotYet'  BY <1>1, <1>2, <1>8 DEF NotYet
<1>22. Kept'  BY <1>1, <1>2 DEF Kept, HeldIn, Keeps
<1>23. WidgetsShow' /\ PluginsAsConfigured'
  BY <1>1, <1>2 DEF WidgetsShow, Unedited, PluginsAsConfigured, Constructed
<1>24. MergedFirst'  BY <1>1, <1>2, <1>12 DEF MergedFirst
<1>25. ASSUME NEW m \in Managers, NEW n \in Nodes, Follows(m, n), n # u.node \/ m \notin u.to
       PROVE  Follows(m, n)'
  BY <1>2, <1>3, <1>25 DEF Follows
<1>26. Followed'
  <2>1. ASSUME NEW m \in Managers, NEW n \in Nodes, tree'[n] = None PROVE Follows(m, n)'
    <3>1. tree[n] = None /\ n # u.node  BY <1>2, <1>10, <2>1
    <3> QED  BY <1>1, <1>25, <3>1 DEF Followed
  <2>2. ASSUME NEW m \in Managers, NEW n \in Nodes,
               Heeds(m, n), n \notin missed, n \notin torn'
        PROVE  Follows(m, n)' \/ Coming(n)'
    <3>1. CASE n = u.node
      <4>1. live  BY <1>3, <2>2, <3>1
      <4>2. NewsReaches(n, u.to)  BY <1>15, <2>2, <3>1, <4>1
      <4>3. m \in u.to \/ Follows(m, n)  BY <1>11, <2>2, <4>2 DEF NewsReaches
      <4>4. CASE m \in u.to
        <5>1. working'[<<m, n>>] = Uses(n, tree[n], working[<<m, n>>])
          BY <1>3, <1>15, <2>2, <3>1, <4>1, <4>4
        <5>2. Uses(n, tree[n], working'[<<m, n>>]) = working'[<<m, n>>]
          BY <1>10, <1>13, <3>1, <5>1, UsesIs
        <5> QED  BY <1>2, <1>10, <3>1, <5>2 DEF Follows
      <4>5. CASE m \notin u.to  BY <1>25, <4>3, <4>5
      <4> QED  BY <4>4, <4>5
    <3>2. CASE n # u.node
      <4>1. n \notin torn  BY <1>3, <2>2, <3>2
      <4>2. Follows(m, n) \/ Coming(n)  BY <1>1, <1>8, <1>11, <2>2, <4>1 DEF Followed
      <4>3. ASSUME Coming(n) PROVE Coming(n)'
        <5>1. PICK i \in 1..Len(updates) : updates[i].node = n  BY <4>3 DEF Coming
        <5>2. i \in 2..Len(updates)  BY <1>9, <3>2, <5>1 DEF u
        <5>3. i - 1 \in 1..Len(updates') /\ updates'[i - 1].node = n  BY <1>7, <5>1, <5>2
        <5> QED  BY <5>3 DEF Coming
      <4> QED  BY <1>25, <3>2, <4>2, <4>3
    <3> QED  BY <3>1, <3>2
  <2> HIDE DEF Follows, Coming
  <2> QED  BY <1>2, <2>1, <2>2 DEF Followed
<1>27. NewsIsTrue'
  <2>1. \A i \in 1..Len(updates') :
           /\ tree[updates'[i].node] # None
           /\ \A m \in updates'[i].to : <<m, SecOf[updates'[i].node]>> \in listening
    BY <1>1, <1>5, <1>6 DEF NewsIsTrue
  <2>2. ASSUME alive, updates' # <<>>
        PROVE  /\ tree[Last'.node] = Last'.val
               /\ \A i \in 1..Len(updates') :
                     updates'[i].node = Last'.node => updates'[i].to \subseteq Last'.to
               /\ Last'.node \notin missed => NewsReaches(Last.node, Last.to)'
    <3>1. Len(updates) \in 2..Len(updates) /\ Len(updates') = Len(updates) - 1
      <4>1. Len(updates') \in Nat \ {0}  BY <1>5, <2>2, EmptySeq
      <4> QED  BY <1>4, <1>5, <4>1
    <3>2. Last' = Last  BY <1>7, <3>1 DEF Last
    <3>3. PICK n, to : n = Last.node /\ to = Last.to  OBVIOUS
    <3>4. n \in Nodes
      <4>1. Len(updates) \in 1..Len(updates)  BY <1>4
      <4> QED  BY <1>1, <3>3, <4>1, NewsFacts DEF Last
    <3>5. /\ tree[n] = Last.val
          /\ \A i \in 1..Len(updates) : updates[i].node = n => updates[i].to \subseteq to
          /\ n \notin missed => NewsReaches(n, to)
      BY <1>1, <1>2, <2>2, <3>3 DEF NewsIsTrue
    <3>6. ASSUME n \notin missed PROVE NewsReaches(n, to)'
      <4>1. SUFFICES ASSUME NEW m \in Managers, Heeds(m, n)
                     PROVE  m \in to \/ Follows(m, n)'
        BY DEF NewsReaches, Heeds
      <4>2. m \in to \/ Follows(m, n)
        BY <1>11, <3>5, <3>6, <4>1 DEF NewsReaches
      <4>3. u.node = n => u.to \subseteq to  BY <1>9, <3>5 DEF u
      <4> HIDE DEF Follows
      <4> QED  BY <1>25, <3>4, <4>2, <4>3
    <3>7. NewsReaches(Last.node, Last.to)' <=> NewsReaches(n, to)'
      BY <3>2, <3>3 DEF NewsReaches
    <3>8. \A i \in 1..Len(updates') :
             updates'[i].node = n => updates'[i].to \subseteq to
      BY <1>5, <1>6, <3>5
    <3> QED  BY <3>2, <3>3, <3>5, <3>6, <3>7, <3>8
  <2> HIDE DEF NewsReaches, Last
  <2> QED  BY <1>2, <2>1, <2>2 DEF NewsIsTrue
<1> QED  BY <1>20, <1>21, <1>22, <1>23, <1>24, <1>26, <1>27 DEF IInv

-----------------------------------------------------------------------------
(* The dialog's Apply *)

\* A widget that is modified puts what it shows.
LEMMA PutNodeKeeps ==
    ASSUME IInv, NEW n \in Nodes, PutNode(n)
    PROVE  IInv'
<1>1. TypeOK /\ NotYet /\ Kept /\ WidgetsShow /\ MergedFirst /\ Followed /\ NewsIsTrue
      /\ PluginsAsConfigured
  BY DEF IInv
<1> DEFINE v == widgets[n].shown
           to == {m \in Managers : <<m, SecOf[n]>> \in listening}
           u == [node |-> n, val |-> v, to |-> to]
<1>2. /\ phase = "apply" /\ phase' = phase /\ ~alive /\ alive' = TRUE
      /\ UNCHANGED <<file, writing, secs, jobs, listening, working, plugins, durable, torn, plan>>
  BY DEF PutNode, disk
<1>3. /\ widgets' = [widgets EXCEPT ![n] = Applying(@)]
      /\ tree' = [tree EXCEPT ![n] = v]
      /\ updates' = Append(updates, u)
      /\ wanted' = [wanted EXCEPT ![n] = v]
      /\ missed' = IF \E m \in Managers \ to : Heeds(m, n) /\ Applied(m, SecOf[n])
                   THEN missed \cup {n} ELSE missed \ {n}
      /\ meant' = meant \ {n}
  BY DEF PutNode
<1>4. widgets[n] \in Widget /\ v \in Vals
  <2>1. widgets[n] # None  BY DEF PutNode, Modified
  <2>2. widgets[n] \in Widget  BY <1>1, <2>1 DEF TypeOK
  <2> QED  BY <2>2 DEF Widget
<1>5. None \notin Vals  BY SettingsAssumption
<1>6. u \in News /\ u.node = n /\ u.val = v /\ u.to = to  BY <1>4 DEF News
<1>7. /\ widgets'[n] \in Widget /\ widgets'[n].shown = v /\ widgets'[n].reset = v
      /\ ~widgets'[n].touched
      /\ \A k \in Nodes : k # n => widgets'[k] = widgets[k]
      /\ widgets' \in [Nodes -> Widget \cup {None}]
  <2>1. widgets \in [Nodes -> Widget \cup {None}]  BY <1>1 DEF TypeOK
  <2>2. Applying(widgets[n]) \in Widget /\ Applying(widgets[n]).shown = v
        /\ Applying(widgets[n]).reset = v /\ ~Applying(widgets[n]).touched
    BY <1>4 DEF Applying, Widget
  <2> HIDE DEF Applying, v
  <2> QED  BY <1>3, <2>1, <2>2
<1>8. /\ tree' \in Trees /\ tree'[n] = v /\ \A k \in Nodes : k # n => tree'[k] = tree[k]
      /\ wanted' \in Trees /\ wanted'[n] = v /\ \A k \in Nodes : k # n => wanted'[k] = wanted[k]
  <2>1. tree \in Trees /\ wanted \in Trees  BY <1>1 DEF TypeOK
  <2> HIDE DEF v
  <2> QED  BY <1>3, <1>4, <2>1 DEF Trees
<1> HIDE DEF u
<1>9. updates \in Seq(News) /\ Len(updates) \in Nat  BY <1>1, LenProperties DEF TypeOK
<1>10. /\ updates' \in Seq(News) /\ Len(updates') = Len(updates) + 1
       /\ \A i \in 1..Len(updates) : updates'[i] = updates[i]
       /\ updates'[Len(updates) + 1] = u
  BY <1>3, <1>6, <1>9, AppendProperties
<1>11. \A i \in 1..Len(updates') : i \in 1..Len(updates) \/ i = Len(updates) + 1
  BY <1>9, <1>10
<1>12. /\ Len(updates) + 1 \in 1..Len(updates')
       /\ \A i \in 1..Len(updates) : i \in 1..Len(updates')
  BY <1>9, <1>10
<1>13. \A op, m, s : Due(op, m, s)' <=> Due(op, m, s)  BY <1>2 DEF Due, Step
<1> HIDE DEF v, to, Due
<1>20. TypeOK'  BY <1>1, <1>2, <1>7, <1>8, <1>10 DEF TypeOK
<1>21. NotYet'  BY <1>1, <1>2 DEF NotYet
<1>22. Kept'
  <2>1. writing = None  BY <1>1, <1>2 DEF Kept, Saving
  <2>2. Keeps(tree, wanted)  BY <1>1, <1>2 DEF Kept
  <2>3. \A k \in Nodes : wanted'[k] # None => tree'[k] = wanted'[k]
    BY <1>8, <2>2 DEF Keeps
  <2>4. file # Broken => HeldIn(file, durable)  BY <1>1 DEF Kept
  <2> HIDE DEF HeldIn
  <2> QED  BY <1>2, <2>1, <2>3, <2>4 DEF Kept, Keeps, HeldIn
<1>23. WidgetsShow'
  <2>1. SUFFICES ASSUME NEW k \in Nodes, widgets'[k] # None
                 PROVE  /\ Shown[widgets'[k].shown] = widgets'[k].shown
                        /\ k \notin meant' => Unedited(k)' /\ (k \in Flagged => ~widgets'[k].touched)
                        /\ k \in Flagged /\ ~widgets'[k].touched => Unedited(k)'
    BY DEF WidgetsShow
  <2>2. CASE k = n
    <3>1. widgets[n] # None  BY DEF PutNode, Modified
    <3>2. Shown[v] = v  BY <1>1, <3>1 DEF WidgetsShow, v
    <3> QED  BY <1>7, <2>2, <3>2 DEF Unedited
  <2>3. CASE k # n
    <3>1. widgets'[k] = widgets[k] /\ (k \in meant' <=> k \in meant)  BY <1>3, <1>7, <2>3
    <3>2. Unedited(k)' <=> Unedited(k)  BY <3>1 DEF Unedited
    <3>3. /\ Shown[widgets[k].shown] = widgets[k].shown
          /\ k \notin meant => Unedited(k) /\ (k \in Flagged => ~widgets[k].touched)
          /\ k \in Flagged /\ ~widgets[k].touched => Unedited(k)
      BY <1>1, <2>1, <3>1 DEF WidgetsShow
    <3> QED  BY <3>1, <3>2, <3>3
  <2> QED  BY <2>2, <2>3
<1>24. \A k \in Nodes : tree[k] # None => tree'[k] # None
  BY <1>4, <1>5, <1>8
<1>25. MergedFirst'
  <2>1. \A m : InSec(Own[m]) \subseteq Nodes  BY DEF InSec
  <2> QED  BY <1>1, <1>2, <1>13, <1>24, <2>1 DEF MergedFirst
<1>26. ASSUME NEW m \in Managers, NEW k \in Nodes, k # n
       PROVE  Follows(m, k)' <=> Follows(m, k)
  BY <1>2, <1>8, <1>26 DEF Follows
<1>27. Followed'
  <2>1. ASSUME NEW m \in Managers, NEW k \in Nodes, tree'[k] = None PROVE Follows(m, k)'
    <3>1. k # n /\ tree[k] = None  BY <1>4, <1>5, <1>8, <2>1
    <3> QED  BY <1>1, <1>26, <3>1 DEF Followed
  <2>2. ASSUME NEW m \in Managers, NEW k \in Nodes,
               Heeds(m, k), k \notin missed' \cup torn, ~Due("apply", m, SecOf[k])
        PROVE  Follows(m, k)' \/ Coming(k)'
    <3>1. CASE k = n
      <4>1. updates'[Len(updates) + 1].node = n  BY <1>6, <1>10
      <4> QED  BY <1>12, <3>1, <4>1 DEF Coming
    <3>2. CASE k # n
      <4>1. k \notin missed \cup torn  BY <1>3, <2>2, <3>2
      <4>2. Follows(m, k) \/ Coming(k)  BY <1>1, <1>2, <2>2, <4>1 DEF Followed
      <4>3. ASSUME Coming(k) PROVE Coming(k)'
        <5>1. PICK i \in 1..Len(updates) : updates[i].node = k  BY <4>3 DEF Coming
        <5>2. i \in 1..Len(updates') /\ updates'[i].node = k  BY <1>10, <1>12, <5>1
        <5> QED  BY <5>2 DEF Coming
      <4> QED  BY <1>26, <3>2, <4>2, <4>3
    <3> QED  BY <3>1, <3>2
  <2> HIDE DEF Follows, Coming
  <2> QED  BY <1>2, <1>13, <2>1, <2>2 DEF Followed
<1>28. NewsIsTrue'
  <2>1. Last' = u /\ updates' # <<>>
    <3>1. Last' = u  BY <1>10 DEF Last
    <3>2. Len(updates') # 0  BY <1>9, <1>10
    <3> QED  BY <3>1, <3>2, EmptySeq
  <2>2. ASSUME NEW i \in 1..Len(updates')
        PROVE  /\ tree'[updates'[i].node] # None
               /\ \A m \in updates'[i].to : <<m, SecOf[updates'[i].node]>> \in listening
               /\ updates'[i].node = n => updates'[i].to \subseteq to
    <3>1. CASE i \in 1..Len(updates)
      <4>1. updates'[i] = updates[i]  BY <1>10, <3>1
      <4>2. updates[i].node \in Nodes /\ updates[i].to \subseteq Managers
        BY <1>1, <3>1, NewsFacts
      <4>3. /\ tree[updates[i].node] # None
            /\ \A m \in updates[i].to : <<m, SecOf[updates[i].node]>> \in listening
        BY <1>1, <3>1 DEF NewsIsTrue
      <4> QED  BY <1>24, <4>1, <4>2, <4>3 DEF to
    <3>2. CASE i = Len(updates) + 1
      <4>1. updates'[i] = u  BY <1>10, <3>2
      <4>2. tree'[n] # None  BY <1>4, <1>5, <1>8
      <4>3. \A m \in to : <<m, SecOf[n]>> \in listening  BY DEF to
      <4> QED  BY <1>6, <4>1, <4>2, <4>3
    <3> QED  BY <1>11, <3>1, <3>2
  <2>3. ASSUME n \notin missed' PROVE NewsReaches(n, to)'
    <3>1. SUFFICES ASSUME NEW m \in Managers, Heeds(m, n), m \notin to
                   PROVE  Due("apply", m, SecOf[n])
      BY <1>2, <1>13 DEF NewsReaches, Heeds, to
    <3>2. ~Applied(m, SecOf[n])  BY <1>3, <2>3, <3>1
    <3> QED  BY <1>1, <3>2, AppliedIsNotDue
  <2>4. NewsReaches(Last.node, Last.to)' <=> NewsReaches(n, to)'
    BY <1>2, <1>6, <2>1 DEF NewsReaches, to
  <2>5. tree'[Last'.node] = Last'.val  BY <1>6, <1>8, <2>1
  <2> HIDE DEF NewsReaches, Last
  <2> QED  BY <1>2, <1>6, <2>1, <2>2, <2>3, <2>4, <2>5 DEF NewsIsTrue
<1>29. PluginsAsConfigured'  BY <1>1, <1>2 DEF PluginsAsConfigured, Constructed
<1> QED  BY <1>20, <1>21, <1>22, <1>23, <1>25, <1>27, <1>28, <1>29 DEF IInv

-----------------------------------------------------------------------------
(* The theorems *)

LEMMA InitIsIInv == Init => IInv
<1> SUFFICES ASSUME Init PROVE IInv  OBVIOUS
<1>1. NoTree \in Trees /\ \A n \in Nodes : NoTree[n] = None  BY DEF NoTree, Trees
<1>2. Len(<<>>) = 0 /\ \A i \in 1..0 : FALSE  OBVIOUS
<1>3. Defaults \in [Managers \X Nodes -> Vals]
      /\ \A m \in Managers, n \in Nodes : Defaults[<<m, n>>] = Initial(n)
  BY InitialIs DEF Defaults
<1>4. /\ file \in Files /\ writing = None /\ phase = "off" /\ secs = {} /\ tree = NoTree
      /\ jobs = <<>> /\ updates = <<>> /\ alive = FALSE /\ working = Defaults
      /\ widgets = NoTree /\ wanted = NoTree /\ durable = NoTree
      /\ missed = {} /\ torn = {} /\ plan = None
  BY DEF Init
<1>5. TypeOK
  <2>1. jobs \in Seq(Seq(JobStep)) /\ \A i \in 1..Len(jobs) : jobs[i] # <<>>  BY <1>2, <1>4
  <2>2. updates \in Seq(News)  BY <1>4
  <2>3. widgets \in [Nodes -> Widget \cup {None}]  BY <1>4 DEF NoTree
  <2>4. file \in Readable \cup {Missing, Broken}  BY <1>4, SettingsAssumption
  <2> QED  BY <1>1, <1>3, <1>4, <2>1, <2>2, <2>3, <2>4 DEF TypeOK
<1>6. NotYet  BY <1>4 DEF NotYet
<1>7. Kept
  <2>1. HeldIn(file, NoTree)  BY <1>1 DEF HeldIn, Keeps
  <2> HIDE DEF HeldIn
  <2> QED  BY <1>4, <2>1 DEF Kept
<1>8. WidgetsShow  BY <1>1, <1>4 DEF WidgetsShow
<1>9. MergedFirst  BY <1>2, <1>4 DEF MergedFirst
<1>10. Followed  BY <1>1, <1>3, <1>4 DEF Followed, Follows, Defaults
<1>11. NewsIsTrue  BY <1>2, <1>4 DEF NewsIsTrue
<1>12. PluginsAsConfigured  BY <1>4 DEF PluginsAsConfigured
<1> QED  BY <1>5, <1>6, <1>7, <1>8, <1>9, <1>10, <1>11, <1>12 DEF IInv

LEMMA NextKeeps == IInv /\ [Next]_vars => IInv'
<1> SUFFICES ASSUME IInv, [Next]_vars PROVE IInv'  OBVIOUS
<1>1. NotYet  BY DEF IInv
<1>2. CASE Start
  <2>1. ~alive  BY <1>1, <1>2 DEF NotYet, Start
  <2> QED  BY <1>2, <2>1, OnlyMovesOn DEF Start
<1>3. CASE ApplyButton
  <2>1. ~alive  BY <1>1, <1>3 DEF NotYet, ApplyButton
  <2> QED  BY <1>3, <2>1, OnlyMovesOn DEF ApplyButton
<1>4. CASE Quit
  <2>1. ~alive  BY <1>1, <1>4 DEF NotYet, Quit
  <2> QED  BY <1>4, <2>1, OnlyMovesOn DEF Quit
<1>5. CASE AllApplied  BY <1>5, OnlyMovesOn DEF AllApplied
<1>6. CASE PutReturns  BY <1>6, OnlyMovesOn DEF PutReturns
<1>7. CASE UNCHANGED vars
  BY <1>7, OnlyMovesOn DEF vars, disk, conf, signal, history
<1>8. CASE MainThread
  BY <1>5, <1>6, <1>8, LoadConfigKeeps, SaveBeginKeeps, SaveEndKeeps, ExitEndKeeps,
     LoadPluginsKeeps, LoadPluginsThrowsKeeps, BuildDialogKeeps, PutNodeKeeps
  DEF MainThread
<1>9. CASE SignalThread
  BY <1>9, CreateKeeps, MergeKeeps, ApplyKeeps, ConnectKeeps, UpdateKeeps DEF SignalThread
<1>10. CASE User
  BY <1>2, <1>3, <1>4, <1>10, ResetButtonKeeps, EditKeeps DEF User
<1> QED  BY <1>7, <1>8, <1>9, <1>10, CrashKeeps DEF Next

\* Whatever starts, edits, saves and crashes, the file, the tree, the slots
\* and the news on the signal thread, the managers and the dialog stay in step
\* with each other.
THEOREM IInvHolds == Spec => []IInv
<1>1. Init => IInv  BY InitIsIInv
<1>2. IInv /\ [Next]_vars => IInv'  BY NextKeeps
<1> QED  BY <1>1, <1>2, PTL DEF Spec

\* Once the signal thread is done each manager works with what its slot makes of
\* what the tree says (plugin.cpp:137-162, player.cpp:202-214), empty lists and
\* values of the wrong type included, but for nodes whose last update was lost or
\* garbled (config.cpp:528).
THEOREM ManagersFollow == Spec => []WorkingFollowsTree
<1>1. IInv => WorkingFollowsTree
  <2> SUFFICES ASSUME IInv, phase = "gui", Quiet,
                      NEW m \in Managers, NEW n \in Nodes,
                      Heeds(m, n), n \notin missed \cup torn
               PROVE  Follows(m, n)
    BY DEF WorkingFollowsTree, Follows
  <2>1. Followed  BY DEF IInv
  <2>2. Len(jobs) = 0 /\ Len(updates) = 0  BY DEF Quiet
  <2>3. ~Coming(n) /\ \A op, k, s : ~Due(op, k, s)  BY <2>2 DEF Coming, Due
  <2> QED  BY <2>1, <2>3 DEF Followed
<1> QED  BY <1>1, IInvHolds, PTL

\* What the user applied and saved is in the tree in this run and the next,
\* whatever crashes come between (config.cpp:220-237).
THEOREM AppliedSurvives == Spec => []SettingsSurvive
<1>1. IInv => SettingsSurvive  BY DEF IInv, Kept, Keeps, SettingsSurvive
<1> QED  BY <1>1, IInvHolds, PTL

\* Plugins loaded after the settings were applied (plugin.cpp:200) are those that
\* the settings name as the user last saved them, whatever starts and crashes came
\* between, with the default for no search paths and what is left of a list that is
\* none (plugin.cpp:137-162).
THEOREM PluginsConfigured == Spec => []PluginsAsConfigured
<1>1. IInv => PluginsAsConfigured  BY DEF IInv
<1> QED  BY <1>1, IInvHolds, PTL

\* Ok and Apply write only nodes the user edited since the last Apply, Reset
\* or Cancel, and numbers a widget cannot show (configmanager.cpp:247, 297).
THEOREM EditsApplied == Spec => OnlyEditsAreApplied
<1> DEFINE A == \A n \in Nodes : (wanted'[n] # wanted[n] /\ phase' # "off") =>
                   n \in meant \/ Shown[widgets[n].reset] # widgets[n].reset
<1>1. IInv /\ [Next]_vars => A
  <2> SUFFICES ASSUME IInv, [Next]_vars PROVE A  OBVIOUS
  <2>1. TypeOK /\ WidgetsShow  BY DEF IInv
  <2>2. \/ wanted' = wanted
        \/ phase' = "off"
        \/ \E k \in Nodes : PutNode(k)
    BY DEF Next, vars, MainThread, SignalThread, User, Crash, Gone, Start, LoadConfig,
       SaveBegin, SaveEnd, ExitEnd, LoadPlugins, LoadPluginsThrows, Create, Merge, Apply,
       Connect, Update, BuildDialog, Edit, ResetButton, ApplyButton, PutReturns,
       AllApplied, Quit, history
  <2>3. ASSUME NEW k \in Nodes, PutNode(k),
               NEW n \in Nodes, wanted'[n] # wanted[n], n \notin meant
        PROVE  Shown[widgets[n].reset] # widgets[n].reset
    <3>1. wanted' = [wanted EXCEPT ![k] = widgets[k].shown] /\ Modified(k)
      BY <2>3 DEF PutNode
    <3>2. n = k  BY <2>1, <2>3, <3>1 DEF TypeOK, Trees
    <3>3. widgets[n] # None /\ Modified(n)  BY <3>1, <3>2 DEF Modified
    <3>4. Unedited(n) /\ (n \in Flagged => ~widgets[n].touched)
      BY <2>1, <2>3, <3>3 DEF WidgetsShow
    <3> QED  BY <3>3, <3>4 DEF Modified, Unedited
  <2> QED  BY <2>2, <2>3
<1> QED  BY <1>1, IInvHolds, PTL DEF Spec, OnlyEditsAreApplied
=============================================================================
