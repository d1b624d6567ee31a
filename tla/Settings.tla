------------------------------ MODULE Settings ------------------------------
(***************************************************************************)
(* The configuration tree and everyone who lives on it: the file it is     *)
(* loaded from and saved to (melin/config.cpp), the managers that create,  *)
(* merge and apply their sections on the signal thread, the plugins loaded *)
(* by what was applied so far (melin/plugin.cpp), and the dialog that      *)
(* edits it (gui/configmanager.cpp).  The main thread starts, shows the    *)
(* dialog and exits; it may crash at any step, also inside a save, which   *)
(* writes in place.                                                        *)
(***************************************************************************)
EXTENDS Naturals, Sequences, FiniteSets

CONSTANTS
    Secs,       \* sections, the children of the root
    Nodes,      \* the nodes of all sections
    SecOf,      \* node -> its section
    Mgrs,       \* the managers, in the order they connected to "loaded"
    Own,        \* manager -> the section it creates and merges
    Also,       \* manager -> a further section it listens to, or NoSec
    Keys,       \* manager -> the nodes its variableUpdateSlot knows
    Default,    \* node -> the value its manager puts in its own section, or None
    Vals, None, NoSec,
    Fits,       \* node -> the values of the type its managers read
    Nothing,    \* the empty list
    Strings,    \* value -> the strings of a list up to the first that is none;
                \* of what is no list, Nothing
    Shown,      \* value -> what its widget shows for it
    Widgets,    \* the values that one kind of widget can hold, for each kind
    Flagged,    \* nodes of widgets that keep a modified flag
    Paths, Barred, PluginMgr,   \* the plugin manager and its two nodes
    Found,      \* search paths -> the plugins found there
    Bars,       \* blacklist -> the plugins it matches
    Info,       \* plugin -> [current, decoder, typed]: made for this interface, a
                \* decoder, and with a provider of the type expected
    Malformed,  \* blacklists that are no regular expression
    Unreadable, \* search paths with a directory that cannot be read to its end
    Files,      \* what the file may hold at first
    Missing, Broken,    \* no file, and one that cannot be parsed
    MaxStarts, MaxEdits     \* bounds

Trees == [Nodes -> Vals \cup {None}]
Readable == [secs : SUBSET Secs, nodes : Trees]

Managers == {Mgrs[i] : i \in DOMAIN Mgrs}
InSec(s) == {n \in Nodes : SecOf[n] = s}

\* A manager's further section is the own one of some manager, and it knows nodes
\* of its sections only; what a manager defaults to is of the type it reads, and
\* the search paths default to a directory; what a widget shows it can show; and
\* a tree can be told from no tree.
ASSUME SettingsAssumption ==
    /\ SecOf \in [Nodes -> Secs]
    /\ Mgrs \in Seq(Managers)
    /\ \A m \in Managers :
          Own[m] \in Secs /\ Also[m] \in {Own[k] : k \in Managers} \cup {NoSec}
    /\ \A m \in Managers : Keys[m] \subseteq InSec(Own[m]) \cup InSec(Also[m])
    /\ PluginMgr \in Managers /\ {Paths, Barred} \subseteq InSec(Own[PluginMgr])
    /\ {Paths, Barred} \subseteq Keys[PluginMgr]
    /\ Nothing \in Vals /\ Strings \in [Vals -> Vals] /\ Strings[Nothing] = Nothing
    /\ Default \in [Nodes -> Vals \cup {None}] /\ Default[Barred] = None
    /\ Default[Paths] \notin {None, Nothing} /\ Strings[Default[Paths]] = Default[Paths]
    /\ Shown \in [Vals -> Vals] /\ \A v \in Vals : Shown[Shown[v]] = Shown[v]
    /\ None \notin Vals /\ NoSec \notin Secs
    /\ Files \subseteq Readable \cup {Missing, Broken}
    /\ Missing \notin Readable /\ Broken \notin Readable
    /\ {MaxStarts, MaxEdits} \subseteq Nat

VARIABLES
    file,       \* the configuration file
    writing,    \* what saveConfig is writing, or None
    phase,      \* where the main thread is
    secs, tree, \* the sections and the nodes
    jobs,       \* the slots of "loaded" yet to run, each what it has yet to do
    updates,    \* variableUpdated calls on the signal thread's queue
    alive,      \* whether putNode of the last update has yet to return
    listening,  \* <<manager, section>> connected to variableUpdated
    working,    \* <<manager, node>> -> the value the manager works with
    hung,       \* the signal thread waits for itself in createChild
    plugins,    \* the plugins loaded
    widgets,    \* node -> its widget in the dialog, or None
    starts, edits,
    wanted, durable,    \* history: what the user applied, and saved
    missed, torn,       \* history: nodes whose last update was lost or garbled
    meant,              \* history: nodes edited since the last Apply or Reset
    plan                \* history: the tree when the plugins were loaded, or None

vars == <<file, writing, phase, secs, tree, jobs, updates, alive, listening, working, hung,
          plugins, widgets, starts, edits, wanted, durable, missed, torn, meant, plan>>
disk == <<file, writing>>
conf == <<secs, tree>>
signal == <<jobs, updates, listening, working, hung>>
counts == <<starts, edits>>
history == <<wanted, durable, missed, torn, meant, plan>>

-----------------------------------------------------------------------------
Heeds(m, n) == n \in Keys[m]
NoTree == [n \in Nodes |-> None]

\* What a manager works with before it is told anything: what it puts in its
\* section, or, of the blacklist, which it does not put there, nothing.
Initial(n) == IF Default[n] = None THEN Nothing ELSE Default[n]
Defaults == [p \in Managers \X Nodes |-> Initial(p[2])]

\* What the slots of "loaded" do for one manager; they run one after the other.
Step(op, m, s) == [op |-> op, mgr |-> m, sec |-> s]
LoadedSlot(m) ==
    <<Step("create", m, Own[m]), Step("merge", m, Own[m]),
      Step("apply", m, Own[m]), Step("connect", m, Own[m])>>
    \o IF Also[m] = NoSec THEN <<>>
       ELSE <<Step("create", m, Also[m]), Step("apply", m, Also[m]), Step("connect", m, Also[m])>>

LoadedSlots == [i \in DOMAIN Mgrs |-> LoadedSlot(Mgrs[i])]

Job == Head(Head(jobs))
Has(op) == ~hung /\ jobs # <<>> /\ Job.op = op
JobDone ==
    jobs' = IF Len(Head(jobs)) = 1 THEN Tail(jobs) ELSE <<Tail(Head(jobs))>> \o Tail(jobs)

Applied(m, s) ==
    \A i \in DOMAIN jobs : \A k \in DOMAIN jobs[i] : jobs[i][k] # Step("apply", m, s)
Quiet == jobs = <<>> /\ updates = <<>>

\* What is left of a value put for one of the plugin manager's lists, which are
\* cleared before the value is read; no search paths are the default ones.
ListOf(n, v) == IF n = Paths /\ v = Nothing THEN Default[Paths] ELSE Strings[v]

\* What a manager that worked with old works with once it is told v.  A value that
\* does not have the type it reads is logged; only the lists are gone by then.
Uses(n, v, old) ==
    IF n \in {Paths, Barred} THEN ListOf(n, v)
    ELSE IF v \in Fits[n] THEN v ELSE old

\* A faulty Told: what is no list of strings leaves the lists as they were.
Told_keeps_lists(ms, ns, vals) ==
    [p \in Managers \X Nodes |->
        IF p[1] \in ms /\ p[2] \in ns /\ Heeds(p[1], p[2]) /\ vals[p[2]] # None
             /\ Strings[vals[p[2]]] = vals[p[2]]
        THEN Uses(p[2], vals[p[2]], working[p]) ELSE working[p]]

\* variableUpdateSlot of the managers ms for the nodes ns, whose values are vals.
\* A key a manager does not know is logged.
Told(ms, ns, vals) ==
    [p \in Managers \X Nodes |->
        IF p[1] \in ms /\ p[2] \in ns /\ Heeds(p[1], p[2]) /\ vals[p[2]] # None
        THEN Uses(p[2], vals[p[2]], working[p]) ELSE working[p]]

\* JsonFromConf leaves out children without nodes.
Snapshot ==
    [secs |-> {s \in secs : \E n \in InSec(s) : tree[n] # None}, nodes |-> tree]

-----------------------------------------------------------------------------
Init ==
    /\ file \in Files
    /\ writing = None
    /\ phase = "off"
    /\ secs = {} /\ tree = NoTree
    /\ jobs = <<>> /\ updates = <<>> /\ alive = FALSE
    /\ listening = {} /\ working = Defaults /\ hung = FALSE
    /\ plugins = {}
    /\ widgets = NoTree
    /\ starts = 0 /\ edits = 0
    /\ wanted = NoTree /\ durable = NoTree
    /\ missed = {} /\ torn = {} /\ meant = {} /\ plan = None

\* The process is gone; what it was writing is lost, the file truncated.
Gone ==
    /\ phase' = "off"
    /\ writing' = None
    /\ secs' = {} /\ tree' = NoTree
    /\ jobs' = <<>> /\ updates' = <<>> /\ alive' = FALSE
    /\ listening' = {} /\ working' = Defaults /\ hung' = FALSE
    /\ plugins' = {}
    /\ widgets' = NoTree
    /\ missed' = {} /\ torn' = {} /\ meant' = {} /\ plan' = None
    /\ UNCHANGED <<file, starts, edits, durable>>

Crash ==
    /\ phase # "off"
    /\ Gone
    /\ wanted' = IF file = Broken THEN NoTree ELSE durable

\* Kernel: the managers default their values and connect to "loaded".
Start ==
    /\ phase = "off"
    /\ starts < MaxStarts
    /\ starts' = starts + 1
    /\ phase' = "load"
    /\ UNCHANGED <<disk, conf, signal, alive, plugins, widgets, edits, history>>

\* loadConfig up to the signal: a file that cannot be parsed counts as none.
LoadConfig ==
    /\ phase = "load"
    /\ IF file \in {Missing, Broken} THEN UNCHANGED conf
       ELSE secs' = file.secs /\ tree' = file.nodes
    /\ jobs' = LoadedSlots
    /\ phase' = "startSave"
    /\ UNCHANGED <<disk, updates, alive, listening, working, hung, plugins, widgets, counts, history>>

\* A faulty SaveBegin: loadConfig still holds the manager's mutex.
SaveBegin_still_locked ==
    /\ phase \in {"applySave", "exitSave"}
    /\ writing = None
    /\ ~hung
    /\ writing' = Snapshot
    /\ file' = Broken
    /\ UNCHANGED <<phase, conf, signal, alive, plugins, widgets, counts, history>>

\* saveConfig synchronizes with the tree and opens the file, truncating it.
SaveBegin ==
    /\ phase \in {"startSave", "applySave", "exitSave"}
    /\ writing = None
    /\ ~hung
    /\ writing' = Snapshot
    /\ file' = Broken
    /\ UNCHANGED <<phase, conf, signal, alive, plugins, widgets, counts, history>>

SaveEnd ==
    /\ phase \in {"startSave", "applySave"}
    /\ writing # None
    /\ file' = writing
    /\ writing' = None
    /\ durable' = wanted
    /\ phase' = IF phase = "startSave" THEN "plugins" ELSE "gui"
    /\ UNCHANGED <<conf, signal, alive, plugins, widgets, counts, wanted, missed, torn, meant, plan>>

\* The save of ~Kernel, after which the process ends.
ExitEnd ==
    /\ phase = "exitSave"
    /\ writing # None
    /\ file' = writing
    /\ durable' = wanted
    /\ phase' = "off"
    /\ writing' = None
    /\ secs' = {} /\ tree' = NoTree
    /\ jobs' = <<>> /\ updates' = <<>> /\ alive' = FALSE
    /\ listening' = {} /\ working' = Defaults /\ hung' = FALSE
    /\ plugins' = {} /\ widgets' = NoTree
    /\ missed' = {} /\ torn' = {} /\ meant' = {} /\ plan' = None
    /\ UNCHANGED <<starts, edits, wanted>>

\* A plugin made for another interface is not constructed.
Constructed(ps) == {p \in ps : Info[p].current}

\* init() adds the provider of a decoder, or throws when it has another type.
InitFails(ps) == \E p \in ps : Info[p].decoder /\ ~Info[p].typed

\* loadPlugins goes by what the slots of the plugin manager applied so far.
BadBlacklist == working[<<PluginMgr, Barred>>] \in Malformed
Loadable ==
    Constructed(Found[working[<<PluginMgr, Paths>>]] \ Bars[working[<<PluginMgr, Barred>>]])

PathsFail == working[<<PluginMgr, Paths>>] \in Unreadable

\* The settings as the user left them, in this run or an earlier one.
Asked == [n \in Nodes |-> IF wanted[n] # None THEN wanted[n] ELSE tree[n]]

LoadPlugins ==
    /\ phase = "plugins"
    /\ ~BadBlacklist /\ ~PathsFail /\ ~InitFails(Loadable)
    /\ plugins' = Loadable
    /\ plan' = IF Applied(PluginMgr, Own[PluginMgr]) THEN Asked ELSE None
    /\ phase' = "window"
    /\ UNCHANGED <<disk, conf, signal, alive, widgets, counts, wanted, durable, missed, torn, meant>>

\* What loadPlugins does not catch ends main(), where the kernel saves once more:
\* the blacklist's regular expression, walking a directory, or a plugin's init().
LoadPluginsThrows ==
    /\ phase = "plugins"
    /\ \/ BadBlacklist /\ plugins' = {}
       \/ ~BadBlacklist /\ PathsFail /\ plugins' \in SUBSET Loadable
       \/ ~BadBlacklist /\ ~PathsFail /\ InitFails(Loadable) /\ plugins' = Loadable
    /\ phase' = "exitSave"
    /\ UNCHANGED <<disk, conf, signal, alive, widgets, counts, history>>

-----------------------------------------------------------------------------
\* createChild: found, or putChild locks the mutex createChild holds, with the
\* lock on the root still taken.
Create ==
    /\ Has("create")
    /\ IF Job.sec \in secs THEN JobDone /\ UNCHANGED hung
       ELSE hung' = TRUE /\ UNCHANGED jobs
    /\ UNCHANGED <<disk, phase, conf, updates, alive, listening, working, plugins, widgets, counts, history>>

\* A faulty Merge: what the section holds is replaced.
Merge_replaces ==
    /\ Has("merge")
    /\ tree' = [n \in Nodes |-> IF SecOf[n] = Job.sec THEN Default[n] ELSE tree[n]]
    /\ JobDone
    /\ UNCHANGED <<disk, phase, secs, updates, alive, listening, working, hung, plugins, widgets, counts, history>>

\* merge inserts the nodes the section lacks.
Merge ==
    /\ Has("merge")
    /\ tree' = [n \in Nodes |->
                  IF SecOf[n] = Job.sec /\ tree[n] = None THEN Default[n] ELSE tree[n]]
    /\ JobDone
    /\ UNCHANGED <<disk, phase, secs, updates, alive, listening, working, hung, plugins, widgets, counts, history>>

\* iterateNodes: each node of the section goes through variableUpdateSlot.
Apply ==
    /\ Has("apply")
    /\ working' = Told({Job.mgr}, InSec(Job.sec), tree)
    /\ JobDone
    /\ UNCHANGED <<disk, phase, conf, updates, alive, listening, hung, plugins, widgets, counts, history>>

Connect ==
    /\ Has("connect")
    /\ listening' = listening \cup {<<Job.mgr, Job.sec>>}
    /\ JobDone
    /\ UNCHANGED <<disk, phase, conf, updates, alive, working, hung, plugins, widgets, counts, history>>

\* variableUpdated refers to a local variable of putNode.  Run before putNode
\* returns, the slots read the value put; run later, whatever is there.
Update ==
    /\ ~hung /\ jobs = <<>> /\ updates # <<>>
    /\ LET u == Head(updates)
           live == alive /\ Len(updates) = 1
       IN  /\ \E v \in Vals :
                 /\ live => v = u.val
                 /\ working' = Told(u.to, {u.node}, [n \in Nodes |-> v])
           /\ torn' = IF live THEN torn \ {u.node} ELSE torn \cup {u.node}
    /\ updates' = Tail(updates)
    /\ UNCHANGED <<disk, phase, conf, jobs, alive, listening, hung, plugins, widgets, counts, wanted, durable, missed, meant, plan>>

-----------------------------------------------------------------------------
\* The widget generated for a value, and what applying and resetting do to it.
WidgetFor(v) == [reset |-> v, shown |-> Shown[v], touched |-> FALSE]
Applying(w) == [w EXCEPT !.reset = w.shown, !.touched = FALSE]
Resetting(w) == [w EXCEPT !.shown = Shown[w.reset], !.touched = FALSE]

\* MainWindow hands the configuration to the dialog, which makes its widgets
\* once, of the nodes there are.  It is built with the root synchronized.
BuildDialog ==
    /\ phase = "window"
    /\ ~hung
    /\ widgets' = [n \in Nodes |->
                     IF SecOf[n] \in secs /\ tree[n] # None THEN WidgetFor(tree[n]) ELSE None]
    /\ phase' = "gui"
    /\ UNCHANGED <<disk, conf, signal, alive, plugins, counts, history>>

Modified(n) ==
    /\ widgets[n] # None
    /\ IF n \in Flagged THEN widgets[n].touched ELSE widgets[n].shown # widgets[n].reset

Touched == {n \in Nodes : Modified(n)}

Edit(n, v) ==
    /\ phase = "gui"
    /\ edits < MaxEdits
    /\ widgets[n] # None
    /\ Shown[v] = v
    /\ \E kind \in Widgets : {v, widgets[n].shown} \subseteq kind
    /\ widgets' = [widgets EXCEPT ![n].shown = v, ![n].touched = TRUE]
    /\ edits' = edits + 1
    /\ meant' = meant \cup {n}
    /\ UNCHANGED <<disk, phase, conf, signal, alive, plugins, starts, wanted, durable, missed, torn, plan>>

\* A faulty ResetButton: the widget shows the old value and keeps its flag.
ResetButton_keeps_flag ==
    /\ phase = "gui"
    /\ widgets' = [n \in Nodes |->
                     IF Modified(n) THEN [widgets[n] EXCEPT !.shown = Shown[widgets[n].reset]]
                     ELSE widgets[n]]
    /\ meant' = {}
    /\ UNCHANGED <<disk, phase, conf, signal, alive, plugins, counts, wanted, durable, missed, torn, plan>>

\* Reset and Cancel.
ResetButton ==
    /\ phase = "gui"
    /\ widgets' = [n \in Nodes |->
                     IF Modified(n) THEN Resetting(widgets[n]) ELSE widgets[n]]
    /\ meant' = {}
    /\ UNCHANGED <<disk, phase, conf, signal, alive, plugins, counts, wanted, durable, missed, torn, plan>>

\* Ok and Apply: every modified widget puts its value, then the file is saved.
ApplyButton ==
    /\ phase = "gui"
    /\ phase' = "apply"
    /\ UNCHANGED <<disk, conf, signal, alive, plugins, widgets, counts, history>>

\* A faulty PutNode: a node that exists is replaced and nobody is told.
PutNode_tells_of_new(n) ==
    /\ phase = "apply" /\ ~alive
    /\ Modified(n)
    /\ widgets' = [widgets EXCEPT ![n] = Applying(@)]
    /\ tree' = [tree EXCEPT ![n] = widgets[n].shown]
    /\ alive' = TRUE
    /\ wanted' = [wanted EXCEPT ![n] = widgets[n].shown]
    /\ missed' = missed \ {n}
    /\ meant' = meant \ {n}
    /\ UNCHANGED <<disk, phase, secs, signal, plugins, counts, durable, torn, plan>>

\* The widget's apply and putNode, up to putNode's return.
PutNode(n) ==
    /\ phase = "apply" /\ ~alive
    /\ Modified(n)
    /\ LET v == widgets[n].shown
           to == {m \in Managers : <<m, SecOf[n]>> \in listening}
       IN  /\ widgets' = [widgets EXCEPT ![n] = Applying(@)]
           /\ tree' = [tree EXCEPT ![n] = v]
           /\ updates' = Append(updates, [node |-> n, val |-> v, to |-> to])
           /\ alive' = TRUE
           /\ wanted' = [wanted EXCEPT ![n] = v]
           /\ missed' = IF \E m \in Managers \ to : Heeds(m, n) /\ Applied(m, SecOf[n])
                        THEN missed \cup {n} ELSE missed \ {n}
    /\ meant' = meant \ {n}
    /\ UNCHANGED <<disk, phase, secs, jobs, listening, working, hung, plugins, counts, durable, torn, plan>>

PutReturns ==
    /\ alive
    /\ alive' = FALSE
    /\ UNCHANGED <<disk, phase, conf, signal, plugins, widgets, counts, history>>

AllApplied ==
    /\ phase = "apply" /\ ~alive
    /\ Touched = {}
    /\ phase' = "applySave"
    /\ UNCHANGED <<disk, conf, signal, alive, plugins, widgets, counts, history>>

Quit ==
    /\ phase = "gui"
    /\ phase' = "exitSave"
    /\ UNCHANGED <<disk, conf, signal, alive, plugins, widgets, counts, history>>

-----------------------------------------------------------------------------
MainThread ==
    \/ LoadConfig \/ SaveBegin \/ SaveEnd \/ ExitEnd \/ LoadPlugins
    \/ LoadPluginsThrows \/ BuildDialog \/ (\E n \in Nodes : PutNode(n)) \/ PutReturns \/ AllApplied

SignalThread == Create \/ Merge \/ Apply \/ Connect \/ Update

User ==
    \/ Start \/ ResetButton \/ ApplyButton \/ Quit
    \/ \E n \in Nodes, v \in Vals : Edit(n, v)

Next == MainThread \/ SignalThread \/ User \/ Crash

\* Both threads run while they can; the user owes nothing.
Spec == Init /\ [][Next]_vars /\ WF_vars(MainThread) /\ WF_vars(SignalThread)
-----------------------------------------------------------------------------
\* Once the signal thread is done, a manager works with what its slot makes of what
\* the tree says now: to apply the tree again would change nothing.  Of a list that
\* is what ListOf leaves of it; a number or a name of another type changes nothing.
\* Updates that were garbled (config.cpp:528) are excepted, and those that fell
\* between applying a section and connecting to it.
WorkingFollowsTree ==
    phase = "gui" /\ Quiet /\ ~alive =>
        \A m \in Managers, n \in Nodes :
            Heeds(m, n) /\ n \notin missed \cup torn =>
                working[<<m, n>>] = IF tree[n] = None THEN Initial(n)
                                    ELSE Uses(n, tree[n], working[<<m, n>>])

\* A setting the user applied and saved is in the tree in this run and the
\* next, crashes included, whatever defaults the managers merge; only a crash
\* inside saveConfig loses it (config.cpp:220-237).
SettingsSurvive ==
    phase \in {"plugins", "window", "gui"} =>
        \A n \in Nodes : wanted[n] # None => tree[n] = wanted[n]

\* Ok and Apply write only what the user edited since the last Apply, Reset or
\* Cancel, and numbers its widget cannot show (configmanager.cpp:247, 297).
OnlyEditsAreApplied ==
    [][\A n \in Nodes : (wanted'[n] # wanted[n] /\ phase' # "off") =>
          n \in meant \/ Shown[widgets[n].reset] # widgets[n].reset]_vars

\* The plugins loaded are those in the directories, and not on the blacklist, that
\* the user last applied and saved, in an earlier run and across crashes, or that
\* the file holds: no search paths are the default ones, no blacklist bars nothing,
\* and of a list with what is no string the part before it counts (plugin.cpp:137-162).
\* Excepted are starts at which the settings were not applied yet, for nothing makes
\* loadPlugins wait for them (plugin.cpp:200).
PluginsAsConfigured ==
    plan # None =>
        LET barred == IF plan[Barred] = None THEN Nothing ELSE ListOf(Barred, plan[Barred])
        IN  plugins = Constructed(Found[ListOf(Paths, plan[Paths])] \ Bars[barred])

\* A start ends in the window, unless the process ends or, with a file that lacks
\* a section, the signal thread hangs in createChild with the tree locked
\* (config.cpp:419-426).
StartsUp == (phase = "load") ~> (phase \in {"gui", "off"} \/ (hung /\ secs # Secs))
=============================================================================
