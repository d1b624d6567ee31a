-------------------------------- MODULE Filters --------------------------------
(***************************************************************************)
(* The filter panes beside the playlist (gui/filterpane.cpp,               *)
(* gui/mainwindow.qml:290-490).  Each pane shows the values of one field   *)
(* among the tracks its query finds; what is selected in it generates the  *)
(* query of the pane after it.  All of this runs on the GUI thread, one    *)
(* call inside the other: todo is what the calls in progress have still to *)
(* do, the innermost first, and nothing else happens on that thread until  *)
(* it is empty.  Scans run elsewhere, change the library between one query *)
(* and the next, and reach the panes as queued events through the signal   *)
(* thread and gui/librarymanager.cpp; the panes are made while the first   *)
(* scan already runs.  A query is the set of tracks it finds.              *)
(***************************************************************************)
EXTENDS Naturals, Sequences, FiniteSets

CONSTANTS
    Tracks,     \* tracks that may be in the library: tuples of field values
    N,          \* number of panes; pane p shows field p and depends on pane p - 1
    Delayed,    \* panes with a selectionDelay
    MaxScans,   \* bound on the scans posted
    MaxSelects  \* bound on the changes of selection

ASSUME FiltersAssumption ==
    /\ N \in Nat \ {0}
    /\ Delayed \subseteq 1..N
    /\ \A t \in Tracks : DOMAIN t = 1..N
    /\ MaxScans \in Nat \ {0} /\ MaxSelects \in Nat

VARIABLES
    lib,        \* the tracks in the library
    scanning,   \* m_scanning of the library
    waiting, running, posted,   \* scans posted: not begun, running, ever
    sigq,       \* calls of scanStarted and scanEnded on the signal thread
    heard,      \* LibraryManager listens to those signals
    events,     \* queued events of the GUI thread
    made,       \* number of panes made
    blind,      \* panes whose m_lib_scanning is set
    query, generated, \* of each pane: m_query and m_generated_query
    selected,   \* the rows selected in it
    values,     \* m_selection_values, what its generator is given
    docs,       \* what its model holds
    timers,     \* panes whose m_selection_timer runs
    todo,       \* what the calls on the GUI thread have still to do
    selects,    \* changes of selection so far
    missed      \* history: panes made after a scan's end was called, unheard

scans == <<scanning, waiting, running, posted, sigq>>
queries == <<query, generated>>
chosen == <<selected, values, timers>>
panes == <<made, blind, queries, chosen, docs>>
vars == <<lib, scans, heard, events, panes, todo, selects, missed>>
-----------------------------------------------------------------------------
Panes == 1..N

\* Manager::query; the transaction it waits for is left out.
Find(q) == lib \cap q

\* execute_query: nothing while a scan is known to run.
Execute(p) == IF p \in blind THEN {} ELSE Find(query[p])

\* apply_named_paths: what pane p shows of a track.
Named(t, p) == t[p]

\* setDocs replaces the model's rows, each different one once.
SetDocs(p, ts) == docs' = [docs EXCEPT ![p] = {Named(t, p) : t \in ts}]

\* What the query generator of pane p makes of the values selected.
Inner(p) == IF values[p] = {} THEN Tracks ELSE {t \in Tracks : Named(t, p) \in values[p]}

\* on_selection_changed: the rows selected now, by what their values were.
SelectionChanged(p, rows) ==
    /\ selected' = [selected EXCEPT ![p] = rows]
    /\ values' = [values EXCEPT ![p] = (@ \cup (rows \ selected[p])) \ (selected[p] \ rows)]

Do(what, p) == [what |-> what, pane |-> p]
Does(what, p) == todo # <<>> /\ Head(todo) = Do(what, p)

\* A faulty SetQuery: the panes further down are not told.
SetQuery_stops_here(p, q, rest) ==
    /\ query' = [query EXCEPT ![p] = q]
    /\ todo' = <<Do("refresh", p)>> \o rest

\* A pane with a new query generates its own before it refreshes.
SetQuery(p, q, rest) ==
    /\ query' = [query EXCEPT ![p] = q]
    /\ todo' = <<Do("generate", p), Do("refresh", p)>> \o rest

\* A selection that changes generates the query at once, or when the timer it
\* starts runs out.
Selection(p, rows, rest) ==
    \/ rows = selected[p] /\ todo' = rest /\ UNCHANGED chosen
    \/ /\ rows # selected[p] /\ SelectionChanged(p, rows)
       /\ \/ p \in Delayed /\ timers' = timers \cup {p} /\ todo' = rest
          \/ p \notin Delayed /\ todo' = <<Do("generate", p)>> \o rest /\ UNCHANGED timers

\* generate_query: the pane that depends on this one gets the query.
Generate(p) ==
    /\ Does("generate", p)
    /\ generated' = [generated EXCEPT ![p] = query[p] \cap Inner(p)]
    /\ \/ p < made /\ SetQuery(p + 1, query[p] \cap Inner(p), Tail(todo))
       \/ p >= made /\ todo' = Tail(todo) /\ UNCHANGED query
    /\ UNCHANGED <<lib, scans, heard, events, made, blind, chosen, docs, selects, missed>>

\* A faulty Refresh: the model is reset, which drops its selection unannounced.
Refresh_resets_first(p) ==
    /\ Does("refresh", p)
    /\ selected' = [selected EXCEPT ![p] = {}]
    /\ SetDocs(p, Execute(p))
    /\ todo' = Tail(todo)
    /\ UNCHANGED <<lib, scans, heard, events, made, blind, queries, values, timers, selects, missed>>

\* refresh: the selection is cleared, with all that follows from it ...
Refresh(p) ==
    /\ Does("refresh", p)
    /\ Selection(p, {}, <<Do("answer", p)>> \o Tail(todo))
    /\ UNCHANGED <<lib, scans, heard, events, made, blind, queries, docs, selects, missed>>

\* ... and then the model gets the answers.
Answer(p) ==
    /\ Does("answer", p)
    /\ SetDocs(p, Execute(p))
    /\ todo' = Tail(todo)
    /\ UNCHANGED <<lib, scans, heard, events, made, blind, queries, chosen, selects, missed>>

GoesOn == \E p \in Panes : Generate(p) \/ Refresh(p) \/ Answer(p)
-----------------------------------------------------------------------------
Init ==
    /\ lib \in SUBSET Tracks
    /\ scanning = FALSE /\ waiting = 1 /\ running = 0 /\ posted = 1
    /\ sigq = <<>> /\ heard = FALSE /\ events = <<>>
    /\ made = 0 /\ blind = {} /\ timers = {} /\ todo = <<>>
    /\ query = [p \in Panes |-> Tracks] /\ generated = query
    /\ selected = [p \in Panes |-> {}] /\ values = selected /\ docs = selected
    /\ selects = 0 /\ missed = {}

\* setLibraryManager, as the main window is made.
Listen ==
    /\ ~heard
    /\ heard' = TRUE
    /\ UNCHANGED <<lib, scans, events, panes, todo, selects, missed>>

\* setDependsOn: what the pane before has generated.
Inherited(p) == IF p = 1 THEN Tracks ELSE generated[p - 1]

\* A pane gets its properties from mainwindow.qml.
Build(p, flag) ==
    /\ made' = p
    /\ blind' = IF flag THEN blind \cup {p} ELSE blind
    /\ SetQuery(p, Inherited(p), <<>>)

\* A faulty CreatePane: a scan is assumed to run until one is said to end.
CreatePane_assumes_scan ==
    /\ heard /\ made < N /\ todo = <<>>
    /\ Build(made + 1, TRUE)
    /\ UNCHANGED <<lib, scans, heard, events, generated, chosen, docs, selects, missed>>

\* A pane made while a scan is known to run, whose end was called before the
\* LibraryManager listened, will not hear of it.
CreatePane ==
    /\ heard /\ made < N /\ todo = <<>>
    /\ Build(made + 1, scanning)
    /\ missed' = IF scanning /\ \E i \in DOMAIN sigq : sigq[i].what = "ended" /\ ~sigq[i].heard
                 THEN missed \cup {made + 1} ELSE missed
    /\ UNCHANGED <<lib, scans, heard, events, generated, chosen, docs, selects>>
-----------------------------------------------------------------------------
\* A signal is called: its slots of the moment run later.
Call(what) == sigq' = Append(sigq, [what |-> what, heard |-> heard])

\* A scan waits until none is known to run.
ScanStarts ==
    /\ waiting > 0 /\ ~scanning
    /\ waiting' = waiting - 1 /\ running' = running + 1
    /\ Call("started")
    /\ UNCHANGED <<lib, scanning, posted, heard, events, panes, todo, selects, missed>>

\* It adds tracks and removes them.
ScanChanges ==
    /\ running > 0
    /\ \E t \in Tracks : lib' = lib \cup {t} \/ lib' = lib \ {t}
    /\ UNCHANGED <<scans, heard, events, panes, todo, selects, missed>>

ScanEnds ==
    /\ running > 0
    /\ running' = running - 1
    /\ Call("ended")
    /\ UNCHANGED <<lib, scanning, waiting, posted, heard, events, panes, todo, selects, missed>>

\* The configured directories change: some tracks go, and a scan is posted.
SetDirectories ==
    /\ posted < MaxScans
    /\ posted' = posted + 1 /\ waiting' = waiting + 1
    /\ lib' \in SUBSET lib
    /\ UNCHANGED <<scanning, running, sigq, heard, events, panes, todo, selects, missed>>

\* The library's own slot comes first, LibraryManager's queues an event for each
\* pane there is.
TellPanes ==
    /\ sigq # <<>>
    /\ scanning' = (Head(sigq).what = "started")
    /\ events' = IF Head(sigq).heard
                 THEN events \o [p \in 1..made |-> [pane |-> p, what |-> Head(sigq).what]]
                 ELSE events
    /\ sigq' = Tail(sigq)
    /\ UNCHANGED <<lib, waiting, running, posted, heard, panes, todo, selects, missed>>
-----------------------------------------------------------------------------
\* The event loop runs once the window is made.
Loop == made = N /\ todo = <<>>
Event(what, p) == Loop /\ events # <<>> /\ Head(events) = [pane |-> p, what |-> what]
Takes == events' = Tail(events) /\ UNCHANGED <<lib, scans, heard, made, queries, chosen, docs, selects>>

HearStarted(p) ==
    /\ Event("started", p) /\ Takes
    /\ blind' = blind \cup {p}
    /\ UNCHANGED <<todo, missed>>

\* A faulty HearEnded: the pane is not refreshed.
HearEnded_no_refresh(p) ==
    /\ Event("ended", p) /\ Takes
    /\ blind' = blind \ {p} /\ missed' = missed \ {p}
    /\ UNCHANGED todo

HearEnded(p) ==
    /\ Event("ended", p) /\ Takes
    /\ blind' = blind \ {p} /\ missed' = missed \ {p}
    /\ todo' = <<Do("refresh", p)>>

\* The user selects other rows of a pane.
Select(p) ==
    /\ Loop /\ selects < MaxSelects
    /\ selects' = selects + 1
    /\ \E rows \in SUBSET docs[p] : rows # selected[p] /\ Selection(p, rows, <<>>)
    /\ UNCHANGED <<lib, scans, heard, events, made, blind, queries, docs, missed>>

\* A pane's selection timer runs out.
Timeout(p) ==
    /\ Loop /\ p \in timers
    /\ timers' = timers \ {p}
    /\ todo' = <<Do("generate", p)>>
    /\ UNCHANGED <<lib, scans, heard, events, made, blind, queries, selected, values, docs,
                   selects, missed>>
-----------------------------------------------------------------------------
Starting == Listen \/ CreatePane
Scanner == ScanStarts \/ ScanEnds
Events == \E p \in Panes : HearStarted(p) \/ HearEnded(p)

Next ==
    \/ Starting \/ Scanner \/ ScanChanges \/ SetDirectories \/ TellPanes \/ Events
    \/ GoesOn \/ \E p \in Panes : Select(p) \/ Timeout(p)

\* Threads of the program run on; users and directories need not change.
Spec ==
    /\ Init /\ [][Next]_vars
    /\ WF_vars(Starting) /\ WF_vars(Scanner) /\ WF_vars(TellPanes) /\ WF_vars(Events)
    /\ WF_vars(GoesOn) /\ \A p \in Panes : WF_vars(Timeout(p))
-----------------------------------------------------------------------------
Types ==
    /\ lib \subseteq Tracks /\ scanning \in BOOLEAN
    /\ waiting \in 0..MaxScans /\ running \in 0..MaxScans /\ posted \in 1..MaxScans
    /\ made \in 0..N /\ blind \subseteq 1..made /\ missed \subseteq blind
    /\ timers \subseteq Delayed
    /\ \A i \in DOMAIN todo : todo[i].pane \in 1..made
    /\ \A p \in Panes : selected[p] \subseteq docs[p]

\* The types; what is selected is shown; and the values a pane keeps for its
\* generator are those of the rows selected: every deselection was announced
\* while its rows could still be read (filterpane.cpp:260-261, 298).
ValuesAreSelected == Types /\ values = selected

\* Each pane asks what the one before generated, and once the calls are over that
\* is what its query and its selection say, unless its timer still runs.
QueriesChain ==
    \A p \in 1..made :
        /\ p < made => query[p + 1] = generated[p]
        /\ p \notin timers /\ todo = <<>> => generated[p] = query[p] \cap Inner(p)

\* When all is still, each pane shows what its query finds in the library,
\* unless it missed the end of the scan it was made in.
Still == Loop /\ sigq = <<>> /\ events = <<>> /\ waiting + running = 0
ShowsLibrary ==
    Still => \A p \in Panes \ missed : docs[p] = {Named(t, p) : t \in Find(query[p])}

\* No pane stays empty for a scan that is over, with the same exception.
PanesLeaveScanning == <>[](made = N /\ blind \subseteq missed)
=============================================================================
