---------------------------- MODULE FiltersProofs ----------------------------
(***************************************************************************)
(* What holds of any number of filter panes, whatever is selected and      *)
(* scanned: the values a pane generates its query from are those selected, *)
(* each pane asks what the one before it generated, and once all is still  *)
(* each shows what its query finds.                                        *)
(***************************************************************************)
EXTENDS Filters, SequenceTheorems, TLAPS

-----------------------------------------------------------------------------
(* The inductive invariant *)

Fields == UNION {{t[p] : p \in Panes} : t \in Tracks}
Signal == [what : {"started", "ended"}, heard : BOOLEAN]
News(n) == [pane : 1..n, what : {"started", "ended"}]
Work(n) == [what : {"generate", "refresh", "answer"}, pane : 1..n]

Has(s, e) == \E i \in 1..Len(s) : s[i] = e

TypeOK ==
    /\ lib \subseteq Tracks /\ scanning \in BOOLEAN /\ heard \in BOOLEAN
    /\ waiting \in Nat /\ running \in Nat
    /\ posted \in 1..MaxScans /\ waiting + running <= posted
    /\ made \in 0..N /\ blind \subseteq 1..made /\ missed \subseteq blind
    /\ sigq \in Seq(Signal) /\ events \in Seq(News(made)) /\ todo \in Seq(Work(made))
    /\ query \in [Panes -> SUBSET Tracks] /\ generated \in [Panes -> SUBSET Tracks]
    /\ selected \in [Panes -> SUBSET Fields] /\ docs \in [Panes -> SUBSET Fields]
    /\ timers \subseteq Delayed

\* The selection of a pane is cleared before the answers come.
SelectionKept ==
    /\ values = selected
    /\ \A p \in Panes : selected[p] \subseteq docs[p]
    /\ \A p \in Panes : Has(todo, Do("answer", p)) => selected[p] = {}

\* A pane whose own query is not what it should be is about to generate it.
Chained ==
    \A p \in 1..made :
        /\ p < made => query[p + 1] = generated[p]
        /\ \/ p \in timers \/ Has(todo, Do("generate", p))
           \/ generated[p] = query[p] \cap Inner(p)

\* LibraryManager hears everything once it listens, which it does before there
\* are panes; and a scan that was said to start has its end yet to come.
SignalsInOrder ==
    /\ made > 0 => heard
    /\ \A i \in 1..Len(sigq) : sigq[i].heard => heard /\ \A j \in i..Len(sigq) : sigq[j].heard
    /\ \A i \in 1..Len(sigq) :
          sigq[i].what = "started"
            => running > 0 \/ \E j \in (i + 1)..Len(sigq) : sigq[j].what = "ended"
    /\ scanning => running > 0 \/ \E i \in 1..Len(sigq) : sigq[i].what = "ended"

\* An end of a scan that a pane will hear of: still to be called ...
ToBeTold == running > 0 \/ Has(sigq, [what |-> "ended", heard |-> TRUE])

\* ... or among the events.
Coming(p) == ToBeTold \/ Has(events, [pane |-> p, what |-> "ended"])

EventsInOrder ==
    \A i \in 1..Len(events) :
        events[i].what = "started"
          => \/ ToBeTold
             \/ \E j \in (i + 1)..Len(events) : events[j] = [pane |-> events[i].pane, what |-> "ended"]

BlindHear == \A p \in blind \ missed : Coming(p)

\* A pane that does not show what its query finds is yet to be refreshed.
Shown(p) == docs[p] = {Named(t, p) : t \in Find(query[p])}
ShownOrDue ==
    \A p \in (1..made) \ missed :
        \/ Shown(p) \/ waiting > 0 \/ Coming(p)
        \/ Has(todo, Do("refresh", p)) \/ Has(todo, Do("answer", p))

IInv ==
    /\ TypeOK /\ SelectionKept /\ Chained
    /\ SignalsInOrder /\ EventsInOrder /\ BlindHear /\ ShownOrDue
-----------------------------------------------------------------------------
(* Sequences *)

\* What is in the tail, what the head was, and where.
LEMMA TailHas ==
    ASSUME NEW S, NEW s \in Seq(S), s # <<>>
    PROVE  /\ Head(s) \in S /\ Tail(s) \in Seq(S)
           /\ Len(s) \in Nat /\ Len(Tail(s)) = Len(s) - 1 /\ 1 \in 1..Len(s) /\ s[1] = Head(s)
           /\ \A i \in 1..(Len(s) - 1) : Tail(s)[i] = s[i + 1]
           /\ \A e : Has(s, e) <=> (e = Head(s) \/ Has(Tail(s), e))
<1>1. /\ Head(s) \in S /\ Tail(s) \in Seq(S) /\ Len(Tail(s)) = Len(s) - 1
      /\ \A i \in 1..(Len(s) - 1) : Tail(s)[i] = s[i + 1]
  BY HeadTailProperties
<1>2. Len(s) \in Nat \ {0} /\ s[1] = Head(s)  BY EmptySeq
<1>3. ASSUME NEW e, Has(s, e) PROVE e = Head(s) \/ Has(Tail(s), e)
  <2>1. PICK i \in 1..Len(s) : s[i] = e  BY <1>3 DEF Has
  <2>2. CASE i = 1  BY <1>2, <2>1, <2>2
  <2>3. CASE i # 1
    <3>1. i - 1 \in 1..(Len(s) - 1) /\ (i - 1) + 1 = i  BY <1>2, <2>3
    <3>2. Tail(s)[i - 1] = e  BY <1>1, <2>1, <3>1
    <3> QED  BY <1>1, <3>1, <3>2 DEF Has
  <2> QED  BY <2>2, <2>3
<1>4. ASSUME NEW e, Has(Tail(s), e) PROVE Has(s, e)
  <2>1. PICK i \in 1..(Len(s) - 1) : Tail(s)[i] = e  BY <1>1, <1>4 DEF Has
  <2>2. i + 1 \in 1..Len(s) /\ s[i + 1] = e  BY <1>1, <1>2, <2>1
  <2> QED  BY <2>2 DEF Has
<1>5. Has(s, Head(s))  BY <1>2 DEF Has
<1> QED  BY <1>1, <1>2, <1>3, <1>4, <1>5

\* What is in two sequences, one after the other, and where.
LEMMA ConcatHas ==
    ASSUME NEW S, NEW s \in Seq(S), NEW t \in Seq(S)
    PROVE  /\ s \o t \in Seq(S) /\ Len(s) \in Nat /\ Len(t) \in Nat
           /\ Len(s \o t) = Len(s) + Len(t)
           /\ \A i \in 1..Len(s) : (s \o t)[i] = s[i]
           /\ \A i \in 1..Len(t) : (s \o t)[Len(s) + i] = t[i]
           /\ \A e : Has(s \o t, e) <=> (Has(s, e) \/ Has(t, e))
<1> DEFINE c == s \o t
<1>1. /\ c \in Seq(S) /\ Len(c) = Len(s) + Len(t)
      /\ \A i \in 1..(Len(s) + Len(t)) : c[i] = IF i <= Len(s) THEN s[i] ELSE t[i - Len(s)]
  BY ConcatProperties
<1>2. Len(s) \in Nat /\ Len(t) \in Nat  BY LenProperties
<1> HIDE DEF c
<1>3. \A i \in 1..Len(s) : c[i] = s[i]  BY <1>1, <1>2
<1>4. ASSUME NEW i \in 1..Len(t) PROVE c[Len(s) + i] = t[i]
  <2>1. /\ Len(s) + i \in 1..(Len(s) + Len(t)) /\ ~(Len(s) + i <= Len(s))
        /\ (Len(s) + i) - Len(s) = i
    BY <1>2
  <2> QED  BY <1>1, <2>1
<1>5. ASSUME NEW e, Has(c, e) PROVE Has(s, e) \/ Has(t, e)
  <2>1. PICK i \in 1..(Len(s) + Len(t)) : c[i] = e  BY <1>1, <1>5 DEF Has
  <2>2. CASE i <= Len(s)
    <3>1. i \in 1..Len(s)  BY <1>2, <2>2
    <3> QED  BY <1>3, <2>1, <3>1 DEF Has
  <2>3. CASE ~(i <= Len(s))
    <3>1. i - Len(s) \in 1..Len(t)  BY <1>2, <2>3
    <3>2. t[i - Len(s)] = e  BY <1>1, <2>1, <2>3
    <3> QED  BY <3>1, <3>2 DEF Has
  <2> QED  BY <2>2, <2>3
<1>6. ASSUME NEW e, Has(s, e) PROVE Has(c, e)
  <2>1. PICK i \in 1..Len(s) : s[i] = e  BY <1>6 DEF Has
  <2>2. i \in 1..Len(c)  BY <1>1, <1>2
  <2> QED  BY <1>3, <2>1, <2>2 DEF Has
<1>7. ASSUME NEW e, Has(t, e) PROVE Has(c, e)
  <2>1. PICK i \in 1..Len(t) : t[i] = e  BY <1>7 DEF Has
  <2>2. Len(s) + i \in 1..Len(c)  BY <1>1, <1>2
  <2> QED  BY <1>4, <2>1, <2>2 DEF Has
<1> QED  BY <1>1, <1>2, <1>3, <1>4, <1>5, <1>6, <1>7 DEF c

\* Two elements put before a sequence, or one.
LEMMA OneBefore ==
    ASSUME NEW S, NEW a \in S, NEW s \in Seq(S)
    PROVE  /\ <<a>> \o s \in Seq(S)
           /\ \A e : Has(<<a>> \o s, e) <=> (e = a \/ Has(s, e))
<1>1. <<a>> \in Seq(S) /\ Len(<<a>>) = 1 /\ <<a>>[1] = a  OBVIOUS
<1>2. \A e : Has(<<a>>, e) <=> e = a
  <2>1. 1..1 = {1}  OBVIOUS
  <2> QED  BY <1>1, <2>1 DEF Has
<1> QED  BY <1>1, <1>2, ConcatHas

LEMMA TwoBefore ==
    ASSUME NEW S, NEW a \in S, NEW b \in S, NEW s \in Seq(S)
    PROVE  /\ <<a, b>> \o s \in Seq(S)
           /\ \A e : Has(<<a, b>> \o s, e) <=> (e = a \/ e = b \/ Has(s, e))
<1>1. <<a, b>> \in Seq(S) /\ Len(<<a, b>>) = 2 /\ <<a, b>>[1] = a /\ <<a, b>>[2] = b  OBVIOUS
<1>2. \A e : Has(<<a, b>>, e) <=> (e = a \/ e = b)
  <2>1. 1..2 = {1, 2}  OBVIOUS
  <2> QED  BY <1>1, <2>1 DEF Has
<1> QED  BY <1>1, <1>2, ConcatHas
-----------------------------------------------------------------------------
(* What the nested calls do *)

LEMMA DoSame ==
    /\ \A a, b, p, q : Do(a, p) = Do(b, q) <=> a = b /\ p = q
    /\ \A n : \A w \in {"generate", "refresh", "answer"} : \A p \in 1..n : Do(w, p) \in Work(n)
BY DEF Do, Work

\* What is told of scans stays what it is while the queues do.
LEMMA SameSignals ==
    ASSUME SignalsInOrder, EventsInOrder, UNCHANGED <<scans, heard, events>>, made' > 0 => heard
    PROVE  /\ SignalsInOrder' /\ EventsInOrder'
           /\ \A p : Coming(p)' <=> Coming(p)
<1>1. UNCHANGED <<scanning, running, sigq, heard, events>>  BY DEF scans
<1>2. ToBeTold' <=> ToBeTold  BY <1>1 DEF ToBeTold, Has
<1>3. SignalsInOrder'  BY <1>1 DEF SignalsInOrder
<1>4. EventsInOrder'  BY <1>1, <1>2 DEF EventsInOrder
<1>5. \A p : Coming(p)' <=> Coming(p)  BY <1>1, <1>2 DEF Coming, Has
<1> QED  BY <1>3, <1>4, <1>5

\* The work at hand is of a pane that is made, and what is left is of such panes.
LEMMA AtHand ==
    ASSUME TypeOK, NEW w, NEW p, Does(w, p)
    PROVE  /\ p \in 1..made /\ p \in Panes /\ Tail(todo) \in Seq(Work(made))
           /\ \A e : Has(todo, e) <=> (e = Do(w, p) \/ Has(Tail(todo), e))
<1>1. todo \in Seq(Work(made)) /\ todo # <<>> /\ Head(todo) = Do(w, p)  BY DEF TypeOK, Does
<1>2. Do(w, p) \in Work(made)  BY <1>1, TailHas
<1>3. Do(w, p).pane = p  BY DEF Do
<1>4. p \in 1..made  BY <1>2, <1>3 DEF Work
<1>5. p \in Panes  BY <1>4, FiltersAssumption DEF TypeOK, Panes
<1> QED  BY <1>1, <1>4, <1>5, TailHas

\* What does not touch the selections keeps them, if no more answers are to come.
LEMMA SameSelection ==
    ASSUME SelectionKept, UNCHANGED <<selected, values, docs>>,
           \A p \in Panes : Has(todo', Do("answer", p)) => Has(todo, Do("answer", p))
    PROVE  SelectionKept'
BY DEF SelectionKept

\* A pane shows what it should, or will, when neither the library nor what is
\* to come changes, but for panes that will be refreshed.
LEMMA SameShown ==
    ASSUME ShownOrDue, UNCHANGED <<lib, waiting, docs, made, missed>>,
           \A p : Coming(p)' <=> Coming(p),
           \A p \in 1..made :
              \/ Has(todo', Do("refresh", p)) \/ Has(todo', Do("answer", p))
              \/ /\ query'[p] = query[p]
                 /\ ~Has(todo, Do("refresh", p)) /\ ~Has(todo, Do("answer", p))
    PROVE  ShownOrDue'
<1> SUFFICES ASSUME NEW p \in (1..made) \ missed
             PROVE  \/ Shown(p)' \/ waiting' > 0 \/ Coming(p)'
                    \/ Has(todo', Do("refresh", p)) \/ Has(todo', Do("answer", p))
  BY DEF ShownOrDue
<1>1. CASE /\ query'[p] = query[p]
           /\ ~Has(todo, Do("refresh", p)) /\ ~Has(todo, Do("answer", p))
  <2>1. Shown(p)' <=> Shown(p)  BY <1>1 DEF Shown, Find
  <2>2. Shown(p) \/ waiting > 0 \/ Coming(p)  BY <1>1 DEF ShownOrDue
  <2> QED  BY <2>1, <2>2
<1>2. CASE Has(todo', Do("refresh", p)) \/ Has(todo', Do("answer", p))  BY <1>2
<1> QED  BY <1>1, <1>2

\* Pane p has generated its query, which went to the next if there is one.
LEMMA Generated ==
    ASSUME TypeOK, NEW p \in Panes, Generate(p)
    PROVE  /\ p \in 1..made /\ Has(todo, Do("generate", p))
           /\ query' \in [Panes -> SUBSET Tracks] /\ generated' \in [Panes -> SUBSET Tracks]
           /\ generated'[p] = query[p] \cap Inner(p)
           /\ \A q \in Panes : q # p => generated'[q] = generated[q]
           /\ p < made => query'[p + 1] = generated'[p]
           /\ \A q \in Panes : q # p + 1 => query'[q] = query[q]
           /\ todo' \in Seq(Work(made))
           /\ \A w, q : Has(todo', Do(w, q)) =>
                 Has(todo, Do(w, q)) \/ (w \in {"generate", "refresh"} /\ q = p + 1)
           /\ \A w, q : Has(todo, Do(w, q)) => Has(todo', Do(w, q)) \/ Do(w, q) = Do("generate", p)
           /\ p < made => Has(todo', Do("generate", p + 1)) /\ Has(todo', Do("refresh", p + 1))
<1> DEFINE g == query[p] \cap Inner(p)
           rest == Tail(todo)
<1>1. /\ p \in 1..made /\ rest \in Seq(Work(made))
      /\ \A e : Has(todo, e) <=> (e = Do("generate", p) \/ Has(rest, e))
  BY AtHand DEF Generate
<1>2. /\ made \in Nat /\ 1..made \subseteq Panes
      /\ query \in [Panes -> SUBSET Tracks] /\ generated \in [Panes -> SUBSET Tracks]
      /\ g \in SUBSET Tracks
  BY FiltersAssumption DEF TypeOK, Panes
<1>3. generated' = [generated EXCEPT ![p] = g]  BY DEF Generate
<1> HIDE DEF g, rest
<1>4. /\ generated' \in [Panes -> SUBSET Tracks] /\ generated'[p] = g
      /\ \A q \in Panes : q # p => generated'[q] = generated[q]
  BY <1>2, <1>3
<1>5. CASE /\ p < made /\ query' = [query EXCEPT ![p + 1] = g]
           /\ todo' = <<Do("generate", p + 1), Do("refresh", p + 1)>> \o rest
  <2>1. p + 1 \in 1..made /\ p + 1 \in Panes  BY <1>1, <1>2, <1>5
  <2>2. /\ query' \in [Panes -> SUBSET Tracks] /\ query'[p + 1] = g
        /\ \A q \in Panes : q # p + 1 => query'[q] = query[q]
    BY <1>2, <1>5, <2>1
  <2>3. Do("generate", p + 1) \in Work(made) /\ Do("refresh", p + 1) \in Work(made)
    BY <2>1, DoSame
  <2>4. /\ todo' \in Seq(Work(made))
        /\ \A e : Has(todo', e) <=> \/ e = Do("generate", p + 1) \/ e = Do("refresh", p + 1)
                                    \/ Has(rest, e)
    BY <1>1, <1>5, <2>3, TwoBefore
  <2> QED  BY <1>1, <1>4, <2>2, <2>4, DoSame DEF g
<1>6. CASE p >= made /\ todo' = rest /\ UNCHANGED query
  BY <1>1, <1>2, <1>4, <1>6 DEF g
<1> QED  BY <1>5, <1>6 DEF Generate, SetQuery, g, rest

LEMMA GenerateKeeps ==
    ASSUME IInv, NEW p \in Panes, Generate(p)
    PROVE  IInv'
<1>1. TypeOK /\ SelectionKept /\ Chained /\ ShownOrDue /\ BlindHear  BY DEF IInv
<1>2. UNCHANGED <<lib, scans, heard, events, made, blind, selected, values, timers, docs, missed>>
  BY DEF Generate, chosen
<1>3. /\ p \in 1..made /\ Has(todo, Do("generate", p))
      /\ query' \in [Panes -> SUBSET Tracks] /\ generated' \in [Panes -> SUBSET Tracks]
      /\ generated'[p] = query[p] \cap Inner(p)
      /\ \A q \in Panes : q # p => generated'[q] = generated[q]
      /\ p < made => query'[p + 1] = generated'[p]
      /\ \A q \in Panes : q # p + 1 => query'[q] = query[q]
      /\ todo' \in Seq(Work(made))
      /\ \A w, q : Has(todo', Do(w, q)) =>
            Has(todo, Do(w, q)) \/ (w \in {"generate", "refresh"} /\ q = p + 1)
      /\ \A w, q : Has(todo, Do(w, q)) => Has(todo', Do(w, q)) \/ Do(w, q) = Do("generate", p)
      /\ p < made => Has(todo', Do("generate", p + 1)) /\ Has(todo', Do("refresh", p + 1))
  BY <1>1, Generated
<1>4. made \in Nat /\ 1..made \subseteq Panes  BY <1>1, FiltersAssumption DEF TypeOK, Panes
<1>5. TypeOK'  BY <1>1, <1>2, <1>3 DEF TypeOK, scans
<1>6. SelectionKept'  BY <1>1, <1>2, <1>3, SameSelection
<1>7. SignalsInOrder' /\ EventsInOrder' /\ \A q : Coming(q)' <=> Coming(q)
  BY <1>2, SameSignals DEF IInv, SignalsInOrder
<1>8. ShownOrDue'
  <2>1. UNCHANGED <<lib, waiting, docs, made, missed>>  BY <1>2 DEF scans
  <2>2. ASSUME NEW q \in 1..made
        PROVE  \/ Has(todo', Do("refresh", q)) \/ Has(todo', Do("answer", q))
               \/ /\ query'[q] = query[q]
                  /\ ~Has(todo, Do("refresh", q)) /\ ~Has(todo, Do("answer", q))
    <3>1. CASE q = p + 1  BY <1>3, <1>4, <3>1
    <3>2. CASE q # p + 1
      <4>1. Do("refresh", q) # Do("generate", p) /\ Do("answer", q) # Do("generate", p)
        BY DoSame
      <4> QED  BY <1>3, <1>4, <3>2, <4>1
    <3> QED  BY <3>1, <3>2
  <2> QED  BY <1>1, <1>7, <2>1, <2>2, SameShown
<1>9. Chained'
  <2>1. ASSUME NEW q \in 1..made
        PROVE  /\ q < made => query'[q + 1] = generated'[q]
               /\ \/ q \in timers' \/ Has(todo', Do("generate", q))
                  \/ generated'[q] = query'[q] \cap Inner(q)'
    <3>1. q < made => query'[q + 1] = generated'[q]
      <4>1. CASE q = p  BY <1>3, <4>1
      <4>2. CASE q # p /\ q < made
        <5>1. q \in Panes /\ q + 1 \in Panes /\ q + 1 # p + 1
          BY <1>3, <1>4, <4>2, FiltersAssumption DEF Panes
        <5> QED  BY <1>1, <1>3, <4>2, <5>1 DEF Chained
      <4> QED  BY <4>1, <4>2
    <3>2. Inner(q)' = Inner(q) /\ timers' = timers  BY <1>2 DEF Inner
    <3>3. CASE q = p + 1  BY <1>3, <1>4, <3>1, <3>3
    <3>4. CASE q = p
      <4>1. query'[p] = query[p]  BY <1>3, <1>4
      <4>2. generated'[q] = query'[q] \cap Inner(q)  BY <1>3, <3>4, <4>1
      <4> QED  BY <3>1, <3>2, <4>2
    <3>5. CASE q # p /\ q # p + 1
      <4>1. Do("generate", q) # Do("generate", p)  BY <3>5, DoSame
      <4>2. q \in Panes  BY <1>4
      <4>3. query'[q] = query[q] /\ generated'[q] = generated[q]  BY <1>3, <3>5, <4>2
      <4>4. Has(todo, Do("generate", q)) => Has(todo', Do("generate", q))  BY <1>3, <4>1
      <4> QED  BY <1>1, <3>1, <3>2, <4>3, <4>4 DEF Chained
    <3> QED  BY <3>1, <3>3, <3>4, <3>5
  <2> QED  BY <1>2, <2>1 DEF Chained
<1>10. BlindHear'  BY <1>1, <1>2, <1>7 DEF BlindHear
<1> QED  BY <1>5, <1>6, <1>7, <1>8, <1>9, <1>10 DEF IInv

\* A selection that changed goes into the values, and leads to a new query.
LEMMA Selected ==
    ASSUME TypeOK, values = selected, NEW p \in Panes, p <= made, NEW rows \in SUBSET Fields,
           NEW rest \in Seq(Work(made)), Selection(p, rows, rest)
    PROVE  /\ selected' \in [Panes -> SUBSET Fields] /\ values' = selected'
           /\ selected'[p] = rows /\ \A q \in Panes : q # p => selected'[q] = selected[q]
           /\ timers' \subseteq Delayed /\ timers \subseteq timers'
           /\ todo' \in Seq(Work(made))
           /\ \A w, q : Has(todo', Do(w, q)) => Has(rest, Do(w, q)) \/ Do(w, q) = Do("generate", p)
           /\ \A w, q : Has(rest, Do(w, q)) => Has(todo', Do(w, q))
           /\ \/ rows = selected[p] \/ p \in timers' \/ Has(todo', Do("generate", p))
<1>1. /\ selected \in [Panes -> SUBSET Fields] /\ timers \subseteq Delayed
      /\ p \in 1..made
  BY FiltersAssumption DEF TypeOK, Panes
<1>2. CASE rows = selected[p] /\ todo' = rest /\ UNCHANGED chosen
  BY <1>1, <1>2 DEF chosen
<1>3. CASE rows # selected[p] /\ SelectionChanged(p, rows)
  <2>1. /\ selected' \in [Panes -> SUBSET Fields] /\ selected'[p] = rows
        /\ \A q \in Panes : q # p => selected'[q] = selected[q]
    BY <1>1, <1>3 DEF SelectionChanged
  <2>2. values' = selected'
    <3>1. values' = [selected EXCEPT ![p] =
                       (selected[p] \cup (rows \ selected[p])) \ (selected[p] \ rows)]
      BY <1>1, <1>3 DEF SelectionChanged
    <3>2. (selected[p] \cup (rows \ selected[p])) \ (selected[p] \ rows) = rows  OBVIOUS
    <3>3. selected' = [selected EXCEPT ![p] = rows]  BY <1>3 DEF SelectionChanged
    <3> QED  BY <3>1, <3>2, <3>3
  <2>3. CASE p \in Delayed /\ timers' = timers \cup {p} /\ todo' = rest
    BY <1>1, <2>1, <2>2, <2>3
  <2>4. CASE p \notin Delayed /\ todo' = <<Do("generate", p)>> \o rest /\ UNCHANGED timers
    <3>1. Do("generate", p) \in Work(made)  BY <1>1, DoSame
    <3>2. /\ todo' \in Seq(Work(made))
          /\ \A e : Has(todo', e) <=> (e = Do("generate", p) \/ Has(rest, e))
      BY <2>4, <3>1, OneBefore
    <3> QED  BY <1>1, <2>1, <2>2, <2>4, <3>2
  <2> QED  BY <1>2, <1>3, <2>3, <2>4 DEF Selection
<1> QED  BY <1>2, <1>3 DEF Selection

\* What a pane makes of its selection is as before unless that has changed.
LEMMA SelectionChains ==
    ASSUME Chained, values = selected, NEW p \in Panes, NEW rows,
           UNCHANGED <<made, queries>>, made \in 0..N,
           values' = selected', selected'[p] = rows,
           \A q \in Panes : q # p => selected'[q] = selected[q],
           timers \subseteq timers',
           \A q : Has(todo, Do("generate", q)) => Has(todo', Do("generate", q)),
           rows = selected[p] \/ p \in timers' \/ Has(todo', Do("generate", p))
    PROVE  Chained'
<1>1. made' = made /\ query' = query /\ generated' = generated  BY DEF queries
<1>2. ASSUME NEW q \in 1..made
      PROVE  \/ q \in timers' \/ Has(todo', Do("generate", q))
             \/ generated[q] = query[q] \cap Inner(q)'
  <2>1. q \in Panes  BY FiltersAssumption DEF Panes
  <2>2. CASE selected'[q] = selected[q]
    <3>1. Inner(q)' = Inner(q)  BY <2>2 DEF Inner
    <3> QED  BY <3>1 DEF Chained
  <2>3. CASE selected'[q] # selected[q]  BY <2>1, <2>3
  <2> QED  BY <2>2, <2>3
<1> QED  BY <1>1, <1>2 DEF Chained

LEMMA RefreshKeeps ==
    ASSUME IInv, NEW p \in Panes, Refresh(p)
    PROVE  IInv'
<1> DEFINE rest == <<Do("answer", p)>> \o Tail(todo)
<1>1. TypeOK /\ SelectionKept /\ Chained /\ ShownOrDue /\ BlindHear /\ values = selected
  BY DEF IInv, SelectionKept
<1>2. UNCHANGED <<lib, scans, heard, events, made, blind, queries, docs, missed>>
  BY DEF Refresh
<1>3. /\ p \in 1..made /\ Tail(todo) \in Seq(Work(made))
      /\ \A e : Has(todo, e) <=> (e = Do("refresh", p) \/ Has(Tail(todo), e))
  BY <1>1, AtHand DEF Refresh
<1>4. /\ rest \in Seq(Work(made))
      /\ \A e : Has(rest, e) <=> (e = Do("answer", p) \/ Has(Tail(todo), e))
  <2>1. Do("answer", p) \in Work(made)  BY <1>3, DoSame
  <2> QED  BY <1>3, <2>1, OneBefore
<1>5. Selection(p, {}, rest)  BY DEF Refresh
<1> HIDE DEF rest
<1>6. made \in 0..N /\ made \in Nat /\ 1..made \subseteq Panes /\ p <= made
  BY <1>1, <1>3, FiltersAssumption DEF TypeOK, Panes
<1>7. /\ selected' \in [Panes -> SUBSET Fields] /\ values' = selected'
      /\ selected'[p] = {} /\ \A q \in Panes : q # p => selected'[q] = selected[q]
      /\ timers' \subseteq Delayed /\ timers \subseteq timers'
      /\ todo' \in Seq(Work(made))
      /\ \A w, q : Has(todo', Do(w, q)) => Has(rest, Do(w, q)) \/ Do(w, q) = Do("generate", p)
      /\ \A w, q : Has(rest, Do(w, q)) => Has(todo', Do(w, q))
      /\ \/ {} = selected[p] \/ p \in timers' \/ Has(todo', Do("generate", p))
  BY <1>1, <1>4, <1>5, <1>6, Selected
<1>8. TypeOK'  BY <1>1, <1>2, <1>7 DEF TypeOK, scans, queries
<1>9. SelectionKept'
  <2>1. ASSUME NEW q \in Panes PROVE selected'[q] \subseteq docs'[q]
    BY <1>1, <1>2, <1>7 DEF SelectionKept
  <2>2. ASSUME NEW q \in Panes, Has(todo', Do("answer", q)) PROVE selected'[q] = {}
    <3>1. CASE q = p  BY <1>7, <3>1
    <3>2. CASE q # p
      <4>1. /\ Do("answer", q) # Do("generate", p) /\ Do("answer", q) # Do("answer", p)
            /\ Do("answer", q) # Do("refresh", p)
        BY <3>2, DoSame
      <4>2. Has(todo, Do("answer", q))  BY <1>3, <1>4, <1>7, <2>2, <4>1
      <4> QED  BY <1>1, <1>7, <3>2, <4>2 DEF SelectionKept
    <3> QED  BY <3>1, <3>2
  <2> QED  BY <1>7, <2>1, <2>2 DEF SelectionKept
<1>10. \A w, q : Has(todo, Do(w, q)) => Has(todo', Do(w, q)) \/ Do(w, q) = Do("refresh", p)
  BY <1>3, <1>4, <1>7
<1>11. Chained'
  <2>1. \A q : Has(todo, Do("generate", q)) => Has(todo', Do("generate", q))
    BY <1>10, DoSame
  <2>2. UNCHANGED <<made, queries>>  BY <1>2
  <2> QED  BY <1>1, <1>6, <1>7, <2>1, <2>2, SelectionChains
<1>12. SignalsInOrder' /\ EventsInOrder' /\ \A q : Coming(q)' <=> Coming(q)
  BY <1>2, SameSignals DEF IInv, SignalsInOrder
<1>13. ShownOrDue'
  <2>1. UNCHANGED <<lib, waiting, docs, made, missed>>  BY <1>2 DEF scans
  <2>2. ASSUME NEW q \in 1..made
        PROVE  \/ Has(todo', Do("refresh", q)) \/ Has(todo', Do("answer", q))
               \/ /\ query'[q] = query[q]
                  /\ ~Has(todo, Do("refresh", q)) /\ ~Has(todo, Do("answer", q))
    <3>1. CASE q = p  BY <1>4, <1>7, <3>1
    <3>2. CASE q # p
      <4>1. Do("refresh", q) # Do("refresh", p) /\ Do("answer", q) # Do("refresh", p)
        BY <3>2, DoSame
      <4> QED  BY <1>2, <1>10, <4>1 DEF queries
    <3> QED  BY <3>1, <3>2
  <2> QED  BY <1>1, <1>12, <2>1, <2>2, SameShown
<1>14. BlindHear'  BY <1>1, <1>2, <1>12 DEF BlindHear
<1> QED  BY <1>8, <1>9, <1>11, <1>12, <1>13, <1>14 DEF IInv

LEMMA NothingToDo ==
    ASSUME todo = <<>>
    PROVE  \A e : ~Has(todo, e)
<1>1. 1..Len(todo) = {}  OBVIOUS
<1> QED  BY <1>1 DEF Has

LEMMA SelectKeeps ==
    ASSUME IInv, NEW p \in Panes, Select(p)
    PROVE  IInv'
<1>1. TypeOK /\ SelectionKept /\ Chained /\ ShownOrDue /\ BlindHear /\ values = selected
  BY DEF IInv, SelectionKept
<1>2. UNCHANGED <<lib, scans, heard, events, made, blind, queries, docs, missed>>
  BY DEF Select
<1>3. made = N /\ todo = <<>> /\ \A e : ~Has(todo, e)  BY NothingToDo DEF Select, Loop
<1>4. PICK rows \in SUBSET docs[p] : rows # selected[p] /\ Selection(p, rows, <<>>)
  BY DEF Select
<1>5. made \in 0..N /\ p <= made /\ rows \in SUBSET Fields /\ <<>> \in Seq(Work(made))
  BY <1>1, <1>3, FiltersAssumption DEF TypeOK, Panes
<1>6. \A e : ~Has(<<>>, e)  BY <1>3
<1>7. /\ selected' \in [Panes -> SUBSET Fields] /\ values' = selected'
      /\ selected'[p] = rows /\ \A q \in Panes : q # p => selected'[q] = selected[q]
      /\ timers' \subseteq Delayed /\ timers \subseteq timers'
      /\ todo' \in Seq(Work(made))
      /\ \A w, q : Has(todo', Do(w, q)) => Has(<<>>, Do(w, q)) \/ Do(w, q) = Do("generate", p)
      /\ \A w, q : Has(<<>>, Do(w, q)) => Has(todo', Do(w, q))
      /\ \/ rows = selected[p] \/ p \in timers' \/ Has(todo', Do("generate", p))
  BY <1>1, <1>4, <1>5, Selected
<1>8. TypeOK'  BY <1>1, <1>2, <1>7 DEF TypeOK, scans, queries
<1>9. SelectionKept'
  <2>1. ASSUME NEW q \in Panes PROVE selected'[q] \subseteq docs'[q]
    BY <1>1, <1>2, <1>4, <1>7 DEF SelectionKept
  <2>2. \A q : ~Has(todo', Do("answer", q))  BY <1>6, <1>7, DoSame
  <2> QED  BY <1>7, <2>1, <2>2 DEF SelectionKept
<1>10. Chained'
  <2>1. \A q : Has(todo, Do("generate", q)) => Has(todo', Do("generate", q))  BY <1>3
  <2>2. UNCHANGED <<made, queries>>  BY <1>2
  <2> QED  BY <1>1, <1>5, <1>7, <2>1, <2>2, SelectionChains
<1>11. SignalsInOrder' /\ EventsInOrder' /\ \A q : Coming(q)' <=> Coming(q)
  BY <1>2, SameSignals DEF IInv, SignalsInOrder
<1>12. ShownOrDue'
  <2>1. UNCHANGED <<lib, waiting, docs, made, missed, query>>  BY <1>2 DEF scans, queries
  <2> QED  BY <1>1, <1>3, <1>11, <2>1, SameShown
<1>13. BlindHear'  BY <1>1, <1>2, <1>11 DEF BlindHear
<1> QED  BY <1>8, <1>9, <1>10, <1>11, <1>12, <1>13 DEF IInv

\* A pane whose query is as it was has generated as it had, or is to generate.
LEMMA SameChain ==
    ASSUME Chained, UNCHANGED <<made, queries, values>>,
           \A q \in 1..made : q \in timers => q \in timers' \/ Has(todo', Do("generate", q)),
           \A q \in 1..made : Has(todo, Do("generate", q)) => Has(todo', Do("generate", q))
    PROVE  Chained'
<1>1. made' = made /\ query' = query /\ generated' = generated  BY DEF queries
<1>2. \A q : Inner(q)' = Inner(q)  BY DEF Inner
<1> QED  BY <1>1, <1>2 DEF Chained

LEMMA AnswerKeeps ==
    ASSUME IInv, NEW p \in Panes, Answer(p)
    PROVE  IInv'
<1> DEFINE found == {Named(t, p) : t \in Execute(p)}
<1>1. TypeOK /\ SelectionKept /\ Chained /\ ShownOrDue /\ BlindHear  BY DEF IInv
<1>2. /\ UNCHANGED <<lib, scans, heard, events, made, blind, queries, selected, values, timers, missed>>
      /\ docs' = [docs EXCEPT ![p] = found] /\ todo' = Tail(todo)
  BY DEF Answer, SetDocs, chosen
<1>3. /\ p \in 1..made /\ Tail(todo) \in Seq(Work(made))
      /\ \A e : Has(todo, e) <=> (e = Do("answer", p) \/ Has(Tail(todo), e))
  BY <1>1, AtHand DEF Answer
<1>4. made \in Nat /\ 1..made \subseteq Panes  BY <1>1, FiltersAssumption DEF TypeOK, Panes
<1>5. found \in SUBSET Fields
  <2>1. Execute(p) \subseteq Tracks  BY <1>1 DEF Execute, Find, TypeOK
  <2> QED  BY <2>1 DEF Fields, Named
<1>6. /\ docs' \in [Panes -> SUBSET Fields] /\ docs'[p] = found
      /\ \A q \in Panes : q # p => docs'[q] = docs[q]
  <2>1. docs \in [Panes -> SUBSET Fields]  BY <1>1 DEF TypeOK
  <2> HIDE DEF found
  <2> QED  BY <1>2, <1>5, <2>1
<1>7. TypeOK'  BY <1>1, <1>2, <1>3, <1>6 DEF TypeOK, scans, queries
<1>8. \A w, q : Has(todo, Do(w, q)) => Has(todo', Do(w, q)) \/ Do(w, q) = Do("answer", p)
  BY <1>2, <1>3
<1>9. SelectionKept'
  <2>1. selected[p] = {}  BY <1>1, <1>3 DEF SelectionKept
  <2>2. \A q \in Panes : selected'[q] \subseteq docs'[q]
    BY <1>1, <1>2, <1>6, <2>1 DEF SelectionKept
  <2>3. \A q \in Panes : Has(todo', Do("answer", q)) => selected'[q] = {}
    BY <1>1, <1>2, <1>3 DEF SelectionKept
  <2> QED  BY <1>1, <1>2, <2>2, <2>3 DEF SelectionKept
<1>10. Chained'  BY <1>1, <1>2, <1>8, SameChain, DoSame
<1>11. SignalsInOrder' /\ EventsInOrder' /\ \A q : Coming(q)' <=> Coming(q)
  BY <1>2, SameSignals DEF IInv, SignalsInOrder
<1>12. BlindHear'  BY <1>1, <1>2, <1>11 DEF BlindHear
<1>13. ShownOrDue'
  <2> SUFFICES ASSUME NEW q \in (1..made) \ missed
               PROVE  \/ Shown(q)' \/ waiting' > 0 \/ Coming(q)'
                      \/ Has(todo', Do("refresh", q)) \/ Has(todo', Do("answer", q))
    BY <1>2 DEF ShownOrDue
  <2>1. CASE q = p /\ p \notin blind
    <3>1. found = {Named(t, p) : t \in Find(query[p])}  BY <2>1 DEF Execute
    <3>2. Shown(p)'  BY <1>2, <1>6, <3>1 DEF Shown, Find, queries
    <3> QED  BY <2>1, <3>2
  <2>2. CASE q = p /\ p \in blind  BY <1>1, <1>11, <2>2 DEF BlindHear
  <2>3. CASE q # p
    <3>1. Do("refresh", q) # Do("answer", p) /\ Do("answer", q) # Do("answer", p)
      BY <2>3, DoSame
    <3>2. Shown(q)' <=> Shown(q)  BY <1>2, <1>4, <1>6, <2>3 DEF Shown, Find, queries
    <3>3. waiting' = waiting  BY <1>2 DEF scans
    <3> QED  BY <1>1, <1>8, <1>11, <3>1, <3>2, <3>3 DEF ShownOrDue
  <2> QED  BY <2>1, <2>2, <2>3
<1> QED  BY <1>7, <1>9, <1>10, <1>11, <1>12, <1>13 DEF IInv

LEMMA OneToDo ==
    ASSUME NEW w \in {"generate", "refresh", "answer"}, NEW n, NEW p \in 1..n
    PROVE  <<Do(w, p)>> \in Seq(Work(n)) /\ \A e : Has(<<Do(w, p)>>, e) <=> e = Do(w, p)
<1>1. Do(w, p) \in Work(n)  BY DoSame
<1> DEFINE s == <<Do(w, p)>>
<1> HIDE DEF Do
<1>2. s \in Seq(Work(n)) /\ Len(s) = 1 /\ s[1] = Do(w, p)  BY <1>1
<1>3. 1..1 = {1}  OBVIOUS
<1> QED  BY <1>2, <1>3 DEF Has

LEMMA TimeoutKeeps ==
    ASSUME IInv, NEW p \in Panes, Timeout(p)
    PROVE  IInv'
<1>1. TypeOK /\ SelectionKept /\ Chained /\ ShownOrDue /\ BlindHear  BY DEF IInv
<1>2. /\ UNCHANGED <<lib, scans, heard, events, made, blind, queries, selected, values, docs, missed>>
      /\ timers' = timers \ {p} /\ todo' = <<Do("generate", p)>>
  BY DEF Timeout
<1>3. made = N /\ \A e : ~Has(todo, e)  BY NothingToDo DEF Timeout, Loop
<1>4. p \in 1..made  BY <1>3 DEF Panes
<1>5. todo' \in Seq(Work(made)) /\ \A e : Has(todo', e) <=> e = Do("generate", p)
  BY <1>2, <1>4, OneToDo
<1>6. TypeOK'  BY <1>1, <1>2, <1>5 DEF TypeOK, scans, queries
<1>7. SelectionKept'
  <2>1. \A q : ~Has(todo', Do("answer", q))  BY <1>5, DoSame
  <2> QED  BY <1>1, <1>2, <2>1, SameSelection
<1>8. Chained'
  <2>1. \A q \in 1..made : q \in timers => q \in timers' \/ Has(todo', Do("generate", q))
    BY <1>2, <1>5
  <2> QED  BY <1>1, <1>2, <1>3, <2>1, SameChain
<1>9. SignalsInOrder' /\ EventsInOrder' /\ \A q : Coming(q)' <=> Coming(q)
  BY <1>2, SameSignals DEF IInv, SignalsInOrder
<1>10. BlindHear'  BY <1>1, <1>2, <1>9 DEF BlindHear
<1>11. ShownOrDue'
  <2>1. UNCHANGED <<lib, waiting, docs, made, missed, query>>  BY <1>2 DEF scans, queries
  <2> QED  BY <1>1, <1>3, <1>9, <2>1, SameShown
<1> QED  BY <1>6, <1>7, <1>8, <1>9, <1>10, <1>11 DEF IInv
-----------------------------------------------------------------------------
(* The window is made *)

LEMMA ListenKeeps ==
    ASSUME IInv, Listen
    PROVE  IInv'
<1>1. /\ TypeOK /\ SelectionKept /\ Chained /\ ShownOrDue /\ BlindHear
      /\ SignalsInOrder /\ EventsInOrder
  BY DEF IInv
<1>2. /\ heard' = TRUE
      /\ UNCHANGED <<lib, scanning, waiting, running, posted, sigq, events, made, blind, query,
                     generated, selected, values, timers, docs, todo, missed>>
  BY DEF Listen, scans, panes, queries, chosen
<1>3. TypeOK'  BY <1>1, <1>2 DEF TypeOK
<1>4. SelectionKept'  BY <1>1, <1>2 DEF SelectionKept
<1>5. Chained'  BY <1>1, <1>2, SameChain DEF queries
<1>6. SignalsInOrder'  BY <1>1, <1>2 DEF SignalsInOrder
<1>7. ToBeTold' <=> ToBeTold  BY <1>2 DEF ToBeTold, Has
<1>8. \A q : Coming(q)' <=> Coming(q)  BY <1>2, <1>7 DEF Coming, Has
<1>9. EventsInOrder'  BY <1>1, <1>2, <1>7 DEF EventsInOrder
<1>10. BlindHear'  BY <1>1, <1>2, <1>8 DEF BlindHear
<1>11. ShownOrDue'  BY <1>1, <1>2, <1>8 DEF ShownOrDue, Shown, Find
<1> QED  BY <1>3, <1>4, <1>5, <1>6, <1>9, <1>10, <1>11 DEF IInv

\* The work and the events of some panes are those of more.
LEMMA MorePanes ==
    ASSUME NEW m \in Nat, NEW n \in Nat, m <= n
    PROVE  /\ \A s \in Seq(Work(m)) : s \in Seq(Work(n))
           /\ \A s \in Seq(News(m)) : s \in Seq(News(n))
<1>1. Work(m) \subseteq Work(n) /\ News(m) \subseteq News(n)  BY DEF Work, News
<1> HIDE DEF Work, News
<1> QED  BY <1>1, SeqMonotonic

LEMMA CreatePaneKeeps ==
    ASSUME IInv, CreatePane
    PROVE  IInv'
<1> DEFINE p == made + 1
<1>1. /\ TypeOK /\ SelectionKept /\ Chained /\ ShownOrDue /\ BlindHear
      /\ SignalsInOrder /\ EventsInOrder
  BY DEF IInv
<1>2. /\ UNCHANGED <<lib, scans, heard, events, generated, selected, values, timers, docs>>
      /\ heard /\ made < N /\ todo = <<>> /\ made' = p
      /\ blind' = (IF scanning THEN blind \cup {p} ELSE blind)
      /\ query' = [query EXCEPT ![p] = Inherited(p)]
      /\ todo' = <<Do("generate", p), Do("refresh", p)>> \o <<>>
  BY DEF CreatePane, Build, SetQuery, chosen
<1>3. missed' = IF scanning /\ \E i \in DOMAIN sigq : sigq[i].what = "ended" /\ ~sigq[i].heard
                THEN missed \cup {p} ELSE missed
  BY DEF CreatePane
<1>4. /\ made \in Nat /\ p \in Nat /\ made <= p /\ p \in Panes /\ p \in 1..p /\ p # 0
      /\ 1..p = (1..made) \cup {p} /\ p \notin 1..made /\ 1..made \subseteq Panes /\ p \in 0..N
  BY <1>1, <1>2, FiltersAssumption DEF TypeOK, Panes
<1> HIDE DEF p
<1>5. Inherited(p) \in SUBSET Tracks /\ (p > 1 => Inherited(p) = generated[p - 1])
  <2>1. CASE p = 1  BY <2>1 DEF Inherited
  <2>2. CASE p # 1
    <3>1. p - 1 \in Panes /\ Inherited(p) = generated[p - 1]
      BY <1>4, <2>2, FiltersAssumption DEF Panes, Inherited
    <3> QED  BY <1>1, <3>1 DEF TypeOK
  <2> QED  BY <2>1, <2>2
<1>6. /\ query' \in [Panes -> SUBSET Tracks] /\ query'[p] = Inherited(p)
      /\ \A q \in Panes : q # p => query'[q] = query[q]
  BY <1>1, <1>2, <1>4, <1>5 DEF TypeOK
<1>7. /\ todo' \in Seq(Work(p))
      /\ \A e : Has(todo', e) <=> e \in {Do("generate", p), Do("refresh", p)}
  <2>1. <<>> \in Seq(Work(p)) /\ \A e : ~Has(<<>>, e)  BY <1>2, NothingToDo
  <2>2. Do("generate", p) \in Work(p) /\ Do("refresh", p) \in Work(p)  BY <1>4, DoSame
  <2> QED  BY <1>2, <2>1, <2>2, TwoBefore
<1>8. \A e : ~Has(todo, e)  BY <1>2, NothingToDo
<1>9. TypeOK'
  <2>1. events' \in Seq(News(p))  BY <1>1, <1>2, <1>4, MorePanes DEF TypeOK
  <2>2. blind' \subseteq 1..p /\ missed' \subseteq blind'
    BY <1>1, <1>2, <1>3, <1>4 DEF TypeOK
  <2> QED  BY <1>1, <1>2, <1>4, <1>6, <1>7, <2>1, <2>2 DEF TypeOK, scans
<1>10. SelectionKept'
  <2>1. \A q : ~Has(todo', Do("answer", q))  BY <1>7, DoSame
  <2>2. UNCHANGED <<selected, values, docs>>  BY <1>2
  <2> QED  BY <1>1, <2>1, <2>2, SameSelection
<1>11. SignalsInOrder' /\ EventsInOrder' /\ \A q : Coming(q)' <=> Coming(q)
  BY <1>1, <1>2, SameSignals
<1>12. Chained'
  <2>1. ASSUME NEW q \in 1..p
        PROVE  /\ q < p => query'[q + 1] = generated'[q]
               /\ \/ q \in timers' \/ Has(todo', Do("generate", q))
                  \/ generated'[q] = query'[q] \cap Inner(q)'
    <3>1. Inner(q)' = Inner(q) /\ generated' = generated /\ timers' = timers
      BY <1>2 DEF Inner
    <3>2. CASE q = p  BY <1>4, <1>7, <3>2
    <3>3. CASE q # p
      <4>1. q \in 1..made /\ q \in Panes  BY <1>4, <3>3
      <4>2. query'[q] = query[q]  BY <1>6, <3>3, <4>1
      <4>3. q \in timers' \/ generated'[q] = query'[q] \cap Inner(q)'
        BY <1>1, <1>8, <3>1, <4>1, <4>2 DEF Chained
      <4>4. CASE q < made
        <5>1. q + 1 \in Panes /\ q + 1 # p  BY <1>4, <4>1, <4>4 DEF p
        <5> QED  BY <1>1, <1>6, <3>1, <4>1, <4>3, <4>4, <5>1 DEF Chained
      <4>5. CASE q = made
        <5>1. q + 1 = p /\ p - 1 = q /\ p > 1  BY <1>4, <4>1, <4>5 DEF p
        <5> QED  BY <1>5, <1>6, <3>1, <4>3, <5>1
      <4> QED  BY <1>4, <4>1, <4>4, <4>5
    <3> QED  BY <3>2, <3>3
  <2> QED  BY <1>2, <2>1 DEF Chained
<1>13. BlindHear'
  <2> SUFFICES ASSUME NEW q \in blind' \ missed' PROVE Coming(q)
    BY <1>11 DEF BlindHear
  <2>1. CASE q \in blind \ missed  BY <1>1, <2>1 DEF BlindHear
  <2>2. CASE q = p /\ scanning
    <3>1. running > 0 \/ \E i \in 1..Len(sigq) : sigq[i].what = "ended"
      BY <1>1, <2>2 DEF SignalsInOrder
    <3>2. ASSUME NEW i \in 1..Len(sigq), sigq[i].what = "ended" PROVE ToBeTold
      <4>1. sigq \in Seq(Signal) /\ DOMAIN sigq = 1..Len(sigq)  BY <1>1, LenProperties DEF TypeOK
      <4>2. sigq[i] \in Signal  BY <4>1, ElementOfSeq
      <4>3. sigq[i].heard  BY <1>3, <2>2, <3>2, <4>1
      <4>4. sigq[i] = [what |-> "ended", heard |-> TRUE]  BY <3>2, <4>2, <4>3 DEF Signal
      <4> QED  BY <4>4 DEF ToBeTold, Has
    <3> QED  BY <3>1, <3>2 DEF Coming, ToBeTold
  <2> QED  BY <1>1, <1>2, <1>3, <1>4, <2>1, <2>2 DEF TypeOK
<1>14. ShownOrDue'
  <2> SUFFICES ASSUME NEW q \in (1..p) \ missed'
               PROVE  \/ Shown(q)' \/ waiting' > 0 \/ Coming(q)'
                      \/ Has(todo', Do("refresh", q)) \/ Has(todo', Do("answer", q))
    BY <1>2 DEF ShownOrDue
  <2>1. CASE q = p  BY <1>7, <2>1
  <2>2. CASE q # p
    <3>1. q \in (1..made) \ missed /\ q \in Panes  BY <1>3, <1>4, <2>2
    <3>2. Shown(q)' <=> Shown(q)  BY <1>2, <1>6, <2>2, <3>1 DEF Shown, Find
    <3>3. Shown(q) \/ waiting > 0 \/ Coming(q)  BY <1>1, <1>8, <3>1 DEF ShownOrDue
    <3>4. waiting' = waiting  BY <1>2 DEF scans
    <3> QED  BY <1>11, <3>2, <3>3, <3>4
  <2> QED  BY <2>1, <2>2
<1> QED  BY <1>9, <1>10, <1>11, <1>12, <1>13, <1>14 DEF IInv
-----------------------------------------------------------------------------
(* The scans *)

EndHeard == [what |-> "ended", heard |-> TRUE]

\* While the end of a scan is yet to be told, any pane may show anything ...
LEMMA YetToTell ==
    ASSUME ToBeTold'
    PROVE  EventsInOrder' /\ BlindHear' /\ ShownOrDue'
<1>1. \A q : Coming(q)'  BY DEF Coming
<1> QED  BY <1>1 DEF EventsInOrder, BlindHear, ShownOrDue

\* ... and where there are none, none does.
LEMMA NoPanes ==
    ASSUME TypeOK', made' = 0
    PROVE  EventsInOrder' /\ BlindHear' /\ ShownOrDue'
<1>1. 1..0 = {}  OBVIOUS
<1>2. blind' = {}  BY <1>1 DEF TypeOK
<1>3. 1..Len(events') = {}
  <2>1. events' \in Seq(News(0))  BY DEF TypeOK
  <2>2. ASSUME NEW i \in 1..Len(events') PROVE FALSE
    <3>1. events'[i] \in News(0)  BY <2>1, ElementOfSeq
    <3> QED  BY <1>1, <3>1 DEF News
  <2> QED  BY <2>2
<1> QED  BY <1>1, <1>2, <1>3 DEF EventsInOrder, BlindHear, ShownOrDue

\* Scans do not touch the panes.
LEMMA PanesKept ==
    ASSUME SelectionKept, Chained, UNCHANGED <<panes, todo>>
    PROVE  SelectionKept' /\ Chained'
<1>1. UNCHANGED <<made, query, generated, selected, values, timers, docs, todo>>
  BY DEF panes, queries, chosen
<1>2. SelectionKept'  BY <1>1 DEF SelectionKept
<1>3. \A q : Inner(q)' = Inner(q)  BY <1>1 DEF Inner
<1> QED  BY <1>1, <1>2, <1>3 DEF Chained

\* A signal that is called comes last, heard if anything is.
LEMMA Called ==
    ASSUME TypeOK, SignalsInOrder, NEW w \in {"started", "ended"}, Call(w),
           UNCHANGED <<scanning, heard, made>>, w = "started" => running' > 0,
           running' > 0 \/ w = "ended"
    PROVE  /\ sigq' \in Seq(Signal) /\ SignalsInOrder'
           /\ heard /\ w = "ended" => ToBeTold'
<1> DEFINE c == [what |-> w, heard |-> heard]
<1>1. c \in Signal /\ sigq \in Seq(Signal) /\ sigq' = Append(sigq, c)
  BY DEF TypeOK, Signal, Call
<1>2. c.what = w /\ c.heard = heard /\ (heard /\ w = "ended" => c = EndHeard)
  BY DEF TypeOK, EndHeard
<1> HIDE DEF c
<1>3. /\ sigq' \in Seq(Signal) /\ Len(sigq) \in Nat /\ Len(sigq') = Len(sigq) + 1
      /\ sigq'[Len(sigq) + 1] = c /\ \A i \in 1..Len(sigq) : sigq'[i] = sigq[i]
  BY <1>1, AppendProperties, LenProperties
<1> DEFINE n == Len(sigq)
<1>4. Len(sigq') = n + 1 /\ n \in Nat /\ n + 1 \in 1..Len(sigq')
      /\ \A i \in 1..(n + 1) : i \in 1..n \/ i = n + 1
  BY <1>3
<1>5. ASSUME NEW i \in 1..(n + 1), sigq'[i].heard
      PROVE  heard /\ \A j \in i..(n + 1) : sigq'[j].heard
  <2>1. heard  BY <1>2, <1>3, <1>4, <1>5 DEF SignalsInOrder
  <2>2. ASSUME NEW j \in i..(n + 1) PROVE sigq'[j].heard
    <3>1. CASE j = n + 1  BY <1>2, <1>3, <2>1, <3>1
    <3>2. CASE j # n + 1
      <4>1. i \in 1..n /\ j \in i..n /\ j \in 1..n  BY <1>3, <3>2
      <4> QED  BY <1>3, <1>5, <4>1 DEF SignalsInOrder
    <3> QED  BY <3>1, <3>2
  <2> QED  BY <2>1, <2>2
<1>6. ASSUME NEW i \in 1..(n + 1), sigq'[i].what = "started", ~(running' > 0)
      PROVE  \E j \in (i + 1)..(n + 1) : sigq'[j].what = "ended"
  <2>1. w = "ended"  BY <1>6
  <2>2. i # n + 1  BY <1>2, <1>3, <1>6, <2>1
  <2>3. n + 1 \in (i + 1)..(n + 1)  BY <1>3, <2>2
  <2> QED  BY <1>2, <1>3, <2>1, <2>3
<1>7. running' > 0 \/ \E i \in 1..(n + 1) : sigq'[i].what = "ended"
  BY <1>2, <1>3, <1>4
<1>8. SignalsInOrder'
  <2>1. /\ \A i \in 1..Len(sigq') : sigq'[i].heard =>
              heard /\ \A j \in i..Len(sigq') : sigq'[j].heard
        /\ \A i \in 1..Len(sigq') : sigq'[i].what = "started"
              => running' > 0 \/ \E j \in (i + 1)..Len(sigq') : sigq'[j].what = "ended"
        /\ running' > 0 \/ \E i \in 1..Len(sigq') : sigq'[i].what = "ended"
    <3> HIDE DEF n
    <3> QED  BY <1>4, <1>5, <1>6, <1>7
  <2>2. heard' = heard /\ made' = made  OBVIOUS
  <2> QED  BY <2>1, <2>2 DEF SignalsInOrder
<1>9. heard /\ w = "ended" => Has(sigq', EndHeard)  BY <1>2, <1>3, <1>4 DEF Has
<1> QED  BY <1>3, <1>8, <1>9 DEF ToBeTold, EndHeard

LEMMA ScanStartsKeeps ==
    ASSUME IInv, ScanStarts
    PROVE  IInv'
<1>1. TypeOK /\ SelectionKept /\ Chained /\ SignalsInOrder  BY DEF IInv
<1>2. /\ waiting > 0 /\ waiting' = waiting - 1 /\ running' = running + 1 /\ Call("started")
      /\ UNCHANGED <<lib, scanning, posted, heard, events, panes, todo, missed>>
  BY DEF ScanStarts
<1>3. UNCHANGED <<made, blind, query, generated, selected, values, timers, docs>>
  BY <1>2 DEF panes, queries, chosen
<1>4. running' > 0 /\ running' \in Nat /\ waiting' \in Nat /\ waiting' + running' = waiting + running
  BY <1>1, <1>2 DEF TypeOK
<1>5. sigq' \in Seq(Signal) /\ SignalsInOrder'  BY <1>1, <1>2, <1>3, <1>4, Called
<1>6. TypeOK'  BY <1>1, <1>2, <1>3, <1>4, <1>5 DEF TypeOK
<1>7. EventsInOrder' /\ BlindHear' /\ ShownOrDue'  BY <1>4, YetToTell DEF ToBeTold
<1> QED  BY <1>1, <1>2, <1>5, <1>6, <1>7, PanesKept DEF IInv

LEMMA ScanEndsKeeps ==
    ASSUME IInv, ScanEnds
    PROVE  IInv'
<1>1. TypeOK /\ SelectionKept /\ Chained /\ SignalsInOrder  BY DEF IInv
<1>2. /\ running > 0 /\ running' = running - 1 /\ Call("ended")
      /\ UNCHANGED <<lib, scanning, waiting, posted, heard, events, panes, todo, missed>>
  BY DEF ScanEnds
<1>3. UNCHANGED <<made, blind, query, generated, selected, values, timers, docs>>
  BY <1>2 DEF panes, queries, chosen
<1>4. running' \in Nat /\ waiting + running' <= posted  BY <1>1, <1>2 DEF TypeOK
<1>5. sigq' \in Seq(Signal) /\ SignalsInOrder' /\ (heard => ToBeTold')
  BY <1>1, <1>2, <1>3, Called
<1>6. TypeOK'  BY <1>1, <1>2, <1>3, <1>4, <1>5 DEF TypeOK
<1>7. EventsInOrder' /\ BlindHear' /\ ShownOrDue'
  <2>1. CASE heard  BY <1>5, <2>1, YetToTell
  <2>2. CASE ~heard
    <3>1. made = 0  BY <1>1, <2>2 DEF SignalsInOrder, TypeOK
    <3> QED  BY <1>3, <1>6, <3>1, NoPanes
  <2> QED  BY <2>1, <2>2
<1> QED  BY <1>1, <1>2, <1>5, <1>6, <1>7, PanesKept DEF IInv

LEMMA ScanChangesKeeps ==
    ASSUME IInv, ScanChanges
    PROVE  IInv'
<1>1. TypeOK /\ SelectionKept /\ Chained /\ SignalsInOrder /\ EventsInOrder  BY DEF IInv
<1>2. /\ running > 0 /\ lib' \subseteq Tracks
      /\ UNCHANGED <<scans, heard, events, panes, todo, missed>>
  BY <1>1 DEF ScanChanges, TypeOK
<1>3. /\ UNCHANGED <<made, blind, query, generated, selected, values, timers, docs>>
      /\ UNCHANGED <<scanning, waiting, running, posted, sigq>>
  BY <1>2 DEF panes, queries, chosen, scans
<1>4. TypeOK'  BY <1>1, <1>2, <1>3 DEF TypeOK
<1>5. SignalsInOrder'  BY <1>1, <1>2, <1>3, SameSignals DEF SignalsInOrder
<1>6. EventsInOrder' /\ BlindHear' /\ ShownOrDue'  BY <1>2, <1>3, YetToTell DEF ToBeTold
<1> QED  BY <1>1, <1>2, <1>4, <1>5, <1>6, PanesKept DEF IInv

LEMMA SetDirectoriesKeeps ==
    ASSUME IInv, SetDirectories
    PROVE  IInv'
<1>1. /\ TypeOK /\ SelectionKept /\ Chained
      /\ SignalsInOrder /\ EventsInOrder /\ BlindHear
  BY DEF IInv
<1>2. /\ posted < MaxScans /\ posted' = posted + 1 /\ waiting' = waiting + 1
      /\ lib' \subseteq Tracks
      /\ UNCHANGED <<scanning, running, sigq, heard, events, panes, todo, missed>>
  BY <1>1 DEF SetDirectories, TypeOK
<1>3. UNCHANGED <<made, blind, query, generated, selected, values, timers, docs>>
  BY <1>2 DEF panes, queries, chosen
<1>4. waiting' \in Nat /\ waiting' > 0 /\ posted' \in 1..MaxScans /\ waiting' + running <= posted'
  BY <1>1, <1>2, FiltersAssumption DEF TypeOK
<1>5. TypeOK'  BY <1>1, <1>2, <1>3, <1>4 DEF TypeOK
<1>6. SignalsInOrder'  BY <1>1, <1>2, <1>3 DEF SignalsInOrder
<1>7. ToBeTold' <=> ToBeTold  BY <1>2 DEF ToBeTold, Has
<1>8. EventsInOrder'  BY <1>1, <1>2, <1>7 DEF EventsInOrder
<1>9. BlindHear'  BY <1>1, <1>2, <1>3, <1>7 DEF BlindHear, Coming, Has
<1>10. ShownOrDue'  BY <1>4 DEF ShownOrDue
<1> QED  BY <1>1, <1>2, <1>5, <1>6, <1>8, <1>9, <1>10, PanesKept DEF IInv

\* A pane that is to hear of an end still is when something was taken from the
\* queues, if what was taken was not that.
LEMMA StillShown ==
    ASSUME TypeOK, ShownOrDue, UNCHANGED <<lib, waiting, made, query, docs>>,
           \A q : Has(todo, Do("refresh", q)) => Has(todo', Do("refresh", q)),
           \A q : Has(todo, Do("answer", q)) => Has(todo', Do("answer", q)),
           \A q \in (1..made) \ missed' : \/ q \notin missed /\ (Coming(q) => Coming(q)')
                                          \/ Has(todo', Do("refresh", q))
    PROVE  ShownOrDue'
<1> SUFFICES ASSUME NEW q \in (1..made) \ missed'
             PROVE  \/ Shown(q)' \/ waiting' > 0 \/ Coming(q)'
                    \/ Has(todo', Do("refresh", q)) \/ Has(todo', Do("answer", q))
  BY DEF ShownOrDue
<1>1. CASE q \notin missed /\ (Coming(q) => Coming(q)')
  <2>1. Shown(q)' <=> Shown(q)  BY DEF Shown, Find
  <2> QED  BY <1>1, <2>1 DEF ShownOrDue
<1>2. CASE Has(todo', Do("refresh", q))  BY <1>2
<1> QED  BY <1>1, <1>2

\* The signal thread tells the library, and the panes there are.
LEMMA SignalTaken ==
    ASSUME TypeOK, SignalsInOrder, sigq # <<>>, sigq' = Tail(sigq),
           scanning' = (Head(sigq).what = "started"), UNCHANGED <<running, heard, made>>
    PROVE  /\ sigq' \in Seq(Signal) /\ SignalsInOrder' /\ Head(sigq) \in Signal
           /\ ToBeTold => ToBeTold' \/ Head(sigq) = EndHeard
           /\ Head(sigq).what = "started" /\ Head(sigq).heard => ToBeTold'
<1> DEFINE n == Len(sigq)
<1>1. /\ Head(sigq) \in Signal /\ Tail(sigq) \in Seq(Signal)
      /\ n \in Nat /\ Len(sigq') = n - 1 /\ 1 \in 1..n /\ sigq[1] = Head(sigq)
      /\ \A i \in 1..(n - 1) : sigq'[i] = sigq[i + 1]
      /\ \A e : Has(sigq, e) <=> (e = Head(sigq) \/ Has(sigq', e))
  BY TailHas DEF TypeOK
<1>2. \A i \in 1..n : sigq[i] \in Signal  BY ElementOfSeq DEF TypeOK
<1>3. /\ made > 0 => heard
      /\ \A i \in 1..n : sigq[i].heard => heard /\ \A j \in i..n : sigq[j].heard
      /\ \A i \in 1..n : sigq[i].what = "started"
            => running > 0 \/ \E j \in (i + 1)..n : sigq[j].what = "ended"
  BY DEF SignalsInOrder
<1> HIDE DEF n
<1>4. ASSUME NEW i \in 1..(n - 1), sigq'[i].heard
      PROVE  heard /\ \A j \in i..(n - 1) : sigq'[j].heard
  <2>1. i + 1 \in 1..n /\ sigq[i + 1].heard  BY <1>1, <1>4
  <2>2. heard /\ \A j \in (i + 1)..n : sigq[j].heard  BY <1>3, <2>1
  <2>3. ASSUME NEW j \in i..(n - 1) PROVE sigq'[j].heard
    <3>1. j \in 1..(n - 1) /\ j + 1 \in (i + 1)..n  BY <1>1
    <3> QED  BY <1>1, <2>2, <3>1
  <2> QED  BY <2>2, <2>3
<1>5. ASSUME NEW k \in 1..n, sigq[k].what = "started", ~(running > 0)
      PROVE  \E j \in k..(n - 1) : sigq'[j].what = "ended" /\ sigq'[j] = sigq[j + 1]
  <2>1. PICK j \in (k + 1)..n : sigq[j].what = "ended"  BY <1>3, <1>5
  <2>2. j - 1 \in k..(n - 1) /\ j - 1 \in 1..(n - 1) /\ (j - 1) + 1 = j  BY <1>1
  <2> QED  BY <1>1, <2>1, <2>2
<1>6. ASSUME NEW i \in 1..(n - 1), sigq'[i].what = "started", ~(running > 0)
      PROVE  \E j \in (i + 1)..(n - 1) : sigq'[j].what = "ended"
  <2>1. i + 1 \in 1..n /\ sigq[i + 1].what = "started"  BY <1>1, <1>6
  <2> QED  BY <1>5, <1>6, <2>1
<1>7. ASSUME Head(sigq).what = "started", ~(running > 0)
      PROVE  \E j \in 1..(n - 1) : sigq'[j].what = "ended" /\ sigq'[j] = sigq[j + 1]
  BY <1>1, <1>5, <1>7
<1>8. SignalsInOrder'
  <2>1. scanning' => running > 0 \/ \E i \in 1..(n - 1) : sigq'[i].what = "ended"  BY <1>7
  <2> QED  BY <1>1, <1>3, <1>4, <1>6, <2>1 DEF SignalsInOrder
<1>9. ToBeTold => ToBeTold' \/ Head(sigq) = EndHeard  BY <1>1 DEF ToBeTold, EndHeard
<1>10. ASSUME Head(sigq).what = "started", Head(sigq).heard PROVE ToBeTold'
  <2>1. CASE running > 0  BY <2>1 DEF ToBeTold
  <2>2. CASE ~(running > 0)
    <3>1. PICK j \in 1..(n - 1) : sigq'[j].what = "ended" /\ sigq'[j] = sigq[j + 1]
      BY <1>7, <1>10, <2>2
    <3>2. j + 1 \in 1..n  BY <1>1
    <3>3. sigq[j + 1].heard  BY <1>1, <1>3, <1>10, <3>2
    <3>4. sigq'[j] = EndHeard  BY <1>2, <3>1, <3>2, <3>3 DEF Signal, EndHeard
    <3> QED  BY <1>1, <3>4 DEF ToBeTold, Has, EndHeard
  <2> QED  BY <2>1, <2>2
<1> QED  BY <1>1, <1>8, <1>9, <1>10

LEMMA TellPanesKeeps ==
    ASSUME IInv, TellPanes
    PROVE  IInv'
<1> DEFINE told == [p \in 1..made |-> [pane |-> p, what |-> Head(sigq).what]]
           n == Len(events)
<1>1. /\ TypeOK /\ SelectionKept /\ Chained /\ ShownOrDue /\ BlindHear
      /\ SignalsInOrder /\ EventsInOrder
  BY DEF IInv
<1>2. /\ sigq # <<>> /\ sigq' = Tail(sigq) /\ scanning' = (Head(sigq).what = "started")
      /\ events' = (IF Head(sigq).heard THEN events \o told ELSE events)
      /\ UNCHANGED <<lib, waiting, running, posted, heard, panes, todo, missed>>
  BY DEF TellPanes
<1>3. UNCHANGED <<made, blind, query, generated, selected, values, timers, docs>>
  BY <1>2 DEF panes, queries, chosen
<1>4. /\ sigq' \in Seq(Signal) /\ SignalsInOrder' /\ Head(sigq) \in Signal
      /\ ToBeTold => ToBeTold' \/ Head(sigq) = EndHeard
      /\ Head(sigq).what = "started" /\ Head(sigq).heard => ToBeTold'
  BY <1>1, <1>2, <1>3, SignalTaken
<1>5. /\ told \in Seq(News(made)) /\ Len(told) = made
      /\ \A p \in 1..made : told[p] = [pane |-> p, what |-> Head(sigq).what]
  <2>1. made \in Nat  BY <1>1, FiltersAssumption DEF TypeOK
  <2>2. told \in [1..made -> News(made)]  BY <1>4 DEF News, Signal
  <2>3. told \in Seq(News(made))  BY <2>1, <2>2, SeqDef
  <2>4. Len(told) \in Nat /\ DOMAIN told = 1..Len(told) /\ DOMAIN told = 1..made
    BY <2>3, LenProperties
  <2> QED  BY <2>1, <2>3, <2>4
<1>6. events \in Seq(News(made)) /\ n \in Nat /\ \A i \in 1..n : events[i].pane \in 1..made
  <2>1. events \in Seq(News(made))  BY <1>1 DEF TypeOK
  <2>2. \A i \in 1..n : events[i] \in News(made)  BY <2>1, ElementOfSeq
  <2> QED  BY <2>1, <2>2, LenProperties DEF News
<1> HIDE DEF told
<1>7. /\ events \o told \in Seq(News(made)) /\ Len(events \o told) = n + made
      /\ \A i \in 1..n : (events \o told)[i] = events[i]
      /\ \A p \in 1..made : (events \o told)[n + p] = [pane |-> p, what |-> Head(sigq).what]
      /\ \A e : Has(events \o told, e) <=> (Has(events, e) \/ Has(told, e))
  <2>1. told \in Seq(News(made)) /\ events \in Seq(News(made))  BY <1>5, <1>6
  <2>2. /\ events \o told \in Seq(News(made)) /\ Len(events \o told) = n + Len(told)
        /\ \A i \in 1..n : (events \o told)[i] = events[i]
        /\ \A i \in 1..Len(told) : (events \o told)[n + i] = told[i]
        /\ \A e : Has(events \o told, e) <=> (Has(events, e) \/ Has(told, e))
    BY <2>1, ConcatHas
  <2> HIDE DEF n
  <2> QED  BY <1>5, <2>2
<1>8. TypeOK'
  <2>1. scanning' \in BOOLEAN /\ events' \in Seq(News(made))  BY <1>2, <1>6, <1>7
  <2> QED  BY <1>1, <1>2, <1>3, <1>4, <2>1 DEF TypeOK
<1>9. CASE Head(sigq) = EndHeard
  <2>1. events' = events \o told /\ Head(sigq).what = "ended"  BY <1>2, <1>9 DEF EndHeard
  <2>2. ASSUME NEW q \in 1..made PROVE Coming(q)'
    <3>1. told[q] = [pane |-> q, what |-> "ended"] /\ q \in 1..Len(told)
      BY <1>5, <2>1
    <3>2. Has(told, [pane |-> q, what |-> "ended"])  BY <3>1 DEF Has
    <3> QED  BY <1>7, <2>1, <3>2 DEF Coming
  <2>3. EventsInOrder'
    <3>1. ASSUME NEW i \in 1..(n + made), events'[i].what = "started"
          PROVE  \E j \in (i + 1)..(n + made) :
                    events'[j] = [pane |-> events'[i].pane, what |-> "ended"]
      <4>1. made \in Nat  BY <1>1, FiltersAssumption DEF TypeOK
      <4>2. i \in 1..n
        <5>1. CASE ~(i \in 1..n)
          <6>1. i - n \in 1..made /\ n + (i - n) = i  BY <1>6, <4>1, <5>1
          <6>2. events'[i] = [pane |-> i - n, what |-> "ended"]  BY <1>7, <2>1, <6>1
          <6> QED  BY <3>1, <6>2
        <5> QED  BY <5>1
      <4>3. events'[i] = events[i] /\ events[i].pane \in 1..made  BY <1>6, <1>7, <2>1, <4>2
      <4>4. n + events[i].pane \in (i + 1)..(n + made)  BY <1>6, <4>1, <4>2, <4>3
      <4> QED  BY <1>7, <2>1, <4>3, <4>4
    <3> QED  BY <1>7, <2>1, <3>1 DEF EventsInOrder
  <2>4. BlindHear'  BY <1>1, <1>2, <1>3, <2>2 DEF BlindHear, TypeOK
  <2>5. ShownOrDue'  BY <1>3, <2>2 DEF ShownOrDue
  <2> QED  BY <1>1, <1>2, <1>4, <1>8, <2>3, <2>4, <2>5, PanesKept DEF IInv
<1>10. CASE Head(sigq) # EndHeard
  <2>1. ToBeTold => ToBeTold'  BY <1>4, <1>10
  <2>2. ASSUME ~ToBeTold' PROVE EventsInOrder' /\ BlindHear' /\ ShownOrDue'
    <3>1. /\ ~ToBeTold
          /\ Head(sigq).heard => Head(sigq).what = "ended"
      BY <1>4, <2>1, <2>2 DEF Signal
    <3>2. ~Head(sigq).heard  BY <1>4, <1>10, <3>1 DEF Signal, EndHeard
    <3>3. events' = events  BY <1>2, <3>2
    <3>4. EventsInOrder'  BY <1>1, <2>2, <3>1, <3>3 DEF EventsInOrder
    <3>5. \A q : Coming(q) => Coming(q)'  BY <2>1, <3>3 DEF Coming, Has
    <3>6. BlindHear'  BY <1>1, <1>2, <1>3, <3>5 DEF BlindHear
    <3>7. ShownOrDue'  BY <1>1, <1>2, <1>3, <3>5, StillShown
    <3> QED  BY <3>4, <3>6, <3>7
  <2> QED  BY <1>1, <1>2, <1>4, <1>8, <2>2, PanesKept, YetToTell DEF IInv
<1> QED  BY <1>9, <1>10
-----------------------------------------------------------------------------
(* The events *)

\* The first event is taken: the order of the others stays.
LEMMA EventTaken ==
    ASSUME TypeOK, EventsInOrder, NEW p, NEW w, Event(w, p), Takes
    PROVE  /\ p \in 1..made /\ p \in Panes /\ made = N /\ todo = <<>>
           /\ UNCHANGED <<lib, scanning, waiting, running, posted, sigq, heard, made,
                          query, generated, selected, values, timers, docs>>
           /\ events' \in Seq(News(made)) /\ EventsInOrder' /\ (ToBeTold' <=> ToBeTold)
           /\ \A q : Coming(q) => Coming(q)' \/ (w = "ended" /\ q = p)
           /\ w = "started" => Coming(p)'
<1> DEFINE n == Len(events)
           ended(q) == [pane |-> q, what |-> "ended"]
<1>1. /\ made = N /\ todo = <<>> /\ events # <<>> /\ Head(events) = [pane |-> p, what |-> w]
      /\ events' = Tail(events)
      /\ UNCHANGED <<lib, scanning, waiting, running, posted, sigq, heard, made,
                     query, generated, selected, values, timers, docs>>
  BY DEF Event, Loop, Takes, scans, queries, chosen
<1>2. events \in Seq(News(made))  BY DEF TypeOK
<1>3. /\ Head(events) \in News(made) /\ Tail(events) \in Seq(News(made))
      /\ n \in Nat /\ Len(events') = n - 1 /\ 1 \in 1..n /\ events[1] = Head(events)
      /\ \A i \in 1..(n - 1) : events'[i] = events[i + 1]
      /\ \A e : Has(events, e) <=> (e = Head(events) \/ Has(events', e))
  BY <1>1, <1>2, TailHas
<1>4. p \in 1..made /\ p \in Panes
  <2>1. Head(events).pane = p  BY <1>1
  <2> QED  BY <1>1, <1>3, <2>1 DEF News, Panes
<1>5. ToBeTold' <=> ToBeTold  BY <1>1 DEF ToBeTold, Has
<1> HIDE DEF n
<1>6. ASSUME NEW k \in 1..n, events[k].what = "started", ~ToBeTold
      PROVE  \E j \in k..(n - 1) : events'[j] = ended(events[k].pane)
  <2>1. PICK j \in (k + 1)..n : events[j] = ended(events[k].pane)
    BY <1>6 DEF EventsInOrder, n
  <2>2. j - 1 \in k..(n - 1) /\ j - 1 \in 1..(n - 1) /\ (j - 1) + 1 = j  BY <1>3
  <2>3. events'[j - 1] = events[j]  BY <1>3, <2>2
  <2> QED  BY <2>1, <2>2, <2>3
<1>7. EventsInOrder'
  <2>1. ASSUME NEW i \in 1..(n - 1), events'[i].what = "started", ~ToBeTold
        PROVE  \E j \in (i + 1)..(n - 1) : events'[j] = ended(events'[i].pane)
    <3>1. i + 1 \in 1..n /\ events[i + 1] = events'[i]  BY <1>3
    <3> QED  BY <1>6, <2>1, <3>1
  <2> QED  BY <1>3, <1>5, <2>1 DEF EventsInOrder
<1>8. ASSUME NEW q, Coming(q) PROVE Coming(q)' \/ (w = "ended" /\ q = p)
  <2>1. CASE ToBeTold  BY <1>5, <2>1 DEF Coming
  <2>2. CASE Has(events, ended(q))
    <3>1. CASE ended(q) = Head(events)
      <4>1. ended(q).pane = p /\ ended(q).what = w  BY <1>1, <3>1
      <4> QED  BY <4>1
    <3>2. CASE Has(events', ended(q))  BY <3>2 DEF Coming
    <3> QED  BY <1>3, <2>2, <3>1, <3>2
  <2> QED  BY <1>8, <2>1, <2>2 DEF Coming
<1>9. ASSUME w = "started" PROVE Coming(p)'
  <2>1. CASE ToBeTold  BY <1>5, <2>1 DEF Coming
  <2>2. CASE ~ToBeTold
    <3>1. events[1].what = "started" /\ events[1].pane = p  BY <1>1, <1>3, <1>9
    <3>2. PICK j \in 1..(n - 1) : events'[j] = ended(p)  BY <1>3, <1>6, <2>2, <3>1
    <3>3. Has(events', ended(p))  BY <1>3, <3>2 DEF Has
    <3> QED  BY <3>3 DEF Coming
  <2> QED  BY <2>1, <2>2
<1> QED  BY <1>1, <1>3, <1>4, <1>5, <1>7, <1>8, <1>9

LEMMA HearStartedKeeps ==
    ASSUME IInv, NEW p \in Panes, HearStarted(p)
    PROVE  IInv'
<1>1. /\ TypeOK /\ SelectionKept /\ Chained /\ ShownOrDue /\ BlindHear
      /\ SignalsInOrder /\ EventsInOrder
  BY DEF IInv
<1>2. blind' = blind \cup {p} /\ todo' = todo /\ missed' = missed  BY DEF HearStarted
<1>3. /\ p \in 1..made
      /\ UNCHANGED <<lib, scanning, waiting, running, posted, sigq, heard, made,
                     query, generated, selected, values, timers, docs>>
      /\ events' \in Seq(News(made)) /\ EventsInOrder'
      /\ \A q : Coming(q) => Coming(q)'
      /\ Coming(p)'
  BY <1>1, EventTaken DEF HearStarted
<1>4. TypeOK'  BY <1>1, <1>2, <1>3 DEF TypeOK
<1>5. SelectionKept'  BY <1>1, <1>2, <1>3 DEF SelectionKept
<1>6. Chained'  BY <1>1, <1>2, <1>3, SameChain DEF queries
<1>7. SignalsInOrder'  BY <1>1, <1>3 DEF SignalsInOrder
<1>8. BlindHear'  BY <1>1, <1>2, <1>3 DEF BlindHear
<1>9. ShownOrDue'  BY <1>1, <1>2, <1>3, StillShown
<1> QED  BY <1>3, <1>4, <1>5, <1>6, <1>7, <1>8, <1>9 DEF IInv

LEMMA HearEndedKeeps ==
    ASSUME IInv, NEW p \in Panes, HearEnded(p)
    PROVE  IInv'
<1>1. /\ TypeOK /\ SelectionKept /\ Chained /\ ShownOrDue /\ BlindHear
      /\ SignalsInOrder /\ EventsInOrder
  BY DEF IInv
<1>2. /\ blind' = blind \ {p} /\ missed' = missed \ {p} /\ todo' = <<Do("refresh", p)>>
      /\ Event("ended", p) /\ Takes
  BY DEF HearEnded
<1>3. /\ p \in 1..made /\ todo = <<>>
      /\ UNCHANGED <<lib, scanning, waiting, running, posted, sigq, heard, made,
                     query, generated, selected, values, timers, docs>>
      /\ events' \in Seq(News(made)) /\ EventsInOrder'
      /\ \A q : Coming(q) => Coming(q)' \/ q = p
  BY <1>1, <1>2, EventTaken
<1>4. todo' \in Seq(Work(made)) /\ \A e : Has(todo', e) <=> e = Do("refresh", p)
  BY <1>2, <1>3, OneToDo
<1>5. \A e : ~Has(todo, e)  BY <1>3, NothingToDo
<1>6. TypeOK'  BY <1>1, <1>2, <1>3, <1>4 DEF TypeOK
<1>7. SelectionKept'
  <2>1. \A q : ~Has(todo', Do("answer", q))  BY <1>4, DoSame
  <2> QED  BY <1>1, <1>3, <2>1, SameSelection
<1>8. Chained'  BY <1>1, <1>3, <1>5, SameChain DEF queries
<1>9. SignalsInOrder'  BY <1>1, <1>3 DEF SignalsInOrder
<1>10. BlindHear'  BY <1>1, <1>2, <1>3 DEF BlindHear
<1>11. ShownOrDue'  BY <1>1, <1>2, <1>3, <1>4, <1>5, StillShown
<1> QED  BY <1>3, <1>6, <1>7, <1>8, <1>9, <1>10, <1>11 DEF IInv
-----------------------------------------------------------------------------
(* What holds *)

LEMMA InitIsIInv ==
    ASSUME Init
    PROVE  IInv
<1>1. /\ \A e : ~Has(todo, e)
      /\ 1..Len(sigq) = {} /\ 1..Len(events) = {}
  BY NothingToDo DEF Init
<1>2. made = 0 /\ 1..made = {} /\ blind = {}  BY DEF Init
<1>3. TypeOK
  <2>1. /\ lib \subseteq Tracks /\ scanning \in BOOLEAN /\ heard \in BOOLEAN
        /\ missed \subseteq blind /\ blind \subseteq 1..made /\ timers \subseteq Delayed
    BY DEF Init
  <2>2. /\ waiting \in Nat /\ running \in Nat /\ waiting + running <= posted
        /\ posted \in 1..MaxScans /\ made \in 0..N
    BY FiltersAssumption DEF Init
  <2>3. /\ sigq \in Seq(Signal) /\ events \in Seq(News(made)) /\ todo \in Seq(Work(made))
    BY DEF Init
  <2>4. query \in [Panes -> SUBSET Tracks] /\ generated \in [Panes -> SUBSET Tracks]
    BY DEF Init
  <2>5. selected \in [Panes -> SUBSET Fields] /\ docs \in [Panes -> SUBSET Fields]
    BY DEF Init
  <2> QED  BY <2>1, <2>2, <2>3, <2>4, <2>5 DEF TypeOK
<1>4. SelectionKept  BY <1>1 DEF Init, SelectionKept
<1>5. Chained  BY <1>2 DEF Chained
<1>6. SignalsInOrder  BY <1>1, <1>2 DEF Init, SignalsInOrder
<1>7. EventsInOrder /\ BlindHear /\ ShownOrDue
  BY <1>1, <1>2 DEF EventsInOrder, BlindHear, ShownOrDue
<1> QED  BY <1>3, <1>4, <1>5, <1>6, <1>7 DEF IInv

LEMMA StutterKeeps ==
    ASSUME IInv, UNCHANGED vars
    PROVE  IInv'
<1>1. /\ TypeOK /\ SelectionKept /\ Chained /\ ShownOrDue /\ BlindHear
      /\ SignalsInOrder /\ EventsInOrder
  BY DEF IInv
<1>2. /\ UNCHANGED <<lib, scans, heard, events, panes, todo, missed>>
      /\ UNCHANGED <<scanning, waiting, running, posted, sigq>>
      /\ UNCHANGED <<made, blind, query, generated, selected, values, timers, docs>>
  BY DEF vars, scans, panes, queries, chosen
<1>3. TypeOK'  BY <1>1, <1>2 DEF TypeOK
<1>4. SelectionKept' /\ Chained'  BY <1>1, <1>2, PanesKept
<1>5. SignalsInOrder' /\ EventsInOrder' /\ \A q : Coming(q)' <=> Coming(q)
  BY <1>1, <1>2, SameSignals DEF SignalsInOrder
<1>6. BlindHear'  BY <1>1, <1>2, <1>5 DEF BlindHear
<1>7. ShownOrDue'  BY <1>1, <1>2, <1>5, StillShown
<1> QED  BY <1>3, <1>4, <1>5, <1>6, <1>7 DEF IInv

LEMMA NextKeeps ==
    ASSUME IInv, [Next]_vars
    PROVE  IInv'
<1>1. CASE Starting  BY <1>1, ListenKeeps, CreatePaneKeeps DEF Starting
<1>2. CASE Scanner  BY <1>2, ScanStartsKeeps, ScanEndsKeeps DEF Scanner
<1>3. CASE ScanChanges \/ SetDirectories \/ TellPanes
  BY <1>3, ScanChangesKeeps, SetDirectoriesKeeps, TellPanesKeeps
<1>4. CASE Events  BY <1>4, HearStartedKeeps, HearEndedKeeps DEF Events
<1>5. CASE GoesOn  BY <1>5, GenerateKeeps, RefreshKeeps, AnswerKeeps DEF GoesOn
<1>6. CASE \E p \in Panes : Select(p) \/ Timeout(p)  BY <1>6, SelectKeeps, TimeoutKeeps
<1>7. CASE UNCHANGED vars  BY <1>7, StutterKeeps
<1> QED  BY <1>1, <1>2, <1>3, <1>4, <1>5, <1>6, <1>7 DEF Next

\* While calls run one inside the other and scans come and go between them: what
\* is selected has gone into the values, what was generated is asked or about to
\* be, and what is not shown is due.
THEOREM IInvHolds == Spec => []IInv
<1>1. Init => IInv  BY InitIsIInv
<1>2. IInv /\ [Next]_vars => IInv'  BY NextKeeps
<1> QED  BY <1>1, <1>2, PTL DEF Spec

\* The values a pane generates its query from are those of the rows selected in
\* it, which it shows (filterpane.cpp:260-261, 298).
THEOREM ValuesSelected == Spec => []ValuesAreSelected
<1>1. IInv => ValuesAreSelected
  <2> SUFFICES ASSUME IInv PROVE ValuesAreSelected
    OBVIOUS
  <2>1. TypeOK /\ SelectionKept  BY DEF IInv
  <2>2. waiting \in 0..MaxScans /\ running \in 0..MaxScans
    BY <2>1, FiltersAssumption DEF TypeOK
  <2>3. \A i \in DOMAIN todo : todo[i].pane \in 1..made
    <3>1. todo \in Seq(Work(made))  BY <2>1 DEF TypeOK
    <3>2. DOMAIN todo = 1..Len(todo) /\ \A i \in 1..Len(todo) : todo[i] \in Work(made)
      BY <3>1, LenProperties, ElementOfSeq
    <3> QED  BY <3>2 DEF Work
  <2> QED  BY <2>1, <2>2, <2>3 DEF TypeOK, SelectionKept, ValuesAreSelected, Types
<1> QED  BY <1>1, IInvHolds, PTL

\* Each pane asks what the one before it generated, and has generated what its
\* query and its selection say, or will when its timer runs out
\* (filterpane.cpp:236-258, 330-362).
THEOREM ChainOfQueries == Spec => []QueriesChain
<1>1. IInv => QueriesChain
  BY NothingToDo DEF IInv, Chained, QueriesChain
<1> QED  BY <1>1, IInvHolds, PTL

\* When all is still each pane shows what its query finds, but for those that
\* were made too late to hear the end of a scan (filterpane.cpp:184-189, 260-323).
THEOREM LibraryShown == Spec => []ShowsLibrary
<1>1. IInv => ShowsLibrary
  <2> SUFFICES ASSUME IInv, Still, NEW p \in Panes \ missed PROVE Shown(p)
    BY DEF ShowsLibrary, Shown
  <2>1. TypeOK /\ ShownOrDue  BY DEF IInv
  <2>2. /\ made = N /\ todo = <<>> /\ sigq = <<>> /\ events = <<>>
        /\ waiting + running = 0
    BY DEF Still, Loop
  <2>3. p \in (1..made) \ missed /\ waiting = 0 /\ running = 0
    BY <2>1, <2>2 DEF TypeOK, Panes
  <2>4. \A e : ~Has(todo, e) /\ ~Has(sigq, e) /\ ~Has(events, e)
    BY <2>2, NothingToDo
  <2>5. ~Coming(p)  BY <2>3, <2>4 DEF Coming, ToBeTold
  <2> QED  BY <2>1, <2>3, <2>4, <2>5 DEF ShownOrDue
<1> QED  BY <1>1, IInvHolds, PTL
=============================================================================
