--------------------------- MODULE PlaylistsProofs ---------------------------
(***************************************************************************)
(* What holds of the playlists and their followers for any number of them  *)
(* and of operations: once nobody has anything to say, the model knows     *)
(* just the playlists there are and everybody follows the current one; and *)
(* the signal thread waits for itself only after two changes crossed.      *)
(***************************************************************************)
EXTENDS Playlists, SequenceTheorems, TLAPS

-----------------------------------------------------------------------------
(* The inductive invariant *)

GuiState ==
    [at : {"idle", "added", "first", "set", "emit", "removed", "jump", "read"},
     list : Lists \cup {None}, then : {"idle", "read", "jump"}]
News == [sig : {"added", "removed", "current"}, list : Lists]
Hearing == [list : Lists, slot : {"player", "model", "controls"}]

TypeOK ==
    /\ used \subseteq Lists /\ models \subseteq used
    /\ lists \in Seq(Lists) /\ \A i \in 1..Len(lists) : lists[i] \in used
    /\ queue \in Seq(News) /\ \A i \in 1..Len(queue) : queue[i].list \in used
    /\ frames \in Seq(Hearing)
    /\ gui \in GuiState /\ crossed \in BOOLEAN

\* A playlist is listed once, and the GUI speaks of one that is there until it
\* has removed it.
Speaks == {"added", "first", "set", "emit"}
InHand ==
    /\ IsInjective(lists)
    /\ gui.at \in Speaks => InList(gui.list)
    /\ gui.at = "removed" => gui.list \in used

\* The news of a playlist, still in the GUI's hands or on its way, says what
\* the model does not yet know, first that it is there and then that it is gone.
Queued(s, p) == \E i \in 1..Len(queue) : queue[i] = Call(s, p)
Coming(p) == (gui.at = "added" /\ gui.list = p) \/ Queued("added", p)
Going(p) == (gui.at = "removed" /\ gui.list = p) \/ Queued("removed", p)
NewsIsDue ==
    \A p \in Lists :
       /\ InList(p) => ~Going(p) /\ (Coming(p) \/ p \in models)
       /\ ~InList(p) /\ (Coming(p) \/ p \in models) => Going(p)
InOrder ==
    \A i, j \in 1..Len(queue) :
       queue[i].sig = "added" /\ queue[j] = Call("removed", queue[i].list) => i < j

\* The model knows a playlist when it hears that it is current.
KnownBy(known, q, i, p) ==
    /\ p \in known \/ \E j \in 1..Len(q) : j < i /\ q[j] = Call("added", p)
    /\ \A j \in 1..Len(q) : j < i => q[j] # Call("removed", p)
AllKnown(known, q) ==
    \A i \in 1..Len(q) : q[i].sig = "current" => KnownBy(known, q, i, q[i].list)
KnownInTime ==
    /\ AllKnown(models, queue)
    /\ \A i \in 1..Len(frames) : frames[i].list \in models

\* While no two changes crossed, all that is said of the current playlist is
\* true, and nothing is said from within a slot.
OneChange ==
    /\ mu = None
    /\ \A i \in 1..Len(queue) : queue[i].sig = "current" => queue[i].list = current
    /\ Len(frames) <= 1 /\ \A i \in 1..Len(frames) : frames[i].list = current
    /\ gui.at = "emit" => gui.list = current

\* Who does not follow the current playlist has yet to hear of it.
Told == \E i \in 1..Len(queue) : queue[i].sig = "current"
Within(slots) == \E i \in 1..Len(frames) : frames[i].slot \in slots
OnWay(slots) == gui.at = "emit" \/ Told \/ Within(slots)
Followed ==
    /\ on = current \/ OnWay({"player"})
    /\ mCurrent = current \/ OnWay({"player", "model"}) \/ (gui.at = "set" /\ gui.list = mCurrent)
    /\ control = current \/ OnWay({"player", "model", "controls"})

CurrentIsHeard == ~crossed => OneChange /\ Followed

IInv ==
    /\ TypeOK /\ InHand /\ NewsIsDue /\ InOrder /\ KnownInTime
    /\ CurrentIsHeard
-----------------------------------------------------------------------------
(* Sequences *)

\* An element taken out of a sequence closes the gap.
LEMMA RemovedAt ==
    ASSUME NEW S, NEW q \in Seq(S), NEW i \in 1..Len(q)
    PROVE  /\ RemoveAt(q, i) \in Seq(S) /\ Len(RemoveAt(q, i)) = Len(q) - 1
           /\ \A j \in 1..(Len(q) - 1) :
                 RemoveAt(q, i)[j] = IF j < i THEN q[j] ELSE q[j + 1]
<1> DEFINE a == SubSeq(q, 1, i - 1)
           b == SubSeq(q, i + 1, Len(q))
<1>1. Len(q) \in Nat /\ \A j \in 1..Len(q) : q[j] \in S  BY LenProperties, ElementOfSeq
<1>2. a \in Seq(S) /\ Len(a) = i - 1 /\ \A j \in 1..(i - 1) : a[j] = q[j]
  <2>1. 1 \in Int /\ i - 1 \in Int /\ \A j \in 1..(i - 1) : q[j] \in S  BY <1>1
  <2>2. /\ a \in Seq(S) /\ Len(a) = (IF 1 <= i - 1 THEN i - 1 - 1 + 1 ELSE 0)
        /\ \A j \in 1..(i - 1 - 1 + 1) : a[j] = q[1 + j - 1]
    BY <2>1, SubSeqProperties
  <2> QED  BY <2>2, <1>1
<1>3. b \in Seq(S) /\ Len(b) = Len(q) - i /\ \A j \in 1..(Len(q) - i) : b[j] = q[i + j]
  <2>1. i + 1 \in Int /\ Len(q) \in Int /\ \A j \in (i + 1)..Len(q) : q[j] \in S  BY <1>1
  <2>2. /\ b \in Seq(S)
        /\ Len(b) = (IF i + 1 <= Len(q) THEN Len(q) - (i + 1) + 1 ELSE 0)
        /\ \A j \in 1..(Len(q) - (i + 1) + 1) : b[j] = q[(i + 1) + j - 1]
    BY <2>1, SubSeqProperties
  <2> QED  BY <2>2, <1>1
<1>4. RemoveAt(q, i) = a \o b  BY DEF RemoveAt
<1> HIDE DEF a, b
<1> a \in Seq(S) /\ b \in Seq(S)  BY <1>2, <1>3
<1>5. /\ a \o b \in Seq(S) /\ Len(a \o b) = Len(a) + Len(b)
      /\ \A j \in 1..(Len(a) + Len(b)) :
            (a \o b)[j] = IF j <= Len(a) THEN a[j] ELSE b[j - Len(a)]
  BY ConcatProperties
<1>6. ASSUME NEW j \in 1..(Len(q) - 1)
      PROVE  (a \o b)[j] = IF j < i THEN q[j] ELSE q[j + 1]
  <2>a. Len(a) + Len(b) = Len(q) - 1  BY <1>1, <1>2, <1>3
  <2>1. (a \o b)[j] = IF j <= i - 1 THEN a[j] ELSE b[j - (i - 1)]
    <3>1. (a \o b)[j] = IF j <= Len(a) THEN a[j] ELSE b[j - Len(a)]  BY <1>5, <2>a
    <3> QED  BY <1>2, <3>1
  <2>2. CASE j < i  BY <2>1, <2>2, <1>2
  <2>3. CASE ~(j < i)
    <3>1. j - (i - 1) \in 1..(Len(q) - i)  BY <2>3, <1>1
    <3>2. b[j - (i - 1)] = q[i + (j - (i - 1))]  BY <3>1, <1>3
    <3> QED  BY <2>1, <2>3, <3>2
  <2> QED  BY <2>2, <2>3
<1> QED  BY <1>1, <1>2, <1>3, <1>4, <1>5, <1>6

\* The playlists of w are those of q with e, or without it, each of them once.
IsWith(w, q, e) ==
    /\ w \in Seq(Lists) /\ IsInjective(w)
    /\ \A p : (\E i \in 1..Len(w) : w[i] = p) <=> p = e \/ \E i \in 1..Len(q) : q[i] = p
IsWithout(w, q, e) ==
    /\ w \in Seq(Lists) /\ IsInjective(w)
    /\ \A p : (\E i \in 1..Len(w) : w[i] = p) <=> p # e /\ \E i \in 1..Len(q) : q[i] = p

\* A playlist taken out of the list is gone, and no other is.
LEMMA RemovedOnce ==
    ASSUME NEW q \in Seq(Lists), IsInjective(q), NEW r \in 1..Len(q),
           NEW w, w = RemoveAt(q, r)
    PROVE  IsWithout(w, q, q[r])
<1>1. /\ w \in Seq(Lists) /\ Len(w) = Len(q) - 1
      /\ \A j \in 1..(Len(q) - 1) : w[j] = IF j < r THEN q[j] ELSE q[j + 1]
  BY RemovedAt
<1>2. Len(q) \in Nat /\ DOMAIN q = 1..Len(q) /\ DOMAIN w = 1..Len(w)  BY <1>1, LenProperties
<1> DEFINE at(j) == IF j < r THEN j ELSE j + 1
<1>3. \A j \in 1..Len(w) : at(j) \in 1..Len(q) /\ at(j) # r /\ w[j] = q[at(j)]
  BY <1>1, <1>2
<1>4. \A j, k \in 1..Len(w) : at(j) = at(k) => j = k  BY <1>1, <1>2
<1>5. \A i \in 1..Len(q) : i # r => \E j \in 1..Len(w) : at(j) = i
  <2>1. SUFFICES ASSUME NEW i \in 1..Len(q), i # r PROVE \E j \in 1..Len(w) : at(j) = i
    OBVIOUS
  <2>2. CASE i < r
    <3>1. i \in 1..Len(w) /\ at(i) = i  BY <1>1, <1>2, <2>2
    <3> QED  BY <3>1
  <2>3. CASE ~(i < r)
    <3>1. i - 1 \in 1..Len(w) /\ at(i - 1) = i  BY <1>1, <1>2, <2>1, <2>3
    <3> QED  BY <3>1
  <2> QED  BY <2>2, <2>3
<1> HIDE DEF at
<1>6. \A i, j \in 1..Len(q) : q[i] = q[j] => i = j  BY <1>2 DEF IsInjective
<1>7. \A j, k \in 1..Len(w) : w[j] = w[k] => j = k  BY <1>3, <1>4, <1>6
<1>8. IsInjective(w)  BY <1>2, <1>7 DEF IsInjective
<1>9. ASSUME NEW p, NEW i \in 1..Len(w), w[i] = p
      PROVE  p # q[r] /\ \E k \in 1..Len(q) : q[k] = p
  BY <1>3, <1>6, <1>9
<1>10. ASSUME NEW p, p # q[r], NEW i \in 1..Len(q), q[i] = p
       PROVE  \E j \in 1..Len(w) : w[j] = p
  BY <1>3, <1>5, <1>10
<1> QED  BY <1>1, <1>8, <1>9, <1>10 DEF IsWithout

\* A new playlist put into the list is there, once, and the others stay.
LEMMA InsertedOnce ==
    ASSUME NEW q \in Seq(Lists), IsInjective(q), NEW r \in 1..(Len(q) + 1), NEW e \in Lists,
           \A i \in 1..Len(q) : q[i] # e,
           NEW w, w = InsertAt(q, r, e)
    PROVE  IsWith(w, q, e)
<1> DEFINE a == SubSeq(q, 1, r - 1)
           b == SubSeq(q, r, Len(q))
           c == <<e>>
<1>1. Len(q) \in Nat /\ DOMAIN q = 1..Len(q) /\ \A j \in 1..Len(q) : q[j] \in Lists
  BY LenProperties, ElementOfSeq
<1>2. a \in Seq(Lists) /\ Len(a) = r - 1 /\ \A j \in 1..(r - 1) : a[j] = q[j]
  <2>1. 1 \in Int /\ r - 1 \in Int /\ \A j \in 1..(r - 1) : q[j] \in Lists  BY <1>1
  <2>2. /\ a \in Seq(Lists) /\ Len(a) = (IF 1 <= r - 1 THEN r - 1 - 1 + 1 ELSE 0)
        /\ \A j \in 1..(r - 1 - 1 + 1) : a[j] = q[1 + j - 1]
    BY <2>1, SubSeqProperties
  <2> QED  BY <2>2, <1>1
<1>3. /\ b \in Seq(Lists) /\ Len(b) = Len(q) - r + 1
      /\ \A j \in 1..(Len(q) - r + 1) : b[j] = q[r + j - 1]
  <2>1. r \in Int /\ Len(q) \in Int /\ \A j \in r..Len(q) : q[j] \in Lists  BY <1>1
  <2>2. /\ b \in Seq(Lists)
        /\ Len(b) = (IF r <= Len(q) THEN Len(q) - r + 1 ELSE 0)
        /\ \A j \in 1..(Len(q) - r + 1) : b[j] = q[r + j - 1]
    BY <2>1, SubSeqProperties
  <2> QED  BY <2>2, <1>1
<1>4. c \in Seq(Lists) /\ Len(c) = 1 /\ c[1] = e  OBVIOUS
<1>5. w = (a \o c) \o b  BY DEF InsertAt
<1> HIDE DEF a, b, c
<1> DEFINE d == a \o c
<1>6. /\ d \in Seq(Lists) /\ Len(d) = r
      /\ \A j \in 1..r : d[j] = IF j < r THEN q[j] ELSE e
  <2>1. /\ a \o c \in Seq(Lists) /\ Len(a \o c) = Len(a) + Len(c)
        /\ \A j \in 1..(Len(a) + Len(c)) :
              (a \o c)[j] = IF j <= Len(a) THEN a[j] ELSE c[j - Len(a)]
    BY <1>2, <1>4, ConcatProperties
  <2>2. Len(a) + Len(c) = r  BY <1>1, <1>2, <1>4
  <2>3. ASSUME NEW j \in 1..r PROVE (a \o c)[j] = IF j < r THEN q[j] ELSE e
    <3>1. CASE j < r
      <4>1. j <= Len(a) /\ j \in 1..(r - 1)  BY <1>1, <1>2, <3>1
      <4> QED  BY <1>2, <2>1, <2>2, <3>1, <4>1
    <3>2. CASE ~(j < r)
      <4>1. ~(j <= Len(a)) /\ j - Len(a) = 1  BY <1>1, <1>2, <3>2
      <4> QED  BY <1>4, <2>1, <2>2, <3>2, <4>1
    <3> QED  BY <3>1, <3>2
  <2> QED  BY <2>1, <2>2, <2>3
<1> HIDE DEF d
<1>7. /\ d \o b \in Seq(Lists) /\ Len(d \o b) = Len(d) + Len(b)
      /\ \A j \in 1..(Len(d) + Len(b)) :
            (d \o b)[j] = IF j <= Len(d) THEN d[j] ELSE b[j - Len(d)]
  BY <1>3, <1>6, ConcatProperties
<1>8. w = d \o b  BY <1>5 DEF d
<1>9. w \in Seq(Lists) /\ Len(w) = Len(q) + 1  BY <1>1, <1>3, <1>6, <1>7, <1>8
<1>10. ASSUME NEW j \in 1..Len(w)
       PROVE  w[j] = IF j < r THEN q[j] ELSE IF j = r THEN e ELSE q[j - 1]
  <2>1. w[j] = IF j <= r THEN d[j] ELSE b[j - r]  BY <1>1, <1>3, <1>6, <1>7, <1>8, <1>9
  <2>2. CASE j <= r
    <3>1. j \in 1..r  BY <1>1, <1>9, <2>2
    <3>2. d[j] = IF j < r THEN q[j] ELSE e  BY <1>6, <3>1
    <3> QED  BY <2>1, <2>2, <3>1, <3>2
  <2>3. CASE ~(j <= r)
    <3>1. j - r \in 1..(Len(q) - r + 1) /\ r + (j - r) - 1 = j - 1  BY <1>1, <1>9, <2>3
    <3>2. b[j - r] = q[j - 1]  BY <1>3, <3>1
    <3>3. ~(j < r) /\ j # r  BY <1>1, <1>9, <2>3
    <3> QED  BY <2>1, <2>3, <3>2, <3>3
  <2> QED  BY <2>2, <2>3
<1> DEFINE at(j) == IF j < r THEN j ELSE j - 1
<1>11. \A j \in 1..Len(w) : j # r => at(j) \in 1..Len(q) /\ w[j] = q[at(j)]
  BY <1>1, <1>9, <1>10
<1>12. r \in 1..Len(w) /\ w[r] = e  BY <1>1, <1>9, <1>10
<1>13. \A j, k \in 1..Len(w) : j # r /\ k # r /\ at(j) = at(k) => j = k  BY <1>1, <1>9
<1>14. \A i \in 1..Len(q) : \E j \in 1..Len(w) : j # r /\ at(j) = i
  <2>1. SUFFICES ASSUME NEW i \in 1..Len(q) PROVE \E j \in 1..Len(w) : j # r /\ at(j) = i
    OBVIOUS
  <2>2. CASE i < r
    <3>1. i \in 1..Len(w) /\ at(i) = i /\ i # r  BY <1>1, <1>9, <2>2
    <3> QED  BY <3>1
  <2>3. CASE ~(i < r)
    <3>1. i + 1 \in 1..Len(w) /\ at(i + 1) = i /\ i + 1 # r  BY <1>1, <1>9, <2>3
    <3> QED  BY <3>1
  <2> QED  BY <2>2, <2>3
<1> HIDE DEF at
<1>15. \A i, j \in 1..Len(q) : q[i] = q[j] => i = j  BY <1>1 DEF IsInjective
<1>16. \A j, k \in 1..Len(w) : w[j] = w[k] => j = k
  BY <1>11, <1>12, <1>13, <1>15
<1>17. IsInjective(w)
  <2>1. DOMAIN w = 1..Len(w)  BY <1>9, LenProperties
  <2> QED  BY <1>16, <2>1 DEF IsInjective
<1>18. \A p : (\E i \in 1..Len(w) : w[i] = p) => p = e \/ \E i \in 1..Len(q) : q[i] = p
  BY <1>11, <1>12
<1>19. \A p : p = e \/ (\E i \in 1..Len(q) : q[i] = p) => \E i \in 1..Len(w) : w[i] = p
  BY <1>11, <1>12, <1>14
<1> QED  BY <1>9, <1>17, <1>18, <1>19 DEF IsWith

-----------------------------------------------------------------------------
(* The queue of the signal thread *)

LEMMA Calls == \A s, p : Call(s, p).sig = s /\ Call(s, p).list = p
  BY DEF Call

\* What is left of the queue when its first call is taken.
LEMMA QueueTaken ==
    ASSUME TypeOK, queue # <<>>, queue' = Tail(queue)
    PROVE  /\ Len(queue) \in Nat \ {0} /\ 1 \in 1..Len(queue) /\ Head(queue) = queue[1]
           /\ queue' \in Seq(News) /\ Len(queue') = Len(queue) - 1
           /\ \A i \in 1..Len(queue') : i + 1 \in 1..Len(queue) /\ queue'[i] = queue[i + 1]
           /\ \A i \in 1..Len(queue) :
                 i = 1 \/ (i - 1 \in 1..Len(queue') /\ queue'[i - 1] = queue[i])
<1>1. queue \in Seq(News)  BY DEF TypeOK
<1>2. Len(queue) \in Nat \ {0}  BY <1>1, EmptySeq
<1>3. /\ Head(queue) = queue[1] /\ queue' \in Seq(News) /\ Len(queue') = Len(queue) - 1
      /\ \A i \in 1..Len(queue') : queue'[i] = queue[i + 1]
  BY <1>1, HeadTailProperties
<1>4. \A i \in 1..Len(queue') : i + 1 \in 1..Len(queue)  BY <1>2, <1>3
<1>5. \A i \in 1..Len(queue) : i = 1 \/ (i - 1 \in 1..Len(queue') /\ (i - 1) + 1 = i)
  BY <1>2, <1>3
<1> QED  BY <1>2, <1>3, <1>4, <1>5

\* A call taken from the queue leaves the news in order, and a playlist known
\* in time if taking it makes it known.
LEMMA TakenKeeps ==
    ASSUME TypeOK, queue # <<>>, queue' = Tail(queue)
    PROVE  /\ \A s, p : Queued(s, p)' => Queued(s, p)
           /\ \A s, p : Queued(s, p) => Queued(s, p)' \/ Head(queue) = Call(s, p)
           /\ InOrder => InOrder'
           /\ InOrder /\ Head(queue).sig = "removed" => ~Queued("added", Head(queue).list)
           /\ Told' => Told /\ \A i \in 1..Len(queue') : \E j \in 1..Len(queue) : queue'[i] = queue[j]
           /\ Told /\ Head(queue).sig # "current" => Told'
           /\ used' = used => \A i \in 1..Len(queue') : queue'[i].list \in used
<1>1. /\ Len(queue) \in Nat \ {0} /\ 1 \in 1..Len(queue) /\ Head(queue) = queue[1]
      /\ queue' \in Seq(News) /\ Len(queue') = Len(queue) - 1
      /\ \A i \in 1..Len(queue') : i + 1 \in 1..Len(queue) /\ queue'[i] = queue[i + 1]
      /\ \A i \in 1..Len(queue) :
            i = 1 \/ (i - 1 \in 1..Len(queue') /\ queue'[i - 1] = queue[i])
  BY QueueTaken
<1>2. \A s, p : Queued(s, p)' => Queued(s, p)  BY <1>1 DEF Queued, Call
<1>3. \A s, p : Queued(s, p) => Queued(s, p)' \/ Head(queue) = Call(s, p)
  BY <1>1 DEF Queued, Call
<1>4. ASSUME InOrder PROVE InOrder'
  <2>1. SUFFICES ASSUME NEW i \in 1..Len(queue'), NEW j \in 1..Len(queue'),
                        queue'[i].sig = "added", queue'[j] = Call("removed", queue'[i].list)
                 PROVE  i < j
    BY DEF InOrder, Call
  <2>2. i + 1 < j + 1  BY <1>1, <1>4, <2>1 DEF InOrder
  <2>3. i \in Nat /\ j \in Nat  BY <1>1
  <2> QED  BY <2>2, <2>3
<1>5. ASSUME InOrder, Head(queue).sig = "removed" PROVE ~Queued("added", Head(queue).list)
  <2>1. SUFFICES ASSUME NEW i \in 1..Len(queue), queue[i] = Call("added", queue[1].list)
                 PROVE  FALSE
    BY <1>1 DEF Queued
  <2>2. queue[i].sig = "added" /\ queue[i].list = queue[1].list  BY <2>1, Calls
  <2>3. queue[1] \in News  BY <1>1 DEF TypeOK
  <2>4. queue[1] = Call("removed", queue[i].list)  BY <1>1, <1>5, <2>2, <2>3 DEF News, Call
  <2>5. i < 1  BY <1>1, <1>5, <2>2, <2>4 DEF InOrder
  <2> QED  BY <2>5
<1>6. \A i \in 1..Len(queue') : \E j \in 1..Len(queue) : queue'[i] = queue[j]  BY <1>1
<1>7. Told' => Told  BY <1>6 DEF Told
<1>8. Told /\ Head(queue).sig # "current" => Told'  BY <1>1 DEF Told
<1>9. \A i \in 1..Len(queue) : queue[i].list \in used  BY DEF TypeOK
<1> QED  BY <1>2, <1>3, <1>4, <1>5, <1>6, <1>7, <1>8, <1>9

LEMMA TakenKnown ==
    ASSUME TypeOK, queue # <<>>, queue' = Tail(queue), AllKnown(models, queue),
           NEW known,
           \A p \in models : Head(queue) # Call("removed", p) => p \in known,
           \A p : Head(queue) = Call("added", p) => p \in known
    PROVE  AllKnown(known, queue')
<1>1. /\ Len(queue) \in Nat \ {0} /\ 1 \in 1..Len(queue) /\ Head(queue) = queue[1]
      /\ queue' \in Seq(News) /\ Len(queue') = Len(queue) - 1
      /\ \A i \in 1..Len(queue') : i + 1 \in 1..Len(queue) /\ queue'[i] = queue[i + 1]
      /\ \A i \in 1..Len(queue) :
            i = 1 \/ (i - 1 \in 1..Len(queue') /\ queue'[i - 1] = queue[i])
  BY QueueTaken
<1>2. PICK q : q = queue'  OBVIOUS
<1>3. SUFFICES ASSUME NEW i \in 1..Len(q), q[i].sig = "current"
               PROVE  KnownBy(known, q, i, q[i].list)
  BY <1>2 DEF AllKnown
<1>4. PICK p : p = q[i].list  OBVIOUS
<1>5. KnownBy(models, queue, i + 1, p)  BY <1>1, <1>2, <1>3, <1>4 DEF AllKnown
<1>6. \A j \in 1..Len(queue) : j < i + 1 => queue[j] # Call("removed", p)
  BY <1>5 DEF KnownBy
<1>7. \A j \in 1..Len(q) : j < i => q[j] # Call("removed", p)
  <2>1. SUFFICES ASSUME NEW j \in 1..Len(q), j < i PROVE q[j] # Call("removed", p)
    OBVIOUS
  <2>2. j + 1 \in 1..Len(queue) /\ q[j] = queue[j + 1] /\ j + 1 < i + 1
    BY <1>1, <1>2, <2>1
  <2> QED  BY <1>6, <2>2
<1>8. p \in known \/ \E j \in 1..Len(q) : j < i /\ q[j] = Call("added", p)
  <2>1. CASE p \in models
    <3>1. queue[1] # Call("removed", p)
      <4>1. 1 < i + 1  BY <1>1, <1>2
      <4> QED  BY <1>1, <1>6, <4>1
    <3> QED  BY <1>1, <2>1, <3>1
  <2>2. ASSUME NEW j \in 1..Len(queue), j < i + 1, queue[j] = Call("added", p)
        PROVE  p \in known \/ \E k \in 1..Len(q) : k < i /\ q[k] = Call("added", p)
    <3>1. CASE j = 1  BY <1>1, <2>2, <3>1
    <3>2. CASE j # 1
      <4>1. j - 1 \in 1..Len(q) /\ q[j - 1] = queue[j] /\ j - 1 < i
        BY <1>1, <1>2, <2>2, <3>2
      <4> QED  BY <2>2, <4>1
    <3> QED  BY <3>1, <3>2
  <2> QED  BY <1>5, <2>1, <2>2 DEF KnownBy
<1> QED  BY <1>4, <1>7, <1>8 DEF KnownBy

\* What is said is the last of the news.
LEMMA SaidKeeps ==
    ASSUME TypeOK, NEW s \in {"added", "removed", "current"}, NEW p \in used,
           queue' = Append(queue, Call(s, p))
    PROVE  /\ queue' \in Seq(News)
           /\ \A r, k : Queued(r, k)' <=> Queued(r, k) \/ (r = s /\ k = p)
           /\ \A i \in 1..Len(queue') :
                 \/ \E j \in 1..Len(queue) : queue'[i] = queue[j]
                 \/ queue'[i].sig = s /\ queue'[i].list = p
           /\ Told' <=> Told \/ s = "current"
           /\ InOrder /\ (s = "added" => ~Queued("removed", p)) => InOrder'
           /\ AllKnown(models, queue) /\ (s = "current" => (p \in models \/ Queued("added", p))
                                                           /\ ~Queued("removed", p))
                 => AllKnown(models, queue')
           /\ used' = used => \A i \in 1..Len(queue') : queue'[i].list \in used
<1> DEFINE n == Len(queue)
           c == Call(s, p)
<1>1. queue \in Seq(News) /\ n \in Nat /\ c \in News /\ c.sig = s /\ c.list = p
  BY LenProperties DEF TypeOK, News, Call
<1>2. /\ queue' \in Seq(News) /\ Len(queue') = n + 1
      /\ \A i \in 1..n : queue'[i] = queue[i]
      /\ queue'[n + 1] = c
  BY <1>1, AppendProperties
<1> HIDE DEF n, c
<1>3. /\ \A i \in 1..Len(queue') : i \in 1..n \/ i = n + 1
      /\ \A i \in 1..n : i \in 1..Len(queue') /\ i < n + 1
      /\ n + 1 \in 1..Len(queue')
  BY <1>1, <1>2
<1>4. \A r, k : Queued(r, k)' <=> Queued(r, k) \/ c = Call(r, k)
  <2>1. \A r, k : Queued(r, k) <=> \E i \in 1..n : queue[i] = Call(r, k)  BY DEF Queued, n
  <2>2. \A r, k : Queued(r, k)' <=> \E i \in 1..Len(queue') : queue'[i] = Call(r, k)
    BY DEF Queued, Call
  <2> QED  BY <1>2, <1>3, <2>1, <2>2
<1>5. \A r, k : Queued(r, k)' <=> Queued(r, k) \/ (r = s /\ k = p)
  BY <1>4, Calls DEF c
<1>6. \A i \in 1..Len(queue') :
         \/ \E j \in 1..Len(queue) : queue'[i] = queue[j]
         \/ queue'[i].sig = s /\ queue'[i].list = p
  BY <1>1, <1>2, <1>3 DEF n
<1>7. Told' <=> Told \/ s = "current"
  <2>1. Told <=> \E i \in 1..n : queue[i].sig = "current"  BY DEF Told, n
  <2> QED  BY <1>1, <1>2, <1>3, <2>1 DEF Told
<1>8. ASSUME InOrder, s = "added" => ~Queued("removed", p) PROVE InOrder'
  <2>1. SUFFICES ASSUME NEW i \in 1..Len(queue'), NEW j \in 1..Len(queue'),
                        queue'[i].sig = "added", queue'[j] = Call("removed", queue'[i].list)
                 PROVE  i < j
    BY DEF InOrder, Call
  <2>2. CASE i \in 1..n /\ j \in 1..n
    BY <1>2, <1>8, <2>1, <2>2 DEF InOrder, n
  <2>3. CASE i \in 1..n /\ j = n + 1  BY <1>3, <2>3
  <2>4. CASE i = n + 1
    <3>1. s = "added" /\ queue'[i].list = p  BY <1>1, <1>2, <2>1, <2>4
    <3>2. queue'[j].sig = "removed"  BY <2>1, Calls
    <3>3. j \in 1..n  BY <1>1, <1>2, <1>3, <3>1, <3>2
    <3>4. Queued("removed", p)  BY <1>2, <2>1, <3>1, <3>3 DEF Queued, n
    <3> QED  BY <1>8, <3>1, <3>4
  <2> QED  BY <1>3, <2>2, <2>3, <2>4
<1>9. ASSUME AllKnown(models, queue),
             s = "current" => (p \in models \/ Queued("added", p)) /\ ~Queued("removed", p)
      PROVE  AllKnown(models, queue')
  <2>1. PICK q : q = queue'  OBVIOUS
  <2>2. SUFFICES ASSUME NEW i \in 1..Len(q), q[i].sig = "current"
                 PROVE  KnownBy(models, q, i, q[i].list)
    BY <2>1 DEF AllKnown
  <2>3. \A j \in 1..Len(q) : j < i => j \in 1..n /\ q[j] = queue[j]
    BY <1>1, <1>2, <1>3, <2>1
  <2>4. CASE i \in 1..n
    <3>1. q[i] = queue[i]  BY <1>2, <2>1, <2>4
    <3>2. KnownBy(models, queue, i, q[i].list)
      BY <1>9, <2>2, <2>4, <3>1 DEF AllKnown, n
    <3>3. \A j \in 1..n : j \in 1..Len(q) /\ q[j] = queue[j]  BY <1>2, <1>3, <2>1
    <3> QED  BY <2>3, <3>2, <3>3 DEF KnownBy, n
  <2>5. CASE i = n + 1
    <3>1. q[i].list = p /\ s = "current"  BY <1>1, <1>2, <2>1, <2>2, <2>5
    <3>2. \A j \in 1..n : j \in 1..Len(q) /\ j < i /\ q[j] = queue[j]
      BY <1>2, <1>3, <2>1, <2>5
    <3>3. p \in models \/ \E j \in 1..Len(q) : j < i /\ q[j] = Call("added", p)
      BY <1>9, <3>1, <3>2 DEF Queued, n
    <3>4. \A j \in 1..Len(q) : j < i => q[j] # Call("removed", p)
      BY <1>9, <2>3, <3>1 DEF Queued, n
    <3> QED  BY <3>1, <3>3, <3>4 DEF KnownBy
  <2> QED  BY <1>3, <2>1, <2>4, <2>5
<1>10. \A i \in 1..Len(queue) : queue[i].list \in used  BY DEF TypeOK
<1> QED  BY <1>2, <1>5, <1>6, <1>7, <1>8, <1>9, <1>10

-----------------------------------------------------------------------------
(* What most steps leave alone *)

LEMMA Listed ==
    ASSUME TypeOK
    PROVE  \A p : InList(p) <=> \E i \in 1..Len(lists) : lists[i] = p
<1>1. DOMAIN lists = 1..Len(lists)  BY LenProperties DEF TypeOK
<1> QED  BY <1>1 DEF InList

\* No news is made or heard.
LEMMA SameNews ==
    ASSUME IInv, UNCHANGED <<lists, used, models, queue>>,
           frames' \in Seq(Hearing), \A i \in 1..Len(frames') : frames'[i].list \in models,
           gui' \in GuiState, crossed' \in BOOLEAN,
           gui' = gui \/ (gui.at \notin {"added", "removed"} /\ gui'.at \notin {"added", "removed"}),
           gui'.at \in Speaks => InList(gui'.list)
    PROVE  TypeOK' /\ InHand' /\ NewsIsDue' /\ InOrder' /\ KnownInTime'
<1>1. TypeOK /\ InHand /\ NewsIsDue /\ InOrder /\ KnownInTime  BY DEF IInv
<1>2. TypeOK'  BY <1>1 DEF TypeOK
<1>3. \A p : InList(p)' <=> InList(p)  BY DEF InList
<1>4. InHand'
  <2>1. IsInjective(lists)'  BY <1>1 DEF InHand, IsInjective
  <2>2. (gui.at \in Speaks => InList(gui.list))'  BY DEF InList, Speaks
  <2>3. gui'.at = "removed" => gui'.list \in used  BY <1>1 DEF InHand
  <2> QED  BY <2>1, <2>2, <2>3 DEF InHand
<1>5. \A s, p : Queued(s, p)' <=> Queued(s, p)  BY DEF Queued, Call
<1>6. \A p : (Coming(p)' <=> Coming(p)) /\ (Going(p)' <=> Going(p))
  BY <1>5 DEF Coming, Going
<1>7. NewsIsDue'
  <2> HIDE DEF InList, Coming, Going
  <2> QED  BY <1>1, <1>3, <1>6 DEF NewsIsDue
<1>8. InOrder'  BY <1>1 DEF InOrder, Call
<1>9. KnownInTime'
  <2>1. AllKnown(models, queue)'  BY <1>1 DEF KnownInTime, AllKnown, KnownBy, Call
  <2> QED  BY <2>1 DEF KnownInTime
<1> QED  BY <1>2, <1>4, <1>7, <1>8, <1>9

\* Nothing is made current and nobody hears of it.
LEMMA SameCurrent ==
    ASSUME IInv, UNCHANGED <<current, mCurrent, mu, on, control, frames, crossed>>,
           Told' <=> Told,
           \A i \in 1..Len(queue') :
              queue'[i].sig = "current" => \E j \in 1..Len(queue) : queue'[i] = queue[j],
           gui' = gui \/ (gui.at \notin {"set", "emit"} /\ gui'.at # "emit")
    PROVE  CurrentIsHeard'
<1>1. CurrentIsHeard  BY DEF IInv
<1>2. SUFFICES ASSUME ~crossed PROVE OneChange' /\ Followed'
  BY DEF CurrentIsHeard
<1>3. OneChange /\ Followed  BY <1>1, <1>2 DEF CurrentIsHeard
<1>4. OneChange'
  <2>1. \A i \in 1..Len(queue') : queue'[i].sig = "current" => queue'[i].list = current
    BY <1>3 DEF OneChange
  <2> QED  BY <1>3, <2>1 DEF OneChange
<1>5. \A slots : Within(slots)' <=> Within(slots)  BY DEF Within
<1>6. \A slots : OnWay(slots) => OnWay(slots)'  BY <1>5 DEF OnWay
<1>7. Followed'
  <2> HIDE DEF OnWay
  <2> QED  BY <1>3, <1>6 DEF Followed
<1> QED  BY <1>4, <1>7

-----------------------------------------------------------------------------
(* The GUI thread *)

LEMMA GuiFacts ==
    ASSUME TypeOK
    PROVE  /\ gui.list \in Lists \cup {None} /\ gui.then \in {"idle", "read", "jump"}
           /\ \A a \in {"idle", "added", "first", "set", "emit", "removed", "jump", "read"} :
                 [gui EXCEPT !.at = a] \in GuiState /\ [gui EXCEPT !.at = a].at = a
                 /\ [gui EXCEPT !.at = a].list = gui.list
           /\ Idle \in GuiState /\ Idle.at = "idle"
           /\ frames \in Seq(Hearing) /\ crossed \in BOOLEAN
           /\ \A p : InList(p) => p \in used /\ p \in Lists
<1>1. gui \in GuiState /\ frames \in Seq(Hearing) /\ crossed \in BOOLEAN  BY DEF TypeOK
<1>2. \A p : InList(p) => p \in used /\ p \in Lists
  BY Listed, ElementOfSeq DEF TypeOK
<1> QED  BY <1>1, <1>2 DEF GuiState, Idle

LEMMA InsertListKeeps ==
    ASSUME IInv, InsertList
    PROVE  IInv'
<1>1. TypeOK /\ InHand /\ NewsIsDue /\ InOrder /\ KnownInTime  BY DEF IInv
<1>2. PICK p \in Lists \ used, row \in 1..(Len(lists) + 1) :
         /\ lists' = InsertAt(lists, row, p)
         /\ used' = used \cup {p}
         /\ gui' = Busy("added", p, "read")
  BY DEF InsertList
<1>3. /\ gui.at = "idle"
      /\ UNCHANGED <<current, mCurrent, models, mu, on, control, frames, queue, crossed>>
  BY DEF InsertList, Begins, At, followers
<1>4. /\ lists' \in Seq(Lists) /\ IsInjective(lists')
      /\ \A k : (\E i \in 1..Len(lists') : lists'[i] = k)
                   <=> k = p \/ \E i \in 1..Len(lists) : lists[i] = k
  <2>1. lists \in Seq(Lists) /\ \A i \in 1..Len(lists) : lists[i] # p
    BY <1>1 DEF TypeOK
  <2>2. PICK w : w = lists'  OBVIOUS
  <2>3. w = InsertAt(lists, row, p) /\ p \in Lists  BY <1>2, <2>2
  <2>4. IsInjective(lists)  BY <1>1 DEF InHand
  <2>5. IsWith(w, lists, p)  BY <2>1, <2>3, <2>4, InsertedOnce
  <2> QED  BY <2>2, <2>5 DEF IsWith
<1>5. /\ gui' \in GuiState /\ gui'.at = "added" /\ gui'.list = p
  BY <1>2 DEF Busy, GuiState
<1>6. \A k : InList(k)' <=> InList(k) \/ k = p
  <2>1. DOMAIN lists' = 1..Len(lists')  BY <1>4, LenProperties
  <2> QED  BY <1>1, <1>4, <2>1, Listed DEF InList
<1>7. TypeOK'
  <2>1. \A i \in 1..Len(lists') : lists'[i] \in used'
    BY <1>1, <1>2, <1>4 DEF TypeOK
  <2>2. \A i \in 1..Len(queue') : queue'[i].list \in used'  BY <1>1, <1>2, <1>3 DEF TypeOK
  <2> QED  BY <1>1, <1>2, <1>3, <1>4, <1>5, <2>1, <2>2 DEF TypeOK
<1>8. InHand'
  <2>1. InList(gui.list)'  BY <1>5, <1>4, <1>6 DEF InList
  <2>2. IsInjective(lists)'  BY <1>4 DEF IsInjective
  <2> QED  BY <1>5, <2>1, <2>2 DEF InHand
<1>9. \A s, k : Queued(s, k)' <=> Queued(s, k)  BY <1>3 DEF Queued, Call
<1>10. ~InList(p) /\ p \notin models /\ ~Queued("removed", p)
  <2>1. ~InList(p)  BY <1>1, GuiFacts
  <2>2. p \notin models  BY <1>1 DEF TypeOK
  <2>3. ~Queued("removed", p)  BY <1>1, Calls DEF Queued, TypeOK
  <2> QED  BY <2>1, <2>2, <2>3
<1>11. NewsIsDue'
  <2>1. \A k : Coming(k)' <=> Coming(k) \/ k = p
    BY <1>3, <1>5, <1>9 DEF Coming
  <2>2. \A k : Going(k)' <=> Going(k)
    BY <1>3, <1>5, <1>9 DEF Going
  <2>3. ~Going(p)  BY <1>3, <1>10 DEF Going
  <2> HIDE DEF Going, Coming, InList
  <2> QED  BY <1>1, <1>3, <1>6, <2>1, <2>2, <2>3 DEF NewsIsDue
<1>12. InOrder'  BY <1>1, <1>3 DEF InOrder, Call
<1>13. KnownInTime'  BY <1>1, <1>3 DEF KnownInTime, AllKnown, KnownBy, Call
<1>14. CurrentIsHeard'
  <2>1. Told' <=> Told  BY <1>3 DEF Told
  <2> QED  BY <1>3, <1>5, <2>1, SameCurrent
<1> QED  BY <1>7, <1>8, <1>11, <1>12, <1>13, <1>14 DEF IInv

LEMMA EmitAddedKeeps ==
    ASSUME IInv, EmitAdded
    PROVE  IInv'
<1>1. TypeOK /\ InHand /\ NewsIsDue /\ InOrder /\ KnownInTime  BY DEF IInv
<1>2. /\ gui.at = "added" /\ gui' = [gui EXCEPT !.at = "first"]
      /\ queue' = Append(queue, Call("added", gui.list))
      /\ UNCHANGED <<lists, used, models, current, mCurrent, mu, on, control, frames, crossed>>
  BY DEF EmitAdded, At, followers
<1>3. PICK p : p = gui.list  OBVIOUS
<1>4. gui' \in GuiState /\ gui'.at = "first" /\ gui'.list = p
  BY <1>1, <1>2, <1>3, GuiFacts
<1>5. InList(p) /\ p \in used /\ p \in Lists
  <2>1. InList(p)  BY <1>1, <1>2, <1>3 DEF InHand, Speaks
  <2> QED  BY <1>1, <2>1, GuiFacts
<1>6. ~Going(p)  BY <1>1, <1>5 DEF NewsIsDue
<1>7. /\ queue' \in Seq(News)
      /\ \A r, k : Queued(r, k)' <=> Queued(r, k) \/ (r = "added" /\ k = p)
      /\ \A i \in 1..Len(queue') :
            \/ \E j \in 1..Len(queue) : queue'[i] = queue[j]
            \/ queue'[i].sig = "added" /\ queue'[i].list = p
      /\ Told' <=> Told
      /\ InOrder /\ ~Queued("removed", p) => InOrder'
      /\ AllKnown(models, queue) => AllKnown(models, queue')
      /\ \A i \in 1..Len(queue') : queue'[i].list \in used
  <2>1. queue' = Append(queue, Call("added", p))  BY <1>2, <1>3
  <2> QED  BY <1>1, <1>2, <1>5, <2>1, SaidKeeps
<1>8. TypeOK'  BY <1>1, <1>2, <1>4, <1>7 DEF TypeOK
<1>9. \A k : InList(k)' <=> InList(k)  BY <1>2 DEF InList
<1>10. InHand'
  <2>1. InList(gui.list)'  BY <1>2, <1>4, <1>5 DEF InList
  <2>2. IsInjective(lists)'  BY <1>1, <1>2 DEF InHand, IsInjective
  <2> QED  BY <1>4, <2>1, <2>2 DEF InHand
<1>11. NewsIsDue'
  <2>1. \A k : Coming(k)' <=> Coming(k)  BY <1>2, <1>3, <1>4, <1>7 DEF Coming
  <2>2. \A k : Going(k)' <=> Going(k)  BY <1>2, <1>4, <1>7 DEF Going
  <2> HIDE DEF Going, Coming, InList
  <2> QED  BY <1>1, <1>2, <1>9, <2>1, <2>2 DEF NewsIsDue
<1>12. InOrder'  BY <1>1, <1>6, <1>7 DEF Going
<1>13. KnownInTime'
  <2>1. AllKnown(models, queue')  BY <1>1, <1>7 DEF KnownInTime
  <2>2. AllKnown(models, queue)'  BY <1>2, <2>1 DEF AllKnown, KnownBy, Call
  <2> QED  BY <1>1, <1>2, <2>2 DEF KnownInTime
<1>14. CurrentIsHeard'
  <2>1. \A i \in 1..Len(queue') :
           queue'[i].sig = "current" => \E j \in 1..Len(queue) : queue'[i] = queue[j]
    BY <1>7
  <2> QED  BY <1>2, <1>4, <1>7, <2>1, SameCurrent
<1> QED  BY <1>8, <1>10, <1>11, <1>12, <1>13, <1>14 DEF IInv

LEMMA FirstKeeps ==
    ASSUME IInv, First
    PROVE  IInv'
<1>1. TypeOK /\ InHand  BY DEF IInv
<1>2. /\ gui.at = "first"
      /\ gui' = [gui EXCEPT !.at = "set"] \/ gui' = [gui EXCEPT !.at = gui.then]
      /\ UNCHANGED <<lists, used, models, queue, current, mCurrent, mu, on, control, frames, crossed>>
  BY DEF First, At, followers
<1>3. PICK a \in {"set", "idle", "read", "jump"} : gui' = [gui EXCEPT !.at = a]
  BY <1>1, <1>2, GuiFacts
<1>4. gui' \in GuiState /\ gui'.at = a /\ gui'.list = gui.list  BY <1>1, <1>3, GuiFacts
<1>5. InList(gui.list)  BY <1>1, <1>2 DEF InHand, Speaks
<1>6. frames \in Seq(Hearing) /\ crossed \in BOOLEAN  BY <1>1, GuiFacts
<1>7. \A i \in 1..Len(frames) : frames[i].list \in models  BY DEF IInv, KnownInTime
<1>8. Told' <=> Told  BY <1>2 DEF Told
<1>9. TypeOK' /\ InHand' /\ NewsIsDue' /\ InOrder' /\ KnownInTime'
  <2> HIDE DEF InList
  <2> QED  BY <1>2, <1>4, <1>5, <1>6, <1>7, SameNews
<1>10. CurrentIsHeard'  BY <1>2, <1>4, <1>8, SameCurrent
<1> QED  BY <1>9, <1>10 DEF IInv

\* The GUI does something else than to insert, to remove or to set.
LEMMA OtherwiseBusy ==
    ASSUME IInv, UNCHANGED <<lists, used, models, queue, current, mCurrent, mu, on, control,
                             frames, crossed>>,
           gui.at \in {"idle", "jump", "read"}, gui' = Idle \/ gui' = Busy("read", None, "idle")
    PROVE  IInv'
<1>1. TypeOK  BY DEF IInv
<1>2. gui' \in GuiState /\ gui'.at \in {"idle", "read"}  BY DEF Idle, Busy, GuiState
<1>3. frames \in Seq(Hearing) /\ crossed \in BOOLEAN  BY <1>1, GuiFacts
<1>4. \A i \in 1..Len(frames) : frames[i].list \in models  BY DEF IInv, KnownInTime
<1>5. Told' <=> Told  BY DEF Told
<1>6. TypeOK' /\ InHand' /\ NewsIsDue' /\ InOrder' /\ KnownInTime'
  BY <1>2, <1>3, <1>4, SameNews DEF Speaks
<1>7. CurrentIsHeard'  BY <1>2, <1>5, SameCurrent
<1> QED  BY <1>6, <1>7 DEF IInv

LEMMA JumpKeeps ==
    ASSUME IInv, Jump
    PROVE  IInv'
BY OtherwiseBusy DEF Jump, At

LEMMA RepaintKeeps ==
    ASSUME IInv, Repaint
    PROVE  IInv'
BY OtherwiseBusy DEF Repaint, At, followers

LEMMA ReadKeeps ==
    ASSUME IInv, Read
    PROVE  IInv'
BY OtherwiseBusy DEF Read, At, followers

\* Unless changes cross, nothing else is said of the current playlist when it
\* is set.
LEMMA SetCurrentKeeps ==
    ASSUME IInv, SetCurrent
    PROVE  IInv'
<1>1. TypeOK /\ InHand /\ CurrentIsHeard  BY DEF IInv
<1>2. /\ gui.at = "set" /\ current' = gui.list
      /\ gui' = [gui EXCEPT !.at = IF current = gui.list THEN gui.then ELSE "emit"]
      /\ crossed' = (crossed \/ (current # gui.list /\ Pending))
      /\ UNCHANGED <<lists, used, models, queue, mCurrent, mu, on, control, frames>>
  BY DEF SetCurrent, At, followers
<1>3. PICK a \in {"emit", "idle", "read", "jump"} :
         /\ gui' = [gui EXCEPT !.at = a]
         /\ a = "emit" <=> current # gui.list
  BY <1>1, <1>2, GuiFacts
<1>4. gui' \in GuiState /\ gui'.at = a /\ gui'.list = gui.list  BY <1>1, <1>3, GuiFacts
<1>5. InList(gui.list)  BY <1>1, <1>2 DEF InHand, Speaks
<1>6. frames \in Seq(Hearing) /\ crossed' \in BOOLEAN  BY <1>1, <1>2, GuiFacts
<1>7. \A i \in 1..Len(frames) : frames[i].list \in models  BY DEF IInv, KnownInTime
<1>8. TypeOK' /\ InHand' /\ NewsIsDue' /\ InOrder' /\ KnownInTime'
  <2> HIDE DEF InList
  <2> QED  BY <1>2, <1>4, <1>5, <1>6, <1>7, SameNews
<1>9. CurrentIsHeard'
  <2>1. SUFFICES ASSUME ~crossed' PROVE OneChange' /\ Followed'  BY DEF CurrentIsHeard
  <2>2. ~crossed /\ (current # gui.list => ~Pending)  BY <1>2, <2>1
  <2>3. OneChange /\ Followed  BY <1>1, <2>2 DEF CurrentIsHeard
  <2>4. CASE current = gui.list
    <3>1. gui'.at # "emit" /\ current' = current  BY <1>2, <1>3, <1>4, <2>4
    <3>2. \A slots : OnWay(slots)' <=> OnWay(slots)
      BY <1>2, <3>1 DEF OnWay, Told, Within
    <3>3. OneChange'  BY <1>2, <2>3, <3>1 DEF OneChange
    <3>4. Followed'
      <4> HIDE DEF OnWay
      <4> QED  BY <1>2, <2>3, <2>4, <3>1, <3>2 DEF Followed
    <3> QED  BY <3>3, <3>4
  <2>5. CASE current # gui.list
    <3>1. gui'.at = "emit" /\ gui'.list = current'  BY <1>2, <1>3, <1>4, <2>5
    <3>2. frames = <<>> /\ \A i \in DOMAIN queue : queue[i].sig # "current"
      BY <2>2, <2>5 DEF Pending
    <3>3. DOMAIN queue = 1..Len(queue)  BY <1>1, LenProperties DEF TypeOK
    <3>4. Len(frames) = 0  BY <3>2
    <3>5. OneChange'  BY <1>2, <2>3, <3>1, <3>2, <3>3, <3>4 DEF OneChange
    <3>6. Followed'  BY <3>1 DEF Followed, OnWay
    <3> QED  BY <3>5, <3>6
  <2> QED  BY <2>4, <2>5
<1> QED  BY <1>8, <1>9 DEF IInv

LEMMA EmitCurrentKeeps ==
    ASSUME IInv, EmitCurrent
    PROVE  IInv'
<1>1. TypeOK /\ InHand /\ NewsIsDue /\ InOrder /\ KnownInTime /\ CurrentIsHeard  BY DEF IInv
<1>2. /\ gui.at = "emit" /\ gui' = [gui EXCEPT !.at = gui.then]
      /\ queue' = Append(queue, Call("current", gui.list))
      /\ UNCHANGED <<lists, used, models, current, mCurrent, mu, on, control, frames, crossed>>
  BY DEF EmitCurrent, At, followers
<1>3. PICK p : p = gui.list  OBVIOUS
<1>4. gui' \in GuiState /\ gui'.at \in {"idle", "read", "jump"} /\ gui'.list = p
  BY <1>1, <1>2, <1>3, GuiFacts
<1>5. InList(p) /\ p \in used /\ p \in Lists
  <2>1. InList(p)  BY <1>1, <1>2, <1>3 DEF InHand, Speaks
  <2> QED  BY <1>1, <2>1, GuiFacts
<1>6. ~Queued("removed", p) /\ (p \in models \/ Queued("added", p))
  BY <1>1, <1>2, <1>5 DEF NewsIsDue, Coming, Going
<1>7. /\ queue' \in Seq(News)
      /\ \A r, k : Queued(r, k)' <=> Queued(r, k) \/ (r = "current" /\ k = p)
      /\ \A i \in 1..Len(queue') :
            \/ \E j \in 1..Len(queue) : queue'[i] = queue[j]
            \/ queue'[i].sig = "current" /\ queue'[i].list = p
      /\ Told'
      /\ InOrder => InOrder'
      /\ AllKnown(models, queue) => AllKnown(models, queue')
      /\ \A i \in 1..Len(queue') : queue'[i].list \in used
  <2>1. queue' = Append(queue, Call("current", p))  BY <1>2, <1>3
  <2> QED  BY <1>1, <1>2, <1>5, <1>6, <2>1, SaidKeeps
<1>8. TypeOK'  BY <1>1, <1>2, <1>4, <1>7 DEF TypeOK
<1>9. \A k : InList(k)' <=> InList(k)  BY <1>2 DEF InList
<1>10. InHand'
  <2>1. IsInjective(lists)'  BY <1>1, <1>2 DEF InHand, IsInjective
  <2> QED  BY <1>4, <2>1 DEF InHand, Speaks
<1>11. NewsIsDue'
  <2>1. \A k : Coming(k)' <=> Coming(k)  BY <1>2, <1>4, <1>7 DEF Coming
  <2>2. \A k : Going(k)' <=> Going(k)  BY <1>2, <1>4, <1>7 DEF Going
  <2> HIDE DEF Going, Coming, InList
  <2> QED  BY <1>1, <1>2, <1>9, <2>1, <2>2 DEF NewsIsDue
<1>12. InOrder'  BY <1>1, <1>7
<1>13. KnownInTime'
  <2>1. AllKnown(models, queue')  BY <1>1, <1>7 DEF KnownInTime
  <2>2. AllKnown(models, queue)'  BY <1>2, <2>1 DEF AllKnown, KnownBy, Call
  <2> QED  BY <1>1, <1>2, <2>2 DEF KnownInTime
<1>14. CurrentIsHeard'
  <2>1. SUFFICES ASSUME ~crossed' PROVE OneChange' /\ Followed'  BY DEF CurrentIsHeard
  <2>2. OneChange  BY <1>1, <1>2, <2>1 DEF CurrentIsHeard
  <2>3. p = current  BY <1>2, <1>3, <2>2 DEF OneChange
  <2>4. OneChange'  BY <1>2, <1>4, <1>7, <2>2, <2>3 DEF OneChange
  <2>5. Followed'  BY <1>7 DEF Followed, OnWay
  <2> QED  BY <2>4, <2>5
<1> QED  BY <1>8, <1>10, <1>11, <1>12, <1>13, <1>14 DEF IInv

LEMMA RemoveListKeeps ==
    ASSUME IInv, RemoveList
    PROVE  IInv'
<1>1. TypeOK /\ InHand /\ NewsIsDue /\ InOrder /\ KnownInTime  BY DEF IInv
<1>2. PICK row \in DOMAIN lists :
         lists' = RemoveAt(lists, row) /\ gui' = Busy("removed", lists[row], "idle")
  BY DEF RemoveList
<1>3. /\ gui.at = "idle"
      /\ UNCHANGED <<used, current, mCurrent, models, mu, on, control, frames, queue, crossed>>
  BY DEF RemoveList, Begins, At, followers
<1>4. PICK p : p = lists[row]  OBVIOUS
<1>5. row \in 1..Len(lists) /\ p \in used /\ p \in Lists
  <2>1. row \in 1..Len(lists)  BY <1>1, LenProperties DEF TypeOK
  <2> QED  BY <1>1, <1>4, <2>1 DEF TypeOK
<1>6. IsWithout(lists', lists, p)
  <2>1. PICK w : w = lists'  OBVIOUS
  <2>2. w = RemoveAt(lists, row) /\ lists \in Seq(Lists) /\ IsInjective(lists)
    BY <1>1, <1>2, <2>1 DEF TypeOK, InHand
  <2>3. IsWithout(w, lists, lists[row])  BY <1>5, <2>2, RemovedOnce
  <2> QED  BY <1>4, <2>1, <2>3
<1>7. /\ lists' \in Seq(Lists) /\ IsInjective(lists')
      /\ \A k : (\E i \in 1..Len(lists') : lists'[i] = k)
                   <=> k # p /\ \E i \in 1..Len(lists) : lists[i] = k
  BY <1>6 DEF IsWithout
<1>8. /\ gui' \in GuiState /\ gui'.at = "removed" /\ gui'.list = p
  BY <1>2, <1>4, <1>5 DEF Busy, GuiState
<1>9. \A k : InList(k)' <=> InList(k) /\ k # p
  <2>1. DOMAIN lists' = 1..Len(lists')  BY <1>7, LenProperties
  <2> QED  BY <1>1, <1>7, <2>1, Listed DEF InList
<1>10. TypeOK'
  <2>1. \A i \in 1..Len(lists') : lists'[i] \in used
    BY <1>1, <1>7 DEF TypeOK
  <2> QED  BY <1>1, <1>3, <1>7, <1>8, <2>1 DEF TypeOK
<1>11. InHand'
  <2>1. IsInjective(lists)'  BY <1>7 DEF IsInjective
  <2> QED  BY <1>3, <1>5, <1>8, <2>1 DEF InHand, Speaks
<1>12. \A s, k : Queued(s, k)' <=> Queued(s, k)  BY <1>3 DEF Queued, Call
<1>13. NewsIsDue'
  <2>1. \A k : Coming(k)' <=> Coming(k)  BY <1>3, <1>8, <1>12 DEF Coming
  <2>2. \A k : Going(k)' <=> Going(k) \/ k = p  BY <1>3, <1>8, <1>12 DEF Going
  <2> HIDE DEF Going, Coming, InList
  <2> QED  BY <1>1, <1>3, <1>9, <2>1, <2>2 DEF NewsIsDue
<1>14. InOrder'  BY <1>1, <1>3 DEF InOrder, Call
<1>15. KnownInTime'  BY <1>1, <1>3 DEF KnownInTime, AllKnown, KnownBy, Call
<1>16. CurrentIsHeard'
  <2>1. Told' <=> Told  BY <1>3 DEF Told
  <2> QED  BY <1>3, <1>8, <2>1, SameCurrent
<1> QED  BY <1>10, <1>11, <1>13, <1>14, <1>15, <1>16 DEF IInv

LEMMA EmitRemovedKeeps ==
    ASSUME IInv, EmitRemoved
    PROVE  IInv'
<1>1. TypeOK /\ InHand /\ NewsIsDue /\ InOrder /\ KnownInTime  BY DEF IInv
<1>2. /\ gui.at = "removed" /\ gui' = Idle
      /\ queue' = Append(queue, Call("removed", gui.list))
      /\ UNCHANGED <<lists, used, models, current, mCurrent, mu, on, control, frames, crossed>>
  BY DEF EmitRemoved, At, followers
<1>3. PICK p : p = gui.list  OBVIOUS
<1>4. gui' \in GuiState /\ gui'.at = "idle"  BY <1>1, <1>2, GuiFacts
<1>5. p \in used  BY <1>1, <1>2, <1>3 DEF InHand
<1>6. /\ queue' \in Seq(News)
      /\ \A r, k : Queued(r, k)' <=> Queued(r, k) \/ (r = "removed" /\ k = p)
      /\ \A i \in 1..Len(queue') :
            \/ \E j \in 1..Len(queue) : queue'[i] = queue[j]
            \/ queue'[i].sig = "removed" /\ queue'[i].list = p
      /\ Told' <=> Told
      /\ InOrder => InOrder'
      /\ AllKnown(models, queue) => AllKnown(models, queue')
      /\ \A i \in 1..Len(queue') : queue'[i].list \in used
  <2>1. queue' = Append(queue, Call("removed", p))  BY <1>2, <1>3
  <2> QED  BY <1>1, <1>2, <1>5, <2>1, SaidKeeps
<1>7. TypeOK'  BY <1>1, <1>2, <1>4, <1>6 DEF TypeOK
<1>8. \A k : InList(k)' <=> InList(k)  BY <1>2 DEF InList
<1>9. InHand'
  <2>1. IsInjective(lists)'  BY <1>1, <1>2 DEF InHand, IsInjective
  <2> QED  BY <1>4, <2>1 DEF InHand, Speaks
<1>10. NewsIsDue'
  <2>1. \A k : Coming(k)' <=> Coming(k)  BY <1>2, <1>4, <1>6 DEF Coming
  <2>2. \A k : Going(k)' <=> Going(k)  BY <1>2, <1>3, <1>4, <1>6 DEF Going
  <2> HIDE DEF Going, Coming, InList
  <2> QED  BY <1>1, <1>2, <1>8, <2>1, <2>2 DEF NewsIsDue
<1>11. InOrder'  BY <1>1, <1>6
<1>12. KnownInTime'
  <2>1. AllKnown(models, queue')  BY <1>1, <1>6 DEF KnownInTime
  <2>2. AllKnown(models, queue)'  BY <1>2, <2>1 DEF AllKnown, KnownBy, Call
  <2> QED  BY <1>1, <1>2, <2>2 DEF KnownInTime
<1>13. CurrentIsHeard'
  <2>1. \A i \in 1..Len(queue') :
           queue'[i].sig = "current" => \E j \in 1..Len(queue) : queue'[i] = queue[j]
    BY <1>6
  <2> QED  BY <1>2, <1>4, <1>6, <2>1, SameCurrent
<1> QED  BY <1>7, <1>9, <1>10, <1>11, <1>12, <1>13 DEF IInv

\* Who chooses a playlist has its model current at once and sets it then.
LEMMA ChooseKeeps ==
    ASSUME IInv, NEW then \in {"idle", "jump"}, Choose(then)
    PROVE  IInv'
<1>1. TypeOK /\ CurrentIsHeard  BY DEF IInv
<1>2. PICK p \in models :
         /\ InList(p) /\ mCurrent' = p
         /\ gui' = IF mCurrent = p THEN Busy(then, p, then) ELSE Busy("set", p, then)
  BY DEF Choose
<1>3. /\ gui.at = "idle"
      /\ UNCHANGED <<lists, used, models, queue, current, mu, on, control, frames, crossed>>
  BY DEF Choose, Begins, At, followers
<1>4. p \in Lists  BY <1>1, <1>2, GuiFacts
<1>5. /\ gui' \in GuiState /\ gui'.list = p
      /\ gui'.at = IF mCurrent = p THEN then ELSE "set"
  BY <1>2, <1>4 DEF Busy, GuiState
<1>6. frames \in Seq(Hearing) /\ crossed \in BOOLEAN  BY <1>1, GuiFacts
<1>7. \A i \in 1..Len(frames) : frames[i].list \in models  BY DEF IInv, KnownInTime
<1>8. TypeOK' /\ InHand' /\ NewsIsDue' /\ InOrder' /\ KnownInTime'
  <2>1. gui'.at \in {"idle", "jump", "set"}  BY <1>5
  <2>2. InList(gui'.list)  BY <1>2, <1>5
  <2> HIDE DEF InList
  <2> QED  BY <1>3, <1>5, <1>6, <1>7, <2>1, <2>2, SameNews
<1>9. CurrentIsHeard'
  <2>1. SUFFICES ASSUME ~crossed' PROVE OneChange' /\ Followed'  BY DEF CurrentIsHeard
  <2>2. OneChange /\ Followed  BY <1>1, <1>3, <2>1 DEF CurrentIsHeard
  <2>3. gui'.at # "emit"  BY <1>5
  <2>4. OneChange'  BY <1>3, <2>2, <2>3 DEF OneChange
  <2>5. \A slots : OnWay(slots)' <=> OnWay(slots)
    BY <1>3, <2>3 DEF OnWay, Told, Within
  <2>6. Followed'
    <3> HIDE DEF OnWay
    <3>1. mCurrent = p => mCurrent = current \/ OnWay({"player", "model"})
      BY <1>3, <2>2 DEF Followed
    <3>2. mCurrent # p => gui'.at = "set" /\ gui'.list = mCurrent'  BY <1>2, <1>5
    <3> QED  BY <1>2, <1>3, <2>2, <2>5, <3>1, <3>2 DEF Followed
  <2> QED  BY <2>4, <2>6
<1> QED  BY <1>8, <1>9 DEF IInv
-----------------------------------------------------------------------------
(* The signal thread *)

\* The call that is taken from the queue.
LEMMA Taken ==
    ASSUME TypeOK, NEW s, Takes(s), queue' = Tail(queue)
    PROVE  /\ queue # <<>> /\ frames = <<>> /\ Len(frames) = 0
           /\ 1 \in 1..Len(queue) /\ Head(queue) = queue[1]
           /\ Head(queue).sig = s /\ Head(queue).list \in used /\ Head(queue).list \in Lists
           /\ Head(queue) = Call(s, Head(queue).list)
           /\ queue' \in Seq(News) /\ \A i \in 1..Len(queue') : \E j \in 1..Len(queue) : queue'[i] = queue[j]
           /\ \A i \in 1..Len(queue') : queue'[i].list \in used
<1>1. queue # <<>> /\ frames = <<>> /\ Head(queue).sig = s  BY DEF Takes, Idles
<1>2. /\ Len(queue) \in Nat \ {0} /\ 1 \in 1..Len(queue) /\ Head(queue) = queue[1]
      /\ queue' \in Seq(News) /\ Len(queue') = Len(queue) - 1
      /\ \A i \in 1..Len(queue') : i + 1 \in 1..Len(queue) /\ queue'[i] = queue[i + 1]
  BY <1>1, QueueTaken
<1>3. queue[1] \in News /\ queue[1].list \in used  BY <1>2, ElementOfSeq DEF TypeOK
<1>4. Head(queue) = Call(s, Head(queue).list)  BY <1>1, <1>2, <1>3 DEF News, Call
<1>5. \A i \in 1..Len(queue') : queue'[i].list \in used  BY <1>2 DEF TypeOK
<1> QED  BY <1>1, <1>2, <1>3, <1>4, <1>5 DEF News

LEMMA HearAddedKeeps ==
    ASSUME IInv, HearAdded
    PROVE  IInv'
<1>1. TypeOK /\ InHand /\ NewsIsDue /\ InOrder /\ KnownInTime  BY DEF IInv
<1>2. /\ Takes("added") /\ queue' = Tail(queue)
      /\ models' = models \cup {Head(queue).list}
      /\ UNCHANGED <<lists, used, gui, current, mCurrent, mu, on, control, frames, crossed>>
  BY DEF HearAdded
<1>3. PICK p : p = Head(queue).list  OBVIOUS
<1>4. /\ queue # <<>> /\ frames = <<>> /\ Len(frames) = 0
      /\ 1 \in 1..Len(queue) /\ Head(queue) = queue[1]
      /\ Head(queue).sig = "added" /\ p \in used /\ p \in Lists
      /\ Head(queue) = Call("added", p)
      /\ queue' \in Seq(News) /\ \A i \in 1..Len(queue') : \E j \in 1..Len(queue) : queue'[i] = queue[j]
      /\ \A i \in 1..Len(queue') : queue'[i].list \in used
  BY <1>1, <1>2, <1>3, Taken
<1>5. /\ \A s, k : Queued(s, k)' => Queued(s, k)
      /\ \A s, k : Queued(s, k) => Queued(s, k)' \/ Head(queue) = Call(s, k)
      /\ InOrder' /\ (Told' <=> Told)
  BY <1>1, <1>2, <1>4, TakenKeeps
<1>6. TypeOK'  BY <1>1, <1>2, <1>3, <1>4 DEF TypeOK
<1>7. \A k : InList(k)' <=> InList(k)  BY <1>2 DEF InList
<1>8. InHand'
  <2>1. IsInjective(lists)'  BY <1>1, <1>2 DEF InHand, IsInjective
  <2>2. (gui.at \in Speaks => InList(gui.list))'
    BY <1>1, <1>2 DEF InHand, InList, Speaks
  <2> QED  BY <1>1, <1>2, <2>1, <2>2 DEF InHand
<1>9. NewsIsDue'
  <2>1. Queued("added", p)  BY <1>4 DEF Queued
  <2>2. \A k : Coming(k)' => Coming(k)  BY <1>2, <1>5 DEF Coming
  <2>3. \A k : Coming(k) => Coming(k)' \/ k = p
    <3>1. \A k : Head(queue) = Call("added", k) => k = p  BY <1>4, Calls
    <3>2. \A k : Queued("added", k) => Queued("added", k)' \/ k = p
      <4> HIDE DEF Queued
      <4> QED  BY <1>5, <3>1
    <3> QED  BY <1>2, <3>2 DEF Coming
  <2>4. \A k : Going(k)' <=> Going(k)
    <3>a. \A k : Head(queue) # Call("removed", k)  BY <1>4, Calls
    <3>1. \A k : Queued("removed", k) => Queued("removed", k)'
      <4> HIDE DEF Queued
      <4> QED  BY <1>5, <3>a
    <3> QED  BY <1>2, <1>5, <3>1 DEF Going
  <2>5. Coming(p)  BY <2>1 DEF Coming
  <2>6. models' = models \cup {p}  BY <1>2, <1>3
  <2> HIDE DEF Going, Coming, InList
  <2> QED  BY <1>1, <1>7, <2>2, <2>3, <2>4, <2>5, <2>6 DEF NewsIsDue
<1>10. KnownInTime'
  <2>1. PICK known : known = models'  OBVIOUS
  <2>2. \A k \in models : k \in known  BY <1>2, <2>1
  <2>3. \A k : Head(queue) = Call("added", k) => k \in known  BY <1>2, <1>3, <1>4, <2>1, Calls
  <2>4. AllKnown(models, queue)  BY <1>1 DEF KnownInTime
  <2>5. AllKnown(known, queue')  BY <1>1, <1>2, <1>4, <2>2, <2>3, <2>4, TakenKnown
  <2>6. AllKnown(models, queue)'  BY <2>1, <2>5 DEF AllKnown, KnownBy, Call
  <2> QED  BY <1>2, <1>4, <2>6 DEF KnownInTime
<1>11. CurrentIsHeard'  BY <1>2, <1>4, <1>5, SameCurrent
<1> QED  BY <1>5, <1>6, <1>8, <1>9, <1>10, <1>11 DEF IInv

\* The news that a playlist is gone is the last there is of it.
LEMMA HearRemovedKeeps ==
    ASSUME IInv, HearRemoved
    PROVE  IInv'
<1>1. TypeOK /\ InHand /\ NewsIsDue /\ InOrder /\ KnownInTime  BY DEF IInv
<1>2. /\ Takes("removed") /\ queue' = Tail(queue)
      /\ models' = models \ {Head(queue).list}
      /\ UNCHANGED <<lists, used, gui, current, mCurrent, mu, on, control, frames, crossed>>
  BY DEF HearRemoved
<1>3. PICK p : p = Head(queue).list  OBVIOUS
<1>4. /\ queue # <<>> /\ frames = <<>> /\ Len(frames) = 0
      /\ 1 \in 1..Len(queue) /\ Head(queue) = queue[1]
      /\ Head(queue).sig = "removed" /\ p \in used /\ p \in Lists
      /\ Head(queue) = Call("removed", p)
      /\ queue' \in Seq(News) /\ \A i \in 1..Len(queue') : \E j \in 1..Len(queue) : queue'[i] = queue[j]
      /\ \A i \in 1..Len(queue') : queue'[i].list \in used
  BY <1>1, <1>2, <1>3, Taken
<1>5. /\ \A s, k : Queued(s, k)' => Queued(s, k)
      /\ \A s, k : Queued(s, k) => Queued(s, k)' \/ Head(queue) = Call(s, k)
      /\ InOrder' /\ ~Queued("added", p) /\ (Told' <=> Told)
  BY <1>1, <1>2, <1>3, <1>4, TakenKeeps
<1>6. TypeOK'  BY <1>1, <1>2, <1>3, <1>4 DEF TypeOK
<1>7. \A k : InList(k)' <=> InList(k)  BY <1>2 DEF InList
<1>8. InHand'
  <2>1. IsInjective(lists)'  BY <1>1, <1>2 DEF InHand, IsInjective
  <2>2. (gui.at \in Speaks => InList(gui.list))'
    BY <1>1, <1>2 DEF InHand, InList, Speaks
  <2> QED  BY <1>1, <1>2, <2>1, <2>2 DEF InHand
<1>9. NewsIsDue'
  <2>1. Going(p)  BY <1>4 DEF Going, Queued
  <2>2. ~InList(p)  BY <1>1, <1>4, <2>1 DEF NewsIsDue
  <2>3. ~Coming(p)
    <3>1. gui.at = "added" => InList(gui.list)  BY <1>1 DEF InHand, Speaks
    <3> QED  BY <1>5, <2>2, <3>1 DEF Coming
  <2>4. \A k : Coming(k)' <=> Coming(k)
    <3>a. \A k : Head(queue) # Call("added", k)  BY <1>4, Calls
    <3>1. \A k : Queued("added", k) => Queued("added", k)'
      <4> HIDE DEF Queued
      <4> QED  BY <1>5, <3>a
    <3> QED  BY <1>2, <1>5, <3>1 DEF Coming
  <2>5. \A k : (Going(k)' => Going(k)) /\ (Going(k) => Going(k)' \/ k = p)
    <3>1. \A k : Head(queue) = Call("removed", k) => k = p
      BY <1>4, Calls
    <3>2. \A k : Queued("removed", k) => Queued("removed", k)' \/ k = p
      <4> HIDE DEF Queued
      <4> QED  BY <1>5, <3>1
    <3> QED  BY <1>2, <1>5, <3>2 DEF Going
  <2>6. models' = models \ {p}  BY <1>2, <1>3
  <2> HIDE DEF Going, Coming, InList
  <2> QED  BY <1>1, <1>7, <2>2, <2>3, <2>4, <2>5, <2>6 DEF NewsIsDue
<1>10. KnownInTime'
  <2>1. PICK known : known = models'  OBVIOUS
  <2>2. \A k \in models : Head(queue) # Call("removed", k) => k \in known
    BY <1>2, <1>3, <1>4, <2>1
  <2>3. \A k : Head(queue) # Call("added", k)  BY <1>4, Calls
  <2>4. AllKnown(models, queue)  BY <1>1 DEF KnownInTime
  <2>5. AllKnown(known, queue')  BY <1>1, <1>2, <1>4, <2>2, <2>3, <2>4, TakenKnown
  <2>6. AllKnown(models, queue)'  BY <2>1, <2>5 DEF AllKnown, KnownBy, Call
  <2> QED  BY <1>2, <1>4, <2>6 DEF KnownInTime
<1>11. CurrentIsHeard'  BY <1>2, <1>4, <1>5, SameCurrent
<1> QED  BY <1>5, <1>6, <1>8, <1>9, <1>10, <1>11 DEF IInv

\* Who is told of the current playlist knows it.
LEMMA HearCurrentKeeps ==
    ASSUME IInv, HearCurrent
    PROVE  IInv'
<1>1. TypeOK /\ InHand /\ NewsIsDue /\ InOrder /\ KnownInTime /\ CurrentIsHeard  BY DEF IInv
<1>2. /\ Takes("current") /\ queue' = Tail(queue)
      /\ frames' = <<Frame(Head(queue).list)>>
      /\ UNCHANGED <<lists, used, models, gui, current, mCurrent, mu, on, control, crossed>>
  BY DEF HearCurrent
<1>3. PICK p : p = Head(queue).list  OBVIOUS
<1>4. /\ queue # <<>> /\ frames = <<>> /\ Len(frames) = 0
      /\ 1 \in 1..Len(queue) /\ Head(queue) = queue[1]
      /\ Head(queue).sig = "current" /\ p \in used /\ p \in Lists
      /\ Head(queue) = Call("current", p)
      /\ queue' \in Seq(News) /\ \A i \in 1..Len(queue') : \E j \in 1..Len(queue) : queue'[i] = queue[j]
      /\ \A i \in 1..Len(queue') : queue'[i].list \in used
  BY <1>1, <1>2, <1>3, Taken
<1>5. /\ \A s, k : Queued(s, k)' => Queued(s, k)
      /\ \A s, k : Queued(s, k) => Queued(s, k)' \/ Head(queue) = Call(s, k)
      /\ InOrder' /\ (Told' => Told)
  BY <1>1, <1>2, <1>4, TakenKeeps
<1>6. /\ frames' \in Seq(Hearing) /\ Len(frames') = 1
      /\ frames'[1].list = p /\ frames'[1].slot = "player"
      /\ \A i \in 1..Len(frames') : i = 1
  <2>1. Frame(p) \in Hearing /\ Frame(p).list = p /\ Frame(p).slot = "player"
    BY <1>4 DEF Frame, Hearing
  <2>2. frames' = <<Frame(p)>>  BY <1>2, <1>3
  <2> HIDE DEF Frame
  <2> QED  BY <2>1, <2>2
<1>7. TypeOK'  BY <1>1, <1>2, <1>4, <1>6 DEF TypeOK
<1>8. \A k : InList(k)' <=> InList(k)  BY <1>2 DEF InList
<1>9. InHand'
  <2>1. IsInjective(lists)'  BY <1>1, <1>2 DEF InHand, IsInjective
  <2>2. (gui.at \in Speaks => InList(gui.list))'
    BY <1>1, <1>2 DEF InHand, InList, Speaks
  <2> QED  BY <1>1, <1>2, <2>1, <2>2 DEF InHand
<1>10. NewsIsDue'
  <2>1. \A k : Coming(k)' <=> Coming(k)
    <3>a. \A k : Head(queue) # Call("added", k)  BY <1>4, Calls
    <3>1. \A k : Queued("added", k) => Queued("added", k)'
      <4> HIDE DEF Queued
      <4> QED  BY <1>5, <3>a
    <3> QED  BY <1>2, <1>5, <3>1 DEF Coming
  <2>2. \A k : Going(k)' <=> Going(k)
    <3>a. \A k : Head(queue) # Call("removed", k)  BY <1>4, Calls
    <3>1. \A k : Queued("removed", k) => Queued("removed", k)'
      <4> HIDE DEF Queued
      <4> QED  BY <1>5, <3>a
    <3> QED  BY <1>2, <1>5, <3>1 DEF Going
  <2> HIDE DEF Going, Coming, InList
  <2> QED  BY <1>1, <1>2, <1>8, <2>1, <2>2 DEF NewsIsDue
<1>11. KnownInTime'
  <2>1. PICK known : known = models'  OBVIOUS
  <2>2. \A k \in models : k \in known  BY <1>2, <2>1
  <2>3. \A k : Head(queue) # Call("added", k)  BY <1>4, Calls
  <2>4. AllKnown(models, queue)  BY <1>1 DEF KnownInTime
  <2>5. AllKnown(known, queue')  BY <1>1, <1>2, <1>4, <2>2, <2>3, <2>4, TakenKnown
  <2>6. AllKnown(models, queue)'  BY <2>1, <2>5 DEF AllKnown, KnownBy, Call
  <2>7. KnownBy(models, queue, 1, p)  BY <1>3, <1>4, <2>4 DEF AllKnown
  <2>8. p \in models
    <3>1. \A j \in 1..Len(queue) : ~(j < 1)  OBVIOUS
    <3> QED  BY <2>7, <3>1 DEF KnownBy
  <2>9. \A i \in 1..Len(frames') : frames'[i].list \in models'  BY <1>2, <1>6, <2>8
  <2> QED  BY <2>6, <2>9 DEF KnownInTime
<1>12. CurrentIsHeard'
  <2>1. SUFFICES ASSUME ~crossed' PROVE OneChange' /\ Followed'  BY DEF CurrentIsHeard
  <2>2. OneChange /\ Followed  BY <1>1, <1>2, <2>1 DEF CurrentIsHeard
  <2>3. p = current  BY <1>3, <1>4, <2>2 DEF OneChange
  <2>4. \A i \in 1..Len(queue') : queue'[i].sig = "current" => queue'[i].list = current
    BY <1>4, <2>2 DEF OneChange
  <2>5. OneChange'  BY <1>2, <1>6, <2>2, <2>3, <2>4 DEF OneChange
  <2>6. \A slots : "player" \in slots => Within(slots)'
    <3>1. 1 \in 1..Len(frames')  BY <1>6
    <3> QED  BY <1>6, <3>1 DEF Within
  <2>7. Followed'
    <3>1. OnWay({"player"})' /\ OnWay({"player", "model"})'
          /\ OnWay({"player", "model", "controls"})'
      BY <2>6 DEF OnWay
    <3> QED  BY <3>1 DEF Followed
  <2> QED  BY <2>5, <2>7
<1> QED  BY <1>5, <1>7, <1>9, <1>10, <1>11, <1>12 DEF IInv
\* The slots of the call on top are served one after another; a call made from
\* within a slot comes on top of it.
LEMMA TopFacts ==
    ASSUME TypeOK, KnownInTime, NEW s, TopAt(s)
    PROVE  /\ Len(frames) \in Nat \ {0} /\ Len(frames) \in 1..Len(frames)
           /\ Top \in Hearing /\ Top = frames[Len(frames)] /\ Top.slot = s
           /\ Top.list \in models /\ Top.list \in Lists
<1>1. frames \in Seq(Hearing) /\ frames # <<>> /\ Top.slot = s  BY DEF TypeOK, TopAt
<1>2. Len(frames) \in Nat \ {0}  BY <1>1, EmptySeq
<1>3. Len(frames) \in 1..Len(frames)  BY <1>2
<1>4. frames[Len(frames)] \in Hearing  BY <1>1, <1>3, ElementOfSeq
<1>5. frames[Len(frames)].list \in models  BY <1>3 DEF KnownInTime
<1> QED  BY <1>1, <1>2, <1>3, <1>4, <1>5 DEF Top, Hearing

\* The next slot of the call on top.
LEMMA TopServed ==
    ASSUME TypeOK, KnownInTime, NEW s, TopAt(s), NEW t \in {"player", "model", "controls"},
           frames' = SetTop([Top EXCEPT !.slot = t])
    PROVE  /\ frames' \in Seq(Hearing) /\ Len(frames') = Len(frames)
           /\ \A i \in 1..Len(frames) : frames'[i].list = frames[i].list
           /\ \A i \in 1..Len(frames) : i # Len(frames) => frames'[i] = frames[i]
           /\ frames'[Len(frames)].slot = t
<1> DEFINE n == Len(frames)
           f == [Top EXCEPT !.slot = t]
<1>1. /\ n \in Nat \ {0} /\ n \in 1..n /\ Top \in Hearing /\ Top = frames[n] /\ Top.slot = s
  BY TopFacts
<1>2. f \in Hearing /\ f.list = Top.list /\ f.slot = t  BY <1>1 DEF Hearing
<1>3. frames \in Seq(Hearing)  BY DEF TypeOK
<1>4. frames' = [frames EXCEPT ![n] = f]  BY DEF SetTop
<1> HIDE DEF f
<1> HIDE DEF n
<1>5. PICK w : w = [frames EXCEPT ![n] = f]  OBVIOUS
<1>6. /\ w \in Seq(Hearing) /\ Len(w) = Len(frames)
      /\ \A i \in 1..Len(frames) : w[i] = IF i = n THEN f ELSE frames[i]
  <2>1. n \in 1..Len(frames)  BY <1>1 DEF n
  <2> QED  BY <1>2, <1>3, <1>5, <2>1, ExceptSeq
<1>7. frames' = w  BY <1>4, <1>5
<1> QED  BY <1>1, <1>2, <1>6, <1>7 DEF n

LEMMA PlayerSlotKeeps ==
    ASSUME IInv, PlayerSlot
    PROVE  IInv'
<1>1. TypeOK /\ KnownInTime /\ CurrentIsHeard  BY DEF IInv
<1>2. /\ TopAt("player") /\ on' = Top.list
      /\ frames' = SetTop([Top EXCEPT !.slot = "model"])
      /\ UNCHANGED <<lists, used, models, queue, gui, current, mCurrent, mu, control, crossed>>
  BY DEF PlayerSlot
<1>3. /\ frames' \in Seq(Hearing) /\ Len(frames') = Len(frames)
      /\ \A i \in 1..Len(frames) : frames'[i].list = frames[i].list
      /\ \A i \in 1..Len(frames) : i # Len(frames) => frames'[i] = frames[i]
      /\ frames'[Len(frames)].slot = "model"
  BY <1>1, <1>2, TopServed
<1>4. /\ Len(frames) \in 1..Len(frames) /\ Top = frames[Len(frames)] /\ Top.slot = "player"
  BY <1>1, <1>2, TopFacts
<1>5. \A i \in 1..Len(frames') : frames'[i].list \in models  BY <1>1, <1>3 DEF KnownInTime
<1>6. gui' \in GuiState /\ crossed' \in BOOLEAN  BY <1>1, <1>2 DEF TypeOK
<1>7. gui'.at \in Speaks => InList(gui'.list)
  <2> HIDE DEF InList
  <2> QED  BY <1>2 DEF IInv, InHand
<1>8. TypeOK' /\ InHand' /\ NewsIsDue' /\ InOrder' /\ KnownInTime'
  <2> HIDE DEF InList
  <2> QED  BY <1>2, <1>3, <1>5, <1>6, <1>7, SameNews
<1>9. CurrentIsHeard'
  <2>1. SUFFICES ASSUME ~crossed' PROVE OneChange' /\ Followed'  BY DEF CurrentIsHeard
  <2>2. OneChange /\ Followed  BY <1>1, <1>2, <2>1 DEF CurrentIsHeard
  <2>3. on' = current'  BY <1>2, <1>4, <2>2 DEF OneChange
  <2>4. OneChange'  BY <1>2, <1>3, <2>2 DEF OneChange
  <2>5. \A slots : "model" \in slots => Within(slots)'  BY <1>3, <1>4 DEF Within
  <2>6. OnWay({"player", "model"})' /\ OnWay({"player", "model", "controls"})'
    BY <2>5 DEF OnWay
  <2>7. Followed'  BY <2>3, <2>6 DEF Followed
  <2> QED  BY <2>4, <2>7
<1> QED  BY <1>8, <1>9 DEF IInv

\* The playlist is known, and is the current one unless changes crossed: it is
\* not set again from within the slot.
LEMMA ModelSlotKeeps ==
    ASSUME IInv, ModelSlot
    PROVE  IInv'
<1>1. TypeOK /\ KnownInTime /\ CurrentIsHeard  BY DEF IInv
<1>2. PICK p : p = Top.list  OBVIOUS
<1>3. /\ TopAt("model")
      /\ UNCHANGED <<lists, used, models, queue, gui, on, control, crossed>>
  BY DEF ModelSlot
<1>4. /\ Len(frames) \in Nat \ {0} /\ Len(frames) \in 1..Len(frames) /\ Top = frames[Len(frames)]
      /\ p \in models /\ p \in Lists
  BY <1>1, <1>2, <1>3, TopFacts
<1>5. /\ mCurrent' = p
      /\ current' = IF mCurrent # p THEN p ELSE current
      /\ IF mCurrent # p /\ current # p
         THEN frames' = Append(frames, Frame(p))
         ELSE mu' = mu /\ frames' = SetTop([Top EXCEPT !.slot = "controls"])
  BY <1>2, <1>4 DEF ModelSlot
<1>6. frames' = SetTop([Top EXCEPT !.slot = "controls"]) =>
         /\ frames' \in Seq(Hearing) /\ Len(frames') = Len(frames)
         /\ \A i \in 1..Len(frames) : frames'[i].list = frames[i].list
         /\ \A i \in 1..Len(frames) : i # Len(frames) => frames'[i] = frames[i]
         /\ frames'[Len(frames)].slot = "controls"
  BY <1>1, <1>3, TopServed
<1>7. frames' \in Seq(Hearing) /\ \A i \in 1..Len(frames') : frames'[i].list \in models
  <2>1. CASE mCurrent # p /\ current # p
    <3>1. Frame(p) \in Hearing /\ Frame(p).list = p  BY <1>4 DEF Frame, Hearing
    <3>2. frames' = Append(frames, Frame(p)) /\ frames \in Seq(Hearing)
      BY <1>1, <1>5, <2>1 DEF TypeOK
    <3> HIDE DEF Frame
    <3>3. /\ frames' \in Seq(Hearing) /\ Len(frames') = Len(frames) + 1
          /\ \A i \in 1..Len(frames) : frames'[i] = frames[i]
          /\ frames'[Len(frames) + 1] = Frame(p)
      BY <3>1, <3>2, AppendProperties
    <3>4. \A i \in 1..Len(frames') : i \in 1..Len(frames) \/ i = Len(frames) + 1
      BY <1>4, <3>3
    <3> QED  BY <1>1, <1>4, <3>1, <3>3, <3>4 DEF KnownInTime
  <2>2. CASE ~(mCurrent # p /\ current # p)
    <3>1. frames' = SetTop([Top EXCEPT !.slot = "controls"])  BY <1>5, <2>2
    <3> QED  BY <1>1, <1>6, <3>1 DEF KnownInTime
  <2> QED  BY <2>1, <2>2
<1>8. gui' \in GuiState /\ crossed' \in BOOLEAN  BY <1>1, <1>3 DEF TypeOK
<1>9. gui'.at \in Speaks => InList(gui'.list)
  <2> HIDE DEF InList
  <2> QED  BY <1>3 DEF IInv, InHand
<1>10. TypeOK' /\ InHand' /\ NewsIsDue' /\ InOrder' /\ KnownInTime'
  <2> HIDE DEF InList
  <2> QED  BY <1>3, <1>7, <1>8, <1>9, SameNews
<1>11. CurrentIsHeard'
  <2>1. SUFFICES ASSUME ~crossed' PROVE OneChange' /\ Followed'  BY DEF CurrentIsHeard
  <2>2. OneChange /\ Followed  BY <1>1, <1>3, <2>1 DEF CurrentIsHeard
  <2>3. p = current  BY <1>2, <1>4, <2>2 DEF OneChange
  <2>4. /\ current' = current /\ mCurrent' = current /\ mu' = mu
        /\ frames' = SetTop([Top EXCEPT !.slot = "controls"])
    BY <1>5, <2>3
  <2>5. OneChange'  BY <1>3, <1>6, <2>2, <2>4 DEF OneChange
  <2>6. \A slots : "controls" \in slots => Within(slots)'  BY <1>4, <1>6, <2>4 DEF Within
  <2>7. OnWay({"player", "model", "controls"})'  BY <2>6 DEF OnWay
  <2>8. on = current \/ OnWay({"player"})'
    <3>1. Within({"player"}) => FALSE
      <4>1. Len(frames) = 1
        <5>1. Len(frames) <= 1  BY <2>2 DEF OneChange
        <5>2. PICK n \in Nat \ {0} : n = Len(frames)  BY <1>4
        <5>3. n = 1  BY <5>1, <5>2
        <5> QED  BY <5>2, <5>3
      <4>2. frames[1].slot = "model"  BY <1>3, <1>4, <4>1 DEF TopAt
      <4> QED  BY <4>1, <4>2 DEF Within
    <3>2. gui.at = "emit" \/ Told => OnWay({"player"})'  BY <1>3 DEF OnWay, Told
    <3> QED  BY <2>2, <3>1, <3>2 DEF Followed, OnWay
  <2>9. Followed'  BY <1>3, <2>4, <2>7, <2>8 DEF Followed
  <2> QED  BY <2>5, <2>9
<1> QED  BY <1>10, <1>11 DEF IInv

LEMMA ControlsSlotKeeps ==
    ASSUME IInv, ControlsSlot
    PROVE  IInv'
<1>1. TypeOK /\ KnownInTime /\ CurrentIsHeard  BY DEF IInv
<1>2. /\ TopAt("controls") /\ control' = Top.list /\ frames' = <<>>
      /\ UNCHANGED <<lists, used, models, queue, gui, current, mCurrent, mu, on, crossed>>
  BY DEF ControlsSlot
<1>3. /\ Len(frames) \in Nat \ {0} /\ Len(frames) \in 1..Len(frames) /\ Top = frames[Len(frames)]
      /\ Top.slot = "controls"
  BY <1>1, <1>2, TopFacts
<1>4. /\ frames' \in Seq(Hearing) /\ Len(frames') = 0
      /\ \A i \in 1..Len(frames') : frames'[i].list \in models
  BY <1>2
<1>5. gui' \in GuiState /\ crossed' \in BOOLEAN  BY <1>1, <1>2 DEF TypeOK
<1>6. gui'.at \in Speaks => InList(gui'.list)
  <2> HIDE DEF InList
  <2> QED  BY <1>2 DEF IInv, InHand
<1>7. TypeOK' /\ InHand' /\ NewsIsDue' /\ InOrder' /\ KnownInTime'
  <2> HIDE DEF InList
  <2> QED  BY <1>2, <1>4, <1>5, <1>6, SameNews
<1>8. CurrentIsHeard'
  <2>1. SUFFICES ASSUME ~crossed' PROVE OneChange' /\ Followed'  BY DEF CurrentIsHeard
  <2>2. OneChange /\ Followed  BY <1>1, <1>2, <2>1 DEF CurrentIsHeard
  <2>3. control' = current'  BY <1>2, <1>3, <2>2 DEF OneChange
  <2>4. OneChange'  BY <1>2, <1>4, <2>2 DEF OneChange
  <2>5. ~Within({"player"}) /\ ~Within({"player", "model"})
    <3>1. Len(frames) = 1
      <4>1. Len(frames) <= 1  BY <2>2 DEF OneChange
      <4>2. PICK n \in Nat \ {0} : n = Len(frames)  BY <1>3
      <4>3. n = 1  BY <4>1, <4>2
      <4> QED  BY <4>2, <4>3
    <3>2. frames[1].slot = "controls"  BY <1>3, <3>1
    <3> QED  BY <3>1, <3>2 DEF Within
  <2>6. \A slots : gui.at = "emit" \/ Told => OnWay(slots)'  BY <1>2 DEF OnWay, Told
  <2>7. on' = current' \/ OnWay({"player"})'
    BY <1>2, <2>2, <2>5, <2>6 DEF Followed, OnWay
  <2>8. mCurrent' = current' \/ OnWay({"player", "model"})' \/ (gui'.at = "set" /\ gui'.list = mCurrent')
    BY <1>2, <2>2, <2>5, <2>6 DEF Followed, OnWay
  <2>9. Followed'
    <3> HIDE DEF OnWay
    <3> QED  BY <2>3, <2>7, <2>8 DEF Followed
  <2> QED  BY <2>4, <2>9
<1> QED  BY <1>7, <1>8 DEF IInv
-----------------------------------------------------------------------------
(* The specification *)

LEMMA InitIsIInv == Init => IInv
<1> SUFFICES ASSUME Init PROVE IInv
  OBVIOUS
<1> USE PlaylistsAssumption
<1>1. /\ lists = <<Default>> /\ Len(lists) = 1 /\ lists[1] = Default /\ DOMAIN lists = 1..1
      /\ lists \in Seq(Lists)
  BY DEF Init
<1>2. Call("added", Default) \in News /\ Call("current", Default) \in News
  BY DEF Call, News
<1>3. /\ queue \in Seq(News) /\ Len(queue) = 2
      /\ queue[1] = Call("added", Default) /\ queue[2] = Call("current", Default)
  <2> HIDE DEF Call
  <2> QED  BY <1>2 DEF Init
<1>4. /\ models = {} /\ used = {Default} /\ frames = <<>> /\ Len(frames) = 0
      /\ frames \in Seq(Hearing) /\ gui = Idle /\ crossed = FALSE /\ mu = None
      /\ current = Default
  BY DEF Init
<1>5. gui \in GuiState /\ gui.at = "idle"  BY <1>4 DEF Idle, GuiState
<1>6. \A i \in 1..Len(queue) : i = 1 \/ i = 2  BY <1>3
<1>7. 1 \in 1..Len(queue) /\ 2 \in 1..Len(queue)  BY <1>3
<1>8. TypeOK
  <2>1. \A i \in 1..Len(queue) : queue[i].list \in used  BY <1>3, <1>4, <1>6, Calls
  <2>2. \A i \in 1..Len(lists) : lists[i] \in used  BY <1>1, <1>4
  <2> QED  BY <1>1, <1>3, <1>4, <1>5, <2>1, <2>2 DEF TypeOK
<1>9. InHand
  <2>1. IsInjective(lists)  BY <1>1 DEF IsInjective
  <2> QED  BY <1>5, <2>1 DEF InHand, Speaks
<1>10. \A s, p : Queued(s, p) <=> p = Default /\ s \in {"added", "current"}
  <2>1. \A s, p : Queued(s, p) => p = Default /\ s \in {"added", "current"}
    <3>1. \A s, p, r, k : Call(s, p) = Call(r, k) => s = r /\ p = k  BY Calls
    <3> QED  BY <1>3, <1>6, <3>1 DEF Queued
  <2>2. Queued("added", Default) /\ Queued("current", Default)  BY <1>3, <1>7 DEF Queued
  <2> QED  BY <2>1, <2>2
<1>11. \A p : InList(p) <=> p = Default  BY <1>1 DEF InList
<1>12. NewsIsDue
  <2>1. \A p : Coming(p) <=> p = Default  BY <1>5, <1>10 DEF Coming
  <2>2. \A p : ~Going(p)  BY <1>5, <1>10 DEF Going
  <2> HIDE DEF InList, Coming, Going
  <2> QED  BY <1>4, <1>11, <2>1, <2>2 DEF NewsIsDue
<1>13. InOrder
  <2>1. \A j \in 1..Len(queue) : \A p : queue[j] # Call("removed", p)
    BY <1>10 DEF Queued
  <2> QED  BY <2>1 DEF InOrder
<1>14. KnownInTime
  <2>1. SUFFICES ASSUME NEW i \in 1..Len(queue), queue[i].sig = "current"
                 PROVE  KnownBy(models, queue, i, queue[i].list)
    BY <1>4 DEF KnownInTime, AllKnown
  <2>2. i = 2 /\ queue[i].list = Default  BY <1>3, <1>6, <2>1, Calls
  <2>3. 1 < i /\ queue[1] = Call("added", queue[i].list)  BY <1>3, <2>2
  <2>4. \A j \in 1..Len(queue) : queue[j] # Call("removed", queue[i].list)
    BY <1>10 DEF Queued
  <2> QED  BY <1>7, <2>3, <2>4 DEF KnownBy
<1>15. CurrentIsHeard
  <2>1. Told  BY <1>3, <1>7, Calls DEF Told
  <2>2. Followed  BY <2>1 DEF Followed, OnWay
  <2>3. \A i \in 1..Len(queue) : queue[i].sig = "current" => queue[i].list = current
    BY <1>3, <1>4, <1>6, Calls
  <2>4. OneChange  BY <1>4, <1>5, <2>3 DEF OneChange
  <2> QED  BY <2>2, <2>4 DEF CurrentIsHeard
<1> QED  BY <1>8, <1>9, <1>12, <1>13, <1>14, <1>15 DEF IInv

LEMMA StutterKeeps ==
    ASSUME IInv, UNCHANGED vars
    PROVE  IInv'
<1>1. /\ UNCHANGED <<lists, used, models, queue, current, mCurrent, mu, on, control, frames,
                     gui, crossed>>
  BY DEF vars
<1>2. TypeOK  BY DEF IInv
<1>3. \A i \in 1..Len(frames) : frames[i].list \in models  BY DEF IInv, KnownInTime
<1>4. frames' \in Seq(Hearing) /\ gui' \in GuiState /\ crossed' \in BOOLEAN
  BY <1>1, <1>2 DEF TypeOK
<1>5. gui'.at \in Speaks => InList(gui'.list)
  <2> HIDE DEF InList
  <2> QED  BY <1>1 DEF IInv, InHand
<1>6. TypeOK' /\ InHand' /\ NewsIsDue' /\ InOrder' /\ KnownInTime'
  <2> HIDE DEF InList
  <2> QED  BY <1>1, <1>3, <1>4, <1>5, SameNews
<1>7. Told' <=> Told  BY <1>1 DEF Told
<1>8. CurrentIsHeard'  BY <1>1, <1>7, SameCurrent
<1> QED  BY <1>6, <1>8 DEF IInv

LEMMA NextKeeps ==
    ASSUME IInv, [Next]_vars
    PROVE  IInv'
<1>1. CASE User
  <2>1. ChooseList => IInv'  BY ChooseKeeps DEF ChooseList
  <2>2. ChooseTrack => IInv'  BY ChooseKeeps DEF ChooseTrack
  <2> QED  BY <1>1, <2>1, <2>2, InsertListKeeps, RemoveListKeeps, RepaintKeeps DEF User
<1>2. CASE Gui
  BY <1>2, EmitAddedKeeps, FirstKeeps, SetCurrentKeeps, EmitCurrentKeeps, EmitRemovedKeeps,
     JumpKeeps, ReadKeeps DEF Gui
<1>3. CASE SignalThread
  BY <1>3, HearAddedKeeps, HearRemovedKeeps, HearCurrentKeeps, PlayerSlotKeeps,
     ModelSlotKeeps, ControlsSlotKeeps DEF SignalThread
<1>4. CASE UNCHANGED vars  BY <1>4, StutterKeeps
<1> QED  BY <1>1, <1>2, <1>3, <1>4 DEF Next

\* The invariant that carries the others: the news of every playlist is in
\* order and due to the model, and what is said of the current playlist is true
\* until two changes cross.
THEOREM IInvHolds == Spec => []IInv
<1>1. Init => IInv  BY InitIsIInv
<1>2. IInv /\ [Next]_vars => IInv'  BY NextKeeps
<1> QED  BY <1>1, <1>2, PTL DEF Spec

\* When nobody has anything to say, the model knows each playlist of the
\* manager once and no other, so that data() finds the rows it asserts
\* (playlistmanagermodel.cpp:87, 103); and the player, the controls and the
\* model follow the current playlist unless two changes crossed.
THEOREM EveryoneFollows == Spec => []AllFollow
<1>1. ASSUME IInv PROVE AllFollow
  <2>1. SUFFICES ASSUME Quiet
                 PROVE  /\ IsInjective(lists) /\ models = ToSet(lists)
                        /\ ~crossed => on = current /\ control = current /\ mCurrent = current
    BY DEF AllFollow
  <2>2. TypeOK /\ InHand /\ NewsIsDue /\ CurrentIsHeard  BY <1>1 DEF IInv
  <2>3. /\ gui.at \in {"idle", "read"} /\ Len(queue) = 0 /\ Len(frames) = 0
    BY <2>1 DEF Quiet
  <2>4. \A p : ~Coming(p) /\ ~Going(p)  BY <2>3 DEF Coming, Going, Queued
  <2>5. \A p \in Lists : InList(p) <=> p \in models
    <3> HIDE DEF InList, Coming, Going
    <3> QED  BY <2>2, <2>4 DEF NewsIsDue
  <2>6. models \subseteq Lists /\ \A p : InList(p) => p \in Lists  BY <2>2, GuiFacts DEF TypeOK
  <2>7. \A p : p \in ToSet(lists) <=> InList(p)  BY DEF ToSet, InList
  <2>8. models = ToSet(lists)
    <3> HIDE DEF InList
    <3> QED  BY <2>5, <2>6, <2>7
  <2>9. ASSUME ~crossed PROVE on = current /\ control = current /\ mCurrent = current
    <3>1. Followed  BY <2>2, <2>9 DEF CurrentIsHeard
    <3>2. \A slots : ~OnWay(slots)  BY <2>3 DEF OnWay, Told, Within
    <3> HIDE DEF OnWay
    <3> QED  BY <2>3, <3>1, <3>2 DEF Followed
  <2>10. IsInjective(lists)  BY <2>2 DEF InHand
  <2> QED  BY <2>8, <2>9, <2>10
<1>2. Spec => []IInv  BY IInvHolds
<1> QED  BY <1>1, <1>2, PTL

\* The signal thread never waits for the mutex it holds itself
\* (playlistmanagermodel.cpp:68-71, signal_core.hpp:104) unless two changes of
\* the current playlist crossed.
THEOREM NeverStuckByOneChange == Spec => []StuckOnlyIfCrossed
<1>1. IInv => StuckOnlyIfCrossed
  BY DEF IInv, CurrentIsHeard, OneChange, StuckOnlyIfCrossed, Stuck
<1>2. Spec => []IInv  BY IInvHolds
<1> QED  BY <1>1, <1>2, PTL
=============================================================================
