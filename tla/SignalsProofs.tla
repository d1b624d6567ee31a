---------------------------- MODULE SignalsProofs ----------------------------
(***************************************************************************)
(* What the signals keep for any number of signals, connections and calls, *)
(* whatever slots emit and whatever throws: the counter of failures of a   *)
(* call is in a frame that is still there, and no call is over before      *)
(* every slot it copied has run.                                           *)
(***************************************************************************)
EXTENDS Signals, SequenceTheorems, FiniteSetTheorems, TLAPS

-----------------------------------------------------------------------------
(* The inductive invariant *)

\* A call is named by its number and the connections it was nested through.
Names == Seq(Nat \cup Conns)
Frame == [id : Names, sig : Sigs, left : Seq(Conns), pending : Nat, nested : BOOLEAN]
Failure == [frame : Names, conn : Conns]

TypeOK ==
    /\ slots \in [Sigs -> Seq(Conns)]
    /\ made \subseteq Conns /\ expired \subseteq Conns
    /\ calls \in Nat
    /\ queue \in Seq(Frame) /\ frames \in Seq(Frame)
    /\ undo \in Seq(Failure) /\ undoing \in Conns \cup {NoConn}
    /\ owed \subseteq Names \X Conns /\ threw \subseteq Names \X Conns
    /\ done \subseteq Names

\* A sequence without repetitions: a slot runs once in a call.
Once(q) == \A i, j \in 1..Len(q) : q[i] = q[j] => i = j

\* connect() makes a new connection: a signal has each in one place.
SlotsOnce ==
    \A s \in Sigs : Once(slots[s]) /\ \A i \in 1..Len(slots[s]) : slots[s][i] \in made

\* What a call has yet to run is part of such a copy.
CopiesOnce ==
    /\ \A k \in 1..Len(queue) : Once(queue[k].left)
    /\ \A i \in 1..Len(frames) : Once(frames[i].left)

\* Calls are taken in the order they were made, and each frame is a call that
\* the slot run last in the frame below made: no two frames have one name.
Nested(fs) ==
    \A i \in 2..Len(fs) : \E c \in Conns :
        /\ fs[i].id = Append(fs[i - 1].id, c)
        /\ \A j \in 1..Len(fs[i - 1].left) : fs[i - 1].left[j] # c

Tower ==
    /\ Len(queue) <= calls
    /\ \A k \in 1..Len(queue) :
          queue[k].id = <<calls - Len(queue) + k>> /\ queue[k].pending = 0
    /\ frames # <<>> => frames[1].id = <<calls - Len(queue)>> /\ Len(queue) < calls
    /\ \A i \in 1..Len(frames) : Len(frames[i].id) = i
    /\ Nested(frames)

Live(id) == \E i \in 1..Len(frames) : frames[i].id = id

\* The failures of a call that wait for the disconnect thread.
Waiting(us, id) == {u \in 1..Len(us) : us[u].frame = id}

\* The counter says how many they are; without the exact number the last but
\* one could be counted down to zero.
CountsAgree ==
    /\ \A u \in 1..Len(undo) : Live(undo[u].frame)
    /\ \A i \in 1..Len(frames) :
          frames[i].pending = Cardinality(Waiting(undo, frames[i].id))

Left(f, c) == \E j \in 1..Len(f.left) : f.left[j] = c

\* What is owed is left in a call that is waiting or running.
IsLeft(fs, o) == \E i \in 1..Len(fs) : fs[i].id = o[1] /\ Left(fs[i], o[2])
OwedWaits == \A o \in owed : IsLeft(queue, o) \/ IsLeft(frames, o)

\* No call that is waiting, running or yet to be made has the name of one that
\* is over; names that are over have their callers' names over or running.
NotOver(f) == f.id \notin done /\ \A j \in 1..Len(f.left) : Append(f.id, f.left[j]) \notin done

DoneIsOver ==
    /\ \A d \in done : d # <<>>
    /\ \A d \in done : Len(d) = 1 =>
          /\ d[1] \in Nat /\ d[1] <= calls - Len(queue)
          /\ frames # <<>> => d[1] < calls - Len(queue)
    /\ \A d \in done : Len(d) > 1 => Front(d) \in done \/ Live(Front(d))
    /\ \A i \in 1..Len(frames) : NotOver(frames[i])

IInv ==
    TypeOK /\ SlotsOnce /\ CopiesOnce /\ Tower /\ CountsAgree /\ OwedWaits /\ DoneIsOver

USE SignalsAssumption
-----------------------------------------------------------------------------
(* Sequences *)

LEMMA FunctionIsSeq ==
    ASSUME NEW S, NEW n \in Nat, NEW q \in [1..n -> S]
    PROVE  q \in Seq(S) /\ Len(q) = n
BY SeqDef, LenProperties

LEMMA OnceTail ==
    ASSUME NEW q \in Seq(Conns), q # <<>>, Once(q)
    PROVE  /\ Tail(q) \in Seq(Conns) /\ Once(Tail(q)) /\ Head(q) = q[1]
           /\ Len(Tail(q)) = Len(q) - 1 /\ Len(q) >= 1
           /\ \A j \in 1..Len(Tail(q)) : Tail(q)[j] = q[j + 1] /\ Tail(q)[j] # Head(q)
<1>1. /\ Tail(q) \in Seq(Conns) /\ Len(Tail(q)) = Len(q) - 1
      /\ \A j \in 1..Len(Tail(q)) : Tail(q)[j] = q[j + 1]
  BY HeadTailProperties
<1>2. Len(q) \in Nat \ {0}  BY EmptySeq
<1>3. Head(q) = q[1]  OBVIOUS
<1> QED  BY <1>1, <1>2, <1>3 DEF Once

LEMMA RemovedAt ==
    ASSUME NEW S, NEW q \in Seq(S), NEW i \in 1..Len(q)
    PROVE  /\ RemoveAt(q, i) \in Seq(S) /\ Len(RemoveAt(q, i)) = Len(q) - 1
           /\ \A j \in 1..(Len(q) - 1) :
                 RemoveAt(q, i)[j] = IF j < i THEN q[j] ELSE q[j + 1]
<1> DEFINE a == SubSeq(q, 1, i - 1)
           b == SubSeq(q, i + 1, Len(q))
<1>1. Len(q) \in Nat /\ \A j \in 1..Len(q) : q[j] \in S  BY LenProperties, ElementOfSeq
<1>2. a \in Seq(S) /\ Len(a) = i - 1 /\ \A j \in 1..(i - 1) : a[j] = q[j]
  <2>1. 1 \in Int /\ i - 1 \in Int /\ \A j \in 1..(i - 1) : q[j] \in S  BY <1>1
  <2>2. /\ a \in Seq(S) /\ Len(a) = (IF 1 <= i - 1 THEN i - 1 - 1 + 1 ELSE 0)
        /\ \A j \in 1..(i - 1 - 1 + 1) : a[j] = q[1 + j - 1]
    BY <2>1, SubSeqProperties
  <2> QED  BY <2>2, <1>1
<1>3. b \in Seq(S) /\ Len(b) = Len(q) - i /\ \A j \in 1..(Len(q) - i) : b[j] = q[i + j]
  <2>1. i + 1 \in Int /\ Len(q) \in Int /\ \A j \in (i + 1)..Len(q) : q[j] \in S  BY <1>1
  <2>2. /\ b \in Seq(S)
        /\ Len(b) = (IF i + 1 <= Len(q) THEN Len(q) - (i + 1) + 1 ELSE 0)
        /\ \A j \in 1..(Len(q) - (i + 1) + 1) : b[j] = q[(i + 1) + j - 1]
    BY <2>1, SubSeqProperties
  <2> QED  BY <2>2, <1>1
<1>4. RemoveAt(q, i) = a \o b  BY DEF RemoveAt
<1> HIDE DEF a, b
<1> a \in Seq(S) /\ b \in Seq(S)  BY <1>2, <1>3
<1>5. /\ a \o b \in Seq(S) /\ Len(a \o b) = Len(a) + Len(b)
      /\ \A j \in 1..(Len(a) + Len(b)) :
            (a \o b)[j] = IF j <= Len(a) THEN a[j] ELSE b[j - Len(a)]
  BY ConcatProperties
<1>6. ASSUME NEW j \in 1..(Len(q) - 1)
      PROVE  (a \o b)[j] = IF j < i THEN q[j] ELSE q[j + 1]
  <2>1. (a \o b)[j] = IF j <= i - 1 THEN a[j] ELSE b[j - (i - 1)]  BY <1>1, <1>2, <1>3, <1>5
  <2>2. CASE j < i  BY <2>1, <2>2, <1>2
  <2>3. CASE ~(j < i)
    <3>1. j - (i - 1) \in 1..(Len(q) - i)  BY <2>3, <1>1
    <3>2. b[j - (i - 1)] = q[i + (j - (i - 1))]  BY <3>1, <1>3
    <3> QED  BY <2>1, <2>3, <3>2
  <2> QED  BY <2>2, <2>3
<1> QED  BY <1>1, <1>2, <1>3, <1>4, <1>5, <1>6

\* Disconnecting keeps the other slots, each in one place.
LEMMA WithoutOnce ==
    ASSUME NEW q \in Seq(Conns), NEW c, Once(q)
    PROVE  /\ Without(q, c) \in Seq(Conns) /\ Once(Without(q, c))
           /\ \A j \in 1..Len(Without(q, c)) : \E k \in 1..Len(q) : Without(q, c)[j] = q[k]
<1>1. CASE ~Contains(q, c)  BY <1>1 DEF Without
<1>2. CASE Contains(q, c)
  <2> DEFINE i == CHOOSE x \in DOMAIN q : q[x] = c
  <2>1. DOMAIN q = 1..Len(q) /\ Len(q) \in Nat  BY LenProperties
  <2>2. i \in 1..Len(q)  BY <1>2, <2>1 DEF Contains
  <2>3. Without(q, c) = RemoveAt(q, i)  BY <1>2 DEF Without
  <2> HIDE DEF i
  <2>4. /\ RemoveAt(q, i) \in Seq(Conns) /\ Len(RemoveAt(q, i)) = Len(q) - 1
        /\ \A j \in 1..(Len(q) - 1) : RemoveAt(q, i)[j] = IF j < i THEN q[j] ELSE q[j + 1]
    BY <2>2, RemovedAt
  <2> QED  BY <2>1, <2>2, <2>3, <2>4 DEF Once
<1> QED  BY <1>1, <1>2

LEMMA WaitingFinite ==
    ASSUME NEW us \in Seq(Failure), NEW id
    PROVE  IsFiniteSet(Waiting(us, id))
<1>1. Len(us) \in Nat  BY LenProperties
<1>2. IsFiniteSet(1..Len(us))  BY <1>1, FS_Interval
<1>3. Waiting(us, id) \in SUBSET (1..Len(us))  BY DEF Waiting
<1> QED  BY <1>2, <1>3, FS_Subset

\* Failures of a call that wait, when one more is posted and when one is taken.
LEMMA WaitingAppend ==
    ASSUME NEW us \in Seq(Failure), NEW u \in Failure, NEW id
    PROVE  /\ IsFiniteSet(Waiting(us, id))
           /\ Cardinality(Waiting(Append(us, u), id))
                 = Cardinality(Waiting(us, id)) + (IF u.frame = id THEN 1 ELSE 0)
<1>1. Len(us) \in Nat  BY LenProperties
<1>2. IsFiniteSet(Waiting(us, id)) /\ Len(us) + 1 \notin Waiting(us, id)
  <2>1. Len(us) + 1 \notin Waiting(us, id)  BY <1>1 DEF Waiting
  <2> QED  BY <2>1, WaitingFinite
<1>3. /\ Len(Append(us, u)) = Len(us) + 1 /\ Append(us, u)[Len(us) + 1] = u
      /\ \A i \in 1..Len(us) : Append(us, u)[i] = us[i]
  BY AppendProperties
<1>4. CASE u.frame = id
  <2>1. Waiting(Append(us, u), id) = Waiting(us, id) \cup {Len(us) + 1}
    BY <1>1, <1>3, <1>4 DEF Waiting
  <2> QED  BY <1>2, <1>4, <2>1, FS_AddElement
<1>5. CASE u.frame # id
  <2>1. Waiting(Append(us, u), id) = Waiting(us, id)  BY <1>1, <1>3, <1>5 DEF Waiting
  <2>2. Cardinality(Waiting(us, id)) \in Nat  BY <1>2, FS_CardinalityType
  <2> QED  BY <1>2, <1>5, <2>1, <2>2
<1> QED  BY <1>4, <1>5

LEMMA WaitingTail ==
    ASSUME NEW us \in Seq(Failure), us # <<>>, NEW id
    PROVE  Cardinality(Waiting(us, id))
              = Cardinality(Waiting(Tail(us), id)) + (IF Head(us).frame = id THEN 1 ELSE 0)
<1> DEFINE A == Waiting(Tail(us), id)
           B == Waiting(us, id) \ {1}
           f == [i \in A |-> i + 1]
<1>1. /\ Len(us) \in Nat \ {0} /\ Len(Tail(us)) = Len(us) - 1 /\ Head(us) = us[1]
      /\ \A i \in 1..Len(Tail(us)) : Tail(us)[i] = us[i + 1]
  BY EmptySeq, HeadTailProperties
<1>2. IsFiniteSet(A) /\ IsFiniteSet(Waiting(us, id))
  BY HeadTailProperties, WaitingFinite
<1>3. \A i \in A : i \in 1..(Len(us) - 1) /\ us[i + 1].frame = id  BY <1>1 DEF Waiting
<1>4. B = {u \in 2..Len(us) : us[u].frame = id}  BY <1>1 DEF Waiting
<1>5. ExistsBijection(A, B)
  <2>1. f \in [A -> B]  BY <1>1, <1>3, <1>4
  <2>2. \A i, j \in A : f[i] = f[j] => i = j  BY <1>3
  <2>3. \A u \in B : \E i \in A : f[i] = u
    <3> TAKE u \in B
    <3>1. u - 1 \in A  BY <1>1, <1>4 DEF Waiting
    <3> QED  BY <3>1, <1>4
  <2>4. f \in Bijection(A, B)
    BY <2>1, <2>2, <2>3 DEF Bijection, Injection, Surjection, IsInjective
  <2> QED  BY <2>4 DEF ExistsBijection
<1>6. Cardinality(B) = Cardinality(A)  BY <1>2, <1>5, FS_Bijection
<1>7. Cardinality(A) \in Nat /\ Cardinality(Waiting(us, id)) \in Nat
  BY <1>2, FS_CardinalityType
<1>8. Cardinality(B) = IF 1 \in Waiting(us, id) THEN Cardinality(Waiting(us, id)) - 1
                       ELSE Cardinality(Waiting(us, id))
  BY <1>2, FS_RemoveElement
<1>9. 1 \in Waiting(us, id) <=> Head(us).frame = id  BY <1>1 DEF Waiting
<1> HIDE DEF A, B
<1>10. CASE 1 \in Waiting(us, id)
  <2>1. Cardinality(A) = Cardinality(Waiting(us, id)) - 1  BY <1>6, <1>8, <1>10
  <2> QED  BY <2>1, <1>7, <1>9, <1>10 DEF A
<1>11. CASE 1 \notin Waiting(us, id)
  <2>1. Cardinality(A) = Cardinality(Waiting(us, id))  BY <1>6, <1>8, <1>11
  <2> QED  BY <2>1, <1>7, <1>9, <1>11 DEF A
<1> QED  BY <1>10, <1>11
-----------------------------------------------------------------------------
(* Actions that touch no call *)

LEMMA SameCalls ==
    ASSUME IInv, UNCHANGED <<calls, queue, frames, undo, owed, done>>
    PROVE  CopiesOnce' /\ Tower' /\ CountsAgree' /\ OwedWaits' /\ DoneIsOver'
<1>1. CopiesOnce'  BY DEF IInv, CopiesOnce, Once
<1>2. Tower'  BY DEF IInv, Tower, Nested
<1>3. CountsAgree'  BY DEF IInv, CountsAgree, Live, Waiting
<1>4. OwedWaits'  BY DEF IInv, OwedWaits, IsLeft, Left
<1>5. DoneIsOver'  BY DEF IInv, DoneIsOver, NotOver, Live
<1> QED  BY <1>1, <1>2, <1>3, <1>4, <1>5

LEMMA ConnectKeeps == ASSUME IInv, NEW c \in Conns, Connect(c) PROVE IInv'
<1> DEFINE s == SigOf[c]
<1>1. s \in Sigs /\ slots[s] \in Seq(Conns) /\ c \notin made /\ Once(slots[s])
      /\ \A i \in 1..Len(slots[s]) : slots[s][i] \in made
  BY DEF IInv, TypeOK, SlotsOnce, Connect
<1>2. /\ Append(slots[s], c) \in Seq(Conns)
      /\ Len(Append(slots[s], c)) = Len(slots[s]) + 1 /\ Len(slots[s]) \in Nat
      /\ \A i \in 1..Len(slots[s]) : Append(slots[s], c)[i] = slots[s][i]
      /\ Append(slots[s], c)[Len(slots[s]) + 1] = c
  BY <1>1, AppendProperties, LenProperties
<1> HIDE DEF s
<1>3. slots' = [slots EXCEPT ![s] = Append(slots[s], c)] /\ made' = made \cup {c}
  BY DEF Connect, s
<1>4. TypeOK'  BY <1>1, <1>2, <1>3 DEF IInv, TypeOK, Connect
<1>5. SlotsOnce'
  <2> SUFFICES ASSUME NEW r \in Sigs
               PROVE  Once(slots'[r]) /\ \A i \in 1..Len(slots'[r]) : slots'[r][i] \in made'
    BY DEF SlotsOnce
  <2>1. CASE r = s
    <3>1. slots'[r] = Append(slots[s], c)  BY <1>1, <1>3, <2>1 DEF IInv, TypeOK
    <3>2. Once(Append(slots[s], c))  BY <1>1, <1>2 DEF Once
    <3>3. Once(slots'[r])  BY <3>1, <3>2
    <3>4. \A i \in 1..Len(Append(slots[s], c)) : Append(slots[s], c)[i] \in made'
      BY <1>1, <1>2, <1>3
    <3> QED  BY <3>1, <3>3, <3>4
  <2>2. CASE r # s
    <3>1. slots'[r] = slots[r]  BY <1>3, <2>2 DEF IInv, TypeOK
    <3> QED  BY <3>1, <1>3 DEF IInv, SlotsOnce
  <2> QED  BY <2>1, <2>2
<1>6. UNCHANGED <<calls, queue, frames, undo, owed, done>>  BY DEF Connect
<1> QED  BY <1>4, <1>5, <1>6, SameCalls DEF IInv

\* What disconnect() does to a signal's slots.
LEMMA RemovalKeeps ==
    ASSUME IInv, NEW c \in Conns, slots' = [slots EXCEPT ![SigOf[c]] = Without(@, c)],
           UNCHANGED made
    PROVE  slots' \in [Sigs -> Seq(Conns)] /\ SlotsOnce'
<1> DEFINE s == SigOf[c]
           q == Without(slots[s], c)
<1>1. s \in Sigs /\ slots[s] \in Seq(Conns) /\ Once(slots[s])
      /\ \A i \in 1..Len(slots[s]) : slots[s][i] \in made
  BY DEF IInv, TypeOK, SlotsOnce
<1>2. q \in Seq(Conns) /\ Once(q) /\ \A j \in 1..Len(q) : \E k \in 1..Len(slots[s]) : q[j] = slots[s][k]
  BY <1>1, WithoutOnce
<1>3. slots \in [Sigs -> Seq(Conns)] /\ SlotsOnce  BY DEF IInv, TypeOK
<1>4. slots' = [slots EXCEPT ![s] = q]  OBVIOUS
<1> HIDE DEF s, q
<1>5. slots' \in [Sigs -> Seq(Conns)]  BY <1>1, <1>2, <1>3, <1>4
<1>6. SlotsOnce'
  <2> SUFFICES ASSUME NEW r \in Sigs
               PROVE  Once(slots'[r]) /\ \A i \in 1..Len(slots'[r]) : slots'[r][i] \in made'
    BY DEF SlotsOnce
  <2>1. CASE r = s
    <3>1. slots'[r] = q  BY <1>1, <1>3, <1>4, <2>1
    <3>2. Once(slots'[r])  BY <1>2, <3>1
    <3> QED  BY <1>1, <1>2, <3>1, <3>2
  <2>2. CASE r # s
    <3>1. slots'[r] = slots[r]  BY <1>3, <1>4, <2>2
    <3> QED  BY <3>1, <1>3 DEF SlotsOnce
  <2> QED  BY <2>1, <2>2
<1> QED  BY <1>5, <1>6

LEMMA DisconnectKeeps == ASSUME IInv, NEW c \in Conns, Disconnect(c) PROVE IInv'
<1>1. slots' \in [Sigs -> Seq(Conns)] /\ SlotsOnce'  BY RemovalKeeps DEF Disconnect
<1>2. TypeOK'  BY <1>1 DEF IInv, TypeOK, Disconnect
<1> QED  BY <1>1, <1>2, SameCalls DEF IInv, Disconnect

LEMMA ExpireKeeps == ASSUME IInv, NEW c \in Conns, Expire(c) PROVE IInv'
<1>1. TypeOK' /\ SlotsOnce'  BY DEF IInv, TypeOK, SlotsOnce, Once, Expire
<1> QED  BY <1>1, SameCalls DEF IInv, Expire

LEMMA DisconnectFailedKeeps == ASSUME IInv, DisconnectFailed PROVE IInv'
<1>1. undoing \in Conns  BY DEF IInv, TypeOK, DisconnectFailed
<1>2. slots' \in [Sigs -> Seq(Conns)] /\ SlotsOnce'  BY <1>1, RemovalKeeps DEF DisconnectFailed
<1>3. TypeOK'  BY <1>2 DEF IInv, TypeOK, DisconnectFailed
<1> QED  BY <1>2, <1>3, SameCalls DEF IInv, DisconnectFailed

-----------------------------------------------------------------------------
(* Calls *)

LEMMA FrameParts ==
    ASSUME TypeOK
    PROVE  /\ Len(queue) \in Nat /\ Len(frames) \in Nat /\ Len(undo) \in Nat
           /\ \A k \in 1..Len(queue) : queue[k] \in Frame
           /\ \A i \in 1..Len(frames) : frames[i] \in Frame
           /\ Inside => Len(frames) >= 1 /\ Top = frames[Len(frames)] /\ Top \in Frame
BY LenProperties, ElementOfSeq, EmptySeq DEF TypeOK, Top, Inside

LEMMA CallKeeps == ASSUME IInv, NEW s \in Sigs, Call(s) PROVE IInv'
<1> DEFINE f == Copy(<<calls + 1>>, s, FALSE)
<1>1. TypeOK /\ calls \in Nat /\ Len(queue) \in Nat /\ queue \in Seq(Frame)  BY FrameParts DEF IInv, TypeOK
<1>2. slots[s] \in Seq(Conns) /\ Once(slots[s])  BY DEF IInv, TypeOK, SlotsOnce
<1>3. <<calls + 1>> \in Names
  <2>1. calls + 1 \in Nat \cup Conns  BY <1>1
  <2> QED  BY <2>1 DEF Names
<1>4. f \in Frame /\ f.id = <<calls + 1>> /\ f.left = slots[s] /\ f.pending = 0
  BY <1>2, <1>3 DEF Copy, Frame
<1>5. queue' = Append(queue, f) /\ calls' = calls + 1
      /\ UNCHANGED <<slots, made, expired, frames, undo, undoing, threw, done>>
      /\ Owe(<<calls + 1>>, s)
  BY DEF Call
<1> HIDE DEF f
<1>6. /\ queue' \in Seq(Frame) /\ Len(queue') = Len(queue) + 1
      /\ \A k \in 1..Len(queue) : queue'[k] = queue[k]
      /\ queue'[Len(queue) + 1] = f
  BY <1>1, <1>4, <1>5, AppendProperties
<1>7. \A o \in owed' : o \in owed \/ (o[1] = <<calls + 1>> /\ Left(f, o[2]) /\ o \in Names \X Conns)
  <2>1. DOMAIN slots[s] = 1..Len(slots[s]) /\ \A i \in 1..Len(slots[s]) : slots[s][i] \in Conns
    BY <1>2, LenProperties, ElementOfSeq
  <2>2. owed' = owed \cup {<<<<calls + 1>>, c>> : c \in {slots[s][i] : i \in 1..Len(slots[s])}}
    BY <1>5, <2>1 DEF Owe
  <2> QED  BY <1>3, <1>4, <2>1, <2>2 DEF Left
<1>8. TypeOK'  BY <1>1, <1>5, <1>6, <1>7 DEF TypeOK
<1>9. SlotsOnce'  BY <1>5 DEF IInv, SlotsOnce, Once
<1>10. CopiesOnce'  BY <1>1, <1>2, <1>4, <1>5, <1>6 DEF IInv, CopiesOnce, Once
<1>11. Tower'
  <2>1. Len(queue) <= calls /\ calls' - Len(queue') = calls - Len(queue)
    BY <1>1, <1>5, <1>6 DEF IInv, Tower
  <2>2. ASSUME NEW k \in 1..Len(queue')
        PROVE  queue'[k].id = <<calls' - Len(queue') + k>> /\ queue'[k].pending = 0
    <3>1. CASE k \in 1..Len(queue)
      <4>1. queue'[k].id = <<calls - Len(queue) + k>> /\ queue'[k].pending = 0
        BY <1>6, <3>1 DEF IInv, Tower
      <4> QED  BY <2>1, <4>1
    <3>2. CASE k = Len(queue) + 1
      <4>1. calls' - Len(queue') + k = calls + 1  BY <1>1, <2>1, <3>2
      <4> QED  BY <1>4, <1>6, <3>2, <4>1
    <3> QED  BY <1>1, <1>6, <3>1, <3>2
  <2>3. Len(queue') <= calls' /\ (Len(queue) < calls => Len(queue') < calls')
    BY <1>1, <1>5, <1>6, <2>1
  <2>4. frames' # <<>> => frames'[1].id = <<calls' - Len(queue')>> /\ Len(queue') < calls'
    BY <1>5, <2>1, <2>3 DEF IInv, Tower
  <2>5. (\A i \in 1..Len(frames') : Len(frames'[i].id) = i) /\ Nested(frames')
    <3>1. frames' = frames  BY <1>5
    <3> QED  BY ONLY IInv, <3>1 DEF IInv, Tower
  <2> QED  BY <2>2, <2>3, <2>4, <2>5 DEF Tower, Nested
<1>12. CountsAgree'  BY <1>5 DEF IInv, CountsAgree, Live, Waiting
<1>13. OwedWaits'
  <2> SUFFICES ASSUME NEW o \in owed'
               PROVE  IsLeft(queue', o) \/ IsLeft(frames', o)
    BY DEF OwedWaits, IsLeft, Left
  <2>1. CASE o \in owed
    <3>1. CASE IsLeft(queue, o)
      <4>1. PICK k \in 1..Len(queue) : queue[k].id = o[1] /\ Left(queue[k], o[2])
        BY <3>1 DEF IsLeft
      <4>2. k \in 1..Len(queue') /\ queue'[k] = queue[k]  BY <1>1, <1>6
      <4> QED  BY <4>1, <4>2 DEF IsLeft
    <3>2. CASE IsLeft(frames, o)  BY <1>5, <3>2
    <3> QED  BY <2>1, <3>1, <3>2 DEF IInv, OwedWaits
  <2>2. CASE o[1] = <<calls + 1>> /\ Left(f, o[2])  BY <1>1, <1>4, <1>6, <2>2 DEF IsLeft
  <2> QED  BY <1>7, <2>1, <2>2
<1>14. DoneIsOver'
  <2>1. calls' - Len(queue') = calls - Len(queue)  BY <1>1, <1>5, <1>6
  <2>2. done' = done /\ frames' = frames  BY <1>5
  <2>3. DoneIsOver  BY DEF IInv
  <2> QED  BY ONLY <2>1, <2>2, <2>3 DEF DoneIsOver, NotOver, Live
<1> QED  BY <1>8, <1>9, <1>10, <1>11, <1>12, <1>13, <1>14 DEF IInv

\* With no frame there is no failure that waits.
LEMMA TakeKeeps == ASSUME IInv, Take PROVE IInv'
<1> DEFINE f == queue[1]
<1>1. TypeOK /\ calls \in Nat /\ queue \in Seq(Frame) /\ queue # <<>> /\ frames = <<>>
      /\ Len(frames) = 0 /\ Len(queue) \in Nat /\ Len(queue) >= 1
      /\ \A k \in 1..Len(queue) : queue[k] \in Frame
  BY FrameParts, EmptySeq DEF IInv, TypeOK, Take, Inside
<1>2. /\ queue' \in Seq(Frame) /\ Len(queue') = Len(queue) - 1
      /\ \A k \in 1..Len(queue') : queue'[k] = queue[k + 1]
      /\ frames' = <<f>>
      /\ UNCHANGED <<slots, made, expired, calls, undo, undoing, owed, threw, done>>
  BY <1>1, HeadTailProperties DEF Take
<1>3. f \in Frame /\ f.id = <<calls - Len(queue) + 1>> /\ f.pending = 0 /\ Once(f.left)
      /\ Len(queue) <= calls
  BY <1>1 DEF IInv, Tower, CopiesOnce
<1>4. frames' \in Seq(Frame) /\ Len(frames') = 1 /\ frames'[1] = f  BY <1>2, <1>3
<1>5. Len(f.id) = 1 /\ f.id[1] = calls - Len(queue) + 1 /\ f.id \in Names  BY <1>3 DEF Frame
<1> HIDE DEF f
<1>6. TypeOK'  BY <1>1, <1>2, <1>4 DEF TypeOK
<1>7. SlotsOnce'  BY <1>2 DEF IInv, SlotsOnce, Once
<1>8. CopiesOnce'
  <2>1. ASSUME NEW k \in 1..Len(queue') PROVE Once(queue'[k].left)
    <3>1. k + 1 \in 1..Len(queue)  BY <1>1, <1>2
    <3>2. Once(queue[k + 1].left)  BY <3>1 DEF IInv, CopiesOnce
    <3> QED  BY <1>2, <3>2
  <2>2. \A i \in 1..Len(frames') : Once(frames'[i].left)  BY <1>3, <1>4
  <2> QED  BY <2>1, <2>2 DEF CopiesOnce
<1>9. Tower'
  <2>1. Len(queue) <= calls /\ calls' - Len(queue') = calls - Len(queue) + 1
    BY <1>1, <1>2, <1>3
  <2>2. ASSUME NEW k \in 1..Len(queue')
        PROVE  queue'[k].id = <<calls' - Len(queue') + k>> /\ queue'[k].pending = 0
    <3>1. k + 1 \in 1..Len(queue)  BY <1>1, <1>2
    <3>2. queue[k + 1].id = <<calls - Len(queue) + (k + 1)>> /\ queue[k + 1].pending = 0
      BY <3>1 DEF IInv, Tower
    <3>3. calls - Len(queue) + (k + 1) = calls' - Len(queue') + k  BY <1>1, <2>1
    <3> QED  BY <1>2, <3>2, <3>3
  <2>3. Len(queue') < calls'  BY <1>1, <1>2, <1>3
  <2>4. frames'[1].id = <<calls' - Len(queue')>>  BY <1>3, <1>4, <2>1
  <2>5. \A i \in 1..Len(frames') : Len(frames'[i].id) = i  BY <1>4, <1>5
  <2>6. \A i \in 2..Len(frames') : FALSE  BY <1>4
  <2>7. Len(queue') <= calls'  BY <1>1, <1>2, <2>3
  <2> QED  BY <2>2, <2>3, <2>4, <2>5, <2>6, <2>7 DEF Tower, Nested
<1>10. Len(undo) = 0
  <2>1. Len(undo) \in Nat  BY <1>1, FrameParts
  <2>2. \A u \in 1..Len(undo) : FALSE  BY <1>1 DEF IInv, CountsAgree, Live
  <2> QED  BY <2>1, <2>2
<1>11. CountsAgree'
  <2>1. Waiting(undo', f.id) = {}  BY <1>2, <1>10 DEF Waiting
  <2>2. Cardinality({}) = 0  BY FS_EmptySet
  <2>3. \A u \in 1..Len(undo') : FALSE  BY <1>2, <1>10
  <2>4. \A i \in 1..Len(frames') : frames'[i].pending = Cardinality(Waiting(undo', frames'[i].id))
    <3>1. \A i \in 1..Len(frames') : frames'[i].id = f.id /\ frames'[i].pending = 0
      BY <1>3, <1>4
    <3> QED  BY <2>1, <2>2, <3>1
  <2> QED  BY <2>3, <2>4 DEF CountsAgree
<1>12. OwedWaits'
  <2> SUFFICES ASSUME NEW o \in owed
               PROVE  IsLeft(queue', o) \/ IsLeft(frames', o)
    BY <1>2 DEF OwedWaits, IsLeft, Left
  <2>1. PICK k \in 1..Len(queue) : queue[k].id = o[1] /\ Left(queue[k], o[2])
    BY <1>1 DEF IInv, OwedWaits, IsLeft
  <2>2. CASE k = 1
    <3>1. frames'[1].id = o[1] /\ Left(frames'[1], o[2])  BY <1>4, <2>1, <2>2 DEF f
    <3> QED  BY <1>4, <3>1 DEF IsLeft
  <2>3. CASE k # 1
    <3>1. k - 1 \in 1..Len(queue') /\ queue'[k - 1] = queue[k]  BY <1>1, <1>2, <2>3
    <3> QED  BY <2>1, <3>1 DEF IsLeft
  <2> QED  BY <2>2, <2>3
<1>13. DoneIsOver'
  <2>1. \A d \in done : d \in Names /\ d # <<>> /\ Len(d) \in Nat /\ Len(d) >= 1
    BY <1>1, EmptySeq DEF IInv, TypeOK, DoneIsOver, Names
  <2>2. \A d \in done : Len(d) = 1 => d[1] \in Nat /\ d[1] < calls - Len(queue')
    BY <1>1, <1>2, <1>3 DEF IInv, DoneIsOver
  <2>3. f.id \notin done  BY <1>1, <1>2, <1>5, <2>2
  <2>4. \A d \in done : Len(d) > 1 => Front(d) \in done  BY <1>1 DEF IInv, DoneIsOver, Live
  <2>5. ASSUME NEW j \in 1..Len(f.left), Append(f.id, f.left[j]) \in done PROVE FALSE
    <3>1. f.left[j] \in Nat \cup Conns  BY <1>3, ElementOfSeq DEF Frame
    <3>2. Front(Append(f.id, f.left[j])) = f.id /\ Len(Append(f.id, f.left[j])) > 1
      BY <1>5, <3>1 DEF Front, Names
    <3> QED  BY <2>3, <2>4, <2>5, <3>2
  <2> QED  BY <1>1, <1>2, <1>4, <2>1, <2>2, <2>3, <2>4, <2>5 DEF DoneIsOver, NotOver
<1> QED  BY <1>6, <1>7, <1>8, <1>9, <1>11, <1>12, <1>13 DEF IInv

LEMMA NamesDiffer ==
    ASSUME Tower, NEW i \in 1..Len(frames), NEW j \in 1..Len(frames),
           frames[i].id = frames[j].id
    PROVE  i = j
BY DEF Tower

\* The frames once the slot at the head of the innermost call has run.
LEMMA TopReplaced ==
    ASSUME IInv, Inside, Top.left # <<>>, NEW p \in Nat, NEW fs,
           fs = ReplaceTop([Drop(Top) EXCEPT !.pending = p])
    PROVE  /\ Next1 \in Conns /\ Left(Top, Next1)
           /\ fs \in Seq(Frame) /\ Len(fs) = Len(frames)
           /\ \A i \in 1..Len(frames) :
                 /\ fs[i].id = frames[i].id /\ Once(fs[i].left)
                 /\ \A j \in 1..Len(fs[i].left) : Left(frames[i], fs[i].left[j])
                 /\ i # Len(frames) => fs[i] = frames[i]
           /\ fs[Len(frames)].pending = p
           /\ \A j \in 1..Len(fs[Len(frames)].left) : fs[Len(frames)].left[j] # Next1
           /\ \A c : Left(Top, c) /\ c # Next1 => Left(fs[Len(frames)], c)
<1> DEFINE n == Len(frames)
           g == [Drop(Top) EXCEPT !.pending = p]
<1>1. /\ frames \in Seq(Frame) /\ n \in Nat /\ n >= 1 /\ Top = frames[n] /\ Top \in Frame
      /\ Top.left \in Seq(Conns) /\ Once(Top.left)
  <2>1. TypeOK /\ frames \in Seq(Frame) /\ CopiesOnce  BY DEF IInv, TypeOK
  <2>2. n \in Nat /\ n >= 1 /\ Top = frames[n] /\ Top \in Frame  BY <2>1, FrameParts
  <2>3. Once(Top.left)  BY <2>1, <2>2 DEF CopiesOnce
  <2> QED  BY <2>1, <2>2, <2>3 DEF Frame
<1>2. /\ Tail(Top.left) \in Seq(Conns) /\ Once(Tail(Top.left)) /\ Next1 = Top.left[1]
      /\ Len(Top.left) >= 1 /\ Len(Tail(Top.left)) = Len(Top.left) - 1
      /\ \A j \in 1..Len(Tail(Top.left)) :
            Tail(Top.left)[j] = Top.left[j + 1] /\ Tail(Top.left)[j] # Next1
  BY <1>1, OnceTail DEF Next1
<1>3. Len(Top.left) \in Nat  BY <1>1, LenProperties
<1>4. Next1 \in Conns /\ Left(Top, Next1)  BY <1>1, <1>2, <1>3, ElementOfSeq DEF Left
<1>5. g \in Frame /\ g.id = Top.id /\ g.left = Tail(Top.left) /\ g.pending = p
  BY <1>1, <1>2 DEF Drop, Frame
<1>6. fs = [frames EXCEPT ![n] = g]  BY DEF ReplaceTop
<1> HIDE DEF g
<1>7. /\ fs \in Seq(Frame) /\ Len(fs) = n /\ fs[n] = g
      /\ \A i \in 1..n : i # n => fs[i] = frames[i]
  <2>1. n \in 1..n  BY <1>1
  <2>2. /\ fs \in Seq(Frame) /\ Len(fs) = n
        /\ \A j \in 1..n : fs[j] = IF j = n THEN g ELSE frames[j]
    <3>1. DOMAIN frames = 1..n /\ \A j \in 1..n : frames[j] \in Frame  BY <1>1, LenProperties, ElementOfSeq
    <3>2. fs \in [1..n -> Frame] /\ \A j \in 1..n : fs[j] = IF j = n THEN g ELSE frames[j]
      BY <1>5, <1>6, <2>1, <3>1
    <3>3. fs \in Seq(Frame) /\ Len(fs) = n  BY <1>1, <3>2, FunctionIsSeq
    <3> QED  BY <3>2, <3>3
  <2> QED  BY <2>1, <2>2
<1>8. ASSUME NEW i \in 1..n
      PROVE  /\ fs[i].id = frames[i].id /\ Once(fs[i].left)
             /\ \A j \in 1..Len(fs[i].left) : Left(frames[i], fs[i].left[j])
  <2>1. CASE i = n
    <3>1. \A j \in 1..Len(g.left) : Left(Top, g.left[j])
      <4> TAKE j \in 1..Len(g.left)
      <4>1. j + 1 \in 1..Len(Top.left) /\ g.left[j] = Top.left[j + 1]  BY <1>2, <1>3, <1>5
      <4> QED  BY <4>1 DEF Left
    <3> QED  BY <1>1, <1>2, <1>5, <1>7, <2>1, <3>1
  <2>2. CASE i # n
    <3>1. fs[i] = frames[i] /\ Once(frames[i].left)  BY <1>7, <2>2 DEF IInv, CopiesOnce
    <3> QED  BY <3>1 DEF Left
  <2> QED  BY <2>1, <2>2
<1>9. ASSUME NEW c, Left(Top, c), c # Next1 PROVE Left(g, c)
  <2>1. PICK j \in 1..Len(Top.left) : Top.left[j] = c  BY <1>9 DEF Left
  <2>2. j - 1 \in 1..Len(g.left) /\ g.left[j - 1] = c  BY <1>2, <1>3, <1>5, <1>9, <2>1
  <2> QED  BY <2>2 DEF Left
<1>10. \A j \in 1..Len(g.left) : g.left[j] # Next1  BY <1>2, <1>5
<1>11. \A i \in 1..n : i # n => fs[i] = frames[i]  BY <1>7
<1> QED  BY <1>4, <1>5, <1>7, <1>8, <1>9, <1>10, <1>11

LEMMA TopKeeps ==
    ASSUME IInv, Inside, Top.left # <<>>, NEW p \in Nat, NEW fs,
           fs = ReplaceTop([Drop(Top) EXCEPT !.pending = p])
    PROVE  /\ fs[1].id = <<calls - Len(queue)>> /\ Len(queue) < calls
           /\ \A i \in 1..Len(frames) : Len(fs[i].id) = i
           /\ Nested(fs)
           /\ \A o \in owed : o # <<Top.id, Next1>> => IsLeft(queue, o) \/ IsLeft(fs, o)
           /\ \A i \in 1..Len(frames) : NotOver(fs[i])
<1> DEFINE n == Len(frames)
<1>1. n \in Nat \ {0} /\ Top = frames[n] /\ frames # <<>> /\ Tower /\ OwedWaits /\ DoneIsOver
      /\ owed \subseteq Names \X Conns
  BY FrameParts DEF IInv, TypeOK, Inside
<1>2. /\ Len(fs) = n
      /\ \A i \in 1..n :
            /\ fs[i].id = frames[i].id
            /\ \A j \in 1..Len(fs[i].left) : Left(frames[i], fs[i].left[j])
            /\ i # n => fs[i] = frames[i]
      /\ \A c : Left(Top, c) /\ c # Next1 => Left(fs[n], c)
  BY TopReplaced
<1>3. fs[1].id = <<calls - Len(queue)>> /\ Len(queue) < calls
  <2>1. 1 \in 1..n /\ frames[1].id = <<calls - Len(queue)>> /\ Len(queue) < calls
    BY <1>1 DEF Tower
  <2> QED  BY <1>2, <2>1
<1>4. \A i \in 1..n : Len(fs[i].id) = i  BY <1>1, <1>2 DEF Tower
<1>5. ASSUME NEW i \in 2..n
      PROVE  \E c \in Conns : /\ fs[i].id = Append(fs[i - 1].id, c)
                              /\ \A j \in 1..Len(fs[i - 1].left) : fs[i - 1].left[j] # c
  <2>1. i \in 1..n /\ i - 1 \in 1..n /\ i - 1 # n  BY <1>1
  <2>2. fs[i].id = frames[i].id /\ fs[i - 1] = frames[i - 1]  BY <1>2, <2>1
  <2>3. PICK c \in Conns : /\ frames[i].id = Append(frames[i - 1].id, c)
                           /\ \A j \in 1..Len(frames[i - 1].left) : frames[i - 1].left[j] # c
    BY <1>1 DEF Tower, Nested
  <2>4. /\ fs[i].id = Append(fs[i - 1].id, c)
        /\ \A j \in 1..Len(fs[i - 1].left) : fs[i - 1].left[j] # c
    BY <2>2, <2>3
  <2> QED  BY <2>4
<1>6. ASSUME NEW o \in owed, o # <<Top.id, Next1>>
      PROVE  IsLeft(queue, o) \/ IsLeft(fs, o)
  <2>1. o = <<o[1], o[2]>>  BY <1>1
  <2>2. CASE IsLeft(frames, o)
    <3>1. PICK i \in 1..n : frames[i].id = o[1] /\ Left(frames[i], o[2])  BY <2>2 DEF IsLeft
    <3>2. CASE i # n
      <4>1. fs[i] = frames[i]  BY <1>2, <3>2
      <4> QED  BY <1>2, <3>1, <4>1 DEF IsLeft
    <3>3. CASE i = n
      <4>1. o[2] # Next1 /\ Left(Top, o[2])  BY <1>1, <1>6, <2>1, <3>1, <3>3
      <4>2. Left(fs[n], o[2])  BY <1>2, <4>1
      <4> QED  BY <1>1, <1>2, <3>1, <3>3, <4>2 DEF IsLeft
    <3> QED  BY <3>2, <3>3
  <2> QED  BY <1>1, <2>2 DEF OwedWaits
<1>7. ASSUME NEW i \in 1..n PROVE NotOver(fs[i])
  <2>1. fs[i].id = frames[i].id /\ NotOver(frames[i])  BY <1>1, <1>2 DEF DoneIsOver
  <2>2. ASSUME NEW j \in 1..Len(fs[i].left) PROVE Append(fs[i].id, fs[i].left[j]) \notin done
    <3>1. PICK m \in 1..Len(frames[i].left) : frames[i].left[m] = fs[i].left[j]
      BY <1>2 DEF Left
    <3> QED  BY <2>1, <3>1 DEF NotOver
  <2> QED  BY <2>1, <2>2 DEF NotOver
<1>8. Nested(fs)
  <2>1. Len(fs) = n  BY <1>2
  <2> QED  BY <1>5, <2>1 DEF Nested
<1> QED  BY <1>3, <1>4, <1>6, <1>7, <1>8

\* A slot runs in the innermost call and leaves it as many failures as p says.
LEMMA HeadRuns ==
    ASSUME IInv, Inside, Top.left # <<>>, NEW p \in Nat,
           frames' = ReplaceTop([Drop(Top) EXCEPT !.pending = p]), RunsHead,
           UNCHANGED <<slots, made, calls, queue, done>>
    PROVE  /\ Next1 \in Conns /\ Top.id \in Names /\ Top = frames[Len(frames)]
           /\ frames' \in Seq(Frame) /\ Len(frames') = Len(frames) /\ Len(frames) \in Nat \ {0}
           /\ \A i \in 1..Len(frames) :
                 /\ frames'[i].id = frames[i].id
                 /\ i # Len(frames) => frames'[i] = frames[i]
           /\ frames'[Len(frames)].pending = p
           /\ SlotsOnce' /\ CopiesOnce' /\ Tower' /\ OwedWaits' /\ DoneIsOver'
<1> DEFINE n == Len(frames)
<1>1. /\ frames \in Seq(Frame) /\ n \in Nat \ {0} /\ Top = frames[n] /\ Top \in Frame
      /\ frames # <<>> /\ Top.id \in Names
  BY FrameParts DEF IInv, TypeOK, Frame, Inside
<1>2. /\ Next1 \in Conns /\ frames' \in Seq(Frame) /\ Len(frames') = n
      /\ \A i \in 1..n :
            /\ frames'[i].id = frames[i].id /\ Once(frames'[i].left)
            /\ i # n => frames'[i] = frames[i]
      /\ frames'[n].pending = p
  BY TopReplaced
<1>3. /\ frames'[1].id = <<calls - Len(queue)>> /\ Len(queue) < calls
      /\ \A i \in 1..n : Len(frames'[i].id) = i
      /\ Nested(frames')
      /\ \A o \in owed : o # <<Top.id, Next1>> => IsLeft(queue, o) \/ IsLeft(frames', o)
      /\ \A i \in 1..n : NotOver(frames'[i])
  BY TopKeeps
<1>4. SlotsOnce'  BY DEF IInv, SlotsOnce, Once
<1>5. CopiesOnce'
  <2>1. \A k \in 1..Len(queue') : Once(queue'[k].left)  BY DEF IInv, CopiesOnce
  <2>2. \A i \in 1..Len(frames') : Once(frames'[i].left)  BY <1>2
  <2> QED  BY <2>1, <2>2 DEF CopiesOnce
<1>6. Tower'
  <2>1. queue' = queue /\ calls' = calls  OBVIOUS
  <2>2. /\ Len(queue) <= calls
        /\ \A k \in 1..Len(queue) :
              queue[k].id = <<calls - Len(queue) + k>> /\ queue[k].pending = 0
    BY DEF IInv, Tower
  <2>3. Nested(frames)'  BY <1>3 DEF Nested
  <2> QED  BY <1>2, <1>3, <2>1, <2>2, <2>3 DEF Tower
<1>7. OwedWaits'
  <2> SUFFICES ASSUME NEW o \in owed'
               PROVE  IsLeft(queue', o) \/ IsLeft(frames', o)
    BY DEF OwedWaits, IsLeft, Left
  <2>1. o \in owed /\ o # <<Top.id, Next1>>  BY DEF RunsHead
  <2> QED  BY <1>3, <2>1
<1>8. DoneIsOver'
  <2>1. \A id : Live(id) => Live(id)'  BY <1>2 DEF Live
  <2>2. /\ \A d \in done' : d # <<>>
        /\ \A d \in done' : Len(d) > 1 => Front(d) \in done' \/ Live(Front(d))'
    BY <2>1 DEF IInv, DoneIsOver
  <2>3. \A d \in done' : Len(d) = 1 =>
          /\ d[1] \in Nat /\ d[1] <= calls' - Len(queue')
          /\ frames' # <<>> => d[1] < calls' - Len(queue')
    BY <1>1 DEF IInv, DoneIsOver
  <2>4. \A i \in 1..Len(frames') : NotOver(frames[i])'  BY <1>2, <1>3 DEF NotOver
  <2> QED  BY <2>2, <2>3, <2>4 DEF DoneIsOver
<1> QED  BY <1>1, <1>2, <1>4, <1>5, <1>6, <1>7, <1>8

LEMMA SlotReturnsKeeps == ASSUME IInv, SlotReturns PROVE IInv'
<1>1. TypeOK /\ Inside /\ Top.left # <<>> /\ Top \in Frame /\ Top.pending \in Nat
  BY FrameParts DEF SlotReturns, IInv, Frame
<1>2. Drop(Top) = [Drop(Top) EXCEPT !.pending = Top.pending]  BY <1>1 DEF Drop, Frame
<1>3. frames' = ReplaceTop([Drop(Top) EXCEPT !.pending = Top.pending])
  BY <1>2 DEF SlotReturns
<1>4. UNCHANGED <<slots, made, calls, queue, done>> /\ RunsHead  BY DEF SlotReturns
<1>5. /\ Top = frames[Len(frames)] /\ frames' \in Seq(Frame) /\ Len(frames') = Len(frames)
      /\ \A i \in 1..Len(frames) :
            frames'[i].id = frames[i].id /\ (i # Len(frames) => frames'[i] = frames[i])
      /\ frames'[Len(frames)].pending = Top.pending
      /\ SlotsOnce' /\ CopiesOnce' /\ Tower' /\ OwedWaits' /\ DoneIsOver'
  BY <1>1, <1>3, <1>4, HeadRuns
<1>6. TypeOK'  BY <1>1, <1>4, <1>5 DEF TypeOK, SlotReturns, RunsHead
<1>7. CountsAgree'
  <2>1. undo' = undo  BY DEF SlotReturns
  <2>2. \A i \in 1..Len(frames) : frames'[i].pending = frames[i].pending  BY <1>5
  <2>3. \A u \in 1..Len(undo) : \E i \in 1..Len(frames') : frames'[i].id = undo[u].frame
    BY <1>5 DEF IInv, CountsAgree, Live
  <2>4. \A i \in 1..Len(frames) : frames'[i].pending = Cardinality(Waiting(undo, frames'[i].id))
    BY <1>5, <2>2 DEF IInv, CountsAgree
  <2> QED  BY <1>5, <2>1, <2>3, <2>4 DEF CountsAgree, Live, Waiting
<1> QED  BY <1>5, <1>6, <1>7 DEF IInv

\* A slot throws: its failure waits, and the call's counter says so.
LEMMA SlotThrowsKeeps == ASSUME IInv, SlotThrows PROVE IInv'
<1> DEFINE u == [frame |-> Top.id, conn |-> Next1]
           n == Len(frames)
<1>1. /\ TypeOK /\ Tower /\ Inside /\ Top.left # <<>> /\ Top \in Frame
      /\ Top.pending \in Nat /\ Top.pending + 1 \in Nat
  BY FrameParts DEF SlotThrows, IInv, Frame
<1>2. Drop(Top).pending = Top.pending  BY <1>1 DEF Drop, Frame
<1>3. frames' = ReplaceTop([Drop(Top) EXCEPT !.pending = Top.pending + 1])
  BY <1>2 DEF SlotThrows
<1>4. UNCHANGED <<slots, made, calls, queue, done>> /\ RunsHead  BY DEF SlotThrows
<1>5. /\ Next1 \in Conns /\ Top.id \in Names /\ Top = frames[n] /\ n \in Nat \ {0}
      /\ frames' \in Seq(Frame) /\ Len(frames') = n
      /\ \A i \in 1..n :
            frames'[i].id = frames[i].id /\ (i # n => frames'[i] = frames[i])
      /\ frames'[n].pending = Top.pending + 1
      /\ SlotsOnce' /\ CopiesOnce' /\ Tower' /\ OwedWaits' /\ DoneIsOver'
  BY <1>1, <1>3, <1>4, HeadRuns
<1>6. u \in Failure /\ u.frame = Top.id /\ undo \in Seq(Failure) /\ undo' = Append(undo, u)
  BY <1>1, <1>5 DEF Failure, TypeOK, SlotThrows
<1> HIDE DEF u
<1>7. undo' \in Seq(Failure)  BY <1>6, AppendProperties
<1>8. TypeOK'  BY <1>1, <1>4, <1>5, <1>7 DEF TypeOK, SlotThrows, RunsHead
<1>9. CountsAgree'
  <2>1. ASSUME NEW v \in 1..Len(undo')
        PROVE  \E i \in 1..Len(frames') : frames'[i].id = undo'[v].frame
    <3>1. CASE v \in 1..Len(undo)
      <4>1. undo'[v] = undo[v]  BY <1>6, <3>1, AppendProperties
      <4>2. Live(undo[v].frame)  BY <3>1 DEF IInv, CountsAgree
      <4>3. PICK i \in 1..n : frames[i].id = undo[v].frame  BY <4>2 DEF Live
      <4> QED  BY <1>5, <4>1, <4>3
    <3>2. CASE v = Len(undo) + 1
      <4>1. undo'[v].frame = Top.id  BY <1>6, <3>2, AppendProperties
      <4>2. frames'[n].id = Top.id /\ n \in 1..Len(frames')  BY <1>5
      <4> QED  BY <4>1, <4>2
    <3> QED  BY <1>6, <3>1, <3>2, AppendProperties, LenProperties
  <2>2. ASSUME NEW i \in 1..n
        PROVE  frames'[i].pending = Cardinality(Waiting(undo', frames[i].id))
    <3>1. Cardinality(Waiting(undo', frames[i].id))
             = Cardinality(Waiting(undo, frames[i].id)) + (IF Top.id = frames[i].id THEN 1 ELSE 0)
      BY <1>6, WaitingAppend
    <3>2. frames[i].pending = Cardinality(Waiting(undo, frames[i].id))
          /\ frames[i].pending \in Nat
      BY <1>1, FrameParts DEF IInv, CountsAgree, Frame
    <3>3. Top.id = frames[i].id <=> i = n  BY <1>1, <1>5, NamesDiffer
    <3> QED  BY <1>5, <3>1, <3>2, <3>3
  <2>3. \A i \in 1..Len(frames') :
           frames'[i].pending = Cardinality(Waiting(undo', frames'[i].id))
    BY <1>5, <2>2
  <2> QED  BY <2>1, <2>3 DEF CountsAgree, Live, Waiting
<1> QED  BY <1>5, <1>8, <1>9 DEF IInv

\* A slot emits: the nested call is new and its copy is owed.
LEMMA SlotEmitsKeeps == ASSUME IInv, SlotEmits PROVE IInv'
<1> DEFINE n == Len(frames)
           fs == ReplaceTop([Drop(Top) EXCEPT !.pending = Top.pending])
           s == Emits[Next1]
           id == Append(Top.id, Next1)
           k == Copy(id, s, TRUE)
<1>1. /\ TypeOK /\ Tower /\ Inside /\ Top.left # <<>> /\ Top \in Frame /\ Top.pending \in Nat
      /\ frames \in Seq(Frame) /\ n \in Nat \ {0} /\ Top = frames[n] /\ frames # <<>>
      /\ Top.id \in Names
  <2>1. TypeOK /\ Tower /\ Inside /\ Top.left # <<>> /\ frames \in Seq(Frame)
    BY DEF SlotEmits, IInv, TypeOK
  <2>2. Top \in Frame /\ n \in Nat \ {0} /\ Top = frames[n]  BY <2>1, FrameParts
  <2> QED  BY <2>1, <2>2 DEF Frame, Inside
<1>2. Drop(Top) = [Drop(Top) EXCEPT !.pending = Top.pending]  BY <1>1 DEF Drop, Frame
<1>3. /\ frames' = Append(fs, k)
      /\ owed' = (owed \ {<<Top.id, Next1>>}) \cup {<<id, slots[s][i]>> : i \in DOMAIN slots[s]}
      /\ UNCHANGED <<slots, made, expired, calls, queue, undo, undoing, threw, done>>
  BY <1>2 DEF SlotEmits
<1>4. /\ Next1 \in Conns /\ fs \in Seq(Frame) /\ Len(fs) = n /\ Left(Top, Next1)
      /\ \A i \in 1..n : /\ fs[i].id = frames[i].id /\ Once(fs[i].left)
                         /\ i # n => fs[i] = frames[i]
      /\ fs[n].pending = Top.pending
      /\ \A j \in 1..Len(fs[n].left) : fs[n].left[j] # Next1
  BY <1>1, TopReplaced
<1>5. /\ fs[1].id = <<calls - Len(queue)>> /\ Len(queue) < calls
      /\ \A i \in 1..n : Len(fs[i].id) = i
      /\ Nested(fs)
      /\ \A o \in owed : o # <<Top.id, Next1>> => IsLeft(queue, o) \/ IsLeft(fs, o)
      /\ \A i \in 1..n : NotOver(fs[i])
  BY <1>1, TopKeeps
<1>6. id \in Names /\ Len(id) = n + 1 /\ Front(id) = Top.id
  <2>1. Top.id \in Seq(Nat \cup Conns) /\ Next1 \in Nat \cup Conns /\ Len(Top.id) = n
    BY <1>1, <1>4 DEF Names, Tower
  <2> QED  BY <2>1, AppendProperties DEF Names, Front
<1>7. s \in Sigs /\ slots[s] \in Seq(Conns) /\ Once(slots[s])
  BY <1>1, <1>4 DEF SlotEmits, TypeOK, IInv, SlotsOnce
<1>8. k \in Frame /\ k.id = id /\ k.left = slots[s] /\ k.pending = 0
  BY <1>6, <1>7 DEF Copy, Frame
<1>9. id \notin done  BY <1>1, <1>4 DEF IInv, DoneIsOver, NotOver, Left
<1> HIDE DEF fs, s, id, k
<1>10. /\ frames' \in Seq(Frame) /\ Len(frames') = n + 1 /\ frames'[n + 1] = k
       /\ \A i \in 1..n : frames'[i] = fs[i]
  BY <1>3, <1>4, <1>8, AppendProperties
<1>11. \A o \in owed' : \/ o \in owed /\ o # <<Top.id, Next1>>
                        \/ o[1] = id /\ Left(k, o[2]) /\ o \in Names \X Conns
  <2>1. DOMAIN slots[s] = 1..Len(slots[s]) /\ \A i \in 1..Len(slots[s]) : slots[s][i] \in Conns
    BY <1>7, LenProperties, ElementOfSeq
  <2> QED  BY <1>3, <1>6, <1>8, <2>1 DEF Left
<1>12. TypeOK'  BY <1>1, <1>3, <1>10, <1>11 DEF TypeOK
<1>13. SlotsOnce'  BY <1>3 DEF IInv, SlotsOnce, Once
<1>14. CopiesOnce'
  <2>1. \A q \in 1..Len(queue') : Once(queue'[q].left)  BY <1>3 DEF IInv, CopiesOnce
  <2>2. ASSUME NEW i \in 1..Len(frames') PROVE Once(frames'[i].left)
    <3>1. CASE i \in 1..n
      <4>1. frames'[i] = fs[i] /\ Once(fs[i].left)  BY <1>4, <1>10, <3>1
      <4> QED  BY <4>1
    <3>2. CASE i = n + 1  BY <1>7, <1>8, <1>10, <3>2
    <3> QED  BY <1>1, <1>10, <3>1, <3>2
  <2> QED  BY <2>1, <2>2 DEF CopiesOnce
<1>15. Tower'
  <2>1. queue' = queue /\ calls' = calls  BY <1>3
  <2>2. /\ Len(queue) <= calls
        /\ \A q \in 1..Len(queue) :
              queue[q].id = <<calls - Len(queue) + q>> /\ queue[q].pending = 0
    BY <1>1 DEF Tower
  <2>3. frames'[1].id = <<calls - Len(queue)>> /\ Len(queue) < calls
    <3>1. 1 \in 1..n  BY <1>1
    <3> QED  BY <1>5, <1>10, <3>1
  <2>4. \A i \in 1..Len(frames') : Len(frames'[i].id) = i
    <3>1. \A i \in 1..n : Len(frames'[i].id) = i  BY <1>5, <1>10
    <3>2. Len(frames'[n + 1].id) = n + 1  BY <1>6, <1>8, <1>10
    <3> QED  BY <1>1, <1>10, <3>1, <3>2
  <2>5. ASSUME NEW i \in 2..Len(frames')
        PROVE  \E c \in Conns : /\ frames'[i].id = Append(frames'[i - 1].id, c)
                                /\ \A j \in 1..Len(frames'[i - 1].left) : frames'[i - 1].left[j] # c
    <3>1. CASE i \in 2..n
      <4>1. i \in 1..n /\ i - 1 \in 1..n  BY <1>1, <3>1
      <4>2. frames'[i] = fs[i] /\ frames'[i - 1] = fs[i - 1]  BY <1>10, <4>1
      <4>3. PICK c \in Conns : /\ fs[i].id = Append(fs[i - 1].id, c)
                               /\ \A j \in 1..Len(fs[i - 1].left) : fs[i - 1].left[j] # c
        <5>1. Len(fs) = n /\ Nested(fs)  BY <1>4, <1>5
        <5> QED  BY <3>1, <5>1 DEF Nested
      <4>4. /\ frames'[i].id = Append(frames'[i - 1].id, c)
            /\ \A j \in 1..Len(frames'[i - 1].left) : frames'[i - 1].left[j] # c
        BY <4>2, <4>3
      <4> QED  BY <4>4
    <3>2. CASE i = n + 1
      <4>1. i - 1 = n /\ n \in 1..n  BY <1>1, <3>2
      <4>2. frames'[i - 1] = fs[n] /\ fs[n].id = Top.id  BY <1>1, <1>4, <1>10, <4>1
      <4>3. frames'[i].id = Append(frames'[i - 1].id, Next1)
        BY <1>8, <1>10, <3>2, <4>2 DEF id
      <4>4. \A j \in 1..Len(frames'[i - 1].left) : frames'[i - 1].left[j] # Next1
        BY <1>4, <4>2
      <4> QED  BY <1>4, <4>3, <4>4
    <3>3. i \in 2..n \/ i = n + 1
      <4>1. Len(frames') = n + 1 /\ n \in Nat \ {0}  BY <1>1, <1>10
      <4> QED  BY <4>1
    <3> QED  BY <3>1, <3>2, <3>3
  <2> QED  BY <2>1, <2>2, <2>3, <2>4, <2>5 DEF Tower, Nested
<1>16. CountsAgree'
  <2>1. undo' = undo  BY <1>3
  <2>2. ASSUME NEW u \in 1..Len(undo)
        PROVE  /\ undo[u].frame # id
               /\ \E i \in 1..Len(frames') : frames'[i].id = undo[u].frame
    <3>1. PICK i \in 1..n : frames[i].id = undo[u].frame  BY DEF IInv, CountsAgree, Live
    <3>2. Len(frames[i].id) = i  BY <1>1 DEF Tower
    <3>3. frames'[i].id = frames[i].id /\ i \in 1..Len(frames')  BY <1>1, <1>4, <1>10
    <3> QED  BY <1>1, <1>6, <3>1, <3>2, <3>3
  <2>3. \A i \in 1..n : frames'[i].id = frames[i].id /\ frames'[i].pending = frames[i].pending
    <3>1. \A i \in 1..n : fs[i].pending = frames[i].pending  BY <1>1, <1>4
    <3> QED  BY <1>4, <1>10, <3>1
  <2>4. \A i \in 1..n : frames'[i].pending = Cardinality(Waiting(undo, frames'[i].id))
    BY <2>3 DEF IInv, CountsAgree
  <2>5. frames'[n + 1].pending = Cardinality(Waiting(undo, frames'[n + 1].id))
    <3>1. Waiting(undo, id) = {}  BY <2>2 DEF Waiting
    <3>2. Cardinality(Waiting(undo, id)) = 0  BY <3>1, FS_EmptySet
    <3> QED  BY <1>8, <1>10, <3>2
  <2>6. \A i \in 1..Len(frames') : frames'[i].pending = Cardinality(Waiting(undo, frames'[i].id))
    BY <1>1, <1>10, <2>4, <2>5
  <2> QED  BY <2>1, <2>2, <2>6 DEF CountsAgree, Live, Waiting
<1>17. OwedWaits'
  <2> SUFFICES ASSUME NEW o \in owed'
               PROVE  IsLeft(queue', o) \/ IsLeft(frames', o)
    BY DEF OwedWaits, IsLeft, Left
  <2>1. CASE o \in owed /\ o # <<Top.id, Next1>>
    <3>1. CASE IsLeft(queue, o)  BY <1>3, <3>1
    <3>2. CASE IsLeft(fs, o)
      <4>1. PICK i \in 1..n : fs[i].id = o[1] /\ Left(fs[i], o[2])  BY <1>4, <3>2 DEF IsLeft
      <4>2. frames'[i] = fs[i] /\ i \in 1..Len(frames')  BY <1>1, <1>10
      <4> QED  BY <4>1, <4>2 DEF IsLeft
    <3> QED  BY <1>5, <2>1, <3>1, <3>2
  <2>2. CASE o[1] = id /\ Left(k, o[2])
    <3>1. n + 1 \in 1..Len(frames')  BY <1>1, <1>10
    <3> QED  BY <1>8, <1>10, <2>2, <3>1 DEF IsLeft
  <2> QED  BY <1>11, <2>1, <2>2
<1>18. DoneIsOver'
  <2>1. \A d \in done : /\ d \in Names /\ d # <<>>
                        /\ Len(d) = 1 => d[1] \in Nat /\ d[1] < calls - Len(queue)
                        /\ Len(d) > 1 => Front(d) \in done \/ Live(Front(d))
    BY <1>1 DEF IInv, TypeOK, DoneIsOver
  <2>2. \A x : Live(x) => \E i \in 1..Len(frames') : frames'[i].id = x
    BY <1>1, <1>4, <1>10 DEF Live
  <2>3. ~Live(id)  BY <1>1, <1>6 DEF Live, Tower
  <2>4. ASSUME NEW j \in 1..Len(k.left), Append(id, k.left[j]) \in done PROVE FALSE
    <3>1. k.left[j] \in Nat \cup Conns /\ id \in Seq(Nat \cup Conns)
      BY <1>6, <1>7, <1>8, ElementOfSeq DEF Names
    <3>2. Front(Append(id, k.left[j])) = id /\ Len(Append(id, k.left[j])) > 1
      BY <1>1, <1>6, <3>1, AppendProperties DEF Front
    <3> QED  BY <1>9, <2>1, <2>3, <2>4, <3>2
  <2>5. ASSUME NEW i \in 1..Len(frames') PROVE NotOver(frames'[i])
    <3>1. CASE i \in 1..n
      <4>1. frames'[i] = fs[i]  BY <1>10, <3>1
      <4> QED  BY <1>5, <3>1, <4>1
    <3>2. CASE i = n + 1  BY <1>8, <1>9, <1>10, <2>4, <3>2 DEF NotOver
    <3> QED  BY <1>1, <1>10, <3>1, <3>2
  <2>6. done' = done /\ calls' = calls /\ queue' = queue  BY <1>3
  <2>7. \A d \in done : Len(d) = 1 => d[1] <= calls - Len(queue)
    BY DEF IInv, DoneIsOver
  <2>8. \A i \in 1..Len(frames') : NotOver(frames[i])'  BY <2>5, <2>6 DEF NotOver
  <2> QED  BY <2>1, <2>2, <2>6, <2>7, <2>8 DEF DoneIsOver, Live
<1> QED  BY <1>12, <1>13, <1>14, <1>15, <1>16, <1>17, <1>18 DEF IInv

\* A call is over when it owes nothing and no failure of it waits.
LEMMA FinishKeeps == ASSUME IInv, Finish PROVE IInv'
<1> DEFINE n == Len(frames)
<1>1. /\ TypeOK /\ Tower /\ Inside /\ Top.left = <<>> /\ frames \in Seq(Frame) /\ frames # <<>>
      /\ n \in Nat \ {0} /\ Top = frames[n] /\ Top \in Frame /\ Top.id \in Names /\ Top.pending = 0
      /\ \A i \in 1..n : frames[i] \in Frame
  <2>1. TypeOK /\ Tower /\ Inside /\ Top.left = <<>> /\ frames \in Seq(Frame) /\ Top.pending = 0
    BY DEF Finish, IInv, TypeOK
  <2>2. /\ Top \in Frame /\ n \in Nat \ {0} /\ Top = frames[n]
        /\ \A i \in 1..n : frames[i] \in Frame
    BY <2>1, FrameParts
  <2> QED  BY <2>1, <2>2 DEF Frame, Inside
<1>2. /\ frames' \in Seq(Frame) /\ Len(frames') = n - 1
      /\ \A i \in 1..(n - 1) : frames'[i] = frames[i]
  <2>1. frames' = SubSeq(frames, 1, n - 1)  BY DEF Finish
  <2>2. 1 \in Int /\ n - 1 \in Int /\ \A i \in 1..(n - 1) : frames[i] \in Frame  BY <1>1
  <2>3. /\ frames' \in Seq(Frame)
        /\ Len(frames') = (IF 1 <= n - 1 THEN n - 1 - 1 + 1 ELSE 0)
        /\ \A i \in 1..(n - 1 - 1 + 1) : frames'[i] = frames[1 + i - 1]
    BY <2>1, <2>2, SubSeqProperties
  <2>4. Len(frames') = n - 1
    <3>1. n \in Nat /\ n >= 1  BY <1>1
    <3>2. Len(frames') = IF 1 <= n - 1 THEN n - 1 - 1 + 1 ELSE 0  BY <2>3
    <3> HIDE DEF n
    <3> QED  BY <3>1, <3>2
  <2>5. ASSUME NEW i \in 1..(n - 1) PROVE frames'[i] = frames[i]
    <3>1. i \in 1..(n - 1 - 1 + 1) /\ 1 + i - 1 = i  BY <1>1
    <3> QED  BY <2>3, <3>1
  <2> QED  BY <2>3, <2>4, <2>5
<1>3. done' = done \cup {Top.id}
      /\ UNCHANGED <<slots, made, expired, calls, queue, undo, undoing, owed, threw>>
  BY DEF Finish
<1>4. TypeOK'  BY <1>1, <1>2, <1>3 DEF TypeOK
<1>5. SlotsOnce'  BY <1>3 DEF IInv, SlotsOnce, Once
<1>6. CopiesOnce'
  <2>1. \A k \in 1..Len(queue') : Once(queue'[k].left)  BY <1>3 DEF IInv, CopiesOnce
  <2>2. \A i \in 1..(n - 1) : Once(frames[i].left)  BY <1>1 DEF IInv, CopiesOnce
  <2>3. \A i \in 1..Len(frames') : Once(frames'[i].left)  BY <1>2, <2>2
  <2> QED  BY <2>1, <2>3 DEF CopiesOnce
<1>7. Tower'
  <2>1. queue' = queue /\ calls' = calls  BY <1>3
  <2>2. /\ Len(queue) <= calls
        /\ \A q \in 1..Len(queue) :
              queue[q].id = <<calls - Len(queue) + q>> /\ queue[q].pending = 0
    BY <1>1 DEF Tower
  <2>3. frames' # <<>> => frames'[1].id = <<calls - Len(queue)>> /\ Len(queue) < calls
    <3>1. frames' # <<>> => 1 \in 1..(n - 1)  BY <1>1, <1>2, EmptySeq
    <3> QED  BY <1>1, <1>2, <3>1 DEF Tower
  <2>4. \A i \in 1..Len(frames') : Len(frames'[i].id) = i  BY <1>1, <1>2 DEF Tower
  <2>5. ASSUME NEW i \in 2..Len(frames')
        PROVE  \E c \in Conns : /\ frames'[i].id = Append(frames'[i - 1].id, c)
                                /\ \A j \in 1..Len(frames'[i - 1].left) : frames'[i - 1].left[j] # c
    <3>1. i \in 2..n /\ i \in 1..(n - 1) /\ i - 1 \in 1..(n - 1)  BY <1>1, <1>2
    <3>2. frames'[i] = frames[i] /\ frames'[i - 1] = frames[i - 1]  BY <1>2, <3>1
    <3>3. PICK c \in Conns : /\ frames[i].id = Append(frames[i - 1].id, c)
                             /\ \A j \in 1..Len(frames[i - 1].left) : frames[i - 1].left[j] # c
      BY <1>1, <3>1 DEF Tower, Nested
    <3>4. /\ frames'[i].id = Append(frames'[i - 1].id, c)
          /\ \A j \in 1..Len(frames'[i - 1].left) : frames'[i - 1].left[j] # c
      BY <3>2, <3>3
    <3> QED  BY <3>4
  <2> QED  BY <2>1, <2>2, <2>3, <2>4, <2>5 DEF Tower, Nested
<1>8. CountsAgree'
  <2>1. undo' = undo /\ undo \in Seq(Failure)  BY <1>1, <1>3 DEF TypeOK
  <2>2. Waiting(undo, Top.id) = {}
    <3>1. n \in 1..n  BY <1>1
    <3>2. Cardinality(Waiting(undo, Top.id)) = 0  BY <1>1, <3>1 DEF IInv, CountsAgree
    <3> QED  BY <2>1, <3>2, WaitingFinite, FS_EmptySet
  <2>3. ASSUME NEW u \in 1..Len(undo)
        PROVE  \E i \in 1..Len(frames') : frames'[i].id = undo[u].frame
    <3>1. PICK i \in 1..n : frames[i].id = undo[u].frame  BY DEF IInv, CountsAgree, Live
    <3>2. i # n  BY <1>1, <2>2, <3>1 DEF Waiting
    <3>3. i \in 1..(n - 1)  BY <1>1, <3>2
    <3> QED  BY <1>2, <3>1, <3>3
  <2>4. \A i \in 1..(n - 1) : frames[i].pending = Cardinality(Waiting(undo, frames[i].id))
    BY <1>1 DEF IInv, CountsAgree
  <2>5. \A i \in 1..Len(frames') : frames'[i].pending = Cardinality(Waiting(undo, frames'[i].id))
    BY <1>2, <2>4
  <2> QED  BY <2>1, <2>3, <2>5 DEF CountsAgree, Live, Waiting
<1>9. OwedWaits'
  <2> SUFFICES ASSUME NEW o \in owed
               PROVE  IsLeft(queue', o) \/ IsLeft(frames', o)
    BY <1>3 DEF OwedWaits, IsLeft, Left
  <2>1. CASE IsLeft(queue, o)  BY <1>3, <2>1
  <2>2. CASE IsLeft(frames, o)
    <3>1. PICK i \in 1..n : frames[i].id = o[1] /\ Left(frames[i], o[2])  BY <2>2 DEF IsLeft
    <3>2. i # n  BY <1>1, <3>1, EmptySeq DEF Left
    <3>3. i \in 1..(n - 1)  BY <1>1, <3>2
    <3> QED  BY <1>2, <3>1, <3>3 DEF IsLeft
  <2> QED  BY <2>1, <2>2 DEF IInv, OwedWaits
<1>10. DoneIsOver'
  <2>1. Top.id # <<>> /\ Len(Top.id) = n  BY <1>1, EmptySeq DEF Tower
  <2>2. ASSUME NEW d \in done', Len(d) = 1
        PROVE  /\ d[1] \in Nat /\ d[1] <= calls - Len(queue)
               /\ frames' # <<>> => d[1] < calls - Len(queue)
    <3>1. CASE d \in done  BY <1>1, <2>2, <3>1 DEF IInv, DoneIsOver
    <3>2. CASE d = Top.id
      <4>1. n = 1  BY <2>1, <2>2, <3>2
      <4>2. d = <<calls - Len(queue)>> /\ Len(queue) < calls  BY <1>1, <3>2, <4>1 DEF Tower
      <4>3. frames' = <<>>  BY <1>2, <4>1, EmptySeq
      <4>4. calls \in Nat /\ Len(queue) \in Nat  BY <1>1, FrameParts DEF TypeOK
      <4> QED  BY <4>2, <4>3, <4>4
    <3> QED  BY <1>3, <3>1, <3>2
  <2>3. ASSUME NEW d \in done', Len(d) > 1
        PROVE  Front(d) \in done' \/ \E i \in 1..Len(frames') : frames'[i].id = Front(d)
    <3>1. CASE d \in done
      <4>1. Front(d) \in done \/ Live(Front(d))  BY <2>3, <3>1 DEF IInv, DoneIsOver
      <4>2. ASSUME NEW i \in 1..n, frames[i].id = Front(d), i # n
            PROVE  \E j \in 1..Len(frames') : frames'[j].id = Front(d)
        <5>1. i \in 1..(n - 1)  BY <1>1, <4>2
        <5> QED  BY <1>2, <4>2, <5>1
      <4> QED  BY <1>1, <1>3, <4>1, <4>2 DEF Live
    <3>2. CASE d = Top.id
      <4>1. n > 1 /\ n \in 2..n /\ n - 1 \in 1..(n - 1) /\ n - 1 \in 1..n  BY <1>1, <2>1, <2>3, <3>2
      <4>2. PICK c \in Conns : frames[n].id = Append(frames[n - 1].id, c)
        BY <1>1, <4>1 DEF Tower, Nested
      <4>3. frames[n - 1].id \in Seq(Nat \cup Conns)  BY <1>1, <4>1 DEF Frame, Names
      <4>4. Front(d) = frames[n - 1].id  BY <1>1, <3>2, <4>2, <4>3 DEF Front
      <4> QED  BY <1>2, <4>1, <4>4
    <3> QED  BY <1>3, <3>1, <3>2
  <2>4. ASSUME NEW i \in 1..Len(frames') PROVE NotOver(frames[i]) /\ frames[i].id # Top.id
               /\ \A j \in 1..Len(frames[i].left) : Append(frames[i].id, frames[i].left[j]) # Top.id
    <3>1. i \in 1..n /\ i # n /\ n \in 1..n  BY <1>1, <1>2
    <3>2. NotOver(frames[i])  BY <3>1 DEF IInv, DoneIsOver
    <3>3. frames[i].id # Top.id  BY <1>1, <3>1, NamesDiffer
    <3>4. ASSUME NEW j \in 1..Len(frames[i].left), Append(frames[i].id, frames[i].left[j]) = Top.id
          PROVE  FALSE
      <4>1. frames[i].id \in Seq(Nat \cup Conns) /\ frames[i].left[j] \in Nat \cup Conns
        BY <1>1, <3>1, ElementOfSeq DEF Frame, Names
      <4>2. i + 1 = n  BY <1>1, <2>1, <3>1, <3>4, <4>1, AppendProperties DEF Tower
      <4>3. n \in 2..n /\ n - 1 = i  BY <1>1, <3>1, <4>2
      <4>4. PICK c \in Conns : /\ frames[n].id = Append(frames[n - 1].id, c)
                               /\ \A k \in 1..Len(frames[n - 1].left) : frames[n - 1].left[k] # c
        BY <1>1, <4>3 DEF Tower, Nested
      <4>5. frames[i].left[j] = c  BY <1>1, <3>4, <4>1, <4>3, <4>4, AppendInjective
      <4> QED  BY <4>3, <4>4, <4>5
    <3> QED  BY <3>2, <3>3, <3>4
  <2>5. \A i \in 1..Len(frames') : NotOver(frames[i])'
    <3>1. \A i \in 1..Len(frames') : frames'[i] = frames[i]  BY <1>2
    <3> QED  BY <1>3, <2>4, <3>1 DEF NotOver
  <2>6. \A d \in done' : d # <<>>  BY <1>3, <2>1 DEF IInv, DoneIsOver
  <2>7. \A d \in done' : Len(d) > 1 => Front(d) \in done' \/ Live(Front(d))'
    BY <2>3 DEF Live
  <2>8. calls' = calls /\ queue' = queue  BY <1>3
  <2> QED  BY <2>2, <2>5, <2>6, <2>7, <2>8 DEF DoneIsOver
<1> QED  BY <1>4, <1>5, <1>6, <1>7, <1>8, <1>9, <1>10 DEF IInv

\* A failure is counted down in the call it is of, which has one to count.
LEMMA CountDownKeeps == ASSUME IInv, CountDown PROVE IInv'
<1> DEFINE n == Len(frames)
           h == Head(undo)
<1>1. /\ TypeOK /\ Tower /\ frames \in Seq(Frame) /\ n \in Nat /\ DOMAIN frames = 1..n
      /\ undo \in Seq(Failure) /\ undo # <<>> /\ \A i \in 1..n : frames[i] \in Frame
  BY FrameParts, LenProperties DEF CountDown, IInv, TypeOK
<1>2. /\ Tail(undo) \in Seq(Failure) /\ h \in Failure /\ Len(undo) \in Nat \ {0}
      /\ Len(Tail(undo)) = Len(undo) - 1
      /\ \A u \in 1..Len(Tail(undo)) : Tail(undo)[u] = undo[u + 1]
  <2>1. Len(undo) \in Nat \ {0}  BY <1>1, EmptySeq
  <2>2. h = undo[1] /\ 1 \in 1..Len(undo)  BY <1>1, <2>1
  <2>3. h \in Failure  BY <1>1, <2>2, ElementOfSeq
  <2> QED  BY <1>1, <2>1, <2>3, HeadTailProperties
<1>3. /\ frames' = Counted(h.frame) /\ undoing' = h.conn /\ undo' = Tail(undo)
      /\ UNCHANGED <<slots, made, expired, calls, queue, owed, threw, done>>
  BY DEF CountDown
<1> HIDE DEF h
<1>4. ASSUME NEW i \in 1..n
      PROVE  /\ Cardinality(Waiting(Tail(undo), frames[i].id)) \in Nat
             /\ frames[i].pending = Cardinality(Waiting(Tail(undo), frames[i].id))
                                       + (IF h.frame = frames[i].id THEN 1 ELSE 0)
  <2>1. Cardinality(Waiting(undo, frames[i].id))
           = Cardinality(Waiting(Tail(undo), frames[i].id)) + (IF h.frame = frames[i].id THEN 1 ELSE 0)
    BY <1>1, WaitingTail DEF h
  <2>2. frames[i].pending = Cardinality(Waiting(undo, frames[i].id))  BY DEF IInv, CountsAgree
  <2>3. Cardinality(Waiting(Tail(undo), frames[i].id)) \in Nat
    BY <1>2, WaitingFinite, FS_CardinalityType
  <2> QED  BY <2>1, <2>2, <2>3
<1>5. ASSUME NEW i \in 1..n
      PROVE  /\ frames'[i].id = frames[i].id /\ frames'[i].left = frames[i].left
             /\ frames'[i].pending = Cardinality(Waiting(Tail(undo), frames[i].id))
             /\ frames'[i] \in Frame
  <2>1. frames'[i] = IF frames[i].id = h.frame THEN [frames[i] EXCEPT !.pending = @ - 1]
                     ELSE frames[i]
    BY <1>1, <1>3 DEF Counted
  <2>2. frames[i] \in Frame  BY <1>1
  <2>3. CASE frames[i].id = h.frame
    <3>1. frames'[i] = [frames[i] EXCEPT !.pending = @ - 1]  BY <2>1, <2>3
    <3>2. frames[i].pending - 1 = Cardinality(Waiting(Tail(undo), frames[i].id))
          /\ frames[i].pending - 1 \in Nat
      BY <1>4, <2>3
    <3> QED  BY <2>2, <3>1, <3>2 DEF Frame
  <2>4. CASE frames[i].id # h.frame
    <3>1. frames'[i] = frames[i]  BY <2>1, <2>4
    <3>2. frames[i].pending = Cardinality(Waiting(Tail(undo), frames[i].id))  BY <1>4, <2>4
    <3> QED  BY <2>2, <3>1, <3>2
  <2> QED  BY <2>3, <2>4
<1>6. frames' \in Seq(Frame) /\ Len(frames') = n
  <2>1. frames' = [i \in 1..n |->
            IF frames[i].id = h.frame THEN [frames[i] EXCEPT !.pending = @ - 1] ELSE frames[i]]
    BY <1>1, <1>3 DEF Counted
  <2>2. frames' \in [1..n -> Frame]  BY <1>5, <2>1
  <2> QED  BY <1>1, <2>2, FunctionIsSeq
<1>7. TypeOK'  BY <1>1, <1>2, <1>3, <1>6 DEF TypeOK, Failure
<1>8. SlotsOnce'  BY <1>3 DEF IInv, SlotsOnce, Once
<1>9. CopiesOnce'
  <2>1. \A k \in 1..Len(queue') : Once(queue'[k].left)  BY <1>3 DEF IInv, CopiesOnce
  <2>2. \A i \in 1..n : Once(frames[i].left)  BY DEF IInv, CopiesOnce
  <2>3. \A i \in 1..Len(frames') : Once(frames'[i].left)  BY <1>5, <1>6, <2>2
  <2> QED  BY <2>1, <2>3 DEF CopiesOnce
<1>10. Tower'
  <2>1. queue' = queue /\ calls' = calls  BY <1>3
  <2>2. /\ Len(queue) <= calls
        /\ \A q \in 1..Len(queue) :
              queue[q].id = <<calls - Len(queue) + q>> /\ queue[q].pending = 0
    BY <1>1 DEF Tower
  <2>3. frames' # <<>> => frames'[1].id = <<calls - Len(queue)>> /\ Len(queue) < calls
    <3>1. frames' # <<>> => 1 \in 1..n  BY <1>1, <1>6, EmptySeq
    <3>2. frames' # <<>> => frames # <<>>  BY <1>1, <1>6, EmptySeq
    <3> QED  BY <1>1, <1>5, <3>1, <3>2 DEF Tower
  <2>4. \A i \in 1..Len(frames') : Len(frames'[i].id) = i  BY <1>1, <1>5, <1>6 DEF Tower
  <2>5. ASSUME NEW i \in 2..Len(frames')
        PROVE  \E c \in Conns : /\ frames'[i].id = Append(frames'[i - 1].id, c)
                                /\ \A j \in 1..Len(frames'[i - 1].left) : frames'[i - 1].left[j] # c
    <3>1. i \in 2..n /\ i \in 1..n /\ i - 1 \in 1..n  BY <1>1, <1>6
    <3>2. /\ frames'[i].id = frames[i].id /\ frames'[i - 1].id = frames[i - 1].id
          /\ frames'[i - 1].left = frames[i - 1].left
      BY <1>5, <3>1
    <3>3. PICK c \in Conns : /\ frames[i].id = Append(frames[i - 1].id, c)
                             /\ \A j \in 1..Len(frames[i - 1].left) : frames[i - 1].left[j] # c
      BY <1>1, <3>1 DEF Tower, Nested
    <3>4. /\ frames'[i].id = Append(frames'[i - 1].id, c)
          /\ \A j \in 1..Len(frames'[i - 1].left) : frames'[i - 1].left[j] # c
      BY <3>2, <3>3
    <3> QED  BY <3>4
  <2> QED  BY <2>1, <2>2, <2>3, <2>4, <2>5 DEF Tower, Nested
<1>11. CountsAgree'
  <2>1. ASSUME NEW u \in 1..Len(undo')
        PROVE  \E i \in 1..Len(frames') : frames'[i].id = undo'[u].frame
    <3>1. u + 1 \in 1..Len(undo) /\ undo'[u] = undo[u + 1]  BY <1>2, <1>3
    <3>2. PICK i \in 1..n : frames[i].id = undo[u + 1].frame
      BY <3>1 DEF IInv, CountsAgree, Live
    <3> QED  BY <1>5, <1>6, <3>1, <3>2
  <2>2. \A i \in 1..Len(frames') :
           frames'[i].pending = Cardinality(Waiting(undo', frames'[i].id))
    BY <1>3, <1>5, <1>6
  <2> QED  BY <2>1, <2>2 DEF CountsAgree, Live, Waiting
<1>12. OwedWaits'
  <2> SUFFICES ASSUME NEW o \in owed
               PROVE  IsLeft(queue', o) \/ IsLeft(frames', o)
    BY <1>3 DEF OwedWaits, IsLeft, Left
  <2>1. CASE IsLeft(queue, o)  BY <1>3, <2>1
  <2>2. CASE IsLeft(frames, o)
    <3>1. PICK i \in 1..n : frames[i].id = o[1] /\ Left(frames[i], o[2])  BY <2>2 DEF IsLeft
    <3> QED  BY <1>5, <1>6, <3>1 DEF IsLeft, Left
  <2> QED  BY <2>1, <2>2 DEF IInv, OwedWaits
<1>13. DoneIsOver'
  <2>1. done' = done /\ calls' = calls /\ queue' = queue  BY <1>3
  <2>2. frames' # <<>> => frames # <<>>  BY <1>1, <1>6, EmptySeq
  <2>3. \A x : Live(x) => \E i \in 1..Len(frames') : frames'[i].id = x  BY <1>5, <1>6 DEF Live
  <2>4. \A i \in 1..Len(frames') : NotOver(frames[i])'
    <3>1. \A i \in 1..n : NotOver(frames[i])  BY DEF IInv, DoneIsOver
    <3> QED  BY <1>5, <1>6, <2>1, <3>1 DEF NotOver
  <2>5. \A d \in done' : d # <<>>  BY <2>1 DEF IInv, DoneIsOver
  <2>6. \A d \in done' : Len(d) = 1 =>
          /\ d[1] \in Nat /\ d[1] <= calls' - Len(queue')
          /\ frames' # <<>> => d[1] < calls' - Len(queue')
    BY <2>1, <2>2 DEF IInv, DoneIsOver
  <2>7. \A d \in done' : Len(d) > 1 => Front(d) \in done' \/ Live(Front(d))'
    BY <2>1, <2>3 DEF IInv, DoneIsOver, Live
  <2> QED  BY <2>4, <2>5, <2>6, <2>7 DEF DoneIsOver
<1> QED  BY <1>7, <1>8, <1>9, <1>10, <1>11, <1>12, <1>13 DEF IInv

-----------------------------------------------------------------------------
(* The theorems *)

LEMMA InitIInv == Init => IInv
<1> SUFFICES ASSUME Init PROVE IInv  OBVIOUS
<1>1. \A S : <<>> \in Seq(S) /\ Len(<<>>) = 0  BY EmptySeq
<1>2. TypeOK  BY <1>1 DEF Init, TypeOK
<1>3. SlotsOnce  BY <1>1 DEF Init, SlotsOnce, Once
<1>4. CopiesOnce /\ Tower  BY <1>1 DEF Init, CopiesOnce, Tower, Nested
<1>5. CountsAgree /\ OwedWaits /\ DoneIsOver
  BY <1>1 DEF Init, CountsAgree, OwedWaits, DoneIsOver
<1> QED  BY <1>2, <1>3, <1>4, <1>5 DEF IInv

LEMMA StepIInv == IInv /\ [Next]_vars => IInv'
<1> SUFFICES ASSUME IInv, [Next]_vars PROVE IInv'  OBVIOUS
<1>1. ASSUME NEW c \in Conns, Connect(c) \/ Disconnect(c) \/ Expire(c) PROVE IInv'
  BY <1>1, ConnectKeeps, DisconnectKeeps, ExpireKeeps
<1>2. ASSUME NEW s \in Sigs, Call(s) PROVE IInv'  BY <1>2, CallKeeps
<1>3. CASE SignalThread
  BY <1>3, TakeKeeps, SlotReturnsKeeps, SlotThrowsKeeps, SlotEmitsKeeps, FinishKeeps
  DEF SignalThread
<1>4. CASE DisconnectThread
  BY <1>4, CountDownKeeps, DisconnectFailedKeeps DEF DisconnectThread
<1>5. CASE UNCHANGED vars
  <2>1. TypeOK' /\ SlotsOnce'  BY <1>5 DEF IInv, TypeOK, SlotsOnce, Once, vars
  <2> QED  BY <1>5, <2>1, SameCalls DEF IInv, vars
<1> QED  BY <1>1, <1>2, <1>3, <1>4, <1>5 DEF Next

\* What each call copied, has run, has counted and has yet to see disconnected
\* adds up, whoever connects, emits, throws or disconnects meanwhile.
THEOREM IInvHolds == Spec => []IInv
<1>1. Init => IInv  BY InitIInv
<1>2. IInv /\ [Next]_vars => IInv'  BY StepIInv
<1> QED  BY <1>1, <1>2, PTL DEF Spec

\* The counter a failure is to be counted down in lives in the frame of a call
\* (signal_core.hpp:76): no call returns while the disconnect thread has a
\* failure of it yet to count, whatever other slots throw and emit meanwhile.
THEOREM CountersLive == Spec => []CountersAreLive
<1>1. IInv => CountersAreLive
  <2> SUFFICES ASSUME IInv, NEW u \in DOMAIN undo
               PROVE  \E i \in DOMAIN frames : frames[i].id = undo[u].frame /\ frames[i].pending > 0
    BY DEF CountersAreLive
  <2>1. undo \in Seq(Failure) /\ u \in 1..Len(undo) /\ DOMAIN frames = 1..Len(frames)
    BY LenProperties DEF IInv, TypeOK
  <2>2. PICK i \in 1..Len(frames) : frames[i].id = undo[u].frame
    BY <2>1 DEF IInv, CountsAgree, Live
  <2>3. /\ IsFiniteSet(Waiting(undo, frames[i].id)) /\ u \in Waiting(undo, frames[i].id)
        /\ frames[i].pending = Cardinality(Waiting(undo, frames[i].id))
    BY <2>1, <2>2, WaitingFinite DEF Waiting, IInv, CountsAgree
  <2>4. frames[i].pending \in Nat /\ frames[i].pending # 0
    BY <2>3, FS_EmptySet, FS_CardinalityType
  <2> QED  BY <2>1, <2>2, <2>4
<1> QED  BY <1>1, IInvHolds, PTL

\* A future is ready only when every slot the call copied has run: a slot that
\* throws, or that makes calls of its own, takes no other slot's call away.
THEOREM EveryCopy == Spec => []EveryCopyRuns
<1>1. IInv => EveryCopyRuns
  <2> SUFFICES ASSUME IInv, NEW o \in owed, o[1] \in done PROVE FALSE  BY DEF EveryCopyRuns
  <2>1. CASE IsLeft(frames, o)  BY <2>1 DEF IInv, IsLeft, DoneIsOver, NotOver
  <2>2. CASE IsLeft(queue, o)
    <3>1. PICK k \in 1..Len(queue) : queue[k].id = o[1]  BY <2>2 DEF IsLeft
    <3>2. o[1] = <<calls - Len(queue) + k>> /\ calls \in Nat /\ Len(queue) \in Nat
      BY <3>1, FrameParts DEF IInv, Tower, TypeOK
    <3>3. Len(o[1]) = 1 /\ o[1][1] = calls - Len(queue) + k  BY <3>2
    <3>4. o[1][1] <= calls - Len(queue)  BY <3>3 DEF IInv, DoneIsOver
    <3> QED  BY <3>2, <3>3, <3>4
  <2> QED  BY <2>1, <2>2 DEF IInv, OwedWaits
<1> QED  BY <1>1, IInvHolds, PTL
=============================================================================
