------------------------------- MODULE Signals -------------------------------
(***************************************************************************)
(* The signals every component speaks through (common/signal_core.hpp,     *)
(* common/connection.hpp).  A call copies the slots under the signal's     *)
(* mutex and dispatches the copy to the one signal thread: from another    *)
(* thread it is queued, from a slot it runs at once, and then the mutex    *)
(* stays held until the nested call is over.  A slot that throws is        *)
(* disconnected by a second thread; the call spins until that thread has   *)
(* counted every failure down, because the counter lives in its frame.     *)
(***************************************************************************)
EXTENDS Naturals, FiniteSets, SequencesExt

CONSTANTS
    Sigs,       \* the signals
    Conns,      \* the connections ever made, each one slot of one signal
    SigOf,      \* connection -> its signal
    Emits,      \* connection -> the signal its slot emits, or NoSig
    Bound,      \* the connections whose slot holds a weak pointer
    NoSig, NoConn,
    MaxCalls    \* bound on the calls made outside slots

ASSUME SignalsAssumption ==
    /\ SigOf \in [Conns -> Sigs]
    /\ Emits \in [Conns -> Sigs \cup {NoSig}]
    /\ Bound \subseteq Conns
    /\ NoSig \notin Sigs
    /\ NoConn \notin Conns
    /\ MaxCalls \in Nat

VARIABLES
    slots,      \* m_slots of each signal
    made,       \* the connections made so far
    expired,    \* bound connections whose object is gone
    calls,      \* number of calls made outside slots
    queue,      \* calls posted to the signal thread
    frames,     \* calls the signal thread is inside, the innermost last
    undo,       \* failures posted to the disconnect thread
    undoing,    \* the connection it is about to disconnect
    owed,       \* history: <<call, connection>> copied and not yet run
    threw,      \* history: <<call, connection>> whose slot threw
    done        \* calls that are over; their futures are ready

vars == <<slots, made, expired, calls, queue, frames, undo, undoing, owed, threw, done>>

-----------------------------------------------------------------------------
Top == frames[Len(frames)]
Inside == frames # <<>>
Next1 == Head(Top.left)

\* The signal's mutex is held while a nested call to it runs.
Held(s) == \E i \in DOMAIN frames : frames[i].nested /\ frames[i].sig = s

Copy(id, s, nested) ==
    [id |-> id, sig |-> s, left |-> slots[s], pending |-> 0, nested |-> nested]

Owe(id, s) == owed' = owed \cup {<<id, c>> : c \in {slots[s][i] : i \in DOMAIN slots[s]}}

Drop(f) == [f EXCEPT !.left = Tail(@)]
ReplaceTop(f) == [frames EXCEPT ![Len(frames)] = f]

\* The frames after one failure of the call id was counted down.
Counted(id) ==
    [i \in DOMAIN frames |->
        IF frames[i].id = id THEN [frames[i] EXCEPT !.pending = @ - 1] ELSE frames[i]]

\* The slot at the head of the innermost call runs, and owes nothing more.
RunsHead == owed' = owed \ {<<Top.id, Next1>>}
Throws(c) == c \in Bound /\ c \in expired

\* remove_if erases every slot of the connection, and there is at most one.
Without(q, c) == IF Contains(q, c) THEN RemoveAt(q, CHOOSE i \in DOMAIN q : q[i] = c) ELSE q
-----------------------------------------------------------------------------
Init ==
    /\ slots = [s \in Sigs |-> <<>>]
    /\ made = {}
    /\ expired = {}
    /\ calls = 0
    /\ queue = <<>>
    /\ frames = <<>>
    /\ undo = <<>>
    /\ undoing = NoConn
    /\ owed = {}
    /\ threw = {}
    /\ done = {}

Connect(c) ==
    /\ c \notin made
    /\ ~Held(SigOf[c])
    /\ made' = made \cup {c}
    /\ slots' = [slots EXCEPT ![SigOf[c]] = Append(@, c)]
    /\ UNCHANGED <<expired, calls, queue, frames, undo, undoing, owed, threw, done>>

Disconnect(c) ==
    /\ c \in made
    /\ ~Held(SigOf[c])
    /\ slots' = [slots EXCEPT ![SigOf[c]] = Without(@, c)]
    /\ UNCHANGED <<made, expired, calls, queue, frames, undo, undoing, owed, threw, done>>

\* The object a slot is bound to goes away.
Expire(c) ==
    /\ c \in Bound \ expired
    /\ expired' = expired \cup {c}
    /\ UNCHANGED <<slots, made, calls, queue, frames, undo, undoing, owed, threw, done>>

Call(s) ==
    /\ calls < MaxCalls
    /\ ~Held(s)
    /\ calls' = calls + 1
    /\ queue' = Append(queue, Copy(<<calls + 1>>, s, FALSE))
    /\ Owe(<<calls + 1>>, s)
    /\ UNCHANGED <<slots, made, expired, frames, undo, undoing, threw, done>>

Take ==
    /\ ~Inside
    /\ queue # <<>>
    /\ frames' = <<Head(queue)>>
    /\ queue' = Tail(queue)
    /\ UNCHANGED <<slots, made, expired, calls, undo, undoing, owed, threw, done>>

SlotReturns ==
    /\ Inside /\ Top.left # <<>>
    /\ Emits[Next1] = NoSig /\ ~Throws(Next1)
    /\ frames' = ReplaceTop(Drop(Top))
    /\ RunsHead
    /\ UNCHANGED <<slots, made, expired, calls, queue, undo, undoing, threw, done>>

\* A faulty SlotThrows: the exception leaves the loop over the slots.
SlotThrows_leaves_loop ==
    /\ Inside /\ Top.left # <<>>
    /\ Throws(Next1)
    /\ frames' = ReplaceTop([Top EXCEPT !.left = <<>>, !.pending = @ + 1])
    /\ undo' = Append(undo, [frame |-> Top.id, conn |-> Next1])
    /\ threw' = threw \cup {<<Top.id, Next1>>}
    /\ RunsHead
    /\ UNCHANGED <<slots, made, expired, calls, queue, undoing, done>>

SlotThrows ==
    /\ Inside /\ Top.left # <<>>
    /\ Throws(Next1)
    /\ frames' = ReplaceTop([Drop(Top) EXCEPT !.pending = @ + 1])
    /\ undo' = Append(undo, [frame |-> Top.id, conn |-> Next1])
    /\ threw' = threw \cup {<<Top.id, Next1>>}
    /\ RunsHead
    /\ UNCHANGED <<slots, made, expired, calls, queue, undoing, done>>

SlotEmits ==
    /\ Inside /\ Top.left # <<>>
    /\ Emits[Next1] # NoSig /\ ~Throws(Next1)
    /\ ~Held(Emits[Next1])
    /\ LET s == Emits[Next1]
           id == Append(Top.id, Next1)
       IN  /\ frames' = Append(ReplaceTop(Drop(Top)), Copy(id, s, TRUE))
           /\ owed' = (owed \ {<<Top.id, Next1>>})
                        \cup {<<id, slots[s][i]>> : i \in DOMAIN slots[s]}
    /\ UNCHANGED <<slots, made, expired, calls, queue, undo, undoing, threw, done>>

\* A faulty Finish: the call does not wait for the counter.
Finish_at_once ==
    /\ Inside /\ Top.left = <<>>
    /\ frames' = SubSeq(frames, 1, Len(frames) - 1)
    /\ done' = done \cup {Top.id}
    /\ UNCHANGED <<slots, made, expired, calls, queue, undo, undoing, owed, threw>>

Finish ==
    /\ Inside /\ Top.left = <<>>
    /\ Top.pending = 0
    /\ frames' = SubSeq(frames, 1, Len(frames) - 1)
    /\ done' = done \cup {Top.id}
    /\ UNCHANGED <<slots, made, expired, calls, queue, undo, undoing, owed, threw>>

\* A faulty CountDown: the signal is locked before the failure is counted.
CountDown_locks_first ==
    /\ undoing = NoConn
    /\ undo # <<>>
    /\ ~Held(SigOf[Head(undo).conn])
    /\ frames' = Counted(Head(undo).frame)
    /\ undoing' = Head(undo).conn
    /\ undo' = Tail(undo)
    /\ UNCHANGED <<slots, made, expired, calls, queue, owed, threw, done>>

\* The disconnect thread counts the failure down first: were it to lock the
\* signal first, a nested call, which holds the lock, would wait for ever.
CountDown ==
    /\ undoing = NoConn
    /\ undo # <<>>
    /\ frames' = Counted(Head(undo).frame)
    /\ undoing' = Head(undo).conn
    /\ undo' = Tail(undo)
    /\ UNCHANGED <<slots, made, expired, calls, queue, owed, threw, done>>

DisconnectFailed ==
    /\ undoing # NoConn
    /\ ~Held(SigOf[undoing])
    /\ slots' = [slots EXCEPT ![SigOf[undoing]] = Without(@, undoing)]
    /\ undoing' = NoConn
    /\ UNCHANGED <<made, expired, calls, queue, frames, undo, owed, threw, done>>

SignalThread == Take \/ SlotReturns \/ SlotThrows \/ SlotEmits \/ Finish
DisconnectThread == CountDown \/ DisconnectFailed

Next ==
    \/ \E c \in Conns : Connect(c) \/ Disconnect(c) \/ Expire(c)
    \/ \E s \in Sigs : Call(s)
    \/ SignalThread
    \/ DisconnectThread

\* The two pools have one thread each, which runs while there is work.
Spec == Init /\ [][Next]_vars /\ WF_vars(SignalThread) /\ WF_vars(DisconnectThread)
-----------------------------------------------------------------------------
\* disconnect_counter lives in the frame of the call (signal_core.hpp:76): a
\* failure that is still to be counted down has its call on the signal thread.
CountersAreLive ==
    \A u \in DOMAIN undo : \E i \in DOMAIN frames :
        frames[i].id = undo[u].frame /\ frames[i].pending > 0

\* A slot that throws takes no other slot's call away: when a call is over,
\* every slot that was connected when it was made has run.
EveryCopyRuns == \A o \in owed : o[1] \notin done

\* Nothing is left to do on either thread.
Idle == queue = <<>> /\ frames = <<>> /\ undo = <<>> /\ undoing = NoConn

\* The disconnect thread waits for the mutex a nested call holds, and the
\* count that call waits for is behind it in the disconnect thread's queue.
Embraced ==
    /\ undoing # NoConn /\ Held(SigOf[undoing])
    /\ Inside /\ Top.nested /\ Top.left = <<>> /\ Top.pending > 0
    /\ \E u \in DOMAIN undo : undo[u].frame = Top.id

\* A slot that threw in any call is connected no more.
FailedSlotsLeft ==
    \A o \in threw : \A i \in DOMAIN slots[SigOf[o[2]]] : slots[SigOf[o[2]]][i] # o[2]

\* Calls end whatever their slots throw and call in turn, and leave no slot that
\* threw connected (signal_test.cpp:180), but for one embrace: a nested call
\* fails again before the disconnect thread has done with a former failure.
CallsEndOrEmbrace == <>[](Embraced \/ (Idle /\ FailedSlotsLeft))
=============================================================================
