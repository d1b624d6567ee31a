----------------------------- MODULE Categories -----------------------------
(***************************************************************************)
(* A playlist's model (gui/playlistmodel.cpp) and the proxy that groups    *)
(* its rows by category (gui/categoryproxymodel.cpp).  The proxy is told   *)
(* of every insertion, removal and move, before and after, and of changed  *)
(* data, and mends its blocks locally: block_index gives each row its      *)
(* block, a block its first row, as a persistent index that Qt moves, and  *)
(* a count.  The delegates of the rows hold their block, too, and take     *)
(* another when blocksNeedUpdating covers their row.  The proxy belongs to *)
(* the playlist's view, which comes and goes, and does nothing before the  *)
(* view has given it a category.  A build without NDEBUG checks the blocks *)
(* after most handlers, and before rows go, when the counts are lowered    *)
(* and the rows still there.                                               *)
(* Rows are counted from 1 here; a row is its category.                    *)
(***************************************************************************)
EXTENDS Integers, SequencesExt

CONSTANTS
    Cats,       \* categories
    Blank,      \* the empty category: no path of directories and no tags
    MaxRows,    \* bound on the rows
    MaxInsert   \* bound on the tracks inserted at once

ASSUME CategoriesAssumption == {MaxRows, MaxInsert} \subseteq Nat \ {0}

VARIABLES
    cats,       \* the playlist: the categories of its tracks
    grouped,    \* there is a view whose proxy has its category
    shown,      \* what the view shows that follows the announcements
    owner,      \* block_index: the block of each row
    first, count, \* of each block
    seen,       \* the block each row's delegate holds
    bad,        \* what an assert forbids came to be; the program is followed no further
    asserts,    \* the build has its asserts; it is one build or the other for good
    odd         \* history: what the view went through that the claims are not made of

proxyVars == <<shown, owner, first, count, seen, bad>>
vars == <<cats, grouped, asserts, odd, proxyVars>>
-----------------------------------------------------------------------------
Null == 0
Blocks == 1..(2 * MaxRows + 1)
Rows == DOMAIN cats
Size(m) == Len(m.owner)

\* The proxy's state as its handlers pass it on; cats are those of the moment.
Proxy(cs) ==
    [cats |-> cs, owner |-> owner, first |-> first, count |-> count, seen |-> seen, bad |-> bad]

Range2(a, b) == [k \in 1..(b - a + 1) |-> a + k - 1]
Nulls(n) == [k \in 1..n |-> Null]
Splice(s, row, t) == SubSeq(s, 1, row - 1) \o t \o SubSeq(s, row, Len(s))
Cut(s, a, b) == SubSeq(s, 1, a - 1) \o SubSeq(s, b + 1, Len(s))
Fails(m, cond) == [m EXCEPT !.bad = @ \/ cond]

\* checkForConsistency: of the last block's end nothing is asked.
Passes(m) ==
    /\ Size(m) = Len(m.cats)
    /\ \A i \in 1..Size(m) : m.owner[i] # Null
    /\ \A i \in 2..Size(m) :
          LET b == m.owner[i - 1]
          IN  IF m.cats[i] = m.cats[i - 1] THEN m.owner[i] = b
              ELSE m.owner[i] # b /\ m.first[b] + m.count[b] = i
Checked(m) == Fails(m, asserts /\ ~Passes(m))

\* Block::setCount asserts count >= 0.
SetCount(m, b, n) == Fails([m EXCEPT !.count[b] = n], n < 0)

\* Block::setFirstIndex ignores an index that is not valid.
SetFirst(m, b, i) == IF i \in 1..Len(m.cats) THEN [m EXCEPT !.first[b] = i] ELSE m

\* A new block for row i.
NewBlock(m, i) ==
    LET held == ToSet(m.owner) \cup ToSet(m.seen)
        b == CHOOSE x \in Blocks \ held : \A y \in Blocks \ held : x <= y
    IN  [m EXCEPT !.owner[i] = b, !.first[b] = i, !.count[b] = 1]

\* Row i leaves its block, which then begins a row later if i was its first.
Leave(m, i) ==
    LET b == m.owner[i]
        n == SetCount(m, b, m.count[b] - 1)
    IN  IF n.first[b] = i /\ n.count[b] > 0 THEN SetFirst(n, b, i + 1) ELSE n

Join(m, i, b) ==
    [SetCount(Fails(m, m.first[b] + m.count[b] > i), b, m.count[b] + 1) EXCEPT !.owner[i] = b]

\* Row i is the first of its block, which reaches as far as its rows do.
Claim(m, i) ==
    LET b == m.owner[i]
        last == CHOOSE j \in i..Size(m) :
                   /\ \A k \in i..j : m.owner[k] = b
                   /\ j = Size(m) \/ m.owner[j + 1] # b
    IN  SetCount(SetFirst(m, b, i), b, last - i + 1)

UpdateBlock(m, i) ==
    LET b == m.owner[i]
        p == IF i > 1 THEN m.owner[i - 1] ELSE Null
        out == IF b = Null THEN m ELSE Leave(m, i)
    IN  IF m.cats[i] = Blank THEN [m EXCEPT !.owner[i] = Null]
        ELSE IF i = 1 \/ m.cats[i - 1] # m.cats[i]
        THEN IF b = Null THEN NewBlock(m, i) ELSE Claim(m, i)
        ELSE IF p = Null THEN NewBlock(out, i)
        ELSE IF p = b THEN m ELSE Join(out, i, p)

UpdateBlocks(m, a, b) == FoldLeft(UpdateBlock, m, Range2(a, b))

\* Merging forward, row j goes over to block b.
MergeRow(m, j, b) ==
    LET n == SetCount(m, b, m.count[b] + 1)
    IN  [(IF n.owner[j] = Null THEN n ELSE Leave(n, j)) EXCEPT !.owner[j] = b]

\* The first row after e that is not merged into e's block.
MergeStop(m, e) ==
    CHOOSE j \in (e + 1)..(Size(m) + 1) :
        /\ j = Size(m) + 1 \/ m.cats[j] # m.cats[e] \/ m.owner[j] = m.owner[e]
        /\ \A k \in (e + 1)..(j - 1) : m.cats[k] = m.cats[e] /\ m.owner[k] # m.owner[e]

\* The view lays out rows a to b after the handlers: their delegates take the
\* rows' blocks, and assert that there are such.
NewDelegates(m, a, b) ==
    [Fails(m, \E i \in a..b : m.owner[i] = Null)
        EXCEPT !.seen = [i \in DOMAIN @ |-> IF i \in a..b THEN m.owner[i] ELSE @[i]]]

\* blocksNeedUpdating(a, b): the delegates of these rows look again.
Notify(m, a, b) == [m EXCEPT !.seen = [i \in DOMAIN @ |-> IF i \in a..b THEN m.owner[i] ELSE @[i]]]

\* A faulty OnDataChanged: rows after the last one changed are not merged.
OnDataChanged_no_merge(m, a, b) ==
    IF a \notin 1..Size(m) \/ b \notin 1..Size(m) THEN m
    ELSE Notify(UpdateBlocks(m, a, b), a, b + 1)

\* A faulty OnDataChanged: delegates are told of the rows that changed only.
OnDataChanged_narrow(m, a, b) ==
    IF a \notin 1..Size(m) \/ b \notin 1..Size(m) THEN m
    ELSE LET u == UpdateBlocks(m, a, b)
             stop == MergeStop(u, b)
             merge(n, j) == MergeRow(n, j, u.owner[b])
         IN  Notify(FoldLeft(merge, Fails(u, u.owner[b] = Null), Range2(b + 1, stop - 1)), a, b)

OnDataChanged(m, a, b) ==
    IF a \notin 1..Size(m) \/ b \notin 1..Size(m) THEN m
    ELSE LET u == UpdateBlocks(m, a, b)
             stop == MergeStop(u, b)
             merge(n, j) == MergeRow(n, j, u.owner[b])
         IN  Notify(FoldLeft(merge, Fails(u, u.owner[b] = Null), Range2(b + 1, stop - 1)), a, stop)

\* The block that reaches over the gap is cut, and its rest made anew.
OnRowsInserted(m, a, b) ==
    LET p == IF a > 1 THEN m.owner[a - 1] ELSE Null
        stop == IF p = Null THEN a ELSE m.first[p] + m.count[p]
        trail == IF stop >= a THEN stop - a ELSE 0
        freed == [m EXCEPT !.owner = [i \in DOMAIN @ |-> IF i \in a..(stop - 1) THEN Null ELSE @[i]]]
        cut == IF p # Null /\ stop >= a THEN SetCount(freed, p, a - m.first[p]) ELSE freed
        ins == [Fails(cut, stop - 1 > Size(m) \/ stop < a \/ (a > 1 /\ p = Null))
                   EXCEPT !.owner = Splice(@, a, Nulls(b - a + 1))]
        end == IF b + trail > Size(ins) THEN Size(ins) ELSE b + trail
        up == UpdateBlocks(ins, b + 1, end)
    IN  Fails(up, b < Size(up) /\ up.owner[b + 1] # Null /\ up.first[up.owner[b + 1]] # b + 1)

\* Each row leaves its block before it goes.
OnRowsAboutToBeRemoved(m, a, b) ==
    LET leave(n, i) ==
            LET x == n.owner[i]
                o == SetCount(n, x, n.count[x] - 1)
            IN  IF o.first[x] = i THEN SetFirst(o, x, i + 1) ELSE o
    IN  FoldLeft(leave, m, Range2(a, b))

\* The rows around the gap count as changed.
OnRowsRemoved(m, a, b) ==
    IF m.cats = <<>> THEN [m EXCEPT !.owner = <<>>]
    ELSE LET cut == [m EXCEPT !.owner = Cut(@, a, b)]
         IN  Checked(OnDataChanged(cut, a - 1, IF a > Size(cut) THEN Size(cut) ELSE a))

\* A faulty OnRowsMoved: what the gap leaves together is not mended.
OnRowsMoved_no_mend(m, a, b, d) ==
    LET cut == [m EXCEPT !.owner = Cut(@, a, b)]
        to == IF d < a THEN d ELSE d - (b - a + 1)
        in == OnRowsInserted(cut, to, to + b - a)
    IN  Checked(OnDataChanged(in, to, to + b - a))

\* Around the gap, and then where the rows went, data counts as changed.
OnRowsMoved(m, a, b, d) ==
    LET cut == [m EXCEPT !.owner = Cut(@, a, b)]
        to == IF d < a THEN d ELSE d - (b - a + 1)
        end == IF a + 1 > Size(cut) THEN Size(cut) ELSE a + 1
        in == OnRowsInserted(cut, to, to + b - a)
    IN  Checked(OnDataChanged(OnDataChanged(in, a - 1, end), to, to + b - a))
-----------------------------------------------------------------------------
\* Qt moves the persistent indices of the proxy before it signals.
Persist(m, at) == [m EXCEPT !.first = [b \in Blocks |-> at[m.first[b]]]]
Inserted(i, a, n) == IF i >= a THEN i + n ELSE i
Removed(i, a, b) == IF i > b THEN i - (b - a + 1) ELSE IF i >= a THEN 0 ELSE i
Moved(i, a, b, d) ==
    IF i \in a..b THEN (IF d > b THEN i + (d - b - 1) ELSE i - (a - d))
    ELSE IF d > b /\ i \in (b + 1)..(d - 1) THEN i - (b - a + 1)
    ELSE IF d < a /\ i \in d..(a - 1) THEN i + (b - a + 1)
    ELSE i

\* A sequence as a view has it after an announced move.
Reorder(s, a, b, d) == [j \in DOMAIN s |-> s[CHOOSE i \in DOMAIN s : Moved(i, a, b, d) = j]]

\* Rows at r would come between a row and two more of its category.
Tears(s, r) == r \in 2..(Len(s) - 1) /\ s[r - 1] = s[r] /\ s[r] = s[r + 1]

\* Row r is not the first of a stretch that another category follows: counted out
\* of its block before it goes, it leaves that block too short for the rows there.
CutsShort(r) == r > 1 /\ cats[r - 1] = cats[r] /\ \E j \in r..Len(cats) : cats[j] # cats[r]

If(cond, what) == {k \in {what} : cond}

\* The handlers are done; a block nobody holds is gone.
Becomes(m) ==
    LET held == ToSet(m.owner) \cup ToSet(m.seen)
    IN  /\ owner' = m.owner /\ seen' = m.seen /\ bad' = m.bad
        /\ first' = [b \in Blocks |-> IF b \in held THEN m.first[b] ELSE 0]
        /\ count' = [b \in Blocks |-> IF b \in held THEN m.count[b] ELSE 0]
\* What an operation comes to in the view, if there is one.
Follow(rows, m) == IF grouped THEN shown' = rows /\ Becomes(m) ELSE UNCHANGED proxyVars
-----------------------------------------------------------------------------
Init ==
    /\ cats = <<>> /\ grouped = FALSE /\ shown = <<>> /\ owner = <<>> /\ seen = <<>>
    /\ first = [b \in Blocks |-> 0] /\ count = [b \in Blocks |-> 0]
    /\ bad = FALSE /\ asserts \in BOOLEAN /\ odd = {}

\* setCategory makes the criteria look into the proxy and counts every row as
\* changed; block_index has no element for a row that came before.
SetCategory ==
    /\ ~grouped /\ grouped' = TRUE
    /\ shown' = cats
    /\ bad' = (cats # <<>>)
    /\ odd' = odd \cup If(cats # <<>>, "late")
    /\ UNCHANGED <<cats, asserts, owner, first, count, seen>>

\* The delegates and the proxy go with their view.
DropView ==
    /\ grouped /\ ~bad /\ grouped' = FALSE
    /\ shown' = <<>> /\ odd' = odd \ {"torn"}
    /\ Becomes([Proxy(cats) EXCEPT !.owner = <<>>, !.seen = <<>>])
    /\ UNCHANGED <<cats, asserts>>

\* insertTracks: a row out of range means the end, and data counts as changed.
InsertTracks(row, new) ==
    /\ ~bad /\ Len(cats) + Len(new) <= MaxRows
    /\ LET r == IF row \in 1..Len(cats) THEN row ELSE Len(cats) + 1
           e == r + Len(new) - 1
           ins == [i \in 0..MaxRows |-> Inserted(i, r, Len(new))]
           told == OnRowsInserted(Persist(Proxy(Splice(cats, r, new)), ins), r, e)
           here == [told EXCEPT !.seen = Splice(@, r, Nulls(Len(new)))]
       IN  /\ cats' = Splice(cats, r, new)
           /\ Follow(Splice(shown, r, new), NewDelegates(Checked(OnDataChanged(here, r, e)), r, e))
           /\ odd' = odd \cup If(grouped /\ Tears(cats, r), "torn")
                         \cup If(grouped /\ Blank \in ToSet(new), "blank")
    /\ UNCHANGED <<grouped, asserts>>

RemoveRows(row, n) ==
    /\ ~bad
    /\ LET e == row + n - 1
           rem == [i \in 0..MaxRows |-> Removed(i, row, e)]
           told == Persist(Checked(OnRowsAboutToBeRemoved(Proxy(cats), row, e)), rem)
           here == [told EXCEPT !.cats = Cut(@, row, e), !.seen = Cut(@, row, e)]
       IN  /\ cats' = Cut(cats, row, e)
           /\ Follow(Cut(shown, row, e), Checked(OnRowsRemoved(here, row, e)))
    /\ odd' = odd \cup If(grouped /\ asserts /\ CutsShort(row), "short")
    /\ UNCHANGED <<grouped, asserts>>

\* moveRows to before row d; beginMoveRows refuses a place the rows are at.
MoveRows(row, n, d) ==
    /\ ~bad /\ d \notin row..(row + n)
    /\ LET e == row + n - 1
           rest == Cut(cats, row, e)
           new == Splice(rest, IF d < row THEN d ELSE d - n, SubSeq(cats, row, e))
           mov == [i \in 0..MaxRows |-> Moved(i, row, e, d)]
           told == Persist(Checked(OnRowsAboutToBeRemoved(Proxy(cats), row, e)), mov)
           here == [told EXCEPT !.cats = new, !.seen = Reorder(@, row, e, d)]
       IN  /\ cats' = new
           /\ Follow(Reorder(shown, row, e, d), OnRowsMoved(here, row, e, d))
           /\ odd' = odd \cup If(grouped /\ d < row /\ n > 1 /\ e < Len(cats), "skewed")
                         \cup If(grouped /\ Tears(rest, IF d < row THEN d ELSE d - n), "torn")
                         \cup If(grouped /\ asserts /\ CutsShort(row), "short")
    /\ UNCHANGED <<grouped, asserts>>

\* refreshTags says that data changed though it did not.
RefreshTags(a, b) ==
    /\ ~bad
    /\ Follow(shown, Checked(OnDataChanged(Proxy(cats), a, b)))
    /\ UNCHANGED <<cats, grouped, asserts, odd>>

Next ==
    \/ SetCategory \/ DropView
    \/ \E row \in 0..(Len(cats) + 2), n \in 1..MaxInsert :
          \E new \in [1..n -> Cats \cup {Blank}] : InsertTracks(row, new)
    \/ \E row \in Rows : \E n \in 1..(Len(cats) - row + 1) : RemoveRows(row, n)
    \/ \E row \in Rows : \E n \in 1..(Len(cats) - row + 1), d \in 1..(Len(cats) + 1) :
          MoveRows(row, n, d)
    \/ \E a \in Rows : \E b \in a..Len(cats) : RefreshTags(a, b)

Spec == Init /\ [][Next]_vars
-----------------------------------------------------------------------------
Types ==
    /\ cats \in Seq(Cats \cup {Blank}) /\ Len(cats) <= MaxRows
    /\ owner \in Seq(Blocks \cup {Null}) /\ seen \in Seq(Blocks \cup {Null})
    /\ grouped /\ "late" \notin odd => Len(owner) = Len(cats) /\ Len(seen) = Len(cats)
    /\ first \in [Blocks -> 0..MaxRows] /\ count \in [Blocks -> Int]

\* The first row of the longest stretch of one category that row i is in.
StartsRun(i) == i = 1 \/ cats[i - 1] # cats[i]
RunStart(i) ==
    CHOOSE j \in 1..i : StartsRun(j) /\ \A k \in (j + 1)..i : ~StartsRun(k)
RunLength(j) == Cardinality({i \in Rows : RunStart(i) = j})

\* Rows share a block just when they are in one stretch of one category, and
\* the block says where that begins and how long it is.
Consistent ==
    /\ \A i, j \in Rows : owner[i] = owner[j] <=> RunStart(i) = RunStart(j)
    /\ \A i \in Rows :
          /\ owner[i] # Null
          /\ first[owner[i]] = RunStart(i)
          /\ count[owner[i]] = RunLength(RunStart(i))

\* What the proxy does not mend: a category set when there were rows, two or more
\* rows moved up from the middle, a row of no category.
Unmended == odd \cap {"late", "skewed", "blank"} # {}

\* The view shows what the playlist holds, and what checkForConsistency asserts
\* (categoryproxymodel.cpp:155-188) holds between operations, unless there is
\* something the proxy does not mend.  No assert of the proxy (165-183, 194-195,
\* 217, 276-294, 378, 506, 543) fails meanwhile, but for that and for the check
\* made before rows go (123, 141), which fails just when they are cut out of a
\* stretch they do not begin and that is not the last.
BlocksAreRuns ==
    /\ Types
    /\ grouped => shown = cats
    /\ grouped /\ ~bad /\ ~Unmended => Consistent
    /\ bad => Unmended \/ "short" \in odd
    /\ "short" \in odd => bad

\* A category is drawn over each row that begins a stretch and over no other: the
\* delegates have heard of every change of block they need (categoryproxymodel.cpp:403,
\* 447-451), unless rows were put between a row and two more of its category.
HeadersDrawn ==
    grouped /\ odd = {} =>
        \A i \in Rows : (seen[i] # Null /\ first[seen[i]] = i) <=> StartsRun(i)
=============================================================================
