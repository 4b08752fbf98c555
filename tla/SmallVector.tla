---------------------------- MODULE SmallVector -----------------------------
(***************************************************************************)
(* The vectors of SmallVector.h over explicit memory: a cell is raw, holds *)
(* a value, or holds what a move left behind.  A vector begins in its own  *)
(* inline buffer or in a block of the heap.  Every public operation is one *)
(* action, made of the copies, moves, constructions and destructions the   *)
(* code makes, in their order; a construction on a live cell, or a use of  *)
(* a raw one, leaves the cell Bad.                                         *)
(*                                                                         *)
(* kind is the element type: an object with constructors (the Constructable*)
(* of the unit tests), a trivial word that is passed by value, or a larger *)
(* trivial record that is passed by reference.  A trivial cell above the   *)
(* size has no value the program may use and counts as raw.                *)
(*                                                                         *)
(* sequence is a history variable: what the same calls do to sequences.  A *)
(* call that throws changes none, but for the forms of assign that drop    *)
(* the old elements before they grow: these leave the vector empty.        *)
(* The arguments "from" are pointers: a value outside the vectors, or      *)
(* <<buffer, offset>> of an element.                                       *)
(***************************************************************************)
EXTENDS Integers, Sequences

CONSTANTS Vectors,
          Values,        \* values of elements
          Default,       \* T()
          Inline,        \* N of SmallVector<T, N>
          SizeTypeMax,   \* largest value of the size type
          Blocks,        \* addresses of the heap
          Raw, Moved,    \* cells without an element; with what a move left
          Bad,           \* the cell of an element that was misused
          OwnRanges,     \* TRUE: insert is called with ranges of the vector itself
          EmptyRanges    \* TRUE: insert and erase are called for no elements

ASSUME SizesAssumption ==
    /\ Default \in Values
    /\ SizeTypeMax \in Nat
    /\ Inline \in 1..SizeTypeMax

VARIABLES kind,       \* "object", "word" or "record"
          mem,        \* buffer -> offset -> cell; no offsets: not allocated
          vec,        \* vector -> [begin, size, capacity]
          sequence    \* vector -> the sequence its calls make

vars == <<kind, mem, vec, sequence>>

InlineBuffer(x) == <<x, 0>>
Buffers == {InlineBuffer(x) : x \in Vectors} \cup Blocks
Memory == [mem |-> mem, vec |-> vec]

(***************************************************************************)
(* Memory.  s is a record [mem, vec].                                      *)
(***************************************************************************)
Alive(c) == c # Raw /\ c # Bad
IsValue(p) == p \in Values \cup {Raw, Moved, Bad}

\* The marks differ from each other and from the values, and no pointer is a value.
ASSUME CellsAssumption ==
    /\ {Raw, Moved, Bad} \cap Values = {}
    /\ Raw # Moved /\ Raw # Bad /\ Moved # Bad
    /\ \A b \in Buffers, i \in 0..SizeTypeMax : ~IsValue(<<b, i>>)

\* malloc finds room: whatever blocks the vectors own, one more is free.
ASSUME HeapAssumption ==
    /\ \A x \in Vectors : InlineBuffer(x) \notin Blocks
    /\ Blocks # {}
    /\ \A owned \in [Vectors -> Blocks] : \E b \in Blocks : \A x \in Vectors : owned[x] # b

Elem(m, p) ==
    IF IsValue(p) THEN p
    ELSE IF p[2] \in DOMAIN m[p[1]] THEN m[p[1]][p[2]] ELSE Bad

Construct == "construct"
Assign == "assign"
Discard == "discard"

\* A cell after v was constructed in it or assigned to it, or after its
\* element was destroyed; raw is then the value.
Put(how, old, v) ==
    LET ready == CASE how = Construct -> (old = Raw \/ kind # "object") /\ Alive(v)
                   [] how = Assign -> (Alive(old) \/ kind # "object") /\ Alive(v)
                   [] how = Discard -> Alive(old)
    IN  IF ready THEN v ELSE Bad

\* Puts the n values val[0], val[1], ... from p on.
Write(m, p, n, val, how) ==
    LET old == m[p[1]]
        cell(k) == CASE n > 0 /\ p[2] + n - 1 \notin DOMAIN old -> Bad
                     [] k \in p[2]..(p[2] + n - 1) -> Put(how, old[k], val[k - p[2]])
                     [] OTHER -> old[k]
    IN  [m EXCEPT ![p[1]] = [k \in DOMAIN old |-> cell(k)]]

\* Leaves the n cells from p on as a move leaves them.
Leave(m, p, n) ==
    IF IsValue(p) \/ kind # "object" THEN m
    ELSE Write(m, p, n, [k \in 0..(n - 1) |-> Moved], Assign)

Destroy(m, p, n) == Write(m, p, n, [k \in 0..(n - 1) |-> Raw], Discard)

\* std::copy, move, move_backward and their uninitialized forms.  Moving an
\* object onto itself leaves it moved-from, as it does the tests' Constructable.
Transfer(m, p, n, to, rvalue, how) ==
    LET from == [k \in 0..(n - 1) |-> Elem(m, IF IsValue(p) THEN p ELSE <<p[1], p[2] + k>>)]
    IN  IF rvalue
        THEN IF p = to THEN Leave(m, p, n) ELSE Write(Leave(m, p, n), to, n, from, how)
        ELSE Write(m, to, n, from, how)

\* std::fill_n and uninitialized_fill_n.
Fill(m, to, n, p, how) == Write(m, to, n, [k \in 0..(n - 1) |-> Elem(m, p)], how)

(***************************************************************************)
(* One vector x in s.                                                      *)
(***************************************************************************)
Size(s, x) == s.vec[x].size
Capacity(s, x) == s.vec[x].capacity
At(s, x, i) == <<s.vec[x].begin, i>>
EndOf(s, x) == At(s, x, Size(s, x))
IsSmall(s, x) == s.vec[x].begin = InlineBuffer(x)

SetMem(s, m) == [s EXCEPT !.mem = m]
SetSize(s, x, n) == [s EXCEPT !.vec[x].size = n]

DestroyFrom(s, x, i) == SetSize(SetMem(s, Destroy(s.mem, At(s, x, i), Size(s, x) - i)), x, i)

NewCapacity(s, x, min) ==
    LET doubled == 2 * Capacity(s, x) + 1
        wanted == IF doubled > min THEN doubled ELSE min
    IN  IF wanted > SizeTypeMax THEN SizeTypeMax ELSE wanted

\* getNewCapacity throws length_error when x is to hold min elements.
Throws(s, x, min) ==
    min > Capacity(s, x) /\ (min > SizeTypeMax \/ Capacity(s, x) = SizeTypeMax)

Malloc(s, n) ==
    LET b == CHOOSE c \in Blocks : s.mem[c] = <<>>
    IN  [block |-> <<b, 0>>, mem |-> [s.mem EXCEPT ![b] = [k \in 0..(n - 1) |-> Raw]]]

\* Freeing a block with live elements loses them: it stays, and nobody owns it.
Free(m, b) ==
    IF kind = "object" /\ \E k \in DOMAIN m[b] : m[b][k] # Raw THEN m ELSE [m EXCEPT ![b] = <<>>]

FreeStorage(s, x) == IF IsSmall(s, x) THEN s ELSE SetMem(s, Free(s.mem, s.vec[x].begin))

\* Mutant: the old block is not freed.
TakeAllocation_Leaks(s, x, p, cap) ==
    [s EXCEPT !.vec[x] = [begin |-> p[1], size |-> @.size, capacity |-> cap]]

TakeAllocation(s, x, p, cap) ==
    [FreeStorage(s, x) EXCEPT !.vec[x] = [begin |-> p[1], size |-> @.size, capacity |-> cap]]

\* moveElementsForGrow: the old cells are moved from, then destroyed.
MoveElementsForGrow(s, x, to) ==
    LET m == Transfer(s.mem, At(s, x, 0), Size(s, x), to, TRUE, Construct)
    IN  SetMem(s, Destroy(m, At(s, x, 0), Size(s, x)))

Grow(s, x, min) ==
    LET cap == NewCapacity(s, x, min)
        new == Malloc(s, cap)
    IN  TakeAllocation(MoveElementsForGrow(SetMem(s, new.mem), x, new.block), x, new.block, cap)

Reserve(s, x, n) == IF Capacity(s, x) < n THEN Grow(s, x, n) ELSE s

IsOwn(s, x, p) == ~IsValue(p) /\ p[1] = s.vec[x].begin

\* takes_param_by_value: the argument is a copy before anything happens.
Param(p) == IF kind = "word" THEN Elem(mem, p) ELSE p

\* Mutant: the reference is not carried over to the new storage.
ReserveForParam_Stale(s, x, p, n) == [s |-> Reserve(s, x, Size(s, x) + n), p |-> p]

ReserveForParam(s, x, p, n) ==
    LET s1 == Reserve(s, x, Size(s, x) + n)
    IN  [s |-> s1, p |-> IF IsOwn(s, x, p) THEN At(s1, x, p[2]) ELSE p]

(***************************************************************************)
(* The effect of a call.                                                   *)
(***************************************************************************)
Return(s, q) ==
    /\ mem' = s.mem
    /\ vec' = s.vec
    /\ sequence' = q
    /\ UNCHANGED kind

Contents(x) == [i \in 1..vec[x].size |-> Elem(mem, <<vec[x].begin, i - 1>>)]

\* The argument as the caller sees it; the sequences after it was moved from.
Given(x, p) == IF IsValue(p) THEN p ELSE sequence[x][p[2] + 1]
GivenAway(x, p, rvalue) ==
    IF ~IsValue(p) /\ rvalue /\ kind = "object"
    THEN [sequence[x] EXCEPT ![p[2] + 1] = Moved]
    ELSE sequence[x]

Repeat(n, v) == [k \in 1..n |-> v]
Insertion(q, i, r) == SubSeq(q, 1, i) \o r \o SubSeq(q, i + 1, Len(q))
Deletion(q, i, j) == SubSeq(q, 1, i) \o SubSeq(q, j + 1, Len(q))
With(x, q) == [sequence EXCEPT ![x] = q]

\* The call grows first, and throws before it changes anything, or ends in s.
ThrowOr(x, n, s, q) ==
    IF Throws(Memory, x, n) THEN UNCHANGED vars ELSE Return(s, q)

\* The call drops the elements of x first, and then throws or ends in s.
ThrowEmptyOr(x, n, s, q) ==
    IF Throws(Memory, x, n) THEN Return(DestroyFrom(Memory, x, 0), With(x, <<>>)) ELSE Return(s, q)

Last(x) == vec[x].size
Arguments(x) == Values \cup {At(Memory, x, i) : i \in 0..(Last(x) - 1)}

Init ==
    /\ kind \in {"object", "word", "record"}
    /\ vec = [x \in Vectors |-> [begin |-> InlineBuffer(x), size |-> 0, capacity |-> Inline]]
    /\ mem = [b \in Buffers |->
                IF b \in Blocks THEN <<>> ELSE [k \in 0..(Inline - 1) |-> Raw]]
    /\ sequence = [x \in Vectors |-> <<>>]

(***************************************************************************)
(* Adding at the end.                                                      *)
(***************************************************************************)
\* Constructs n elements at the end: copies of *p, or moved from it.
AddAtEnd(s, x, n, p, rvalue) ==
    LET m == IF rvalue THEN Transfer(s.mem, p, 1, EndOf(s, x), TRUE, Construct)
                       ELSE Fill(s.mem, EndOf(s, x), n, p, Construct)
    IN  SetSize(SetMem(s, m), x, Size(s, x) + n)

AppendCopies(s, x, n, p, rvalue) ==
    LET r == ReserveForParam(s, x, p, n) IN AddAtEnd(r.s, x, n, r.p, rvalue)

PushBack(x, p, rvalue) ==
    ThrowOr(x, Last(x) + 1,
            AppendCopies(Memory, x, 1, Param(p), rvalue),
            With(x, Append(GivenAway(x, p, rvalue), Given(x, p))))

\* The new element is built before the others move, so that the arguments may
\* refer to them.
GrowAndEmplaceBack(s, x, p) ==
    LET cap == NewCapacity(s, x, 0)
        new == Malloc(s, cap)
        built == SetMem(s, Fill(new.mem, <<new.block[1], Size(s, x)>>, 1, p, Construct))
        grown == TakeAllocation(MoveElementsForGrow(built, x, new.block), x, new.block, cap)
    IN  SetSize(grown, x, Size(s, x) + 1)

EmplaceBack(x, p) ==
    ThrowOr(x, Last(x) + 1,
            IF kind = "object" /\ Last(x) >= Capacity(Memory, x) THEN GrowAndEmplaceBack(Memory, x, p)
            ELSE AppendCopies(Memory, x, 1, p, FALSE),
            With(x, Append(sequence[x], Given(x, p))))

AppendN(x, n, p) ==
    ThrowOr(x, Last(x) + n, AppendCopies(Memory, x, n, Param(p), FALSE),
            With(x, sequence[x] \o Repeat(n, Given(x, p))))

\* append(first, last) on the range of n elements that starts at p.
AppendRange(s, x, p, n, rvalue) ==
    LET s1 == Reserve(s, x, Size(s, x) + n)
        m == Transfer(s1.mem, p, n, EndOf(s1, x), rvalue, Construct)
    IN  SetSize(SetMem(s1, m), x, Size(s1, x) + n)

\* assertSafeToAddRange, for n elements of y.
SafeToAddRange(x, y, n) == x = y => Last(x) + n <= Capacity(Memory, x) \/ n = 0

AppendVector(x, y) ==
    /\ SafeToAddRange(x, y, Last(y))
    /\ ThrowOr(x, Last(x) + Last(y), AppendRange(Memory, x, At(Memory, y, 0), Last(y), FALSE),
               With(x, sequence[x] \o sequence[y]))

(***************************************************************************)
(* Size and capacity.                                                      *)
(***************************************************************************)
ReserveCapacity(x, n) == ThrowOr(x, n, Reserve(Memory, x, n), sequence)

\* pop_back, pop_back_n, pop_back_val, truncate and clear.
Truncate(x, n) ==
    /\ n <= Last(x)
    /\ Return(DestroyFrom(Memory, x, n), With(x, SubSeq(sequence[x], 1, n)))

ResizeDefault(x, n) ==
    IF n <= Last(x) THEN Truncate(x, n)
    ELSE ThrowOr(x, n, AddAtEnd(Reserve(Memory, x, n), x, n - Last(x), Default, FALSE),
                 With(x, sequence[x] \o Repeat(n - Last(x), Default)))

Resize(x, n, p) == IF n <= Last(x) THEN Truncate(x, n) ELSE AppendN(x, n - Last(x), p)

(***************************************************************************)
(* Assigning.                                                              *)
(***************************************************************************)
\* For objects: the new elements are built before the old ones go.
GrowAndAssign(s, x, n, p) ==
    LET cap == NewCapacity(s, x, n)
        new == Malloc(s, cap)
        filled == SetMem(s, Fill(new.mem, new.block, n, p, Construct))
    IN  SetSize(TakeAllocation(DestroyFrom(filled, x, 0), x, new.block, cap), x, n)

\* For trivial types, with the element passed by value.
GrowAndAssignTrivial(s, x, n, v) == AddAtEnd(Grow(DestroyFrom(s, x, 0), x, n), x, n, v, FALSE)

\* Mutant: the elements above the new size are not destroyed.
AssignInPlace_Keeps(s, x, n, p) ==
    LET size == Size(s, x)
        both == IF n < size THEN n ELSE size
        over == SetMem(s, Fill(s.mem, At(s, x, 0), both, p, Assign))
    IN  IF n > size THEN AddAtEnd(over, x, n - size, p, FALSE) ELSE SetSize(over, x, n)

AssignInPlace(s, x, n, p) ==
    LET size == Size(s, x)
        both == IF n < size THEN n ELSE size
        over == SetMem(s, Fill(s.mem, At(s, x, 0), both, p, Assign))
    IN  IF n > size THEN AddAtEnd(over, x, n - size, p, FALSE) ELSE DestroyFrom(over, x, n)

AssignN(x, n, p) ==
    LET q == With(x, Repeat(n, Given(x, p)))
    IN  IF n <= Capacity(Memory, x) THEN Return(AssignInPlace(Memory, x, n, Param(p)), q)
        ELSE IF kind = "object" THEN ThrowOr(x, n, GrowAndAssign(Memory, x, n, p), q)
        ELSE ThrowEmptyOr(x, n, GrowAndAssignTrivial(Memory, x, n, Elem(mem, p)), q)

\* assign(first, last) on n copies of v outside the vectors, or of a list.
AssignList(x, n, v) ==
    ThrowEmptyOr(x, n,
                 AddAtEnd(Reserve(DestroyFrom(Memory, x, 0), x, n), x, n, v, FALSE),
                 With(x, Repeat(n, v)))

\* assign(first, last) on another vector; assertSafeToReferenceAfterClear
\* excludes its own.
AssignVector(x, y) ==
    /\ x # y
    /\ ThrowEmptyOr(x, Last(y),
                    AppendRange(DestroyFrom(Memory, x, 0), x, At(Memory, y, 0), Last(y), FALSE),
                    With(x, sequence[y]))

\* operator=, copying or moving the elements of y one by one.
TakeElements(s, x, y, rvalue) ==
    LET n == Size(s, y)
        full == Capacity(s, x) < n
        s1 == IF full THEN Grow(DestroyFrom(s, x, 0), x, n) ELSE s
        size == Size(s1, x)
        both == IF n < size THEN n ELSE size
        s2 == SetMem(s1, Transfer(s1.mem, At(s1, y, 0), both, At(s1, x, 0), rvalue, Assign))
        m == Transfer(s2.mem, At(s1, y, both), n - both, At(s1, x, both), rvalue, Construct)
    IN  IF n <= size THEN DestroyFrom(s2, x, n) ELSE SetSize(SetMem(s2, m), x, n)

CopyAssign(x, y) ==
    /\ x # y
    /\ Return(TakeElements(Memory, x, y, FALSE), With(x, sequence[y]))

ResetToSmall(s, x) ==
    [s EXCEPT !.vec[x] = [begin |-> InlineBuffer(x), size |-> 0, capacity |-> 0]]

\* A heap block changes hands; an inline buffer is moved from cell by cell.
MoveAssign(x, y) ==
    LET freed == FreeStorage(DestroyFrom(Memory, x, 0), x)
        taken == ResetToSmall([freed EXCEPT !.vec[x] = vec[y]], y)
    IN  /\ x # y
        /\ Return(IF IsSmall(Memory, y) THEN DestroyFrom(TakeElements(Memory, x, y, TRUE), y, 0)
                  ELSE taken,
                  [sequence EXCEPT ![x] = sequence[y], ![y] = <<>>])

(***************************************************************************)
(* Erasing and inserting.                                                  *)
(***************************************************************************)
\* erase(first, last), and erase(i) for j = i + 1.
Erase(x, i, j) ==
    LET n == Last(x)
        m == Transfer(mem, At(Memory, x, j), n - j, At(Memory, x, i), TRUE, Assign)
    IN  /\ i < j \/ EmptyRanges
        /\ Return(DestroyFrom(SetMem(Memory, m), x, n - (j - i)), With(x, Deletion(sequence[x], i, j)))

\* A pointer into the cells from i on follows them up by n.
Follow(s, x, p, i, n) == IF IsOwn(s, x, p) /\ p[2] >= i THEN At(s, x, p[2] + n) ELSE p

\* insert(i, elt); at the end it is PushBack.
InsertOne(x, i, p, rvalue) ==
    LET n == Last(x)
        r == ReserveForParam(Memory, x, Param(p), 1)
        s == r.s
        m1 == Transfer(s.mem, At(s, x, n - 1), 1, At(s, x, n), TRUE, Construct)
        m2 == Transfer(m1, At(s, x, i), n - 1 - i, At(s, x, i + 1), TRUE, Assign)
        m3 == Transfer(m2, Follow(s, x, r.p, i, 1), 1, At(s, x, i), rvalue, Assign)
    IN  /\ i < n
        /\ ThrowOr(x, n + 1, SetSize(SetMem(s, m3), x, n + 1),
                   With(x, Insertion(GivenAway(x, p, rvalue), i, <<Given(x, p)>>)))

\* Opens a gap of n cells at i, with the old elements moved up, live ones
\* where the gap lies below the old end.  s has room.
OpenGap(s, x, i, n) ==
    LET size == Size(s, x)
        tail == AppendRange(s, x, At(s, x, size - n), n, TRUE)
        m == Transfer(tail.mem, At(s, x, i), size - n - i, At(s, x, i + n), TRUE, Assign)
        up == Transfer(s.mem, At(s, x, i), size - i, At(s, x, i + n), TRUE, Construct)
    IN  IF size - i >= n THEN SetMem(tail, m) ELSE SetSize(SetMem(s, up), x, size + n)

\* The n cells of the gap get from[0], from[1], ...: assigned up to the old
\* end, constructed above.
FillGap(s, x, i, n, old_end, from) ==
    LET over == IF old_end - i < n THEN old_end - i ELSE n
        m == Write(s.mem, At(s, x, i), over, from, Assign)
    IN  SetMem(s, Write(m, At(s, x, i + over), n - over, [k \in 0..(n - over - 1) |-> from[k + over]], Construct))

InsertN(x, i, n, p) ==
    LET r == ReserveForParam(Memory, x, Param(p), n)
        s == OpenGap(r.s, x, i, n)
        v == Elem(s.mem, Follow(s, x, r.p, i, n))
    IN  /\ i < Last(x)
        /\ n > 0 \/ EmptyRanges
        /\ ThrowOr(x, Last(x) + n, FillGap(s, x, i, n, Last(x), [k \in 0..(n - 1) |-> v]),
                   With(x, Insertion(sequence[x], i, Repeat(n, Given(x, p)))))

\* insert(i, first, last) on the elements f + 1 .. t of y.
InsertRange(x, i, y, f, t) ==
    LET s == OpenGap(Reserve(Memory, x, Last(x) + t - f), x, i, t - f)
    IN  /\ i < Last(x)
        /\ f < t \/ EmptyRanges
        /\ SafeToAddRange(x, y, t - f) /\ (x = y => OwnRanges)
        /\ ThrowOr(x, Last(x) + t - f,
                   FillGap(s, x, i, t - f, Last(x), [k \in 0..(t - f - 1) |-> Elem(s.mem, At(s, y, f + k))]),
                   With(x, Insertion(sequence[x], i, SubSeq(sequence[y], f + 1, t))))

(***************************************************************************)
(* Swapping, and the end of a vector.                                      *)
(***************************************************************************)
SwapCells(s, x, y, n) ==
    SetMem(s, Write(Write(s.mem, At(s, x, 0), n, [k \in 0..(n - 1) |-> Elem(s.mem, At(s, y, k))], Assign),
                    At(s, y, 0), n, [k \in 0..(n - 1) |-> Elem(s.mem, At(s, x, k))], Assign))

\* The elements of x above n go to the end of y.
GiveRest(s, x, y, n) ==
    LET rest == Size(s, x) - n
        m == Transfer(s.mem, At(s, x, n), rest, EndOf(s, y), FALSE, Construct)
    IN  DestroyFrom(SetSize(SetMem(s, m), y, Size(s, y) + rest), x, n)

Swap(x, y) ==
    LET s == Reserve(Reserve(Memory, x, Last(y)), y, Last(x))
        n == IF Last(x) < Last(y) THEN Last(x) ELSE Last(y)
        shared == SwapCells(s, x, y, n)
    IN  /\ x # y
        /\ Return(IF ~IsSmall(Memory, x) /\ ~IsSmall(Memory, y)
                  THEN [Memory EXCEPT !.vec[x] = vec[y], !.vec[y] = vec[x]]
                  ELSE IF Last(x) > n THEN GiveRest(shared, x, y, n) ELSE GiveRest(shared, y, x, n),
                  [sequence EXCEPT ![x] = sequence[y], ![y] = sequence[x]])

\* The destructors of a vector, and the constructor of the next in its place.
Renew(x) ==
    LET s == FreeStorage(DestroyFrom(Memory, x, 0), x)
    IN  Return([s EXCEPT !.vec[x] = [begin |-> InlineBuffer(x), size |-> 0, capacity |-> Inline]],
               With(x, <<>>))

Counts == 0..(SizeTypeMax + 1)

Add(x) ==
    \E p \in Arguments(x) :
        \/ \E rvalue \in BOOLEAN : PushBack(x, p, rvalue)
        \/ EmplaceBack(x, p)
        \/ \E n \in Counts : AppendN(x, n, p)

SetSizeOrContents(x) ==
    \E n \in Counts :
        \/ ReserveCapacity(x, n)
        \/ Truncate(x, n)
        \/ ResizeDefault(x, n)
        \/ \E p \in Arguments(x) : Resize(x, n, p) \/ AssignN(x, n, p)
        \/ \E v \in Values : AssignList(x, n, v)

Insert(x) ==
    \E i \in 0..Last(x) :
        \/ \E p \in Arguments(x), rvalue \in BOOLEAN : InsertOne(x, i, p, rvalue)
        \/ \E p \in Arguments(x), n \in Counts : InsertN(x, i, n, p)
        \/ \E y \in Vectors : \E t \in 0..Last(y) : \E f \in 0..t : InsertRange(x, i, y, f, t)

Both(x, y) ==
    AppendVector(x, y) \/ AssignVector(x, y) \/ CopyAssign(x, y) \/ MoveAssign(x, y) \/ Swap(x, y)

Next ==
    \E x \in Vectors :
        \/ Add(x) \/ SetSizeOrContents(x) \/ Insert(x) \/ Renew(x)
        \/ \E j \in 0..Last(x) : \E i \in 0..j : Erase(x, i, j)
        \/ \E y \in Vectors : Both(x, y)

Spec == Init /\ [][Next]_vars

-----------------------------------------------------------------------------
\* After any calls the cells below the size of a vector hold elements and
\* those above are raw: every element is constructed before it is used or
\* assigned and destroyed once, in growth, shifts, shrinking and swaps alike.
LifetimesAreRight ==
    \A x \in Vectors :
        LET cells == mem[vec[x].begin]
        IN  /\ vec[x].size <= vec[x].capacity
            /\ \A k \in 0..(vec[x].capacity - 1) : k \in DOMAIN cells
            /\ \A k \in DOMAIN cells : IF k < vec[x].size THEN Alive(cells[k]) ELSE cells[k] = Raw

\* Each block of the heap belongs to one vector, none is lost or used after
\* it was freed, and a vector on the heap has nothing left in its inline buffer.
BlocksAreOwnedOnce ==
    /\ \A x, y \in Vectors : vec[x].begin = vec[y].begin => x = y
    /\ {b \in Blocks : mem[b] # <<>>} = {vec[x].begin : x \in Vectors} \cap Blocks
    /\ \A x \in Vectors : vec[x].begin # InlineBuffer(x) =>
            \A k \in DOMAIN mem[InlineBuffer(x)] : mem[InlineBuffer(x)][k] = Raw

\* The vectors hold what the same calls make of sequences, with arguments
\* that refer into the vector itself and with growth.  A call that throws at
\* the largest size has changed no sequence, except that assign of trivial
\* elements, or of a range or list, has emptied its vector.
HoldsItsSequence == \A x \in Vectors : Contents(x) = sequence[x]
=============================================================================
