------------------------- MODULE SmallVectorProofs --------------------------
(***************************************************************************)
(* The vectors are right whatever is called in whatever order: Sound says  *)
(* of a state that every vector lies in a buffer of its own, that its      *)
(* cells hold the elements of a sequence q from the beginning on and are   *)
(* raw behind them, and that no block is allocated without an owner.  Each *)
(* helper of the model takes a sound state to a sound state, and changes q *)
(* as the call changes a sequence; the actions follow by composition, and  *)
(* lifetimes, ownership and contents are read off the invariant.           *)
(*                                                                         *)
(* From the cells up: Write, Fill, Transfer and Destroy on memory; edits   *)
(* of one vector; allocation and growth; then the calls.  A move within a  *)
(* vector (erase, insert) may pass through states with moved-from cells    *)
(* that q names Moved.                                                     *)
(***************************************************************************)
EXTENDS SmallVector, SequenceTheorems, TLAPS

Elements == Values \cup {Moved}
Headers == [begin : Buffers, size : Nat, capacity : Nat]

-----------------------------------------------------------------------------
(* Memory.                                                                 *)

\* The memories m and w have the same buffers, and differ in b at most.
OnlyIn(m, w, b) ==
    /\ DOMAIN w = DOMAIN m
    /\ DOMAIN w[b] = DOMAIN m[b]
    /\ \A c \in DOMAIN m : c # b => w[c] = m[c]

\* The n cells of b from o on hold val[0], val[1], ...; nothing else changed.
Wrote(m, w, b, o, n, val) ==
    /\ OnlyIn(m, w, b)
    /\ \A k \in DOMAIN m[b] : w[b][k] = IF k \in o .. (o + n - 1) THEN val[k - o] ELSE m[b][k]

\* The cells at which the n values of val may be put.
MayPut(how, m, b, o, n, val) ==
    \A k \in o .. (o + n - 1) : /\ k \in DOMAIN m[b]
                                /\ Put(how, m[b][k], val[k - o]) = val[k - o]

\* A write of values where they may be put changes those cells only.
LEMMA WriteGives ==
    ASSUME NEW m, NEW b \in DOMAIN m, NEW o \in Nat, NEW n \in Nat, NEW val, NEW how,
           MayPut(how, m, b, o, n, val)
    PROVE  Wrote(m, Write(m, <<b, o>>, n, val, how), b, o, n, val)
<1> DEFINE cell(k) == CASE n > 0 /\ o + n - 1 \notin DOMAIN m[b] -> Bad
                        [] k \in o .. (o + n - 1) -> Put(how, m[b][k], val[k - o])
                        [] OTHER -> m[b][k]
           w == [m EXCEPT ![b] = [k \in DOMAIN m[b] |-> cell(k)]]
<1>1. Write(m, <<b, o>>, n, val, how) = w
  BY DEF Write
<1>2. n > 0 => o + n - 1 \in DOMAIN m[b]
  BY DEF MayPut
<1>3. \A k \in DOMAIN m[b] :
        cell(k) = IF k \in o .. (o + n - 1) THEN val[k - o] ELSE m[b][k]
  BY <1>2 DEF MayPut
<1> HIDE DEF cell
<1>4. OnlyIn(m, w, b)
  BY DEF OnlyIn
<1>5. \A k \in DOMAIN m[b] : w[b][k] = cell(k)
  OBVIOUS
<1> QED
  BY <1>1, <1>3, <1>4, <1>5 DEF Wrote

\* A cell that may be constructed, or assigned, takes the value.
LEMMA PutGives ==
    ASSUME NEW old, NEW v
    PROVE  /\ Alive(v) /\ (old = Raw \/ kind # "object") => Put(Construct, old, v) = v
           /\ Alive(v) /\ (Alive(old) \/ kind # "object") => Put(Assign, old, v) = v
           /\ Alive(old) => Put(Discard, old, v) = v
BY DEF Put, Construct, Assign, Discard

\* The marks and the values differ, and pointers are neither.
LEMMA Marks ==
    /\ \A v \in Elements : Alive(v) /\ IsValue(v)
    /\ ~Alive(Raw) /\ Alive(Moved)
    /\ \A b \in Buffers, i \in 0 .. SizeTypeMax : ~IsValue(<<b, i>>)
BY CellsAssumption DEF Elements, Alive, IsValue

\* The n cells of b from o on are cells of elements.
Live(m, b, o, n) == \A k \in o .. (o + n - 1) : k \in DOMAIN m[b] /\ Alive(m[b][k])

\* The n cells of b from o on may take new elements: constructed or assigned.
Ready(how, m, b, o, n) ==
    \A k \in o .. (o + n - 1) :
        /\ k \in DOMAIN m[b]
        /\ kind # "object" \/ (IF how = Construct THEN m[b][k] = Raw ELSE Alive(m[b][k]))

Ways == {Construct, Assign}

\* Live values may be put where the cells are ready.
LEMMA ReadyToPut ==
    ASSUME NEW m, NEW b, NEW o \in Nat, NEW n \in Nat, NEW how \in Ways, NEW val,
           Ready(how, m, b, o, n),
           \A k \in 0 .. (n - 1) : Alive(val[k])
    PROVE  MayPut(how, m, b, o, n, val)
<1> SUFFICES ASSUME NEW k \in o .. (o + n - 1)
             PROVE  k \in DOMAIN m[b] /\ Put(how, m[b][k], val[k - o]) = val[k - o]
  BY DEF MayPut
<1>1. Alive(val[k - o])
  OBVIOUS
<1>2. Construct # Assign
  BY DEF Construct, Assign
<1> QED
  BY <1>1, <1>2, PutGives DEF Ready, Ways

\* Destroying live cells makes them raw.
LEMMA DestroyGives ==
    ASSUME NEW m, NEW b \in DOMAIN m, NEW o \in Nat, NEW n \in Nat, Live(m, b, o, n)
    PROVE  /\ OnlyIn(m, Destroy(m, <<b, o>>, n), b)
           /\ \A k \in DOMAIN m[b] :
                Destroy(m, <<b, o>>, n)[b][k] = IF k \in o .. (o + n - 1) THEN Raw ELSE m[b][k]
<1>1. PICK val : val = [k \in 0 .. (n - 1) |-> Raw]
  OBVIOUS
<1>2. \A k \in 0 .. (n - 1) : val[k] = Raw
  BY <1>1
<1>3. MayPut(Discard, m, b, o, n, val)
  BY <1>2, PutGives DEF MayPut, Live
<1>4. Wrote(m, Destroy(m, <<b, o>>, n), b, o, n, val)
  BY <1>1, <1>3, WriteGives DEF Destroy
<1>5. \A k \in o .. (o + n - 1) : val[k - o] = Raw
  BY <1>2
<1> QED
  BY <1>4, <1>5 DEF Wrote

\* Filling ready cells with a live element.
LEMMA FillGives ==
    ASSUME NEW m, NEW b \in DOMAIN m, NEW o \in Nat, NEW n \in Nat, NEW how \in Ways, NEW p,
           Ready(how, m, b, o, n), n > 0 => Alive(Elem(m, p))
    PROVE  /\ OnlyIn(m, Fill(m, <<b, o>>, n, p, how), b)
           /\ \A k \in DOMAIN m[b] :
                Fill(m, <<b, o>>, n, p, how)[b][k] =
                    IF k \in o .. (o + n - 1) THEN Elem(m, p) ELSE m[b][k]
<1>1. PICK v : v = Elem(m, p)
  OBVIOUS
<1>2. PICK val : val = [k \in 0 .. (n - 1) |-> v]
  OBVIOUS
<1>3. \A k \in 0 .. (n - 1) : val[k] = v
  BY <1>2
<1>4. MayPut(how, m, b, o, n, val)
  BY <1>1, <1>3, ReadyToPut
<1>5. Wrote(m, Fill(m, <<b, o>>, n, p, how), b, o, n, val)
  BY <1>1, <1>2, <1>4, WriteGives DEF Fill
<1>6. \A k \in o .. (o + n - 1) : val[k - o] = v
  BY <1>3
<1> QED
  BY <1>1, <1>5, <1>6 DEF Wrote

\* What a move leaves of v.
LeftOf(v) == IF kind = "object" THEN Moved ELSE v

\* Leaving live cells.
LEMMA LeaveGives ==
    ASSUME NEW m, NEW b \in DOMAIN m, NEW o \in Nat, NEW n \in Nat,
           Live(m, b, o, n), ~IsValue(<<b, o>>)
    PROVE  /\ OnlyIn(m, Leave(m, <<b, o>>, n), b)
           /\ \A k \in DOMAIN m[b] :
                Leave(m, <<b, o>>, n)[b][k] =
                    IF k \in o .. (o + n - 1) THEN LeftOf(m[b][k]) ELSE m[b][k]
<1>1. CASE kind # "object"
  BY <1>1 DEF Leave, LeftOf, OnlyIn
<1>2. CASE kind = "object"
  <2>1. PICK val : val = [k \in 0 .. (n - 1) |-> Moved]
    OBVIOUS
  <2>2. \A k \in 0 .. (n - 1) : val[k] = Moved
    BY <2>1
  <2>3. Ready(Assign, m, b, o, n) /\ Assign \in Ways
    BY DEF Ready, Live, Ways, Construct, Assign
  <2>4. MayPut(Assign, m, b, o, n, val)
    BY <2>2, <2>3, ReadyToPut, Marks
  <2>5. Wrote(m, Leave(m, <<b, o>>, n), b, o, n, val)
    BY <1>2, <2>1, <2>4, WriteGives DEF Leave
  <2>6. \A k \in o .. (o + n - 1) : val[k - o] = Moved
    BY <2>2
  <2> QED
    BY <1>2, <2>5, <2>6 DEF Wrote, LeftOf
<1> QED
  BY <1>1, <1>2

\* The cells after a move of n cells from c, f on to b, o on.
MovedTo(m, w, c, f, n, b, o) ==
    /\ DOMAIN w = DOMAIN m
    /\ \A d \in DOMAIN m : d # b /\ d # c => w[d] = m[d]
    /\ DOMAIN w[b] = DOMAIN m[b] /\ DOMAIN w[c] = DOMAIN m[c]
    /\ \A k \in DOMAIN m[b] : k \in o .. (o + n - 1) => w[b][k] = m[c][k - o + f]
    /\ \A k \in DOMAIN m[b] :
            k \notin o .. (o + n - 1) /\ (b # c \/ k \notin f .. (f + n - 1)) => w[b][k] = m[b][k]
    /\ \A k \in DOMAIN m[c] :
            k \in f .. (f + n - 1) /\ (b # c \/ k \notin o .. (o + n - 1)) => w[c][k] = LeftOf(m[c][k])
    /\ b # c => \A k \in DOMAIN m[c] : k \notin f .. (f + n - 1) => w[c][k] = m[c][k]

\* Moving n live cells to ready ones, which are others if they are constructed.
LEMMA MoveGives ==
    ASSUME NEW m, NEW b \in DOMAIN m, NEW o \in Nat, NEW n \in Nat, NEW how \in Ways,
           NEW c \in DOMAIN m, NEW f \in Nat,
           Live(m, c, f, n), ~IsValue(<<c, f>>), Ready(how, m, b, o, n),
           \A i \in f .. (f + n - 1) : ~IsValue(<<c, i>>),
           b # c \/ o # f,
           how = Construct /\ b = c => \A k \in f .. (f + n - 1) : k \notin o .. (o + n - 1)
    PROVE  MovedTo(m, Transfer(m, <<c, f>>, n, <<b, o>>, TRUE, how), c, f, n, b, o)
<1>1. PICK val : val = [k \in 0 .. (n - 1) |-> Elem(m, <<c, f + k>>)]
  OBVIOUS
<1>2. \A k \in 0 .. (n - 1) : val[k] = m[c][f + k] /\ Alive(val[k])
  <2> SUFFICES ASSUME NEW k \in 0 .. (n - 1)
               PROVE  val[k] = m[c][f + k] /\ Alive(val[k])
    OBVIOUS
  <2>1. f + k \in f .. (f + n - 1)
    OBVIOUS
  <2>2. Elem(m, <<c, f + k>>) = m[c][f + k]
    BY <2>1 DEF Elem, Live
  <2> QED
    BY <1>1, <2>1, <2>2 DEF Live
<1>3. PICK l : l = Leave(m, <<c, f>>, n)
  OBVIOUS
<1>4. /\ OnlyIn(m, l, c)
      /\ \A k \in DOMAIN m[c] :
            l[c][k] = IF k \in f .. (f + n - 1) THEN LeftOf(m[c][k]) ELSE m[c][k]
  BY <1>3, LeaveGives
<1>5. b \in DOMAIN l /\ DOMAIN l[b] = DOMAIN m[b] /\ DOMAIN l = DOMAIN m
  BY <1>4 DEF OnlyIn
<1>6. Ready(how, l, b, o, n)
  <2> SUFFICES ASSUME NEW k \in o .. (o + n - 1)
               PROVE  /\ k \in DOMAIN l[b]
                      /\ kind # "object" \/ (IF how = Construct THEN l[b][k] = Raw ELSE Alive(l[b][k]))
    BY DEF Ready
  <2>1. /\ k \in DOMAIN m[b] /\ k \in DOMAIN l[b]
        /\ kind # "object" \/ (IF how = Construct THEN m[b][k] = Raw ELSE Alive(m[b][k]))
    BY <1>5 DEF Ready
  <2>2. CASE b = c /\ k \in f .. (f + n - 1)
    <3>1. how # Construct
      BY <2>2
    <3> QED
      BY <1>4, <2>1, <2>2, <3>1, Marks DEF LeftOf
  <2>3. CASE ~(b = c /\ k \in f .. (f + n - 1))
    <3>1. l[b][k] = m[b][k]
      BY <1>4, <2>1, <2>3 DEF OnlyIn
    <3> QED
      BY <2>1, <3>1
  <2> QED
    BY <2>2, <2>3
<1>7. MayPut(how, l, b, o, n, val)
  BY <1>2, <1>6, ReadyToPut
<1>8. Transfer(m, <<c, f>>, n, <<b, o>>, TRUE, how) = Write(l, <<b, o>>, n, val, how)
  <2>1. <<c, f>> # <<b, o>>
    OBVIOUS
  <2> QED
    BY <1>1, <1>3, <2>1 DEF Transfer
<1>9. PICK w : w = Transfer(m, <<c, f>>, n, <<b, o>>, TRUE, how)
  OBVIOUS
<1>10. Wrote(l, w, b, o, n, val)
  BY <1>5, <1>7, <1>8, <1>9, WriteGives
<1>11. \A k \in o .. (o + n - 1) : val[k - o] = m[c][k - o + f]
  BY <1>2
<1>12. \A k \in DOMAIN m[b] :
         w[b][k] = IF k \in o .. (o + n - 1) THEN m[c][k - o + f] ELSE l[b][k]
  BY <1>5, <1>10, <1>11 DEF Wrote
<1>13. \A d \in DOMAIN m : d # b => w[d] = l[d]
  BY <1>5, <1>10 DEF Wrote, OnlyIn
<1>14. DOMAIN w = DOMAIN m /\ DOMAIN w[b] = DOMAIN m[b]
  BY <1>5, <1>10 DEF Wrote, OnlyIn
<1>15. \A d \in DOMAIN m : d # c => l[d] = m[d]
  BY <1>4 DEF OnlyIn
<1>16. DOMAIN l[c] = DOMAIN m[c]
  BY <1>4 DEF OnlyIn
<1>17. MovedTo(m, w, c, f, n, b, o)
  <2>1. CASE b = c
    BY <1>4, <1>12, <1>13, <1>14, <1>15, <1>16, <2>1 DEF MovedTo
  <2>2. CASE b # c
    <3>1. w[c] = l[c] /\ l[b] = m[b]
      BY <1>13, <1>15, <2>2
    <3> QED
      BY <1>4, <1>12, <1>13, <1>14, <1>15, <1>16, <2>2, <3>1 DEF MovedTo
  <2> QED
    BY <2>1, <2>2
<1> QED
  BY <1>9, <1>17

-----------------------------------------------------------------------------
(* States of the vectors.                                                  *)

\* A record of memory and headers.
IsState(s) ==
    /\ s = [mem |-> s.mem, vec |-> s.vec]
    /\ s.vec \in [Vectors -> Headers]

\* The buffers: all there, each a range of cells, the inline ones of their size.
MemoryOK(m) ==
    /\ DOMAIN m = Buffers
    /\ \A b \in Buffers : \E n \in Nat : DOMAIN m[b] = 0 .. (n - 1)
    /\ \A x \in Vectors : DOMAIN m[InlineBuffer(x)] = 0 .. (Inline - 1)

\* The cells of b hold r from its beginning, and nothing behind it.
HoldsCells(m, b, r) ==
    \A k \in DOMAIN m[b] : m[b][k] = IF k < Len(r) THEN r[k + 1] ELSE Raw

\* Where a vector with the header h may begin.
Placed(m, x, h) ==
    /\ h.size <= h.capacity /\ h.capacity <= SizeTypeMax
    /\ \/ h.begin = InlineBuffer(x) /\ h.capacity <= Inline
       \/ /\ h.begin \in Blocks /\ h.capacity > 0
          /\ DOMAIN m[h.begin] = 0 .. (h.capacity - 1)
          /\ HoldsCells(m, InlineBuffer(x), <<>>)

\* Vector x holds the elements of r.
VectorHolds(s, x, r) ==
    /\ r \in Seq(Elements) /\ Len(r) = s.vec[x].size
    /\ Placed(s.mem, x, s.vec[x])
    /\ HoldsCells(s.mem, s.vec[x].begin, r)

\* No two vectors begin in one buffer, and what no vector owns is free.
BlocksApart(s) ==
    /\ \A x, y \in Vectors : s.vec[x].begin = s.vec[y].begin => x = y
    /\ \A b \in Blocks : (\A x \in Vectors : s.vec[x].begin # b) => s.mem[b] = <<>>

\* The vectors of s hold the sequences of q.
Sound(s, q) ==
    /\ IsState(s) /\ MemoryOK(s.mem) /\ BlocksApart(s)
    /\ q = [x \in Vectors |-> q[x]]
    /\ \A x \in Vectors : VectorHolds(s, x, q[x])

\* What SetMem and SetSize make of a state.
LEMMA SetMemGives ==
    ASSUME NEW s, IsState(s), NEW m
    PROVE  /\ IsState(SetMem(s, m)) /\ SetMem(s, m).mem = m /\ SetMem(s, m).vec = s.vec
           /\ SetMem(s, m) = [mem |-> m, vec |-> s.vec]
<1>1. SetMem(s, m) = [mem |-> m, vec |-> s.vec]
  BY DEF IsState, SetMem
<1> QED
  BY <1>1 DEF IsState

\* The header of x alone may have changed, and of it the size alone.
Resized(s, t, x) ==
    /\ IsState(t)
    /\ t.vec[x].begin = s.vec[x].begin /\ t.vec[x].capacity = s.vec[x].capacity
    /\ \A y \in Vectors : y # x => t.vec[y] = s.vec[y]

\* A new size leaves the memory, the other headers and the place of x alone.
LEMMA SetSizeGives ==
    ASSUME NEW s, IsState(s), NEW x \in Vectors, NEW n \in Nat
    PROVE  /\ Resized(s, SetSize(s, x, n), x)
           /\ SetSize(s, x, n).mem = s.mem /\ SetSize(s, x, n).vec[x].size = n
<1>1. s.vec[x] = [begin |-> s.vec[x].begin, size |-> s.vec[x].size, capacity |-> s.vec[x].capacity]
      /\ s.vec[x].begin \in Buffers /\ s.vec[x].capacity \in Nat
  BY DEF IsState, Headers
<1> DEFINE v == [s.vec EXCEPT ![x] = [begin |-> s.vec[x].begin, size |-> n,
                                      capacity |-> s.vec[x].capacity]]
<1>2. SetSize(s, x, n) = [mem |-> s.mem, vec |-> v]
  BY <1>1 DEF IsState, SetSize
<1>3. v \in [Vectors -> Headers]
  BY <1>1 DEF IsState, Headers
<1> QED
  BY <1>1, <1>2, <1>3 DEF Resized, IsState

\* Vector x alone has changed, in its own buffer and in its size.
InPlace(s, t, x) == Resized(s, t, x) /\ OnlyIn(s.mem, t.mem, s.vec[x].begin)

\* A change in place that leaves the elements of r and raw cells behind them.
LEMMA InPlaceIsSound ==
    ASSUME NEW s, NEW q, Sound(s, q), NEW x \in Vectors, NEW t, InPlace(s, t, x),
           NEW r \in Seq(Elements), Len(r) = t.vec[x].size, Len(r) <= s.vec[x].capacity,
           HoldsCells(t.mem, s.vec[x].begin, r)
    PROVE  Sound(t, [q EXCEPT ![x] = r])
<1> PICK b : b = s.vec[x].begin
  OBVIOUS
<1>1. /\ IsState(t) /\ t.vec[x].begin = b /\ t.vec[x].capacity = s.vec[x].capacity
      /\ \A y \in Vectors : y # x => t.vec[y] = s.vec[y]
      /\ DOMAIN t.mem = DOMAIN s.mem /\ DOMAIN t.mem[b] = DOMAIN s.mem[b]
      /\ \A c \in DOMAIN s.mem : c # b => t.mem[c] = s.mem[c]
  BY DEF InPlace, Resized, OnlyIn
<1>2. IsState(s) /\ MemoryOK(s.mem) /\ BlocksApart(s) /\ DOMAIN q = Vectors
      /\ \A y \in Vectors : VectorHolds(s, y, q[y])
  BY DEF Sound
<1>3. DOMAIN s.mem = Buffers
  BY <1>2 DEF MemoryOK
<1>4. \A c \in Buffers : DOMAIN t.mem[c] = DOMAIN s.mem[c]
  BY <1>1, <1>3
<1>5. MemoryOK(t.mem)
  BY <1>1, <1>2, <1>3, <1>4 DEF MemoryOK, Buffers
<1>6. \A y \in Vectors : t.vec[y].begin = s.vec[y].begin
  BY <1>1
<1>7. BlocksApart(t)
  <2>1. \A c \in Blocks : c # b => t.mem[c] = s.mem[c]
    BY <1>1, <1>3 DEF Buffers
  <2> QED
    BY <1>1, <1>2, <1>6, <2>1 DEF BlocksApart
<1>8. ASSUME NEW y \in Vectors, y # x
      PROVE  VectorHolds(t, y, q[y])
  <2>1. VectorHolds(s, y, q[y]) /\ t.vec[y] = s.vec[y] /\ s.vec[y].begin # b
    BY <1>1, <1>2, <1>8 DEF BlocksApart
  <2>2. s.vec[y].begin \in Buffers /\ InlineBuffer(y) \in Buffers
    BY <1>2 DEF IsState, Headers, Buffers
  <2>3. t.mem[s.vec[y].begin] = s.mem[s.vec[y].begin]
    BY <1>1, <1>3, <2>1, <2>2
  <2>4. b = InlineBuffer(y) => FALSE
    <3>1. VectorHolds(s, x, q[x])
      BY <1>2
    <3>2. b \in Blocks \/ b = InlineBuffer(x)
      BY <3>1 DEF VectorHolds, Placed
    <3> QED
      BY <1>8, <3>2, HeapAssumption DEF InlineBuffer
  <2>5. t.mem[InlineBuffer(y)] = s.mem[InlineBuffer(y)]
    BY <1>1, <1>3, <2>2, <2>4
  <2> QED
    BY <2>1, <2>3, <2>5 DEF VectorHolds, Placed, HoldsCells
<1>9. VectorHolds(t, x, r)
  <2>1. VectorHolds(s, x, q[x])
    BY <1>2
  <2>2. t.mem[InlineBuffer(x)] = s.mem[InlineBuffer(x)] \/ b = InlineBuffer(x)
    BY <1>1, <1>3 DEF Buffers
  <2>3. b \in Blocks => b # InlineBuffer(x)
    BY HeapAssumption
  <2>4. t.vec[x].size = Len(r)
    OBVIOUS
  <2>5. Placed(t.mem, x, t.vec[x])
    BY <1>1, <2>1, <2>2, <2>3, <2>4 DEF VectorHolds, Placed, HoldsCells
  <2> QED
    BY <1>1, <2>4, <2>5 DEF VectorHolds
<1>10. \A y \in Vectors : VectorHolds(t, y, [q EXCEPT ![x] = r][y])
  BY <1>2, <1>8, <1>9
<1> QED
  BY <1>1, <1>2, <1>5, <1>7, <1>10 DEF Sound

-----------------------------------------------------------------------------
(* Growing.                                                                *)

\* The parts of a sound state.
LEMMA SoundParts ==
    ASSUME NEW s, NEW q, Sound(s, q), NEW x \in Vectors
    PROVE  /\ IsState(s) /\ MemoryOK(s.mem) /\ BlocksApart(s)
           /\ s.vec[x].begin \in Buffers /\ InlineBuffer(x) \in Buffers
           /\ s.vec[x].size \in Nat /\ s.vec[x].capacity \in Nat
           /\ s.vec[x].size <= s.vec[x].capacity /\ s.vec[x].capacity <= SizeTypeMax
           /\ SizeTypeMax \in Nat
           /\ q[x] \in Seq(Elements) /\ Len(q[x]) = s.vec[x].size
           /\ HoldsCells(s.mem, s.vec[x].begin, q[x])
           /\ s.vec[x].begin = InlineBuffer(x) \/ s.vec[x].begin \in Blocks
           /\ 0 .. (s.vec[x].capacity - 1) \subseteq DOMAIN s.mem[s.vec[x].begin]
           /\ DOMAIN s.mem[s.vec[x].begin] \subseteq Nat
           /\ \A k \in 0 .. (Len(q[x]) - 1) :
                /\ k \in DOMAIN s.mem[s.vec[x].begin]
                /\ s.mem[s.vec[x].begin][k] = q[x][k + 1]
                /\ q[x][k + 1] \in Elements
           /\ \A i \in 0 .. SizeTypeMax : ~IsValue(<<s.vec[x].begin, i>>)
<1>1. IsState(s) /\ MemoryOK(s.mem) /\ BlocksApart(s) /\ VectorHolds(s, x, q[x])
  BY DEF Sound
<1>2. s.vec[x].begin \in Buffers /\ InlineBuffer(x) \in Buffers
      /\ s.vec[x].size \in Nat /\ s.vec[x].capacity \in Nat
  BY <1>1 DEF IsState, Headers, Buffers
<1>3. /\ s.vec[x].size <= s.vec[x].capacity /\ s.vec[x].capacity <= SizeTypeMax
      /\ SizeTypeMax \in Nat /\ Inline \in Nat
      /\ s.vec[x].begin = InlineBuffer(x) \/ s.vec[x].begin \in Blocks
  BY <1>1, SizesAssumption DEF VectorHolds, Placed
<1>4. 0 .. (s.vec[x].capacity - 1) \subseteq DOMAIN s.mem[s.vec[x].begin]
  <2>1. CASE s.vec[x].begin = InlineBuffer(x) /\ s.vec[x].capacity <= Inline
    <3>1. DOMAIN s.mem[s.vec[x].begin] = 0 .. (Inline - 1)
      BY <1>1, <2>1 DEF MemoryOK
    <3> QED
      BY <1>2, <1>3, <2>1, <3>1
  <2>2. CASE DOMAIN s.mem[s.vec[x].begin] = 0 .. (s.vec[x].capacity - 1)
    BY <2>2
  <2> QED
    BY <1>1, <2>1, <2>2 DEF VectorHolds, Placed
<1>5. DOMAIN s.mem[s.vec[x].begin] \subseteq Nat
  BY <1>1, <1>2 DEF MemoryOK
<1>6. q[x] \in Seq(Elements) /\ Len(q[x]) = s.vec[x].size /\ HoldsCells(s.mem, s.vec[x].begin, q[x])
  BY <1>1 DEF VectorHolds
<1>7. ASSUME NEW k \in 0 .. (Len(q[x]) - 1)
      PROVE  /\ k \in DOMAIN s.mem[s.vec[x].begin]
             /\ s.mem[s.vec[x].begin][k] = q[x][k + 1]
             /\ q[x][k + 1] \in Elements
  <2>1. k \in 0 .. (s.vec[x].capacity - 1) /\ k < Len(q[x]) /\ k + 1 \in 1 .. Len(q[x])
    BY <1>2, <1>3, <1>6
  <2>2. k \in DOMAIN s.mem[s.vec[x].begin]
    BY <1>4, <2>1
  <2>3. q[x][k + 1] \in Elements
    BY <1>6, <2>1
  <2> QED
    BY <1>6, <2>1, <2>2, <2>3 DEF HoldsCells
<1>8. \A i \in 0 .. SizeTypeMax : ~IsValue(<<s.vec[x].begin, i>>)
  BY <1>2, Marks
<1> QED
  BY <1>1, <1>2, <1>3, <1>4, <1>5, <1>6, <1>7, <1>8

\* Block b belongs to no vector of s.
Unowned(s, b) == b \in Blocks /\ \A x \in Vectors : s.vec[x].begin # b

\* malloc finds a block without an owner and gives its cells.
LEMMA MallocGives ==
    ASSUME NEW s, NEW q, Sound(s, q), NEW n \in Nat, n > 0
    PROVE  \E b \in Blocks :
                /\ Unowned(s, b)
                /\ Malloc(s, n).block = <<b, 0>>
                /\ DOMAIN Malloc(s, n).mem = Buffers
                /\ \A c \in Buffers : c # b => Malloc(s, n).mem[c] = s.mem[c]
                /\ DOMAIN Malloc(s, n).mem[b] = 0 .. (n - 1)
                /\ \A k \in 0 .. (n - 1) : Malloc(s, n).mem[b][k] = Raw
<1>1. \E b \in Blocks : \A x \in Vectors : s.vec[x].begin # b
  <2>1. PICK none \in Blocks : TRUE
    BY HeapAssumption
  <2>2. PICK owned : owned = [x \in Vectors |-> IF s.vec[x].begin \in Blocks
                                                THEN s.vec[x].begin ELSE none]
    OBVIOUS
  <2>3. owned \in [Vectors -> Blocks]
    BY <2>1, <2>2
  <2>4. PICK b \in Blocks : \A x \in Vectors : owned[x] # b
    BY <2>3, HeapAssumption
  <2>5. \A x \in Vectors : s.vec[x].begin # b
    BY <2>2, <2>4
  <2> QED
    BY <2>5
<1>2. \E b \in Blocks : s.mem[b] = <<>>
  BY <1>1 DEF Sound, BlocksApart
<1> DEFINE b == CHOOSE c \in Blocks : s.mem[c] = <<>>
<1>3. b \in Blocks /\ s.mem[b] = <<>>
  BY <1>2
<1>4. \A x \in Vectors : s.vec[x].begin # b
  <2> SUFFICES ASSUME NEW x \in Vectors, s.vec[x].begin = b
               PROVE  FALSE
    OBVIOUS
  <2>1. VectorHolds(s, x, q[x]) /\ InlineBuffer(x) \notin Blocks
    BY HeapAssumption DEF Sound
  <2>2. DOMAIN s.mem[b] = 0 .. (s.vec[x].capacity - 1) /\ s.vec[x].capacity > 0
    BY <1>3, <2>1 DEF VectorHolds, Placed
  <2>3. DOMAIN s.mem[b] = {}
    BY <1>3
  <2>4. s.vec[x].capacity \in Nat
    BY SoundParts
  <2>5. 0 \in 0 .. (s.vec[x].capacity - 1)
    BY <2>2, <2>4
  <2> QED
    BY <2>2, <2>3, <2>5
<1>5. /\ Malloc(s, n).block = <<b, 0>>
      /\ Malloc(s, n).mem = [s.mem EXCEPT ![b] = [k \in 0 .. (n - 1) |-> Raw]]
  BY DEF Malloc
<1>6. DOMAIN s.mem = Buffers /\ b \in Buffers
  BY <1>3 DEF Sound, MemoryOK, Buffers
<1> HIDE DEF b
<1> QED
  BY <1>3, <1>4, <1>5, <1>6 DEF Unowned

\* The memory w is s's, but for the block b, and for the buffer of x, which is
\* as large as it was and raw.
Vacated(s, w, x, b) ==
    /\ DOMAIN w = Buffers
    /\ \A c \in Buffers : c # b /\ c # s.vec[x].begin => w[c] = s.mem[c]
    /\ DOMAIN w[s.vec[x].begin] = DOMAIN s.mem[s.vec[x].begin]
    /\ HoldsCells(w, s.vec[x].begin, <<>>)

\* The vector x lives in the block b now, with room for cap elements.
Relocated(s, t, x, b, cap) ==
    /\ IsState(t)
    /\ t.vec[x].begin = b /\ t.vec[x].capacity = cap
    /\ \A y \in Vectors : y # x => t.vec[y] = s.vec[y]

\* takeAllocation frees the old block and takes the new one.
LEMMA TakeAllocationIsSound ==
    ASSUME NEW s, NEW q, Sound(s, q), NEW x \in Vectors,
           NEW b, Unowned(s, b), NEW cap \in Nat, cap > 0, cap <= SizeTypeMax,
           NEW u, IsState(u), Resized(s, u, x), Vacated(s, u.mem, x, b),
           DOMAIN u.mem[b] = 0 .. (cap - 1),
           NEW r \in Seq(Elements), Len(r) <= cap, HoldsCells(u.mem, b, r),
           NEW t, Relocated(s, t, x, b, cap), t.vec[x].size = Len(r),
           t.mem = TakeAllocation(u, x, <<b, 0>>, cap).mem
    PROVE  Sound(t, [q EXCEPT ![x] = r])
<1> PICK old : old = s.vec[x].begin
  OBVIOUS
<1>1. /\ old \in Buffers /\ b \in Blocks /\ b # old /\ u.vec[x].begin = old
      /\ old = InlineBuffer(x) \/ old \in Blocks
      /\ InlineBuffer(x) \notin Blocks /\ Blocks \subseteq Buffers
  BY SoundParts, HeapAssumption DEF Unowned, Resized, Buffers
<1>2. /\ DOMAIN u.mem = Buffers
      /\ \A c \in Buffers : c # b /\ c # old => u.mem[c] = s.mem[c]
      /\ DOMAIN u.mem[old] = DOMAIN s.mem[old]
      /\ HoldsCells(u.mem, old, <<>>)
  BY DEF Vacated
<1>3. t.mem = FreeStorage(u, x).mem
  <2>1. IsState(FreeStorage(u, x))
    BY SetMemGives DEF FreeStorage
  <2> QED
    BY <2>1 DEF TakeAllocation, IsState
<1>4. /\ old \notin Blocks => t.mem = u.mem
      /\ old \in Blocks => t.mem = [u.mem EXCEPT ![old] = <<>>]
  <2>1. CASE old \notin Blocks
    BY <1>1, <1>3, <2>1 DEF FreeStorage, IsSmall
  <2>2. CASE old \in Blocks
    <3>1. ~IsSmall(u, x)
      BY <1>1, <2>2 DEF IsSmall
    <3>2. \A k \in DOMAIN u.mem[old] : u.mem[old][k] = Raw
      <4>1. \A k \in DOMAIN s.mem[old] : k \in Nat
        BY SoundParts
      <4>2. Len(<<>>) = 0
        OBVIOUS
      <4> QED
        BY <1>2, <4>1, <4>2 DEF HoldsCells
    <3>3. Free(u.mem, old) = [u.mem EXCEPT ![old] = <<>>]
      BY <3>2 DEF Free
    <3> QED
      BY <1>1, <1>3, <2>2, <3>1, <3>3, SetMemGives DEF FreeStorage
  <2> QED
    BY <2>1, <2>2
<1>5. /\ DOMAIN t.mem = Buffers
      /\ \A c \in Buffers : c # b /\ c # old => t.mem[c] = s.mem[c]
      /\ t.mem[b] = u.mem[b]
      /\ old \notin Blocks => t.mem[old] = u.mem[old]
      /\ old \in Blocks => t.mem[old] = <<>>
  BY <1>1, <1>2, <1>4
<1>6. MemoryOK(s.mem) /\ BlocksApart(s) /\ DOMAIN q = Vectors
      /\ \A y \in Vectors : VectorHolds(s, y, q[y])
  BY DEF Sound
<1>7. MemoryOK(t.mem)
  <2>1. ASSUME NEW c \in Buffers
        PROVE  \E n \in Nat : DOMAIN t.mem[c] = 0 .. (n - 1)
    <3>1. CASE c = b
      BY <1>5, <3>1
    <3>2. CASE c = old /\ old \in Blocks
      <4>1. DOMAIN t.mem[c] = 0 .. (0 - 1)
        BY <1>5, <3>2
      <4> QED
        BY <4>1
    <3>3. CASE c # b /\ ~(c = old /\ old \in Blocks)
      <4>1. DOMAIN t.mem[c] = DOMAIN s.mem[c]
        BY <1>2, <1>5, <3>3
      <4> QED
        BY <1>6, <4>1 DEF MemoryOK
    <3> QED
      BY <3>1, <3>2, <3>3
  <2>2. ASSUME NEW y \in Vectors
        PROVE  DOMAIN t.mem[InlineBuffer(y)] = 0 .. (Inline - 1)
    <3>1. InlineBuffer(y) \in Buffers /\ InlineBuffer(y) \notin Blocks
      BY HeapAssumption DEF Buffers
    <3>2. DOMAIN t.mem[InlineBuffer(y)] = DOMAIN s.mem[InlineBuffer(y)]
      BY <1>1, <1>2, <1>5, <3>1
    <3> QED
      BY <1>6, <3>2 DEF MemoryOK
  <2> QED
    BY <1>5, <2>1, <2>2 DEF MemoryOK
<1>8. /\ t.vec[x].begin = b /\ t.vec[x].capacity = cap
      /\ \A y \in Vectors : y # x => t.vec[y] = s.vec[y] /\ s.vec[y].begin # old
  BY <1>6 DEF Relocated, BlocksApart
<1>9. BlocksApart(t)
  <2>1. \A y, z \in Vectors : t.vec[y].begin = t.vec[z].begin => y = z
    BY <1>6, <1>8 DEF Unowned, BlocksApart
  <2>2. ASSUME NEW c \in Blocks, \A y \in Vectors : t.vec[y].begin # c
        PROVE  t.mem[c] = <<>>
    <3>1. c # b /\ c \in Buffers
      BY <1>1, <1>8, <2>2
    <3>2. CASE c = old
      BY <1>5, <2>2, <3>2
    <3>3. CASE c # old
      <4>1. \A y \in Vectors : s.vec[y].begin # c
        BY <1>8, <2>2, <3>3
      <4> QED
        BY <1>5, <1>6, <3>1, <3>3, <4>1 DEF BlocksApart
    <3> QED
      BY <3>2, <3>3
  <2> QED
    BY <2>1, <2>2 DEF BlocksApart
<1>10. ASSUME NEW y \in Vectors, y # x
       PROVE  VectorHolds(t, y, q[y])
  <2>1. VectorHolds(s, y, q[y]) /\ t.vec[y] = s.vec[y]
    BY <1>6, <1>8, <1>10
  <2>2. s.vec[y].begin # old /\ s.vec[y].begin # b /\ s.vec[y].begin \in Buffers
    BY <1>8, <1>10, SoundParts DEF Unowned
  <2>3. InlineBuffer(y) # old /\ InlineBuffer(y) # b /\ InlineBuffer(y) \in Buffers
    BY <1>1, <1>10, HeapAssumption DEF InlineBuffer, Buffers
  <2>4. t.mem[s.vec[y].begin] = s.mem[s.vec[y].begin] /\ t.mem[InlineBuffer(y)] = s.mem[InlineBuffer(y)]
    BY <1>5, <2>2, <2>3
  <2> QED
    BY <2>1, <2>4 DEF VectorHolds, Placed, HoldsCells
<1>11. VectorHolds(t, x, r)
  <2>1. HoldsCells(t.mem, InlineBuffer(x), <<>>)
    <3>1. CASE old = InlineBuffer(x)
      BY <1>1, <1>2, <1>5, <3>1 DEF HoldsCells
    <3>2. CASE old # InlineBuffer(x)
      <4>1. HoldsCells(s.mem, InlineBuffer(x), <<>>)
        BY <1>6, <3>2 DEF VectorHolds, Placed
      <4>2. t.mem[InlineBuffer(x)] = s.mem[InlineBuffer(x)]
        BY <1>1, <1>5, <3>2 DEF Buffers
      <4> QED
        BY <4>1, <4>2 DEF HoldsCells
    <3> QED
      BY <3>1, <3>2
  <2>2. HoldsCells(t.mem, b, r) /\ DOMAIN t.mem[b] = 0 .. (cap - 1)
    BY <1>5 DEF HoldsCells
  <2> QED
    BY <1>1, <1>8, <2>1, <2>2 DEF VectorHolds, Placed
<1>12. \A y \in Vectors : VectorHolds(t, y, [q EXCEPT ![x] = r][y])
  BY <1>6, <1>10, <1>11
<1> QED
  BY <1>6, <1>7, <1>9, <1>12 DEF Sound, Relocated

\* The memory of u is s's with a new block b, where n elements have room.
Opened(s, u, b, n) ==
    /\ IsState(u) /\ u.vec = s.vec
    /\ DOMAIN u.mem = Buffers
    /\ \A c \in Buffers : c # b => u.mem[c] = s.mem[c]
    /\ \A k \in 0 .. (n - 1) : k \in DOMAIN u.mem[b] /\ u.mem[b][k] = Raw
    /\ DOMAIN u.mem[b] \subseteq Nat

\* The elements of x, those of r, have gone from its buffer to b.
Emptied(s, u, v, x, b, r) ==
    /\ IsState(v) /\ v.vec = s.vec
    /\ Vacated(s, v.mem, x, b)
    /\ DOMAIN v.mem[b] = DOMAIN u.mem[b]
    /\ \A k \in DOMAIN u.mem[b] : v.mem[b][k] = IF k < Len(r) THEN r[k + 1] ELSE u.mem[b][k]

\* Growing moves the elements of x to the beginning of a new block b and
\* leaves raw cells behind.
LEMMA MoveElementsGives ==
    ASSUME NEW s, NEW q, Sound(s, q), NEW x \in Vectors, NEW b, Unowned(s, b),
           NEW u, Opened(s, u, b, Len(q[x]))
    PROVE  Emptied(s, u, MoveElementsForGrow(u, x, <<b, 0>>), x, b, q[x])
<1>a. PICK old, n, r : old = s.vec[x].begin /\ n = s.vec[x].size /\ r = q[x]
  OBVIOUS
<1>o. /\ IsState(u) /\ DOMAIN u.mem = Buffers /\ DOMAIN u.mem[b] \subseteq Nat
      /\ \A c \in Buffers : c # b => u.mem[c] = s.mem[c]
      /\ \A k \in 0 .. (n - 1) : k \in DOMAIN u.mem[b] /\ u.mem[b][k] = Raw
  BY <1>a, SoundParts DEF Opened
<1>1. /\ old \in Buffers /\ b \in Buffers /\ b # old /\ n \in Nat /\ n <= SizeTypeMax
      /\ Len(r) = n /\ HoldsCells(s.mem, old, r) /\ DOMAIN s.mem[old] \subseteq Nat
  <2>1. /\ s.vec[x].begin \in Buffers /\ s.vec[x].size \in Nat /\ s.vec[x].size <= SizeTypeMax
        /\ Len(q[x]) = s.vec[x].size /\ HoldsCells(s.mem, s.vec[x].begin, q[x])
        /\ DOMAIN s.mem[s.vec[x].begin] \subseteq Nat
    BY SoundParts
  <2>2. b \in Buffers /\ b # s.vec[x].begin
    BY DEF Unowned, Buffers
  <2> QED
    BY <1>a, <2>1, <2>2
<1>2. \A i \in 0 .. SizeTypeMax : ~IsValue(<<old, i>>)
  BY <1>a, SoundParts
<1>3. \A k \in 0 .. (n - 1) : /\ k \in DOMAIN s.mem[old]
                              /\ s.mem[old][k] = r[k + 1] /\ r[k + 1] \in Elements
  BY <1>a, SoundParts
<1>4. u.mem[old] = s.mem[old]
  BY <1>1, <1>o
<1>5. \A k \in 0 .. (n - 1) : Alive(s.mem[old][k])
  BY <1>3, Marks
<1>6. Live(u.mem, old, 0, n)
  BY <1>1, <1>3, <1>4, <1>5 DEF Live
<1>7. Ready(Construct, u.mem, b, 0, n) /\ Construct \in Ways
  BY <1>o, <1>1 DEF Ready, Ways
<1>w. PICK w : w = Transfer(u.mem, <<old, 0>>, n, <<b, 0>>, TRUE, Construct)
  OBVIOUS
<1>8. MovedTo(u.mem, w, old, 0, n, b, 0)
  <2>1. \A i \in 0 .. (0 + n - 1) : ~IsValue(<<old, i>>)
    <3>1. \A i \in 0 .. (0 + n - 1) : i \in 0 .. SizeTypeMax
      BY <1>1, SizesAssumption
    <3> QED
      BY <1>2, <3>1
  <2>2. ~IsValue(<<old, 0>>)
    BY <1>2, SizesAssumption
  <2> QED
    BY <1>o, <1>1, <1>6, <1>7, <1>w, <2>1, <2>2, MoveGives
<1>9. /\ DOMAIN w = Buffers /\ DOMAIN w[b] = DOMAIN u.mem[b] /\ DOMAIN w[old] = DOMAIN s.mem[old]
      /\ \A c \in Buffers : c # b /\ c # old => w[c] = s.mem[c]
  BY <1>o, <1>1, <1>4, <1>8 DEF MovedTo
<1>10. \A k \in DOMAIN u.mem[b] :
         w[b][k] = IF k \in 0 .. (n - 1) THEN s.mem[old][k] ELSE u.mem[b][k]
  <2> SUFFICES ASSUME NEW k \in DOMAIN u.mem[b]
               PROVE  w[b][k] = IF k \in 0 .. (n - 1) THEN s.mem[old][k] ELSE u.mem[b][k]
    OBVIOUS
  <2>1. k \in Nat /\ k - 0 + 0 = k /\ 0 + n - 1 = n - 1
    BY <1>o, <1>1
  <2>2. CASE k \in 0 .. (n - 1)
    BY <1>4, <1>8, <2>1, <2>2 DEF MovedTo
  <2>3. CASE k \notin 0 .. (n - 1)
    BY <1>1, <1>8, <2>1, <2>3 DEF MovedTo
  <2> QED
    BY <2>2, <2>3
<1>11. /\ \A k \in 0 .. (n - 1) : w[old][k] = LeftOf(s.mem[old][k])
       /\ \A k \in DOMAIN s.mem[old] : k \notin 0 .. (n - 1) => w[old][k] = s.mem[old][k]
  BY <1>1, <1>3, <1>4, <1>8 DEF MovedTo
<1>12. Live(w, old, 0, n)
  BY <1>1, <1>3, <1>5, <1>9, <1>11, Marks DEF Live, LeftOf
<1>z. PICK z : z = Destroy(w, <<old, 0>>, n)
  OBVIOUS
<1>13. /\ OnlyIn(w, z, old)
       /\ \A k \in DOMAIN w[old] : z[old][k] = IF k \in 0 .. (0 + n - 1) THEN Raw ELSE w[old][k]
  <2>1. old \in DOMAIN w /\ 0 \in Nat
    BY <1>1, <1>9
  <2> QED
    BY <1>1, <1>12, <1>z, <2>1, DestroyGives
<1>14. /\ DOMAIN z = Buffers /\ DOMAIN z[old] = DOMAIN s.mem[old]
       /\ \A c \in Buffers : c # old => z[c] = w[c]
  BY <1>9, <1>13 DEF OnlyIn
<1>15. \A k \in DOMAIN s.mem[old] : z[old][k] = IF k \in 0 .. (n - 1) THEN Raw ELSE s.mem[old][k]
  BY <1>1, <1>9, <1>11, <1>13
<1>16. MoveElementsForGrow(u, x, <<b, 0>>) = SetMem(u, z)
  BY <1>a, <1>w, <1>z DEF MoveElementsForGrow, At, Size, Opened
<1>17. IsState(SetMem(u, z)) /\ SetMem(u, z).vec = s.vec /\ SetMem(u, z).mem = z
  BY SetMemGives DEF Opened
<1>18. HoldsCells(z, old, <<>>)
  <2> SUFFICES ASSUME NEW k \in DOMAIN s.mem[old]
               PROVE  z[old][k] = Raw
    <3>1. \A k \in DOMAIN z[old] : ~(k < Len(<<>>))
      BY <1>1, <1>14
    <3> QED
      BY <1>14, <3>1 DEF HoldsCells
  <2>1. k \in Nat
    BY <1>1
  <2>2. CASE k \in 0 .. (n - 1)
    BY <1>15, <2>2
  <2>3. CASE k \notin 0 .. (n - 1)
    <3>1. s.mem[old][k] = Raw
      BY <1>1, <2>1, <2>3 DEF HoldsCells
    <3> QED
      BY <1>15, <2>3, <3>1
  <2> QED
    BY <2>2, <2>3
<1>19. Vacated(s, z, x, b)
  BY <1>a, <1>9, <1>14, <1>18 DEF Vacated
<1>20. ASSUME NEW k \in DOMAIN u.mem[b]
       PROVE  z[b][k] = IF k < Len(r) THEN r[k + 1] ELSE u.mem[b][k]
  <2>1. z[b][k] = w[b][k] /\ k \in Nat
    BY <1>o, <1>1, <1>14
  <2>2. CASE k < n
    <3>1. k \in 0 .. (n - 1) /\ s.mem[old][k] = r[k + 1]
      BY <1>1, <1>3, <2>1, <2>2
    <3> QED
      BY <1>1, <1>10, <2>1, <2>2, <3>1
  <2>3. CASE ~(k < n)
    BY <1>1, <1>10, <2>1, <2>3
  <2> QED
    BY <2>2, <2>3
<1>21. DOMAIN z[b] = DOMAIN u.mem[b]
  BY <1>1, <1>9, <1>14
<1> QED
  BY <1>a, <1>16, <1>17, <1>19, <1>20, <1>21 DEF Emptied

\* What takeAllocation makes of the headers.
LEMMA TakeAllocationGives ==
    ASSUME NEW x \in Vectors, NEW s, IsState(s), NEW u, Resized(s, u, x),
           NEW b \in Buffers, NEW cap \in Nat
    PROVE  /\ Relocated(s, TakeAllocation(u, x, <<b, 0>>, cap), x, b, cap)
           /\ TakeAllocation(u, x, <<b, 0>>, cap).vec[x].size = u.vec[x].size
<1> PICK f : f = FreeStorage(u, x)
  OBVIOUS
<1>1. IsState(f) /\ f.vec = u.vec
  BY SetMemGives DEF FreeStorage, Resized
<1>2. f.vec[x].size \in Nat
  BY <1>1 DEF IsState, Headers
<1> DEFINE h == [begin |-> b, size |-> f.vec[x].size, capacity |-> cap]
<1>3. TakeAllocation(u, x, <<b, 0>>, cap) = [mem |-> f.mem, vec |-> [f.vec EXCEPT ![x] = h]]
  BY <1>1 DEF TakeAllocation, IsState
<1>4. h \in Headers
  BY <1>2 DEF Headers
<1>5. [f.vec EXCEPT ![x] = h] \in [Vectors -> Headers]
  BY <1>1, <1>4 DEF IsState
<1> HIDE DEF h
<1>6. h.begin = b /\ h.capacity = cap /\ h.size = u.vec[x].size
  BY <1>1 DEF h
<1>7. \A y \in Vectors : y # x => [f.vec EXCEPT ![x] = h][y] = s.vec[y]
  BY <1>1 DEF Resized, IsState
<1>8. [f.vec EXCEPT ![x] = h][x] = h
  BY <1>1 DEF IsState
<1> QED
  BY <1>3, <1>5, <1>6, <1>7, <1>8 DEF Relocated, IsState

\* x has room for n elements now; nothing else a caller sees has changed.
Grown(s, t, x, n) ==
    /\ t.vec[x].size = s.vec[x].size
    /\ n <= t.vec[x].capacity
    /\ \A y \in Vectors : y # x => t.vec[y] = s.vec[y]

\* The new capacity.
LEMMA NewCapacityGives ==
    ASSUME NEW s, NEW x, Capacity(s, x) \in Nat, Capacity(s, x) <= SizeTypeMax, NEW min \in Nat
    PROVE  /\ NewCapacity(s, x, min) \in Nat /\ NewCapacity(s, x, min) <= SizeTypeMax
           /\ min <= SizeTypeMax => min <= NewCapacity(s, x, min)
           /\ Capacity(s, x) <= NewCapacity(s, x, min)
           /\ Capacity(s, x) < SizeTypeMax => Capacity(s, x) < NewCapacity(s, x, min)
           /\ 0 < NewCapacity(s, x, min)
BY SizesAssumption DEF NewCapacity

\* grow keeps what the vectors hold.
LEMMA GrowIsSound ==
    ASSUME NEW s, NEW q, Sound(s, q), NEW x \in Vectors, NEW min \in Nat, min <= SizeTypeMax
    PROVE  Sound(Grow(s, x, min), q) /\ Grown(s, Grow(s, x, min), x, min)
<1>a. PICK cap, r : cap = NewCapacity(s, x, min) /\ r = q[x]
  OBVIOUS
<1>1. /\ cap \in Nat /\ cap > 0 /\ cap <= SizeTypeMax /\ min <= cap
      /\ r \in Seq(Elements) /\ Len(r) <= cap /\ Len(r) = s.vec[x].size /\ Len(r) \in Nat
      /\ IsState(s)
  <2>1. /\ s.vec[x].capacity \in Nat /\ s.vec[x].capacity <= SizeTypeMax
        /\ q[x] \in Seq(Elements) /\ Len(q[x]) = s.vec[x].size
        /\ s.vec[x].size <= s.vec[x].capacity /\ s.vec[x].size \in Nat /\ IsState(s)
    BY SoundParts
  <2>2. /\ cap \in Nat /\ cap > 0 /\ cap <= SizeTypeMax /\ min <= cap
        /\ s.vec[x].capacity <= cap
    BY <1>a, <2>1, NewCapacityGives DEF Capacity
  <2> QED
    BY <1>a, <2>1, <2>2
<1>n. PICK new : new = Malloc(s, cap)
  OBVIOUS
<1>2. PICK b \in Blocks :
        /\ Unowned(s, b)
        /\ new.block = <<b, 0>>
        /\ DOMAIN new.mem = Buffers
        /\ \A c \in Buffers : c # b => new.mem[c] = s.mem[c]
        /\ DOMAIN new.mem[b] = 0 .. (cap - 1)
        /\ \A k \in 0 .. (cap - 1) : new.mem[b][k] = Raw
  BY <1>1, <1>n, MallocGives
<1>u. PICK u : u = SetMem(s, new.mem)
  OBVIOUS
<1>3. IsState(u) /\ u.vec = s.vec /\ u.mem = new.mem
  BY <1>1, <1>u, SetMemGives
<1>4. DOMAIN u.mem[b] = 0 .. (cap - 1) /\ \A k \in 0 .. (cap - 1) : u.mem[b][k] = Raw
  BY <1>2, <1>3
<1>5. Opened(s, u, b, Len(r))
  <2>1. \A k \in 0 .. (Len(r) - 1) : k \in DOMAIN u.mem[b] /\ u.mem[b][k] = Raw
    BY <1>1, <1>4
  <2>2. DOMAIN u.mem[b] \subseteq Nat
    BY <1>1, <1>4
  <2> QED
    BY <1>2, <1>3, <2>1, <2>2 DEF Opened
<1>v. PICK v : v = MoveElementsForGrow(u, x, <<b, 0>>)
  OBVIOUS
<1>6. Emptied(s, u, v, x, b, r)
  BY <1>a, <1>v, <1>2, <1>5, MoveElementsGives
<1>7. /\ IsState(v) /\ v.vec = s.vec /\ Vacated(s, v.mem, x, b)
      /\ DOMAIN v.mem[b] = 0 .. (cap - 1)
  BY <1>4, <1>6 DEF Emptied
<1>8. HoldsCells(v.mem, b, r)
  <2> SUFFICES ASSUME NEW k \in 0 .. (cap - 1)
               PROVE  v.mem[b][k] = IF k < Len(r) THEN r[k + 1] ELSE Raw
    BY <1>7 DEF HoldsCells
  <2> QED
    BY <1>4, <1>6 DEF Emptied
<1>t. PICK t : t = TakeAllocation(v, x, <<b, 0>>, cap)
  OBVIOUS
<1>9. Resized(s, v, x)
  BY <1>7 DEF Resized
<1>10. b \in Buffers
  BY DEF Buffers
<1>11. Relocated(s, t, x, b, cap) /\ t.vec[x].size = v.vec[x].size
  BY <1>1, <1>t, <1>9, <1>10, TakeAllocationGives
<1>12. t.vec[x].size = Len(r)
  BY <1>1, <1>7, <1>11
<1>13. Sound(t, [q EXCEPT ![x] = r])
  BY <1>t, <1>1, <1>2, <1>7, <1>8, <1>9, <1>11, <1>12, TakeAllocationIsSound
<1>14. [q EXCEPT ![x] = r] = q
  BY <1>a DEF Sound
<1>15. Grow(s, x, min) = t
  BY <1>a, <1>n, <1>2, <1>u, <1>v, <1>t DEF Grow
<1>16. Grown(s, t, x, min)
  BY <1>1, <1>11, <1>12 DEF Relocated, Grown
<1> QED
  BY <1>13, <1>14, <1>15, <1>16

\* reserve keeps what the vectors hold, if it does not throw.
LEMMA ReserveIsSound ==
    ASSUME NEW s, NEW q, Sound(s, q), NEW x \in Vectors, NEW n \in Nat, ~Throws(s, x, n)
    PROVE  Sound(Reserve(s, x, n), q) /\ Grown(s, Reserve(s, x, n), x, n)
<1>1. s.vec[x].capacity \in Nat /\ SizeTypeMax \in Nat
  BY SoundParts
<1>2. CASE Capacity(s, x) < n
  <2>1. n <= SizeTypeMax
    BY <1>1, <1>2 DEF Throws, Capacity
  <2> QED
    BY <1>2, <2>1, GrowIsSound DEF Reserve
<1>3. CASE ~(Capacity(s, x) < n)
  BY <1>1, <1>3 DEF Reserve, Grown, Capacity
<1> QED
  BY <1>2, <1>3

-----------------------------------------------------------------------------
(* Changes in place, and arguments.                                        *)

\* New contents of the buffer of x, with the size that goes with them.
LEMMA EditIsSound ==
    ASSUME NEW s, NEW q, Sound(s, q), NEW x \in Vectors, NEW m,
           OnlyIn(s.mem, m, s.vec[x].begin),
           NEW r \in Seq(Elements), Len(r) <= s.vec[x].capacity,
           HoldsCells(m, s.vec[x].begin, r)
    PROVE  Sound(SetSize(SetMem(s, m), x, Len(r)), [q EXCEPT ![x] = r])
<1>1. IsState(s) /\ Len(r) \in Nat
  BY SoundParts
<1>2. IsState(SetMem(s, m)) /\ SetMem(s, m).mem = m /\ SetMem(s, m).vec = s.vec
  BY <1>1, SetMemGives
<1>t. PICK t : t = SetSize(SetMem(s, m), x, Len(r))
  OBVIOUS
<1>3. Resized(SetMem(s, m), t, x) /\ t.mem = m /\ t.vec[x].size = Len(r)
  BY <1>1, <1>2, <1>t, SetSizeGives
<1>4. InPlace(s, t, x)
  BY <1>2, <1>3 DEF InPlace, Resized
<1>5. HoldsCells(t.mem, s.vec[x].begin, r)
  BY <1>3
<1> QED
  BY <1>3, <1>4, <1>5, <1>t, InPlaceIsSound

\* New contents of the buffer of x, as many as before.
LEMMA EditInSizeIsSound ==
    ASSUME NEW s, NEW q, Sound(s, q), NEW x \in Vectors, NEW m,
           OnlyIn(s.mem, m, s.vec[x].begin),
           NEW r \in Seq(Elements), Len(r) = s.vec[x].size,
           HoldsCells(m, s.vec[x].begin, r)
    PROVE  Sound(SetMem(s, m), [q EXCEPT ![x] = r])
<1>1. IsState(s) /\ s.vec[x].size <= s.vec[x].capacity
  BY SoundParts
<1>t. PICK t : t = SetMem(s, m)
  OBVIOUS
<1>2. IsState(t) /\ t.mem = m /\ t.vec = s.vec
  BY <1>1, <1>t, SetMemGives
<1>3. InPlace(s, t, x)
  BY <1>2 DEF InPlace, Resized
<1>4. HoldsCells(t.mem, s.vec[x].begin, r)
  BY <1>2
<1> QED
  BY <1>1, <1>2, <1>3, <1>4, <1>t, InPlaceIsSound

\* x has the size n in t; its capacity, and the other headers, are those in s.
Shrunk(s, t, x, n) ==
    /\ t.vec[x].size = n /\ t.vec[x].capacity = s.vec[x].capacity
    /\ t.vec[x].begin = s.vec[x].begin
    /\ \A y \in Vectors : y # x => t.vec[y] = s.vec[y]

\* Destroying the elements above n.
LEMMA DestroyFromIsSound ==
    ASSUME NEW s, NEW q, Sound(s, q), NEW x \in Vectors, NEW n \in 0 .. Len(q[x])
    PROVE  /\ Sound(DestroyFrom(s, x, n), [q EXCEPT ![x] = SubSeq(q[x], 1, n)])
           /\ Shrunk(s, DestroyFrom(s, x, n), x, n)
<1>a. PICK b, size, r : b = s.vec[x].begin /\ size = s.vec[x].size /\ r = q[x]
  OBVIOUS
<1>1. /\ b \in Buffers /\ size \in Nat /\ r \in Seq(Elements) /\ Len(r) = size
      /\ HoldsCells(s.mem, b, r) /\ IsState(s) /\ DOMAIN s.mem[b] \subseteq Nat
      /\ size <= s.vec[x].capacity /\ s.vec[x].capacity \in Nat
  BY <1>a, SoundParts
<1>2. /\ n \in Nat /\ size - n \in Nat /\ n <= size /\ n + (size - n) - 1 = size - 1
      /\ Len(q[x]) = size
  <2>1. Len(q[x]) = size
    BY <1>1, <1>a
  <2>2. n \in 0 .. size
    BY <2>1
  <2> QED
    BY <1>1, <2>1, <2>2
<1>3. Live(s.mem, b, n, size - n)
  <2> SUFFICES ASSUME NEW k \in n .. (n + (size - n) - 1)
               PROVE  k \in DOMAIN s.mem[b] /\ Alive(s.mem[b][k])
    BY DEF Live
  <2>1. k \in 0 .. (Len(q[x]) - 1)
    BY <1>1, <1>2
  <2>2. /\ k \in DOMAIN s.mem[s.vec[x].begin] /\ s.mem[s.vec[x].begin][k] = q[x][k + 1]
        /\ q[x][k + 1] \in Elements
    BY <2>1, SoundParts
  <2> QED
    BY <1>a, <2>2, Marks
<1>m. PICK m : m = Destroy(s.mem, <<b, n>>, size - n)
  OBVIOUS
<1>4. b \in DOMAIN s.mem
  BY <1>1 DEF Sound, MemoryOK
<1>5. /\ OnlyIn(s.mem, m, b)
      /\ \A k \in DOMAIN s.mem[b] :
            m[b][k] = IF k \in n .. (size - 1) THEN Raw ELSE s.mem[b][k]
  <2>1. /\ OnlyIn(s.mem, m, b)
        /\ \A k \in DOMAIN s.mem[b] :
            m[b][k] = IF k \in n .. (n + (size - n) - 1) THEN Raw ELSE s.mem[b][k]
    BY <1>2, <1>3, <1>4, <1>m, DestroyGives
  <2> QED
    BY <1>2, <2>1
<1>6. /\ SubSeq(r, 1, n) \in Seq(Elements) /\ Len(SubSeq(r, 1, n)) = n
      /\ \A k \in 1 .. n : SubSeq(r, 1, n)[k] = r[k]
  BY <1>1, <1>2
<1>7. HoldsCells(m, b, SubSeq(r, 1, n))
  <2> SUFFICES ASSUME NEW k \in DOMAIN s.mem[b]
               PROVE  m[b][k] = IF k < n THEN SubSeq(r, 1, n)[k + 1] ELSE Raw
    BY <1>5, <1>6 DEF HoldsCells, OnlyIn
  <2>1. k \in Nat /\ s.mem[b][k] = IF k < size THEN r[k + 1] ELSE Raw
    BY <1>1 DEF HoldsCells
  <2>2. CASE k < n
    <3>1. m[b][k] = r[k + 1]
      BY <1>2, <1>5, <2>1, <2>2
    <3> QED
      BY <1>2, <1>6, <2>1, <2>2, <3>1
  <2>3. CASE ~(k < n)
    BY <1>2, <1>5, <2>1, <2>3
  <2> QED
    BY <2>2, <2>3
<1>8. DestroyFrom(s, x, n) = SetSize(SetMem(s, m), x, n)
  BY <1>a, <1>m DEF DestroyFrom, At, Size
<1>9. Sound(SetSize(SetMem(s, m), x, n), [q EXCEPT ![x] = SubSeq(r, 1, n)])
  <2>1. n <= s.vec[x].capacity
    BY <1>1, <1>2
  <2> QED
    BY <1>a, <1>5, <1>6, <1>7, <2>1, EditIsSound
<1>10. IsState(SetMem(s, m)) /\ SetMem(s, m).vec = s.vec
  BY <1>1, SetMemGives
<1>11. Resized(SetMem(s, m), SetSize(SetMem(s, m), x, n), x)
       /\ SetSize(SetMem(s, m), x, n).vec[x].size = n
  BY <1>2, <1>10, SetSizeGives
<1>12. Shrunk(s, SetSize(SetMem(s, m), x, n), x, n)
  BY <1>10, <1>11 DEF Resized, Shrunk
<1> QED
  BY <1>a, <1>8, <1>9, <1>12

\* p is a value, or (for i >= 0) the address of an element of x; v is what it gives.
Denotes(s, q, x, p, i, v) ==
    IF i = -1 THEN p \in Elements /\ v = p
    ELSE i \in 0 .. (Len(q[x]) - 1) /\ p = At(s, x, i) /\ v = q[x][i + 1]

\* Reading an argument.
LEMMA ElemGives ==
    ASSUME NEW s, NEW q, Sound(s, q), NEW x \in Vectors, NEW p, NEW i, NEW v,
           Denotes(s, q, x, p, i, v)
    PROVE  /\ Elem(s.mem, p) = v /\ v \in Elements /\ Alive(v)
           /\ IsValue(p) <=> i = -1
<1>1. CASE i = -1
  BY <1>1, Marks DEF Denotes, Elem
<1>2. CASE i # -1
  <2>1. i \in 0 .. (Len(q[x]) - 1) /\ p = <<s.vec[x].begin, i>> /\ v = q[x][i + 1]
    BY <1>2 DEF Denotes, At
  <2>2. i \in 0 .. SizeTypeMax
    <3>1. Len(q[x]) = s.vec[x].size /\ s.vec[x].size \in Nat /\ s.vec[x].size <= s.vec[x].capacity
          /\ s.vec[x].capacity \in Nat /\ s.vec[x].capacity <= SizeTypeMax
      BY SoundParts
    <3> QED
      BY <2>1, <3>1, SizesAssumption
  <2>3. ~IsValue(p)
    BY <2>1, <2>2, SoundParts
  <2>4. i \in DOMAIN s.mem[s.vec[x].begin] /\ s.mem[s.vec[x].begin][i] = v /\ v \in Elements
    BY <2>1, SoundParts
  <2> QED
    BY <1>2, <2>1, <2>3, <2>4, Marks DEF Elem
<1> QED
  BY <1>1, <1>2

\* reserveForParam carries the address over.
LEMMA ReserveForParamIsSound ==
    ASSUME NEW s, NEW q, Sound(s, q), NEW x \in Vectors, NEW n \in Nat,
           ~Throws(s, x, Size(s, x) + n),
           NEW p, NEW i, NEW v, Denotes(s, q, x, p, i, v)
    PROVE  LET r == ReserveForParam(s, x, p, n)
           IN  /\ Sound(r.s, q) /\ Grown(s, r.s, x, Size(s, x) + n)
               /\ Denotes(r.s, q, x, r.p, i, v)
<1>1. s.vec[x].size \in Nat
  BY SoundParts
<1>t. PICK t : t = Reserve(s, x, Size(s, x) + n)
  OBVIOUS
<1>2. Sound(t, q) /\ Grown(s, t, x, Size(s, x) + n)
  BY <1>1, <1>t, ReserveIsSound DEF Size
<1>r. PICK r : r = ReserveForParam(s, x, p, n)
  OBVIOUS
<1>3. r.s = t /\ r.p = IF IsOwn(s, x, p) THEN At(t, x, p[2]) ELSE p
  BY <1>t, <1>r DEF ReserveForParam
<1>4. IsValue(p) <=> i = -1
  BY ElemGives
<1>5. Denotes(t, q, x, r.p, i, v)
  <2>1. CASE i = -1
    BY <1>3, <1>4, <2>1 DEF Denotes, IsOwn
  <2>2. CASE i # -1
    <3>1. i \in 0 .. (Len(q[x]) - 1) /\ p = <<s.vec[x].begin, i>> /\ v = q[x][i + 1]
      BY <2>2 DEF Denotes, At
    <3>2. IsOwn(s, x, p) /\ p[2] = i
      BY <1>4, <2>2, <3>1 DEF IsOwn
    <3> QED
      BY <1>3, <2>2, <3>1, <3>2 DEF Denotes
  <2> QED
    BY <2>1, <2>2
<1> QED
  BY <1>2, <1>3, <1>5, <1>r

-----------------------------------------------------------------------------
(* Adding at the end.                                                      *)

\* The cells between the size and the capacity are raw.
LEMMA RoomIsReady ==
    ASSUME NEW s, NEW q, Sound(s, q), NEW x \in Vectors, NEW n \in Nat,
           s.vec[x].size + n <= s.vec[x].capacity
    PROVE  Ready(Construct, s.mem, s.vec[x].begin, s.vec[x].size, n)
<1>a. PICK b, size, cap : b = s.vec[x].begin /\ size = s.vec[x].size /\ cap = s.vec[x].capacity
  OBVIOUS
<1>1. /\ size \in Nat /\ cap \in Nat /\ size + n <= cap
      /\ 0 .. (cap - 1) \subseteq DOMAIN s.mem[b] /\ HoldsCells(s.mem, b, q[x]) /\ Len(q[x]) = size
  BY <1>a, SoundParts
<1>2. ASSUME NEW k \in size .. (size + n - 1)
      PROVE  k \in DOMAIN s.mem[b] /\ s.mem[b][k] = Raw
  <2>1. k \in 0 .. (cap - 1) /\ ~(k < size)
    BY <1>1
  <2> QED
    BY <1>1, <2>1 DEF HoldsCells
<1> QED
  BY <1>a, <1>2 DEF Ready

\* Two sequences one after the other.
LEMMA Joining ==
    ASSUME NEW a \in Seq(Elements), NEW b \in Seq(Elements)
    PROVE  /\ a \o b \in Seq(Elements) /\ Len(a \o b) = Len(a) + Len(b)
           /\ Len(a) \in Nat /\ Len(b) \in Nat
           /\ \A k \in 1 .. Len(a) : (a \o b)[k] = a[k]
           /\ \A k \in 1 .. Len(b) : (a \o b)[Len(a) + k] = b[k]
<1>1. /\ a \o b \in Seq(Elements) /\ Len(a \o b) = Len(a) + Len(b)
      /\ \A k \in 1 .. (Len(a) + Len(b)) : (a \o b)[k] = IF k <= Len(a) THEN a[k] ELSE b[k - Len(a)]
  BY ConcatProperties
<1>2. Len(a) \in Nat /\ Len(b) \in Nat
  OBVIOUS
<1>3. \A k \in 1 .. Len(a) : (a \o b)[k] = a[k]
  BY <1>1, <1>2
<1>4. ASSUME NEW k \in 1 .. Len(b)
      PROVE  (a \o b)[Len(a) + k] = b[k]
  <2>1. Len(a) + k \in 1 .. (Len(a) + Len(b)) /\ ~(Len(a) + k <= Len(a)) /\ Len(a) + k - Len(a) = k
    BY <1>2
  <2> QED
    BY <1>1, <2>1
<1> QED
  BY <1>1, <1>2, <1>3, <1>4

\* The cells of a buffer that held r and got the elements of e behind them.
Extended(m, w, b, r, e) ==
    /\ OnlyIn(m, w, b)
    /\ \A k \in DOMAIN m[b] :
            w[b][k] = IF k \in Len(r) .. (Len(r) + Len(e) - 1) THEN e[k - Len(r) + 1] ELSE m[b][k]

\* They hold both sequences.
LEMMA ExtendedHolds ==
    ASSUME NEW m, NEW w, NEW b, NEW r \in Seq(Elements), NEW e \in Seq(Elements),
           HoldsCells(m, b, r), Extended(m, w, b, r, e), DOMAIN m[b] \subseteq Nat
    PROVE  HoldsCells(w, b, r \o e)
<1>1. /\ Len(r) \in Nat /\ Len(e) \in Nat /\ Len(r \o e) = Len(r) + Len(e)
      /\ \A k \in 1 .. Len(r) : (r \o e)[k] = r[k]
      /\ \A k \in 1 .. Len(e) : (r \o e)[Len(r) + k] = e[k]
  BY Joining
<1> SUFFICES ASSUME NEW k \in DOMAIN m[b]
             PROVE  w[b][k] = IF k < Len(r \o e) THEN (r \o e)[k + 1] ELSE Raw
  BY DEF HoldsCells, Extended, OnlyIn
<1>2. /\ k \in Nat /\ m[b][k] = IF k < Len(r) THEN r[k + 1] ELSE Raw
      /\ w[b][k] = IF k \in Len(r) .. (Len(r) + Len(e) - 1) THEN e[k - Len(r) + 1] ELSE m[b][k]
  BY DEF HoldsCells, Extended
<1>3. CASE k < Len(r)
  <2>1. k + 1 \in 1 .. Len(r)
    BY <1>1, <1>2, <1>3
  <2> QED
    BY <1>1, <1>2, <1>3, <2>1
<1>4. CASE k >= Len(r) /\ k < Len(r) + Len(e)
  <2>1. k - Len(r) + 1 \in 1 .. Len(e) /\ Len(r) + (k - Len(r) + 1) = k + 1
    BY <1>1, <1>2, <1>4
  <2>2. (r \o e)[k + 1] = e[k - Len(r) + 1]
    BY <1>1, <2>1
  <2> QED
    BY <1>1, <1>2, <1>4, <2>2
<1>5. CASE k >= Len(r) + Len(e)
  BY <1>1, <1>2, <1>5
<1> QED
  BY <1>1, <1>2, <1>3, <1>4, <1>5

\* A sound state whose buffer was extended.
LEMMA ExtendIsSound ==
    ASSUME NEW s, NEW q, Sound(s, q), NEW x \in Vectors, NEW m, NEW e \in Seq(Elements),
           s.vec[x].size + Len(e) <= s.vec[x].capacity,
           Extended(s.mem, m, s.vec[x].begin, q[x], e)
    PROVE  Sound(SetSize(SetMem(s, m), x, s.vec[x].size + Len(e)), [q EXCEPT ![x] = q[x] \o e])
<1>1. /\ q[x] \in Seq(Elements) /\ Len(q[x]) = s.vec[x].size
      /\ HoldsCells(s.mem, s.vec[x].begin, q[x]) /\ DOMAIN s.mem[s.vec[x].begin] \subseteq Nat
  BY SoundParts
<1>2. HoldsCells(m, s.vec[x].begin, q[x] \o e)
  BY <1>1, ExtendedHolds
<1>3. q[x] \o e \in Seq(Elements) /\ Len(q[x] \o e) = s.vec[x].size + Len(e)
  BY <1>1, Joining
<1>4. OnlyIn(s.mem, m, s.vec[x].begin)
  BY DEF Extended
<1> QED
  BY <1>2, <1>3, <1>4, EditIsSound

\* n copies of v.
LEMMA Repetition ==
    ASSUME NEW n \in Nat, NEW v \in Elements
    PROVE  /\ Repeat(n, v) \in Seq(Elements) /\ Len(Repeat(n, v)) = n
           /\ \A k \in 1 .. n : Repeat(n, v)[k] = v
BY DEF Repeat

\* Adding n copies of an argument.
LEMMA AddCopiesIsSound ==
    ASSUME NEW s, NEW q, Sound(s, q), NEW x \in Vectors, NEW n \in Nat,
           s.vec[x].size + n <= s.vec[x].capacity,
           NEW p, NEW i, NEW v, Denotes(s, q, x, p, i, v)
    PROVE  Sound(AddAtEnd(s, x, n, p, FALSE), [q EXCEPT ![x] = q[x] \o Repeat(n, v)])
<1>a. PICK b, size : b = s.vec[x].begin /\ size = s.vec[x].size
  OBVIOUS
<1>1. /\ size \in Nat /\ Len(q[x]) = size /\ b \in DOMAIN s.mem
  BY <1>a, SoundParts DEF MemoryOK
<1>2. Elem(s.mem, p) = v /\ v \in Elements /\ Alive(v)
  BY ElemGives
<1>m. PICK m : m = Fill(s.mem, <<b, size>>, n, p, Construct)
  OBVIOUS
<1>3. Construct \in Ways
  BY DEF Ways
<1>4. Ready(Construct, s.mem, b, size, n)
  BY <1>a, RoomIsReady
<1>5. /\ OnlyIn(s.mem, m, b)
      /\ \A k \in DOMAIN s.mem[b] : m[b][k] = IF k \in size .. (size + n - 1) THEN v ELSE s.mem[b][k]
  BY <1>1, <1>2, <1>3, <1>4, <1>m, FillGives
<1>6. /\ Repeat(n, v) \in Seq(Elements) /\ Len(Repeat(n, v)) = n
      /\ \A k \in 1 .. n : Repeat(n, v)[k] = v
  BY <1>2, Repetition
<1>7. Extended(s.mem, m, b, q[x], Repeat(n, v))
  <2>1. ASSUME NEW k \in size .. (size + n - 1)
        PROVE  Repeat(n, v)[k - size + 1] = v
    <3>1. k - size + 1 \in 1 .. n
      BY <1>1
    <3> QED
      BY <1>6, <3>1
  <2> QED
    BY <1>1, <1>5, <1>6, <2>1 DEF Extended
<1>8. AddAtEnd(s, x, n, p, FALSE) = SetSize(SetMem(s, m), x, size + n)
  BY <1>a, <1>m DEF AddAtEnd, EndOf, At, Size
<1>9. PICK e \in Seq(Elements) : e = Repeat(n, v) /\ Len(e) = n
  BY <1>6
<1>10. Sound(SetSize(SetMem(s, m), x, s.vec[x].size + Len(e)), [q EXCEPT ![x] = q[x] \o e])
  BY <1>a, <1>7, <1>9, ExtendIsSound
<1> QED
  BY <1>a, <1>8, <1>9, <1>10

\* r without what a move of its element i takes; i = -1 is a value elsewhere.
MovedAway(r, i) == IF i = -1 \/ kind # "object" THEN r ELSE [r EXCEPT ![i + 1] = Moved]

\* One element was moved from.
LEMMA MovedAwayShape ==
    ASSUME NEW r \in Seq(Elements), NEW i \in -1 .. (Len(r) - 1)
    PROVE  /\ MovedAway(r, i) \in Seq(Elements) /\ Len(MovedAway(r, i)) = Len(r)
           /\ \A k \in 1 .. Len(r) :
                MovedAway(r, i)[k] = IF i # -1 /\ k = i + 1 THEN LeftOf(r[k]) ELSE r[k]
BY DEF MovedAway, LeftOf, Elements

-----------------------------------------------------------------------------
(* Writing, leaving and transferring elements of whole vectors.            *)

\* r with the elements of e from o on.
Over(r, o, e) == [k \in 1 .. Len(r) |-> IF k \in (o + 1) .. (o + Len(e)) THEN e[k - o] ELSE r[k]]

\* r with n elements moved from, behind the first f.
Left(r, f, n) == [k \in 1 .. Len(r) |-> IF k \in (f + 1) .. (f + n) THEN LeftOf(r[k]) ELSE r[k]]

\* The elements that val gives.
Gives(val, e) == \A k \in 0 .. (Len(e) - 1) : val[k] = e[k + 1]

\* Sequences with the same elements are the same.
LEMMA SameElements ==
    ASSUME NEW a \in Seq(Elements), NEW b \in Seq(Elements), Len(a) = Len(b),
           \A k \in 1 .. Len(a) : a[k] = b[k]
    PROVE  a = b
OBVIOUS

\* It keeps the length, and holds e there and r elsewhere.
LEMMA OverShape ==
    ASSUME NEW r \in Seq(Elements), NEW e \in Seq(Elements), NEW o \in Nat
    PROVE  /\ Over(r, o, e) \in Seq(Elements) /\ Len(Over(r, o, e)) = Len(r)
           /\ \A k \in 1 .. Len(r) :
                Over(r, o, e)[k] = IF k \in (o + 1) .. (o + Len(e)) THEN e[k - o] ELSE r[k]
<1>1. Len(r) \in Nat /\ Len(e) \in Nat
  OBVIOUS
<1>2. ASSUME NEW k \in 1 .. Len(r)
      PROVE  (IF k \in (o + 1) .. (o + Len(e)) THEN e[k - o] ELSE r[k]) \in Elements
  <2>1. CASE k \in (o + 1) .. (o + Len(e))
    <3>1. k - o \in 1 .. Len(e)
      BY <1>1, <2>1
    <3> QED
      BY <2>1, <3>1
  <2>2. CASE k \notin (o + 1) .. (o + Len(e))
    BY <2>2
  <2> QED
    BY <2>1, <2>2
<1> QED
  BY <1>1, <1>2 DEF Over

\* It keeps the length, and what a move leaves stands there.
LEMMA LeftShape ==
    ASSUME NEW r \in Seq(Elements), NEW f \in Nat, NEW n \in Nat
    PROVE  /\ Left(r, f, n) \in Seq(Elements) /\ Len(Left(r, f, n)) = Len(r)
           /\ \A k \in 1 .. Len(r) :
                Left(r, f, n)[k] = IF k \in (f + 1) .. (f + n) THEN LeftOf(r[k]) ELSE r[k]
<1>1. \A v \in Elements : LeftOf(v) \in Elements
  BY DEF LeftOf, Elements
<1> QED
  BY <1>1 DEF Left

\* Live values of a sequence.
LEMMA GivesLive ==
    ASSUME NEW e \in Seq(Elements), NEW val, Gives(val, e)
    PROVE  \A k \in 0 .. (Len(e) - 1) : Alive(val[k])
<1> SUFFICES ASSUME NEW k \in 0 .. (Len(e) - 1)
             PROVE  Alive(val[k])
  OBVIOUS
<1>1. val[k] = e[k + 1] /\ k + 1 \in 1 .. Len(e)
  BY DEF Gives
<1>2. e[k + 1] \in Elements
  BY <1>1
<1> QED
  BY <1>1, <1>2, Marks

\* The cells of the elements of a vector may be assigned.
LEMMA ElementsAreReady ==
    ASSUME NEW s, NEW q, Sound(s, q), NEW x \in Vectors, NEW o \in Nat, NEW n \in Nat,
           o + n <= Len(q[x])
    PROVE  Ready(Assign, s.mem, s.vec[x].begin, o, n)
<1>1. Len(q[x]) \in Nat
  BY SoundParts
<1>2. ASSUME NEW k \in o .. (o + n - 1)
      PROVE  k \in DOMAIN s.mem[s.vec[x].begin] /\ Alive(s.mem[s.vec[x].begin][k])
  <2>1. k \in 0 .. (Len(q[x]) - 1)
    BY <1>1
  <2>2. k \in DOMAIN s.mem[s.vec[x].begin] /\ s.mem[s.vec[x].begin][k] \in Elements
    BY <2>1, SoundParts
  <2> QED
    BY <2>2, Marks
<1>3. Construct # Assign
  BY DEF Construct, Assign
<1> QED
  BY <1>2, <1>3 DEF Ready

\* Assigning new values to elements.
LEMMA WriteOverIsSound ==
    ASSUME NEW s, NEW q, Sound(s, q), NEW x \in Vectors, NEW o \in Nat, NEW e \in Seq(Elements),
           o + Len(e) <= Len(q[x]), NEW val, Gives(val, e)
    PROVE  Sound(SetMem(s, Write(s.mem, At(s, x, o), Len(e), val, Assign)),
                 [q EXCEPT ![x] = Over(q[x], o, e)])
<1>a. PICK b, n, r : b = s.vec[x].begin /\ n = Len(e) /\ r = q[x]
  OBVIOUS
<1>1. /\ n \in Nat /\ r \in Seq(Elements) /\ Len(r) = s.vec[x].size /\ Len(r) \in Nat
      /\ b \in DOMAIN s.mem /\ HoldsCells(s.mem, b, r) /\ DOMAIN s.mem[b] \subseteq Nat
      /\ o + n <= Len(r)
  BY <1>a, SoundParts DEF MemoryOK
<1>2. Ready(Assign, s.mem, b, o, n) /\ Assign \in Ways
  BY <1>a, <1>1, ElementsAreReady DEF Ways
<1>3. \A k \in 0 .. (n - 1) : Alive(val[k])
  BY <1>a, GivesLive
<1>m. PICK m : m = Write(s.mem, <<b, o>>, n, val, Assign)
  OBVIOUS
<1>4. MayPut(Assign, s.mem, b, o, n, val)
  BY <1>1, <1>2, <1>3, ReadyToPut
<1>5. Wrote(s.mem, m, b, o, n, val)
  BY <1>1, <1>4, <1>m, WriteGives
<1>r. PICK t \in Seq(Elements) :
        /\ t = Over(q[x], o, e) /\ Len(t) = Len(r)
        /\ \A k \in 1 .. Len(r) : t[k] = IF k \in (o + 1) .. (o + n) THEN e[k - o] ELSE r[k]
  BY <1>a, <1>1, OverShape
<1>6. HoldsCells(m, b, t)
  <2> SUFFICES ASSUME NEW k \in DOMAIN s.mem[b]
               PROVE  m[b][k] = IF k < Len(r) THEN t[k + 1] ELSE Raw
    BY <1>5, <1>r DEF HoldsCells, Wrote, OnlyIn
  <2>0. k \in Nat /\ o + n <= Len(r) /\ n \in Nat /\ Len(r) \in Nat
    BY <1>1
  <2>1. /\ s.mem[b][k] = IF k < Len(r) THEN r[k + 1] ELSE Raw
        /\ m[b][k] = IF k \in o .. (o + n - 1) THEN val[k - o] ELSE s.mem[b][k]
    BY <1>1, <1>5 DEF HoldsCells, Wrote
  <2>2. CASE k \in o .. (o + n - 1)
    <3>1. k < Len(r) /\ k + 1 \in 1 .. Len(r) /\ k + 1 \in (o + 1) .. (o + n)
          /\ k - o \in 0 .. (n - 1) /\ k + 1 - o = k - o + 1
      BY <2>0, <2>2
    <3>2. val[k - o] = e[k - o + 1]
      BY <1>a, <3>1 DEF Gives
    <3> QED
      BY <1>r, <2>1, <2>2, <3>1, <3>2
  <2>3. CASE k \notin o .. (o + n - 1) /\ k < Len(r)
    <3>1. k + 1 \in 1 .. Len(r) /\ k + 1 \notin (o + 1) .. (o + n)
      BY <2>0, <2>3
    <3> QED
      BY <1>r, <2>1, <2>3, <3>1
  <2>4. CASE ~(k < Len(r))
    <3>1. k \notin o .. (o + n - 1)
      BY <2>0, <2>4
    <3> QED
      BY <2>1, <2>4, <3>1
  <2> QED
    BY <2>2, <2>3, <2>4
<1>7. OnlyIn(s.mem, m, b)
  BY <1>5 DEF Wrote
<1>8. Sound(SetMem(s, m), [q EXCEPT ![x] = t])
  BY <1>a, <1>1, <1>6, <1>7, <1>r, EditInSizeIsSound
<1> QED
  BY <1>a, <1>8, <1>m, <1>r DEF At

\* Constructing new elements behind the last.
LEMMA WriteEndIsSound ==
    ASSUME NEW s, NEW q, Sound(s, q), NEW x \in Vectors, NEW e \in Seq(Elements),
           s.vec[x].size + Len(e) <= s.vec[x].capacity, NEW val, Gives(val, e)
    PROVE  Sound(SetSize(SetMem(s, Write(s.mem, EndOf(s, x), Len(e), val, Construct)),
                         x, s.vec[x].size + Len(e)),
                 [q EXCEPT ![x] = q[x] \o e])
<1>a. PICK b, n, size : b = s.vec[x].begin /\ n = Len(e) /\ size = s.vec[x].size
  OBVIOUS
<1>1. n \in Nat /\ Len(q[x]) = size /\ size \in Nat /\ b \in DOMAIN s.mem
  BY <1>a, SoundParts DEF MemoryOK
<1>2. Ready(Construct, s.mem, b, size, n) /\ Construct \in Ways
  BY <1>a, <1>1, RoomIsReady DEF Ways
<1>3. \A k \in 0 .. (n - 1) : Alive(val[k])
  BY <1>a, GivesLive
<1>m. PICK m : m = Write(s.mem, <<b, size>>, n, val, Construct)
  OBVIOUS
<1>4. MayPut(Construct, s.mem, b, size, n, val)
  BY <1>1, <1>2, <1>3, ReadyToPut
<1>5. Wrote(s.mem, m, b, size, n, val)
  BY <1>1, <1>4, <1>m, WriteGives
<1>6. ASSUME NEW k \in size .. (size + n - 1)
      PROVE  val[k - size] = e[k - size + 1]
  <2>1. k - size \in 0 .. (n - 1)
    BY <1>1
  <2> QED
    BY <1>a, <2>1 DEF Gives
<1>7. Extended(s.mem, m, b, q[x], e)
  BY <1>a, <1>1, <1>5, <1>6 DEF Wrote, Extended
<1>8. Sound(SetSize(SetMem(s, m), x, s.vec[x].size + Len(e)), [q EXCEPT ![x] = q[x] \o e])
  BY <1>a, <1>7, ExtendIsSound
<1> QED
  BY <1>a, <1>8, <1>m DEF EndOf, At, Size

\* The n elements of r behind the first f.
Slice(r, f, n) == SubSeq(r, f + 1, f + n)

\* It has n elements, those of r behind o.
LEMMA SliceShape ==
    ASSUME NEW r \in Seq(Elements), NEW f \in Nat, NEW n \in Nat, f + n <= Len(r)
    PROVE  /\ Slice(r, f, n) \in Seq(Elements) /\ Len(Slice(r, f, n)) = n
           /\ \A k \in 1 .. n : Slice(r, f, n)[k] = r[f + k]
<1>1. /\ Len(r) \in Nat
      /\ \A k \in (f + 1) .. (f + n) : k \in 1 .. Len(r)
      /\ (IF f + 1 <= f + n THEN f + n - (f + 1) + 1 ELSE 0) = n
      /\ \A k \in 1 .. n : f + 1 + k - 1 = f + k
      /\ f + 1 \in Int /\ f + n \in Int /\ f + n - (f + 1) + 1 = n
  OBVIOUS
<1>2. /\ SubSeq(r, f + 1, f + n) \in Seq(Elements)
      /\ Len(SubSeq(r, f + 1, f + n)) = IF f + 1 <= f + n THEN f + n - (f + 1) + 1 ELSE 0
      /\ \A k \in 1 .. (f + n - (f + 1) + 1) : SubSeq(r, f + 1, f + n)[k] = r[f + 1 + k - 1]
  BY <1>1, SubSeqProperties
<1> QED
  BY <1>1, <1>2 DEF Slice

\* The n elements of y behind the first f, in its sequence r and as a transfer
\* reads them.
Reads(s, r, y, f, n) ==
    /\ Slice(r, f, n) \in Seq(Elements)
    /\ Len(Slice(r, f, n)) = n
    /\ \A k \in 1 .. n : Slice(r, f, n)[k] = r[f + k]
    /\ \A k \in 0 .. (n - 1) : Elem(s.mem, At(s, y, f + k)) = r[f + k + 1]
    /\ ~IsValue(At(s, y, f))

\* A transfer reads the elements of the sequence.
LEMMA RangeGives ==
    ASSUME NEW s, NEW q, Sound(s, q), NEW y \in Vectors, NEW f \in Nat, NEW n \in Nat,
           f + n <= Len(q[y])
    PROVE  Reads(s, q[y], y, f, n)
<1>1. /\ q[y] \in Seq(Elements) /\ Len(q[y]) \in Nat /\ Len(q[y]) <= SizeTypeMax /\ SizeTypeMax \in Nat
  BY SoundParts
<1>2. /\ Slice(q[y], f, n) \in Seq(Elements) /\ Len(Slice(q[y], f, n)) = n
      /\ \A k \in 1 .. n : Slice(q[y], f, n)[k] = q[y][f + k]
  BY <1>1, SliceShape
<1>3. \A i \in 0 .. SizeTypeMax : ~IsValue(At(s, y, i))
  BY SoundParts DEF At
<1>4. f \in 0 .. SizeTypeMax
  BY <1>1
<1>5. ASSUME NEW k \in 0 .. (n - 1)
      PROVE  Elem(s.mem, At(s, y, f + k)) = q[y][f + k + 1]
  <2>1. f + k \in 0 .. (Len(q[y]) - 1) /\ f + k \in 0 .. SizeTypeMax
    BY <1>1
  <2>2. f + k \in DOMAIN s.mem[s.vec[y].begin] /\ s.mem[s.vec[y].begin][f + k] = q[y][f + k + 1]
    BY <2>1, SoundParts
  <2> QED
    BY <1>3, <2>1, <2>2 DEF Elem, At
<1> QED
  BY <1>2, <1>3, <1>4, <1>5 DEF Reads

\* Leaving the elements that are moved from.
LEMMA LeaveIsSound ==
    ASSUME NEW s, NEW q, Sound(s, q), NEW y \in Vectors, NEW f \in Nat, NEW n \in Nat,
           f + n <= Len(q[y])
    PROVE  Sound(SetMem(s, Leave(s.mem, At(s, y, f), n)), [q EXCEPT ![y] = Left(q[y], f, n)])
<1>1. IsState(s) /\ q[y] \in Seq(Elements) /\ Len(q[y]) \in Nat /\ DOMAIN q = Vectors
  BY SoundParts DEF Sound
<1>2. ~IsValue(At(s, y, f))
  <2>1. Reads(s, q[y], y, f, n)
    BY RangeGives
  <2> QED
    BY <2>1 DEF Reads
<1>r. PICK r \in Seq(Elements) : r = q[y]
  BY <1>1
<1>l. PICK l \in Seq(Elements) :
        /\ l = Left(r, f, n) /\ Len(l) = Len(r)
        /\ \A k \in 1 .. Len(r) : l[k] = IF k \in (f + 1) .. (f + n) THEN LeftOf(r[k]) ELSE r[k]
  BY LeftShape
<1>3. CASE kind # "object"
  <2>1. Leave(s.mem, At(s, y, f), n) = s.mem
    BY <1>3 DEF Leave
  <2>2. SetMem(s, s.mem) = s
    BY <1>1, SetMemGives DEF IsState
  <2>3. l = r
    <3>1. \A k \in 1 .. Len(r) : l[k] = r[k]
      BY <1>3, <1>l DEF LeftOf
    <3> QED
      BY <1>l, <3>1
  <2>4. [q EXCEPT ![y] = r] = q
    BY <1>1, <1>r DEF Sound
  <2> QED
    BY <1>r, <1>l, <2>1, <2>2, <2>3, <2>4
<1>4. CASE kind = "object"
  <2>1. PICK val : val = [k \in 0 .. (n - 1) |-> Moved]
    OBVIOUS
  <2>2. PICK e \in Seq(Elements) : e = Repeat(n, Moved) /\ Len(e) = n /\ \A k \in 1 .. n : e[k] = Moved
    BY Repetition DEF Elements
  <2>3. Gives(val, e)
    BY <2>1, <2>2 DEF Gives
  <2>4. Leave(s.mem, At(s, y, f), n) = Write(s.mem, At(s, y, f), n, val, Assign)
    BY <1>2, <1>4, <2>1 DEF Leave
  <2>5. Sound(SetMem(s, Leave(s.mem, At(s, y, f), n)), [q EXCEPT ![y] = Over(q[y], f, e)])
    BY <2>2, <2>3, <2>4, WriteOverIsSound
  <2>6. Over(q[y], f, e) = l
    <3>1. PICK t \in Seq(Elements) :
            /\ t = Over(r, f, e) /\ Len(t) = Len(r)
            /\ \A k \in 1 .. Len(r) : t[k] = IF k \in (f + 1) .. (f + n) THEN e[k - f] ELSE r[k]
      BY <2>2, OverShape
    <3>2. ASSUME NEW k \in 1 .. Len(r)
          PROVE  t[k] = l[k]
      <4>1. CASE k \in (f + 1) .. (f + n)
        <5>1. k - f \in 1 .. n
          BY <4>1
        <5> QED
          BY <1>4, <1>l, <2>2, <3>1, <4>1, <5>1 DEF LeftOf
      <4>2. CASE k \notin (f + 1) .. (f + n)
        BY <1>l, <3>1, <4>2
      <4> QED
        BY <4>1, <4>2
    <3> QED
      BY <1>r, <1>l, <3>1, <3>2
  <2> QED
    BY <1>r, <1>l, <2>5, <2>6
<1> QED
  BY <1>3, <1>4

\* The sequences when n elements of y behind the first f were taken.
Taken(q, y, f, n, rvalue) == IF rvalue THEN [q EXCEPT ![y] = Left(q[y], f, n)] ELSE q

\* A transfer of elements of y writes the values val over a memory m, in which
\* they are taken from y.
Takes(s, q, y, f, n, rvalue, to, how, m, val) ==
    /\ Sound(SetMem(s, m), Taken(q, y, f, n, rvalue))
    /\ Gives(val, Slice(q[y], f, n))
    /\ Transfer(s.mem, At(s, y, f), n, to, rvalue, how) = Write(m, to, n, val, how)

\* A transfer of elements of y to other cells takes them, and then writes.
LEMMA TransferTakes ==
    ASSUME NEW s, NEW q, Sound(s, q), NEW y \in Vectors, NEW f \in Nat, NEW n \in Nat,
           f + n <= Len(q[y]), NEW rvalue \in BOOLEAN, NEW to, NEW how,
           rvalue => to # At(s, y, f)
    PROVE  \E m, val : Takes(s, q, y, f, n, rvalue, to, how, m, val)
<1>1. /\ Len(Slice(q[y], f, n)) = n
      /\ \A k \in 1 .. n : Slice(q[y], f, n)[k] = q[y][f + k]
      /\ \A k \in 0 .. (n - 1) : Elem(s.mem, At(s, y, f + k)) = q[y][f + k + 1]
      /\ ~IsValue(At(s, y, f))
  <2>1. Reads(s, q[y], y, f, n)
    BY RangeGives
  <2> QED
    BY <2>1 DEF Reads
<1>2. PICK val : val = [k \in 0 .. (n - 1) |-> Elem(s.mem, At(s, y, f + k))]
  OBVIOUS
<1>3. Gives(val, Slice(q[y], f, n))
  <2>1. ASSUME NEW k \in 0 .. (n - 1)
        PROVE  val[k] = Slice(q[y], f, n)[k + 1]
    <3>1. k + 1 \in 1 .. n /\ f + (k + 1) = f + k + 1
      OBVIOUS
    <3> QED
      BY <1>1, <1>2, <3>1
  <2> QED
    BY <1>1, <2>1 DEF Gives
<1>4. CASE rvalue
  <2>1. PICK m : m = Leave(s.mem, At(s, y, f), n)
    OBVIOUS
  <2>2. Sound(SetMem(s, m), Taken(q, y, f, n, rvalue))
    BY <1>4, <2>1, LeaveIsSound DEF Taken
  <2>3. Transfer(s.mem, At(s, y, f), n, to, rvalue, how) = Write(m, to, n, val, how)
    BY <1>1, <1>2, <1>4, <2>1 DEF Transfer, At
  <2> QED
    BY <1>3, <2>2, <2>3 DEF Takes
<1>5. CASE ~rvalue
  <2>1. SetMem(s, s.mem) = s
    BY SetMemGives DEF Sound, IsState
  <2>2. Transfer(s.mem, At(s, y, f), n, to, rvalue, how) = Write(s.mem, to, n, val, how)
    BY <1>1, <1>2, <1>5 DEF Transfer, At
  <2>3. Sound(SetMem(s, s.mem), Taken(q, y, f, n, rvalue))
    BY <1>5, <2>1 DEF Taken
  <2> QED
    BY <1>3, <2>2, <2>3 DEF Takes
<1> QED
  BY <1>4, <1>5

\* What was taken leaves the lengths.
LEMMA TakenShape ==
    ASSUME NEW s, NEW q, Sound(s, q), NEW y \in Vectors, NEW f \in Nat, NEW n \in Nat,
           NEW rvalue \in BOOLEAN, NEW x \in Vectors
    PROVE  /\ Len(Taken(q, y, f, n, rvalue)[x]) = Len(q[x])
           /\ Taken(q, y, f, n, rvalue)[x] \in Seq(Elements)
           /\ DOMAIN Taken(q, y, f, n, rvalue) = Vectors
           /\ x # y \/ ~rvalue => Taken(q, y, f, n, rvalue)[x] = q[x]
<1>1. DOMAIN q = Vectors /\ q[x] \in Seq(Elements) /\ q[y] \in Seq(Elements)
  BY SoundParts DEF Sound
<1>2. Left(q[y], f, n) \in Seq(Elements) /\ Len(Left(q[y], f, n)) = Len(q[y])
  BY <1>1, LeftShape
<1> QED
  BY <1>1, <1>2 DEF Taken

\* A transfer over elements.
LEMMA TransferOverIsSound ==
    ASSUME NEW s, NEW q, Sound(s, q), NEW x \in Vectors, NEW y \in Vectors,
           NEW f \in Nat, NEW n \in Nat, f + n <= Len(q[y]),
           NEW o \in Nat, o + n <= Len(q[x]),
           NEW rvalue \in BOOLEAN, rvalue => x # y \/ o # f
    PROVE  Sound(SetMem(s, Transfer(s.mem, At(s, y, f), n, At(s, x, o), rvalue, Assign)),
                 [Taken(q, y, f, n, rvalue) EXCEPT
                    ![x] = Over(Taken(q, y, f, n, rvalue)[x], o, Slice(q[y], f, n))])
<1>1. IsState(s) /\ (s.vec[x].begin = s.vec[y].begin => x = y)
  BY DEF Sound, BlocksApart
<1>2. rvalue => At(s, x, o) # At(s, y, f)
  BY <1>1 DEF At
<1>t. \E m, val : Takes(s, q, y, f, n, rvalue, At(s, x, o), Assign, m, val)
  BY <1>2, TransferTakes
<1>v. PICK m, val : Takes(s, q, y, f, n, rvalue, At(s, x, o), Assign, m, val)
  BY <1>t
<1>3. /\ Sound(SetMem(s, m), Taken(q, y, f, n, rvalue))
       /\ Gives(val, Slice(q[y], f, n))
       /\ Transfer(s.mem, At(s, y, f), n, At(s, x, o), rvalue, Assign) = Write(m, At(s, x, o), n, val, Assign)
  BY <1>v DEF Takes
<1>4. Slice(q[y], f, n) \in Seq(Elements) /\ Len(Slice(q[y], f, n)) = n
  <2>1. Reads(s, q[y], y, f, n)
    BY RangeGives
  <2> QED
    BY <2>1 DEF Reads
<1>e. PICK e \in Seq(Elements) : e = Slice(q[y], f, n) /\ Len(e) = n
  BY <1>4
<1>p. PICK p : p = Taken(q, y, f, n, rvalue)
  OBVIOUS
<1>u. PICK u : u = SetMem(s, m)
  OBVIOUS
<1>5. u.mem = m /\ u.vec = s.vec /\ IsState(u)
  BY <1>1, <1>u, SetMemGives
<1>6. Len(p[x]) = Len(q[x])
  BY <1>p, TakenShape
<1>7. Sound(SetMem(u, Write(u.mem, At(u, x, o), Len(e), val, Assign)), [p EXCEPT ![x] = Over(p[x], o, e)])
  BY <1>3, <1>6, <1>e, <1>p, <1>u, WriteOverIsSound
<1>8. \A w : SetMem(u, w) = SetMem(s, w)
  BY <1>1, <1>5, SetMemGives
<1>9. At(u, x, o) = At(s, x, o)
  BY <1>5 DEF At
<1> QED
  BY <1>3, <1>5, <1>7, <1>8, <1>9, <1>e, <1>p

\* A transfer to the end.
LEMMA TransferEndIsSound ==
    ASSUME NEW s, NEW q, Sound(s, q), NEW x \in Vectors, NEW y \in Vectors,
           NEW f \in Nat, NEW n \in Nat, f + n <= Len(q[y]),
           s.vec[x].size + n <= s.vec[x].capacity,
           NEW rvalue \in BOOLEAN, rvalue => x # y \/ n > 0
    PROVE  Sound(SetSize(SetMem(s, Transfer(s.mem, At(s, y, f), n, EndOf(s, x), rvalue, Construct)),
                         x, s.vec[x].size + n),
                 [Taken(q, y, f, n, rvalue) EXCEPT
                    ![x] = Taken(q, y, f, n, rvalue)[x] \o Slice(q[y], f, n)])
<1>1. IsState(s) /\ (s.vec[x].begin = s.vec[y].begin => x = y) /\ Len(q[x]) = s.vec[x].size
  BY SoundParts DEF Sound, BlocksApart
<1>2. rvalue => EndOf(s, x) # At(s, y, f)
  BY <1>1 DEF EndOf, At, Size
<1>t. \E m, val : Takes(s, q, y, f, n, rvalue, EndOf(s, x), Construct, m, val)
  BY <1>2, TransferTakes
<1>v. PICK m, val : Takes(s, q, y, f, n, rvalue, EndOf(s, x), Construct, m, val)
  BY <1>t
<1>3. /\ Sound(SetMem(s, m), Taken(q, y, f, n, rvalue))
       /\ Gives(val, Slice(q[y], f, n))
       /\ Transfer(s.mem, At(s, y, f), n, EndOf(s, x), rvalue, Construct) = Write(m, EndOf(s, x), n, val, Construct)
  BY <1>v DEF Takes
<1>4. Slice(q[y], f, n) \in Seq(Elements) /\ Len(Slice(q[y], f, n)) = n
  <2>1. Reads(s, q[y], y, f, n)
    BY RangeGives
  <2> QED
    BY <2>1 DEF Reads
<1>e. PICK e \in Seq(Elements) : e = Slice(q[y], f, n) /\ Len(e) = n
  BY <1>4
<1>p. PICK p : p = Taken(q, y, f, n, rvalue)
  OBVIOUS
<1>u. PICK u : u = SetMem(s, m)
  OBVIOUS
<1>5. u.mem = m /\ u.vec = s.vec /\ IsState(u)
  BY <1>1, <1>u, SetMemGives
<1>6. Sound(SetSize(SetMem(u, Write(u.mem, EndOf(u, x), Len(e), val, Construct)), x, u.vec[x].size + Len(e)),
            [p EXCEPT ![x] = p[x] \o e])
  BY <1>3, <1>5, <1>e, <1>p, <1>u, WriteEndIsSound
<1>7. \A w : SetMem(u, w) = SetMem(s, w)
  BY <1>1, <1>5, SetMemGives
<1>8. EndOf(u, x) = EndOf(s, x)
  BY <1>5 DEF EndOf, At, Size
<1> QED
  BY <1>3, <1>5, <1>6, <1>7, <1>8, <1>e, <1>p

\* One element, as a slice, as a repetition, and at the end.
LEMMA OneElement ==
    ASSUME NEW r \in Seq(Elements), NEW v \in Elements
    PROVE  /\ Repeat(1, v) = <<v>> /\ <<v>> \in Seq(Elements) /\ Len(<<v>>) = 1
           /\ r \o <<v>> = Append(r, v)
           /\ \A i \in 0 .. (Len(r) - 1) : /\ Slice(r, i, 1) = <<r[i + 1]>>
                                           /\ Left(r, i, 1) = MovedAway(r, i)
<1>1. Repeat(1, v) = <<v>>
  <2>0. /\ Repeat(1, v) \in Seq(Elements) /\ Len(Repeat(1, v)) = 1
        /\ \A k \in 1 .. 1 : Repeat(1, v)[k] = v
    BY Repetition
  <2>1. PICK a \in Seq(Elements) : a = Repeat(1, v) /\ Len(a) = 1 /\ a[1] = v
    BY <2>0
  <2>2. \A k \in 1 .. 1 : k = 1
    OBVIOUS
  <2>3. \A k \in 1 .. 1 : a[k] = <<v>>[k]
    BY <2>1, <2>2
  <2>4. <<v>> \in Seq(Elements) /\ Len(<<v>>) = 1
    OBVIOUS
  <2> QED
    BY <2>1, <2>3, <2>4
<1>2. r \o <<v>> = Append(r, v)
  BY AppendIsConcat
<1>3. ASSUME NEW i \in 0 .. (Len(r) - 1)
      PROVE  Slice(r, i, 1) = <<r[i + 1]>>
  <2>1. i \in Nat /\ i + 1 <= Len(r) /\ i + 1 \in 1 .. Len(r) /\ r[i + 1] \in Elements
    OBVIOUS
  <2>s. /\ Slice(r, i, 1) \in Seq(Elements) /\ Len(Slice(r, i, 1)) = 1
        /\ \A k \in 1 .. 1 : Slice(r, i, 1)[k] = r[i + k]
    <3>1. PICK one \in Nat : one = 1
      OBVIOUS
    <3>2. /\ Slice(r, i, one) \in Seq(Elements) /\ Len(Slice(r, i, one)) = one
          /\ \A k \in 1 .. one : Slice(r, i, one)[k] = r[i + k]
      BY <2>1, <3>1, SliceShape
    <3> QED
      BY <3>1, <3>2
  <2>2. PICK a \in Seq(Elements) : /\ a = Slice(r, i, 1) /\ Len(a) = 1
                                   /\ \A k \in 1 .. 1 : a[k] = r[i + k]
    BY <2>s
  <2>3. \A k \in 1 .. 1 : a[k] = <<r[i + 1]>>[k]
    <3>1. \A k \in 1 .. 1 : k = 1
      OBVIOUS
    <3> QED
      BY <2>1, <2>2, <3>1
  <2>4. <<r[i + 1]>> \in Seq(Elements) /\ Len(<<r[i + 1]>>) = 1
    BY <2>1
  <2> QED
    BY <2>2, <2>3, <2>4
<1>4. ASSUME NEW i \in 0 .. (Len(r) - 1)
      PROVE  Left(r, i, 1) = MovedAway(r, i)
  <2>1. i \in Nat /\ i \in -1 .. (Len(r) - 1) /\ i # -1
    OBVIOUS
  <2>2. PICK a \in Seq(Elements) :
          /\ a = Left(r, i, 1) /\ Len(a) = Len(r)
          /\ \A k \in 1 .. Len(r) : a[k] = IF k \in (i + 1) .. (i + 1) THEN LeftOf(r[k]) ELSE r[k]
    BY <2>1, LeftShape
  <2>3. PICK b \in Seq(Elements) :
          /\ b = MovedAway(r, i) /\ Len(b) = Len(r)
          /\ \A k \in 1 .. Len(r) : b[k] = IF i # -1 /\ k = i + 1 THEN LeftOf(r[k]) ELSE r[k]
    BY <2>1, MovedAwayShape
  <2>4. \A k : k \in (i + 1) .. (i + 1) <=> k = i + 1
    BY <2>1
  <2>5. \A k \in 1 .. Len(r) : a[k] = b[k]
    BY <2>1, <2>2, <2>3, <2>4
  <2> QED
    BY <2>2, <2>3, <2>5
<1> QED
  BY <1>1, <1>2, <1>3, <1>4

\* A transfer of a value from elsewhere is a copy.
LEMMA TransferOfValue ==
    ASSUME NEW m, NEW p, IsValue(p), NEW to, ~IsValue(to), NEW how, NEW rvalue \in BOOLEAN
    PROVE  Transfer(m, p, 1, to, rvalue, how) = Write(m, to, 1, [k \in 0 .. 0 |-> Elem(m, p)], how)
<1>1. p # to /\ Leave(m, p, 1) = m
  BY DEF Leave
<1>2. 1 - 1 = 0
  OBVIOUS
<1> QED
  BY <1>1, <1>2 DEF Transfer

\* Adding an element that is moved from its place.
LEMMA AddMovedIsSound ==
    ASSUME NEW s, NEW q, Sound(s, q), NEW x \in Vectors,
           s.vec[x].size + 1 <= s.vec[x].capacity,
           NEW p, NEW i, NEW v, Denotes(s, q, x, p, i, v)
    PROVE  Sound(AddAtEnd(s, x, 1, p, TRUE), [q EXCEPT ![x] = Append(MovedAway(q[x], i), v)])
<1>1. /\ s.vec[x].size \in Nat /\ q[x] \in Seq(Elements) /\ s.vec[x].size <= SizeTypeMax
      /\ SizeTypeMax \in Nat /\ DOMAIN q = Vectors
  BY SoundParts DEF Sound
<1>2. v \in Elements /\ (IsValue(p) <=> i = -1)
  BY ElemGives
<1>3. CASE i = -1
  <2>1. s.vec[x].size \in 0 .. SizeTypeMax
    BY <1>1
  <2>2. ~IsValue(EndOf(s, x))
    BY <2>1, SoundParts DEF EndOf, At, Size
  <2>3. Transfer(s.mem, p, 1, EndOf(s, x), TRUE, Construct) = Fill(s.mem, EndOf(s, x), 1, p, Construct)
    <3>1. 1 - 1 = 0
      OBVIOUS
    <3> QED
      BY <1>2, <1>3, <2>2, <3>1, TransferOfValue DEF Fill
  <2>4. AddAtEnd(s, x, 1, p, TRUE) = AddAtEnd(s, x, 1, p, FALSE)
    BY <2>3 DEF AddAtEnd
  <2>5. Sound(AddAtEnd(s, x, 1, p, FALSE), [q EXCEPT ![x] = q[x] \o Repeat(1, v)])
    BY AddCopiesIsSound
  <2>6. q[x] \o Repeat(1, v) = Append(q[x], v)
    BY <1>1, <1>2, OneElement
  <2>7. MovedAway(q[x], i) = q[x]
    BY <1>3 DEF MovedAway
  <2> QED
    BY <2>4, <2>5, <2>6, <2>7
<1>4. CASE i # -1
  <2>1. i \in 0 .. (Len(q[x]) - 1) /\ p = At(s, x, i) /\ v = q[x][i + 1]
    BY <1>4 DEF Denotes
  <2>2. i \in Nat /\ i + 1 <= Len(q[x])
    BY <1>1, <2>1
  <2>m. PICK moving \in BOOLEAN : moving = TRUE
    OBVIOUS
  <2>n. Sound(SetSize(SetMem(s, Transfer(s.mem, At(s, x, i), 1, EndOf(s, x), moving, Construct)), x, s.vec[x].size + 1),
              [Taken(q, x, i, 1, moving) EXCEPT ![x] = Taken(q, x, i, 1, moving)[x] \o Slice(q[x], i, 1)])
    <3>1. PICK one \in Nat : one = 1
      OBVIOUS
    <3>2. i + one <= Len(q[x]) /\ s.vec[x].size + one <= s.vec[x].capacity /\ one > 0
      BY <2>2, <3>1
    <3>3. Sound(SetSize(SetMem(s, Transfer(s.mem, At(s, x, i), one, EndOf(s, x), moving, Construct)), x, s.vec[x].size + one),
                [Taken(q, x, i, one, moving) EXCEPT ![x] = Taken(q, x, i, one, moving)[x] \o Slice(q[x], i, one)])
      BY <2>2, <3>2, TransferEndIsSound
    <3> QED
      BY <3>1, <3>3
  <2>3. Sound(SetSize(SetMem(s, Transfer(s.mem, At(s, x, i), 1, EndOf(s, x), TRUE, Construct)), x, s.vec[x].size + 1),
              [Taken(q, x, i, 1, TRUE) EXCEPT ![x] = Taken(q, x, i, 1, TRUE)[x] \o Slice(q[x], i, 1)])
    BY <2>m, <2>n
  <2>4. Slice(q[x], i, 1) = <<v>> /\ Left(q[x], i, 1) = MovedAway(q[x], i)
    BY <1>1, <1>2, <2>1, OneElement
  <2>5. Taken(q, x, i, 1, TRUE) = [q EXCEPT ![x] = MovedAway(q[x], i)]
    BY <2>4 DEF Taken
  <2>6. MovedAway(q[x], i) \in Seq(Elements)
    <3>1. i \in -1 .. (Len(q[x]) - 1)
      BY <2>1
    <3> QED
      BY <1>1, <3>1, MovedAwayShape
  <2>7. MovedAway(q[x], i) \o <<v>> = Append(MovedAway(q[x], i), v)
    BY <1>2, <2>6, OneElement
  <2>8. [Taken(q, x, i, 1, TRUE) EXCEPT ![x] = Taken(q, x, i, 1, TRUE)[x] \o Slice(q[x], i, 1)]
          = [q EXCEPT ![x] = Append(MovedAway(q[x], i), v)]
    BY <1>1, <2>4, <2>5, <2>7
  <2>9. AddAtEnd(s, x, 1, p, TRUE)
          = SetSize(SetMem(s, Transfer(s.mem, p, 1, EndOf(s, x), TRUE, Construct)), x, s.vec[x].size + 1)
    BY DEF AddAtEnd, Size
  <2> QED
    BY <2>1, <2>3, <2>8, <2>9
<1> QED
  BY <1>3, <1>4

\* r with the element behind the first o replaced.
Put1(r, o, v) == [r EXCEPT ![o + 1] = v]

\* Assigning one element, which may be moved from another place.
LEMMA AssignOneIsSound ==
    ASSUME NEW s, NEW q, Sound(s, q), NEW x \in Vectors, NEW o \in 0 .. (Len(q[x]) - 1),
           NEW p, NEW i, NEW v, Denotes(s, q, x, p, i, v), NEW rvalue \in BOOLEAN, i # o
    PROVE  Sound(SetMem(s, Transfer(s.mem, p, 1, At(s, x, o), rvalue, Assign)),
                 [q EXCEPT ![x] = Put1(IF rvalue THEN MovedAway(q[x], i) ELSE q[x], o, v)])
<1>1. /\ Len(q[x]) \in Nat /\ q[x] \in Seq(Elements) /\ Len(q[x]) <= SizeTypeMax
      /\ SizeTypeMax \in Nat /\ DOMAIN q = Vectors
  BY SoundParts DEF Sound
<1>2. v \in Elements /\ (IsValue(p) <=> i = -1) /\ Elem(s.mem, p) = v
  BY ElemGives
<1>3. o \in Nat /\ o + 1 <= Len(q[x]) /\ o \in 0 .. SizeTypeMax
  BY <1>1
<1>e. <<v>> \in Seq(Elements) /\ Len(<<v>>) = 1 /\ <<v>>[1] = v
  <2>1. <<v>> \in Seq(Elements) /\ Len(<<v>>) = 1
    BY <1>2, OneElement
  <2> QED
    BY <2>1
<1>4. \A r \in Seq(Elements) : Len(r) = Len(q[x]) => Over(r, o, <<v>>) = Put1(r, o, v)
  <2> SUFFICES ASSUME NEW r \in Seq(Elements), Len(r) = Len(q[x])
               PROVE  Over(r, o, <<v>>) = Put1(r, o, v)
    OBVIOUS
  <2>1. PICK e \in Seq(Elements) : e = <<v>> /\ Len(e) = 1 /\ e[1] = v
    BY <1>e
  <2>s. /\ Over(r, o, e) \in Seq(Elements) /\ Len(Over(r, o, e)) = Len(r)
        /\ \A k \in 1 .. Len(r) :
             Over(r, o, e)[k] = IF k \in (o + 1) .. (o + Len(e)) THEN e[k - o] ELSE r[k]
    BY <1>3, OverShape
  <2>2. PICK a \in Seq(Elements) :
          /\ a = Over(r, o, e) /\ Len(a) = Len(r)
          /\ \A k \in 1 .. Len(r) : a[k] = IF k \in (o + 1) .. (o + 1) THEN e[k - o] ELSE r[k]
    BY <2>1, <2>s
  <2>3. \A k : k \in (o + 1) .. (o + 1) <=> k = o + 1
    BY <1>3
  <2>4. ASSUME NEW k \in 1 .. Len(r)
        PROVE  a[k] = Put1(r, o, v)[k]
    <3>1. CASE k = o + 1
      <4>1. k - o = 1
        BY <1>3, <3>1
      <4> QED
        BY <2>1, <2>2, <2>3, <3>1, <4>1 DEF Put1
    <3>2. CASE k # o + 1
      BY <1>3, <2>2, <2>3, <3>2 DEF Put1
    <3> QED
      BY <3>1, <3>2
  <2>p. Put1(r, o, v) \in Seq(Elements) /\ Len(Put1(r, o, v)) = Len(r)
    BY <1>2, <1>3 DEF Put1
  <2>5. PICK z \in Seq(Elements) : z = Put1(r, o, v) /\ Len(z) = Len(r)
    BY <2>p
  <2>6. a = z
    <3>1. Len(a) = Len(z) /\ \A k \in 1 .. Len(a) : a[k] = z[k]
      BY <2>2, <2>4, <2>5
    <3> QED
      BY <3>1, SameElements
  <2> QED
    BY <2>1, <2>2, <2>5, <2>6
<1>5. CASE i = -1
  <2>1. ~IsValue(At(s, x, o))
    BY <1>3, SoundParts DEF At
  <2>2. PICK val : val = [k \in 0 .. 0 |-> Elem(s.mem, p)]
    OBVIOUS
  <2>3. Transfer(s.mem, p, 1, At(s, x, o), rvalue, Assign) = Write(s.mem, At(s, x, o), 1, val, Assign)
    BY <1>2, <1>5, <2>1, <2>2, TransferOfValue
  <2>e. PICK e \in Seq(Elements) : e = <<v>> /\ Len(e) = 1 /\ e[1] = v
    BY <1>e
  <2>4. Gives(val, e)
    <3>1. \A k \in 0 .. (Len(e) - 1) : k = 0 /\ k + 1 = 1 /\ k \in 0 .. 0
      BY <2>e
    <3> QED
      BY <1>2, <2>2, <2>e, <3>1 DEF Gives
  <2>5. Sound(SetMem(s, Write(s.mem, At(s, x, o), Len(e), val, Assign)), [q EXCEPT ![x] = Over(q[x], o, e)])
    BY <1>3, <2>4, <2>e, WriteOverIsSound
  <2>6. MovedAway(q[x], i) = q[x]
    BY <1>5 DEF MovedAway
  <2> QED
    BY <1>1, <1>4, <2>3, <2>5, <2>6, <2>e
<1>6. CASE i # -1
  <2>1. i \in 0 .. (Len(q[x]) - 1) /\ p = At(s, x, i) /\ v = q[x][i + 1]
    BY <1>6 DEF Denotes
  <2>2. i \in Nat /\ i + 1 <= Len(q[x])
    BY <1>1, <2>1
  <2>t. PICK t : t = Taken(q, x, i, 1, rvalue)
    OBVIOUS
  <2>3. Sound(SetMem(s, Transfer(s.mem, p, 1, At(s, x, o), rvalue, Assign)),
              [t EXCEPT ![x] = Over(t[x], o, Slice(q[x], i, 1))])
    BY <1>3, <2>1, <2>2, <2>t, TransferOverIsSound
  <2>4. Slice(q[x], i, 1) = <<v>> /\ Left(q[x], i, 1) = MovedAway(q[x], i)
    BY <1>1, <1>2, <2>1, OneElement
  <2>5. t = [q EXCEPT ![x] = IF rvalue THEN MovedAway(q[x], i) ELSE q[x]]
    <3>1. [q EXCEPT ![x] = q[x]] = q
      BY DEF Sound
    <3> QED
      BY <2>4, <2>t, <3>1 DEF Taken
  <2>6. t[x] \in Seq(Elements) /\ Len(t[x]) = Len(q[x])
    BY <2>2, <2>t, TakenShape
  <2>7. Over(t[x], o, <<v>>) = Put1(t[x], o, v)
    BY <1>4, <2>6
  <2> QED
    BY <1>1, <2>3, <2>4, <2>5, <2>7
<1> QED
  BY <1>5, <1>6

-----------------------------------------------------------------------------
(* Calls.                                                                  *)

\* The vectors of the state hold the sequences of the history.
Invariant == Sound(Memory, sequence)

\* A call that ends in a sound state keeps the invariant.
LEMMA ReturnIsSound ==
    ASSUME NEW s, NEW q, Return(s, q), Sound(s, q)
    PROVE  Invariant'
<1>1. s = [mem |-> s.mem, vec |-> s.vec]
  BY DEF Sound, IsState
<1>2. Memory' = s /\ sequence' = q
  BY <1>1 DEF Return, Memory
<1> QED
  BY <1>2 DEF Invariant

\* So does one that may throw before it changes anything,
LEMMA ThrowOrIsSound ==
    ASSUME Invariant, NEW x, NEW n, NEW s, NEW q, ThrowOr(x, n, s, q),
           ~Throws(Memory, x, n) => Sound(s, q)
    PROVE  Invariant'
<1>1. CASE Throws(Memory, x, n)
  BY <1>1 DEF ThrowOr, vars, Invariant, Memory
<1>2. CASE ~Throws(Memory, x, n)
  BY <1>2, ReturnIsSound DEF ThrowOr
<1> QED
  BY <1>1, <1>2

\* What an argument denotes, and what a move from it leaves, as it is given
\* and as a parameter that may be a copy.
LEMMA ArgumentDenotes ==
    ASSUME Invariant, NEW x \in Vectors, NEW p \in Arguments(x)
    PROVE  /\ \E i : Denotes(Memory, sequence, x, p, i, Given(x, p))
           /\ \E i : /\ Denotes(Memory, sequence, x, Param(p), i, Given(x, p))
                     /\ \A rvalue \in BOOLEAN :
                            GivenAway(x, p, rvalue) =
                                IF rvalue THEN MovedAway(sequence[x], i) ELSE sequence[x]
<1>1. PICK i : Denotes(Memory, sequence, x, p, i, Given(x, p)) /\ (i # -1 => p[2] = i)
  <2>1. CASE p \in Values
    <3>1. IsValue(p) /\ p \in Elements
      BY <2>1 DEF IsValue, Elements
    <3> QED
      BY <3>1 DEF Denotes, Given
  <2>2. CASE p \notin Values
    <3>1. PICK i \in 0 .. (Last(x) - 1) : p = At(Memory, x, i)
      BY <2>2 DEF Arguments
    <3>2. Last(x) = Len(sequence[x]) /\ Last(x) \in Nat /\ Last(x) <= SizeTypeMax
      <4>1. /\ Last(x) = Memory.vec[x].size
            /\ Memory.vec[x].capacity \in Nat /\ Memory.vec[x].size \in Nat
            /\ Memory.vec[x].size <= Memory.vec[x].capacity
            /\ Memory.vec[x].capacity <= SizeTypeMax /\ Memory.vec[x].size = Len(sequence[x])
        BY SoundParts DEF Invariant, Last, Memory
      <4> QED
        BY <4>1, SizesAssumption
    <3>3. i \in 0 .. SizeTypeMax /\ p = <<Memory.vec[x].begin, i>>
      BY <3>1, <3>2, SizesAssumption DEF At
    <3>4. ~IsValue(p) /\ p[2] = i
      BY <3>3, SoundParts DEF Invariant
    <3> QED
      BY <3>1, <3>2, <3>4 DEF Denotes, Given
  <2> QED
    BY <2>1, <2>2
<1>2. Elem(mem, p) = Given(x, p) /\ Given(x, p) \in Elements /\ (IsValue(p) <=> i = -1)
  BY <1>1, ElemGives DEF Invariant, Memory
<1>3. CASE kind = "word"
  <2>1. Denotes(Memory, sequence, x, Param(p), -1, Given(x, p))
    BY <1>2, <1>3 DEF Param, Denotes
  <2>2. \A rvalue \in BOOLEAN : GivenAway(x, p, rvalue) =
                                IF rvalue THEN MovedAway(sequence[x], -1) ELSE sequence[x]
    BY <1>3 DEF GivenAway, MovedAway
  <2> QED
    BY <1>1, <2>1, <2>2
<1>4. CASE kind # "word"
  <2>1. Param(p) = p
    BY <1>4 DEF Param
  <2>2. \A rvalue \in BOOLEAN : GivenAway(x, p, rvalue) =
                                IF rvalue THEN MovedAway(sequence[x], i) ELSE sequence[x]
    BY <1>1, <1>2 DEF GivenAway, MovedAway
  <2> QED
    BY <1>1, <2>1, <2>2
<1> QED
  BY <1>3, <1>4
-----------------------------------------------------------------------------
(* Adding at the end: the calls.                                           *)

\* What a vector knows of its sizes.
LEMMA SizesOf ==
    ASSUME Invariant, NEW x \in Vectors
    PROVE  /\ Sound(Memory, sequence) /\ DOMAIN sequence = Vectors
           /\ sequence[x] \in Seq(Elements) /\ Len(sequence[x]) = Last(x)
           /\ Last(x) \in Nat /\ SizeTypeMax \in Nat /\ Last(x) <= SizeTypeMax
           /\ Size(Memory, x) = Last(x) /\ Memory.vec[x].size = Last(x)
           /\ Last(x) <= Capacity(Memory, x) /\ Capacity(Memory, x) \in Nat
           /\ Capacity(Memory, x) <= SizeTypeMax
           /\ Memory.mem = mem /\ Memory.vec = vec
<1>1. Memory.mem = mem /\ Memory.vec = vec
  BY DEF Memory
<1>2. /\ Sound(Memory, sequence)
      /\ sequence[x] \in Seq(Elements) /\ Len(sequence[x]) = Memory.vec[x].size
      /\ Memory.vec[x].size \in Nat /\ Memory.vec[x].capacity \in Nat
      /\ Memory.vec[x].size <= Memory.vec[x].capacity /\ Memory.vec[x].capacity <= SizeTypeMax
      /\ SizeTypeMax \in Nat
  BY SoundParts DEF Invariant
<1>3. DOMAIN sequence = Vectors
  BY <1>2 DEF Sound
<1> QED
  BY <1>1, <1>2, <1>3 DEF Last, Size, Capacity

\* r, from which the element i may have been moved.
Giving(r, i, rvalue) == IF rvalue THEN MovedAway(r, i) ELSE r

\* A sequence that may have lost an element to a move keeps its length and the others.
LEMMA GivingShape ==
    ASSUME NEW r \in Seq(Elements), NEW i \in -1 .. (Len(r) - 1), NEW rvalue \in BOOLEAN
    PROVE  /\ Giving(r, i, rvalue) \in Seq(Elements) /\ Len(Giving(r, i, rvalue)) = Len(r)
           /\ \A k \in 1 .. Len(r) : k # i + 1 => Giving(r, i, rvalue)[k] = r[k]
<1>1. /\ MovedAway(r, i) \in Seq(Elements) /\ Len(MovedAway(r, i)) = Len(r)
      /\ \A k \in 1 .. Len(r) :
           MovedAway(r, i)[k] = IF i # -1 /\ k = i + 1 THEN LeftOf(r[k]) ELSE r[k]
  BY MovedAwayShape
<1> QED
  BY <1>1 DEF Giving

\* Growing if there is no room, and then adding n copies, or one moved element.
LEMMA AppendCopiesIsSound ==
    ASSUME NEW s, NEW q, Sound(s, q), NEW x \in Vectors, NEW n \in Nat,
           ~Throws(s, x, Size(s, x) + n),
           NEW p, NEW i, NEW v, Denotes(s, q, x, p, i, v),
           NEW rvalue \in BOOLEAN, rvalue => n = 1
    PROVE  Sound(AppendCopies(s, x, n, p, rvalue),
                 [q EXCEPT ![x] = Giving(q[x], i, rvalue) \o Repeat(n, v)])
<1>1. PICK r : r = ReserveForParam(s, x, p, n)
  OBVIOUS
<1>2. Sound(r.s, q) /\ Grown(s, r.s, x, Size(s, x) + n) /\ Denotes(r.s, q, x, r.p, i, v)
  BY <1>1, ReserveForParamIsSound
<1>3. r.s.vec[x].size + n <= r.s.vec[x].capacity
  BY <1>2 DEF Grown, Size
<1>4. AppendCopies(s, x, n, p, rvalue) = AddAtEnd(r.s, x, n, r.p, rvalue)
  BY <1>1 DEF AppendCopies
<1>5. CASE ~rvalue
  <2>1. Sound(AddAtEnd(r.s, x, n, r.p, FALSE), [q EXCEPT ![x] = q[x] \o Repeat(n, v)])
    BY <1>2, <1>3, AddCopiesIsSound
  <2>2. AddAtEnd(r.s, x, n, r.p, rvalue) = AddAtEnd(r.s, x, n, r.p, FALSE)
    BY <1>5 DEF AddAtEnd
  <2> QED
    BY <1>4, <1>5, <2>1, <2>2 DEF Giving
<1>6. CASE rvalue
  <2>1. Sound(AddAtEnd(r.s, x, 1, r.p, TRUE), [q EXCEPT ![x] = Append(MovedAway(q[x], i), v)])
    <3>1. r.s.vec[x].size + 1 <= r.s.vec[x].capacity
      BY <1>3, <1>6
    <3> QED
      BY <1>2, <3>1, AddMovedIsSound
  <2>2. AddAtEnd(r.s, x, n, r.p, rvalue) = AddAtEnd(r.s, x, 1, r.p, TRUE)
    BY <1>6 DEF AddAtEnd
  <2>3. q[x] \in Seq(Elements) /\ v \in Elements /\ i \in -1 .. (Len(q[x]) - 1)
    <3>1. q[x] \in Seq(Elements) /\ v \in Elements
      BY SoundParts, ElemGives
    <3> QED
      BY <3>1 DEF Denotes
  <2>4. MovedAway(q[x], i) \in Seq(Elements)
    BY <2>3, MovedAwayShape
  <2>5. Append(MovedAway(q[x], i), v) = MovedAway(q[x], i) \o Repeat(1, v)
    BY <2>3, <2>4, OneElement
  <2> QED
    BY <1>4, <1>6, <2>1, <2>2, <2>5 DEF Giving
<1> QED
  BY <1>5, <1>6

\* push_back.
LEMMA PushBackIsSound ==
    ASSUME Invariant, NEW x \in Vectors, NEW p \in Arguments(x), NEW rvalue \in BOOLEAN,
           PushBack(x, p, rvalue)
    PROVE  Invariant'
<1>1. /\ Sound(Memory, sequence) /\ Size(Memory, x) = Last(x) /\ sequence[x] \in Seq(Elements)
      /\ DOMAIN sequence = Vectors /\ Len(sequence[x]) \in Nat
  BY SizesOf
<1>2. PICK i : /\ Denotes(Memory, sequence, x, Param(p), i, Given(x, p))
               /\ \A rv \in BOOLEAN :
                    GivenAway(x, p, rv) = IF rv THEN MovedAway(sequence[x], i) ELSE sequence[x]
  BY ArgumentDenotes
<1>3. PICK v : v = Given(x, p)
  OBVIOUS
<1>4. v \in Elements /\ i \in -1 .. (Len(sequence[x]) - 1)
  <2>1. v \in Elements
    BY <1>1, <1>2, <1>3, ElemGives
  <2> QED
    BY <1>1, <1>2, <2>1 DEF Denotes
<1>5. PICK g \in Seq(Elements) : g = Giving(sequence[x], i, rvalue) /\ g = GivenAway(x, p, rvalue)
  BY <1>1, <1>2, <1>4, GivingShape DEF Giving
<1>6. g \o Repeat(1, v) = Append(g, v)
  BY <1>4, OneElement
<1>7. ASSUME ~Throws(Memory, x, Last(x) + 1)
      PROVE  Sound(AppendCopies(Memory, x, 1, Param(p), rvalue), [sequence EXCEPT ![x] = g \o Repeat(1, v)])
  <2>1. PICK one \in Nat : one = 1
    OBVIOUS
  <2>2. ~Throws(Memory, x, Size(Memory, x) + one) /\ (rvalue => one = 1)
    BY <1>1, <1>7, <2>1
  <2>3. Sound(AppendCopies(Memory, x, one, Param(p), rvalue),
              [sequence EXCEPT ![x] = Giving(sequence[x], i, rvalue) \o Repeat(one, v)])
    BY <1>1, <1>2, <1>3, <2>2, AppendCopiesIsSound
  <2> QED
    BY <1>5, <2>1, <2>3
<1> QED
  BY <1>3, <1>5, <1>6, <1>7, ThrowOrIsSound DEF PushBack, With

\* append of copies.
LEMMA AppendNIsSound ==
    ASSUME Invariant, NEW x \in Vectors, NEW p \in Arguments(x), NEW n \in Nat, AppendN(x, n, p)
    PROVE  Invariant'
<1>1. Sound(Memory, sequence) /\ Size(Memory, x) = Last(x)
  BY SizesOf
<1>2. PICK i : Denotes(Memory, sequence, x, Param(p), i, Given(x, p))
  BY ArgumentDenotes
<1>3. PICK copying \in BOOLEAN : copying = FALSE
  OBVIOUS
<1>4. ASSUME ~Throws(Memory, x, Last(x) + n)
      PROVE  Sound(AppendCopies(Memory, x, n, Param(p), copying),
                   [sequence EXCEPT ![x] = Giving(sequence[x], i, copying) \o Repeat(n, Given(x, p))])
  <2>1. ~Throws(Memory, x, Size(Memory, x) + n)
    BY <1>1, <1>4
  <2> QED
    BY <1>1, <1>2, <1>3, <2>1, AppendCopiesIsSound
<1>5. Giving(sequence[x], i, copying) = sequence[x]
  BY <1>3 DEF Giving
<1> QED
  BY <1>3, <1>4, <1>5, ThrowOrIsSound DEF AppendN, With

\* u is a state with the vectors of s, and in the block b, which has room for
\* cap elements, those of e from o on.
Built(s, u, b, cap, o, e) ==
    /\ IsState(u) /\ u.vec = s.vec
    /\ DOMAIN u.mem = Buffers
    /\ \A c \in Buffers : c # b => u.mem[c] = s.mem[c]
    /\ DOMAIN u.mem[b] = 0 .. (cap - 1)
    /\ \A k \in 0 .. (cap - 1) :
          u.mem[b][k] = IF k \in o .. (o + Len(e) - 1) THEN e[k - o + 1] ELSE Raw

\* Building n copies of an argument in a new block.
LEMMA BuildGives ==
    ASSUME NEW s, NEW q, Sound(s, q), NEW cap \in Nat, cap > 0, NEW x \in Vectors,
           NEW p, NEW i, NEW v, Denotes(s, q, x, p, i, v),
           NEW o \in Nat, NEW n \in Nat, o + n <= cap
    PROVE  \E b \in Blocks :
              /\ Unowned(s, b) /\ Malloc(s, cap).block = <<b, 0>>
              /\ Built(s, SetMem(s, Fill(Malloc(s, cap).mem, <<b, o>>, n, p, Construct)), b, cap, o,
                       Repeat(n, v))
<1>n. PICK new : new = Malloc(s, cap)
  OBVIOUS
<1>1. PICK b \in Blocks :
        /\ Unowned(s, b)
        /\ new.block = <<b, 0>>
        /\ DOMAIN new.mem = Buffers
        /\ \A c \in Buffers : c # b => new.mem[c] = s.mem[c]
        /\ DOMAIN new.mem[b] = 0 .. (cap - 1)
        /\ \A k \in 0 .. (cap - 1) : new.mem[b][k] = Raw
  BY <1>n, MallocGives
<1>2. s.vec[x].begin \in Buffers /\ s.vec[x].begin # b /\ b \in Buffers /\ IsState(s)
  BY <1>1, SoundParts DEF Unowned, Buffers
<1>3. Elem(s.mem, p) = v /\ v \in Elements /\ Alive(v) /\ (IsValue(p) <=> i = -1)
  BY ElemGives
<1>4. Elem(new.mem, p) = v
  <2>1. CASE i = -1
    BY <1>3, <2>1 DEF Elem
  <2>2. CASE i # -1
    <3>1. ~IsValue(p) /\ p[1] = s.vec[x].begin
      BY <1>3, <2>2 DEF Denotes, At
    <3>2. new.mem[p[1]] = s.mem[p[1]]
      BY <1>1, <1>2, <3>1
    <3> QED
      BY <1>3, <3>1, <3>2 DEF Elem
  <2> QED
    BY <2>1, <2>2
<1>5. Ready(Construct, new.mem, b, o, n) /\ Construct \in Ways
  <2>1. \A k \in o .. (o + n - 1) : k \in 0 .. (cap - 1)
    OBVIOUS
  <2> QED
    BY <1>1, <2>1 DEF Ready, Ways
<1>m. PICK m : m = Fill(new.mem, <<b, o>>, n, p, Construct)
  OBVIOUS
<1>6. /\ OnlyIn(new.mem, m, b)
      /\ \A k \in DOMAIN new.mem[b] : m[b][k] = IF k \in o .. (o + n - 1) THEN v ELSE new.mem[b][k]
  <2>1. b \in DOMAIN new.mem
    BY <1>1, <1>2
  <2> QED
    BY <1>3, <1>4, <1>5, <1>m, <2>1, FillGives
<1>7. /\ Repeat(n, v) \in Seq(Elements) /\ Len(Repeat(n, v)) = n
      /\ \A k \in 1 .. n : Repeat(n, v)[k] = v
  BY <1>3, Repetition
<1>e. PICK e : e = Repeat(n, v) /\ Len(e) = n /\ \A k \in 1 .. n : e[k] = v
  BY <1>7
<1>8. DOMAIN m = Buffers /\ DOMAIN m[b] = 0 .. (cap - 1) /\ \A c \in Buffers : c # b => m[c] = s.mem[c]
  BY <1>1, <1>6 DEF OnlyIn
<1>9. ASSUME NEW k \in 0 .. (cap - 1)
      PROVE  m[b][k] = IF k \in o .. (o + n - 1) THEN e[k - o + 1] ELSE Raw
  <2>1. m[b][k] = IF k \in o .. (o + n - 1) THEN v ELSE Raw
    BY <1>1, <1>6
  <2>2. k \in o .. (o + n - 1) => k - o + 1 \in 1 .. n
    OBVIOUS
  <2> QED
    BY <1>e, <2>1, <2>2
<1>10. IsState(SetMem(s, m)) /\ SetMem(s, m).vec = s.vec /\ SetMem(s, m).mem = m
  BY <1>2, SetMemGives
<1>11. Built(s, SetMem(s, m), b, cap, o, e)
  BY <1>8, <1>9, <1>10, <1>e DEF Built
<1> QED
  BY <1>1, <1>11, <1>e, <1>m, <1>n

\* Growing with the new element built first.
LEMMA GrowAndEmplaceBackIsSound ==
    ASSUME NEW s, NEW q, Sound(s, q), NEW x \in Vectors,
           Size(s, x) >= Capacity(s, x), ~Throws(s, x, Size(s, x) + 1),
           NEW p, NEW i, NEW v, Denotes(s, q, x, p, i, v)
    PROVE  Sound(GrowAndEmplaceBack(s, x, p), [q EXCEPT ![x] = Append(q[x], v)])
<1>a. PICK cap, r, size : cap = NewCapacity(s, x, 0) /\ r = q[x] /\ size = Size(s, x)
  OBVIOUS
<1>1. /\ cap \in Nat /\ cap > 0 /\ cap <= SizeTypeMax /\ size + 1 <= cap
      /\ r \in Seq(Elements) /\ Len(r) = size /\ size \in Nat /\ s.vec[x].size = size
      /\ IsState(s)
  <2>1. /\ Capacity(s, x) \in Nat /\ Capacity(s, x) <= SizeTypeMax /\ SizeTypeMax \in Nat
        /\ r \in Seq(Elements) /\ Len(r) = size /\ size \in Nat /\ s.vec[x].size = size
        /\ IsState(s)
    BY <1>a, SoundParts DEF Capacity, Size
  <2>2. size >= Capacity(s, x) /\ Capacity(s, x) # SizeTypeMax /\ size <= Capacity(s, x)
    <3>1. size <= Capacity(s, x)
      BY <1>a, SoundParts DEF Capacity, Size
    <3> QED
      BY <1>a, <2>1, <3>1 DEF Throws
  <2>3. Capacity(s, x) < SizeTypeMax
    BY <2>1, <2>2
  <2>4. /\ cap \in Nat /\ cap > 0 /\ cap <= SizeTypeMax /\ Capacity(s, x) < cap
    <3>1. PICK min \in Nat : min = 0
      OBVIOUS
    <3>2. /\ NewCapacity(s, x, min) \in Nat /\ NewCapacity(s, x, min) <= SizeTypeMax
          /\ Capacity(s, x) < NewCapacity(s, x, min) /\ 0 < NewCapacity(s, x, min)
      BY <2>1, <2>3, NewCapacityGives
    <3> QED
      BY <1>a, <3>1, <3>2
  <2> QED
    BY <2>1, <2>2, <2>4
<1>v. v \in Elements
  BY ElemGives
<1>2. PICK b \in Blocks :
        /\ Unowned(s, b) /\ Malloc(s, cap).block = <<b, 0>>
        /\ Built(s, SetMem(s, Fill(Malloc(s, cap).mem, <<b, size>>, 1, p, Construct)), b, cap, size, Repeat(1, v))
  <2>1. PICK one \in Nat : one = 1
    OBVIOUS
  <2>2. \E b \in Blocks :
          /\ Unowned(s, b) /\ Malloc(s, cap).block = <<b, 0>>
          /\ Built(s, SetMem(s, Fill(Malloc(s, cap).mem, <<b, size>>, one, p, Construct)), b, cap, size, Repeat(one, v))
    <3>1. size + one <= cap /\ size \in Nat
      BY <1>1, <2>1
    <3> QED
      BY <1>1, <3>1, BuildGives
  <2> QED
    BY <2>1, <2>2
<1>u. PICK u : u = SetMem(s, Fill(Malloc(s, cap).mem, <<b, size>>, 1, p, Construct))
  OBVIOUS
<1>3. /\ IsState(u) /\ u.vec = s.vec /\ DOMAIN u.mem = Buffers
      /\ \A c \in Buffers : c # b => u.mem[c] = s.mem[c]
      /\ DOMAIN u.mem[b] = 0 .. (cap - 1)
  BY <1>2, <1>u DEF Built
<1>4. \A k \in 0 .. (cap - 1) : u.mem[b][k] = IF k = size THEN v ELSE Raw
  <2>1. <<v>> = Repeat(1, v) /\ Len(<<v>>) = 1 /\ <<v>>[1] = v
    BY <1>1, <1>v, OneElement
  <2>2. \A k \in 0 .. (cap - 1) :
          u.mem[b][k] = IF k \in size .. (size + 1 - 1) THEN <<v>>[k - size + 1] ELSE Raw
    BY <1>2, <1>u, <2>1 DEF Built
  <2>3. \A k : k \in size .. (size + 1 - 1) <=> k = size
    BY <1>1
  <2>4. size - size + 1 = 1
    BY <1>1
  <2> QED
    BY <2>1, <2>2, <2>3, <2>4
<1>5. Opened(s, u, b, Len(r))
  <2>1. \A k \in 0 .. (Len(r) - 1) : k \in 0 .. (cap - 1) /\ k # size
    BY <1>1
  <2>2. \A k \in 0 .. (Len(r) - 1) : k \in DOMAIN u.mem[b] /\ u.mem[b][k] = Raw
    BY <1>3, <1>4, <2>1
  <2>3. DOMAIN u.mem[b] \subseteq Nat
    BY <1>1, <1>3
  <2> QED
    BY <1>3, <2>2, <2>3 DEF Opened
<1>w. PICK w : w = MoveElementsForGrow(u, x, <<b, 0>>)
  OBVIOUS
<1>6. Emptied(s, u, w, x, b, r)
  BY <1>a, <1>w, <1>2, <1>5, MoveElementsGives
<1>7. /\ IsState(w) /\ w.vec = s.vec /\ Vacated(s, w.mem, x, b)
      /\ DOMAIN w.mem[b] = 0 .. (cap - 1)
  BY <1>3, <1>6 DEF Emptied
<1>e. PICK e \in Seq(Elements) :
        /\ e = Append(r, v) /\ Len(e) = size + 1
        /\ \A k \in 1 .. size : e[k] = r[k]
        /\ e[size + 1] = v
  <2>1. /\ Append(r, v) \in Seq(Elements) /\ Len(Append(r, v)) = Len(r) + 1
        /\ \A k \in 1 .. Len(r) : Append(r, v)[k] = r[k]
        /\ Append(r, v)[Len(r) + 1] = v
    BY <1>1, <1>v
  <2> QED
    BY <1>1, <2>1
<1>8. HoldsCells(w.mem, b, e)
  <2> SUFFICES ASSUME NEW k \in 0 .. (cap - 1)
               PROVE  w.mem[b][k] = IF k < size + 1 THEN e[k + 1] ELSE Raw
    BY <1>7, <1>e DEF HoldsCells
  <2>1. w.mem[b][k] = IF k < size THEN r[k + 1] ELSE (IF k = size THEN v ELSE Raw)
    BY <1>1, <1>3, <1>4, <1>6 DEF Emptied
  <2>2. k < size => k + 1 \in 1 .. size
    BY <1>1
  <2> QED
    BY <1>1, <1>e, <2>1, <2>2
<1>g. PICK g : g = TakeAllocation(w, x, <<b, 0>>, cap)
  OBVIOUS
<1>9. Resized(s, w, x)
  BY <1>7 DEF Resized
<1>10. b \in Buffers
  BY DEF Buffers
<1>11. Relocated(s, g, x, b, cap) /\ g.vec[x].size = w.vec[x].size
  BY <1>1, <1>g, <1>9, <1>10, TakeAllocationGives
<1>t. PICK t : t = SetSize(g, x, Len(e))
  OBVIOUS
<1>12. Resized(g, t, x) /\ t.mem = g.mem /\ t.vec[x].size = Len(e)
  BY <1>11, <1>t, SetSizeGives DEF Relocated
<1>13. Relocated(s, t, x, b, cap)
  BY <1>11, <1>12 DEF Relocated, Resized
<1>14. Len(e) <= cap
  BY <1>1, <1>e
<1>15. t.mem = TakeAllocation(w, x, <<b, 0>>, cap).mem
  BY <1>12, <1>g
<1>16. Sound(t, [q EXCEPT ![x] = e])
  BY <1>1, <1>2, <1>7, <1>8, <1>9, <1>12, <1>13, <1>14, <1>15, TakeAllocationIsSound
<1>17. GrowAndEmplaceBack(s, x, p) = t
  <2>1. Malloc(s, cap).block = <<b, 0>> /\ <<b, 0>>[1] = b
    BY <1>2
  <2>2. GrowAndEmplaceBack(s, x, p) = SetSize(g, x, size + 1)
    BY <1>a, <1>g, <1>u, <1>w, <2>1 DEF GrowAndEmplaceBack
  <2> QED
    BY <1>e, <1>t, <2>2
<1> QED
  BY <1>a, <1>e, <1>16, <1>17

\* emplace_back.
LEMMA EmplaceBackIsSound ==
    ASSUME Invariant, NEW x \in Vectors, NEW p \in Arguments(x), EmplaceBack(x, p)
    PROVE  Invariant'
<1>1. /\ Sound(Memory, sequence) /\ Size(Memory, x) = Last(x) /\ sequence[x] \in Seq(Elements)
  BY SizesOf
<1>2. PICK i : Denotes(Memory, sequence, x, p, i, Given(x, p))
  BY ArgumentDenotes
<1>v. PICK v : v = Given(x, p)
  OBVIOUS
<1>3. v \in Elements
  BY <1>1, <1>2, <1>v, ElemGives
<1>4. PICK t : t = IF kind = "object" /\ Last(x) >= Capacity(Memory, x) THEN GrowAndEmplaceBack(Memory, x, p)
                   ELSE AppendCopies(Memory, x, 1, p, FALSE)
  OBVIOUS
<1>5. ASSUME ~Throws(Memory, x, Last(x) + 1)
      PROVE  Sound(t, [sequence EXCEPT ![x] = Append(sequence[x], v)])
  <2>1. CASE kind = "object" /\ Last(x) >= Capacity(Memory, x)
    BY <1>1, <1>2, <1>v, <1>4, <1>5, <2>1, GrowAndEmplaceBackIsSound
  <2>2. CASE ~(kind = "object" /\ Last(x) >= Capacity(Memory, x))
    <3>1. PICK one \in Nat, copying \in BOOLEAN : one = 1 /\ copying = FALSE
      OBVIOUS
    <3>2. ~Throws(Memory, x, Size(Memory, x) + one)
      BY <1>1, <1>5, <3>1
    <3>3. Sound(AppendCopies(Memory, x, one, p, copying),
                [sequence EXCEPT ![x] = Giving(sequence[x], i, copying) \o Repeat(one, v)])
      BY <1>1, <1>2, <1>v, <3>1, <3>2, AppendCopiesIsSound
    <3>4. Giving(sequence[x], i, copying) = sequence[x]
      BY <3>1 DEF Giving
    <3>5. sequence[x] \o Repeat(1, v) = Append(sequence[x], v)
      BY <1>1, <1>3, OneElement
    <3> QED
      BY <1>4, <2>2, <3>1, <3>3, <3>4, <3>5
  <2> QED
    BY <2>1, <2>2
<1> QED
  BY <1>4, <1>5, <1>v, ThrowOrIsSound DEF EmplaceBack, With

\* Appending the first n elements of y.
LEMMA AppendRangeIsSound ==
    ASSUME NEW s, NEW q, Sound(s, q), NEW x \in Vectors, NEW y \in Vectors,
           NEW n \in Nat, n <= Len(q[y]),
           x = y => Size(s, x) + n <= Capacity(s, x),
           ~Throws(s, x, Size(s, x) + n)
    PROVE  Sound(AppendRange(s, x, At(s, y, 0), n, FALSE), [q EXCEPT ![x] = q[x] \o Slice(q[y], 0, n)])
<1>1. s.vec[x].size \in Nat
  BY SoundParts
<1>t. PICK t : t = Reserve(s, x, Size(s, x) + n)
  OBVIOUS
<1>2. Sound(t, q) /\ Grown(s, t, x, Size(s, x) + n)
  BY <1>1, <1>t, ReserveIsSound DEF Size
<1>3. t.vec[x].size + n <= t.vec[x].capacity /\ t.vec[x].size = s.vec[x].size
  BY <1>2 DEF Grown, Size
<1>4. At(s, y, 0) = At(t, y, 0)
  <2>1. CASE x = y
    <3>1. s.vec[x].capacity \in Nat
      BY SoundParts
    <3>2. t = s
      BY <1>1, <1>t, <2>1, <3>1 DEF Reserve, Size, Capacity
    <3> QED
      BY <3>2
  <2>2. CASE x # y
    BY <1>2, <2>2 DEF Grown, At
  <2> QED
    BY <2>1, <2>2
<1>5. PICK none \in Nat, copying \in BOOLEAN : none = 0 /\ copying = FALSE
  OBVIOUS
<1>6. none + n <= Len(q[y]) /\ (copying => x # y \/ n > 0)
  BY <1>5
<1>7. Sound(SetSize(SetMem(t, Transfer(t.mem, At(t, y, none), n, EndOf(t, x), copying, Construct)), x, t.vec[x].size + n),
            [Taken(q, y, none, n, copying) EXCEPT ![x] = Taken(q, y, none, n, copying)[x] \o Slice(q[y], none, n)])
  BY <1>2, <1>3, <1>6, TransferEndIsSound
<1>8. Taken(q, y, none, n, copying) = q
  BY <1>5 DEF Taken
<1>9. AppendRange(s, x, At(s, y, 0), n, FALSE)
        = SetSize(SetMem(t, Transfer(t.mem, At(t, y, none), n, EndOf(t, x), copying, Construct)), x, t.vec[x].size + n)
  BY <1>3, <1>4, <1>5, <1>t DEF AppendRange, Size
<1> QED
  BY <1>5, <1>7, <1>8, <1>9

\* A whole sequence is a slice of itself; the empty one is in front of every other.
LEMMA WholeSlice ==
    ASSUME NEW r \in Seq(Elements)
    PROVE  /\ Slice(r, 0, Len(r)) = r /\ <<>> \o r = r /\ SubSeq(r, 1, Len(r)) = r
           /\ SubSeq(r, 1, 0) = <<>> /\ Repeat(0, Default) = <<>>
           /\ \A n \in 0 .. Len(r) : Slice(r, 0, n) = SubSeq(r, 1, n)
<1>1. PICK n \in Nat : n = Len(r)
  OBVIOUS
<1>2. \A m \in 0 .. Len(r) : Slice(r, 0, m) = SubSeq(r, 1, m)
  <2> SUFFICES ASSUME NEW m \in 0 .. Len(r)
               PROVE  Slice(r, 0, m) = SubSeq(r, 1, m)
    OBVIOUS
  <2>1. 0 + 1 = 1 /\ 0 + m = m
    OBVIOUS
  <2> QED
    BY <2>1 DEF Slice
<1>3. SubSeq(r, 1, Len(r)) = r
  <2>1. PICK z \in Nat : z = 0
    OBVIOUS
  <2>2. /\ Slice(r, z, n) \in Seq(Elements) /\ Len(Slice(r, z, n)) = n
        /\ \A k \in 1 .. n : Slice(r, z, n)[k] = r[z + k]
    <3>1. z + n <= Len(r)
      BY <1>1, <2>1
    <3> QED
      BY <3>1, SliceShape
  <2>3. PICK a \in Seq(Elements) : a = Slice(r, z, n) /\ Len(a) = n /\ \A k \in 1 .. n : a[k] = r[z + k]
    BY <2>2
  <2>4. Len(a) = Len(r) /\ \A k \in 1 .. Len(a) : a[k] = r[k]
    BY <1>1, <2>1, <2>3
  <2>5. a = r
    BY <2>4, SameElements
  <2>6. n \in 0 .. Len(r)
    BY <1>1
  <2> QED
    BY <1>1, <1>2, <2>1, <2>3, <2>5, <2>6
<1>4. SubSeq(r, 1, 0) = <<>> /\ <<>> \o r = r /\ Repeat(0, Default) = <<>>
  <2>1. <<>> \o r = r
    BY ConcatEmptySeq
  <2>2. SubSeq(r, 1, 0) = <<>>
    OBVIOUS
  <2>3. 1 .. 0 = {}
    OBVIOUS
  <2>4. Repeat(0, Default) = <<>>
    BY <2>3 DEF Repeat
  <2> QED
    BY <2>1, <2>2, <2>4
<1>5. Len(r) \in 0 .. Len(r)
  OBVIOUS
<1> QED
  BY <1>2, <1>3, <1>4, <1>5

\* append of a range.
LEMMA AppendVectorIsSound ==
    ASSUME Invariant, NEW x \in Vectors, NEW y \in Vectors, AppendVector(x, y)
    PROVE  Invariant'
<1>1. /\ Sound(Memory, sequence) /\ Size(Memory, x) = Last(x) /\ Last(x) \in Nat
      /\ Last(x) <= Capacity(Memory, x) /\ Capacity(Memory, x) \in Nat
  BY SizesOf
<1>2. sequence[y] \in Seq(Elements) /\ Len(sequence[y]) = Last(y) /\ Last(y) \in Nat
  BY SizesOf
<1>3. x = y => Size(Memory, x) + Last(y) <= Capacity(Memory, x)
  BY <1>1, <1>2 DEF AppendVector, SafeToAddRange
<1>4. Slice(sequence[y], 0, Last(y)) = sequence[y]
  BY <1>2, WholeSlice
<1>n. PICK n \in Nat : n = Last(y)
  BY <1>2
<1>5. ASSUME ~Throws(Memory, x, Last(x) + n)
      PROVE  Sound(AppendRange(Memory, x, At(Memory, y, 0), n, FALSE),
                   [sequence EXCEPT ![x] = sequence[x] \o Slice(sequence[y], 0, n)])
  <2>1. ~Throws(Memory, x, Size(Memory, x) + n)
    BY <1>1, <1>5
  <2>2. n <= Len(sequence[y]) /\ (x = y => Size(Memory, x) + n <= Capacity(Memory, x))
    BY <1>2, <1>3, <1>n
  <2> QED
    BY <1>1, <2>1, <2>2, AppendRangeIsSound
<1> QED
  BY <1>4, <1>5, <1>n, ThrowOrIsSound DEF AppendVector, With

-----------------------------------------------------------------------------
(* Size and capacity: the calls.                                           *)

\* reserve.
LEMMA ReserveCapacityIsSound ==
    ASSUME Invariant, NEW x \in Vectors, NEW n \in Nat, ReserveCapacity(x, n)
    PROVE  Invariant'
<1>1. Sound(Memory, sequence)
  BY DEF Invariant
<1>2. ~Throws(Memory, x, n) => Sound(Reserve(Memory, x, n), sequence)
  BY <1>1, ReserveIsSound
<1> QED
  BY <1>2, ThrowOrIsSound DEF ReserveCapacity

\* pop_back, truncate and clear.
LEMMA TruncateIsSound ==
    ASSUME Invariant, NEW x \in Vectors, NEW n \in Nat, Truncate(x, n)
    PROVE  Invariant'
<1>1. Sound(Memory, sequence) /\ Len(sequence[x]) = Last(x) /\ Last(x) \in Nat
  BY SizesOf
<1>2. n \in 0 .. Len(sequence[x])
  BY <1>1 DEF Truncate
<1>3. Sound(DestroyFrom(Memory, x, n), [sequence EXCEPT ![x] = SubSeq(sequence[x], 1, n)])
  BY <1>1, <1>2, DestroyFromIsSound
<1> QED
  BY <1>3, ReturnIsSound DEF Truncate, With

\* resize with default elements.
LEMMA ResizeDefaultIsSound ==
    ASSUME Invariant, NEW x \in Vectors, NEW n \in Nat, ResizeDefault(x, n)
    PROVE  Invariant'
<1>1. Sound(Memory, sequence) /\ Memory.vec[x].size = Last(x) /\ Last(x) \in Nat
  BY SizesOf
<1>2. CASE n <= Last(x)
  BY <1>2, TruncateIsSound DEF ResizeDefault
<1>3. CASE ~(n <= Last(x))
  <2>1. PICK d \in Nat : d = n - Last(x)
    BY <1>1, <1>3
  <2>t. PICK t : t = Reserve(Memory, x, n)
    OBVIOUS
  <2>2. ASSUME ~Throws(Memory, x, n)
        PROVE  Sound(AddAtEnd(t, x, d, Default, FALSE), [sequence EXCEPT ![x] = sequence[x] \o Repeat(d, Default)])
    <3>1. Sound(t, sequence) /\ Grown(Memory, t, x, n)
      BY <1>1, <2>2, <2>t, ReserveIsSound
    <3>2. t.vec[x].size + d <= t.vec[x].capacity
      <4>1. t.vec[x].size = Last(x) /\ n <= t.vec[x].capacity
        BY <1>1, <3>1 DEF Grown
      <4> QED
        BY <1>1, <2>1, <4>1
    <3>3. Denotes(t, sequence, x, Default, -1, Default)
      BY SizesAssumption DEF Denotes, Elements
    <3> QED
      BY <3>1, <3>2, <3>3, AddCopiesIsSound
  <2> QED
    BY <1>3, <2>1, <2>t, <2>2, ThrowOrIsSound DEF ResizeDefault, With
<1> QED
  BY <1>2, <1>3

\* resize with copies of an argument.
LEMMA ResizeIsSound ==
    ASSUME Invariant, NEW x \in Vectors, NEW n \in Nat, NEW p \in Arguments(x), Resize(x, n, p)
    PROVE  Invariant'
<1>1. Last(x) \in Nat
  BY SizesOf
<1>2. CASE n <= Last(x)
  BY <1>2, TruncateIsSound DEF Resize
<1>3. CASE ~(n <= Last(x))
  <2>1. PICK d \in Nat : d = n - Last(x)
    BY <1>1, <1>3
  <2> QED
    BY <1>3, <2>1, AppendNIsSound DEF Resize
<1> QED
  BY <1>2, <1>3

-----------------------------------------------------------------------------
(* Assigning.                                                              *)

\* Repetitions of one value.
LEMMA RepetitionsJoin ==
    ASSUME NEW v \in Elements, NEW a \in Nat, NEW b \in Nat
    PROVE  Repeat(a, v) \o Repeat(b, v) = Repeat(a + b, v)
<1>1. PICK e \in Seq(Elements) : e = Repeat(a, v) /\ Len(e) = a /\ \A k \in 1 .. a : e[k] = v
  BY Repetition
<1>2. PICK f \in Seq(Elements) : f = Repeat(b, v) /\ Len(f) = b /\ \A k \in 1 .. b : f[k] = v
  BY Repetition
<1>3. PICK g \in Seq(Elements) : g = Repeat(a + b, v) /\ Len(g) = a + b /\ \A k \in 1 .. a + b : g[k] = v
  BY Repetition
<1>4. e \o f = g
  <2>0. /\ e \o f \in Seq(Elements) /\ Len(e \o f) = Len(e) + Len(f)
        /\ \A k \in 1 .. Len(e) : (e \o f)[k] = e[k]
        /\ \A k \in 1 .. Len(f) : (e \o f)[Len(e) + k] = f[k]
    BY Joining
  <2>1. Len(e) = a /\ Len(f) = b
    BY <1>1, <1>2
  <2>2. PICK j \in Seq(Elements) :
          /\ j = e \o f /\ Len(j) = a + b
          /\ \A k \in 1 .. a : j[k] = e[k]
          /\ \A k \in 1 .. b : j[a + k] = f[k]
    BY <2>0, <2>1
  <2>3. ASSUME NEW k \in 1 .. (a + b)
        PROVE  j[k] = v
    <3>1. CASE k <= a
      BY <1>1, <2>2, <3>1
    <3>2. CASE ~(k <= a)
      <4>1. k - a \in 1 .. b /\ a + (k - a) = k
        BY <3>2
      <4> QED
        BY <1>2, <2>2, <4>1
    <3> QED
      BY <3>1, <3>2
  <2>4. j = g
    BY <1>3, <2>2, <2>3, SameElements
  <2> QED
    BY <2>2, <2>4
<1> QED
  BY <1>1, <1>2, <1>3, <1>4

\* The first elements of a sequence, replaced.
LEMMA OverPrefix ==
    ASSUME NEW e \in Seq(Elements), NEW z \in Nat, z = 0,
           NEW r \in Seq(Elements), Len(e) <= Len(r)
    PROVE  /\ SubSeq(Over(r, z, e), 1, Len(e)) = e
           /\ Len(e) = Len(r) => Over(r, z, e) = e
           /\ Len(Over(r, z, e)) = Len(r)
<1>1. PICK a \in Nat : a = Len(e)
  OBVIOUS
<1>2. PICK w \in Seq(Elements) :
        /\ w = Over(r, z, e) /\ Len(w) = Len(r)
        /\ \A k \in 1 .. Len(r) : w[k] = IF k \in (z + 1) .. (z + Len(e)) THEN e[k - z] ELSE r[k]
  BY OverShape
<1>3. \A k \in 1 .. a : w[k] = e[k]
  <2> SUFFICES ASSUME NEW k \in 1 .. a
               PROVE  w[k] = e[k]
    OBVIOUS
  <2>1. k \in 1 .. Len(r) /\ k \in (z + 1) .. (z + Len(e)) /\ k - z = k
    BY <1>1
  <2> QED
    BY <1>2, <2>1
<1>4. z + a <= Len(w)
  BY <1>1, <1>2
<1>5. PICK c \in Seq(Elements) : c = Slice(w, z, a) /\ Len(c) = a /\ \A k \in 1 .. a : c[k] = w[z + k]
  BY <1>4, SliceShape
<1>6. c = e
  <2>1. \A k \in 1 .. a : z + k = k
    OBVIOUS
  <2>2. \A k \in 1 .. a : c[k] = e[k]
    BY <1>3, <1>5, <2>1
  <2> QED
    BY <1>1, <1>5, <2>2, SameElements
<1>7. c = SubSeq(w, 1, a)
  <2>1. a \in 0 .. Len(w)
    BY <1>4
  <2> QED
    BY <1>5, <2>1, WholeSlice
<1>8. a = Len(r) => w = e
  BY <1>1, <1>2, <1>3, SameElements
<1> QED
  BY <1>1, <1>2, <1>6, <1>7, <1>8

\* Assigning over the elements that are there.
LEMMA AssignInPlaceIsSound ==
    ASSUME NEW s, NEW q, Sound(s, q), NEW x \in Vectors, NEW n \in Nat, n <= Capacity(s, x),
           NEW p, NEW i, NEW v, Denotes(s, q, x, p, i, v)
    PROVE  Sound(AssignInPlace(s, x, n, p), [q EXCEPT ![x] = Repeat(n, v)])
<1>1. /\ Size(s, x) \in Nat /\ Len(q[x]) = Size(s, x) /\ q[x] \in Seq(Elements) /\ IsState(s)
      /\ DOMAIN q = Vectors
  BY SoundParts DEF Size, Sound
<1>2. v \in Elements /\ Elem(s.mem, p) = v
  BY ElemGives
<1>b. PICK size \in Nat, both \in Nat : /\ size = Size(s, x) /\ both = IF n < size THEN n ELSE size
                                        /\ both <= size /\ both <= n
  BY <1>1
<1>e. PICK e \in Seq(Elements) : e = Repeat(both, v) /\ Len(e) = both /\ \A k \in 1 .. both : e[k] = v
  BY <1>2, Repetition
<1>r. PICK val : val = [k \in 0 .. (both - 1) |-> Elem(s.mem, p)]
  OBVIOUS
<1>3. Gives(val, e)
  <2>1. ASSUME NEW k \in 0 .. (both - 1)
        PROVE  val[k] = e[k + 1]
    <3>1. k + 1 \in 1 .. both
      OBVIOUS
    <3> QED
      BY <1>2, <1>e, <1>r, <3>1
  <2> QED
    BY <1>e, <2>1 DEF Gives
<1>z. PICK z \in Nat : z = 0
  OBVIOUS
<1>m. PICK m : m = Fill(s.mem, At(s, x, z), both, p, Assign)
  OBVIOUS
<1>o. PICK over : over = SetMem(s, m)
  OBVIOUS
<1>4. m = Write(s.mem, At(s, x, z), Len(e), val, Assign)
  BY <1>e, <1>m, <1>r DEF Fill
<1>5. Sound(over, [q EXCEPT ![x] = Over(q[x], z, e)])
  <2>1. z + Len(e) <= Len(q[x])
    BY <1>1, <1>b, <1>e, <1>z
  <2> QED
    BY <1>3, <1>4, <1>o, <2>1, WriteOverIsSound
<1>6. over.vec = s.vec /\ IsState(over)
  BY <1>1, <1>o, SetMemGives
<1>f. PICK f : f = [q EXCEPT ![x] = Over(q[x], z, e)]
  OBVIOUS
<1>7. /\ f[x] = Over(q[x], z, e) /\ DOMAIN f = Vectors
      /\ \A a : [f EXCEPT ![x] = a] = [q EXCEPT ![x] = a]
  BY <1>1, <1>f
<1>8. CASE n > size
  <2>1. both = size /\ size + (n - size) = n
    BY <1>b, <1>8
  <2>2. PICK d \in Nat : d = n - size
    BY <1>8
  <2>3. Over(q[x], z, e) = e
    <3>1. Len(e) <= Len(q[x]) /\ Len(e) = Len(q[x])
      BY <1>1, <1>b, <1>e, <2>1
    <3> QED
      BY <1>1, <1>z, <3>1, OverPrefix
  <2>4. Denotes(over, f, x, p, i, v)
    <3>1. CASE i = -1
      BY <3>1 DEF Denotes
    <3>2. CASE i # -1
      <4>1. i \in 0 .. (size - 1) /\ p = At(s, x, i)
        BY <1>1, <1>b, <3>2 DEF Denotes
      <4>2. i \in 0 .. (Len(e) - 1) /\ e[i + 1] = v
        <5>1. i + 1 \in 1 .. both
          BY <2>1, <4>1
        <5> QED
          BY <1>e, <2>1, <4>1, <5>1
      <4>3. At(over, x, i) = At(s, x, i)
        BY <1>6 DEF At
      <4> QED
        BY <1>7, <2>3, <3>2, <4>1, <4>2, <4>3 DEF Denotes
    <3> QED
      BY <3>1, <3>2
  <2>5. over.vec[x].size + d <= over.vec[x].capacity
    <3>1. over.vec[x].size = size /\ n <= over.vec[x].capacity
      BY <1>6, <1>b DEF Size, Capacity
    <3> QED
      BY <2>1, <2>2, <3>1
  <2>6. Sound(AddAtEnd(over, x, d, p, FALSE), [f EXCEPT ![x] = f[x] \o Repeat(d, v)])
    BY <1>5, <1>f, <2>4, <2>5, AddCopiesIsSound
  <2>7. f[x] \o Repeat(d, v) = Repeat(n, v)
    <3>1. f[x] = Repeat(size, v) /\ size + d = n
      BY <1>7, <1>e, <2>1, <2>2, <2>3
    <3> QED
      <4>1. Repeat(size, v) \o Repeat(d, v) = Repeat(size + d, v)
        BY <1>2, RepetitionsJoin
      <4> QED
        BY <3>1, <4>1
  <2>8. AssignInPlace(s, x, n, p) = AddAtEnd(over, x, d, p, FALSE)
    BY <1>8, <1>b, <1>m, <1>o, <1>z, <2>2 DEF AssignInPlace
  <2> QED
    BY <1>7, <2>6, <2>7, <2>8
<1>9. CASE ~(n > size)
  <2>1. both = n
    BY <1>9, <1>b
  <2>2. n \in 0 .. Len(f[x])
    <3>1. Len(f[x]) = Len(q[x])
      <4>1. Len(Over(q[x], z, e)) = Len(q[x])
        BY <1>1, OverShape
      <4> QED
        BY <1>7, <4>1
    <3> QED
      BY <1>1, <1>9, <1>b, <3>1
  <2>3. Sound(DestroyFrom(over, x, n), [f EXCEPT ![x] = SubSeq(f[x], 1, n)])
    BY <1>5, <1>f, <2>2, DestroyFromIsSound
  <2>4. SubSeq(f[x], 1, n) = Repeat(n, v)
    <3>1. Len(e) <= Len(q[x])
      BY <1>1, <1>9, <1>b, <1>e
    <3>2. SubSeq(Over(q[x], z, e), 1, Len(e)) = e
      BY <1>1, <1>z, <3>1, OverPrefix
    <3> QED
      BY <1>7, <1>e, <2>1, <3>2
  <2>5. AssignInPlace(s, x, n, p) = DestroyFrom(over, x, n)
    BY <1>9, <1>b, <1>m, <1>o, <1>z DEF AssignInPlace
  <2> QED
    BY <1>7, <2>3, <2>4, <2>5
<1> QED
  BY <1>8, <1>9

\* Growing with the new elements built before the old ones go.
LEMMA GrowAndAssignIsSound ==
    ASSUME NEW s, NEW q, Sound(s, q), NEW x \in Vectors, NEW n \in Nat, n <= SizeTypeMax,
           NEW p, NEW i, NEW v, Denotes(s, q, x, p, i, v)
    PROVE  Sound(GrowAndAssign(s, x, n, p), [q EXCEPT ![x] = Repeat(n, v)])
<1>a. PICK cap, old, size : cap = NewCapacity(s, x, n) /\ old = s.vec[x].begin /\ size = s.vec[x].size
  OBVIOUS
<1>1. /\ cap \in Nat /\ cap > 0 /\ cap <= SizeTypeMax /\ n <= cap
      /\ Capacity(s, x) \in Nat /\ Capacity(s, x) <= SizeTypeMax
  <2>1. Capacity(s, x) \in Nat /\ Capacity(s, x) <= SizeTypeMax
    BY SoundParts DEF Capacity
  <2> QED
    BY <1>a, <2>1, NewCapacityGives
<1>2. /\ old \in Buffers /\ size \in Nat /\ Len(q[x]) = size /\ IsState(s)
      /\ HoldsCells(s.mem, old, q[x]) /\ DOMAIN s.mem[old] \subseteq Nat
  BY <1>a, SoundParts
<1>v. v \in Elements
  BY ElemGives
<1>e. PICK e \in Seq(Elements) : e = Repeat(n, v) /\ Len(e) = n
  BY <1>v, Repetition
<1>3. PICK b \in Blocks :
        /\ Unowned(s, b) /\ Malloc(s, cap).block = <<b, 0>>
        /\ Built(s, SetMem(s, Fill(Malloc(s, cap).mem, <<b, 0>>, n, p, Construct)), b, cap, 0, Repeat(n, v))
  <2>1. PICK z \in Nat : z = 0
    OBVIOUS
  <2>2. \E b \in Blocks :
          /\ Unowned(s, b) /\ Malloc(s, cap).block = <<b, 0>>
          /\ Built(s, SetMem(s, Fill(Malloc(s, cap).mem, <<b, z>>, n, p, Construct)), b, cap, z, Repeat(n, v))
    <3>1. z + n <= cap
      BY <1>1, <2>1
    <3> QED
      BY <1>1, <3>1, BuildGives
  <2> QED
    BY <2>1, <2>2
<1>u. PICK u : u = SetMem(s, Fill(Malloc(s, cap).mem, <<b, 0>>, n, p, Construct))
  OBVIOUS
<1>4. /\ IsState(u) /\ u.vec = s.vec /\ DOMAIN u.mem = Buffers
      /\ \A c \in Buffers : c # b => u.mem[c] = s.mem[c]
      /\ DOMAIN u.mem[b] = 0 .. (cap - 1)
      /\ \A k \in 0 .. (cap - 1) : u.mem[b][k] = IF k \in 0 .. (0 + Len(e) - 1) THEN e[k - 0 + 1] ELSE Raw
  BY <1>3, <1>e, <1>u DEF Built
<1>5. b # old /\ u.mem[old] = s.mem[old]
  BY <1>2, <1>3, <1>4, <1>a DEF Unowned
<1>w. PICK w : w = Destroy(u.mem, <<old, 0>>, size)
  OBVIOUS
<1>6. Live(u.mem, old, 0, size)
  <2>1. ASSUME NEW k \in 0 .. (0 + size - 1)
        PROVE  k \in DOMAIN s.mem[old] /\ Alive(s.mem[old][k])
    <3>1. k \in 0 .. (Len(q[x]) - 1)
      BY <1>2
    <3>2. k \in DOMAIN s.mem[s.vec[x].begin] /\ s.mem[s.vec[x].begin][k] \in Elements
      BY <3>1, SoundParts
    <3> QED
      BY <1>a, <3>2, Marks
  <2> QED
    BY <1>5, <2>1 DEF Live
<1>7. /\ OnlyIn(u.mem, w, old)
      /\ \A k \in DOMAIN u.mem[old] : w[old][k] = IF k \in 0 .. (0 + size - 1) THEN Raw ELSE u.mem[old][k]
  <2>1. old \in DOMAIN u.mem /\ 0 \in Nat
    BY <1>2, <1>4
  <2> QED
    BY <1>2, <1>6, <1>w, <2>1, DestroyGives
<1>8. /\ DOMAIN w = Buffers /\ DOMAIN w[old] = DOMAIN s.mem[old]
      /\ \A c \in Buffers : c # old => w[c] = u.mem[c]
  BY <1>4, <1>5, <1>7 DEF OnlyIn
<1>9. ASSUME NEW k \in DOMAIN s.mem[old]
      PROVE  w[old][k] = Raw
  <2>1. k \in Nat /\ s.mem[old][k] = IF k < size THEN q[x][k + 1] ELSE Raw
    BY <1>2 DEF HoldsCells
  <2>2. w[old][k] = IF k \in 0 .. (0 + size - 1) THEN Raw ELSE s.mem[old][k]
    BY <1>5, <1>7
  <2>3. k \in 0 .. (0 + size - 1) <=> k < size
    BY <1>2, <2>1
  <2> QED
    BY <2>1, <2>2, <2>3
<1>10. HoldsCells(w, old, <<>>)
  <2>1. \A k \in DOMAIN w[old] : ~(k < Len(<<>>))
    BY <1>2, <1>8
  <2> QED
    BY <1>8, <1>9, <2>1 DEF HoldsCells
<1>d. PICK d : d = DestroyFrom(u, x, 0)
  OBVIOUS
<1>11. Resized(s, d, x) /\ d.mem = w /\ IsState(d)
  <2>1. size - 0 = size
    BY <1>2
  <2>2. d = SetSize(SetMem(u, w), x, 0)
    BY <1>4, <1>a, <1>d, <1>w, <2>1 DEF DestroyFrom, At, Size
  <2>3. IsState(SetMem(u, w)) /\ SetMem(u, w).mem = w /\ SetMem(u, w).vec = s.vec
    BY <1>4, SetMemGives
  <2>4. Resized(SetMem(u, w), d, x) /\ d.mem = w
    BY <2>2, <2>3, SetSizeGives
  <2> QED
    BY <2>3, <2>4 DEF Resized
<1>12. Vacated(s, d.mem, x, b)
  BY <1>4, <1>8, <1>10, <1>11, <1>a DEF Vacated
<1>13. d.mem[b] = u.mem[b] /\ b \in Buffers
  BY <1>5, <1>8, <1>11 DEF Buffers
<1>14. HoldsCells(d.mem, b, e) /\ DOMAIN d.mem[b] = 0 .. (cap - 1)
  <2>1. ASSUME NEW k \in 0 .. (cap - 1)
        PROVE  u.mem[b][k] = IF k < Len(e) THEN e[k + 1] ELSE Raw
    <3>1. (k \in 0 .. (0 + Len(e) - 1) <=> k < Len(e)) /\ k - 0 + 1 = k + 1
      OBVIOUS
    <3> QED
      BY <1>4, <3>1
  <2> QED
    BY <1>4, <1>13, <2>1 DEF HoldsCells
<1>g. PICK g : g = TakeAllocation(d, x, <<b, 0>>, cap)
  OBVIOUS
<1>15. Relocated(s, g, x, b, cap)
  BY <1>1, <1>2, <1>11, <1>13, <1>g, TakeAllocationGives
<1>t. PICK t : t = SetSize(g, x, Len(e))
  OBVIOUS
<1>16. Resized(g, t, x) /\ t.mem = g.mem /\ t.vec[x].size = Len(e)
  BY <1>15, <1>t, SetSizeGives DEF Relocated
<1>17. Relocated(s, t, x, b, cap)
  BY <1>15, <1>16 DEF Relocated, Resized
<1>18. t.mem = TakeAllocation(d, x, <<b, 0>>, cap).mem
  BY <1>16, <1>g
<1>19. Len(e) <= cap
  BY <1>1, <1>e
<1>20. Sound(t, [q EXCEPT ![x] = e])
  BY <1>1, <1>3, <1>11, <1>12, <1>14, <1>16, <1>17, <1>18, <1>19, TakeAllocationIsSound
<1>21. GrowAndAssign(s, x, n, p) = t
  <2>1. Malloc(s, cap).block = <<b, 0>>
    BY <1>3
  <2>2. GrowAndAssign(s, x, n, p) = SetSize(g, x, n)
    BY <1>a, <1>d, <1>g, <1>u, <2>1 DEF GrowAndAssign
  <2> QED
    BY <1>e, <1>t, <2>2
<1> QED
  BY <1>e, <1>20, <1>21

\* A vector without elements.
LEMMA DestroyAllIsSound ==
    ASSUME NEW s, NEW q, Sound(s, q), NEW x \in Vectors
    PROVE  /\ Sound(DestroyFrom(s, x, 0), [q EXCEPT ![x] = <<>>])
           /\ Shrunk(s, DestroyFrom(s, x, 0), x, 0)
<1>1. q[x] \in Seq(Elements) /\ Len(q[x]) \in Nat
  BY SoundParts
<1>2. PICK z \in 0 .. Len(q[x]) : z = 0
  BY <1>1
<1>3. /\ Sound(DestroyFrom(s, x, z), [q EXCEPT ![x] = SubSeq(q[x], 1, z)])
      /\ Shrunk(s, DestroyFrom(s, x, z), x, z)
  BY DestroyFromIsSound
<1>4. SubSeq(q[x], 1, 0) = <<>>
  BY <1>1, WholeSlice
<1> QED
  BY <1>2, <1>3, <1>4

\* and one that drops the old elements before it may throw.
LEMMA ThrowEmptyOrIsSound ==
    ASSUME Invariant, NEW x \in Vectors, NEW n, NEW s, NEW q, ThrowEmptyOr(x, n, s, q),
           ~Throws(Memory, x, n) => Sound(s, q)
    PROVE  Invariant'
<1>1. CASE Throws(Memory, x, n)
  <2>1. Sound(DestroyFrom(Memory, x, 0), With(x, <<>>))
    BY DestroyAllIsSound DEF Invariant, With
  <2>2. Return(DestroyFrom(Memory, x, 0), With(x, <<>>))
    BY <1>1 DEF ThrowEmptyOr
  <2> QED
    BY <2>1, <2>2, ReturnIsSound
<1>2. CASE ~Throws(Memory, x, n)
  BY <1>2, ReturnIsSound DEF ThrowEmptyOr
<1> QED
  BY <1>1, <1>2

\* Growing with the old elements gone, for trivial elements.
LEMMA GrowAndAssignTrivialIsSound ==
    ASSUME NEW s, NEW q, Sound(s, q), NEW x \in Vectors, NEW n \in Nat, n <= SizeTypeMax,
           NEW v \in Elements
    PROVE  Sound(GrowAndAssignTrivial(s, x, n, v), [q EXCEPT ![x] = Repeat(n, v)])
<1>d. PICK d, f : d = DestroyFrom(s, x, 0) /\ f = [q EXCEPT ![x] = <<>>]
  OBVIOUS
<1>1. Sound(d, f) /\ d.vec[x].size = 0
  BY <1>d, DestroyAllIsSound DEF Shrunk
<1>g. PICK g : g = Grow(d, x, n)
  OBVIOUS
<1>2. Sound(g, f) /\ Grown(d, g, x, n)
  BY <1>1, <1>g, GrowIsSound
<1>3. g.vec[x].size + n <= g.vec[x].capacity
  <2>1. g.vec[x].size = 0 /\ n <= g.vec[x].capacity
    BY <1>1, <1>2 DEF Grown
  <2> QED
    BY <2>1
<1>4. Denotes(g, f, x, v, -1, v)
  BY DEF Denotes
<1>5. Sound(AddAtEnd(g, x, n, v, FALSE), [f EXCEPT ![x] = f[x] \o Repeat(n, v)])
  BY <1>2, <1>3, <1>4, AddCopiesIsSound
<1>6. [f EXCEPT ![x] = f[x] \o Repeat(n, v)] = [q EXCEPT ![x] = Repeat(n, v)]
  <2>1. DOMAIN q = Vectors /\ Repeat(n, v) \in Seq(Elements)
    BY Repetition DEF Sound
  <2>2. <<>> \o Repeat(n, v) = Repeat(n, v)
    BY <2>1, WholeSlice
  <2> QED
    BY <1>d, <2>1, <2>2
<1> QED
  BY <1>d, <1>g, <1>5, <1>6 DEF GrowAndAssignTrivial

\* assign of copies.
LEMMA AssignNIsSound ==
    ASSUME Invariant, NEW x \in Vectors, NEW n \in Nat, NEW p \in Arguments(x), AssignN(x, n, p)
    PROVE  Invariant'
<1>1. /\ Sound(Memory, sequence) /\ Capacity(Memory, x) \in Nat /\ Capacity(Memory, x) <= SizeTypeMax
      /\ SizeTypeMax \in Nat /\ Memory.mem = mem
  BY SizesOf
<1>v. PICK v : v = Given(x, p)
  OBVIOUS
<1>2. PICK i : Denotes(Memory, sequence, x, Param(p), i, v)
  BY <1>v, ArgumentDenotes
<1>3. PICK j : Denotes(Memory, sequence, x, p, j, v)
  BY <1>v, ArgumentDenotes
<1>q. PICK q : q = [sequence EXCEPT ![x] = Repeat(n, v)]
  OBVIOUS
<1>4. CASE n <= Capacity(Memory, x)
  <2>1. Sound(AssignInPlace(Memory, x, n, Param(p)), q)
    BY <1>1, <1>2, <1>4, <1>q, AssignInPlaceIsSound
  <2>2. Return(AssignInPlace(Memory, x, n, Param(p)), q)
    BY <1>4, <1>q, <1>v DEF AssignN, With
  <2> QED
    BY <2>1, <2>2, ReturnIsSound
<1>5. CASE ~(n <= Capacity(Memory, x))
  <2>1. ~Throws(Memory, x, n) => n <= SizeTypeMax
    BY <1>1, <1>5 DEF Throws
  <2>2. CASE kind = "object"
    <3>1. ~Throws(Memory, x, n) => Sound(GrowAndAssign(Memory, x, n, p), q)
      BY <1>1, <1>3, <1>5, <1>q, <2>1, <2>2, GrowAndAssignIsSound
    <3>2. ThrowOr(x, n, GrowAndAssign(Memory, x, n, p), q)
      BY <1>5, <1>q, <1>v, <2>2 DEF AssignN, With
    <3> QED
      BY <3>1, <3>2, ThrowOrIsSound
  <2>3. CASE kind # "object"
    <3>1. Elem(mem, p) = v /\ v \in Elements
      BY <1>1, <1>3, ElemGives
    <3>2. ~Throws(Memory, x, n) => Sound(GrowAndAssignTrivial(Memory, x, n, v), q)
      BY <1>1, <1>q, <2>1, <3>1, GrowAndAssignTrivialIsSound
    <3>3. ThrowEmptyOr(x, n, GrowAndAssignTrivial(Memory, x, n, v), q)
      BY <1>5, <1>q, <1>v, <2>3, <3>1 DEF AssignN, With
    <3> QED
      BY <3>2, <3>3, ThrowEmptyOrIsSound
  <2> QED
    BY <2>2, <2>3
<1> QED
  BY <1>4, <1>5

\* assign of a list, or of a range outside the vectors.
LEMMA AssignListIsSound ==
    ASSUME Invariant, NEW x \in Vectors, NEW n \in Nat, NEW v \in Values, AssignList(x, n, v)
    PROVE  Invariant'
<1>1. Sound(Memory, sequence) /\ DOMAIN sequence = Vectors /\ v \in Elements
  BY SizesOf DEF Elements
<1>d. PICK d, f : d = DestroyFrom(Memory, x, 0) /\ f = [sequence EXCEPT ![x] = <<>>]
  OBVIOUS
<1>2. Sound(d, f) /\ d.vec[x].size = 0 /\ d.vec[x].capacity = Memory.vec[x].capacity
  BY <1>1, <1>d, DestroyAllIsSound DEF Shrunk
<1>t. PICK t : t = Reserve(d, x, n)
  OBVIOUS
<1>3. ASSUME ~Throws(Memory, x, n)
      PROVE  Sound(AddAtEnd(t, x, n, v, FALSE), [sequence EXCEPT ![x] = Repeat(n, v)])
  <2>1. ~Throws(d, x, n)
    BY <1>2, <1>3 DEF Throws, Capacity
  <2>2. Sound(t, f) /\ Grown(d, t, x, n)
    BY <1>2, <1>t, <2>1, ReserveIsSound
  <2>3. t.vec[x].size + n <= t.vec[x].capacity
    <3>1. t.vec[x].size = 0 /\ n <= t.vec[x].capacity
      BY <1>2, <2>2 DEF Grown
    <3> QED
      BY <3>1
  <2>4. Denotes(t, f, x, v, -1, v)
    BY <1>1 DEF Denotes
  <2>5. Sound(AddAtEnd(t, x, n, v, FALSE), [f EXCEPT ![x] = f[x] \o Repeat(n, v)])
    BY <2>2, <2>3, <2>4, AddCopiesIsSound
  <2>6. [f EXCEPT ![x] = f[x] \o Repeat(n, v)] = [sequence EXCEPT ![x] = Repeat(n, v)]
    <3>1. <<>> \o Repeat(n, v) = Repeat(n, v)
      BY <1>1, Repetition, WholeSlice
    <3> QED
      BY <1>1, <1>d, <3>1
  <2> QED
    BY <2>5, <2>6
<1> QED
  BY <1>3, <1>d, <1>t, ThrowEmptyOrIsSound DEF AssignList, With

\* assign of a range of another vector.
LEMMA AssignVectorIsSound ==
    ASSUME Invariant, NEW x \in Vectors, NEW y \in Vectors, AssignVector(x, y)
    PROVE  Invariant'
<1>1. Sound(Memory, sequence) /\ DOMAIN sequence = Vectors /\ x # y
  BY SizesOf DEF AssignVector
<1>2. sequence[y] \in Seq(Elements) /\ Len(sequence[y]) = Last(y)
  BY SizesOf
<1>n. PICK n \in Nat : n = Last(y)
  BY SizesOf
<1>d. PICK d, f : d = DestroyFrom(Memory, x, 0) /\ f = [sequence EXCEPT ![x] = <<>>]
  OBVIOUS
<1>3. /\ Sound(d, f) /\ d.vec[x].size = 0 /\ d.vec[x].capacity = Memory.vec[x].capacity
      /\ d.vec[y] = Memory.vec[y]
  BY <1>1, <1>d, DestroyAllIsSound DEF Shrunk
<1>4. f[x] = <<>> /\ f[y] = sequence[y]
  BY <1>1, <1>d
<1>5. Slice(sequence[y], 0, n) = sequence[y] /\ <<>> \o sequence[y] = sequence[y]
  BY <1>2, <1>n, WholeSlice
<1>6. ASSUME ~Throws(Memory, x, n)
      PROVE  Sound(AppendRange(d, x, At(Memory, y, 0), n, FALSE), [sequence EXCEPT ![x] = sequence[y]])
  <2>1. ~Throws(d, x, Size(d, x) + n)
    <3>1. 0 + n = n
      OBVIOUS
    <3> QED
      BY <1>3, <1>6, <3>1 DEF Throws, Size, Capacity
  <2>2. n <= Len(f[y])
    BY <1>2, <1>4, <1>n
  <2>3. Sound(AppendRange(d, x, At(d, y, 0), n, FALSE), [f EXCEPT ![x] = f[x] \o Slice(f[y], 0, n)])
    BY <1>1, <1>3, <2>1, <2>2, AppendRangeIsSound
  <2>4. At(d, y, 0) = At(Memory, y, 0)
    BY <1>3 DEF At
  <2>5. [f EXCEPT ![x] = f[x] \o Slice(f[y], 0, n)] = [sequence EXCEPT ![x] = sequence[y]]
    BY <1>1, <1>4, <1>5, <1>d
  <2> QED
    BY <2>3, <2>4, <2>5
<1> QED
  BY <1>6, <1>d, <1>n, ThrowEmptyOrIsSound DEF AssignVector, With

\* r is e, and behind it f.
Joined(r, e, f) == e \o f = r

\* A sequence is two slices of it, one behind the other.
LEMMA SlicesJoin ==
    ASSUME NEW r \in Seq(Elements), NEW z \in Nat, z = 0, NEW a \in Nat, NEW b \in Nat,
           a + b = Len(r)
    PROVE  Joined(r, Slice(r, z, a), Slice(r, a, b))
<1>1. z + a <= Len(r) /\ a + b <= Len(r)
  OBVIOUS
<1>2. PICK e \in Seq(Elements) : e = Slice(r, z, a) /\ Len(e) = a /\ \A k \in 1 .. a : e[k] = r[z + k]
  <2>1. /\ Slice(r, z, a) \in Seq(Elements) /\ Len(Slice(r, z, a)) = a
        /\ \A k \in 1 .. a : Slice(r, z, a)[k] = r[z + k]
    BY <1>1, SliceShape
  <2> QED
    BY <2>1
<1>3. PICK f \in Seq(Elements) : f = Slice(r, a, b) /\ Len(f) = b /\ \A k \in 1 .. b : f[k] = r[a + k]
  <2>1. /\ Slice(r, a, b) \in Seq(Elements) /\ Len(Slice(r, a, b)) = b
        /\ \A k \in 1 .. b : Slice(r, a, b)[k] = r[a + k]
    BY <1>1, SliceShape
  <2> QED
    BY <2>1
<1>4. /\ e \o f \in Seq(Elements) /\ Len(e \o f) = Len(e) + Len(f)
      /\ \A k \in 1 .. Len(e) : (e \o f)[k] = e[k]
      /\ \A k \in 1 .. Len(f) : (e \o f)[Len(e) + k] = f[k]
  BY <1>2, <1>3, Joining
<1>l. Len(e) = a /\ Len(f) = b /\ Len(e) + Len(f) = Len(r)
  BY <1>2, <1>3
<1>5. PICK j \in Seq(Elements) :
        /\ j = e \o f /\ Len(j) = Len(r)
        /\ \A k \in 1 .. a : j[k] = e[k]
        /\ \A k \in 1 .. b : j[a + k] = f[k]
  BY <1>4, <1>l
<1>6. ASSUME NEW k \in 1 .. Len(r)
      PROVE  j[k] = r[k]
  <2>1. CASE k <= a
    <3>1. k \in 1 .. a /\ z + k = k
      BY <2>1
    <3> QED
      BY <1>2, <1>5, <3>1
  <2>2. CASE ~(k <= a)
    <3>1. k - a \in 1 .. b /\ a + (k - a) = k
      BY <2>2
    <3> QED
      BY <1>3, <1>5, <3>1
  <2> QED
    BY <2>1, <2>2
<1>7. j = r
  BY <1>5, <1>6, SameElements
<1> QED
  BY <1>2, <1>3, <1>5, <1>7 DEF Joined

\* Slices of sequences that agree there.
LEMMA SliceBehind ==
    ASSUME NEW r \in Seq(Elements), NEW t \in Seq(Elements), Len(t) = Len(r),
           NEW a \in Nat, NEW b \in Nat, a + b <= Len(r),
           \A k \in (a + 1) .. (a + b) : t[k] = r[k]
    PROVE  Slice(t, a, b) = Slice(r, a, b)
<1>1. PICK e \in Seq(Elements) : e = Slice(r, a, b) /\ Len(e) = b /\ \A k \in 1 .. b : e[k] = r[a + k]
  BY SliceShape
<1>2. PICK f \in Seq(Elements) : f = Slice(t, a, b) /\ Len(f) = b /\ \A k \in 1 .. b : f[k] = t[a + k]
  BY SliceShape
<1>3. ASSUME NEW k \in 1 .. b
      PROVE  f[k] = e[k]
  <2>1. a + k \in (a + 1) .. (a + b)
    OBVIOUS
  <2> QED
    BY <1>1, <1>2, <2>1
<1>4. f = e
  BY <1>1, <1>2, <1>3, SameElements
<1> QED
  BY <1>1, <1>2, <1>4

\* The sequences after x took the elements of y, of which r is left.
After(q, x, y, r) == [q EXCEPT ![x] = q[y], ![y] = r]

\* What y is left with: its elements, if they were copied.
Rest(q, y, rvalue, r) ==
    r \in Seq(Elements) /\ Len(r) = Len(q[y]) /\ (~rvalue => r = q[y])

\* The vector x has room for the elements of y, and kept all or none of its own.
MadeRoom(s, q, t, p, x, y) ==
    /\ Sound(t, p) /\ t.vec[y] = s.vec[y]
    /\ Len(q[y]) <= t.vec[x].capacity
    /\ \E r \in Seq(Elements) : p = [q EXCEPT ![x] = r]

\* operator= has room for the elements of y: x may have been emptied and grown.
LEMMA MakeRoomIsSound ==
    ASSUME NEW s, NEW q, Sound(s, q), NEW x \in Vectors, NEW y \in Vectors, x # y,
           NEW n, n = Size(s, y)
    PROVE  \E p : MadeRoom(s, q, IF Capacity(s, x) < n THEN Grow(DestroyFrom(s, x, 0), x, n) ELSE s, p, x, y)
<1>1. /\ n \in Nat /\ Len(q[y]) = n /\ n <= SizeTypeMax /\ DOMAIN q = Vectors
  <2>1. Len(q[y]) = s.vec[y].size /\ s.vec[y].size \in Nat /\ s.vec[y].size <= s.vec[y].capacity
        /\ s.vec[y].capacity \in Nat /\ s.vec[y].capacity <= SizeTypeMax /\ SizeTypeMax \in Nat
    BY SoundParts
  <2>2. DOMAIN q = Vectors
    BY DEF Sound
  <2> QED
    BY <2>1, <2>2 DEF Size
<1>2. q[x] \in Seq(Elements) /\ s.vec[x].capacity \in Nat
  BY SoundParts
<1>3. CASE Capacity(s, x) < n
  <2>1. PICK d, f : d = DestroyFrom(s, x, 0) /\ f = [q EXCEPT ![x] = <<>>]
    OBVIOUS
  <2>2. Sound(d, f) /\ d.vec[y] = s.vec[y]
    BY <1>1, <2>1, DestroyAllIsSound DEF Shrunk
  <2>3. PICK g : g = Grow(d, x, n)
    OBVIOUS
  <2>4. Sound(g, f) /\ Grown(d, g, x, n)
    BY <1>1, <2>2, <2>3, GrowIsSound
  <2>5. g.vec[y] = s.vec[y] /\ n <= g.vec[x].capacity
    BY <2>2, <2>4 DEF Grown
  <2>6. <<>> \in Seq(Elements)
    OBVIOUS
  <2>7. MadeRoom(s, q, g, f, x, y)
    BY <1>1, <2>1, <2>4, <2>5, <2>6 DEF MadeRoom
  <2> QED
    BY <1>3, <2>1, <2>3, <2>7
<1>4. CASE ~(Capacity(s, x) < n)
  <2>1. q = [q EXCEPT ![x] = q[x]]
    BY <1>1 DEF Sound
  <2>2. n <= s.vec[x].capacity
    BY <1>1, <1>2, <1>4 DEF Capacity
  <2>3. MadeRoom(s, q, s, q, x, y)
    BY <1>1, <1>2, <2>1, <2>2 DEF MadeRoom
  <2> QED
    BY <1>4, <2>3
<1> QED
  BY <1>3, <1>4

\* What was taken from y changes its sequence there alone.
LeftAt(q, y, f, n, rvalue, r) ==
    /\ Taken(q, y, f, n, rvalue) = [q EXCEPT ![y] = r]
    /\ Len(r) = Len(q[y]) /\ (~rvalue => r = q[y])
    /\ \A k \in 1 .. Len(q[y]) : k \notin (f + 1) .. (f + n) => r[k] = q[y][k]

\* There is such a sequence.
LEMMA TakenIs ==
    ASSUME NEW s, NEW q, Sound(s, q), NEW y \in Vectors, NEW f \in Nat, NEW n \in Nat,
           NEW rvalue \in BOOLEAN
    PROVE  \E r \in Seq(Elements) : LeftAt(q, y, f, n, rvalue, r)
<1>1. q[y] \in Seq(Elements) /\ [q EXCEPT ![y] = q[y]] = q
  BY SoundParts DEF Sound
<1>2. CASE rvalue
  <2>1. PICK r \in Seq(Elements) :
          /\ r = Left(q[y], f, n) /\ Len(r) = Len(q[y])
          /\ \A k \in 1 .. Len(q[y]) : r[k] = IF k \in (f + 1) .. (f + n) THEN LeftOf(q[y][k]) ELSE q[y][k]
    BY <1>1, LeftShape
  <2> QED
    BY <1>2, <2>1 DEF Taken, LeftAt
<1>3. CASE ~rvalue
  BY <1>1, <1>3 DEF Taken, LeftAt
<1> QED
  BY <1>2, <1>3

\* operator=, copying or moving the elements one by one.
LEMMA TakeElementsIsSound ==
    ASSUME NEW s, NEW q, Sound(s, q), NEW x \in Vectors, NEW y \in Vectors, x # y,
           NEW rvalue \in BOOLEAN
    PROVE  \E r : Rest(q, y, rvalue, r) /\ Sound(TakeElements(s, x, y, rvalue), After(q, x, y, r))
<1>n. PICK n \in Nat : n = Size(s, y) /\ Len(q[y]) = n
  BY SoundParts DEF Size
<1>t. PICK t : t = IF Capacity(s, x) < n THEN Grow(DestroyFrom(s, x, 0), x, n) ELSE s
  OBVIOUS
<1>p. PICK p : MadeRoom(s, q, t, p, x, y)
  BY <1>n, <1>t, MakeRoomIsSound
<1>1. /\ Sound(t, p) /\ t.vec[y] = s.vec[y] /\ n <= t.vec[x].capacity
      /\ \E r \in Seq(Elements) : p = [q EXCEPT ![x] = r]
  BY <1>n, <1>p DEF MadeRoom
<1>s. Sound(t, p)
  BY <1>1
<1>2. PICK r0 \in Seq(Elements) : p = [q EXCEPT ![x] = r0]
  BY <1>1
<1>3. DOMAIN q = Vectors /\ p[y] = q[y] /\ DOMAIN p = Vectors /\ q[y] \in Seq(Elements)
  <2>1. DOMAIN q = Vectors /\ q[y] \in Seq(Elements)
    BY SoundParts DEF Sound
  <2> QED
    BY <1>2, <2>1
<1>4. /\ p[x] \in Seq(Elements) /\ Len(p[x]) = t.vec[x].size /\ t.vec[x].size \in Nat /\ IsState(t)
  BY <1>s, SoundParts
<1>5. PICK size \in Nat, both \in Nat : /\ size = Size(t, x) /\ size = Len(p[x])
                                        /\ both = (IF n < size THEN n ELSE size)
                                        /\ both <= n /\ both <= size
  BY <1>4 DEF Size
<1>z. PICK z \in Nat : z = 0
  OBVIOUS
<1>l. PICK left \in Seq(Elements) : LeftAt(p, y, z, both, rvalue, left)
  BY <1>s, TakenIs
<1>6. /\ Taken(p, y, z, both, rvalue) = [p EXCEPT ![y] = left]
      /\ Len(left) = Len(p[y]) /\ (~rvalue => left = p[y])
      /\ \A k \in 1 .. Len(p[y]) : k \notin (z + 1) .. (z + both) => left[k] = p[y][k]
  BY <1>l DEF LeftAt
<1>7. Taken(p, y, z, both, rvalue)[x] = p[x]
  BY <1>3, <1>6
<1>e. PICK e \in Seq(Elements) : e = Slice(q[y], z, both) /\ Len(e) = both
  <2>1. z + both <= Len(q[y])
    BY <1>n, <1>5, <1>z
  <2> QED
    BY <1>3, <2>1, SliceShape
<1>w. PICK w : w = Over(p[x], z, e)
  OBVIOUS
<1>m. PICK m : m = Transfer(t.mem, At(t, y, z), both, At(t, x, z), rvalue, Assign)
  OBVIOUS
<1>u. PICK u, f : u = SetMem(t, m) /\ f = [Taken(p, y, z, both, rvalue) EXCEPT ![x] = w]
  OBVIOUS
<1>8. Sound(u, f)
  <2>1. z + both <= Len(p[y]) /\ z + both <= Len(p[x])
    BY <1>n, <1>3, <1>5, <1>z
  <2>2. Sound(SetMem(t, Transfer(t.mem, At(t, y, z), both, At(t, x, z), rvalue, Assign)),
              [Taken(p, y, z, both, rvalue) EXCEPT
                 ![x] = Over(Taken(p, y, z, both, rvalue)[x], z, Slice(p[y], z, both))])
    BY <1>1, <2>1, TransferOverIsSound
  <2> QED
    BY <1>3, <1>7, <1>e, <1>m, <1>u, <1>w, <2>2
<1>9. f = [q EXCEPT ![x] = w, ![y] = left] /\ f[x] = w /\ f[y] = left /\ DOMAIN f = Vectors
  <2>1. f = [[[q EXCEPT ![x] = r0] EXCEPT ![y] = left] EXCEPT ![x] = w]
    BY <1>2, <1>6, <1>u
  <2>2. [[[q EXCEPT ![x] = r0] EXCEPT ![y] = left] EXCEPT ![x] = w] = [q EXCEPT ![x] = w, ![y] = left]
    BY <1>3
  <2>3. f[x] = w /\ f[y] = left /\ DOMAIN f = Vectors
    BY <1>3, <2>1, <2>2
  <2> QED
    BY <2>1, <2>2, <2>3
<1>10. u.vec = t.vec /\ IsState(u) /\ u.mem = m
  BY <1>4, <1>u, SetMemGives
<1>11. /\ Len(w) = size
       /\ SubSeq(w, 1, both) = e
       /\ both = size => w = e
  <2>1. Len(e) <= Len(p[x])
    BY <1>5, <1>e
  <2>2. /\ SubSeq(Over(p[x], z, e), 1, Len(e)) = e
        /\ Len(e) = Len(p[x]) => Over(p[x], z, e) = e
        /\ Len(Over(p[x], z, e)) = Len(p[x])
    BY <1>4, <1>z, <2>1, OverPrefix
  <2> QED
    BY <1>5, <1>e, <1>w, <2>2
<1>v. TakeElements(s, x, y, rvalue)
        = IF n <= size THEN DestroyFrom(u, x, n)
          ELSE SetSize(SetMem(u, Transfer(u.mem, At(t, y, both), n - both, At(t, x, both), rvalue, Construct)), x, n)
  BY <1>5, <1>m, <1>n, <1>t, <1>u, <1>z DEF TakeElements
<1>12. CASE n <= size
  <2>1. both = n
    BY <1>5, <1>12
  <2>2. e = q[y]
    BY <1>3, <1>e, <1>n, <1>z, <2>1, WholeSlice
  <2>3. n \in 0 .. Len(f[x])
    BY <1>9, <1>11, <1>12
  <2>4. Sound(DestroyFrom(u, x, n), [f EXCEPT ![x] = SubSeq(f[x], 1, n)])
    BY <1>8, <2>3, DestroyFromIsSound
  <2>5. [f EXCEPT ![x] = SubSeq(f[x], 1, n)] = After(q, x, y, left)
    <3>1. SubSeq(f[x], 1, n) = q[y]
      BY <1>9, <1>11, <2>1, <2>2
    <3>2. [f EXCEPT ![x] = q[y]] = [q EXCEPT ![x] = q[y], ![y] = left]
      BY <1>3, <1>9
    <3> QED
      BY <3>1, <3>2 DEF After
  <2>6. TakeElements(s, x, y, rvalue) = DestroyFrom(u, x, n)
    BY <1>12, <1>v
  <2>7. Rest(q, y, rvalue, left)
    BY <1>3, <1>6 DEF Rest
  <2> QED
    BY <2>4, <2>5, <2>6, <2>7
<1>13. CASE ~(n <= size)
  <2>1. both = size /\ w = e
    BY <1>5, <1>11, <1>13
  <2>2. PICK d \in Nat : d = n - both /\ both + d = n
    <3>1. n - both \in Nat /\ both + (n - both) = n
      BY <1>5
    <3> QED
      BY <3>1
  <2>3. both + d <= Len(f[y]) /\ Len(f[y]) = n
    BY <1>n, <1>3, <1>6, <1>9, <2>2
  <2>4. u.vec[x].size = size /\ u.vec[x].size + d <= u.vec[x].capacity
    <3>1. u.vec[x].size = size /\ n <= u.vec[x].capacity
      BY <1>1, <1>5, <1>10 DEF Size
    <3> QED
      BY <2>1, <2>2, <3>1
  <2>a. PICK l \in Seq(Elements) : LeftAt(f, y, both, d, rvalue, l)
    BY <1>8, TakenIs
  <2>l. /\ Taken(f, y, both, d, rvalue) = [f EXCEPT ![y] = l]
        /\ Len(l) = Len(f[y]) /\ (~rvalue => l = f[y])
    BY <2>a DEF LeftAt
  <2>5. Sound(SetSize(SetMem(u, Transfer(u.mem, At(u, y, both), d, EndOf(u, x), rvalue, Construct)), x, u.vec[x].size + d),
              [Taken(f, y, both, d, rvalue) EXCEPT ![x] = Taken(f, y, both, d, rvalue)[x] \o Slice(f[y], both, d)])
    BY <1>8, <2>3, <2>4, TransferEndIsSound
  <2>6. Slice(f[y], both, d) = Slice(q[y], both, d)
    <3>1. \A k \in (both + 1) .. (both + d) : k \in 1 .. Len(p[y]) /\ k \notin (z + 1) .. (z + both)
      BY <1>n, <1>3, <1>z, <2>2
    <3>2. \A k \in (both + 1) .. (both + d) : left[k] = q[y][k]
      BY <1>3, <1>6, <3>1
    <3>3. Slice(left, both, d) = Slice(q[y], both, d)
      <4>1. Len(left) = Len(q[y]) /\ both + d <= Len(q[y])
        BY <1>n, <1>3, <1>6, <2>2
      <4> QED
        BY <1>3, <3>2, <4>1, SliceBehind
    <3> QED
      BY <1>9, <3>3
  <2>7. e \o Slice(q[y], both, d) = q[y]
    <3>1. both + d = Len(q[y])
      BY <1>n, <2>2
    <3>2. Joined(q[y], Slice(q[y], z, both), Slice(q[y], both, d))
      BY <1>3, <1>z, <3>1, SlicesJoin
    <3> QED
      BY <1>e, <3>2 DEF Joined
  <2>8. [Taken(f, y, both, d, rvalue) EXCEPT ![x] = Taken(f, y, both, d, rvalue)[x] \o Slice(f[y], both, d)]
          = After(q, x, y, l)
    <3>1. Taken(f, y, both, d, rvalue)[x] = e
      BY <1>9, <2>1, <2>l
    <3>2. [[f EXCEPT ![y] = l] EXCEPT ![x] = q[y]] = [q EXCEPT ![x] = q[y], ![y] = l]
      BY <1>3, <1>9
    <3> QED
      BY <2>6, <2>7, <2>l, <3>1, <3>2 DEF After
  <2>9. EndOf(u, x) = At(t, x, both) /\ At(u, y, both) = At(t, y, both)
    BY <1>10, <2>1, <2>4 DEF EndOf, At, Size
  <2>10. TakeElements(s, x, y, rvalue)
          = SetSize(SetMem(u, Transfer(u.mem, At(u, y, both), d, EndOf(u, x), rvalue, Construct)), x, n)
    BY <1>13, <1>v, <2>2, <2>9
  <2>11. u.vec[x].size + d = n
    BY <2>1, <2>2, <2>4
  <2>12. Rest(q, y, rvalue, l)
    BY <1>3, <1>6, <1>9, <2>l DEF Rest
  <2> QED
    BY <2>5, <2>8, <2>10, <2>11, <2>12
<1> QED
  BY <1>12, <1>13

-----------------------------------------------------------------------------
(* Whole vectors that change hands.                                        *)

\* The vectors other than x and y are as they were.
Others(s, t, x, y) == \A z \in Vectors : z # x /\ z # y => t.vec[z] = s.vec[z]

\* New headers for two vectors over the same memory.
LEMMA HeadersAreSound ==
    ASSUME NEW s, NEW q, Sound(s, q), NEW x \in Vectors, NEW y \in Vectors, x # y,
           NEW t, IsState(t), t.mem = s.mem, Others(s, t, x, y), BlocksApart(t),
           NEW e, NEW f, VectorHolds(t, x, e), VectorHolds(t, y, f)
    PROVE  Sound(t, [q EXCEPT ![x] = e, ![y] = f])
<1>1. MemoryOK(s.mem) /\ DOMAIN q = Vectors /\ \A z \in Vectors : VectorHolds(s, z, q[z])
  BY DEF Sound
<1>p. PICK p : p = [q EXCEPT ![x] = e, ![y] = f]
  OBVIOUS
<1>2. ASSUME NEW z \in Vectors
      PROVE  VectorHolds(t, z, p[z])
  <2>1. CASE z = x
    BY <1>1, <1>p, <2>1
  <2>2. CASE z = y
    BY <1>1, <1>p, <2>2
  <2>3. CASE z # x /\ z # y
    <3>1. t.vec[z] = s.vec[z] /\ p[z] = q[z]
      BY <1>1, <1>p, <2>3 DEF Others
    <3> QED
      BY <1>1, <3>1 DEF VectorHolds
  <2> QED
    BY <2>1, <2>2, <2>3
<1>3. p = [z \in Vectors |-> p[z]]
  BY <1>1, <1>p
<1> QED
  BY <1>1, <1>2, <1>3, <1>p DEF Sound

\* The state t is s without the storage of x, which is small again.
Freshened(s, t, x, cap) ==
    /\ t.vec[x] = [begin |-> InlineBuffer(x), size |-> 0, capacity |-> cap]
    /\ \A y \in Vectors : y # x => t.vec[y] = s.vec[y]

Fresh(s, x, cap) ==
    [FreeStorage(s, x) EXCEPT !.vec[x] = [begin |-> InlineBuffer(x), size |-> 0, capacity |-> cap]]

\* Freeing the storage of a vector without elements.
LEMMA FreeStorageGives ==
    ASSUME NEW s, NEW q, Sound(s, q), NEW x \in Vectors, q[x] = <<>>
    PROVE  FreeStorage(s, x)
             = [mem |-> IF s.vec[x].begin \in Blocks THEN [s.mem EXCEPT ![s.vec[x].begin] = <<>>] ELSE s.mem,
                vec |-> s.vec]
<1>1. /\ IsState(s) /\ HoldsCells(s.mem, s.vec[x].begin, <<>>)
      /\ s.vec[x].begin = InlineBuffer(x) \/ s.vec[x].begin \in Blocks
      /\ DOMAIN s.mem[s.vec[x].begin] \subseteq Nat
      /\ InlineBuffer(x) \notin Blocks
  BY SoundParts, HeapAssumption
<1>2. CASE s.vec[x].begin \notin Blocks
  BY <1>1, <1>2 DEF FreeStorage, IsSmall, IsState
<1>3. CASE s.vec[x].begin \in Blocks
  <2>1. ~IsSmall(s, x)
    BY <1>1, <1>3 DEF IsSmall
  <2>2. \A k \in DOMAIN s.mem[s.vec[x].begin] : s.mem[s.vec[x].begin][k] = Raw
    <3>1. Len(<<>>) = 0
      OBVIOUS
    <3>2. \A k \in DOMAIN s.mem[s.vec[x].begin] : ~(k < 0)
      BY <1>1
    <3> QED
      BY <1>1, <3>1, <3>2 DEF HoldsCells
  <2>3. Free(s.mem, s.vec[x].begin) = [s.mem EXCEPT ![s.vec[x].begin] = <<>>]
    BY <2>2 DEF Free
  <2> QED
    BY <1>1, <1>3, <2>1, <2>3, SetMemGives DEF FreeStorage
<1> QED
  BY <1>2, <1>3

\* A vector without elements that gives its storage back is sound.
LEMMA FreshIsSound ==
    ASSUME NEW s, NEW q, Sound(s, q), NEW x \in Vectors, q[x] = <<>>,
           NEW cap \in Nat, cap <= Inline
    PROVE  Sound(Fresh(s, x, cap), q) /\ Freshened(s, Fresh(s, x, cap), x, cap)
<1>m. PICK m, b : /\ b = s.vec[x].begin
                  /\ m = IF s.vec[x].begin \in Blocks THEN [s.mem EXCEPT ![s.vec[x].begin] = <<>>] ELSE s.mem
  OBVIOUS
<1>h. PICK h : h = [begin |-> InlineBuffer(x), size |-> 0, capacity |-> cap]
  OBVIOUS
<1>t. PICK t : t = [mem |-> m, vec |-> [s.vec EXCEPT ![x] = h]]
  OBVIOUS
<1>1. Fresh(s, x, cap) = t
  <2>1. FreeStorage(s, x) = [mem |-> m, vec |-> s.vec]
    BY <1>m, FreeStorageGives
  <2> QED
    BY <1>h, <1>t, <2>1 DEF Fresh
<1>2. /\ IsState(s) /\ MemoryOK(s.mem) /\ BlocksApart(s) /\ DOMAIN q = Vectors
      /\ q = [z \in Vectors |-> q[z]]
      /\ \A z \in Vectors : VectorHolds(s, z, q[z])
  BY DEF Sound
<1>3. /\ b \in Buffers /\ InlineBuffer(x) \in Buffers /\ Blocks \subseteq Buffers
      /\ b = InlineBuffer(x) \/ b \in Blocks
      /\ HoldsCells(s.mem, b, <<>>) /\ DOMAIN s.mem = Buffers
      /\ \A z \in Vectors : InlineBuffer(z) \notin Blocks /\ InlineBuffer(z) \in Buffers
  <2>1. /\ s.vec[x].begin \in Buffers
        /\ s.vec[x].begin = InlineBuffer(x) \/ s.vec[x].begin \in Blocks
        /\ HoldsCells(s.mem, s.vec[x].begin, q[x])
    BY SoundParts
  <2>2. \A z \in Vectors : InlineBuffer(z) \notin Blocks /\ InlineBuffer(z) \in Buffers
    BY HeapAssumption DEF Buffers
  <2>3. DOMAIN s.mem = Buffers /\ Blocks \subseteq Buffers
    BY <1>2 DEF MemoryOK, Buffers
  <2>4. HoldsCells(s.mem, b, <<>>)
    BY <1>m, <2>1
  <2>5. b \in Buffers /\ (b = InlineBuffer(x) \/ b \in Blocks)
    BY <1>m, <2>1
  <2> QED
    BY <2>2, <2>3, <2>4, <2>5
<1>4. /\ DOMAIN m = Buffers
      /\ \A c \in Buffers : c # b => m[c] = s.mem[c]
      /\ b \notin Blocks => m[b] = s.mem[b]
      /\ b \in Blocks => m[b] = <<>>
  BY <1>3, <1>m
<1>5. IsState(t) /\ t.mem = m /\ t.vec[x] = h /\ \A z \in Vectors : z # x => t.vec[z] = s.vec[z]
  <2>1. h \in Headers
    BY <1>3, <1>h DEF Headers
  <2> QED
    BY <1>2, <1>t, <2>1 DEF IsState
<1>6. MemoryOK(m)
  <2>1. ASSUME NEW c \in Buffers
        PROVE  \E n \in Nat : DOMAIN m[c] = 0 .. (n - 1)
    <3>1. CASE c = b /\ b \in Blocks
      <4>1. DOMAIN m[c] = 0 .. (0 - 1)
        BY <1>4, <3>1
      <4> QED
        BY <4>1
    <3>2. CASE ~(c = b /\ b \in Blocks)
      <4>1. m[c] = s.mem[c]
        BY <1>4, <3>2
      <4> QED
        BY <1>2, <4>1 DEF MemoryOK
    <3> QED
      BY <3>1, <3>2
  <2>2. \A z \in Vectors : m[InlineBuffer(z)] = s.mem[InlineBuffer(z)]
    BY <1>3, <1>4
  <2> QED
    BY <1>2, <1>4, <2>1, <2>2 DEF MemoryOK
<1>7. ASSUME NEW z \in Vectors, z # x
      PROVE  VectorHolds(t, z, q[z])
  <2>1. VectorHolds(s, z, q[z]) /\ t.vec[z] = s.vec[z] /\ s.vec[z].begin # b
    BY <1>2, <1>5, <1>7, <1>m DEF BlocksApart
  <2>2. s.vec[z].begin \in Buffers
    BY SoundParts
  <2>3. m[s.vec[z].begin] = s.mem[s.vec[z].begin] /\ m[InlineBuffer(z)] = s.mem[InlineBuffer(z)]
    BY <1>3, <1>4, <2>1, <2>2
  <2> QED
    BY <1>5, <2>1, <2>3 DEF VectorHolds, Placed, HoldsCells
<1>8. VectorHolds(t, x, q[x])
  <2>1. HoldsCells(m, InlineBuffer(x), <<>>)
    <3>1. m[InlineBuffer(x)] = s.mem[InlineBuffer(x)]
      BY <1>3, <1>4
    <3>2. HoldsCells(s.mem, InlineBuffer(x), <<>>)
      <4>1. VectorHolds(s, x, q[x])
        BY <1>2
      <4> QED
        BY <1>3, <1>m, <4>1 DEF VectorHolds, Placed
    <3> QED
      BY <3>1, <3>2 DEF HoldsCells
  <2>2. cap <= SizeTypeMax /\ 0 <= cap
    BY SizesAssumption
  <2>3. h.begin = InlineBuffer(x) /\ h.size = 0 /\ h.capacity = cap
    BY <1>h
  <2>4. Placed(m, x, h)
    BY <2>2, <2>3 DEF Placed
  <2>5. <<>> \in Seq(Elements) /\ Len(<<>>) = 0
    OBVIOUS
  <2> QED
    BY <1>5, <2>1, <2>3, <2>4, <2>5 DEF VectorHolds
<1>9. BlocksApart(t)
  <2>1. h.begin = InlineBuffer(x)
    BY <1>h
  <2>2. ASSUME NEW z \in Vectors, z # x
        PROVE  t.vec[z].begin # InlineBuffer(x)
    <3>1. s.vec[z].begin = InlineBuffer(z) \/ s.vec[z].begin \in Blocks
      BY SoundParts
    <3> QED
      BY <1>3, <1>5, <2>2, <3>1 DEF InlineBuffer
  <2>3. ASSUME NEW z \in Vectors, NEW w \in Vectors, t.vec[z].begin = t.vec[w].begin
        PROVE  z = w
    <3>1. CASE z = x \/ w = x
      BY <1>5, <2>1, <2>2, <2>3, <3>1
    <3>2. CASE z # x /\ w # x
      BY <1>2, <1>5, <2>3, <3>2 DEF BlocksApart
    <3> QED
      BY <3>1, <3>2
  <2>4. ASSUME NEW c \in Blocks, \A z \in Vectors : t.vec[z].begin # c
        PROVE  t.mem[c] = <<>>
    <3>1. CASE c = b
      BY <1>4, <1>5, <3>1
    <3>2. CASE c # b
      <4>1. \A z \in Vectors : s.vec[z].begin # c
        BY <1>5, <1>m, <2>4, <3>2
      <4>2. s.mem[c] = <<>>
        BY <1>2, <4>1 DEF BlocksApart
      <4> QED
        BY <1>3, <1>4, <1>5, <3>2, <4>2
    <3> QED
      BY <3>1, <3>2
  <2> QED
    BY <2>3, <2>4 DEF BlocksApart
<1>10. Sound(t, q)
  <2>1. \A z \in Vectors : VectorHolds(t, z, q[z])
    BY <1>7, <1>8
  <2> QED
    BY <1>2, <1>5, <1>6, <1>9, <2>1 DEF Sound
<1>11. Freshened(s, t, x, cap)
  BY <1>5, <1>h DEF Freshened
<1> QED
  BY <1>1, <1>10, <1>11

\* The destructor, and the next constructor.
LEMMA RenewIsSound ==
    ASSUME Invariant, NEW x \in Vectors, Renew(x)
    PROVE  Invariant'
<1>1. Sound(Memory, sequence) /\ DOMAIN sequence = Vectors
  BY SizesOf
<1>d. PICK d, f : d = DestroyFrom(Memory, x, 0) /\ f = [sequence EXCEPT ![x] = <<>>]
  OBVIOUS
<1>2. Sound(d, f)
  BY <1>1, <1>d, DestroyAllIsSound
<1>3. f[x] = <<>> /\ Inline \in Nat
  BY <1>1, <1>d, SizesAssumption
<1>4. Sound(Fresh(d, x, Inline), f)
  BY <1>2, <1>3, FreshIsSound
<1>5. Return(Fresh(d, x, Inline), f)
  BY <1>d DEF Renew, Fresh, With
<1> QED
  BY <1>4, <1>5, ReturnIsSound

\* The empty vector x gets the heap block of y.
TookOver(s, t, x, y) ==
    /\ IsState(t) /\ t.mem = s.mem /\ t.vec[x] = s.vec[y]
    /\ t.vec[y] = [begin |-> InlineBuffer(y), size |-> 0, capacity |-> 0]
    /\ Others(s, t, x, y)

\* A vector that took over a block holds what its old owner held.
LEMMA TookOverIsSound ==
    ASSUME NEW s, NEW q, Sound(s, q), NEW x \in Vectors, NEW y \in Vectors, x # y,
           q[x] = <<>>, s.vec[x].begin = InlineBuffer(x), s.vec[y].begin \in Blocks,
           NEW t, TookOver(s, t, x, y)
    PROVE  Sound(t, [q EXCEPT ![x] = q[y], ![y] = <<>>])
<1>1. VectorHolds(s, x, q[x]) /\ VectorHolds(s, y, q[y]) /\ BlocksApart(s)
  BY DEF Sound
<1>2. /\ IsState(t) /\ t.mem = s.mem /\ t.vec[x] = s.vec[y] /\ Others(s, t, x, y)
      /\ t.vec[y].begin = InlineBuffer(y) /\ t.vec[y].size = 0 /\ t.vec[y].capacity = 0
  BY DEF TookOver
<1>3. \A z \in Vectors : InlineBuffer(z) \notin Blocks
  BY HeapAssumption
<1>4. VectorHolds(t, x, q[y])
  <2>1. HoldsCells(s.mem, InlineBuffer(x), <<>>)
    BY <1>1 DEF VectorHolds
  <2>2. Placed(s.mem, x, s.vec[y])
    BY <1>1, <1>3, <2>1 DEF VectorHolds, Placed
  <2> QED
    BY <1>1, <1>2, <2>2 DEF VectorHolds
<1>5. VectorHolds(t, y, <<>>)
  <2>1. HoldsCells(s.mem, InlineBuffer(y), <<>>)
    BY <1>1, <1>3 DEF VectorHolds, Placed
  <2>2. 0 <= SizeTypeMax /\ 0 <= Inline
    BY SizesAssumption
  <2>3. Placed(t.mem, y, t.vec[y])
    BY <1>2, <2>2 DEF Placed
  <2>4. <<>> \in Seq(Elements) /\ Len(<<>>) = 0
    OBVIOUS
  <2> QED
    BY <1>2, <2>1, <2>3, <2>4 DEF VectorHolds
<1>6. ASSUME NEW z \in Vectors
      PROVE  s.vec[z].begin = InlineBuffer(z) \/ s.vec[z].begin \in Blocks
  BY SoundParts
<1>7. BlocksApart(t)
  <2>1. ASSUME NEW z \in Vectors, z # y
        PROVE  t.vec[z].begin # InlineBuffer(y)
    <3>1. CASE z = x
      BY <1>2, <1>3, <3>1
    <3>2. CASE z # x
      <4>1. InlineBuffer(z) # InlineBuffer(y)
        BY <2>1 DEF InlineBuffer
      <4>2. t.vec[z] = s.vec[z]
        BY <1>2, <2>1, <3>2 DEF Others
      <4> QED
        BY <1>3, <1>6, <4>1, <4>2
    <3> QED
      BY <3>1, <3>2
  <2>2. ASSUME NEW z \in Vectors, z # x, z # y
        PROVE  t.vec[z].begin # t.vec[x].begin
    BY <1>1, <1>2, <2>2 DEF Others, BlocksApart
  <2>3. ASSUME NEW z \in Vectors, NEW w \in Vectors, t.vec[z].begin = t.vec[w].begin
        PROVE  z = w
    <3>1. CASE z = y \/ w = y
      BY <1>2, <2>1, <2>3, <3>1
    <3>2. CASE z # y /\ w # y /\ (z = x \/ w = x)
      BY <2>2, <2>3, <3>2
    <3>3. CASE z # y /\ w # y /\ z # x /\ w # x
      BY <1>1, <1>2, <2>3, <3>3 DEF Others, BlocksApart
    <3> QED
      BY <3>1, <3>2, <3>3
  <2>4. ASSUME NEW c \in Blocks, \A z \in Vectors : t.vec[z].begin # c
        PROVE  t.mem[c] = <<>>
    <3>1. \A z \in Vectors : s.vec[z].begin # c
      BY <1>2, <1>3, <2>4 DEF Others
    <3> QED
      BY <1>1, <1>2, <3>1 DEF BlocksApart
  <2> QED
    BY <2>3, <2>4 DEF BlocksApart
<1> QED
  BY <1>2, <1>4, <1>5, <1>7, HeadersAreSound

\* operator= from another vector.
LEMMA CopyAssignIsSound ==
    ASSUME Invariant, NEW x \in Vectors, NEW y \in Vectors, CopyAssign(x, y)
    PROVE  Invariant'
<1>1. Sound(Memory, sequence) /\ DOMAIN sequence = Vectors
  BY SizesOf
<1>2. x # y /\ Return(TakeElements(Memory, x, y, FALSE), With(x, sequence[y]))
  BY DEF CopyAssign
<1>3. PICK copying \in BOOLEAN : copying = FALSE
  OBVIOUS
<1>4. PICK r : /\ Rest(sequence, y, copying, r)
               /\ Sound(TakeElements(Memory, x, y, copying), After(sequence, x, y, r))
  BY <1>1, <1>2, TakeElementsIsSound
<1>5. r = sequence[y]
  BY <1>3, <1>4 DEF Rest
<1>6. After(sequence, x, y, r) = With(x, sequence[y])
  BY <1>1, <1>2, <1>5 DEF After, With
<1> QED
  BY <1>2, <1>3, <1>4, <1>6, ReturnIsSound

\* operator= that moves.
LEMMA MoveAssignIsSound ==
    ASSUME Invariant, NEW x \in Vectors, NEW y \in Vectors, MoveAssign(x, y)
    PROVE  Invariant'
<1>1. /\ Sound(Memory, sequence) /\ DOMAIN sequence = Vectors /\ IsState(Memory)
      /\ Memory.vec = vec
  BY SizesOf, SoundParts
<1>p. PICK p : p = [sequence EXCEPT ![x] = sequence[y], ![y] = <<>>]
  OBVIOUS
<1>2. x # y
  BY DEF MoveAssign
<1>3. CASE IsSmall(Memory, y)
  <2>1. PICK moving \in BOOLEAN : moving = TRUE
    OBVIOUS
  <2>2. PICK u, r : /\ u = TakeElements(Memory, x, y, moving)
                    /\ Sound(u, After(sequence, x, y, r))
    BY <1>1, <1>2, TakeElementsIsSound
  <2>3. Sound(DestroyFrom(u, y, 0), [After(sequence, x, y, r) EXCEPT ![y] = <<>>])
    BY <2>2, DestroyAllIsSound
  <2>4. [After(sequence, x, y, r) EXCEPT ![y] = <<>>] = p
    BY <1>1, <1>2, <1>p DEF After
  <2>5. Return(DestroyFrom(u, y, 0), p)
    BY <1>3, <1>p, <2>1, <2>2 DEF MoveAssign
  <2> QED
    BY <2>3, <2>4, <2>5, ReturnIsSound
<1>4. CASE ~IsSmall(Memory, y)
  <2>d. PICK d, f : d = DestroyFrom(Memory, x, 0) /\ f = [sequence EXCEPT ![x] = <<>>]
    OBVIOUS
  <2>1. Sound(d, f) /\ d.vec[y] = vec[y]
    BY <1>1, <1>2, <2>d, DestroyAllIsSound DEF Shrunk
  <2>2. f[x] = <<>> /\ f[y] = sequence[y] /\ DOMAIN f = Vectors
    BY <1>1, <1>2, <2>d
  <2>z. PICK z \in Nat : z = 0 /\ z <= Inline
    BY SizesAssumption
  <2>e. PICK e : e = Fresh(d, x, z)
    OBVIOUS
  <2>3. Sound(e, f) /\ Freshened(d, e, x, z)
    BY <2>1, <2>2, <2>z, <2>e, FreshIsSound
  <2>g. PICK g : g = FreeStorage(d, x)
    OBVIOUS
  <2>h. PICK h, k : /\ h = [begin |-> InlineBuffer(y), size |-> 0, capacity |-> 0]
                    /\ k = [begin |-> InlineBuffer(x), size |-> 0, capacity |-> z]
    OBVIOUS
  <2>4. g = [mem |-> g.mem, vec |-> g.vec] /\ g.vec = d.vec /\ IsState(d)
    BY <2>1, <2>2, <2>g, FreeStorageGives, SoundParts
  <2>5. e = [mem |-> g.mem, vec |-> [d.vec EXCEPT ![x] = k]]
    BY <2>4, <2>e, <2>g, <2>h DEF Fresh
  <2>t. PICK t : t = ResetToSmall([g EXCEPT !.vec[x] = vec[y]], y)
    OBVIOUS
  <2>6. t = [mem |-> g.mem, vec |-> [d.vec EXCEPT ![x] = vec[y], ![y] = h]]
    <3>1. [g EXCEPT !.vec[x] = vec[y]] = [mem |-> g.mem, vec |-> [d.vec EXCEPT ![x] = vec[y]]]
      BY <2>4
    <3> QED
      BY <2>h, <2>t, <3>1 DEF ResetToSmall
  <2>7. d.vec \in [Vectors -> Headers] /\ vec[y] \in Headers /\ h \in Headers
    <3>1. InlineBuffer(y) \in Buffers
      BY DEF Buffers
    <3> QED
      BY <1>1, <2>4, <2>h, <3>1 DEF IsState, Headers
  <2>8. TookOver(e, t, x, y)
    <3>1. IsState(t) /\ t.mem = e.mem /\ t.vec[x] = vec[y] /\ t.vec[y] = h
      BY <1>2, <2>5, <2>6, <2>7 DEF IsState
    <3>2. e.vec[y] = vec[y]
      BY <1>2, <2>1, <2>5, <2>7
    <3>3. Others(e, t, x, y)
      BY <2>5, <2>6, <2>7 DEF Others
    <3> QED
      BY <2>h, <3>1, <3>2, <3>3 DEF TookOver
  <2>9. e.vec[x].begin = InlineBuffer(x) /\ e.vec[y].begin \in Blocks
    <3>1. vec[y].begin = InlineBuffer(y) \/ vec[y].begin \in Blocks
      BY <1>1, SoundParts
    <3>2. vec[y].begin \in Blocks
      BY <1>1, <1>4, <3>1 DEF IsSmall
    <3>3. e.vec[x] = k /\ e.vec[y] = vec[y]
      BY <1>2, <2>1, <2>5, <2>7
    <3> QED
      BY <2>h, <3>2, <3>3
  <2>10. Sound(t, [f EXCEPT ![x] = f[y], ![y] = <<>>])
    BY <1>2, <2>2, <2>3, <2>8, <2>9, TookOverIsSound
  <2>11. [f EXCEPT ![x] = f[y], ![y] = <<>>] = p
    BY <1>1, <1>2, <1>p, <2>2, <2>d
  <2>12. Return(t, p)
    BY <1>4, <1>p, <2>d, <2>g, <2>t DEF MoveAssign
  <2> QED
    BY <2>10, <2>11, <2>12, ReturnIsSound
<1> QED
  BY <1>3, <1>4

-----------------------------------------------------------------------------
(* Erasing.                                                                *)

\* The beginning and the end of a sequence, as they are written in a call.
LEMMA EndsAreSlices ==
    ASSUME NEW r \in Seq(Elements), NEW i \in 0 .. Len(r)
    PROVE  SubSeq(r, 1, i) = Slice(r, 0, i) /\ SubSeq(r, i + 1, Len(r)) = Slice(r, i, Len(r) - i)
<1>1. i + (Len(r) - i) = Len(r)
  OBVIOUS
<1> QED
  BY <1>1, WholeSlice DEF Slice

\* The beginning and the end of a sequence.
LEMMA EndsShape ==
    ASSUME NEW r \in Seq(Elements), NEW i \in 0 .. Len(r)
    PROVE  \E a, b \in Seq(Elements) :
             /\ a = SubSeq(r, 1, i) /\ Len(a) = i /\ \A k \in 1 .. i : a[k] = r[k]
             /\ b = SubSeq(r, i + 1, Len(r)) /\ Len(b) = Len(r) - i
             /\ \A k \in 1 .. (Len(r) - i) : b[k] = r[i + k]
<1>z. PICK z \in Nat, n \in Nat : z = 0 /\ n = Len(r) - i
  <2>1. 0 \in Nat /\ Len(r) - i \in Nat
    OBVIOUS
  <2> QED
    BY <2>1
<1>1. z + i <= Len(r) /\ i + n <= Len(r) /\ i \in Nat
  BY <1>z
<1>2. PICK a \in Seq(Elements) : a = Slice(r, z, i) /\ Len(a) = i /\ \A k \in 1 .. i : a[k] = r[z + k]
  BY <1>1, SliceShape
<1>3. PICK b \in Seq(Elements) : b = Slice(r, i, n) /\ Len(b) = n /\ \A k \in 1 .. n : b[k] = r[i + k]
  BY <1>1, SliceShape
<1>4. a = SubSeq(r, 1, i) /\ b = SubSeq(r, i + 1, Len(r))
  BY <1>2, <1>3, <1>z, EndsAreSlices
<1>5. \A k \in 1 .. i : a[k] = r[k]
  BY <1>1, <1>2, <1>z
<1> QED
  BY <1>2, <1>3, <1>4, <1>5, <1>z

\* t is r without the elements behind the first i, up to the first j.
Deleted(r, i, j, t) ==
    /\ Len(t) = i + (Len(r) - j)
    /\ \A k \in 1 .. i : t[k] = r[k]
    /\ \A k \in 1 .. (Len(r) - j) : t[i + k] = r[j + k]

\* A deletion has that shape.
LEMMA DeletionShape ==
    ASSUME NEW r \in Seq(Elements), NEW j \in 0 .. Len(r), NEW i \in 0 .. j
    PROVE  Deletion(r, i, j) \in Seq(Elements) /\ Deleted(r, i, j, Deletion(r, i, j))
<1>0. i \in 0 .. Len(r)
  OBVIOUS
<1>1. PICK a \in Seq(Elements) :
        a = SubSeq(r, 1, i) /\ Len(a) = i /\ \A k \in 1 .. i : a[k] = r[k]
  BY <1>0, EndsShape
<1>2. PICK b \in Seq(Elements) :
        /\ b = SubSeq(r, j + 1, Len(r)) /\ Len(b) = Len(r) - j
        /\ \A k \in 1 .. (Len(r) - j) : b[k] = r[j + k]
  BY EndsShape
<1>3. /\ a \o b \in Seq(Elements) /\ Len(a \o b) = Len(a) + Len(b)
      /\ \A k \in 1 .. Len(a) : (a \o b)[k] = a[k]
      /\ \A k \in 1 .. Len(b) : (a \o b)[Len(a) + k] = b[k]
  BY Joining
<1>4. PICK t \in Seq(Elements) : t = a \o b
  BY <1>3
<1>5. Deleted(r, i, j, t)
  <2>1. Len(t) = i + (Len(r) - j)
    BY <1>1, <1>2, <1>3, <1>4
  <2>2. \A k \in 1 .. i : t[k] = r[k]
    BY <1>1, <1>3, <1>4
  <2>3. \A k \in 1 .. (Len(r) - j) : t[i + k] = r[j + k]
    BY <1>1, <1>2, <1>3, <1>4
  <2> QED
    BY <2>1, <2>2, <2>3 DEF Deleted
<1>6. Deletion(r, i, j) = t
  BY <1>1, <1>2, <1>4 DEF Deletion
<1> QED
  BY <1>5, <1>6

\* Erasing: the elements behind move down, and the last cells are destroyed.
LEMMA EraseIsSound ==
    ASSUME Invariant, NEW x \in Vectors, NEW j \in 0 .. Last(x), NEW i \in 0 .. j,
           ~EmptyRanges, Erase(x, i, j)
    PROVE  Invariant'
<1>1. Sound(Memory, sequence) /\ DOMAIN sequence = Vectors /\ IsState(Memory) /\ Memory.mem = mem
  BY SizesOf, SoundParts
<1>r. PICK r \in Seq(Elements) : r = sequence[x] /\ Len(r) = Last(x)
  BY SizesOf
<1>2. Last(x) \in Nat /\ i < j
  BY SizesOf DEF Erase
<1>n. PICK n \in Nat, left \in Nat : n = Last(x) - j /\ left = Last(x) - (j - i) /\ left = i + n
  <2>1. Last(x) - j \in Nat /\ Last(x) - (j - i) \in Nat
    BY <1>2
  <2>2. Last(x) - (j - i) = i + (Last(x) - j)
    BY <1>2
  <2> QED
    BY <2>1, <2>2
<1>3. i \in Nat /\ j \in Nat /\ j + n <= Len(r) /\ i + n <= Len(r) /\ i # j /\ j + n = Len(r)
  BY <1>r, <1>2, <1>n
<1>4. PICK moving \in BOOLEAN : moving = TRUE
  OBVIOUS
<1>m. PICK m, u : /\ m = Transfer(mem, At(Memory, x, j), n, At(Memory, x, i), moving, Assign)
                  /\ u = SetMem(Memory, m)
  OBVIOUS
<1>l. PICK l \in Seq(Elements) : /\ l = Left(r, j, n) /\ Len(l) = Len(r)
                                 /\ \A k \in 1 .. Len(r) : k \notin (j + 1) .. (j + n) => l[k] = r[k]
  BY <1>3, LeftShape
<1>e. PICK e \in Seq(Elements) : e = Slice(r, j, n) /\ Len(e) = n /\ \A k \in 1 .. n : e[k] = r[j + k]
  BY <1>3, SliceShape
<1>w. PICK w \in Seq(Elements) :
        /\ w = Over(l, i, e) /\ Len(w) = Len(l)
        /\ \A k \in 1 .. Len(l) : w[k] = IF k \in (i + 1) .. (i + Len(e)) THEN e[k - i] ELSE l[k]
  BY <1>3, OverShape
<1>5. Taken(sequence, x, j, n, moving) = [sequence EXCEPT ![x] = l]
  BY <1>4, <1>l, <1>r DEF Taken
<1>f. PICK f : f = [sequence EXCEPT ![x] = w]
  OBVIOUS
<1>6. Sound(u, f)
  <2>1. Sound(SetMem(Memory, Transfer(Memory.mem, At(Memory, x, j), n, At(Memory, x, i), moving, Assign)),
              [Taken(sequence, x, j, n, moving) EXCEPT
                 ![x] = Over(Taken(sequence, x, j, n, moving)[x], i, Slice(sequence[x], j, n))])
    BY <1>1, <1>3, <1>r, TransferOverIsSound
  <2>2. [Taken(sequence, x, j, n, moving) EXCEPT
           ![x] = Over(Taken(sequence, x, j, n, moving)[x], i, Slice(sequence[x], j, n))] = f
    BY <1>1, <1>5, <1>e, <1>f, <1>r, <1>w
  <2> QED
    BY <1>1, <1>m, <2>1, <2>2
<1>7. f[x] = w /\ left \in 0 .. Len(f[x])
  BY <1>1, <1>3, <1>f, <1>l, <1>n, <1>w
<1>8. Sound(DestroyFrom(u, x, left), [f EXCEPT ![x] = SubSeq(f[x], 1, left)])
  BY <1>6, <1>7, DestroyFromIsSound
<1>9. SubSeq(w, 1, left) = Deletion(r, i, j)
  <2>1. PICK a \in Seq(Elements) :
          a = SubSeq(w, 1, left) /\ Len(a) = left /\ \A k \in 1 .. left : a[k] = w[k]
    BY <1>7, EndsShape
  <2>2. PICK b \in Seq(Elements) : b = Deletion(r, i, j) /\ Deleted(r, i, j, b)
    BY <1>r, DeletionShape
  <2>3. Len(a) = Len(b)
    BY <1>3, <1>n, <1>r, <2>1, <2>2 DEF Deleted
  <2>4. ASSUME NEW k \in 1 .. Len(a)
        PROVE  a[k] = b[k]
    <3>1. k \in 1 .. left /\ k \in 1 .. Len(l) /\ a[k] = w[k]
      <4>1. k \in 1 .. left /\ a[k] = w[k]
        BY <2>1
      <4>2. Len(l) = Len(r) /\ Len(r) \in Nat /\ left <= Len(r)
        BY <1>3, <1>l, <1>n
      <4> QED
        BY <4>1, <4>2
    <3>2. CASE k <= i
      <4>1. k \notin (i + 1) .. (i + Len(e)) /\ k \notin (j + 1) .. (j + n) /\ k \in 1 .. i
        BY <1>2, <3>2
      <4> QED
        BY <1>l, <1>w, <2>2, <3>1, <4>1 DEF Deleted
    <3>3. CASE ~(k <= i)
      <4>1. k \in (i + 1) .. (i + Len(e)) /\ k - i \in 1 .. n /\ i + (k - i) = k
        BY <1>3, <1>e, <1>n, <3>1, <3>3
      <4>2. w[k] = r[j + (k - i)]
        BY <1>e, <1>w, <3>1, <4>1
      <4>3. n = Len(r) - j
        BY <1>n, <1>r
      <4>4. b[i + (k - i)] = r[j + (k - i)]
        BY <2>2, <4>1, <4>3 DEF Deleted
      <4> QED
        BY <3>1, <4>1, <4>2, <4>4
    <3> QED
      BY <3>2, <3>3
  <2> QED
    BY <2>1, <2>2, <2>3, <2>4, SameElements
<1>10. [f EXCEPT ![x] = SubSeq(f[x], 1, left)] = With(x, Deletion(sequence[x], i, j))
  BY <1>1, <1>7, <1>9, <1>f, <1>r DEF With
<1>11. Return(DestroyFrom(u, x, left), With(x, Deletion(sequence[x], i, j)))
  BY <1>4, <1>m, <1>n DEF Erase
<1> QED
  BY <1>8, <1>10, <1>11, ReturnIsSound

-----------------------------------------------------------------------------
(* Inserting one element.                                                  *)

\* t is r with the elements of e behind the first i.
Inserted(r, i, e, t) ==
    /\ Len(t) = Len(r) + Len(e)
    /\ \A k \in 1 .. i : t[k] = r[k]
    /\ \A k \in 1 .. Len(e) : t[i + k] = e[k]
    /\ \A k \in 1 .. (Len(r) - i) : t[i + Len(e) + k] = r[i + k]

\* An insertion has that shape.
LEMMA InsertionShape ==
    ASSUME NEW r \in Seq(Elements), NEW i \in 0 .. Len(r), NEW e \in Seq(Elements)
    PROVE  Insertion(r, i, e) \in Seq(Elements) /\ Inserted(r, i, e, Insertion(r, i, e))
<1>1. PICK a, b \in Seq(Elements) :
        /\ a = SubSeq(r, 1, i) /\ Len(a) = i /\ \A k \in 1 .. i : a[k] = r[k]
        /\ b = SubSeq(r, i + 1, Len(r)) /\ Len(b) = Len(r) - i
        /\ \A k \in 1 .. (Len(r) - i) : b[k] = r[i + k]
  BY EndsShape
<1>j. ASSUME NEW u \in Seq(Elements), NEW v \in Seq(Elements)
      PROVE  \E c \in Seq(Elements) :
                /\ c = u \o v /\ Len(c) = Len(u) + Len(v)
                /\ \A k \in 1 .. Len(u) : c[k] = u[k]
                /\ \A k \in 1 .. Len(v) : c[Len(u) + k] = v[k]
  <2>1. /\ u \o v \in Seq(Elements) /\ Len(u \o v) = Len(u) + Len(v)
        /\ \A k \in 1 .. Len(u) : (u \o v)[k] = u[k]
        /\ \A k \in 1 .. Len(v) : (u \o v)[Len(u) + k] = v[k]
    BY Joining
  <2> QED
    BY <2>1
<1>2. PICK c \in Seq(Elements) :
        /\ c = a \o e /\ Len(c) = Len(a) + Len(e)
        /\ \A k \in 1 .. Len(a) : c[k] = a[k]
        /\ \A k \in 1 .. Len(e) : c[Len(a) + k] = e[k]
  BY <1>j
<1>3. PICK t \in Seq(Elements) :
        /\ t = c \o b /\ Len(t) = Len(c) + Len(b)
        /\ \A k \in 1 .. Len(c) : t[k] = c[k]
        /\ \A k \in 1 .. Len(b) : t[Len(c) + k] = b[k]
  BY <1>j
<1>l. /\ Len(a) = i /\ i \in Nat /\ Len(e) \in Nat /\ Len(r) \in Nat /\ Len(c) = i + Len(e)
      /\ Len(b) = Len(r) - i
  BY <1>1, <1>2
<1>4. Len(t) = Len(r) + Len(e)
  BY <1>3, <1>l
<1>5. ASSUME NEW k \in 1 .. i
      PROVE  t[k] = r[k]
  <2>1. k \in 1 .. Len(a) /\ k \in 1 .. Len(c)
    BY <1>l
  <2> QED
    BY <1>1, <1>2, <1>3, <2>1
<1>6. ASSUME NEW k \in 1 .. Len(e)
      PROVE  t[i + k] = e[k]
  <2>1. i + k \in 1 .. Len(c)
    BY <1>l
  <2> QED
    BY <1>2, <1>3, <1>l, <2>1
<1>7. ASSUME NEW k \in 1 .. (Len(r) - i)
      PROVE  t[i + Len(e) + k] = r[i + k]
  BY <1>1, <1>3, <1>l
<1>8. Insertion(r, i, e) = t
  BY <1>1, <1>2, <1>3 DEF Insertion
<1> QED
  BY <1>4, <1>5, <1>6, <1>7, <1>8 DEF Inserted

\* t is r with one more cell behind the first i.
Shifted(r, i, t) ==
    /\ Len(t) = Len(r) + 1
    /\ \A k \in 1 .. i : t[k] = r[k]
    /\ \A k \in (i + 2) .. (Len(r) + 1) : t[k] = r[k - 1]

\* w is r with a copy of its last element behind it, whatever the last one is now.
Doubled(r, w) ==
    /\ Len(w) = Len(r) + 1 /\ w[Len(r) + 1] = r[Len(r)]
    /\ \A k \in 1 .. (Len(r) - 1) : w[k] = r[k]

\* Moving the last element to the end gives such a sequence.
LEMMA DoubledGives ==
    ASSUME NEW r \in Seq(Elements), NEW n \in Nat, n + 1 = Len(r), NEW v \in Elements, v = r[Len(r)]
    PROVE  \E w \in Seq(Elements) : w = Append(MovedAway(r, n), v) /\ Doubled(r, w)
<1>1. n \in -1 .. (Len(r) - 1)
  OBVIOUS
<1>2. PICK m \in Seq(Elements) :
        /\ m = MovedAway(r, n) /\ Len(m) = Len(r)
        /\ \A k \in 1 .. Len(r) : m[k] = IF n # -1 /\ k = n + 1 THEN LeftOf(r[k]) ELSE r[k]
  BY <1>1, MovedAwayShape
<1>3. /\ Append(m, v) \in Seq(Elements)
      /\ Len(Append(m, v)) = Len(m) + 1 /\ Append(m, v)[Len(m) + 1] = v
      /\ \A k \in 1 .. Len(m) : Append(m, v)[k] = m[k]
  OBVIOUS
<1>4. PICK w \in Seq(Elements) : w = Append(m, v)
  BY <1>3
<1>5. \A k \in 1 .. (Len(r) - 1) : m[k] = r[k]
  BY <1>2
<1>6. \A k \in 1 .. (Len(r) - 1) : w[k] = r[k]
  BY <1>2, <1>3, <1>4, <1>5
<1>7. Doubled(r, w)
  BY <1>2, <1>3, <1>4, <1>6 DEF Doubled
<1> QED
  BY <1>2, <1>4, <1>7

\* The last element moved up, and then those between it and the first i.
LEMMA ShiftGives ==
    ASSUME NEW r \in Seq(Elements), NEW i \in Nat, NEW n \in Nat, i + n + 1 = Len(r),
           NEW w \in Seq(Elements), Doubled(r, w), NEW o \in Nat, o = i + 1
    PROVE  /\ Over(Left(w, i, n), o, Slice(w, i, n)) \in Seq(Elements)
           /\ Shifted(r, i, Over(Left(w, i, n), o, Slice(w, i, n)))
<1>l. Len(r) \in Nat /\ i + n = Len(r) - 1 /\ i < Len(r)
  OBVIOUS
<1>1. /\ Len(w) = Len(r) + 1 /\ w[Len(r) + 1] = r[Len(r)]
      /\ \A k \in 1 .. (Len(r) - 1) : w[k] = r[k]
  BY DEF Doubled
<1>2. PICK a \in Seq(Elements) :
        /\ a = Left(w, i, n) /\ Len(a) = Len(w)
        /\ \A k \in 1 .. Len(w) : a[k] = IF k \in (i + 1) .. (i + n) THEN LeftOf(w[k]) ELSE w[k]
  BY LeftShape
<1>3. PICK e \in Seq(Elements) : e = Slice(w, i, n) /\ Len(e) = n /\ \A k \in 1 .. n : e[k] = w[i + k]
  <2>1. i + n <= Len(w)
    BY <1>l, <1>1
  <2> QED
    BY <2>1, SliceShape
<1>4. PICK t \in Seq(Elements) :
        /\ t = Over(a, o, e) /\ Len(t) = Len(a)
        /\ \A k \in 1 .. Len(a) :
             t[k] = IF k \in (o + 1) .. (o + Len(e)) THEN e[k - o] ELSE a[k]
  BY OverShape
<1>5. Len(t) = Len(r) + 1 /\ Len(a) = Len(r) + 1
  BY <1>1, <1>2, <1>4
<1>6. ASSUME NEW k \in 1 .. i
      PROVE  t[k] = r[k]
  <2>1. /\ k \in 1 .. Len(a) /\ k \notin (o + 1) .. (o + n) /\ k \notin (i + 1) .. (i + n)
        /\ k \in 1 .. (Len(r) - 1) /\ k \in 1 .. Len(w)
    BY <1>1, <1>5, <1>l
  <2> QED
    BY <1>1, <1>2, <1>3, <1>4, <2>1
<1>7. ASSUME NEW k \in (i + 2) .. (Len(r) + 1)
      PROVE  t[k] = r[k - 1]
  <2>1. k \in 1 .. Len(a) /\ k \in 1 .. Len(w)
    BY <1>1, <1>5, <1>l
  <2>2. CASE k <= Len(r)
    <3>1. /\ k \in (o + 1) .. (o + n) /\ k - o \in 1 .. n /\ i + (k - o) = k - 1
          /\ k - 1 \in 1 .. (Len(r) - 1)
      BY <1>l, <2>2
    <3> QED
      BY <1>1, <1>3, <1>4, <2>1, <3>1
  <2>3. CASE ~(k <= Len(r))
    <3>1. k = Len(r) + 1 /\ k - 1 = Len(r) /\ k \notin (o + 1) .. (o + n) /\ k \notin (i + 1) .. (i + n)
      <4>1. k \in Int /\ k >= i + 2 /\ k <= Len(r) + 1
        OBVIOUS
      <4>2. k = Len(r) + 1
        <5>1. PICK z \in Nat : z = Len(r)
          BY <1>l
        <5>2. ~(k <= z) /\ k <= z + 1
          BY <2>3, <4>1, <5>1
        <5>3. k = z + 1
          BY <4>1, <5>2
        <5> QED
          BY <5>1, <5>3
      <4>3. o + n = Len(r) /\ i + n < Len(r)
        BY <1>l
      <4> QED
        BY <1>l, <4>2, <4>3
    <3> QED
      BY <1>1, <1>2, <1>3, <1>4, <2>1, <3>1
  <2> QED
    BY <2>2, <2>3
<1> QED
  BY <1>2, <1>3, <1>4, <1>5, <1>6, <1>7 DEF Shifted

\* The place of the argument after the shift.
Place(a, i) == IF a # -1 /\ a >= i THEN a + 1 ELSE a

\* r, if the argument is moved from it.
MayLose(r, a, rvalue) == IF rvalue THEN MovedAway(r, a) ELSE r

\* Such a sequence keeps its length, and all but the element moved from.
LEMMA MayLoseShape ==
    ASSUME NEW r \in Seq(Elements), NEW a \in -1 .. (Len(r) - 1), NEW rvalue \in BOOLEAN
    PROVE  /\ MayLose(r, a, rvalue) \in Seq(Elements) /\ Len(MayLose(r, a, rvalue)) = Len(r)
           /\ \A k \in 1 .. Len(r) : MayLose(r, a, rvalue)[k] =
                IF rvalue /\ a # -1 /\ k = a + 1 THEN LeftOf(r[k]) ELSE r[k]
<1>1. CASE rvalue
  BY <1>1, MovedAwayShape DEF MayLose
<1>2. CASE ~rvalue
  BY <1>2 DEF MayLose
<1> QED
  BY <1>1, <1>2

\* The element put into the gap, moved from where it now is.
LEMMA ShiftedIsInserted ==
    ASSUME NEW r \in Seq(Elements), NEW i \in 0 .. (Len(r) - 1), NEW a \in -1 .. (Len(r) - 1),
           NEW w \in Seq(Elements), Shifted(r, i, w), NEW v \in Elements, NEW rvalue \in BOOLEAN
    PROVE  Put1(MayLose(w, Place(a, i), rvalue), i, v) = Insertion(MayLose(r, a, rvalue), i, <<v>>)
<1>l. Len(r) \in Nat /\ i \in Nat /\ i < Len(r) /\ Len(w) = Len(r) + 1
  BY DEF Shifted
<1>c. PICK c : c = Place(a, i)
  OBVIOUS
<1>0. c \in -1 .. (Len(w) - 1) /\ i \in 0 .. Len(r) /\ (c = -1 <=> a = -1) /\ c # i
  BY <1>c, <1>l DEF Place
<1>1. PICK b \in Seq(Elements) :
        /\ b = MayLose(w, c, rvalue) /\ Len(b) = Len(w)
        /\ \A k \in 1 .. Len(w) : b[k] = IF rvalue /\ c # -1 /\ k = c + 1 THEN LeftOf(w[k]) ELSE w[k]
  BY <1>0, MayLoseShape
<1>2. PICK g \in Seq(Elements) :
        /\ g = MayLose(r, a, rvalue) /\ Len(g) = Len(r)
        /\ \A k \in 1 .. Len(r) : g[k] = IF rvalue /\ a # -1 /\ k = a + 1 THEN LeftOf(r[k]) ELSE r[k]
  BY MayLoseShape
<1>3. PICK e \in Seq(Elements) : e = <<v>> /\ Len(e) = 1 /\ e[1] = v
  <2>1. <<v>> \in Seq(Elements) /\ Len(<<v>>) = 1 /\ <<v>>[1] = v
    OBVIOUS
  <2> QED
    BY <2>1
<1>4. PICK t \in Seq(Elements) : t = Insertion(g, i, e) /\ Inserted(g, i, e, t)
  BY <1>0, <1>2, InsertionShape
<1>5. /\ Len(t) = Len(r) + 1
      /\ \A k \in 1 .. i : t[k] = g[k]
      /\ t[i + 1] = v
      /\ \A k \in 1 .. (Len(r) - i) : t[i + 1 + k] = g[i + k]
  <2>1. 1 \in 1 .. Len(e)
    BY <1>3
  <2> QED
    BY <1>2, <1>3, <1>4, <2>1 DEF Inserted
<1>6. PICK d \in Seq(Elements) :
        /\ d = Put1(b, i, v) /\ Len(d) = Len(b)
        /\ \A k \in 1 .. Len(b) : d[k] = IF k = i + 1 THEN v ELSE b[k]
  <2>1. i + 1 \in 1 .. Len(b)
    BY <1>1, <1>l
  <2>2. /\ [b EXCEPT ![i + 1] = v] \in Seq(Elements) /\ Len([b EXCEPT ![i + 1] = v]) = Len(b)
        /\ \A k \in 1 .. Len(b) : [b EXCEPT ![i + 1] = v][k] = IF k = i + 1 THEN v ELSE b[k]
    BY <2>1
  <2> QED
    BY <2>2 DEF Put1
<1>7. Len(d) = Len(t)
  BY <1>1, <1>5, <1>6, <1>l
<1>8. ASSUME NEW k \in 1 .. Len(d)
      PROVE  d[k] = t[k]
  <2>1. k \in 1 .. Len(b) /\ k \in 1 .. Len(w) /\ k \in Nat /\ k <= Len(r) + 1
    BY <1>1, <1>6, <1>l
  <2>2. CASE k <= i
    <3>1. k \in 1 .. i /\ k \in 1 .. Len(r) /\ k # i + 1 /\ (k = c + 1 <=> k = a + 1)
      BY <1>c, <1>l, <2>1, <2>2 DEF Place
    <3>2. w[k] = r[k]
      BY <3>1 DEF Shifted
    <3> QED
      BY <1>0, <1>1, <1>2, <1>5, <1>6, <2>1, <3>1, <3>2
  <2>3. CASE k = i + 1
    BY <1>5, <1>6, <2>1, <2>3
  <2>4. CASE k > i + 1
    <3>1. PICK j \in Nat : /\ j = k - 1 - i /\ j \in 1 .. (Len(r) - i) /\ i + 1 + j = k /\ i + j = k - 1
      <4>1. k - 1 - i \in 1 .. (Len(r) - i) /\ i + 1 + (k - 1 - i) = k /\ i + (k - 1 - i) = k - 1
        BY <1>l, <2>1, <2>4
      <4> QED
        BY <4>1
    <3>2. /\ k \in (i + 2) .. (Len(r) + 1) /\ k # i + 1 /\ k - 1 \in 1 .. Len(r)
          /\ (c # -1 /\ k = c + 1 <=> a # -1 /\ k - 1 = a + 1)
      BY <1>c, <1>l, <2>1, <2>4 DEF Place
    <3>3. w[k] = r[k - 1]
      BY <3>2 DEF Shifted
    <3>4. t[k] = g[k - 1]
      BY <1>5, <3>1
    <3>5. g[k - 1] = b[k]
      BY <1>1, <1>2, <2>1, <3>2, <3>3
    <3> QED
      BY <1>6, <2>1, <3>2, <3>4, <3>5
  <2> QED
    BY <1>l, <2>1, <2>2, <2>3, <2>4
<1>9. d = t
  BY <1>7, <1>8, SameElements
<1> QED
  BY <1>1, <1>2, <1>3, <1>4, <1>6, <1>9, <1>c

\* Memory and sizes are set one after the other in any order.
LEMMA SetTwice ==
    ASSUME NEW s, IsState(s), NEW x \in Vectors, NEW n, NEW m, NEW w
    PROVE  /\ SetMem(SetMem(s, m), w) = SetMem(s, w)
           /\ SetMem(SetSize(SetMem(s, m), x, n), w) = SetSize(SetMem(s, w), x, n)
<1>1. s = [mem |-> s.mem, vec |-> s.vec]
  BY DEF IsState
<1>2. PICK a, v : s = [mem |-> a, vec |-> v]
  BY <1>1
<1>3. /\ SetMem(s, m) = [mem |-> m, vec |-> v]
      /\ SetMem(s, w) = [mem |-> w, vec |-> v]
  BY <1>2 DEF SetMem
<1>4. PICK h : h = [v EXCEPT ![x].size = n]
  OBVIOUS
<1>5. \A c : SetSize([mem |-> c, vec |-> v], x, n) = [mem |-> c, vec |-> h]
  BY <1>4 DEF SetSize
<1>6. SetMem([mem |-> m, vec |-> v], w) = [mem |-> w, vec |-> v]
  BY DEF SetMem
<1>7. SetMem([mem |-> m, vec |-> h], w) = [mem |-> w, vec |-> h]
  BY DEF SetMem
<1> QED
  BY <1>3, <1>5, <1>6, <1>7

\* The state after the elements from i on moved up by one: x has one more.
ShiftedUp(s, q, t, w, x, i) ==
    /\ Sound(t, [q EXCEPT ![x] = w])
    /\ w \in Seq(Elements) /\ Shifted(q[x], i, w)
    /\ t.vec[x].begin = s.vec[x].begin

\* The memory after the last element moved up, and after the others from i on did.
ShiftMemory(s, x, i, n, m1, m2) ==
    /\ m1 = Transfer(s.mem, At(s, x, n - 1), 1, At(s, x, n), TRUE, Construct)
    /\ m2 = Transfer(m1, At(s, x, i), n - 1 - i, At(s, x, i + 1), TRUE, Assign)

\* insert moves the last element to the end, and then those before it.
LEMMA ShiftIsSound ==
    ASSUME NEW s, NEW q, Sound(s, q), NEW x \in Vectors, NEW n \in Nat, Len(q[x]) = n,
           NEW i \in Nat, i < n, n + 1 <= s.vec[x].capacity,
           NEW m1, NEW m2, ShiftMemory(s, x, i, n, m1, m2),
           NEW t, NEW k \in Nat, k = n + 1, t = SetSize(SetMem(s, m2), x, k)
    PROVE  \E w : ShiftedUp(s, q, t, w, x, i)
<1>r. PICK r \in Seq(Elements) : r = q[x] /\ Len(r) = n
  BY SoundParts
<1>1. IsState(s) /\ s.vec[x].size = n /\ DOMAIN q = Vectors
  BY SoundParts DEF Sound
<1>l. PICK l \in Nat, d \in Nat, o \in Nat :
        l = n - 1 /\ l + 1 = n /\ d = n - 1 - i /\ i + d + 1 = n /\ i + d = l /\ o = i + 1 /\ o + d = n
  <2>1. /\ n - 1 \in Nat /\ n - 1 + 1 = n /\ n - 1 - i \in Nat /\ i + (n - 1 - i) + 1 = n
        /\ i + (n - 1 - i) = n - 1 /\ i + 1 \in Nat /\ i + 1 + (n - 1 - i) = n
    OBVIOUS
  <2> QED
    BY <2>1
<1>b. n \in 1 .. n /\ l \in 0 .. (n - 1) /\ l # -1
  BY <1>l
<1>v. PICK v \in Elements : v = r[n]
  <2>1. r[n] \in Elements
    BY <1>b, <1>r
  <2> QED
    BY <2>1
<1>2. Denotes(s, q, x, At(s, x, l), l, v)
  BY <1>b, <1>l, <1>r, <1>v DEF Denotes
<1>3. PICK w \in Seq(Elements) : w = Append(MovedAway(r, l), v) /\ Doubled(r, w)
  BY <1>l, <1>r, <1>v, DoubledGives
<1>u. PICK u, f : u = SetSize(SetMem(s, m1), x, k) /\ f = [q EXCEPT ![x] = w]
  OBVIOUS
<1>4. Sound(u, f)
  <2>1. s.vec[x].size + 1 <= s.vec[x].capacity
    BY <1>1
  <2>2. Sound(AddAtEnd(s, x, 1, At(s, x, l), TRUE), [q EXCEPT ![x] = Append(MovedAway(q[x], l), v)])
    BY <1>2, <2>1, AddMovedIsSound
  <2>3. AddAtEnd(s, x, 1, At(s, x, l), TRUE) = u
    BY <1>1, <1>l, <1>u DEF AddAtEnd, EndOf, At, Size, ShiftMemory
  <2> QED
    BY <1>3, <1>r, <1>u, <2>2, <2>3
<1>5. f[x] = w /\ Len(w) = n + 1
  BY <1>1, <1>3, <1>r, <1>u DEF Doubled
<1>6. IsState(u) /\ u.mem = m1 /\ u.vec[x].begin = s.vec[x].begin
  <2>1. IsState(SetMem(s, m1)) /\ SetMem(s, m1).mem = m1 /\ SetMem(s, m1).vec = s.vec
    BY <1>1, SetMemGives
  <2>2. /\ Resized(SetMem(s, m1), SetSize(SetMem(s, m1), x, k), x)
        /\ SetSize(SetMem(s, m1), x, k).mem = SetMem(s, m1).mem
    BY <2>1, SetSizeGives
  <2> QED
    BY <1>u, <2>1, <2>2 DEF Resized
<1>m. PICK moving \in BOOLEAN : moving = TRUE
  OBVIOUS
<1>z. PICK z \in Seq(Elements) : z = Over(Left(w, i, d), o, Slice(w, i, d)) /\ Shifted(r, i, z)
  BY <1>3, <1>l, <1>r, ShiftGives
<1>g. PICK g, e : g = Taken(f, x, i, d, moving) /\ e = [g EXCEPT ![x] = Over(g[x], o, Slice(f[x], i, d))]
  OBVIOUS
<1>w. PICK m : m = Transfer(u.mem, At(u, x, i), d, At(u, x, o), moving, Assign)
  OBVIOUS
<1>7. Sound(SetMem(u, Transfer(u.mem, At(u, x, i), d, At(u, x, o), moving, Assign)), e)
  <2>1. i + d <= Len(f[x]) /\ o + d <= Len(f[x]) /\ o # i
    <3>1. Len(f[x]) = n + 1
      BY <1>5
    <3> QED
      BY <1>l, <3>1
  <2> QED
    BY <1>4, <1>g, <2>1, TransferOverIsSound
<1>8. e = [q EXCEPT ![x] = z]
  <2>1. DOMAIN f = Vectors /\ f = [q EXCEPT ![x] = w]
    BY <1>1, <1>u
  <2>2. g = [f EXCEPT ![x] = Left(w, i, d)]
    BY <1>5, <1>g, <1>m DEF Taken
  <2>3. g[x] = Left(w, i, d) /\ g = [q EXCEPT ![x] = Left(w, i, d)]
    BY <1>1, <2>1, <2>2
  <2>4. e = [g EXCEPT ![x] = z]
    BY <1>5, <1>g, <1>z, <2>3
  <2> QED
    BY <1>1, <2>3, <2>4
<1>9. SetMem(u, m) = t /\ t.vec[x].begin = s.vec[x].begin
  <2>1. m2 = m
    BY <1>6, <1>l, <1>m, <1>w DEF At, ShiftMemory
  <2>2. SetMem(u, m) = SetSize(SetMem(s, m), x, k)
    BY <1>1, <1>u, SetTwice
  <2>3. t = SetMem(u, m)
    BY <2>1, <2>2
  <2>4. SetMem(u, m).vec = u.vec
    BY <1>6, SetMemGives
  <2> QED
    BY <1>6, <2>3, <2>4
<1>11. ShiftedUp(s, q, t, z, x, i)
  BY <1>7, <1>8, <1>9, <1>r, <1>w, <1>z DEF ShiftedUp
<1> QED
  BY <1>11

\* insert of one element that is not at the end.
LEMMA InsertOneIsSound ==
    ASSUME Invariant, NEW x \in Vectors, NEW i \in 0 .. Last(x), NEW p \in Arguments(x),
           NEW rvalue \in BOOLEAN, InsertOne(x, i, p, rvalue)
    PROVE  Invariant'
<1>1. /\ Sound(Memory, sequence) /\ DOMAIN sequence = Vectors /\ Size(Memory, x) = Last(x)
  BY SizesOf
<1>n. PICK n \in Nat : n = Last(x) /\ Len(sequence[x]) = n
  BY SizesOf
<1>r. PICK r \in Seq(Elements) : r = sequence[x] /\ Len(r) = n
  BY <1>n, SizesOf
<1>i. i \in Nat /\ i < n
  BY <1>n DEF InsertOne
<1>v. PICK v, a : /\ v = Given(x, p) /\ Denotes(Memory, sequence, x, Param(p), a, v)
                  /\ GivenAway(x, p, rvalue) = MayLose(sequence[x], a, rvalue)
  BY ArgumentDenotes DEF MayLose
<1>s. PICK c, s : c = ReserveForParam(Memory, x, Param(p), 1) /\ s = c.s
  OBVIOUS
<1>m. PICK m1, m2, m3 :
        /\ m1 = Transfer(s.mem, At(s, x, n - 1), 1, At(s, x, n), TRUE, Construct)
        /\ m2 = Transfer(m1, At(s, x, i), n - 1 - i, At(s, x, i + 1), TRUE, Assign)
        /\ m3 = Transfer(m2, Follow(s, x, c.p, i, 1), 1, At(s, x, i), rvalue, Assign)
  OBVIOUS
<1>q. PICK z : z = With(x, Insertion(MayLose(r, a, rvalue), i, <<v>>))
  OBVIOUS
<1>2. ThrowOr(x, n + 1, SetSize(SetMem(s, m3), x, n + 1), z)
  BY <1>n, <1>r, <1>v, <1>s, <1>m, <1>q DEF InsertOne
<1>3. ASSUME ~Throws(Memory, x, n + 1)
      PROVE  Sound(SetSize(SetMem(s, m3), x, n + 1), z)
  <2>1. PICK one \in Nat : one = 1
    OBVIOUS
  <2>2. ~Throws(Memory, x, Size(Memory, x) + one)
    BY <1>1, <1>3, <1>n, <2>1
  <2>3. /\ Sound(s, sequence) /\ Grown(Memory, s, x, Size(Memory, x) + one)
        /\ Denotes(s, sequence, x, c.p, a, v)
    BY <1>1, <1>s, <1>v, <2>1, <2>2, ReserveForParamIsSound
  <2>4. n + 1 <= s.vec[x].capacity
    BY <1>1, <1>n, <2>1, <2>3 DEF Grown
  <2>k. PICK k \in Nat : k = n + 1
    OBVIOUS
  <2>t. PICK t : t = SetSize(SetMem(s, m2), x, k)
    OBVIOUS
  <2>h. ShiftMemory(s, x, i, n, m1, m2)
    BY <1>m DEF ShiftMemory
  <2>5. PICK w : ShiftedUp(s, sequence, t, w, x, i)
    BY <1>i, <1>n, <2>3, <2>4, <2>h, <2>k, <2>t, ShiftIsSound
  <2>f. PICK f : f = [sequence EXCEPT ![x] = w]
    OBVIOUS
  <2>6. /\ Sound(t, f) /\ w \in Seq(Elements) /\ Shifted(r, i, w)
        /\ t.vec[x].begin = s.vec[x].begin /\ f[x] = w /\ DOMAIN f = Vectors
    BY <1>1, <1>r, <2>5, <2>f DEF ShiftedUp
  <2>7. IsState(s)
    BY <2>3, SoundParts
  <2>8. t.mem = m2
    <3>1. IsState(SetMem(s, m2)) /\ SetMem(s, m2).mem = m2
      BY <2>7, SetMemGives
    <3> QED
      BY <2>t, <3>1, SetSizeGives
  <2>9. v \in Elements /\ (IsValue(c.p) <=> a = -1) /\ a \in -1 .. (n - 1)
    <3>1. a \in -1 .. (n - 1)
      BY <1>n, <2>3 DEF Denotes
    <3> QED
      BY <2>3, <3>1, ElemGives
  <2>p. PICK p2 : p2 = Follow(s, x, c.p, i, 1)
    OBVIOUS
  <2>10. Denotes(t, f, x, p2, Place(a, i), v)
    <3>1. CASE a = -1
      <4>1. p2 = c.p /\ Place(a, i) = -1
        BY <2>9, <2>p, <3>1 DEF Follow, IsOwn, Place
      <4> QED
        BY <2>3, <3>1, <4>1 DEF Denotes
    <3>2. CASE a # -1
      <4>1. a \in 0 .. (n - 1) /\ c.p = <<s.vec[x].begin, a>> /\ v = r[a + 1]
        BY <1>r, <2>3, <3>2 DEF Denotes, At
      <4>2. IsOwn(s, x, c.p) /\ c.p[2] = a
        BY <2>9, <3>2, <4>1 DEF IsOwn
      <4>3. p2 = <<s.vec[x].begin, Place(a, i)>>
        BY <2>p, <3>2, <4>1, <4>2 DEF Follow, Place, At
      <4>4. Place(a, i) \in 0 .. (Len(w) - 1) /\ Place(a, i) # -1
        BY <1>i, <1>r, <2>6, <4>1 DEF Place, Shifted
      <4>5. w[Place(a, i) + 1] = v
        <5>1. CASE a >= i
          <6>1. Place(a, i) = a + 1 /\ a + 1 + 1 \in (i + 2) .. (Len(r) + 1) /\ a + 1 + 1 - 1 = a + 1
            BY <1>i, <1>r, <3>2, <4>1, <5>1 DEF Place
          <6> QED
            BY <2>6, <4>1, <6>1 DEF Shifted
        <5>2. CASE ~(a >= i)
          <6>1. Place(a, i) = a /\ a + 1 \in 1 .. i
            BY <1>i, <4>1, <5>2 DEF Place
          <6> QED
            BY <2>6, <4>1, <6>1 DEF Shifted
        <5> QED
          BY <5>1, <5>2
      <4> QED
        BY <2>6, <4>3, <4>4, <4>5 DEF Denotes, At
    <3> QED
      BY <3>1, <3>2
  <2>11. Place(a, i) # i /\ i \in 0 .. (Len(w) - 1)
    <3>1. Len(w) = n + 1
      BY <1>r, <2>6 DEF Shifted
    <3> QED
      BY <1>i, <2>9, <3>1 DEF Place
  <2>12. Sound(SetMem(t, Transfer(t.mem, p2, 1, At(t, x, i), rvalue, Assign)),
               [f EXCEPT ![x] = Put1(IF rvalue THEN MovedAway(f[x], Place(a, i)) ELSE f[x], i, v)])
    BY <2>6, <2>10, <2>11, AssignOneIsSound
  <2>13. SetMem(t, Transfer(t.mem, p2, 1, At(t, x, i), rvalue, Assign)) = SetSize(SetMem(s, m3), x, n + 1)
    <3>1. m3 = Transfer(t.mem, p2, 1, At(t, x, i), rvalue, Assign)
      BY <1>m, <2>6, <2>8, <2>p DEF At
    <3> QED
      BY <2>7, <2>k, <2>t, <3>1, SetTwice
  <2>14. Put1(MayLose(w, Place(a, i), rvalue), i, v) = Insertion(MayLose(r, a, rvalue), i, <<v>>)
    <3>1. i \in 0 .. (Len(r) - 1) /\ a \in -1 .. (Len(r) - 1)
      BY <1>i, <1>r, <2>9
    <3> QED
      BY <2>6, <2>9, <3>1, ShiftedIsInserted
  <2>15. [f EXCEPT ![x] = Put1(IF rvalue THEN MovedAway(f[x], Place(a, i)) ELSE f[x], i, v)] = z
    BY <1>1, <1>q, <2>6, <2>14, <2>f DEF MayLose, With
  <2> QED
    BY <2>12, <2>13, <2>15
<1> QED
  BY <1>2, <1>3, ThrowOrIsSound

-----------------------------------------------------------------------------
(* Inserting several elements: the gap.                                    *)

\* n cells of b moved from f on to o on, within b.
Slid(m, w, b, f, n, o) ==
    /\ OnlyIn(m, w, b)
    /\ \A k \in DOMAIN m[b] :
         /\ k \in o .. (o + n - 1) => w[b][k] = m[b][k - o + f]
         /\ k \notin o .. (o + n - 1) /\ k \notin f .. (f + n - 1) => w[b][k] = m[b][k]
         /\ k \notin o .. (o + n - 1) /\ k \in f .. (f + n - 1) => w[b][k] = LeftOf(m[b][k])

\* Moving live cells within a buffer slides them.
LEMMA MoveWithin ==
    ASSUME NEW m, DOMAIN m = Buffers, NEW b \in Buffers, NEW f \in Nat, NEW n \in Nat, NEW o \in Nat,
           Live(m, b, f, n), f + n <= SizeTypeMax + 1, f <= SizeTypeMax, o # f,
           NEW how \in Ways, Ready(how, m, b, o, n),
           how = Construct => f + n <= o
    PROVE  Slid(m, Transfer(m, <<b, f>>, n, <<b, o>>, TRUE, how), b, f, n, o)
<1>1. /\ ~IsValue(<<b, f>>)
      /\ \A i \in f .. (f + n - 1) : ~IsValue(<<b, i>>)
  <2>1. SizeTypeMax \in Nat
    BY SizesAssumption
  <2>2. f \in 0 .. SizeTypeMax /\ \A i \in f .. (f + n - 1) : i \in 0 .. SizeTypeMax
    BY <2>1
  <2> QED
    BY <2>2, Marks
<1>2. how = Construct => \A k \in f .. (f + n - 1) : k \notin o .. (o + n - 1)
  OBVIOUS
<1>w. PICK w : w = Transfer(m, <<b, f>>, n, <<b, o>>, TRUE, how)
  OBVIOUS
<1>3. MovedTo(m, w, b, f, n, b, o)
  BY <1>1, <1>2, <1>w, MoveGives
<1>4. Slid(m, w, b, f, n, o)
  BY <1>3 DEF MovedTo, Slid, OnlyIn
<1> QED
  BY <1>4, <1>w

\* A gap of n cells at i: the cells from i on, up to the old size, moved up.
\* Where the gap lies below the old size, its cells are live.
GapOpened(m, w, b, size, i, n) ==
    /\ OnlyIn(m, w, b)
    /\ \A k \in DOMAIN m[b] :
         /\ k < i => w[b][k] = m[b][k]
         /\ k >= i /\ k < i + n /\ k < size => Alive(w[b][k])
         /\ k >= i /\ k < i + n /\ k >= size => w[b][k] = m[b][k]
         /\ k >= i + n /\ k < size + n => w[b][k] = m[b][k - n]
         /\ k >= size + n => w[b][k] = m[b][k]

\* The cells of a buffer before the gap is opened.
HasRoom(m, b, size, n) ==
    /\ DOMAIN m = Buffers /\ DOMAIN m[b] \subseteq Nat /\ size + n <= SizeTypeMax
    /\ \A k \in 0 .. (size - 1) : k \in DOMAIN m[b] /\ Alive(m[b][k])
    /\ \A k \in size .. (size + n - 1) : k \in DOMAIN m[b] /\ m[b][k] = Raw

\* What a move leaves can be assigned and destroyed.
LEMMA LeftIsAlive == \A c : Alive(c) => Alive(LeftOf(c))
BY Marks DEF LeftOf

\* A gap that reaches the old end, or beyond it.
LEMMA GapAtTheEnd ==
    ASSUME NEW m, NEW b \in Buffers, NEW size \in Nat, NEW i \in Nat, NEW n \in Nat, HasRoom(m, b, size, n),
           NEW d \in Nat, i + d = size, d < n, d > 0,
           NEW o \in Nat, o = i + n
    PROVE  GapOpened(m, Transfer(m, <<b, i>>, d, <<b, o>>, TRUE, Construct), b, size, i, n)
<1>1. /\ DOMAIN m = Buffers /\ DOMAIN m[b] \subseteq Nat /\ size + n <= SizeTypeMax
      /\ \A k \in 0 .. (size - 1) : k \in DOMAIN m[b] /\ Alive(m[b][k])
      /\ \A k \in size .. (size + n - 1) : k \in DOMAIN m[b] /\ m[b][k] = Raw
  BY DEF HasRoom
<1>2. Live(m, b, i, d)
  BY <1>1 DEF Live
<1>3. Ready(Construct, m, b, o, d)
  BY <1>1 DEF Ready
<1>4. i + d <= SizeTypeMax + 1 /\ i <= SizeTypeMax /\ o # i /\ i + d <= o
  BY <1>1, SizesAssumption
<1>5. Construct \in Ways
  BY DEF Ways
<1>w. PICK w : w = Transfer(m, <<b, i>>, d, <<b, o>>, TRUE, Construct)
  OBVIOUS
<1>6. Slid(m, w, b, i, d, o)
  BY <1>1, <1>2, <1>3, <1>4, <1>5, <1>w, MoveWithin
<1>7. ASSUME NEW k \in DOMAIN m[b]
      PROVE  /\ k < i => w[b][k] = m[b][k]
             /\ k >= i /\ k < i + n /\ k < size => Alive(w[b][k])
             /\ k >= i /\ k < i + n /\ k >= size => w[b][k] = m[b][k]
             /\ k >= i + n /\ k < size + n => w[b][k] = m[b][k - n]
             /\ k >= size + n => w[b][k] = m[b][k]
  <2>1. k \in Nat
    BY <1>1
  <2>2. k < i \/ (k >= i /\ k < i + n /\ k >= size) \/ k >= size + n
          => k \notin o .. (o + d - 1) /\ k \notin i .. (i + d - 1)
    BY <2>1
  <2>3. k >= i /\ k < i + n /\ k < size
          => k \notin o .. (o + d - 1) /\ k \in i .. (i + d - 1) /\ k \in 0 .. (size - 1)
    BY <2>1
  <2>4. k >= i + n /\ k < size + n => k \in o .. (o + d - 1) /\ k - o + i = k - n
    BY <2>1
  <2> QED
    BY <1>1, <1>6, <2>2, <2>3, <2>4, LeftIsAlive DEF Slid
<1> QED
  BY <1>6, <1>7, <1>w DEF GapOpened, Slid

\* A gap below the old end: the last n elements move to the end, and then the
\* others up to them.
LEMMA GapInside ==
    ASSUME NEW m, NEW b \in Buffers, NEW size \in Nat, NEW i \in Nat, NEW n \in Nat, HasRoom(m, b, size, n),
           n > 0, NEW f \in Nat, f + n = size, NEW d \in Nat, i + d = f,
           NEW o \in Nat, o = i + n,
           NEW v, v = Transfer(m, <<b, f>>, n, <<b, size>>, TRUE, Construct)
    PROVE  GapOpened(m, Transfer(v, <<b, i>>, d, <<b, o>>, TRUE, Assign), b, size, i, n)
<1>1. /\ DOMAIN m = Buffers /\ DOMAIN m[b] \subseteq Nat /\ size + n <= SizeTypeMax
      /\ \A k \in 0 .. (size - 1) : k \in DOMAIN m[b] /\ Alive(m[b][k])
      /\ \A k \in size .. (size + n - 1) : k \in DOMAIN m[b] /\ m[b][k] = Raw
  BY DEF HasRoom
<1>2. Live(m, b, f, n)
  BY <1>1 DEF Live
<1>3. Ready(Construct, m, b, size, n)
  BY <1>1 DEF Ready
<1>4. f + n <= SizeTypeMax + 1 /\ f <= SizeTypeMax /\ size # f /\ f + n <= size
  BY <1>1, SizesAssumption
<1>5. Construct \in Ways /\ Assign \in Ways /\ Construct # Assign
  BY DEF Ways, Construct, Assign
<1>6. Slid(m, v, b, f, n, size)
  BY <1>1, <1>2, <1>3, <1>4, <1>5, MoveWithin
<1>7. DOMAIN v = Buffers /\ DOMAIN v[b] = DOMAIN m[b]
  BY <1>1, <1>6 DEF Slid, OnlyIn
<1>8. ASSUME NEW k \in DOMAIN m[b]
      PROVE  /\ k \in Nat
             /\ k >= size /\ k < size + n => v[b][k] = m[b][k - n]
             /\ k < f \/ k >= size + n => v[b][k] = m[b][k]
             /\ k < size => Alive(v[b][k])
  <2>1. k \in Nat
    BY <1>1
  <2>2. k >= size /\ k < size + n => k \in size .. (size + n - 1) /\ k - size + f = k - n
    BY <2>1
  <2>3. k < f \/ k >= size + n => k \notin size .. (size + n - 1) /\ k \notin f .. (f + n - 1)
    BY <2>1
  <2>4. k < size => k \in 0 .. (size - 1) /\ k \notin size .. (size + n - 1)
    BY <2>1
  <2>5. k < size => Alive(m[b][k]) /\ (v[b][k] = m[b][k] \/ v[b][k] = LeftOf(m[b][k]))
    BY <1>1, <1>6, <2>4 DEF Slid
  <2> QED
    BY <1>6, <2>1, <2>2, <2>3, <2>5, LeftIsAlive DEF Slid
<1>9. Live(v, b, i, d)
  <2>1. \A k \in i .. (i + d - 1) : k \in 0 .. (size - 1) /\ k < size
    OBVIOUS
  <2> QED
    BY <1>1, <1>7, <1>8, <2>1 DEF Live
<1>10. Ready(Assign, v, b, o, d)
  <2>1. \A k \in o .. (o + d - 1) : k \in 0 .. (size - 1) /\ k < size
    OBVIOUS
  <2> QED
    BY <1>1, <1>5, <1>7, <1>8, <2>1 DEF Ready
<1>11. i + d <= SizeTypeMax + 1 /\ i <= SizeTypeMax /\ o # i
  BY <1>1, SizesAssumption
<1>w. PICK w : w = Transfer(v, <<b, i>>, d, <<b, o>>, TRUE, Assign)
  OBVIOUS
<1>12. Slid(v, w, b, i, d, o)
  BY <1>5, <1>7, <1>9, <1>10, <1>11, <1>w, MoveWithin
<1>13. OnlyIn(m, w, b)
  <2>1. OnlyIn(m, v, b) /\ OnlyIn(v, w, b)
    BY <1>6, <1>12 DEF Slid
  <2> QED
    BY <2>1 DEF OnlyIn
<1>s. ASSUME NEW k \in DOMAIN m[b]
      PROVE  /\ k \in o .. (o + d - 1) => w[b][k] = v[b][k - o + i]
             /\ k \notin o .. (o + d - 1) /\ k \notin i .. (i + d - 1) => w[b][k] = v[b][k]
             /\ k \notin o .. (o + d - 1) => w[b][k] = v[b][k] \/ w[b][k] = LeftOf(v[b][k])
  <2>1. k \in DOMAIN v[b]
    BY <1>7
  <2> QED
    BY <1>12, <2>1 DEF Slid
<1>14. ASSUME NEW k \in DOMAIN m[b]
       PROVE  /\ k < i => w[b][k] = m[b][k]
              /\ k >= i /\ k < i + n /\ k < size => Alive(w[b][k])
              /\ k >= i /\ k < i + n /\ k >= size => w[b][k] = m[b][k]
              /\ k >= i + n /\ k < size + n => w[b][k] = m[b][k - n]
              /\ k >= size + n => w[b][k] = m[b][k]
  <2>1. k \in Nat /\ k \in DOMAIN v[b]
    BY <1>7, <1>8
  <2>2. CASE k < i \/ k >= size + n
    <3>1. k \notin o .. (o + d - 1) /\ k \notin i .. (i + d - 1) /\ (k < f \/ k >= size + n)
      BY <2>1, <2>2
    <3>2. ~(k >= i /\ k < i + n) /\ ~(k >= i + n /\ k < size + n)
      BY <2>1, <2>2
    <3>3. w[b][k] = v[b][k]
      BY <1>s, <3>1
    <3>4. v[b][k] = m[b][k]
      BY <1>8, <3>1
    <3> QED
      BY <3>2, <3>3, <3>4
  <2>3. CASE k >= i /\ k < i + n
    <3>1. k < size /\ k \notin o .. (o + d - 1) /\ ~(k < i) /\ ~(k >= i + n) /\ ~(k >= size + n)
          /\ ~(k >= size)
      BY <2>1, <2>3
    <3>2. w[b][k] = v[b][k] \/ w[b][k] = LeftOf(v[b][k])
      BY <1>s, <3>1
    <3>3. Alive(w[b][k])
      <4>1. Alive(v[b][k])
        BY <1>8, <3>1
      <4> QED
        BY <3>2, <4>1, LeftIsAlive
    <3> QED
      BY <3>1, <3>3
  <2>4. CASE k >= i + n /\ k < size + n
    <3>1. ~(k < i) /\ ~(k < i + n) /\ ~(k >= size + n)
      BY <2>1, <2>4
    <3>2. CASE k < size
      <4>1. k \in o .. (o + d - 1) /\ k - o + i = k - n /\ k - n \in 0 .. (size - 1) /\ k - n < f
        BY <2>1, <2>4, <3>2
      <4>2. w[b][k] = v[b][k - n]
        BY <1>s, <4>1
      <4>3. v[b][k - n] = m[b][k - n]
        BY <1>1, <1>8, <4>1
      <4> QED
        BY <3>1, <4>2, <4>3
    <3>3. CASE k >= size
      <4>1. k \notin o .. (o + d - 1) /\ k \notin i .. (i + d - 1)
        BY <2>1, <3>3
      <4>2. w[b][k] = v[b][k]
        BY <1>s, <4>1
      <4> QED
        BY <1>8, <2>4, <3>1, <3>3, <4>2
    <3> QED
      BY <2>1, <3>2, <3>3
  <2> QED
    BY <2>1, <2>2, <2>3, <2>4
<1> QED
  BY <1>13, <1>14, <1>w DEF GapOpened

\* The state g is s with a gap of n cells in x, its memory m.
GapState(s, g, m, x, i, n) ==
    /\ g = SetSize(SetMem(s, m), x, s.vec[x].size + n)
    /\ GapOpened(s.mem, m, s.vec[x].begin, s.vec[x].size, i, n)

\* A sound vector with room for n more elements.
LEMMA VectorHasRoom ==
    ASSUME NEW s, NEW q, Sound(s, q), NEW x \in Vectors, NEW n \in Nat,
           s.vec[x].size + n <= s.vec[x].capacity
    PROVE  HasRoom(s.mem, s.vec[x].begin, s.vec[x].size, n)
<1>a. PICK b, size, cap, r :
        b = s.vec[x].begin /\ size = s.vec[x].size /\ cap = s.vec[x].capacity /\ r = q[x]
  OBVIOUS
<1>1. /\ size \in Nat /\ cap \in Nat /\ size + n <= cap /\ cap <= SizeTypeMax /\ SizeTypeMax \in Nat
      /\ 0 .. (cap - 1) \subseteq DOMAIN s.mem[b] /\ HoldsCells(s.mem, b, r) /\ Len(r) = size
      /\ DOMAIN s.mem[b] \subseteq Nat
  BY <1>a, SoundParts
<1>2. DOMAIN s.mem = Buffers
  BY DEF Sound, MemoryOK
<1>3. ASSUME NEW k \in 0 .. (size - 1)
      PROVE  k \in DOMAIN s.mem[b] /\ Alive(s.mem[b][k])
  <2>1. k \in 0 .. (Len(q[x]) - 1)
    BY <1>1, <1>a
  <2>2. /\ k \in DOMAIN s.mem[s.vec[x].begin]
        /\ s.mem[s.vec[x].begin][k] = q[x][k + 1] /\ q[x][k + 1] \in Elements
    BY <2>1, SoundParts
  <2> QED
    BY <1>a, <2>2, Marks
<1>4. ASSUME NEW k \in size .. (size + n - 1)
      PROVE  k \in DOMAIN s.mem[b] /\ s.mem[b][k] = Raw
  <2>1. k \in 0 .. (cap - 1) /\ ~(k < size)
    BY <1>1
  <2> QED
    BY <1>1, <2>1 DEF HoldsCells
<1>5. size + n <= SizeTypeMax
  BY <1>1
<1> QED
  BY <1>1, <1>2, <1>3, <1>4, <1>5, <1>a DEF HasRoom

\* Opening the gap.
LEMMA OpenGapGives ==
    ASSUME NEW s, NEW q, Sound(s, q), NEW x \in Vectors, NEW n \in Nat, n > 0,
           NEW i \in Nat, i < s.vec[x].size,
           s.vec[x].size + n <= s.vec[x].capacity
    PROVE  \E m : GapState(s, OpenGap(s, x, i, n), m, x, i, n)
<1>a. PICK b, size : b = s.vec[x].begin /\ size = s.vec[x].size
  OBVIOUS
<1>1. /\ size \in Nat /\ b \in Buffers /\ IsState(s) /\ i < size /\ s.vec[x].capacity \in Nat
      /\ size + n <= s.vec[x].capacity
  BY <1>a, SoundParts
<1>2. HasRoom(s.mem, b, size, n)
  BY <1>a, VectorHasRoom
<1>o. PICK o \in Nat, total \in Nat : o = i + n /\ total = size + n
  BY <1>1
<1>3. CASE size - i >= n
  <2>1. PICK f \in Nat, d \in Nat : f = size - n /\ f + n = size /\ d = size - n - i /\ i + d = f
    <3>1. size - n \in Nat /\ size - n + n = size /\ size - n - i \in Nat /\ i + (size - n - i) = size - n
      BY <1>1, <1>3
    <3> QED
      BY <3>1
  <2>v. PICK v, w : /\ v = Transfer(s.mem, <<b, f>>, n, <<b, size>>, TRUE, Construct)
                    /\ w = Transfer(v, <<b, i>>, d, <<b, o>>, TRUE, Assign)
    OBVIOUS
  <2>2. GapOpened(s.mem, w, b, size, i, n)
    BY <1>1, <1>2, <1>o, <2>1, <2>v, GapInside
  <2>3. Reserve(s, x, size + n) = s
    BY <1>1 DEF Reserve, Capacity
  <2>4. AppendRange(s, x, At(s, x, size - n), n, TRUE) = SetSize(SetMem(s, v), x, total)
    BY <1>a, <1>o, <2>1, <2>3, <2>v DEF AppendRange, EndOf, At, Size
  <2>5. SetSize(SetMem(s, v), x, total).mem = v
    <3>1. IsState(SetMem(s, v)) /\ SetMem(s, v).mem = v
      BY <1>1, SetMemGives
    <3> QED
      BY <3>1, SetSizeGives
  <2>6. OpenGap(s, x, i, n) = SetMem(SetSize(SetMem(s, v), x, total), w)
    BY <1>3, <1>a, <1>o, <2>1, <2>4, <2>5, <2>v DEF OpenGap, At, Size
  <2>7. OpenGap(s, x, i, n) = SetSize(SetMem(s, w), x, total)
    BY <1>1, <2>6, SetTwice
  <2> QED
    BY <1>a, <1>o, <2>2, <2>7 DEF GapState
<1>4. CASE ~(size - i >= n)
  <2>1. PICK d \in Nat : d = size - i /\ i + d = size /\ d < n /\ d > 0
    <3>1. size - i \in Nat /\ i + (size - i) = size /\ size - i < n /\ size - i > 0
      BY <1>1, <1>4
    <3> QED
      BY <3>1
  <2>v. PICK v : v = Transfer(s.mem, <<b, i>>, d, <<b, o>>, TRUE, Construct)
    OBVIOUS
  <2>2. GapOpened(s.mem, v, b, size, i, n)
    BY <1>1, <1>2, <1>o, <2>1, <2>v, GapAtTheEnd
  <2>3. OpenGap(s, x, i, n) = SetSize(SetMem(s, v), x, total)
    BY <1>4, <1>a, <1>o, <2>1, <2>v DEF OpenGap, At, Size
  <2> QED
    BY <1>a, <1>o, <2>2, <2>3 DEF GapState
<1> QED
  BY <1>3, <1>4

\* The parts of a state with a gap.
LEMMA GapParts ==
    ASSUME NEW s, IsState(s), NEW x \in Vectors, s.vec[x].size \in Nat,
           NEW g, NEW m, NEW i, NEW n \in Nat, GapState(s, g, m, x, i, n)
    PROVE  /\ IsState(g) /\ g.mem = m /\ g.vec[x].begin = s.vec[x].begin
           /\ \A y \in Vectors : y # x => g.vec[y] = s.vec[y]
           /\ \A w : SetMem(g, w) = SetSize(SetMem(s, w), x, s.vec[x].size + n)
<1>1. PICK k \in Nat : k = s.vec[x].size + n
  OBVIOUS
<1>2. g = SetSize(SetMem(s, m), x, k)
  BY <1>1 DEF GapState
<1>3. IsState(SetMem(s, m)) /\ SetMem(s, m).mem = m /\ SetMem(s, m).vec = s.vec
  BY SetMemGives
<1>4. Resized(SetMem(s, m), g, x) /\ g.mem = m
  BY <1>2, <1>3, SetSizeGives
<1>5. \A w : SetMem(g, w) = SetSize(SetMem(s, w), x, k)
  BY <1>2, SetTwice
<1> QED
  BY <1>1, <1>3, <1>4, <1>5 DEF Resized

\* What was addressed before the gap is found after it.
LEMMA GapReads ==
    ASSUME NEW s, NEW q, Sound(s, q), NEW x \in Vectors, NEW n \in Nat,
           NEW i \in Nat, NEW g, NEW m, GapState(s, g, m, x, i, n),
           s.vec[x].size + n <= s.vec[x].capacity,
           NEW p, NEW a, NEW v, Denotes(s, q, x, p, a, v)
    PROVE  Elem(g.mem, Follow(s, x, p, i, n)) = v /\ v \in Elements
<1>1. v \in Elements /\ (IsValue(p) <=> a = -1) /\ Elem(s.mem, p) = v
  BY ElemGives
<1>b. PICK b, size : b = s.vec[x].begin /\ size = s.vec[x].size
  OBVIOUS
<1>2. /\ IsState(s) /\ size \in Nat /\ size + n <= s.vec[x].capacity
      /\ s.vec[x].capacity <= SizeTypeMax /\ SizeTypeMax \in Nat /\ s.vec[x].capacity \in Nat
      /\ Len(q[x]) = size
  BY <1>b, SoundParts
<1>3. g.mem = m
  BY <1>2, <1>b, GapParts
<1>4. CASE a = -1
  <2>1. Follow(s, x, p, i, n) = p
    BY <1>1, <1>4 DEF Follow, IsOwn
  <2> QED
    BY <1>1, <1>4, <2>1 DEF Elem
<1>5. CASE a # -1
  <2>1. a \in 0 .. (size - 1) /\ p = <<b, a>> /\ v = q[x][a + 1]
    BY <1>2, <1>5, <1>b DEF Denotes, At
  <2>2. IsOwn(s, x, p)
    BY <1>1, <1>5, <1>b, <2>1 DEF IsOwn
  <2>c. PICK c \in Nat : c = IF a >= i THEN a + n ELSE a
    BY <2>1
  <2>3. Follow(s, x, p, i, n) = <<b, c>>
    BY <1>b, <2>1, <2>2, <2>c DEF Follow, At
  <2>4. c \in 0 .. (size + n - 1) /\ c \in 0 .. SizeTypeMax
    BY <1>2, <2>1, <2>c
  <2>5. ~IsValue(<<b, c>>)
    BY <1>b, <2>4, SoundParts
  <2>6. c \in DOMAIN s.mem[b]
    <3>1. c \in 0 .. (s.vec[x].capacity - 1)
      BY <1>2, <2>4
    <3> QED
      BY <1>b, <3>1, SoundParts
  <2>7. m[b][c] = s.mem[b][a] /\ c \in DOMAIN m[b]
    <3>1. GapOpened(s.mem, m, b, size, i, n)
      BY <1>b DEF GapState
    <3>2. CASE a >= i
      <4>1. c >= i + n /\ c < size + n /\ c - n = a
        BY <1>2, <2>1, <2>c, <3>2
      <4> QED
        BY <2>6, <3>1, <4>1 DEF GapOpened, OnlyIn
    <3>3. CASE ~(a >= i)
      <4>1. c < i /\ c = a
        BY <2>1, <2>c, <3>3
      <4> QED
        BY <2>6, <3>1, <4>1 DEF GapOpened, OnlyIn
    <3> QED
      BY <3>2, <3>3
  <2>8. s.mem[b][a] = v
    <3>1. a \in 0 .. (Len(q[x]) - 1)
      BY <1>2, <2>1
    <3> QED
      BY <1>b, <2>1, <3>1, SoundParts
  <2> QED
    BY <1>1, <1>3, <2>3, <2>5, <2>7, <2>8 DEF Elem
<1> QED
  BY <1>4, <1>5

\* The elements of another vector are where they were.
LEMMA GapLeavesOthers ==
    ASSUME NEW s, NEW q, Sound(s, q), NEW x \in Vectors, NEW n \in Nat,
           NEW i \in Nat, NEW g, NEW m, GapState(s, g, m, x, i, n),
           NEW y \in Vectors, y # x, NEW k
    PROVE  Elem(g.mem, At(g, y, k)) = Elem(s.mem, At(s, y, k))
<1>1. IsState(s) /\ s.vec[x].size \in Nat /\ s.vec[y].begin # s.vec[x].begin /\ DOMAIN s.mem = Buffers
  BY SoundParts DEF BlocksApart, MemoryOK
<1>2. g.mem = m /\ g.vec[y] = s.vec[y] /\ s.vec[y].begin \in Buffers
  BY <1>1, GapParts, SoundParts
<1>3. m[s.vec[y].begin] = s.mem[s.vec[y].begin]
  BY <1>1, <1>2 DEF GapState, GapOpened, OnlyIn
<1> QED
  BY <1>2, <1>3 DEF At, Elem

\* The cells of the gap filled in: those of r with e behind the first i.
GapFilled(m, w, b, i, n, e) ==
    /\ OnlyIn(m, w, b)
    /\ \A k \in DOMAIN m[b] : w[b][k] = IF k >= i /\ k < i + n THEN e[k - i + 1] ELSE m[b][k]

\* Filling: assignments below the old end, constructions above it.
LEMMA GapIsFilled ==
    ASSUME NEW m, NEW b \in DOMAIN m, DOMAIN m[b] \subseteq Nat, NEW i \in Nat, NEW n \in Nat,
           NEW d \in Nat, NEW c \in Nat, c + d = n, NEW o \in Nat, o = i + c,
           NEW e \in Seq(Elements), Len(e) = n, NEW from, Gives(from, e),
           NEW val, \A k \in 0 .. (d - 1) : val[k] = from[k + c],
           \A k \in i .. (i + n - 1) : /\ k \in DOMAIN m[b]
                                       /\ k < o => Alive(m[b][k])
                                       /\ k >= o => m[b][k] = Raw
    PROVE  GapFilled(m, Write(Write(m, <<b, i>>, c, from, Assign), <<b, o>>, d, val, Construct), b, i, n, e)
<1>1. \A k \in 0 .. (n - 1) : Alive(from[k]) /\ from[k] = e[k + 1]
  BY GivesLive DEF Gives
<1>2. Assign \in Ways /\ Construct \in Ways /\ Construct # Assign
  BY DEF Ways, Assign, Construct
<1>3. MayPut(Assign, m, b, i, c, from)
  <2>1. Ready(Assign, m, b, i, c)
    <3>1. \A k \in i .. (i + c - 1) : k \in i .. (i + n - 1) /\ k < o
      OBVIOUS
    <3> QED
      BY <1>2, <3>1 DEF Ready
  <2>2. \A k \in 0 .. (c - 1) : Alive(from[k])
    <3>1. \A k \in 0 .. (c - 1) : k \in 0 .. (n - 1)
      OBVIOUS
    <3> QED
      BY <1>1, <3>1
  <2> QED
    BY <1>2, <2>1, <2>2, ReadyToPut
<1>v. PICK v : v = Write(m, <<b, i>>, c, from, Assign)
  OBVIOUS
<1>4. Wrote(m, v, b, i, c, from)
  BY <1>3, <1>v, WriteGives
<1>5. /\ b \in DOMAIN v /\ DOMAIN v[b] = DOMAIN m[b] /\ OnlyIn(m, v, b)
      /\ \A k \in DOMAIN m[b] : v[b][k] = IF k \in i .. (i + c - 1) THEN from[k - i] ELSE m[b][k]
  BY <1>4 DEF Wrote, OnlyIn
<1>6. MayPut(Construct, v, b, o, d, val)
  <2>1. Ready(Construct, v, b, o, d)
    <3>1. \A k \in o .. (o + d - 1) : k \in i .. (i + n - 1) /\ k >= o /\ k \notin i .. (i + c - 1)
      OBVIOUS
    <3> QED
      BY <1>5, <3>1 DEF Ready
  <2>2. \A k \in 0 .. (d - 1) : Alive(val[k])
    <3>1. \A k \in 0 .. (d - 1) : k + c \in 0 .. (n - 1)
      OBVIOUS
    <3> QED
      BY <1>1, <3>1
  <2> QED
    BY <1>2, <2>1, <2>2, ReadyToPut
<1>w. PICK w : w = Write(v, <<b, o>>, d, val, Construct)
  OBVIOUS
<1>7. Wrote(v, w, b, o, d, val)
  BY <1>5, <1>6, <1>w, WriteGives
<1>8. /\ OnlyIn(v, w, b)
      /\ \A k \in DOMAIN m[b] : w[b][k] = IF k \in o .. (o + d - 1) THEN val[k - o] ELSE v[b][k]
  BY <1>5, <1>7 DEF Wrote
<1>9. OnlyIn(m, w, b)
  BY <1>5, <1>8 DEF OnlyIn
<1>10. ASSUME NEW k \in DOMAIN m[b]
       PROVE  w[b][k] = IF k >= i /\ k < i + n THEN e[k - i + 1] ELSE m[b][k]
  <2>1. k \in Nat
    OBVIOUS
  <2>2. CASE k >= i /\ k < o
    <3>1. k \in i .. (i + c - 1) /\ k \notin o .. (o + d - 1) /\ k - i \in 0 .. (n - 1) /\ k < i + n
      BY <2>1, <2>2
    <3> QED
      BY <1>1, <1>5, <1>8, <2>2, <3>1
  <2>3. CASE k >= o /\ k < i + n
    <3>1. /\ k \in o .. (o + d - 1) /\ k - o \in 0 .. (d - 1) /\ k - o + c = k - i
          /\ k - i \in 0 .. (n - 1) /\ k >= i
      BY <2>1, <2>3
    <3> QED
      BY <1>1, <1>8, <2>3, <3>1
  <2>4. CASE ~(k >= i /\ k < i + n)
    <3>1. k \notin i .. (i + c - 1) /\ k \notin o .. (o + d - 1)
      BY <2>1, <2>4
    <3> QED
      BY <1>5, <1>8, <2>4, <3>1
  <2> QED
    BY <2>1, <2>2, <2>3, <2>4
<1> QED
  BY <1>9, <1>10, <1>v, <1>w DEF GapFilled

\* Only the cells of b have changed, which hold the n elements of r now.
CellsBecome(m, w, b, r, n) ==
    /\ OnlyIn(m, w, b)
    /\ r \in Seq(Elements) /\ Len(r) = n /\ HoldsCells(w, b, r)

\* The cells with the gap filled hold the sequence with the insertion.
LEMMA FilledIsInsertion ==
    ASSUME NEW m, NEW u, NEW w, NEW b \in DOMAIN m, DOMAIN m[b] \subseteq Nat,
           NEW r \in Seq(Elements), NEW size \in Nat, Len(r) = size, HoldsCells(m, b, r),
           NEW n \in Nat, NEW i \in Nat, i < size, HasRoom(m, b, size, n),
           GapOpened(m, u, b, size, i, n),
           NEW e \in Seq(Elements), Len(e) = n, GapFilled(u, w, b, i, n, e)
    PROVE  CellsBecome(m, w, b, Insertion(r, i, e), size + n)
<1>0. i \in 0 .. Len(r)
  OBVIOUS
<1>1. PICK t \in Seq(Elements) : t = Insertion(r, i, e) /\ Inserted(r, i, e, t)
  BY <1>0, InsertionShape
<1>2. /\ Len(t) = size + n
      /\ \A k \in 1 .. i : t[k] = r[k]
      /\ \A k \in 1 .. n : t[i + k] = e[k]
      /\ \A k \in 1 .. (size - i) : t[i + n + k] = r[i + k]
  BY <1>1 DEF Inserted
<1>3. OnlyIn(m, u, b) /\ OnlyIn(u, w, b)
  BY DEF GapOpened, GapFilled
<1>4. OnlyIn(m, w, b) /\ DOMAIN w[b] = DOMAIN m[b] /\ DOMAIN u[b] = DOMAIN m[b]
  BY <1>3 DEF OnlyIn
<1>5. ASSUME NEW k \in DOMAIN m[b]
      PROVE  w[b][k] = IF k < size + n THEN t[k + 1] ELSE Raw
  <2>1. k \in Nat
    OBVIOUS
  <2>2. /\ m[b][k] = IF k < size THEN r[k + 1] ELSE Raw
        /\ w[b][k] = IF k >= i /\ k < i + n THEN e[k - i + 1] ELSE u[b][k]
    BY <1>4 DEF HoldsCells, GapFilled
  <2>3. /\ k < i => u[b][k] = m[b][k]
        /\ k >= i + n /\ k < size + n => u[b][k] = m[b][k - n]
        /\ k >= size + n => u[b][k] = m[b][k]
    BY DEF GapOpened
  <2>4. CASE k < i
    <3>1. ~(k >= i) /\ k < size /\ k < size + n /\ k + 1 \in 1 .. i
      BY <2>1, <2>4
    <3>2. w[b][k] = r[k + 1]
      BY <2>2, <2>3, <2>4, <3>1
    <3>3. t[k + 1] = r[k + 1]
      BY <1>2, <3>1
    <3> QED
      BY <3>1, <3>2, <3>3
  <2>5. CASE k >= i /\ k < i + n
    <3>1. k < size + n /\ k - i + 1 \in 1 .. n /\ i + (k - i + 1) = k + 1
      BY <2>1, <2>5
    <3>2. t[i + (k - i + 1)] = e[k - i + 1]
      BY <1>2, <3>1
    <3> QED
      BY <2>2, <2>5, <3>1, <3>2
  <2>6. CASE k >= i + n /\ k < size + n
    <3>1. /\ ~(k < i + n) /\ k - n \in 0 .. (size - 1) /\ k - n < size /\ k - n - i + 1 \in 1 .. (size - i)
          /\ i + n + (k - n - i + 1) = k + 1 /\ i + (k - n - i + 1) = k - n + 1
      BY <2>1, <2>6
    <3>2. k - n \in DOMAIN m[b]
      BY <3>1 DEF HasRoom
    <3> QED
      BY <1>2, <2>2, <2>3, <2>6, <3>1, <3>2 DEF HoldsCells
  <2>7. CASE k >= size + n
    <3>1. ~(k < size + n) /\ ~(k < i + n) /\ ~(k < size)
      BY <2>1, <2>7
    <3> QED
      BY <2>2, <2>3, <2>7, <3>1
  <2> QED
    BY <2>1, <2>4, <2>5, <2>6, <2>7
<1>6. HoldsCells(w, b, t)
  <2>1. \A k \in DOMAIN w[b] : w[b][k] = IF k < Len(t) THEN t[k + 1] ELSE Raw
    BY <1>2, <1>4, <1>5
  <2> QED
    BY <2>1 DEF HoldsCells
<1> QED
  BY <1>1, <1>2, <1>4, <1>6 DEF CellsBecome

\* Filling the gap that was opened inserts the elements.
LEMMA FillGapIsSound ==
    ASSUME NEW s, NEW q, Sound(s, q), NEW x \in Vectors, NEW n \in Nat, n > 0,
           NEW i \in Nat, i < s.vec[x].size,
           s.vec[x].size + n <= s.vec[x].capacity,
           NEW g, NEW m, GapState(s, g, m, x, i, n),
           NEW e \in Seq(Elements), Len(e) = n, NEW from, Gives(from, e)
    PROVE  Sound(FillGap(g, x, i, n, s.vec[x].size, from), [q EXCEPT ![x] = Insertion(q[x], i, e)])
<1>a. PICK b, size, r : b = s.vec[x].begin /\ size = s.vec[x].size /\ r = q[x]
  OBVIOUS
<1>1. /\ size \in Nat /\ b \in Buffers /\ IsState(s) /\ i < size /\ s.vec[x].capacity \in Nat
      /\ size + n <= s.vec[x].capacity /\ DOMAIN s.mem[b] \subseteq Nat
      /\ r \in Seq(Elements) /\ Len(r) = size /\ HoldsCells(s.mem, b, r)
  BY <1>a, SoundParts
<1>2. HasRoom(s.mem, b, size, n)
  BY <1>a, VectorHasRoom
<1>3. GapOpened(s.mem, m, b, size, i, n)
  BY <1>a DEF GapState
<1>4. /\ IsState(g) /\ g.mem = m /\ g.vec[x].begin = b
      /\ \A w : SetMem(g, w) = SetSize(SetMem(s, w), x, size + n)
  BY <1>1, <1>a, GapParts
<1>5. b \in DOMAIN s.mem /\ b \in DOMAIN m /\ DOMAIN m[b] = DOMAIN s.mem[b] /\ DOMAIN m[b] \subseteq Nat
  BY <1>1, <1>2, <1>3 DEF HasRoom, GapOpened, OnlyIn
<1>c. PICK c \in Nat, d \in Nat, o \in Nat :
        /\ c = IF size - i < n THEN size - i ELSE n
        /\ d = n - c /\ c + d = n /\ o = i + c /\ o <= size /\ (d > 0 => o = size)
  <2>1. CASE size - i < n
    <3>1. size - i \in Nat /\ n - (size - i) \in Nat /\ size - i + (n - (size - i)) = n /\ i + (size - i) = size
      BY <1>1, <2>1
    <3> QED
      BY <1>1, <2>1, <3>1
  <2>2. CASE ~(size - i < n)
    <3>1. n - n = 0 /\ n + 0 = n /\ i + n <= size
      BY <1>1, <2>2
    <3> QED
      BY <1>1, <2>2, <3>1
  <2> QED
    BY <2>1, <2>2
<1>v. PICK val : val = [k \in 0 .. (n - c - 1) |-> from[k + c]]
  OBVIOUS
<1>6. \A k \in 0 .. (d - 1) : val[k] = from[k + c]
  BY <1>c, <1>v
<1>7. ASSUME NEW k \in i .. (i + n - 1)
      PROVE  /\ k \in DOMAIN m[b]
             /\ k < o => Alive(m[b][k])
             /\ k >= o => m[b][k] = Raw
  <2>1. k \in Nat /\ (k \in 0 .. (size - 1) \/ k \in size .. (size + n - 1))
    BY <1>1
  <2>2. k \in DOMAIN s.mem[b]
    BY <1>2, <2>1 DEF HasRoom
  <2>3. k >= i /\ k < i + n
    OBVIOUS
  <2>4. k < o => Alive(m[b][k])
    <3>1. k < o => k < size
      BY <1>1, <1>c, <2>1
    <3> QED
      BY <1>3, <2>2, <2>3, <3>1 DEF GapOpened
  <2>5. k >= o => m[b][k] = Raw
    <3>1. k >= o => k >= size /\ k \in size .. (size + n - 1)
      <4>1. k >= o => d > 0
        BY <1>c, <2>1, <2>3
      <4> QED
        BY <1>1, <1>c, <2>1, <2>3, <4>1
    <3>2. k >= size => m[b][k] = s.mem[b][k]
      BY <1>3, <2>2, <2>3 DEF GapOpened
    <3> QED
      BY <1>2, <3>1, <3>2 DEF HasRoom
  <2> QED
    BY <1>5, <2>2, <2>4, <2>5
<1>w. PICK w : w = Write(Write(m, <<b, i>>, c, from, Assign), <<b, o>>, d, val, Construct)
  OBVIOUS
<1>8. GapFilled(m, w, b, i, n, e)
  BY <1>5, <1>6, <1>7, <1>c, <1>w, GapIsFilled
<1>9. /\ OnlyIn(s.mem, w, b)
      /\ HoldsCells(w, b, Insertion(r, i, e)) /\ Insertion(r, i, e) \in Seq(Elements)
      /\ Len(Insertion(r, i, e)) = size + n
  <2>1. CellsBecome(s.mem, w, b, Insertion(r, i, e), size + n)
    BY <1>1, <1>2, <1>3, <1>5, <1>8, FilledIsInsertion
  <2> QED
    BY <2>1 DEF CellsBecome
<1>10. Sound(SetSize(SetMem(s, w), x, size + n), [q EXCEPT ![x] = Insertion(r, i, e)])
  <2>1. PICK t \in Seq(Elements) : t = Insertion(r, i, e)
    BY <1>9
  <2>2. Sound(SetSize(SetMem(s, w), x, Len(t)), [q EXCEPT ![x] = t])
    BY <1>1, <1>9, <1>a, <2>1, EditIsSound
  <2> QED
    BY <1>9, <2>1, <2>2
<1>11. FillGap(g, x, i, n, size, from) = SetMem(g, w)
  BY <1>4, <1>c, <1>v, <1>w DEF FillGap, At
<1> QED
  BY <1>4, <1>10, <1>11, <1>a

\* insert of n copies that is not at the end.
LEMMA InsertNIsSound ==
    ASSUME Invariant, NEW x \in Vectors, NEW i \in 0 .. Last(x), NEW p \in Arguments(x),
           NEW n \in Nat, ~EmptyRanges, InsertN(x, i, n, p)
    PROVE  Invariant'
<1>1. Sound(Memory, sequence) /\ DOMAIN sequence = Vectors /\ Size(Memory, x) = Last(x)
  BY SizesOf
<1>i. i \in Nat /\ i < Last(x) /\ n > 0 /\ Last(x) \in Nat
  BY SizesOf DEF InsertN
<1>v. PICK v, a : v = Given(x, p) /\ Denotes(Memory, sequence, x, Param(p), a, v)
  BY ArgumentDenotes
<1>c. PICK c, s, g : c = ReserveForParam(Memory, x, Param(p), n) /\ s = c.s /\ g = OpenGap(s, x, i, n)
  OBVIOUS
<1>f. PICK u, from : u = Elem(g.mem, Follow(g, x, c.p, i, n)) /\ from = [k \in 0 .. (n - 1) |-> u]
  OBVIOUS
<1>z. PICK z : z = With(x, Insertion(sequence[x], i, Repeat(n, v)))
  OBVIOUS
<1>2. ThrowOr(x, Last(x) + n, FillGap(g, x, i, n, Last(x), from), z)
  BY <1>c, <1>f, <1>v, <1>z DEF InsertN
<1>3. ASSUME ~Throws(Memory, x, Last(x) + n)
      PROVE  Sound(FillGap(g, x, i, n, Last(x), from), z)
  <2>1. /\ Sound(s, sequence) /\ Grown(Memory, s, x, Size(Memory, x) + n)
        /\ Denotes(s, sequence, x, c.p, a, v)
    BY <1>1, <1>3, <1>c, <1>v, ReserveForParamIsSound
  <2>2. s.vec[x].size = Last(x) /\ s.vec[x].size + n <= s.vec[x].capacity
    BY <1>1, <2>1 DEF Grown, Size
  <2>3. PICK m : GapState(s, g, m, x, i, n)
    BY <1>c, <1>i, <2>1, <2>2, OpenGapGives
  <2>4. u = v /\ v \in Elements
    <3>1. Elem(g.mem, Follow(s, x, c.p, i, n)) = v /\ v \in Elements
      BY <1>i, <2>1, <2>2, <2>3, GapReads
    <3>2. g.vec[x].begin = s.vec[x].begin
      <4>1. IsState(s) /\ s.vec[x].size \in Nat
        BY <2>1, SoundParts
      <4> QED
        BY <2>3, <4>1, GapParts
    <3>3. Follow(g, x, c.p, i, n) = Follow(s, x, c.p, i, n)
      BY <3>2 DEF Follow, IsOwn, At
    <3> QED
      BY <1>f, <3>1, <3>3
  <2>e. PICK e \in Seq(Elements) : e = Repeat(n, v) /\ Len(e) = n /\ \A k \in 1 .. n : e[k] = v
    BY <2>4, Repetition
  <2>5. Gives(from, e)
    BY <1>f, <2>4, <2>e DEF Gives
  <2>6. Sound(FillGap(g, x, i, n, s.vec[x].size, from), [sequence EXCEPT ![x] = Insertion(sequence[x], i, e)])
    BY <1>i, <2>1, <2>2, <2>3, <2>5, <2>e, FillGapIsSound
  <2> QED
    BY <1>z, <2>2, <2>6, <2>e DEF With
<1> QED
  BY <1>2, <1>3, ThrowOrIsSound

\* insert of a range of another vector that is not at the end.
LEMMA InsertRangeIsSound ==
    ASSUME Invariant, NEW x \in Vectors, NEW i \in 0 .. Last(x), NEW y \in Vectors,
           NEW t \in 0 .. Last(y), NEW f \in 0 .. t,
           ~OwnRanges, ~EmptyRanges, InsertRange(x, i, y, f, t)
    PROVE  Invariant'
<1>1. Sound(Memory, sequence) /\ DOMAIN sequence = Vectors /\ Size(Memory, x) = Last(x)
  BY SizesOf
<1>y. sequence[y] \in Seq(Elements) /\ Len(sequence[y]) = Last(y) /\ Last(y) \in Nat
  BY SizesOf
<1>i. i \in Nat /\ i < Last(x) /\ f < t /\ Last(x) \in Nat /\ x # y
  BY SizesOf DEF InsertRange
<1>n. PICK n \in Nat : n = t - f /\ n > 0 /\ f + n = t /\ Last(x) + t - f = Last(x) + n /\ f \in Nat
  <2>1. t - f \in Nat /\ t - f > 0 /\ f + (t - f) = t /\ Last(x) + t - f = Last(x) + (t - f) /\ f \in Nat
    BY <1>i, <1>y
  <2> QED
    BY <2>1
<1>c. PICK s, g : s = Reserve(Memory, x, Last(x) + n) /\ g = OpenGap(s, x, i, n)
  OBVIOUS
<1>f. PICK from : from = [k \in 0 .. (n - 1) |-> Elem(g.mem, At(g, y, f + k))]
  OBVIOUS
<1>z. PICK z : z = With(x, Insertion(sequence[x], i, SubSeq(sequence[y], f + 1, t)))
  OBVIOUS
<1>2. ThrowOr(x, Last(x) + n, FillGap(g, x, i, n, Last(x), from), z)
  BY <1>c, <1>f, <1>n, <1>z DEF InsertRange
<1>3. ASSUME ~Throws(Memory, x, Last(x) + n)
      PROVE  Sound(FillGap(g, x, i, n, Last(x), from), z)
  <2>k. PICK total \in Nat : total = Last(x) + n
    BY <1>i
  <2>1. Sound(s, sequence) /\ Grown(Memory, s, x, total)
    BY <1>1, <1>3, <1>c, <2>k, ReserveIsSound
  <2>2. s.vec[x].size = Last(x) /\ s.vec[x].size + n <= s.vec[x].capacity
    BY <1>1, <2>1, <2>k DEF Grown, Size
  <2>3. PICK m : GapState(s, g, m, x, i, n)
    BY <1>c, <1>i, <1>n, <2>1, <2>2, OpenGapGives
  <2>4. f + n <= Len(sequence[y])
    BY <1>n, <1>y
  <2>5. /\ Slice(sequence[y], f, n) \in Seq(Elements)
        /\ Len(Slice(sequence[y], f, n)) = n
        /\ \A k \in 1 .. n : Slice(sequence[y], f, n)[k] = sequence[y][f + k]
    BY <1>n, <1>y, <2>4, SliceShape
  <2>e. PICK e \in Seq(Elements) : e = Slice(sequence[y], f, n) /\ Len(e) = n /\ \A k \in 1 .. n : e[k] = sequence[y][f + k]
    BY <2>5
  <2>6. Gives(from, e)
    <3>1. ASSUME NEW k \in 0 .. (n - 1)
          PROVE  from[k] = e[k + 1]
      <4>1. k + 1 \in 1 .. n /\ f + (k + 1) = f + k + 1
        BY <1>n
      <4>2. Elem(g.mem, At(g, y, f + k)) = Elem(s.mem, At(s, y, f + k))
        BY <1>i, <2>1, <2>3, GapLeavesOthers
      <4>d. PICK a, v : a = f + k /\ v = sequence[y][f + k + 1]
        OBVIOUS
      <4>3. Denotes(s, sequence, y, At(s, y, a), a, v)
        <5>1. a \in 0 .. (Len(sequence[y]) - 1) /\ a # -1 /\ v = sequence[y][a + 1]
          BY <1>n, <1>y, <2>4, <4>d
        <5> QED
          BY <5>1 DEF Denotes
      <4>4. Elem(s.mem, At(s, y, a)) = v
        BY <2>1, <4>3, ElemGives
      <4> QED
        BY <1>f, <2>e, <4>1, <4>2, <4>4, <4>d
    <3> QED
      BY <2>e, <3>1 DEF Gives
  <2>7. Sound(FillGap(g, x, i, n, s.vec[x].size, from), [sequence EXCEPT ![x] = Insertion(sequence[x], i, e)])
    <3>1. i \in Nat /\ i < s.vec[x].size /\ n > 0
      BY <1>i, <1>n, <2>2
    <3>2. Sound(s, sequence) /\ Len(e) = n
      BY <2>1, <2>e
    <3> QED
      BY <2>2, <2>3, <2>6, <3>1, <3>2, FillGapIsSound
  <2>8. e = SubSeq(sequence[y], f + 1, t)
    BY <1>n, <2>e DEF Slice
  <2> QED
    BY <1>z, <2>2, <2>7, <2>8 DEF With
<1> QED
  BY <1>2, <1>3, ThrowOrIsSound

-----------------------------------------------------------------------------
(* Swapping.                                                               *)

\* val holds the first n elements of r.
FirstGives(val, r, z, n) ==
    /\ Slice(r, z, n) \in Seq(Elements) /\ Len(Slice(r, z, n)) = n
    /\ Gives(val, Slice(r, z, n))

\* The values of the first n elements.
LEMMA FirstElements ==
    ASSUME NEW s, NEW q, Sound(s, q), NEW x \in Vectors, NEW n \in Nat, n <= Len(q[x]),
           NEW z \in Nat, z = 0, NEW val, val = [k \in 0 .. (n - 1) |-> Elem(s.mem, At(s, x, k))]
    PROVE  FirstGives(val, q[x], z, n)
<1>1. q[x] \in Seq(Elements) /\ Len(q[x]) \in Nat
  BY SoundParts
<1>2. PICK e \in Seq(Elements) : e = Slice(q[x], z, n) /\ Len(e) = n /\ \A k \in 1 .. n : e[k] = q[x][z + k]
  <2>1. z + n <= Len(q[x])
    OBVIOUS
  <2> QED
    BY <1>1, <2>1, SliceShape
<1>3. ASSUME NEW k \in 0 .. (n - 1)
      PROVE  val[k] = e[k + 1]
  <2>1. k \in 0 .. (Len(q[x]) - 1) /\ k # -1 /\ k + 1 \in 1 .. n /\ z + (k + 1) = k + 1
    BY <1>1
  <2>2. PICK v : v = q[x][k + 1]
    OBVIOUS
  <2>3. Denotes(s, q, x, At(s, x, k), k, v)
    BY <2>1, <2>2 DEF Denotes
  <2>4. Elem(s.mem, At(s, x, k)) = v
    BY <2>3, ElemGives
  <2> QED
    BY <1>2, <2>1, <2>2, <2>4
<1>4. Gives(val, e)
  BY <1>2, <1>3 DEF Gives
<1> QED
  BY <1>2, <1>4 DEF FirstGives

\* The state t after the first n elements of x and y were swapped.
Shared(s, q, t, x, y, n, z) ==
    /\ t.vec = s.vec
    /\ Sound(t, [q EXCEPT ![x] = Over(q[x], z, Slice(q[y], z, n)),
                          ![y] = Over(q[y], z, Slice(q[x], z, n))])

\* swap_ranges on the elements both vectors have.
LEMMA SwapCellsIsSound ==
    ASSUME NEW s, NEW q, Sound(s, q), NEW x \in Vectors, NEW y \in Vectors, x # y,
           NEW n \in Nat, n <= Len(q[x]), n <= Len(q[y]), NEW z \in Nat, z = 0
    PROVE  Shared(s, q, SwapCells(s, x, y, n), x, y, n, z)
<1>v. PICK a, b : /\ a = [k \in 0 .. (n - 1) |-> Elem(s.mem, At(s, y, k))]
                  /\ b = [k \in 0 .. (n - 1) |-> Elem(s.mem, At(s, x, k))]
  OBVIOUS
<1>e. PICK e \in Seq(Elements) : e = Slice(q[y], z, n) /\ Len(e) = n /\ Gives(a, e)
  <2>1. FirstGives(a, q[y], z, n)
    BY <1>v, FirstElements
  <2> QED
    BY <2>1 DEF FirstGives
<1>f. PICK f \in Seq(Elements) : f = Slice(q[x], z, n) /\ Len(f) = n /\ Gives(b, f)
  <2>1. FirstGives(b, q[x], z, n)
    BY <1>v, FirstElements
  <2> QED
    BY <2>1 DEF FirstGives
<1>1. IsState(s) /\ DOMAIN q = Vectors
  BY DEF Sound
<1>m. PICK m, w : /\ m = Write(s.mem, At(s, x, z), n, a, Assign)
                  /\ w = Write(m, At(s, y, z), n, b, Assign)
  OBVIOUS
<1>u. PICK u, g : u = SetMem(s, m) /\ g = [q EXCEPT ![x] = Over(q[x], z, e)]
  OBVIOUS
<1>2. Sound(u, g)
  <2>1. z + Len(e) <= Len(q[x])
    BY <1>e
  <2>2. Sound(SetMem(s, Write(s.mem, At(s, x, z), Len(e), a, Assign)), [q EXCEPT ![x] = Over(q[x], z, e)])
    BY <1>e, <2>1, WriteOverIsSound
  <2> QED
    BY <1>e, <1>m, <1>u, <2>2
<1>3. IsState(u) /\ u.mem = m /\ u.vec = s.vec
  BY <1>1, <1>u, SetMemGives
<1>4. g[y] = q[y]
  BY <1>1, <1>u
<1>5. Sound(SetMem(u, w), [g EXCEPT ![y] = Over(g[y], z, f)])
  <2>1. z + Len(f) <= Len(g[y])
    BY <1>4, <1>f
  <2>2. Sound(SetMem(u, Write(u.mem, At(u, y, z), Len(f), b, Assign)), [g EXCEPT ![y] = Over(g[y], z, f)])
    BY <1>2, <1>f, <2>1, WriteOverIsSound
  <2>3. At(u, y, z) = At(s, y, z)
    BY <1>3 DEF At
  <2> QED
    BY <1>3, <1>f, <1>m, <2>2, <2>3
<1>6. SwapCells(s, x, y, n) = SetMem(u, w) /\ SetMem(u, w).vec = s.vec
  <2>1. SetMem(SetMem(s, m), w) = SetMem(s, w)
    <3>1. SetMem(s, m) = [mem |-> m, vec |-> s.vec] /\ SetMem(s, w) = [mem |-> w, vec |-> s.vec]
      BY <1>1, SetMemGives
    <3>2. SetMem([mem |-> m, vec |-> s.vec], w) = [mem |-> w, vec |-> s.vec]
      BY DEF SetMem
    <3> QED
      BY <3>1, <3>2
  <2>2. SwapCells(s, x, y, n) = SetMem(s, w)
    BY <1>m, <1>v DEF SwapCells
  <2>3. SetMem(s, w).vec = s.vec
    BY <1>1, SetMemGives
  <2> QED
    BY <1>u, <2>1, <2>2, <2>3
<1>7. [g EXCEPT ![y] = Over(g[y], z, f)]
        = [q EXCEPT ![x] = Over(q[x], z, Slice(q[y], z, n)), ![y] = Over(q[y], z, Slice(q[x], z, n))]
  BY <1>1, <1>4, <1>e, <1>f, <1>u
<1> QED
  BY <1>5, <1>6, <1>7 DEF Shared

\* What the exchange of the first n elements makes of a and b, where b has no more.
Exchanged(a, b, n, d, t, c) ==
    /\ t \in Seq(Elements) /\ Len(t) = Len(a) /\ Len(c) = n
    /\ Joined(a, c, Slice(t, n, d))
    /\ SubSeq(t, 1, n) = b

\* The exchange of the first n elements gives that.
LEMMA ExchangeGives ==
    ASSUME NEW a \in Seq(Elements), NEW b \in Seq(Elements), NEW n \in Nat, Len(b) = n,
           NEW d \in Nat, n + d = Len(a), NEW z \in Nat, z = 0
    PROVE  Exchanged(a, b, n, d, Over(a, z, Slice(b, z, n)), Over(b, z, Slice(a, z, n)))
<1>l. Len(a) \in Nat /\ n <= Len(a) /\ z + n <= Len(a) /\ z + n <= Len(b)
  OBVIOUS
<1>1. PICK e \in Seq(Elements) : e = Slice(b, z, n) /\ Len(e) = n
  BY <1>l, SliceShape
<1>2. PICK c \in Seq(Elements) : c = Slice(a, z, n) /\ Len(c) = n
  BY <1>l, SliceShape
<1>3. e = b
  <2>1. Slice(b, 0, Len(b)) = b
    BY WholeSlice
  <2> QED
    BY <1>1, <2>1
<1>4. Over(b, z, c) = c
  <2>1. Len(c) <= Len(b) /\ Len(c) = Len(b)
    BY <1>2
  <2>2. /\ SubSeq(Over(b, z, c), 1, Len(c)) = c
        /\ Len(c) = Len(b) => Over(b, z, c) = c
        /\ Len(Over(b, z, c)) = Len(b)
    BY <2>1, OverPrefix
  <2> QED
    BY <2>1, <2>2
<1>t. PICK t \in Seq(Elements) :
        /\ t = Over(a, z, e) /\ Len(t) = Len(a)
        /\ \A k \in 1 .. Len(a) : t[k] = IF k \in (z + 1) .. (z + Len(e)) THEN e[k - z] ELSE a[k]
  BY OverShape
<1>6. Slice(t, n, d) = Slice(a, n, d)
  <2>1. \A k \in (n + 1) .. (n + d) : k \in 1 .. Len(a) /\ k \notin (z + 1) .. (z + n)
    OBVIOUS
  <2>2. \A k \in (n + 1) .. (n + d) : t[k] = a[k]
    BY <1>1, <1>t, <2>1
  <2>3. n + d <= Len(a)
    BY <1>l
  <2> QED
    BY <1>t, <2>2, <2>3, SliceBehind
<1>7. Joined(a, c, Slice(t, n, d))
  <2>1. Joined(a, Slice(a, z, n), Slice(a, n, d))
    BY SlicesJoin
  <2> QED
    BY <1>2, <1>6, <2>1
<1>12. SubSeq(t, 1, n) = b
  <2>1. Len(e) <= Len(a)
    BY <1>1, <1>l
  <2>2. /\ SubSeq(Over(a, z, e), 1, Len(e)) = e
        /\ Len(e) = Len(a) => Over(a, z, e) = e
        /\ Len(Over(a, z, e)) = Len(a)
    BY <2>1, OverPrefix
  <2> QED
    BY <1>1, <1>3, <1>t, <2>2
<1> QED
  BY <1>1, <1>2, <1>4, <1>7, <1>12, <1>t DEF Exchanged

\* The sequences with those of x and y exchanged.
Swapped(q, x, y) == [q EXCEPT ![x] = q[y], ![y] = q[x]]

\* The elements of x above the first n go to the end of y.
LEMMA GiveRestIsSound ==
    ASSUME NEW s, NEW q, NEW x \in Vectors, NEW y \in Vectors, x # y,
           NEW a \in Seq(Elements), NEW b \in Seq(Elements),
           NEW n \in Nat, NEW d \in Nat, NEW f, Sound(s, f),
           Exchanged(a, b, n, d, f[x], f[y]),
           NEW l \in Nat, l = Len(a), n + d = l, l <= s.vec[y].capacity
    PROVE  Sound(GiveRest(s, x, y, n), [f EXCEPT ![x] = b, ![y] = a])
<1>1. f[x] \in Seq(Elements) /\ Len(f[x]) = l /\ Len(f[y]) = n
  BY DEF Exchanged
<1>2. f[y] \o Slice(f[x], n, d) = a
  BY DEF Exchanged, Joined
<1>3. SubSeq(f[x], 1, n) = b
  BY DEF Exchanged
<1>c. PICK copying \in BOOLEAN : copying = FALSE
  OBVIOUS
<1>4. DOMAIN f = Vectors /\ IsState(s)
  BY DEF Sound
<1>5. Len(f[y]) = s.vec[y].size /\ Len(f[x]) = s.vec[x].size /\ s.vec[y].capacity \in Nat
  BY SoundParts
<1>8. s.vec[y].size = n /\ s.vec[x].size = l
  BY <1>1, <1>5
<1>m. PICK m, u : /\ m = Transfer(s.mem, At(s, x, n), d, EndOf(s, y), copying, Construct)
                  /\ u = SetSize(SetMem(s, m), y, s.vec[y].size + d)
  OBVIOUS
<1>g. PICK g : g = [f EXCEPT ![y] = a]
  OBVIOUS
<1>9. Sound(u, g)
  <2>1. n + d <= Len(f[x]) /\ s.vec[y].size + d <= s.vec[y].capacity
    BY <1>1, <1>8
  <2>c. copying => y # x \/ d > 0
    BY <1>c
  <2>2. Sound(SetSize(SetMem(s, Transfer(s.mem, At(s, x, n), d, EndOf(s, y), copying, Construct)),
                      y, s.vec[y].size + d),
              [Taken(f, x, n, d, copying) EXCEPT
                    ![y] = Taken(f, x, n, d, copying)[y] \o Slice(f[x], n, d)])
    BY <2>1, <2>c, TransferEndIsSound
  <2>3. Taken(f, x, n, d, copying) = f
    BY <1>c DEF Taken
  <2> QED
    BY <1>2, <1>g, <1>m, <2>2, <2>3
<1>10. g[x] = f[x] /\ n \in 0 .. Len(g[x]) /\ n \in 0 .. Len(f[x])
  <2>1. g[x] = f[x]
    BY <1>4, <1>g
  <2>2. n \in 0 .. l
    OBVIOUS
  <2> QED
    BY <1>1, <2>1, <2>2
<1>11. Sound(DestroyFrom(u, x, n), [g EXCEPT ![x] = SubSeq(g[x], 1, n)])
  BY <1>9, <1>10, DestroyFromIsSound
<1>13. [g EXCEPT ![x] = SubSeq(g[x], 1, n)] = [f EXCEPT ![x] = b, ![y] = a]
  BY <1>3, <1>10, <1>g
<1>14. GiveRest(s, x, y, n) = DestroyFrom(u, x, n)
  <2>1. Size(s, x) - n = d
    <3>1. l - n = d
      OBVIOUS
    <3> QED
      BY <1>8, <3>1 DEF Size
  <2> QED
    BY <1>c, <1>m, <2>1 DEF GiveRest, Size
<1> QED
  BY <1>11, <1>13, <1>14

\* The headers of x and y, both on the heap, were exchanged.
ExchangedHeaders(s, t, x, y) ==
    /\ IsState(t) /\ t.mem = s.mem /\ Others(s, t, x, y)
    /\ t.vec[x] = s.vec[y] /\ t.vec[y] = s.vec[x]

\* A vector may begin where another one on the heap did.
LEMMA PlacedElsewhere ==
    ASSUME NEW s, NEW q, Sound(s, q), NEW x \in Vectors, NEW y \in Vectors,
           s.vec[x].begin # InlineBuffer(x), s.vec[y].begin # InlineBuffer(y),
           NEW t, ExchangedHeaders(s, t, x, y)
    PROVE  VectorHolds(t, x, q[y])
<1>1. VectorHolds(s, x, q[x]) /\ VectorHolds(s, y, q[y])
  BY DEF Sound
<1>2. HoldsCells(s.mem, InlineBuffer(x), <<>>)
  BY <1>1 DEF VectorHolds, Placed
<1>3. Placed(s.mem, x, s.vec[y])
  BY <1>1, <1>2 DEF VectorHolds, Placed
<1> QED
  BY <1>1, <1>3 DEF VectorHolds, ExchangedHeaders

\* Two vectors on the heap exchange their headers.
LEMMA ExchangedHeadersAreSound ==
    ASSUME NEW s, NEW q, Sound(s, q), NEW x \in Vectors, NEW y \in Vectors, x # y,
           s.vec[x].begin # InlineBuffer(x), s.vec[y].begin # InlineBuffer(y),
           NEW t, ExchangedHeaders(s, t, x, y)
    PROVE  Sound(t, Swapped(q, x, y))
<1>1. VectorHolds(t, x, q[y])
  BY PlacedElsewhere
<1>2. VectorHolds(t, y, q[x])
  <2>1. ExchangedHeaders(s, t, y, x)
    BY DEF ExchangedHeaders, Others
  <2> QED
    BY <2>1, PlacedElsewhere
<1>3. /\ IsState(t) /\ t.mem = s.mem /\ Others(s, t, x, y)
      /\ t.vec[x] = s.vec[y] /\ t.vec[y] = s.vec[x]
  BY DEF ExchangedHeaders
<1>4. BlocksApart(s)
  BY DEF Sound
<1>5. PICK other : other = [z \in Vectors |-> IF z = x THEN y ELSE IF z = y THEN x ELSE z]
  OBVIOUS
<1>6. ASSUME NEW z \in Vectors
      PROVE  other[z] \in Vectors /\ t.vec[z] = s.vec[other[z]] /\ other[other[z]] = z
  BY <1>3, <1>5 DEF Others
<1>7. BlocksApart(t)
  <2>1. ASSUME NEW z \in Vectors, NEW w \in Vectors, t.vec[z].begin = t.vec[w].begin
        PROVE  z = w
    <3>1. other[z] = other[w]
      BY <1>4, <1>6, <2>1 DEF BlocksApart
    <3> QED
      BY <1>6, <3>1
  <2>2. ASSUME NEW c \in Blocks, \A z \in Vectors : t.vec[z].begin # c
        PROVE  t.mem[c] = <<>>
    <3>1. ASSUME NEW z \in Vectors
          PROVE  s.vec[z].begin # c
      <4>1. t.vec[other[z]] = s.vec[z] /\ other[z] \in Vectors
        BY <1>6
      <4> QED
        BY <2>2, <4>1
    <3> QED
      BY <1>3, <1>4, <3>1 DEF BlocksApart
  <2> QED
    BY <2>1, <2>2 DEF BlocksApart
<1> QED
  BY <1>1, <1>2, <1>3, <1>7, HeadersAreSound DEF Swapped

\* The element-wise swap does not care in which order the two are named.
LEMMA SharedBothWays ==
    ASSUME NEW s, NEW q, NEW t, NEW x \in Vectors, NEW y \in Vectors, x # y, NEW n, NEW z,
           Shared(s, q, t, x, y, n, z)
    PROVE  Shared(s, q, t, y, x, n, z)
<1>1. PICK a, b : a = Over(q[x], z, Slice(q[y], z, n)) /\ b = Over(q[y], z, Slice(q[x], z, n))
  OBVIOUS
<1>2. [q EXCEPT ![x] = a, ![y] = b] = [q EXCEPT ![y] = b, ![x] = a]
  OBVIOUS
<1> QED
  BY <1>1, <1>2 DEF Shared

\* The longer of two vectors gives its rest to the shorter one.
LEMMA RestChangesHands ==
    ASSUME NEW s, NEW q, Sound(s, q), NEW x \in Vectors, NEW y \in Vectors, x # y,
           NEW n \in Nat, n = Len(q[y]), n <= Len(q[x]), Len(q[x]) <= s.vec[y].capacity,
           NEW z \in Nat, z = 0, NEW t, Shared(s, q, t, x, y, n, z)
    PROVE  Sound(GiveRest(t, x, y, n), Swapped(q, x, y))
<1>1. q[x] \in Seq(Elements) /\ q[y] \in Seq(Elements) /\ DOMAIN q = Vectors
  BY SoundParts DEF Sound
<1>2. PICK l \in Nat, d \in Nat : l = Len(q[x]) /\ n + d = l
  <2>1. Len(q[x]) \in Nat
    BY <1>1
  <2>2. PICK l \in Nat : l = Len(q[x])
    BY <2>1
  <2>3. l - n \in Nat /\ n + (l - n) = l
    BY <2>2
  <2> QED
    BY <2>2, <2>3
<1>3. PICK f : f = [q EXCEPT ![x] = Over(q[x], z, Slice(q[y], z, n)),
                            ![y] = Over(q[y], z, Slice(q[x], z, n))]
  OBVIOUS
<1>4. Sound(t, f) /\ t.vec = s.vec
  BY <1>3 DEF Shared
<1>5. f[x] = Over(q[x], z, Slice(q[y], z, n)) /\ f[y] = Over(q[y], z, Slice(q[x], z, n))
  BY <1>1, <1>3
<1>6. Exchanged(q[x], q[y], n, d, f[x], f[y])
  <2>1. Len(q[y]) = n /\ n + d = Len(q[x])
    BY <1>2
  <2>2. Exchanged(q[x], q[y], n, d, Over(q[x], z, Slice(q[y], z, n)), Over(q[y], z, Slice(q[x], z, n)))
    BY <1>1, <2>1, ExchangeGives
  <2> QED
    BY <1>5, <2>2
<1>7. l <= t.vec[y].capacity
  BY <1>2, <1>4
<1>8. Sound(GiveRest(t, x, y, n), [f EXCEPT ![x] = q[y], ![y] = q[x]])
  BY <1>1, <1>2, <1>4, <1>6, <1>7, GiveRestIsSound
<1>9. [f EXCEPT ![x] = q[y], ![y] = q[x]] = Swapped(q, x, y)
  BY <1>3 DEF Swapped
<1> QED
  BY <1>8, <1>9

\* swap makes room in both vectors.
BothHaveRoom(s, q, x, y) ==
    Sound(s, q) /\ Len(q[y]) <= s.vec[x].capacity /\ Len(q[x]) <= s.vec[y].capacity

\* The two calls of reserve in swap leave room for either's elements.
LEMMA BothGetRoom ==
    ASSUME NEW s, NEW q, Sound(s, q), NEW x \in Vectors, NEW y \in Vectors, x # y,
           NEW a \in Nat, a = Len(q[x]), NEW b \in Nat, b = Len(q[y])
    PROVE  BothHaveRoom(Reserve(Reserve(s, x, b), y, a), q, x, y)
<1>1. a <= SizeTypeMax /\ b <= SizeTypeMax
  BY SoundParts
<1>2. ASSUME NEW u, Sound(u, q), NEW v \in Vectors, NEW n \in Nat, n <= SizeTypeMax
      PROVE  ~Throws(u, v, n)
  <2>1. u.vec[v].capacity \in Nat /\ SizeTypeMax \in Nat
    BY <1>2, SoundParts
  <2> QED
    BY <1>2, <2>1 DEF Throws, Capacity
<1>u. PICK u : u = Reserve(s, x, b)
  OBVIOUS
<1>3. ~Throws(s, x, b)
  BY <1>1, <1>2
<1>4. Sound(u, q) /\ Grown(s, u, x, b)
  BY <1>3, <1>u, ReserveIsSound
<1>w. PICK w : w = Reserve(u, y, a)
  OBVIOUS
<1>5. ~Throws(u, y, a)
  BY <1>1, <1>2, <1>4
<1>6. Sound(w, q) /\ Grown(u, w, y, a)
  BY <1>4, <1>5, <1>w, ReserveIsSound
<1> QED
  BY <1>4, <1>6, <1>u, <1>w DEF BothHaveRoom, Grown

\* swap, when the elements do not all lie on the heap.
LEMMA SwapElementsIsSound ==
    ASSUME NEW s, NEW q, NEW x \in Vectors, NEW y \in Vectors, x # y, BothHaveRoom(s, q, x, y),
           NEW a \in Nat, a = Len(q[x]), NEW b \in Nat, b = Len(q[y]),
           NEW n \in Nat, n = (IF a < b THEN a ELSE b)
    PROVE  Sound(IF a > n THEN GiveRest(SwapCells(s, x, y, n), x, y, n)
                          ELSE GiveRest(SwapCells(s, x, y, n), y, x, n),
                 Swapped(q, x, y))
<1>1. Sound(s, q) /\ b <= s.vec[x].capacity /\ a <= s.vec[y].capacity
  BY DEF BothHaveRoom
<1>z. PICK z \in Nat : z = 0
  OBVIOUS
<1>t. PICK t : t = SwapCells(s, x, y, n)
  OBVIOUS
<1>2. n <= a /\ n <= b
  OBVIOUS
<1>3. Shared(s, q, t, x, y, n, z)
  <2>1. n <= Len(q[x]) /\ n <= Len(q[y])
    BY <1>2
  <2> QED
    BY <1>1, <1>t, <1>z, <2>1, SwapCellsIsSound
<1>4. CASE a > n
  <2>1. n = Len(q[y]) /\ n <= Len(q[x]) /\ Len(q[x]) <= s.vec[y].capacity
    BY <1>1, <1>2, <1>4
  <2>2. Sound(GiveRest(t, x, y, n), Swapped(q, x, y))
    BY <1>1, <1>3, <1>z, <2>1, RestChangesHands
  <2> QED
    BY <1>4, <1>t, <2>2
<1>5. CASE ~(a > n)
  <2>1. n = Len(q[x]) /\ n <= Len(q[y]) /\ Len(q[y]) <= s.vec[x].capacity
    BY <1>1, <1>2, <1>5
  <2>2. Shared(s, q, t, y, x, n, z)
    BY <1>3, SharedBothWays
  <2>3. Sound(GiveRest(t, y, x, n), Swapped(q, y, x))
    BY <1>1, <1>z, <2>1, <2>2, RestChangesHands
  <2>4. Swapped(q, y, x) = Swapped(q, x, y)
    BY DEF Swapped
  <2> QED
    BY <1>5, <1>t, <2>3, <2>4
<1> QED
  BY <1>4, <1>5

\* swap.
LEMMA SwapIsSound ==
    ASSUME Invariant, NEW x \in Vectors, NEW y \in Vectors, Swap(x, y)
    PROVE  Invariant'
<1>1. /\ Sound(Memory, sequence) /\ DOMAIN sequence = Vectors /\ IsState(Memory)
      /\ Memory.vec = vec /\ Memory.mem = mem
  BY SizesOf, SoundParts
<1>2. x # y
  BY DEF Swap
<1>p. PICK p : p = [sequence EXCEPT ![x] = sequence[y], ![y] = sequence[x]]
  OBVIOUS
<1>3. p = Swapped(sequence, x, y)
  BY <1>p DEF Swapped
<1>4. CASE ~IsSmall(Memory, x) /\ ~IsSmall(Memory, y)
  <2>t. PICK t : t = [Memory EXCEPT !.vec[x] = vec[y], !.vec[y] = vec[x]]
    OBVIOUS
  <2>1. Return(t, p)
    BY <1>4, <1>p, <2>t DEF Swap
  <2>2. ExchangedHeaders(Memory, t, x, y)
    <3>1. vec \in [Vectors -> Headers]
      BY <1>1 DEF IsState
    <3>2. t = [mem |-> mem, vec |-> [vec EXCEPT ![x] = vec[y], ![y] = vec[x]]]
      BY <2>t DEF Memory
    <3>3. t.vec = [vec EXCEPT ![x] = vec[y], ![y] = vec[x]] /\ t.mem = mem
      BY <3>2
    <3>4. IsState(t)
      BY <3>1, <3>2 DEF IsState
    <3>5. t.vec[x] = vec[y] /\ t.vec[y] = vec[x] /\ \A z \in Vectors : z # x /\ z # y => t.vec[z] = vec[z]
      BY <1>2, <3>1, <3>3
    <3> QED
      BY <1>1, <3>3, <3>4, <3>5 DEF ExchangedHeaders, Others
  <2>3. Sound(t, Swapped(sequence, x, y))
    BY <1>1, <1>2, <1>4, <2>2, ExchangedHeadersAreSound DEF IsSmall
  <2> QED
    BY <1>3, <2>1, <2>3, ReturnIsSound
<1>5. CASE ~(~IsSmall(Memory, x) /\ ~IsSmall(Memory, y))
  <2>1. PICK a \in Nat, b \in Nat : a = Last(x) /\ a = Len(sequence[x]) /\ b = Last(y) /\ b = Len(sequence[y])
    BY SizesOf
  <2>s. PICK s : s = Reserve(Reserve(Memory, x, b), y, a)
    OBVIOUS
  <2>2. BothHaveRoom(s, sequence, x, y)
    BY <1>1, <1>2, <2>1, <2>s, BothGetRoom
  <2>n. PICK n \in Nat : n = (IF a < b THEN a ELSE b)
    OBVIOUS
  <2>r. PICK r : r = IF a > n THEN GiveRest(SwapCells(s, x, y, n), x, y, n)
                              ELSE GiveRest(SwapCells(s, x, y, n), y, x, n)
    OBVIOUS
  <2>3. Sound(r, Swapped(sequence, x, y))
    BY <1>2, <2>1, <2>2, <2>n, <2>r, SwapElementsIsSound
  <2>4. Return(r, p)
    BY <1>5, <1>p, <2>1, <2>n, <2>r, <2>s DEF Swap
  <2> QED
    BY <1>3, <2>3, <2>4, ReturnIsSound
<1> QED
  BY <1>4, <1>5

-----------------------------------------------------------------------------
(* All steps.                                                              *)

\* The vectors start empty and small.
LEMMA InitIsSound ==
    ASSUME Init
    PROVE  Invariant
<1>1. /\ vec = [x \in Vectors |-> [begin |-> InlineBuffer(x), size |-> 0, capacity |-> Inline]]
      /\ mem = [b \in Buffers |->
                  IF b \in Blocks THEN <<>> ELSE [k \in 0..(Inline - 1) |-> Raw]]
      /\ sequence = [x \in Vectors |-> <<>>]
  BY DEF Init
<1>2. Inline \in Nat /\ Inline > 0 /\ Inline <= SizeTypeMax /\ SizeTypeMax \in Nat
  BY SizesAssumption
<1>3. \A x \in Vectors : InlineBuffer(x) \in Buffers /\ InlineBuffer(x) \notin Blocks
  BY HeapAssumption DEF Buffers
<1>4. IsState(Memory) /\ Memory.mem = mem /\ Memory.vec = vec
  BY <1>1, <1>2, <1>3 DEF IsState, Memory, Headers
<1>5. \A x \in Vectors : mem[InlineBuffer(x)] = [k \in 0..(Inline - 1) |-> Raw]
  BY <1>1, <1>3
<1>6. \A b \in Blocks : mem[b] = <<>> /\ b \in Buffers
  BY <1>1 DEF Buffers
<1>7. DOMAIN <<>> = 0 .. (0 - 1) /\ Len(<<>>) = 0 /\ <<>> \in Seq(Elements)
  OBVIOUS
<1>8. MemoryOK(mem)
  <2>1. ASSUME NEW b \in Buffers
        PROVE  \E n \in Nat : DOMAIN mem[b] = 0 .. (n - 1)
    <3>1. CASE b \in Blocks
      BY <1>6, <1>7, <3>1
    <3>2. CASE b \notin Blocks
      BY <1>1, <1>2, <3>2
    <3> QED
      BY <3>1, <3>2
  <2> QED
    BY <1>1, <1>5, <2>1 DEF MemoryOK
<1>9. BlocksApart(Memory)
  <2>1. \A x \in Vectors : vec[x].begin = InlineBuffer(x)
    BY <1>1
  <2> QED
    BY <1>4, <1>6, <2>1 DEF BlocksApart, InlineBuffer
<1>10. ASSUME NEW x \in Vectors
       PROVE  VectorHolds(Memory, x, sequence[x])
  <2>1. vec[x].begin = InlineBuffer(x) /\ vec[x].size = 0 /\ vec[x].capacity = Inline
    BY <1>1
  <2>2. sequence[x] = <<>>
    BY <1>1
  <2>3. HoldsCells(mem, InlineBuffer(x), <<>>)
    <3>1. ASSUME NEW k \in DOMAIN mem[InlineBuffer(x)]
          PROVE  mem[InlineBuffer(x)][k] = Raw /\ ~(k < Len(<<>>))
      BY <1>2, <1>5, <1>7
    <3> QED
      BY <3>1 DEF HoldsCells
  <2>4. Placed(mem, x, vec[x])
    BY <1>2, <2>1 DEF Placed
  <2> QED
    BY <1>4, <1>7, <2>1, <2>2, <2>3, <2>4 DEF VectorHolds
<1>11. sequence = [x \in Vectors |-> sequence[x]]
  BY <1>1
<1> QED
  BY <1>4, <1>8, <1>9, <1>10, <1>11 DEF Invariant, Sound

\* Counts are numbers.
LEMMA CountsAreNumbers == Counts \subseteq Nat
<1>1. SizeTypeMax \in Nat
  BY SizesAssumption
<1> QED
  BY <1>1 DEF Counts

\* Every call that adds at the end keeps the vectors sound.
LEMMA AddIsSound ==
    ASSUME Invariant, NEW x \in Vectors, Add(x)
    PROVE  Invariant'
<1>1. PICK p \in Arguments(x) :
        \/ \E rvalue \in BOOLEAN : PushBack(x, p, rvalue)
        \/ EmplaceBack(x, p)
        \/ \E n \in Counts : AppendN(x, n, p)
  BY DEF Add
<1>2. CASE \E rvalue \in BOOLEAN : PushBack(x, p, rvalue)
  BY <1>2, PushBackIsSound
<1>3. CASE EmplaceBack(x, p)
  BY <1>3, EmplaceBackIsSound
<1>4. CASE \E n \in Counts : AppendN(x, n, p)
  BY <1>4, AppendNIsSound, CountsAreNumbers
<1> QED
  BY <1>1, <1>2, <1>3, <1>4

\* So does every call on the size, the capacity or the whole contents,
LEMMA SetSizeOrContentsIsSound ==
    ASSUME Invariant, NEW x \in Vectors, SetSizeOrContents(x)
    PROVE  Invariant'
<1>1. PICK n \in Counts :
        \/ ReserveCapacity(x, n)
        \/ Truncate(x, n)
        \/ ResizeDefault(x, n)
        \/ \E p \in Arguments(x) : Resize(x, n, p) \/ AssignN(x, n, p)
        \/ \E v \in Values : AssignList(x, n, v)
  BY DEF SetSizeOrContents
<1>n. n \in Nat
  BY CountsAreNumbers
<1>2. CASE ReserveCapacity(x, n)
  BY <1>n, <1>2, ReserveCapacityIsSound
<1>3. CASE Truncate(x, n)
  BY <1>n, <1>3, TruncateIsSound
<1>4. CASE ResizeDefault(x, n)
  BY <1>n, <1>4, ResizeDefaultIsSound
<1>5. ASSUME NEW p \in Arguments(x), Resize(x, n, p) \/ AssignN(x, n, p)
      PROVE  Invariant'
  <2>1. CASE Resize(x, n, p)
    BY <1>n, <2>1, ResizeIsSound
  <2>2. CASE AssignN(x, n, p)
    BY <1>n, <2>2, AssignNIsSound
  <2> QED
    BY <1>5, <2>1, <2>2
<1>6. CASE \E v \in Values : AssignList(x, n, v)
  BY <1>n, <1>6, AssignListIsSound
<1> QED
  BY <1>1, <1>2, <1>3, <1>4, <1>5, <1>6

\* every insertion,
LEMMA InsertIsSound ==
    ASSUME Invariant, NEW x \in Vectors, Insert(x), ~OwnRanges, ~EmptyRanges
    PROVE  Invariant'
<1>1. PICK i \in 0 .. Last(x) :
        \/ \E p \in Arguments(x), rvalue \in BOOLEAN : InsertOne(x, i, p, rvalue)
        \/ \E p \in Arguments(x), n \in Counts : InsertN(x, i, n, p)
        \/ \E y \in Vectors : \E t \in 0..Last(y) : \E f \in 0..t : InsertRange(x, i, y, f, t)
  BY DEF Insert
<1>2. CASE \E p \in Arguments(x), rvalue \in BOOLEAN : InsertOne(x, i, p, rvalue)
  BY <1>2, InsertOneIsSound
<1>3. CASE \E p \in Arguments(x), n \in Counts : InsertN(x, i, n, p)
  BY <1>3, InsertNIsSound, CountsAreNumbers
<1>4. CASE \E y \in Vectors : \E t \in 0..Last(y) : \E f \in 0..t : InsertRange(x, i, y, f, t)
  BY <1>4, InsertRangeIsSound
<1> QED
  BY <1>1, <1>2, <1>3, <1>4

\* and every call on two vectors.
LEMMA BothAreSound ==
    ASSUME Invariant, NEW x \in Vectors, NEW y \in Vectors, Both(x, y)
    PROVE  Invariant'
BY AppendVectorIsSound, AssignVectorIsSound, CopyAssignIsSound, MoveAssignIsSound, SwapIsSound DEF Both

\* Every step keeps the vectors sound.
LEMMA NextIsSound ==
    ASSUME Invariant, [Next]_vars, ~OwnRanges, ~EmptyRanges
    PROVE  Invariant'
<1>1. CASE UNCHANGED vars
  BY <1>1 DEF vars, Invariant, Memory
<1>2. CASE Next
  <2>1. PICK x \in Vectors :
          \/ Add(x) \/ SetSizeOrContents(x) \/ Insert(x) \/ Renew(x)
          \/ \E j \in 0..Last(x) : \E i \in 0..j : Erase(x, i, j)
          \/ \E y \in Vectors : Both(x, y)
    BY <1>2 DEF Next
  <2>2. CASE Add(x)
    BY <2>2, AddIsSound
  <2>3. CASE SetSizeOrContents(x)
    BY <2>3, SetSizeOrContentsIsSound
  <2>4. CASE Insert(x)
    BY <2>4, InsertIsSound
  <2>5. CASE Renew(x)
    BY <2>5, RenewIsSound
  <2>6. CASE \E j \in 0..Last(x) : \E i \in 0..j : Erase(x, i, j)
    BY <2>6, EraseIsSound
  <2>7. CASE \E y \in Vectors : Both(x, y)
    BY <2>7, BothAreSound
  <2> QED
    BY <2>1, <2>2, <2>3, <2>4, <2>5, <2>6, <2>7
<1> QED
  BY <1>1, <1>2

\* Sound vectors have live cells below their sizes and raw ones above.
LEMMA SoundLifetimes ==
    ASSUME Invariant
    PROVE  LifetimesAreRight
<1> SUFFICES ASSUME NEW x \in Vectors
             PROVE  /\ vec[x].size <= vec[x].capacity
                    /\ \A k \in 0..(vec[x].capacity - 1) : k \in DOMAIN mem[vec[x].begin]
                    /\ \A k \in DOMAIN mem[vec[x].begin] :
                          IF k < vec[x].size THEN Alive(mem[vec[x].begin][k])
                          ELSE mem[vec[x].begin][k] = Raw
  BY DEF LifetimesAreRight
<1>1. Sound(Memory, sequence) /\ Memory.mem = mem /\ Memory.vec = vec
  BY SizesOf
<1>2. PICK s : s = Memory
  OBVIOUS
<1>3. /\ s.vec[x].size <= s.vec[x].capacity /\ s.vec[x].size \in Nat
      /\ 0 .. (s.vec[x].capacity - 1) \subseteq DOMAIN s.mem[s.vec[x].begin]
      /\ DOMAIN s.mem[s.vec[x].begin] \subseteq Nat
      /\ Len(sequence[x]) = s.vec[x].size
      /\ HoldsCells(s.mem, s.vec[x].begin, sequence[x])
      /\ \A k \in 0 .. (Len(sequence[x]) - 1) : sequence[x][k + 1] \in Elements
  BY <1>1, <1>2, SoundParts
<1>4. ASSUME NEW k \in DOMAIN s.mem[s.vec[x].begin]
      PROVE  IF k < s.vec[x].size THEN Alive(s.mem[s.vec[x].begin][k])
             ELSE s.mem[s.vec[x].begin][k] = Raw
  <2>1. s.mem[s.vec[x].begin][k] = IF k < s.vec[x].size THEN sequence[x][k + 1] ELSE Raw
    BY <1>3 DEF HoldsCells
  <2>2. k \in Nat
    BY <1>3
  <2>3. k < s.vec[x].size => k \in 0 .. (s.vec[x].size - 1)
    BY <1>3, <2>2
  <2>4. k < s.vec[x].size => sequence[x][k + 1] \in Elements
    BY <1>3, <2>3
  <2> QED
    BY <2>1, <2>4, Marks
<1> QED
  BY <1>1, <1>2, <1>3, <1>4

\* They own their blocks alone, and leave nothing behind in their inline buffers.
LEMMA SoundOwnership ==
    ASSUME Invariant
    PROVE  BlocksAreOwnedOnce
<1>1. PICK s : s = Memory /\ s.mem = mem /\ s.vec = vec /\ Sound(s, sequence)
  BY DEF Invariant, Memory
<1>2. BlocksApart(s) /\ \A x \in Vectors : VectorHolds(s, x, sequence[x])
  BY <1>1 DEF Sound
<1>3. \A x, y \in Vectors : vec[x].begin = vec[y].begin => x = y
  BY <1>1, <1>2 DEF BlocksApart
<1>4. ASSUME NEW b \in Blocks, mem[b] # <<>>
      PROVE  \E x \in Vectors : vec[x].begin = b
  BY <1>1, <1>2, <1>4 DEF BlocksApart
<1>5. ASSUME NEW x \in Vectors, vec[x].begin \in Blocks
      PROVE  mem[vec[x].begin] # <<>>
  <2>1. Placed(mem, x, vec[x]) /\ vec[x].begin # InlineBuffer(x)
    BY <1>1, <1>2, <1>5, HeapAssumption DEF VectorHolds
  <2>2. vec[x].capacity > 0 /\ DOMAIN mem[vec[x].begin] = 0 .. (vec[x].capacity - 1)
    BY <2>1 DEF Placed
  <2>3. vec[x].capacity \in Nat
    BY <1>1, SoundParts
  <2>4. 0 \in DOMAIN mem[vec[x].begin]
    BY <2>2, <2>3
  <2>5. 0 \notin DOMAIN <<>>
    OBVIOUS
  <2> QED
    BY <2>4, <2>5
<1>6. ASSUME NEW x \in Vectors, vec[x].begin # InlineBuffer(x), NEW k \in DOMAIN mem[InlineBuffer(x)]
      PROVE  mem[InlineBuffer(x)][k] = Raw
  <2>1. HoldsCells(mem, InlineBuffer(x), <<>>)
    BY <1>1, <1>2, <1>6 DEF VectorHolds, Placed
  <2>2. k \in Nat
    <3>1. MemoryOK(mem) /\ InlineBuffer(x) \in Buffers
      BY <1>1, SoundParts
    <3> QED
      BY <3>1, SizesAssumption DEF MemoryOK
  <2>3. ~(k < Len(<<>>))
    BY <2>2
  <2> QED
    BY <2>1, <2>3 DEF HoldsCells
<1>7. {b \in Blocks : mem[b] # <<>>} = {vec[x].begin : x \in Vectors} \cap Blocks
  BY <1>4, <1>5
<1> QED
  BY <1>3, <1>6, <1>7 DEF BlocksAreOwnedOnce

\* They hold their sequences.
LEMMA SoundContents ==
    ASSUME Invariant
    PROVE  HoldsItsSequence
<1> SUFFICES ASSUME NEW x \in Vectors
             PROVE  Contents(x) = sequence[x]
  BY DEF HoldsItsSequence
<1>1. PICK s : s = Memory /\ s.mem = mem /\ s.vec = vec /\ Sound(s, sequence)
  BY DEF Invariant, Memory
<1>2. PICK r \in Seq(Elements), n \in Nat : r = sequence[x] /\ n = vec[x].size /\ Len(r) = n
  BY <1>1, SoundParts
<1>3. ASSUME NEW i \in 1 .. n
      PROVE  Elem(mem, <<vec[x].begin, i - 1>>) = r[i]
  <2>v. PICK v : v = r[i]
    OBVIOUS
  <2>1. PICK k \in Nat : k = i - 1 /\ k + 1 = i /\ k \in 0 .. (n - 1) /\ k # -1
    <3>1. i - 1 \in Nat /\ (i - 1) + 1 = i /\ i - 1 \in 0 .. (n - 1) /\ i - 1 # -1
      OBVIOUS
    <3> QED
      BY <3>1
  <2>2. Denotes(s, sequence, x, At(s, x, k), k, v)
    BY <1>2, <2>1, <2>v DEF Denotes
  <2>3. Elem(s.mem, At(s, x, k)) = v
    BY <1>1, <2>2, ElemGives
  <2> QED
    BY <1>1, <2>1, <2>3, <2>v DEF At
<1>4. r = [i \in 1 .. n |-> r[i]]
  BY <1>2
<1>5. Contents(x) = [i \in 1 .. n |-> r[i]]
  BY <1>2, <1>3 DEF Contents
<1> QED
  BY <1>2, <1>4, <1>5

\* Every reachable state is sound: each vector holds its sequence, from the
\* beginning of a buffer of its own on, and the cells behind are raw.
THEOREM VectorsAreSound ==
    ASSUME ~OwnRanges, ~EmptyRanges
    PROVE  Spec => []Invariant
<1>1. Init => Invariant
  BY InitIsSound
<1>2. Invariant /\ [Next]_vars => Invariant'
  BY NextIsSound
<1> QED
  BY <1>1, <1>2, PTL DEF Spec

\* Elements are constructed once before they are used and destroyed once,
\* whatever calls are made in whatever order.
THEOREM VectorLifetimesAreRight ==
    ASSUME ~OwnRanges, ~EmptyRanges
    PROVE  Spec => []LifetimesAreRight
<1>1. Invariant => LifetimesAreRight
  BY SoundLifetimes
<1>2. Spec => []Invariant
  BY VectorsAreSound
<1> QED
  BY <1>1, <1>2, PTL

\* No block of the heap is shared, lost or used after it was freed.
THEOREM VectorBlocksAreOwnedOnce ==
    ASSUME ~OwnRanges, ~EmptyRanges
    PROVE  Spec => []BlocksAreOwnedOnce
<1>1. Invariant => BlocksAreOwnedOnce
  BY SoundOwnership
<1>2. Spec => []Invariant
  BY VectorsAreSound
<1> QED
  BY <1>1, <1>2, PTL

\* The vectors hold what the same calls make of sequences, calls that throw at
\* the largest size included: these change nothing, except for the forms of
\* assign that drop the old elements first and leave an empty vector.
THEOREM VectorsHoldTheirSequences ==
    ASSUME ~OwnRanges, ~EmptyRanges
    PROVE  Spec => []HoldsItsSequence
<1>1. Invariant => HoldsItsSequence
  BY SoundContents
<1>2. Spec => []Invariant
  BY VectorsAreSound
<1> QED
  BY <1>1, <1>2, PTL

=============================================================================
