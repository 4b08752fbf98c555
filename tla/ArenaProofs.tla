---------------------------- MODULE ArenaProofs -----------------------------
(***************************************************************************)
(* The chunks of an arena lie apart, aligned and inside their blocks, for  *)
(* all block sizes, limits and request sizes, and the arena implements     *)
(* Allocator.                                                              *)
(*                                                                         *)
(* ChunksAreSound is not inductive: a new chunk begins at the offset of    *)
(* its block, so the invariant says that all chunks of a block end before  *)
(* its offset, and that the offset is aligned and inside the block.        *)
(***************************************************************************)
EXTENDS Arena, TLAPS, SequenceTheorems

Block == [size : Nat, offset : Nat, counter : Nat]

ListsOK ==
    /\ pool \in Seq(Block) /\ big \in Seq(Block)
    /\ pooled_current \in 0 .. Len(pool)
    /\ pooled_current = 0 => pool = <<>>
    /\ next_block_size \in Nat

RequestOK ==
    \/ request = NoRequest
    \/ request \in Nat /\ request % 8 = 0 /\ cur \in 1 .. Len(pool)

OffsetsOK == \A k \in 1 .. Len(pool) : pool[k].offset <= pool[k].size /\ pool[k].offset % 8 = 0

\* Where a chunk can be: in a pool block before the offset, or in a big block.
InPool(c) == \E k \in 1 .. Len(pool) : c.block = <<"pool", k>> /\ c.at + c.length <= pool[k].offset
InBig(c) == \E k \in 1 .. Len(big) : c.block = <<"big", k>> /\ c.at + c.length <= big[k].size

ChunkOK(c) ==
    /\ c.at \in Nat /\ c.length \in Nat /\ c.at % 8 = 0
    /\ InPool(c) \/ InBig(c)

ChunksOK == \A c \in chunks : ChunkOK(c)
ChunksApart == \A c, d \in chunks : c # d => Abstract!Apart(c, d)

ArenaInvariant == ListsOK /\ RequestOK /\ OffsetsOK /\ ChunksOK /\ ChunksApart

-----------------------------------------------------------------------------
\* Rounding up gives a multiple of the alignment that is large enough.
LEMMA RoundedIsAligned ==
    ASSUME NEW sz \in Nat
    PROVE  Rounded(sz) \in Nat /\ Rounded(sz) % 8 = 0 /\ Rounded(sz) >= sz
BY DEF Rounded, DefaultAlignment

\* Multiples of the alignment add up to one.
LEMMA AlignedSum ==
    ASSUME NEW a \in Nat, NEW b \in Nat, a % 8 = 0, b % 8 = 0
    PROVE  (a + b) % 8 = 0
OBVIOUS

\* The fields of a block are numbers.
LEMMA BlockFields ==
    ASSUME NEW b \in Block
    PROVE  b.size \in Nat /\ b.offset \in Nat /\ b.counter \in Nat
BY DEF Block

\* Moving the offset of a block leaves its size.
LEMMA OffsetMoved ==
    ASSUME NEW b \in Block, NEW n \in Nat
    PROVE  LET moved == [b EXCEPT !.offset = n]
           IN  moved \in Block /\ moved.offset = n /\ moved.size = b.size
BY DEF Block

\* Counting a failure leaves size and offset.
LEMMA CounterSet ==
    ASSUME NEW b \in Block, NEW n \in Nat
    PROVE  LET counted == [b EXCEPT !.counter = n]
           IN  counted \in Block /\ counted.offset = b.offset /\ counted.size = b.size
BY DEF Block

\* Replacing one block of a list leaves the others.
LEMMA BlockReplaced ==
    ASSUME NEW list \in Seq(Block), NEW i \in 1 .. Len(list), NEW b \in Block
    PROVE  LET new == [list EXCEPT ![i] = b]
           IN  /\ new \in Seq(Block) /\ Len(new) = Len(list) /\ new[i] = b
               /\ \A k \in 1 .. Len(list) : k # i => new[k] = list[k]
OBVIOUS

\* A block put at the end leaves the others.
LEMMA BlockAdded ==
    ASSUME NEW list \in Seq(Block), NEW b \in Block
    PROVE  LET new == Append(list, b)
           IN  /\ new \in Seq(Block) /\ Len(new) = Len(list) + 1 /\ new[Len(list) + 1] = b
               /\ \A k \in 1 .. Len(list) : new[k] = list[k]
OBVIOUS

\* What a list of blocks holds are blocks.
LEMMA BlockOfList ==
    ASSUME NEW list \in Seq(Block), NEW i \in 1 .. Len(list)
    PROVE  list[i] \in Block
OBVIOUS

\* AllocateBlock gives an empty block.
LEMMA NewBlockIsBlock ==
    ASSUME NEW n \in Nat
    PROVE  NewBlock(n) \in Block /\ NewBlock(n).offset = 0 /\ NewBlock(n).size = n
BY DEF NewBlock, Block

\* The size of the next block is a number.
LEMMA NextSizeIsSize ==
    ASSUME next_block_size \in Nat
    PROVE  NextBlockSize \in Nat
BY SizesAssumption DEF NextBlockSize

\* A chunk that begins where all chunks of its block end lies apart from them.
LEMMA FreshChunkIsApart ==
    ASSUME NEW c, c.at \in Nat, c.length \in Nat,
           \A d \in chunks : ChunkOK(d),
           \A d \in chunks : d.block = c.block => d.at + d.length <= c.at
    PROVE  \A d \in chunks : Abstract!Apart(c, d) /\ Abstract!Apart(d, c)
BY DEF ChunkOK, Abstract!Apart

-----------------------------------------------------------------------------
\* A new arena has no blocks and no chunks.
LEMMA InitInvariant == Init => ArenaInvariant
<1> SUFFICES ASSUME Init PROVE ArenaInvariant
    OBVIOUS
<1>1. ListsOK /\ RequestOK /\ OffsetsOK
    BY SizesAssumption DEF Init, ListsOK, RequestOK, OffsetsOK
<1>2. ChunksOK /\ ChunksApart
    BY DEF Init, ChunksOK, ChunksApart
<1> QED
    BY <1>1, <1>2 DEF ArenaInvariant

\* A big chunk has a block of its own.
LEMMA BigChunkPreserves ==
    ASSUME ArenaInvariant, NEW t \in Types, AllocBigChunk(t)
    PROVE  ArenaInvariant'
<1> DEFINE n == Rounded(t.size)
<1>0. PICK c : c = Chunk("big", Len(big) + 1, 0, n)
    OBVIOUS
<1>1. n \in Nat
    BY RoundedIsAligned, SizesAssumption
<1>2. /\ big' = Append(big, NewBlock(n)) /\ NewBlock(n) \in Block /\ NewBlock(n).size = n
      /\ chunks' = chunks \cup {c}
      /\ UNCHANGED <<pool, pooled_current, next_block_size, request, cur>>
    BY <1>0, <1>1, NewBlockIsBlock DEF AllocBigChunk, Return
<1>3. /\ big' \in Seq(Block) /\ Len(big') = Len(big) + 1
      /\ big'[Len(big) + 1] = NewBlock(n)
      /\ \A k \in 1 .. Len(big) : big'[k] = big[k]
    BY <1>2, BlockAdded DEF ArenaInvariant, ListsOK
<1>4. ListsOK' /\ RequestOK' /\ OffsetsOK'
    BY <1>2, <1>3 DEF ArenaInvariant, ListsOK, RequestOK, OffsetsOK
<1>5. c.block = <<"big", Len(big) + 1>> /\ c.at = 0 /\ c.length = n
    BY <1>0 DEF Chunk
<1>6. ChunksOK'
    <2>1. Len(big) \in Nat
        BY DEF ArenaInvariant, ListsOK
    <2>2. ASSUME NEW d \in chunks PROVE ChunkOK(d)'
        <3>1. ChunkOK(d)
            BY DEF ArenaInvariant, ChunksOK
        <3>2. CASE InPool(d)
            BY <1>2, <3>1, <3>2 DEF ChunkOK, InPool
        <3>3. CASE InBig(d)
            BY <1>3, <2>1, <3>1, <3>3 DEF ChunkOK, InBig
        <3> QED
            BY <3>1, <3>2, <3>3 DEF ChunkOK
    <2>3. InBig(c)'
        BY <1>1, <1>2, <1>3, <1>5, <2>1 DEF InBig
    <2>4. ChunkOK(c)'
        BY <1>1, <1>5, <2>3 DEF ChunkOK
    <2> QED
        BY <1>2, <2>2, <2>4 DEF ChunksOK
<1>7. \A d \in chunks : d.block # c.block
    BY <1>5 DEF ArenaInvariant, ChunksOK, ChunkOK, InPool, InBig, ListsOK
<1>8. ChunksApart'
    BY <1>2, <1>7 DEF ArenaInvariant, ChunksApart, Abstract!Apart
<1> QED
    BY <1>4, <1>6, <1>8 DEF ArenaInvariant

\* A request below the threshold waits for the search, or for the block made for it.
LEMMA SmallChunkPreserves ==
    ASSUME ArenaInvariant, NEW t \in Types, AllocSmallChunk(t)
    PROVE  ArenaInvariant'
<1>1. request' \in Nat /\ request' % 8 = 0
    <2>1. t.size \in Nat /\ request' = Rounded(t.size)
        BY SizesAssumption DEF AllocSmallChunk
    <2> QED
        BY <2>1, RoundedIsAligned
<1>2. UNCHANGED <<big, chunks>>
    BY DEF AllocSmallChunk
<1>3. CASE pooled_current = 0
    <2>1. /\ pool = <<>> /\ pool' = <<NewBlock(next_block_size)>>
          /\ next_block_size' = NextBlockSize /\ pooled_current' = 1 /\ cur' = 1
        BY <1>3 DEF AllocSmallChunk, ArenaInvariant, ListsOK
    <2>2. NewBlock(next_block_size) \in Block /\ NewBlock(next_block_size).offset = 0
        BY NewBlockIsBlock DEF ArenaInvariant, ListsOK
    <2>3. pool' \in Seq(Block) /\ Len(pool') = 1 /\ pool'[1] = NewBlock(next_block_size)
        BY <2>1, <2>2
    <2>4. ListsOK'
        BY <1>2, <2>1, <2>3, NextSizeIsSize DEF ArenaInvariant, ListsOK
    <2>5. OffsetsOK'
        <3>1. pool'[1].offset = 0 /\ pool'[1].size \in Nat
            BY <2>2, <2>3, BlockFields
        <3>2. \A k \in 1 .. Len(pool') : k = 1
            BY <2>3
        <3>3. 0 % 8 = 0 /\ \A n \in Nat : 0 <= n
            OBVIOUS
        <3> QED
            BY <3>1, <3>2, <3>3 DEF OffsetsOK
    <2>6. RequestOK'
        <3>1. cur' \in 1 .. Len(pool')
            BY <2>1, <2>3
        <3> QED
            BY <1>1, <3>1 DEF RequestOK
    <2>7. ChunksOK'
        BY <1>2, <2>1 DEF ArenaInvariant, ChunksOK, ChunkOK, InPool, InBig
    <2> QED
        BY <1>2, <2>4, <2>5, <2>6, <2>7 DEF ArenaInvariant, ChunksApart, Abstract!Apart
<1>4. CASE pooled_current # 0
    <2>1. UNCHANGED <<pool, pooled_current, next_block_size>> /\ cur' = pooled_current
        BY <1>4 DEF AllocSmallChunk
    <2>2. ListsOK' /\ OffsetsOK'
        BY <1>2, <2>1 DEF ArenaInvariant, ListsOK, OffsetsOK
    <2>3. pooled_current \in 1 .. Len(pool)
        BY <1>4 DEF ArenaInvariant, ListsOK
    <2>4. RequestOK'
        BY <1>1, <2>1, <2>3 DEF RequestOK
    <2>5. ChunksOK' /\ ChunksApart'
        BY <1>2, <2>1 DEF ArenaInvariant, ChunksOK, ChunkOK, InPool, InBig, ChunksApart, Abstract!Apart
    <2> QED
        BY <2>2, <2>4, <2>5 DEF ArenaInvariant
<1> QED
    BY <1>3, <1>4

\* A change of the pool that moves no offset back and removes no block keeps
\* the chunks where they were.
LEMMA GrownPoolKeepsChunks ==
    ASSUME ArenaInvariant,
           Len(pool') >= Len(pool), Len(pool') \in Nat,
           \A k \in 1 .. Len(pool) : pool'[k].offset >= pool[k].offset /\ pool'[k].offset \in Nat,
           UNCHANGED big
    PROVE  \A c \in chunks : ChunkOK(c)'
<1> SUFFICES ASSUME NEW c \in chunks PROVE ChunkOK(c)'
    OBVIOUS
<1>1. ChunkOK(c)
    BY DEF ArenaInvariant, ChunksOK
<1>2. Len(pool) \in Nat /\ \A k \in 1 .. Len(pool) : pool[k].offset \in Nat
    BY BlockOfList, BlockFields DEF ArenaInvariant, ListsOK
<1>3. CASE InPool(c)
    <2>1. PICK k \in 1 .. Len(pool) : c.block = <<"pool", k>> /\ c.at + c.length <= pool[k].offset
        BY <1>3 DEF InPool
    <2>2. k \in 1 .. Len(pool') /\ c.at + c.length <= pool'[k].offset
        BY <1>1, <1>2, <2>1 DEF ChunkOK
    <2> QED
        BY <1>1, <2>1, <2>2 DEF ChunkOK, InPool
<1>4. CASE InBig(c)
    BY <1>1, <1>4 DEF ChunkOK, InBig
<1> QED
    BY <1>1, <1>3, <1>4 DEF ChunkOK

\* A chunk taken from a pooled block begins where the last one ended.
LEMMA TakeChunkPreserves ==
    ASSUME ArenaInvariant, TakeChunk
    PROVE  ArenaInvariant'
<1> DEFINE o == pool[cur].offset
<1>0. PICK c : c = Chunk("pool", cur, o, request)
    OBVIOUS
<1>1. /\ request \in Nat /\ request % 8 = 0 /\ cur \in 1 .. Len(pool)
      /\ pool \in Seq(Block) /\ o % 8 = 0 /\ pool[cur].size - o >= request
    BY DEF ArenaInvariant, ListsOK, RequestOK, OffsetsOK, TakeChunk, Searching, Available
<1>2. /\ pool' = [pool EXCEPT ![cur] = [pool[cur] EXCEPT !.offset = o + request]]
      /\ chunks' = chunks \cup {c}
      /\ request' = NoRequest
      /\ UNCHANGED <<pooled_current, next_block_size, big, cur>>
    BY <1>0 DEF TakeChunk, Return
<1>3. /\ pool' \in Seq(Block) /\ Len(pool') = Len(pool) /\ pool'[cur] \in Block
      /\ pool'[cur].offset = o + request /\ pool'[cur].size = pool[cur].size
      /\ \A k \in 1 .. Len(pool) : k # cur => pool'[k] = pool[k]
    <2> DEFINE moved == [pool[cur] EXCEPT !.offset = o + request]
    <2>1. pool[cur] \in Block /\ o \in Nat /\ o + request \in Nat
        BY <1>1, BlockOfList, BlockFields
    <2>2. moved \in Block /\ moved.offset = o + request /\ moved.size = pool[cur].size
        BY <2>1, OffsetMoved
    <2> HIDE DEF moved
    <2>3. pool' = [pool EXCEPT ![cur] = moved]
        BY <1>2 DEF moved
    <2> QED
        BY <1>1, <2>2, <2>3, BlockReplaced
<1>4. o \in Nat /\ pool[cur].size \in Nat /\ (o + request) % 8 = 0
    <2>1. o \in Nat /\ pool[cur].size \in Nat
        BY <1>1, BlockOfList, BlockFields
    <2> QED
        BY <1>1, <2>1, AlignedSum
<1>5. ListsOK' /\ RequestOK'
    BY <1>1, <1>2, <1>3 DEF ArenaInvariant, ListsOK, RequestOK
<1>6. OffsetsOK'
    BY <1>1, <1>3, <1>4 DEF ArenaInvariant, OffsetsOK
<1>7. c.block = <<"pool", cur>> /\ c.block[2] = cur /\ c.at = o /\ c.length = request
    BY <1>0 DEF Chunk
<1>8. \A d \in chunks : ChunkOK(d)'
    <2>1. \A k \in 1 .. Len(pool) : pool'[k].offset >= pool[k].offset /\ pool'[k].offset \in Nat
        <3> SUFFICES ASSUME NEW k \in 1 .. Len(pool)
                     PROVE  pool'[k].offset >= pool[k].offset /\ pool'[k].offset \in Nat
            OBVIOUS
        <3>1. pool[k].offset \in Nat
            BY <1>1, BlockOfList, BlockFields
        <3> QED
            BY <1>1, <1>3, <1>4, <3>1
    <2>2. Len(pool') \in Nat /\ Len(pool') >= Len(pool)
        BY <1>1, <1>3
    <2> QED
        BY <1>2, <2>1, <2>2, GrownPoolKeepsChunks
<1>9. ChunkOK(c)'
    <2>1. cur \in 1 .. Len(pool') /\ c.at + c.length <= pool'[cur].offset
        BY <1>1, <1>3, <1>4, <1>7
    <2>2. InPool(c)'
        BY <1>7, <2>1 DEF InPool
    <2> QED
        BY <1>1, <1>4, <1>7, <2>2 DEF ChunkOK
<1>10. ChunksOK'
    BY <1>2, <1>8, <1>9 DEF ChunksOK
<1>11. \A d \in chunks : d.block = c.block => d.at + d.length <= c.at
    <2> SUFFICES ASSUME NEW d \in chunks, d.block = <<"pool", cur>> PROVE d.at + d.length <= o
        BY <1>7
    <2>1. InPool(d) \/ InBig(d)
        BY DEF ArenaInvariant, ChunksOK, ChunkOK
    <2>2. ~InBig(d)
        BY DEF InBig
    <2> QED
        BY <2>1, <2>2 DEF InPool
<1>12. \A d \in chunks : Abstract!Apart(c, d) /\ Abstract!Apart(d, c)
    BY <1>1, <1>4, <1>7, <1>11, FreshChunkIsApart DEF ArenaInvariant, ChunksOK
<1>13. ChunksApart'
    BY <1>2, <1>12 DEF ArenaInvariant, ChunksApart, Abstract!Apart
<1> QED
    BY <1>5, <1>6, <1>10, <1>13 DEF ArenaInvariant

\* A turn that does not moves on, counts, or drops the head, and leaves the chunks.
LEMMA RollOnPreserves ==
    ASSUME ArenaInvariant, RollOn
    PROVE  ArenaInvariant'
<1>1. /\ request \in Nat /\ request % 8 = 0 /\ cur \in 1 .. Len(pool)
      /\ pool \in Seq(Block) /\ pool[cur] \in Block /\ next_block_size \in Nat
    BY BlockOfList DEF ArenaInvariant, ListsOK, RequestOK, RollOn, Searching
<1>2. Failures \in Nat
    BY <1>1, BlockFields DEF Failures
<1>3. /\ Counted \in Seq(Block) /\ Len(Counted) = Len(pool)
      /\ \A k \in 1 .. Len(pool) :
            Counted[k].offset = pool[k].offset /\ Counted[k].size = pool[k].size
    <2> DEFINE counted == [pool[cur] EXCEPT !.counter = Failures]
    <2>1. counted \in Block /\ counted.offset = pool[cur].offset /\ counted.size = pool[cur].size
        BY <1>1, <1>2, CounterSet
    <2>2. Counted = [pool EXCEPT ![cur] = counted]
        BY DEF Counted
    <2> HIDE DEF counted
    <2> QED
        BY <1>1, <2>1, <2>2, BlockReplaced
<1>4. /\ pooled_current' \in {pooled_current, cur + 1} /\ cur' = cur + 1
      /\ UNCHANGED <<big, request, chunks>>
    BY DEF RollOn
<1>5. /\ pool' \in Seq(Block) /\ Len(pool') >= Len(pool) /\ cur + 1 \in 1 .. Len(pool')
      /\ next_block_size' \in Nat
      /\ \A k \in 1 .. Len(pool) : pool'[k] = Counted[k]
      /\ \A k \in 1 .. Len(pool') : k > Len(pool) => pool'[k].offset = 0 /\ pool'[k].size \in Nat
    <2>1. CASE cur < Len(pool)
        BY <1>1, <1>3, <2>1 DEF RollOn
    <2>2. CASE ~(cur < Len(pool))
        <3>1. pool' = Append(Counted, NewBlock(next_block_size)) /\ next_block_size' = NextBlockSize
            BY <2>2 DEF RollOn
        <3>2. NewBlock(next_block_size) \in Block /\ NewBlock(next_block_size).offset = 0
              /\ NewBlock(next_block_size).size \in Nat /\ NextBlockSize \in Nat
            BY <1>1, NewBlockIsBlock, NextSizeIsSize
        <3> QED
            BY <1>1, <1>3, <2>2, <3>1, <3>2, BlockAdded
    <2> QED
        BY <2>1, <2>2
<1>6. ListsOK'
    BY <1>1, <1>4, <1>5 DEF ArenaInvariant, ListsOK
<1>7. RequestOK'
    BY <1>1, <1>4, <1>5 DEF RequestOK
<1>8. OffsetsOK'
    <2> SUFFICES ASSUME NEW k \in 1 .. Len(pool')
                 PROVE  pool'[k].offset <= pool'[k].size /\ pool'[k].offset % 8 = 0
        BY DEF OffsetsOK
    <2>1. CASE k > Len(pool)
        BY <1>5, <2>1
    <2>2. CASE k \in 1 .. Len(pool)
        BY <1>3, <1>5, <2>2 DEF ArenaInvariant, OffsetsOK
    <2> QED
        BY <1>1, <1>5, <2>1, <2>2
<1>9. ChunksOK'
    <2>1. \A k \in 1 .. Len(pool) : pool'[k].offset >= pool[k].offset /\ pool'[k].offset \in Nat
        <3> SUFFICES ASSUME NEW k \in 1 .. Len(pool)
                     PROVE  pool'[k].offset >= pool[k].offset /\ pool'[k].offset \in Nat
            OBVIOUS
        <3>1. pool[k].offset \in Nat
            BY <1>1, BlockOfList, BlockFields
        <3> QED
            BY <1>3, <1>5, <3>1
    <2>2. Len(pool') \in Nat
        BY <1>5
    <2> QED
        BY <1>4, <1>5, <2>1, <2>2, GrownPoolKeepsChunks DEF ChunksOK
<1> QED
    BY <1>4, <1>6, <1>7, <1>8, <1>9 DEF ArenaInvariant, ChunksApart, Abstract!Apart

\* The destructor leaves nothing.
LEMMA DestroyPreserves ==
    ASSUME ArenaInvariant, Destroy
    PROVE  ArenaInvariant'
<1>1. /\ pool' = <<>> /\ big' = <<>> /\ pooled_current' = 0 /\ chunks' = {}
      /\ request' = NoRequest /\ next_block_size' = next_block_size
    BY DEF Destroy
<1> QED
    BY <1>1 DEF ArenaInvariant, ListsOK, RequestOK, OffsetsOK, ChunksOK, ChunksApart

\* No step of an arena breaks the invariant.
LEMMA NextPreserves == ArenaInvariant /\ [Next]_vars => ArenaInvariant'
<1> SUFFICES ASSUME ArenaInvariant, [Next]_vars PROVE ArenaInvariant'
    OBVIOUS
<1>1. CASE \E t \in Types : AllocBigChunk(t)
    BY <1>1, BigChunkPreserves
<1>2. CASE \E t \in Types : AllocSmallChunk(t)
    BY <1>2, SmallChunkPreserves
<1>3. CASE TakeChunk
    BY <1>3, TakeChunkPreserves
<1>4. CASE RollOn
    BY <1>4, RollOnPreserves
<1>5. CASE Destroy
    BY <1>5, DestroyPreserves
<1>6. CASE UNCHANGED vars
    BY <1>6 DEF vars, list_vars, ArenaInvariant, ListsOK, RequestOK, OffsetsOK, ChunksOK, ChunkOK,
                InPool, InBig, ChunksApart, Abstract!Apart
<1> QED
    BY <1>1, <1>2, <1>3, <1>4, <1>5, <1>6 DEF Next, Search

\* The inductive invariant: chunks end before the offset of their block.
THEOREM InvariantHolds == Spec => []ArenaInvariant
BY InitInvariant, NextPreserves, PTL DEF Spec

\* The invariant says what is asked of the chunks.
LEMMA InvariantImpliesSound == ArenaInvariant => ChunksAreSound
<1> SUFFICES ASSUME ArenaInvariant, NEW c \in chunks
             PROVE  /\ c.block \in Blocks
                    /\ c.at % DefaultAlignment = 0
                    /\ 0 <= c.at /\ c.at + c.length <= BlockOf(c).size
                    /\ \A d \in chunks \ {c} :
                        c.block # d.block \/ c.at + c.length <= d.at \/ d.at + d.length <= c.at
    BY DEF ChunksAreSound
<1>1. ChunkOK(c) /\ pool \in Seq(Block) /\ big \in Seq(Block)
    BY DEF ArenaInvariant, ChunksOK, ListsOK
<1>2. \A d \in chunks \ {c} :
        c.block # d.block \/ c.at + c.length <= d.at \/ d.at + d.length <= c.at
    BY DEF ArenaInvariant, ChunksApart, Abstract!Apart
<1>3. CASE InPool(c)
    <2>1. PICK k \in 1 .. Len(pool) : c.block = <<"pool", k>> /\ c.at + c.length <= pool[k].offset
        BY <1>3 DEF InPool
    <2>2. c.block[1] = "pool" /\ c.block[2] = k
        BY <2>1
    <2>3. c.block \in Blocks
        BY <1>1, <2>1 DEF Blocks
    <2>4. BlockOf(c) = pool[k]
        BY <2>2 DEF BlockOf
    <2>5. pool[k].offset <= pool[k].size /\ pool[k].offset \in Nat /\ pool[k].size \in Nat
        BY <1>1, BlockOfList, BlockFields DEF ArenaInvariant, OffsetsOK
    <2> QED
        BY <1>1, <1>2, <2>1, <2>3, <2>4, <2>5 DEF ChunkOK, DefaultAlignment
<1>4. CASE InBig(c)
    <2>1. PICK k \in 1 .. Len(big) : c.block = <<"big", k>> /\ c.at + c.length <= big[k].size
        BY <1>4 DEF InBig
    <2>2. c.block[1] = "big" /\ c.block[2] = k
        BY <2>1
    <2>3. c.block \in Blocks
        BY <1>1, <2>1 DEF Blocks
    <2>4. BlockOf(c) = big[k]
        BY <2>2 DEF BlockOf
    <2> QED
        BY <1>1, <1>2, <2>1, <2>3, <2>4 DEF ChunkOK, DefaultAlignment
<1> QED
    BY <1>1, <1>3, <1>4 DEF ChunkOK

\* Chunks are aligned, inside a block that is held, and do not overlap, for
\* every limit and size (ChunksAreSound).
THEOREM ChunksStaySound == Spec => []ChunksAreSound
BY InvariantHolds, InvariantImpliesSound, PTL

-----------------------------------------------------------------------------
\* A step gives one chunk as the allocator would, frees all, or is not seen.
LEMMA StepImplementsAllocator ==
    ASSUME ArenaInvariant, ArenaInvariant', [Next]_vars
    PROVE  [Abstract!Next]_Abstract!allocator_vars
<1>1. ASSUME NEW c, chunks' = chunks \cup {c}, alive, UNCHANGED alive
      PROVE  [Abstract!Next]_Abstract!allocator_vars
    <2>1. CASE c \in chunks
        BY <1>1, <2>1 DEF Abstract!allocator_vars
    <2>2. CASE c \notin chunks
        <3>1. \A d \in chunks : Abstract!Apart(c, d)
            BY <1>1, <2>2 DEF ArenaInvariant, ChunksApart, Abstract!Apart
        <3> QED
            BY <1>1, <2>2, <3>1 DEF Abstract!Next, Abstract!Give
    <2> QED
        BY <2>1, <2>2
<1>2. CASE \E t \in Types : AllocBigChunk(t)
    BY <1>1, <1>2 DEF AllocBigChunk, Return, Calling
<1>3. CASE \E t \in Types : AllocSmallChunk(t)
    BY <1>3 DEF AllocSmallChunk, Abstract!allocator_vars
<1>4. CASE TakeChunk
    BY <1>1, <1>4 DEF TakeChunk, Return, Searching
<1>5. CASE RollOn
    BY <1>5 DEF RollOn, Abstract!allocator_vars
<1>6. CASE Destroy
    BY <1>6 DEF Destroy, Abstract!Next, Abstract!Release
<1>7. CASE UNCHANGED vars
    BY <1>7 DEF vars, Abstract!allocator_vars
<1> QED
    BY <1>2, <1>3, <1>4, <1>5, <1>6, <1>7 DEF Next, Search

\* The arena implements Allocator: what it gives out lies apart from all it
\* gave before, and stays until the arena is destroyed (RefinesAllocator).
THEOREM ArenaImplementsAllocator == Spec => RefinesAllocator
<1>1. Init => Abstract!Init
    BY DEF Init, Abstract!Init
<1> QED
    BY <1>1, InvariantHolds, StepImplementsAllocator, PTL DEF Spec, RefinesAllocator, Abstract!Spec
=============================================================================
