------------------------------- MODULE Arena --------------------------------
(***************************************************************************)
(* Arena (Arena.h, Arena.cc).  pool is the list from pooled_head_, big the *)
(* list from big_node_, oldest first: a block is its index.  A chunk is a  *)
(* place in the data of a block; malloc aligns blocks and does not fail,   *)
(* and no size is so large that rounding it wraps.                         *)
(*                                                                         *)
(* A call of Allocate is a step for a big chunk, and otherwise the steps   *)
(* of its loop: request is the rounded size, cur the block it looks at.    *)
(***************************************************************************)
EXTENDS Integers, Sequences

CONSTANTS FailureToleranceCount, FailureCounterThreshold, BigChunkThreshold,
          DefaultPoolBlockSize, MaximumPoolBlockSize,
          Types,           \* what is constructed: records of its size and whether it has a destructor
          MaxAllocations   \* bound on the calls of Allocate

DefaultAlignment == 8

ASSUME SizesAssumption ==
    /\ FailureToleranceCount \in Nat /\ FailureCounterThreshold \in Nat
    /\ BigChunkThreshold \in Nat /\ MaxAllocations \in Nat
    /\ DefaultPoolBlockSize \in Nat /\ MaximumPoolBlockSize \in Nat
    /\ BigChunkThreshold <= DefaultPoolBlockSize
    /\ DefaultPoolBlockSize <= MaximumPoolBlockSize
    /\ Types \subseteq [size : Nat, nontrivial : BOOLEAN]

VARIABLES pool, pooled_current, next_block_size, big,
          request, cur,
          calls,        \* calls of Allocate so far
          nontrivial,   \* whether the object constructed in the chunk has a destructor
          destructors, destroyed,
          chunks, alive

list_vars == <<pool, pooled_current, next_block_size, big>>
vars == <<list_vars, request, cur, calls, nontrivial, destructors, destroyed, chunks, alive>>

NoRequest == -1
Chunk(list, index, at, length) == [block |-> <<list, index>>, at |-> at, length |-> length]

\* Mutant: the size as it is.
Rounded_Not(sz) == sz

Rounded(sz) == IF sz % DefaultAlignment = 0 THEN sz ELSE sz + (DefaultAlignment - (sz % DefaultAlignment))

NewBlock(capacity) == [size |-> capacity, offset |-> 0, counter |-> 0]

\* The list with a new block at its end, and the size of the next one.
NextBlockSize == IF 2 * next_block_size < MaximumPoolBlockSize THEN 2 * next_block_size ELSE MaximumPoolBlockSize

Init ==
    /\ pool = <<>> /\ pooled_current = 0 /\ big = <<>>
    /\ next_block_size = DefaultPoolBlockSize
    /\ request = NoRequest /\ cur = 0
    /\ calls = 0
    /\ nontrivial = FALSE
    /\ destructors = <<>> /\ destroyed = <<>>
    /\ chunks = {} /\ alive = TRUE

\* The chunk goes to the caller, Construct among them.
Return(c, registers) ==
    /\ chunks' = chunks \cup {c}
    /\ destructors' = IF registers THEN Append(destructors, c) ELSE destructors
    /\ UNCHANGED <<destroyed, alive>>

Calling == alive /\ request = NoRequest /\ calls < MaxAllocations

AllocBigChunk(t) ==
    /\ Calling /\ Rounded(t.size) > BigChunkThreshold
    /\ big' = Append(big, NewBlock(Rounded(t.size)))
    /\ calls' = calls + 1
    /\ Return(Chunk("big", Len(big) + 1, 0, Rounded(t.size)), t.nontrivial)
    /\ UNCHANGED <<pool, pooled_current, next_block_size, request, cur, nontrivial>>

\* The first block is made by the first call that is not big.
AllocSmallChunk(t) ==
    /\ Calling /\ Rounded(t.size) <= BigChunkThreshold
    /\ request' = Rounded(t.size)
    /\ nontrivial' = t.nontrivial
    /\ calls' = calls + 1
    /\ IF pooled_current = 0
       THEN /\ pool' = <<NewBlock(next_block_size)>>
            /\ next_block_size' = NextBlockSize
            /\ pooled_current' = 1 /\ cur' = 1
       ELSE cur' = pooled_current /\ UNCHANGED <<pool, pooled_current, next_block_size>>
    /\ UNCHANGED <<big, destructors, destroyed, chunks, alive>>

Searching == alive /\ request # NoRequest
Available == pool[cur].size - pool[cur].offset

\* Mutant: the offset stays.
TakeChunk_Stays ==
    /\ Searching /\ Available >= request
    /\ Return(Chunk("pool", cur, pool[cur].offset, request), nontrivial)
    /\ request' = NoRequest
    /\ UNCHANGED <<list_vars, cur, calls, nontrivial>>

TakeChunk ==
    /\ Searching /\ Available >= request
    /\ pool' = [pool EXCEPT ![cur].offset = @ + request]
    /\ Return(Chunk("pool", cur, pool[cur].offset, request), nontrivial)
    /\ request' = NoRequest
    /\ UNCHANGED <<pooled_current, next_block_size, big, cur, calls, nontrivial>>

Failures == pool[cur].counter + (IF Available < FailureCounterThreshold THEN 1 ELSE 0)
Counted == [pool EXCEPT ![cur].counter = Failures]
Dropping == Failures > FailureToleranceCount

\* Mutant: the search begins again where no block was dropped.
RollOn_Again ==
    /\ Searching /\ Available < request
    /\ IF cur < Len(pool) THEN pool' = Counted /\ UNCHANGED next_block_size
       ELSE pool' = Append(Counted, NewBlock(next_block_size)) /\ next_block_size' = NextBlockSize
    /\ pooled_current' = IF Dropping THEN cur + 1 ELSE pooled_current
    /\ cur' = pooled_current'
    /\ UNCHANGED <<big, request, calls, nontrivial, destructors, destroyed, chunks, alive>>

RollOn ==
    /\ Searching /\ Available < request
    /\ IF cur < Len(pool) THEN pool' = Counted /\ UNCHANGED next_block_size
       ELSE pool' = Append(Counted, NewBlock(next_block_size)) /\ next_block_size' = NextBlockSize
    /\ pooled_current' = IF Dropping THEN cur + 1 ELSE pooled_current
    /\ cur' = cur + 1
    /\ UNCHANGED <<big, request, calls, nontrivial, destructors, destroyed, chunks, alive>>

\* ~Arena: the cleaners in the order of construction, then FreeBlocks.
Destroy ==
    /\ alive /\ request = NoRequest
    /\ destroyed' = destructors
    /\ alive' = FALSE
    /\ chunks' = {}
    /\ pool' = <<>> /\ big' = <<>> /\ pooled_current' = 0
    /\ UNCHANGED <<next_block_size, request, cur, calls, nontrivial, destructors>>

Search == TakeChunk \/ RollOn

Next ==
    \/ \E t \in Types : AllocBigChunk(t) \/ AllocSmallChunk(t)
    \/ Search
    \/ Destroy

Spec == Init /\ [][Next]_vars /\ WF_vars(Search)

-----------------------------------------------------------------------------
BlockOf(c) == IF c.block[1] = "pool" THEN pool[c.block[2]] ELSE big[c.block[2]]
Blocks == ({"pool"} \X DOMAIN pool) \cup ({"big"} \X DOMAIN big)

\* Every chunk is an aligned part of a block that the arena holds, and no two
\* overlap: whatever was rounded, rolled over or dropped before.
ChunksAreSound ==
    \A c \in chunks :
        /\ c.block \in Blocks
        /\ c.at % DefaultAlignment = 0
        /\ 0 <= c.at /\ c.at + c.length <= BlockOf(c).size
        /\ \A d \in chunks \ {c} : c.block # d.block \/ c.at + c.length <= d.at \/ d.at + d.length <= c.at

\* The arena is an allocator.
Abstract == INSTANCE Allocator
RefinesAllocator == Abstract!Spec

\* Every call of Allocate returns: the walk over the blocks ends, at the
\* latest in a new block, which is large enough.
AllocationsEnd == request # NoRequest ~> request = NoRequest

\* A block is dropped after it failed too often.
OnlyFailingBlocksAreDropped ==
    \A k \in 1 .. (pooled_current - 1) : pool[k].counter > FailureToleranceCount
=============================================================================
