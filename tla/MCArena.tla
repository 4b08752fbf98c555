------------------------------ MODULE MCArena -------------------------------
(* Arena with sizes scaled down, and the count of the bytes used.           *)
EXTENDS Arena, SequencesExt

MCTypes == {[size |-> 1, nontrivial |-> FALSE], [size |-> 16, nontrivial |-> TRUE],
            [size |-> 17, nontrivial |-> FALSE], [size |-> 25, nontrivial |-> FALSE]}

\* CalculateUsage
Usage(list, field) == FoldLeft(LAMBDA sum, b : sum + b[field], 0, list)
GetByteUsed == Usage(pool, "offset") + Usage(big, "offset")

\* What was given out; chunks of no bytes do not count.
Given == FoldSet(LAMBDA c, sum : sum + c.length, 0, chunks)

\* The bytes used are the rounded sizes of what was given out.
UsedIsGiven == GetByteUsed = Given
=============================================================================
