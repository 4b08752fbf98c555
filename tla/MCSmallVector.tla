--------------------------- MODULE MCSmallVector ----------------------------
(* SmallVector with two vectors, two values and three addresses on the heap.*)
EXTENDS SmallVector, TLC

CONSTANTS left, right, zero, one

MCVectors == {left, right}
AnyOrder == Permutations(MCVectors)
MCValues == {zero, one}
MCBlocks == {<<"heap", i>> : i \in 1..3}

\* An assign that throws leaves the vector as it was.  Not so for trivial
\* elements: growAndAssign sets the size to 0 before it grows.
AssignIsUndone ==
    [][\A x \in Vectors, n \in Counts : \A p \in Arguments(x) :
            AssignN(x, n, p) /\ Throws(Memory, x, n) => vec' = vec]_vars
=============================================================================
