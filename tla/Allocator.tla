----------------------------- MODULE Allocator ------------------------------
(***************************************************************************)
(* What an arena promises: it gives out chunks that lie apart from all it  *)
(* gave before, takes none of them back, and in the end releases all.      *)
(***************************************************************************)
EXTENDS Integers

\* A chunk is a record with block, at and length.
VARIABLES chunks, alive

allocator_vars == <<chunks, alive>>

Apart(c, d) == c.block = d.block => (c.at + c.length <= d.at \/ d.at + d.length <= c.at)

Init == chunks = {} /\ alive = TRUE

Give ==
    /\ alive
    /\ \E c \in chunks' \ chunks :
        /\ \A d \in chunks : Apart(c, d)
        /\ chunks' = chunks \cup {c}
    /\ UNCHANGED alive

Release ==
    /\ alive
    /\ chunks' = {}
    /\ alive' = FALSE

Next == Give \/ Release

Spec == Init /\ [][Next]_allocator_vars
=============================================================================
