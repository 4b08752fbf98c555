--------------------------- MODULE MCClosureWalk ----------------------------
(* ClosureWalk on every kernel of one or two items of the grammars.        *)
EXTENDS ClosureWalk, MCGrammars

MCWalks ==
    UNION {{[grammar |-> gr, kernel |-> {a, b}] : a \in Items(gr), b \in Items(gr)} :
           gr \in FreshRooted \cup RootRecursive \cup {OptionalHead}}
=============================================================================
