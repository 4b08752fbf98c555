-------------------------- MODULE MCLALRAutomaton ---------------------------
(* BuildLALRAutomaton against the textbook, on small and on known grammars. *)
EXTENDS AutomatonReference, MCGrammars

MCGrammarChoices == FreshRooted \cup RootRecursive \cup {OptionalHead} \cup SmallGrammars
DivergentChoices == {SharedGoto, OptionalHead}
=============================================================================
