---------------------------- MODULE ClosureWalk -----------------------------
(***************************************************************************)
(* The worklist of EnumerateClosureItems (ParserAutomaton.cc): it visits   *)
(* the items of a kernel, then the productions of every variable that can  *)
(* follow a cursor, taking the variables from a stack.  visited is the     *)
(* sequence of the items handed to the callback.                           *)
(*                                                                         *)
(* One step is one call of the callback with the registration that follows *)
(* it, or one variable taken from the stack.                               *)
(***************************************************************************)
EXTENDS Grammars

CONSTANT Walks   \* set of records [grammar, kernel]

ASSUME WalksAssumption ==
    \A w \in Walks : IsGrammar(w.grammar) /\ w.kernel \subseteq Items(w.grammar)

VARIABLES walk,            \* the grammar and the kernel walked
          batch,           \* items of the running inner loop, not yet visited
          added,           \* the variables ever put on the stack
          to_be_visited,   \* the stack
          visited          \* the items handed to the callback, in order

vars == <<walk, batch, added, to_be_visited, visited>>

g == walk.grammar

Init ==
    /\ walk \in Walks
    /\ batch = walk.kernel
    /\ added = {}
    /\ to_be_visited = <<>>
    /\ visited = <<>>

\* try_register_candidate on the symbol after the cursor of it, if any.
TryRegisterCandidate(it) ==
    \/ \E v \in Variables(g) \ added :
        /\ NextIs(g, it, v)
        /\ added' = added \cup {v}
        /\ to_be_visited' = Append(to_be_visited, v)
    \/ /\ \A v \in Variables(g) \ added : ~NextIs(g, it, v)
       /\ UNCHANGED <<added, to_be_visited>>

\* The next item of the kernel, or of the variable taken last.
VisitItem ==
    /\ \E it \in batch :
        /\ \A other \in batch \ {it} : ItemLess(it, other)
        /\ batch' = batch \ {it}
        /\ visited' = Append(visited, it)
        /\ TryRegisterCandidate(it)
    /\ UNCHANGED walk

\* Mutant: the whole stack is dropped with the variable taken.
TakeVariable_Clears ==
    /\ batch = {}
    /\ to_be_visited # <<>>
    /\ batch' = Expansion(g, to_be_visited[Len(to_be_visited)])
    /\ to_be_visited' = <<>>
    /\ UNCHANGED <<walk, added, visited>>

TakeVariable ==
    /\ batch = {}
    /\ to_be_visited # <<>>
    /\ LET n == Len(to_be_visited)
       IN  /\ batch' = Expansion(g, to_be_visited[n])
           /\ to_be_visited' = SubSeq(to_be_visited, 1, n - 1)
    /\ UNCHANGED <<walk, added, visited>>

Done == batch = {} /\ to_be_visited = <<>>

Next == VisitItem \/ TakeVariable \/ (Done /\ UNCHANGED vars)

Spec == Init /\ [][Next]_vars

-----------------------------------------------------------------------------
VisitedItems == {visited[i] : i \in DOMAIN visited}

\* The walk's state is made of items and variables of its grammar.
TypeOK ==
    /\ IsGrammar(g) /\ walk.kernel \subseteq Items(g)
    /\ batch \subseteq Items(g)
    /\ added \subseteq Variables(g)
    /\ to_be_visited \in Seq(Variables(g))
    /\ visited \in Seq(Items(g))

\* When the worklist runs empty the callback has seen the closure of the
\* kernel and nothing else, whatever the order the variables were taken in.
VisitsExactlyTheClosure == Done => VisitedItems = ClosureItems(g, walk.kernel)
=============================================================================
