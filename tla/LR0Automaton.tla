---------------------------- MODULE LR0Automaton ----------------------------
(***************************************************************************)
(* BootstrapParsingAutomaton (ParserAutomaton.cc): the LR(0) automaton of  *)
(* a grammar, built from a queue of the item sets still to expand.  For    *)
(* the set at the front of the queue every symbol is tried in order; a     *)
(* target set met for the first time becomes a state and is queued.        *)
(*                                                                         *)
(* A ParserState is named by its id.  states_ and ptrs_ of ParserAutomaton *)
(* are the one function states, from the ids to the item sets.             *)
(***************************************************************************)
EXTENDS Grammars

CONSTANT GrammarChoices   \* the grammars a configuration may give

VARIABLES grammar,
          states,        \* id -> item set
          action_map,    \* id -> (token -> edge)
          goto_map,      \* id -> (variable -> id)
          unprocessed,   \* the queue of item sets
          cursor,        \* place in SymbolOrder; 0 before the front is begun
          pc

vars == <<grammar, states, action_map, goto_map, unprocessed, cursor, pc>>

PdaEdgeShift(d) == [type |-> "shift", target |-> d]

\* insert_or_assign on a map.
Put(f, k, v) == [x \in DOMAIN f \cup {k} |-> IF x = k THEN v ELSE f[x]]

Ids == DOMAIN states
StateCount == Cardinality(Ids)

\* states_.find
StateOf(items) == CHOOSE i \in Ids : states[i] = items
Known(items) == \E i \in Ids : states[i] = items

\* The id MakeState gives to items: its own, or the next one.
IdOf(items) == IF Known(items) THEN StateOf(items) ELSE StateCount

\* Mutant: the variables are left out.
SymbolOrder_Tokens == grammar.tokens

\* EnumerateSymbols: the tokens, then the variables.
SymbolOrder == grammar.tokens \o grammar.variables

Init ==
    /\ grammar \in GrammarChoices
    /\ states = <<>>
    /\ action_map = <<>>
    /\ goto_map = <<>>
    /\ unprocessed = <<InitialItems(grammar)>>
    /\ cursor = 0
    /\ pc = "bootstrap"

-----------------------------------------------------------------------------
\* src_state = MakeState(unprocessed.front()); only the initial set is new.
BeginState ==
    /\ pc = "bootstrap"
    /\ unprocessed # <<>> /\ cursor = 0
    /\ LET id == IdOf(Head(unprocessed))
       IN  IF Known(Head(unprocessed))
           THEN UNCHANGED <<states, action_map, goto_map>>
           ELSE /\ states' = Put(states, id, Head(unprocessed))
                /\ action_map' = Put(action_map, id, <<>>)
                /\ goto_map' = Put(goto_map, id, <<>>)
    /\ cursor' = 1
    /\ UNCHANGED <<grammar, unprocessed, pc>>

Dest == GotoItems(grammar, Head(unprocessed), SymbolOrder[cursor])

\* No item of the state has its cursor before the symbol.
SkipSymbol ==
    /\ pc = "bootstrap"
    /\ cursor \in 1 .. Len(SymbolOrder)
    /\ Dest = {}
    /\ cursor' = cursor + 1
    /\ UNCHANGED <<grammar, states, action_map, goto_map, unprocessed, pc>>

\* The maps after MakeState(dest_items) and src_state->RegisterShift(...).
RegisterShift(src, dest, s) ==
    LET edges == IF dest \in Ids THEN action_map ELSE Put(action_map, dest, <<>>)
        gotos == IF dest \in Ids THEN goto_map ELSE Put(goto_map, dest, <<>>)
    IN  IF s \in Tokens(grammar)
        THEN /\ action_map' = Put(edges, src, Put(edges[src], s, PdaEdgeShift(dest)))
             /\ goto_map' = gotos
        ELSE /\ action_map' = edges
             /\ goto_map' = Put(gotos, src, Put(gotos[src], s, dest))

\* Mutant: a set that is a state already is queued again.
Queued_Always(items) == Append(unprocessed, items)

\* The queue after MakeState(items): only a new set is pushed.
Queued(items) == IF Known(items) THEN unprocessed ELSE Append(unprocessed, items)

AddTransition ==
    /\ pc = "bootstrap"
    /\ cursor \in 1 .. Len(SymbolOrder)
    /\ Dest # {}
    /\ states' = Put(states, IdOf(Dest), Dest)
    /\ unprocessed' = Queued(Dest)
    /\ RegisterShift(StateOf(Head(unprocessed)), IdOf(Dest), SymbolOrder[cursor])
    /\ cursor' = cursor + 1
    /\ UNCHANGED <<grammar, pc>>

\* Every symbol was tried: unprocessed.pop_front().
EndState ==
    /\ pc = "bootstrap"
    /\ cursor > Len(SymbolOrder)
    /\ unprocessed' = Tail(unprocessed)
    /\ cursor' = 0
    /\ UNCHANGED <<grammar, states, action_map, goto_map, pc>>

\* The queue is empty: the automaton is returned.
Bootstrapped ==
    /\ pc = "bootstrap"
    /\ unprocessed = <<>>
    /\ pc' = "extend"
    /\ UNCHANGED <<grammar, states, action_map, goto_map, unprocessed, cursor>>

Step == BeginState \/ SkipSymbol \/ AddTransition \/ EndState \/ Bootstrapped

Next == Step \/ (pc = "extend" /\ UNCHANGED vars)

Spec == Init /\ [][Next]_vars /\ WF_vars(Step)

-----------------------------------------------------------------------------
\* The edge of a state on a symbol, as LookupTargetState reads it.
HasEdge(i, s) == s \in DOMAIN action_map[i] \cup DOMAIN goto_map[i]
Target(i, s) ==
    IF s \in Tokens(grammar) THEN action_map[i][s].target ELSE goto_map[i][s]

\* The states already expanded are the first ones; of the one at the front
\* of the queue the symbols before the cursor were tried.
Expanded == StateCount - Len(unprocessed)
Tried(i, s) ==
    \/ i < Expanded
    \/ /\ i = Expanded
       /\ \E k \in 1 .. Len(SymbolOrder) : k < cursor /\ SymbolOrder[k] = s

\* MakeState never gives two ids to one item set, and the queue holds, in the
\* order of their ids, exactly the states that still have untried symbols: none
\* is forgotten and none is expanded twice.
QueueIsTheUnexpandedStates ==
    /\ \A i, j \in Ids : states[i] = states[j] => i = j
    /\ states # <<>> =>
        \A k \in DOMAIN unprocessed : unprocessed[k] = states[Expanded + k - 1]

\* At every moment the edges are those of the symbols tried so far, and each
\* leads to the state of the right item set.  In particular RegisterShift's
\* assertions hold: the edge it adds was not there.
EdgesAreTheTriedGotos ==
    \A i \in Ids, s \in Symbols(grammar) :
        LET dest == GotoItems(grammar, states[i], s)
        IN  /\ HasEdge(i, s) <=> (Tried(i, s) /\ dest # {})
            /\ HasEdge(i, s) => states[Target(i, s)] = dest

=============================================================================
