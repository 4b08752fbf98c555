------------------------- MODULE AutomatonReference -------------------------
(***************************************************************************)
(* What BuildLALRAutomaton makes, against the textbook: the states of the  *)
(* LR(0) automaton against the items valid for viable prefixes, and the    *)
(* lookaheads of the reductions against those of LALR(1).                  *)
(***************************************************************************)
EXTENDS LALRAutomaton, TextbookLR

CONSTANT WordBound   \* the longest word the states are compared on

ASSUME WordBoundAssumption == WordBound \in Nat

\* The edges of the automaton, apart from the reductions that share its maps.
Shifts(i, s) == L!HasEdge(i, s) /\ \A p \in Productions(grammar) : ~Reduces(i, s, p)

Delta ==
    [i \in L!Ids |-> [s \in Symbols(grammar) |-> IF Shifts(i, s) THEN L!Target(i, s) ELSE -1]]

\* The lookaheads a production got in a state.
Registered(i, p) ==
    {t \in Tokens(grammar) : Reduces(i, t, p)}
    \cup (IF p \in eof_action[i] THEN {Eof} ELSE {})

LALRLookaheads(i, p) == Lookaheads(grammar, L!Ids, Delta, i, p)

RootIsLeftRecursive ==
    GotoItems(grammar, InitialItems(grammar), RootVariable(grammar)) # {}

-----------------------------------------------------------------------------
\* The finished LR(0) automaton follows exactly the viable prefixes, and the
\* state a viable prefix leads to holds exactly the items valid for it.
StatesHoldTheValidItems ==
    pc = "extend" =>
        \A n \in 0 .. WordBound : \A word \in [1 .. n -> Symbols(grammar)] :
            LET s == Path(Delta, 0, word)
            IN  IF s = -1 THEN ValidItems(grammar, word) = {}
                ELSE ClosureItems(grammar, states[s]) = ValidItems(grammar, word)

\* Every LALR(1) lookahead is registered, so that no sentence is refused,
\* where the root is not left-recursive.
LookaheadsCoverLALR ==
    (pc = "done" /\ ~RootIsLeftRecursive) =>
        \A i \in L!Ids : \A p \in Finished(i) : LALRLookaheads(i, p) \subseteq Registered(i, p)

\* No state has two uses for one lookahead.
IsLALR ==
    \A i \in L!Ids :
        /\ \A p, q \in Finished(i) : p # q => LALRLookaheads(i, p) \cap LALRLookaheads(i, q) = {}
        /\ \A p \in Finished(i) : \A t \in LALRLookaheads(i, p) \cap Tokens(grammar) :
            Delta[i][t] = -1

\* README.md:3: the generator takes LALR(1) grammars.
LALRGrammarsAreAccepted == (pc = "aborted" /\ EpsilonFree(grammar)) => ~IsLALR

\* Grammar.cc:137 "empty production also indicates epsilon": a grammar with
\* empty productions gets tables too.
EmptyProductionsAreHandled == EpsilonFree(grammar) \/ pc # "aborted"
=============================================================================
