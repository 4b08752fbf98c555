----------------------- MODULE ParserGeneratorProofs -----------------------
(***************************************************************************)
(* What holds of the construction for every grammar: the LR(0) automaton   *)
(* has one state per item set and exactly the edges its gotos ask for, and *)
(* the tables made from it keep those edges and reduce only what is        *)
(* finished.  The states hold the items valid for the viable prefixes,     *)
(* lookaheads lie between those of LALR(1) and FOLLOW, and the             *)
(* construction fails only outside SLR(1).                                 *)
(*                                                                         *)
(* So Initialize gives Parse tables of the LR(0) automaton, in which a     *)
(* root that is on no right-hand side is reduced at the end of the input   *)
(* only: the hypotheses under which GenericParserProofs proves the driver  *)
(* right.  The root waits for the end because its FOLLOW set is empty from *)
(* the extended grammar on to the merged sets the reductions are taken     *)
(* from: only the productions of the first state have the new root on the  *)
(* left, and none has it on the right.                                     *)
(***************************************************************************)
EXTENDS ParserGenerator, AutomatonReference, GrammarTheorems, FiniteSetTheorems

-----------------------------------------------------------------------------
(* The construction.                                                       *)

\* The states are numbered from 0 and are different item sets.
StatesAreNumbered ==
    /\ grammar \in GrammarChoices
    /\ L!StateCount \in Nat
    /\ L!Ids = 0 .. (L!StateCount - 1)
    /\ L!Ids = {} => states = <<>>
    /\ \A i \in L!Ids : states[i] \in SUBSET Items(grammar)
    /\ \A i, j \in L!Ids : states[i] = states[j] => i = j
    /\ 0 \in L!Ids => states[0] = InitialItems(grammar)
    /\ DOMAIN action_map = L!Ids /\ DOMAIN goto_map = L!Ids

\* The queue holds the states that are not expanded; before the first state is
\* made it holds the initial set.
QueueHoldsTheRest ==
    /\ unprocessed \in Seq(SUBSET Items(grammar))
    /\ cursor \in Nat
    /\ L!Ids = {} => unprocessed = <<InitialItems(grammar)>> /\ cursor = 0
    /\ L!Ids # {} =>
        /\ Len(unprocessed) <= L!StateCount
        /\ \A k \in 1 .. Len(unprocessed) : unprocessed[k] = states[L!Expanded + k - 1]
    /\ cursor # 0 => unprocessed # <<>> /\ L!Ids # {}
    /\ pc # "bootstrap" => unprocessed = <<>>

\* An edge of a state on a symbol is the goto of a symbol tried.
IsShift(i, t) ==
    \E d \in L!Ids : /\ action_map[i][t] = L!PdaEdgeShift(d)
                     /\ states[d] = GotoItems(grammar, states[i], t)
IsGoto(i, v) ==
    /\ goto_map[i][v] \in L!Ids
    /\ states[goto_map[i][v]] = GotoItems(grammar, states[i], v)

\* A reduction stands where no item waits for the token.
IsReduction(i, t) ==
    /\ pc \in {"register", "done", "aborted"}
    /\ \E p \in Finished(i) : action_map[i][t] = PdaEdgeReduce(p)

Wanted(i, s) == L!Tried(i, s) /\ GotoItems(grammar, states[i], s) # {}

EdgesAreGotos ==
    \A i \in L!Ids :
        /\ DOMAIN action_map[i] \subseteq Tokens(grammar)
        /\ DOMAIN goto_map[i] \subseteq Variables(grammar)
        /\ \A t \in Tokens(grammar) :
            /\ Wanted(i, t) => t \in DOMAIN action_map[i] /\ IsShift(i, t)
            /\ t \in DOMAIN action_map[i] => Wanted(i, t) \/ IsReduction(i, t)
        /\ \A v \in Variables(grammar) :
            v \in DOMAIN goto_map[i] <=> Wanted(i, v)
        /\ \A v \in DOMAIN goto_map[i] : IsGoto(i, v)

\* At the end of the input too only what is finished is reduced.
EofReducesTheFinished ==
    pc \in {"build", "merge", "register", "done"} =>
        /\ DOMAIN eof_action = L!Ids
        /\ \A i \in L!Ids : eof_action[i] \subseteq Finished(i)

AutomatonInvariant ==
    StatesAreNumbered /\ QueueHoldsTheRest /\ EdgesAreGotos /\ EofReducesTheFinished

-----------------------------------------------------------------------------
(* The operators of LR0Automaton                                           *)

\* The instance's copies of the operators on items are those operators.
LEMMA SameOperators ==
    /\ \A K, s : L!GotoItems(grammar, K, s) = GotoItems(grammar, K, s)
    /\ L!InitialItems(grammar) = InitialItems(grammar)
    /\ L!Tokens(grammar) = Tokens(grammar)
    /\ L!Symbols(grammar) = Symbols(grammar)
    /\ \A S : L!Cardinality(S) = Cardinality(S)
<1>1. L!Tokens(grammar) = Tokens(grammar) /\ L!Symbols(grammar) = Symbols(grammar)
  BY DEF L!Symbols, L!Tokens, L!Variables, Symbols, Tokens, Variables
<1>2. L!InitialItems(grammar) = InitialItems(grammar)
  BY DEF L!InitialItems, L!Expansion, L!RootVariable, L!Productions, L!Left, L!Item,
         InitialItems, Expansion, RootVariable, Productions, Left, Item
<1>3. \A K, s : L!GotoItems(grammar, K, s) = GotoItems(grammar, K, s)
  BY DEF L!GotoItems, L!ClosureItems, L!ClosureVariables, L!Seeds, L!Heads, L!Expansion,
         L!NextIs, L!IsFinalized, L!CreateSuccessor, L!Item, L!Productions, L!Left,
         L!Right, L!Variables,
         GotoItems, ClosureItems, ClosureVariables, Seeds, Heads, Expansion, NextIs,
         IsFinalized, CreateSuccessor, Item, Productions, Left, Right, Variables
<1>4. \A S : L!Cardinality(S) = Cardinality(S)
  BY DEF L!Cardinality, Cardinality
<1> QED
  BY <1>1, <1>2, <1>3, <1>4

\* insert_or_assign.
LEMMA PutShape ==
    ASSUME NEW f, NEW k, NEW v
    PROVE  /\ DOMAIN L!Put(f, k, v) = DOMAIN f \cup {k}
           /\ L!Put(f, k, v)[k] = v
           /\ \A x \in DOMAIN f : x # k => L!Put(f, k, v)[x] = f[x]
BY DEF L!Put

\* EnumerateSymbols gives every symbol at one place.
LEMMA EverySymbolOnce ==
    ASSUME IsGrammar(grammar)
    PROVE  /\ Len(L!SymbolOrder) \in Nat
           /\ \A k \in 1 .. Len(L!SymbolOrder) : L!SymbolOrder[k] \in Symbols(grammar)
           /\ \A s \in Symbols(grammar) :
                \E k \in 1 .. Len(L!SymbolOrder) : L!SymbolOrder[k] = s
           /\ \A k, l \in 1 .. Len(L!SymbolOrder) :
                L!SymbolOrder[k] = L!SymbolOrder[l] => k = l
<1> DEFINE ts == grammar.tokens
           vs == grammar.variables
           m == Len(ts)
           n == Len(vs)
<1>1. /\ ts \in Seq(Tokens(grammar)) /\ vs \in Seq(Variables(grammar))
      /\ \A i, j \in DOMAIN ts : ts[i] = ts[j] => i = j
      /\ \A i, j \in DOMAIN vs : vs[i] = vs[j] => i = j
      /\ Tokens(grammar) \cap Variables(grammar) = {}
  BY DEF IsGrammar
<1>2. /\ m \in Nat /\ n \in Nat /\ DOMAIN ts = 1 .. m /\ DOMAIN vs = 1 .. n
      /\ \A i \in 1 .. m : ts[i] \in Tokens(grammar)
      /\ \A i \in 1 .. n : vs[i] \in Variables(grammar)
  BY <1>1
<1>3. /\ Tokens(grammar) = {ts[i] : i \in 1 .. m}
      /\ Variables(grammar) = {vs[i] : i \in 1 .. n}
  BY <1>2 DEF Tokens, Variables
<1>4. /\ Len(L!SymbolOrder) = m + n
      /\ \A k \in 1 .. m + n :
            L!SymbolOrder[k] = IF k <= m THEN ts[k] ELSE vs[k - m]
  <2> HIDE DEF m, n, ts, vs
  <2>1. L!SymbolOrder = ts \o vs
    BY DEF L!SymbolOrder, ts, vs
  <2>2. /\ Len(ts \o vs) = Len(ts) + Len(vs)
        /\ \A k \in 1 .. Len(ts) + Len(vs) :
              (ts \o vs)[k] = IF k <= Len(ts) THEN ts[k] ELSE vs[k - Len(ts)]
    BY <1>1
  <2> QED
    BY <2>1, <2>2 DEF m, n
<1> HIDE DEF ts, vs, m, n
<1>5. \A k \in 1 .. m + n : k > m => k - m \in 1 .. n
  BY <1>2
<1>6. \A k \in 1 .. m + n : IF k <= m THEN L!SymbolOrder[k] \in Tokens(grammar)
                                      ELSE L!SymbolOrder[k] \in Variables(grammar)
  BY <1>2, <1>4, <1>5
<1>7. \A k, l \in 1 .. m + n : L!SymbolOrder[k] = L!SymbolOrder[l] => k = l
  <2> SUFFICES ASSUME NEW k \in 1 .. m + n, NEW l \in 1 .. m + n,
                      L!SymbolOrder[k] = L!SymbolOrder[l]
               PROVE  k = l
    OBVIOUS
  <2>1. CASE k <= m /\ l <= m
    <3>1. k \in 1 .. m /\ l \in 1 .. m
      BY <1>2, <2>1
    <3>2. ts[k] = ts[l]
      BY <1>4, <2>1
    <3> QED
      BY <1>1, <1>2, <3>1, <3>2
  <2>2. CASE k > m /\ l > m
    <3>1. vs[k - m] = vs[l - m]
      BY <1>2, <1>4, <2>2
    <3>2. k - m = l - m
      BY <1>1, <1>2, <1>5, <2>2, <3>1
    <3> QED
      BY <1>2, <3>2
  <2>3. CASE ~(k <= m <=> l <= m)
    BY <1>1, <1>2, <1>6, <2>3
  <2> QED
    BY <1>2, <2>1, <2>2, <2>3
<1>8. ASSUME NEW s \in Symbols(grammar)
      PROVE  \E k \in 1 .. m + n : L!SymbolOrder[k] = s
  <2>1. CASE s \in Tokens(grammar)
    <3>1. PICK i \in 1 .. m : ts[i] = s
      BY <1>3, <2>1
    <3>2. i \in 1 .. m + n /\ i <= m
      BY <1>2
    <3> QED
      BY <1>4, <3>1, <3>2
  <2>2. CASE s \in Variables(grammar)
    <3>1. PICK i \in 1 .. n : vs[i] = s
      BY <1>3, <2>2
    <3>2. m + i \in 1 .. m + n /\ ~(m + i <= m) /\ (m + i) - m = i
      BY <1>2
    <3> QED
      BY <1>4, <3>1, <3>2
  <2> QED
    BY <2>1, <2>2 DEF Symbols
<1> QED
  BY <1>2, <1>4, <1>6, <1>7, <1>8 DEF Symbols

-----------------------------------------------------------------------------
(* The LR(0) automaton                                                     *)

\* The grammar is one that LoadSymbolInfo can build.
LEMMA GrammarIsGrammar == StatesAreNumbered => IsGrammar(grammar)
BY GrammarChoicesAssumption DEF StatesAreNumbered

\* The set at the front of the queue is that of the first unexpanded state.
LEMMA FrontIsExpanded ==
    ASSUME StatesAreNumbered, QueueHoldsTheRest, unprocessed # <<>>, L!Ids # {}
    PROVE  /\ L!Expanded \in L!Ids /\ L!Expanded \in Nat
           /\ Head(unprocessed) = states[L!Expanded]
           /\ L!Known(Head(unprocessed))
           /\ L!StateOf(Head(unprocessed)) = L!Expanded
<1> DEFINE n == L!StateCount
           e == L!Expanded
           m == Len(unprocessed)
<1>1. /\ n \in Nat /\ L!Ids = 0 .. (n - 1)
      /\ \A i, j \in L!Ids : states[i] = states[j] => i = j
  BY DEF StatesAreNumbered
<1>2. m \in Nat /\ m # 0 /\ m <= n /\ Head(unprocessed) = unprocessed[1]
  BY DEF QueueHoldsTheRest
<1>3. e = n - m
  BY DEF L!Expanded
<1>4. \A k \in 1 .. m : unprocessed[k] = states[e + k - 1]
  BY DEF QueueHoldsTheRest
<1> HIDE DEF n, e, m
<1>5. e \in L!Ids /\ e \in Nat /\ 1 \in 1 .. m /\ e + 1 - 1 = e
  BY <1>1, <1>2, <1>3
<1>6. Head(unprocessed) = states[e]
  BY <1>2, <1>4, <1>5
<1>7. L!Known(Head(unprocessed))
  BY <1>5, <1>6 DEF L!Known
<1>8. L!StateOf(Head(unprocessed)) = e
  BY <1>1, <1>5, <1>6 DEF L!StateOf
<1> QED
  BY <1>5, <1>6, <1>7, <1>8 DEF e

\* The id MakeState gives: the one the set has, or the next one.
LEMMA IdOfKnown ==
    ASSUME StatesAreNumbered, NEW items
    PROVE  /\ L!Known(items) => L!IdOf(items) \in L!Ids /\ states[L!IdOf(items)] = items
           /\ ~L!Known(items) => /\ L!IdOf(items) = L!StateCount
                                 /\ L!IdOf(items) \notin L!Ids
BY DEF L!Known, L!IdOf, L!StateOf, StatesAreNumbered

\* MakeState keeps the states numbered: a new set gets the next number.
LEMMA MakeState ==
    ASSUME StatesAreNumbered, grammar' = grammar,
           NEW items \in SUBSET Items(grammar),
           L!Ids = {} => items = InitialItems(grammar),
           states' = L!Put(states, L!IdOf(items), items),
           DOMAIN action_map' = L!Ids \cup {L!IdOf(items)},
           DOMAIN goto_map' = L!Ids \cup {L!IdOf(items)}
    PROVE  /\ StatesAreNumbered'
           /\ L!Ids' = L!Ids \cup {L!IdOf(items)}
           /\ L!StateCount' = IF L!Known(items) THEN L!StateCount ELSE L!StateCount + 1
           /\ states'[L!IdOf(items)] = items
           /\ \A i \in L!Ids : states'[i] = states[i]
<1> DEFINE d == L!IdOf(items)
           n == L!StateCount
<1>1. /\ n \in Nat /\ L!Ids = 0 .. (n - 1)
      /\ \A i \in L!Ids : states[i] \in SUBSET Items(grammar)
      /\ \A i, j \in L!Ids : states[i] = states[j] => i = j
      /\ 0 \in L!Ids => states[0] = InitialItems(grammar)
  BY DEF StatesAreNumbered
<1>2. /\ L!Known(items) => d \in L!Ids /\ states[d] = items
      /\ ~L!Known(items) => d = n /\ d \notin L!Ids
  BY IdOfKnown
<1>3. L!Ids' = L!Ids \cup {d}
  BY PutShape DEF L!Ids
<1>4. states'[d] = items
  BY DEF L!Put
<1>5. \A i \in L!Ids : states'[i] = states[i]
  <2> SUFFICES ASSUME NEW i \in L!Ids PROVE states'[i] = states[i]
    OBVIOUS
  <2>1. CASE i = d
    BY <1>2, <1>4, <2>1
  <2>2. CASE i # d
    BY <2>2 DEF L!Put, L!Ids
  <2> QED
    BY <2>1, <2>2
<1>6. L!StateCount' = IF L!Known(items) THEN n ELSE n + 1
  <2>1. CASE L!Known(items)
    <3>1. L!Ids' = L!Ids
      BY <1>2, <1>3, <2>1
    <3> QED
      BY <2>1, <3>1 DEF L!StateCount, n
  <2>2. CASE ~L!Known(items)
    <3>1. L!Ids' = 0 .. n
      BY <1>1, <1>2, <1>3, <2>2
    <3>2. Cardinality(0 .. n) = n + 1
      BY <1>1, FS_Interval
    <3>3. L!StateCount' = Cardinality(L!Ids')
      BY SameOperators DEF L!StateCount
    <3> QED
      BY <2>2, <3>1, <3>2, <3>3
  <2> QED
    BY <2>1, <2>2
<1> HIDE DEF n, d
<1>7. L!Ids' = 0 .. (L!StateCount' - 1) /\ L!StateCount' \in Nat
  BY <1>1, <1>2, <1>3, <1>6
<1>8. \A i \in L!Ids' : states'[i] \in SUBSET Items(grammar)
  BY <1>1, <1>3, <1>4, <1>5
<1>9. \A i, j \in L!Ids' : states'[i] = states'[j] => i = j
  <2>1. \A i \in L!Ids : states'[i] = states'[d] => i = d
    <3>1. CASE L!Known(items)
      BY <1>1, <1>2, <1>5, <3>1
    <3>2. CASE ~L!Known(items)
      BY <1>4, <1>5, <3>2 DEF L!Known
    <3> QED
      BY <3>1, <3>2
  <2> QED
    BY <1>1, <1>3, <1>5, <2>1
<1>10. 0 \in L!Ids' => states'[0] = InitialItems(grammar)
  <2>1. CASE L!Ids = {}
    BY <1>3, <1>4, <2>1
  <2>2. CASE L!Ids # {}
    <3>1. 0 \in L!Ids
      BY <1>1, <2>2
    <3> QED
      BY <1>1, <1>5, <3>1
  <2> QED
    BY <2>1, <2>2
<1>11. InitialItems(grammar)' = InitialItems(grammar) /\ Items(grammar)' = Items(grammar)
  OBVIOUS
<1>12. StatesAreNumbered'
  BY <1>3, <1>7, <1>8, <1>9, <1>10, <1>11 DEF StatesAreNumbered, d
<1> QED
  BY <1>3, <1>4, <1>5, <1>6, <1>12 DEF d, n

\* MakeState of the initial set.
LEMMA BeginStateKeepsInvariant ==
    ASSUME AutomatonInvariant, L!BeginState, UNCHANGED eof_action
    PROVE  AutomatonInvariant'
<1>1. /\ pc = "bootstrap" /\ pc' = pc /\ unprocessed # <<>> /\ cursor = 0 /\ cursor' = 1
      /\ grammar' = grammar /\ unprocessed' = unprocessed
  BY DEF L!BeginState
<1>2. CASE L!Ids # {}
  <2>1. L!Known(Head(unprocessed))
    BY <1>1, <1>2, FrontIsExpanded DEF AutomatonInvariant
  <2>2. UNCHANGED <<states, action_map, goto_map>>
    BY <2>1 DEF L!BeginState
  <2>3. \A i, s : L!Tried(i, s)' <=> L!Tried(i, s)
    <3>1. L!Expanded' = L!Expanded /\ L!SymbolOrder' = L!SymbolOrder
      BY <1>1, <2>2 DEF L!Expanded, L!StateCount, L!Ids, L!SymbolOrder
    <3>2. \A k \in 1 .. Len(L!SymbolOrder) : ~(k < cursor) /\ ~(k < cursor')
      BY <1>1
    <3> QED
      BY <3>1, <3>2 DEF L!Tried
  <2>4. StatesAreNumbered'
    BY <1>1, <2>2 DEF AutomatonInvariant, StatesAreNumbered, L!Ids, L!StateCount
  <2>5. QueueHoldsTheRest'
    BY <1>1, <1>2, <2>2
    DEF AutomatonInvariant, QueueHoldsTheRest, L!Ids, L!StateCount, L!Expanded
  <2>6. EdgesAreGotos'
    BY <1>1, <2>2, <2>3
    DEF AutomatonInvariant, EdgesAreGotos, Wanted, IsShift, IsGoto, IsReduction, L!Ids
  <2> QED
    BY <1>1, <2>4, <2>5, <2>6 DEF AutomatonInvariant, EofReducesTheFinished
<1>3. CASE L!Ids = {}
  <2> DEFINE items == InitialItems(grammar)
  <2>1. Head(unprocessed) = items /\ unprocessed = <<items>>
    BY <1>3 DEF AutomatonInvariant, QueueHoldsTheRest
  <2>2. ~L!Known(items)
    BY <1>3 DEF L!Known
  <2>3. L!StateCount = 0 /\ L!IdOf(items) = 0
    BY <1>3, <2>2, SameOperators, FS_EmptySet DEF L!StateCount, L!IdOf
  <2>4. /\ states' = L!Put(states, 0, items)
        /\ action_map' = L!Put(action_map, 0, <<>>)
        /\ goto_map' = L!Put(goto_map, 0, <<>>)
    BY <2>1, <2>2, <2>3 DEF L!BeginState
  <2>5. items \in SUBSET Items(grammar)
    BY GrammarIsGrammar, ExpansionType DEF InitialItems, AutomatonInvariant
  <2>6. DOMAIN action_map = {} /\ DOMAIN goto_map = {}
    BY <1>3 DEF AutomatonInvariant, StatesAreNumbered
  <2>7. DOMAIN action_map' = {0} /\ DOMAIN goto_map' = {0}
    BY <2>4, <2>6 DEF L!Put
  <2>8. /\ StatesAreNumbered' /\ L!Ids' = {0} /\ L!StateCount' = 1 /\ states'[0] = items
    BY <1>1, <1>3, <2>2, <2>3, <2>4, <2>5, <2>7, MakeState DEF AutomatonInvariant
  <2>9. Len(unprocessed) = 1 /\ unprocessed[1] = items
    BY <2>1
  <2>10. L!Expanded' = 0
    BY <1>1, <2>8, <2>9 DEF L!Expanded
  <2>11. QueueHoldsTheRest'
    <3>1. \A k \in 1 .. 1 : unprocessed'[k] = states'[L!Expanded' + k - 1]
      BY <1>1, <2>8, <2>9, <2>10
    <3> QED
      BY <1>1, <2>8, <2>9, <3>1 DEF AutomatonInvariant, QueueHoldsTheRest
  <2>12. \A s : ~Wanted(0, s)'
    <3>1. \A s : ~L!Tried(0, s)'
      BY <1>1, <2>10 DEF L!Tried
    <3> QED
      BY <3>1 DEF Wanted
  <2>13. action_map'[0] = <<>> /\ goto_map'[0] = <<>>
    BY <2>4 DEF L!Put
  <2>14. EdgesAreGotos'
    BY <2>8, <2>12, <2>13 DEF EdgesAreGotos
  <2> QED
    BY <1>1, <2>8, <2>11, <2>14 DEF AutomatonInvariant, EofReducesTheFinished
<1> QED
  BY <1>2, <1>3

\* One more symbol of the state at the front has been tried.
LEMMA TriedNext ==
    ASSUME StatesAreNumbered, cursor \in 1 .. Len(L!SymbolOrder), cursor' = cursor + 1,
           grammar' = grammar, L!Expanded' = L!Expanded
    PROVE  \A i, s : L!Tried(i, s)' <=>
                (L!Tried(i, s) \/ (i = L!Expanded /\ s = L!SymbolOrder[cursor]))
<1>1. Len(L!SymbolOrder) \in Nat /\ cursor \in Nat
  BY GrammarIsGrammar, EverySymbolOnce
<1>2. L!SymbolOrder' = L!SymbolOrder
  BY DEF L!SymbolOrder
<1>3. \A k \in 1 .. Len(L!SymbolOrder) : k < cursor' <=> (k < cursor \/ k = cursor)
  BY <1>1
<1> QED
  BY <1>1, <1>2, <1>3 DEF L!Tried

\* A symbol the front set has no goto for leaves states, edges and queue alone.
LEMMA SkipSymbolKeepsInvariant ==
    ASSUME AutomatonInvariant, L!SkipSymbol, UNCHANGED eof_action
    PROVE  AutomatonInvariant'
<1>1. /\ pc = "bootstrap" /\ pc' = pc /\ cursor \in 1 .. Len(L!SymbolOrder)
      /\ cursor' = cursor + 1
      /\ L!GotoItems(grammar, Head(unprocessed), L!SymbolOrder[cursor]) = {}
      /\ UNCHANGED <<grammar, states, action_map, goto_map, unprocessed>>
  BY DEF L!SkipSymbol, L!Dest
<1>2. unprocessed # <<>> /\ L!Ids # {} /\ cursor \in Nat
  BY <1>1 DEF AutomatonInvariant, QueueHoldsTheRest
<1>3. L!Ids' = L!Ids /\ L!StateCount' = L!StateCount /\ L!Expanded' = L!Expanded
  BY <1>1 DEF L!Ids, L!StateCount, L!Expanded
<1>4. StatesAreNumbered'
  BY <1>1, <1>3 DEF AutomatonInvariant, StatesAreNumbered
<1>5. QueueHoldsTheRest'
  BY <1>1, <1>2, <1>3 DEF AutomatonInvariant, QueueHoldsTheRest
<1>6. \A i \in L!Ids : \A s : Wanted(i, s)' <=> Wanted(i, s)
  <2>1. Head(unprocessed) = states[L!Expanded]
    BY <1>2, FrontIsExpanded DEF AutomatonInvariant
  <2>2. GotoItems(grammar, states[L!Expanded], L!SymbolOrder[cursor]) = {}
    BY <1>1, <2>1, SameOperators
  <2>3. \A i, s : L!Tried(i, s)' <=>
                (L!Tried(i, s) \/ (i = L!Expanded /\ s = L!SymbolOrder[cursor]))
    BY <1>1, <1>3, TriedNext DEF AutomatonInvariant
  <2> QED
    BY <1>1, <2>2, <2>3 DEF Wanted
<1>7. EdgesAreGotos'
  BY <1>1, <1>3, <1>6
  DEF AutomatonInvariant, EdgesAreGotos, IsShift, IsGoto, IsReduction
<1> QED
  BY <1>1, <1>4, <1>5, <1>7 DEF AutomatonInvariant, EofReducesTheFinished

\* MakeState of a target set and RegisterShift: the new edge is the goto of the
\* symbol in hand, and no edge is replaced.
LEMMA AddTransitionKeepsInvariant ==
    ASSUME AutomatonInvariant, L!AddTransition, UNCHANGED eof_action
    PROVE  AutomatonInvariant'
<1> PICK e, s, dest, d :
        /\ e = L!Expanded /\ s = L!SymbolOrder[cursor]
        /\ dest = GotoItems(grammar, states[e], s) /\ d = L!IdOf(dest)
  OBVIOUS
<1>1. /\ pc = "bootstrap" /\ pc' = pc /\ cursor \in 1 .. Len(L!SymbolOrder)
      /\ cursor' = cursor + 1 /\ grammar' = grammar
  BY DEF L!AddTransition
<1>2. /\ unprocessed # <<>> /\ L!Ids # {} /\ cursor \in Nat
      /\ StatesAreNumbered /\ QueueHoldsTheRest /\ EdgesAreGotos
  BY <1>1 DEF AutomatonInvariant, QueueHoldsTheRest
<1>3. /\ e \in L!Ids /\ e \in Nat
      /\ Head(unprocessed) = states[e] /\ L!StateOf(Head(unprocessed)) = e
  BY <1>2, FrontIsExpanded
<1>4. L!Dest = dest
  BY <1>3, SameOperators DEF L!Dest
<1>5. /\ dest # {}
      /\ states' = L!Put(states, d, dest)
      /\ unprocessed' = L!Queued(dest)
      /\ L!RegisterShift(e, d, s)
  BY <1>3, <1>4 DEF L!AddTransition
<1>6. s \in Symbols(grammar) /\ IsGrammar(grammar)
  BY <1>1, <1>2, GrammarIsGrammar, EverySymbolOnce
<1>7. dest \in SUBSET Items(grammar)
  BY <1>2, <1>3, <1>6, GotoItemsType DEF StatesAreNumbered
<1>8. /\ DOMAIN action_map' = L!Ids \cup {d}
      /\ DOMAIN goto_map' = L!Ids \cup {d}
      /\ \A i \in L!Ids \ {e} :
            action_map'[i] = action_map[i] /\ goto_map'[i] = goto_map[i]
      /\ d \notin L!Ids => action_map'[d] = <<>> /\ goto_map'[d] = <<>>
      /\ s \in Tokens(grammar) =>
            /\ action_map'[e] = L!Put(action_map[e], s, L!PdaEdgeShift(d))
            /\ goto_map'[e] = goto_map[e]
      /\ s \notin Tokens(grammar) =>
            /\ action_map'[e] = action_map[e]
            /\ goto_map'[e] = L!Put(goto_map[e], s, d)
  <2> DEFINE edges == IF d \in L!Ids THEN action_map ELSE L!Put(action_map, d, <<>>)
             gotos == IF d \in L!Ids THEN goto_map ELSE L!Put(goto_map, d, <<>>)
             edge == L!PdaEdgeShift(d)
  <2>1. IF s \in Tokens(grammar)
        THEN /\ action_map' = L!Put(edges, e, L!Put(edges[e], s, edge))
             /\ goto_map' = gotos
        ELSE /\ action_map' = edges
             /\ goto_map' = L!Put(gotos, e, L!Put(gotos[e], s, d))
    BY <1>5, SameOperators DEF L!RegisterShift
  <2>2. /\ DOMAIN edges = L!Ids \cup {d} /\ DOMAIN gotos = L!Ids \cup {d}
        /\ \A i \in L!Ids : edges[i] = action_map[i] /\ gotos[i] = goto_map[i]
        /\ d \notin L!Ids => edges[d] = <<>> /\ gotos[d] = <<>>
    BY <1>2, <1>3 DEF L!Put, StatesAreNumbered
  <2> HIDE DEF edges, gotos, edge
  <2>3. CASE s \in Tokens(grammar)
    <3> DEFINE new == L!Put(action_map[e], s, edge)
    <3>1. action_map' = L!Put(edges, e, new) /\ goto_map' = gotos
      BY <1>3, <2>1, <2>2, <2>3
    <3> HIDE DEF new
    <3>2. /\ DOMAIN action_map' = L!Ids \cup {d}
          /\ action_map'[e] = new
          /\ \A i \in DOMAIN edges : i # e => action_map'[i] = edges[i]
      BY <1>3, <2>2, <3>1 DEF L!Put
    <3> QED
      BY <1>3, <2>2, <2>3, <3>1, <3>2 DEF new, edge
  <2>4. CASE s \notin Tokens(grammar)
    <3> DEFINE new == L!Put(goto_map[e], s, d)
    <3>1. goto_map' = L!Put(gotos, e, new) /\ action_map' = edges
      BY <1>3, <2>1, <2>2, <2>4
    <3> HIDE DEF new
    <3>2. /\ DOMAIN goto_map' = L!Ids \cup {d}
          /\ goto_map'[e] = new
          /\ \A i \in DOMAIN gotos : i # e => goto_map'[i] = gotos[i]
      BY <1>3, <2>2, <3>1 DEF L!Put
    <3> QED
      BY <1>3, <2>2, <2>4, <3>1, <3>2 DEF new
  <2> QED
    BY <2>3, <2>4
<1>9. /\ StatesAreNumbered'
      /\ L!Ids' = L!Ids \cup {d}
      /\ L!StateCount' = IF L!Known(dest) THEN L!StateCount ELSE L!StateCount + 1
      /\ states'[d] = dest
      /\ \A i \in L!Ids : states'[i] = states[i]
  BY <1>1, <1>2, <1>5, <1>7, <1>8, MakeState
<1>10. /\ ~L!Known(dest) => d = L!StateCount /\ d \notin L!Ids
       /\ L!Known(dest) => d \in L!Ids
  BY <1>2, IdOfKnown
<1>11. /\ unprocessed' \in Seq(SUBSET Items(grammar))
       /\ Len(unprocessed') = IF L!Known(dest) THEN Len(unprocessed) ELSE Len(unprocessed) + 1
       /\ Len(unprocessed) \in Nat /\ unprocessed' # <<>>
       /\ \A k \in 1 .. Len(unprocessed) : unprocessed'[k] = unprocessed[k]
       /\ ~L!Known(dest) => unprocessed'[Len(unprocessed) + 1] = dest
  <2>1. unprocessed \in Seq(SUBSET Items(grammar))
    BY <1>2 DEF QueueHoldsTheRest
  <2> QED
    BY <1>2, <1>5, <1>7, <2>1 DEF L!Queued
<1>12. L!Expanded' = e
  BY <1>2, <1>9, <1>11 DEF L!Expanded, StatesAreNumbered
<1>13. QueueHoldsTheRest'
  <2> DEFINE n == L!StateCount
             m == Len(unprocessed)
  <2>1. /\ n \in Nat /\ m \in Nat /\ m <= n /\ e = n - m
        /\ L!Ids = 0 .. (n - 1) /\ L!Ids # {}
        /\ \A k \in 1 .. m : unprocessed[k] = states[e + k - 1]
    BY <1>2, <1>11 DEF QueueHoldsTheRest, StatesAreNumbered, L!Expanded
  <2> HIDE DEF n, m
  <2>2. \A k \in 1 .. m : unprocessed'[k] = states'[e + k - 1]
    <3> SUFFICES ASSUME NEW k \in 1 .. m PROVE unprocessed'[k] = states'[e + k - 1]
      OBVIOUS
    <3>1. e + k - 1 \in L!Ids
      BY <2>1
    <3> QED
      BY <1>9, <1>11, <2>1, <3>1 DEF m
  <2>3. ~L!Known(dest) => unprocessed'[m + 1] = states'[e + (m + 1) - 1]
    BY <1>9, <1>10, <1>11, <2>1 DEF m, n
  <2>4. Len(unprocessed') <= L!StateCount'
    BY <1>9, <1>11, <2>1 DEF m, n
  <2>5. \A k \in 1 .. Len(unprocessed') : unprocessed'[k] = states'[e + k - 1]
    <3>1. CASE L!Known(dest)
      BY <1>11, <2>2, <3>1 DEF m
    <3>2. CASE ~L!Known(dest)
      <4>1. \A k \in 1 .. m + 1 : k \in 1 .. m \/ k = m + 1
        BY <2>1
      <4> QED
        BY <1>11, <2>2, <2>3, <3>2, <4>1 DEF m
    <3> QED
      BY <3>1, <3>2
  <2>6. L!Ids' # {}
    BY <1>9
  <2> QED
    BY <1>1, <1>2, <1>11, <1>12, <2>4, <2>5, <2>6 DEF QueueHoldsTheRest
<1>14. EdgesAreGotos'
  <2>1. \A i, x : L!Tried(i, x)' <=> (L!Tried(i, x) \/ (i = e /\ x = s))
    BY <1>1, <1>2, <1>12, TriedNext
  <2>2. ASSUME NEW i \in L!Ids, NEW x
        PROVE  Wanted(i, x)' <=> (Wanted(i, x) \/ (i = e /\ x = s))
    BY <1>1, <1>3, <1>5, <1>9, <2>1 DEF Wanted
  <2>3. ASSUME NEW i \in L!Ids, NEW t
        PROVE  /\ ~IsReduction(i, t)
               /\ action_map'[i][t] = action_map[i][t] => (IsShift(i, t) => IsShift(i, t)')
               /\ goto_map'[i][t] = goto_map[i][t] => (IsGoto(i, t) => IsGoto(i, t)')
    BY <1>1, <1>9 DEF IsShift, IsGoto, IsReduction
  <2>4. ASSUME NEW i \in L!Ids
        PROVE  /\ DOMAIN action_map[i] \subseteq Tokens(grammar)
               /\ DOMAIN goto_map[i] \subseteq Variables(grammar)
               /\ \A t \in Tokens(grammar) :
                    /\ t \in DOMAIN action_map[i] <=> Wanted(i, t)
                    /\ Wanted(i, t) => IsShift(i, t)
               /\ \A v \in Variables(grammar) :
                    v \in DOMAIN goto_map[i] <=> Wanted(i, v)
               /\ \A v \in DOMAIN goto_map[i] : IsGoto(i, v)
    BY <1>2, <2>3 DEF EdgesAreGotos
  <2> SUFFICES ASSUME NEW i \in L!Ids'
               PROVE  /\ DOMAIN action_map'[i] \subseteq Tokens(grammar)
                      /\ DOMAIN goto_map'[i] \subseteq Variables(grammar)
                      /\ \A t \in Tokens(grammar) :
                            /\ t \in DOMAIN action_map'[i] <=> Wanted(i, t)'
                            /\ Wanted(i, t)' => IsShift(i, t)'
                      /\ \A v \in Variables(grammar) :
                            v \in DOMAIN goto_map'[i] <=> Wanted(i, v)'
                      /\ \A v \in DOMAIN goto_map'[i] : IsGoto(i, v)'
    BY <1>1 DEF EdgesAreGotos
  <2>5. CASE i \notin L!Ids
    <3>1. i = d /\ action_map'[i] = <<>> /\ goto_map'[i] = <<>>
      BY <1>8, <1>9, <2>5
    <3>2. i = L!StateCount /\ i \in Nat /\ e < i
      BY <1>2, <1>3, <1>10, <2>5, <3>1 DEF StatesAreNumbered
    <3>3. \A x : ~L!Tried(i, x)'
      BY <1>3, <1>12, <3>2 DEF L!Tried
    <3>4. \A x : ~Wanted(i, x)'
      BY <3>3 DEF Wanted
    <3> QED
      BY <3>1, <3>4
  <2>6. CASE i \in L!Ids /\ i # e
    BY <1>8, <2>2, <2>3, <2>4, <2>6
  <2>7. CASE i = e
    <3>2. d \in L!Ids' /\ states'[d] = GotoItems(grammar, states'[e], s)
      BY <1>3, <1>9
    <3>3. CASE s \in Tokens(grammar)
      <4>1. s \notin Variables(grammar)
        BY <1>6, <3>3 DEF IsGrammar
      <4>2. /\ DOMAIN action_map'[e] = DOMAIN action_map[e] \cup {s}
            /\ action_map'[e][s] = L!PdaEdgeShift(d)
            /\ \A t \in DOMAIN action_map[e] : t # s => action_map'[e][t] = action_map[e][t]
            /\ goto_map'[e] = goto_map[e]
        BY <1>8, <3>3 DEF L!Put
      <4>3. IsShift(e, s)'
        BY <1>1, <3>2, <4>2 DEF IsShift
      <4> QED
        BY <1>3, <2>2, <2>3, <2>4, <2>7, <3>3, <4>1, <4>2, <4>3
    <3>4. CASE s \notin Tokens(grammar)
      <4>1. s \in Variables(grammar)
        BY <1>6, <3>4 DEF Symbols
      <4>2. /\ DOMAIN goto_map'[e] = DOMAIN goto_map[e] \cup {s}
            /\ goto_map'[e][s] = d
            /\ \A v \in DOMAIN goto_map[e] : v # s => goto_map'[e][v] = goto_map[e][v]
            /\ action_map'[e] = action_map[e]
        BY <1>8, <3>4 DEF L!Put
      <4>3. IsGoto(e, s)'
        BY <1>1, <3>2, <4>2 DEF IsGoto
      <4> QED
        BY <1>3, <2>2, <2>3, <2>4, <2>7, <3>4, <4>1, <4>2, <4>3
    <3> QED
      BY <3>3, <3>4
  <2> QED
    BY <2>5, <2>6, <2>7
<1> QED
  BY <1>1, <1>9, <1>13, <1>14 DEF AutomatonInvariant, EofReducesTheFinished

\* pop_front: every symbol of the front state was tried.
LEMMA EndStateKeepsInvariant ==
    ASSUME AutomatonInvariant, L!EndState, UNCHANGED eof_action
    PROVE  AutomatonInvariant'
<1>1. /\ pc = "bootstrap" /\ pc' = pc /\ cursor > Len(L!SymbolOrder) /\ cursor' = 0
      /\ unprocessed' = Tail(unprocessed)
      /\ UNCHANGED <<grammar, states, action_map, goto_map>>
  BY DEF L!EndState
<1>2. StatesAreNumbered /\ QueueHoldsTheRest /\ EdgesAreGotos /\ IsGrammar(grammar)
  BY GrammarIsGrammar DEF AutomatonInvariant
<1>3. Len(L!SymbolOrder) \in Nat /\ cursor \in Nat /\ cursor # 0
  BY <1>1, <1>2, EverySymbolOnce DEF QueueHoldsTheRest
<1>4. unprocessed # <<>> /\ L!Ids # {}
  BY <1>2, <1>3 DEF QueueHoldsTheRest
<1>5. L!Ids' = L!Ids /\ L!StateCount' = L!StateCount
  BY <1>1 DEF L!Ids, L!StateCount
<1> DEFINE n == L!StateCount
           m == Len(unprocessed)
           e == L!Expanded
<1>6. /\ n \in Nat /\ m \in Nat /\ m # 0 /\ m <= n /\ e = n - m
      /\ L!Ids = 0 .. (n - 1)
      /\ \A k \in 1 .. m : unprocessed[k] = states[e + k - 1]
  BY <1>2, <1>4 DEF QueueHoldsTheRest, StatesAreNumbered, L!Expanded
<1>7. /\ unprocessed' \in Seq(SUBSET Items(grammar)) /\ Len(unprocessed') = m - 1
      /\ \A k \in 1 .. m - 1 : unprocessed'[k] = unprocessed[k + 1]
  BY <1>1, <1>2, <1>4 DEF QueueHoldsTheRest
<1>8. L!Expanded' = n - (m - 1)
  BY <1>5, <1>7 DEF L!Expanded
<1> HIDE DEF n, m, e
<1>9. L!Expanded' = e + 1
  BY <1>6, <1>8
<1>10. StatesAreNumbered'
  BY <1>1, <1>2, <1>5 DEF StatesAreNumbered
<1>11. QueueHoldsTheRest'
  <2>1. \A k \in 1 .. m - 1 : /\ k + 1 \in 1 .. m
                              /\ e + (k + 1) - 1 = (e + 1) + k - 1
    BY <1>6
  <2>2. \A k \in 1 .. m - 1 : unprocessed'[k] = states[(e + 1) + k - 1]
    BY <1>6, <1>7, <2>1
  <2>3. m - 1 <= L!StateCount
    BY <1>6 DEF n
  <2> QED
    BY <1>1, <1>4, <1>5, <1>7, <1>9, <2>2, <2>3 DEF QueueHoldsTheRest
<1>12. \A i \in L!Ids, s \in Symbols(grammar) : Wanted(i, s)' <=> Wanted(i, s)
  <2>1. \A s \in Symbols(grammar) :
            \E k \in 1 .. Len(L!SymbolOrder) : k < cursor /\ L!SymbolOrder[k] = s
    BY <1>1, <1>2, <1>3, EverySymbolOnce
  <2>2. \A i \in L!Ids, s \in Symbols(grammar) : L!Tried(i, s) <=> i < e + 1
    BY <1>6, <2>1 DEF L!Tried, e
  <2>3. \A i, s : L!Tried(i, s)' <=> i < e + 1
    <3>1. \A k \in 1 .. Len(L!SymbolOrder) : ~(k < 0)
      BY <1>3
    <3>2. L!SymbolOrder' = L!SymbolOrder
      BY <1>1 DEF L!SymbolOrder
    <3> QED
      BY <1>1, <1>9, <3>1, <3>2 DEF L!Tried
  <2> QED
    BY <1>1, <2>2, <2>3 DEF Wanted
<1>13. EdgesAreGotos'
  BY <1>1, <1>2, <1>5, <1>12
  DEF EdgesAreGotos, IsShift, IsGoto, IsReduction, Symbols
<1> QED
  BY <1>1, <1>10, <1>11, <1>13 DEF AutomatonInvariant, EofReducesTheFinished

\* What the steps after the LR(0) automaton need: they leave it alone.
LEMMA AutomatonStays ==
    ASSUME AutomatonInvariant, UNCHANGED lr0_vars, EofReducesTheFinished',
           pc' # "bootstrap" => unprocessed = <<>>,
           pc \in {"register", "done", "aborted"} => pc' \in {"register", "done", "aborted"}
    PROVE  AutomatonInvariant'
<1>1. UNCHANGED <<grammar, states, action_map, goto_map, unprocessed, cursor>>
  BY DEF lr0_vars
<1>2. /\ L!Ids' = L!Ids /\ L!StateCount' = L!StateCount /\ L!Expanded' = L!Expanded
      /\ L!SymbolOrder' = L!SymbolOrder
  BY <1>1 DEF L!Ids, L!StateCount, L!Expanded, L!SymbolOrder
<1>3. StatesAreNumbered'
  BY <1>1, <1>2 DEF AutomatonInvariant, StatesAreNumbered
<1>4. QueueHoldsTheRest'
  BY <1>1, <1>2 DEF AutomatonInvariant, QueueHoldsTheRest
<1>5. EdgesAreGotos'
  <2>1. \A i, s : Wanted(i, s)' <=> Wanted(i, s)
    BY <1>1, <1>2 DEF Wanted, L!Tried
  <2>2. \A i, s : /\ IsShift(i, s)' <=> IsShift(i, s)
                  /\ IsGoto(i, s)' <=> IsGoto(i, s)
                  /\ IsReduction(i, s) => IsReduction(i, s)'
    BY <1>1, <1>2 DEF IsShift, IsGoto, IsReduction, Finished
  <2> QED
    BY <1>1, <1>2, <2>1, <2>2 DEF AutomatonInvariant, EdgesAreGotos
<1> QED
  BY <1>3, <1>4, <1>5 DEF AutomatonInvariant

\* Every step of BootstrapParsingAutomaton keeps the invariant, its return too.
LEMMA BootstrapKeepsInvariant ==
    ASSUME AutomatonInvariant, Bootstrap
    PROVE  AutomatonInvariant'
<1>1. L!Step /\ UNCHANGED eof_action
  BY DEF Bootstrap, table_vars
<1>2. ASSUME L!Bootstrapped PROVE AutomatonInvariant'
  <2>1. /\ unprocessed = <<>> /\ pc' = "extend" /\ pc = "bootstrap"
        /\ UNCHANGED lr0_vars
    BY <1>2 DEF L!Bootstrapped, lr0_vars
  <2>2. EofReducesTheFinished'
    BY <2>1 DEF EofReducesTheFinished
  <2> QED
    BY <2>1, <2>2, AutomatonStays
<1> QED
  BY <1>1, <1>2, BeginStateKeepsInvariant, SkipSymbolKeepsInvariant,
     AddTransitionKeepsInvariant, EndStateKeepsInvariant DEF L!Step

-----------------------------------------------------------------------------
(* The tables                                                              *)

\* Only reductions are added to a state, where nothing was.
LEMMA RegisterReductionsKeepsInvariant ==
    ASSUME AutomatonInvariant, RegisterReductions
    PROVE  AutomatonInvariant'
<1>1. PICK i \in to_visit :
        /\ SlotsAreFree(i)
        /\ eof_action' = [eof_action EXCEPT ![i] = AtEof(i)]
        /\ action_map' = [action_map EXCEPT ![i] =
                [t \in DOMAIN @ \cup ReduceTokens(i) |->
                    IF t \in ReduceTokens(i)
                    THEN PdaEdgeReduce(CHOOSE p \in Before(i, t) : TRUE)
                    ELSE @[t]]]
  BY DEF RegisterReductions
<1>2. /\ pc = "register" /\ pc' = pc
      /\ UNCHANGED <<grammar, states, goto_map, unprocessed, cursor>>
  BY DEF RegisterReductions
<1>3. /\ L!Ids' = L!Ids /\ L!StateCount' = L!StateCount /\ L!Expanded' = L!Expanded
      /\ L!SymbolOrder' = L!SymbolOrder
  BY <1>2 DEF L!Ids, L!StateCount, L!Expanded, L!SymbolOrder
<1>4. /\ StatesAreNumbered /\ QueueHoldsTheRest /\ EdgesAreGotos
      /\ EofReducesTheFinished
      /\ DOMAIN action_map = L!Ids
  BY DEF AutomatonInvariant, StatesAreNumbered
<1>5. StatesAreNumbered'
  BY <1>1, <1>2, <1>3, <1>4 DEF StatesAreNumbered
<1>6. QueueHoldsTheRest'
  BY <1>2, <1>3, <1>4 DEF QueueHoldsTheRest
<1>7. \A j : Finished(j)' = Finished(j)
  BY <1>2 DEF Finished
<1>8. EofReducesTheFinished'
  <2>1. AtEof(i) \subseteq Finished(i)
    BY DEF AtEof
  <2> QED
    BY <1>1, <1>2, <1>3, <1>4, <1>7, <2>1 DEF EofReducesTheFinished
<1>9. EdgesAreGotos'
  <2>1. \A j, s : Wanted(j, s)' <=> Wanted(j, s)
    BY <1>2, <1>3 DEF Wanted, L!Tried
  <2>2. \A j, v : IsGoto(j, v)' <=> IsGoto(j, v)
    BY <1>2, <1>3 DEF IsGoto
  <2>3. ASSUME NEW j \in L!Ids, NEW t, action_map'[j][t] = action_map[j][t]
        PROVE  /\ IsShift(j, t) => IsShift(j, t)'
               /\ IsReduction(j, t) => IsReduction(j, t)'
    BY <1>2, <1>3, <1>7, <2>3 DEF IsShift, IsReduction
  <2> SUFFICES ASSUME NEW j \in L!Ids
               PROVE  /\ DOMAIN action_map'[j] \subseteq Tokens(grammar)
                      /\ \A t \in Tokens(grammar) :
                            /\ Wanted(j, t) => t \in DOMAIN action_map'[j] /\ IsShift(j, t)'
                            /\ t \in DOMAIN action_map'[j] => Wanted(j, t) \/ IsReduction(j, t)'
    BY <1>2, <1>3, <1>4, <2>1, <2>2 DEF EdgesAreGotos
  <2>4. CASE j # i
    <3>1. action_map'[j] = action_map[j]
      BY <1>1, <1>4, <2>4
    <3> QED
      BY <1>4, <2>3, <3>1 DEF EdgesAreGotos
  <2>5. CASE j = i
    <3>1. /\ DOMAIN action_map'[i] = DOMAIN action_map[i] \cup ReduceTokens(i)
          /\ \A t \in DOMAIN action_map[i] \ ReduceTokens(i) :
                action_map'[i][t] = action_map[i][t]
          /\ \A t \in ReduceTokens(i) :
                action_map'[i][t] = PdaEdgeReduce(CHOOSE p \in Before(i, t) : TRUE)
      BY <1>1, <1>4, <2>5
    <3>2. \A t \in ReduceTokens(i) : t \in Tokens(grammar) /\ t \notin DOMAIN action_map[i]
      BY <1>1 DEF SlotsAreFree, ReduceTokens
    <3>3. \A t \in ReduceTokens(i) : IsReduction(i, t)'
      <4> SUFFICES ASSUME NEW t \in ReduceTokens(i) PROVE IsReduction(i, t)'
        OBVIOUS
      <4>1. (CHOOSE p \in Before(i, t) : TRUE) \in Finished(i)
        BY DEF ReduceTokens, Before
      <4>2. PICK p \in Finished(i) : action_map'[i][t] = PdaEdgeReduce(p)
        BY <3>1, <4>1
      <4> QED
        BY <1>2, <1>7, <4>2 DEF IsReduction, PdaEdgeReduce
    <3>4. DOMAIN action_map[i] \subseteq Tokens(grammar)
      BY <1>4, <2>5 DEF EdgesAreGotos
    <3>5. ASSUME NEW t \in Tokens(grammar), Wanted(i, t)
          PROVE  t \in DOMAIN action_map'[i] /\ IsShift(i, t)'
      <4>1. t \in DOMAIN action_map[i] /\ IsShift(i, t)
        BY <1>4, <2>5, <3>5 DEF EdgesAreGotos
      <4> QED
        BY <2>3, <2>5, <3>1, <3>2, <4>1
    <3>6. ASSUME NEW t \in Tokens(grammar), t \in DOMAIN action_map'[i]
          PROVE  Wanted(i, t) \/ IsReduction(i, t)'
      <4>1. CASE t \in ReduceTokens(i)
        BY <3>3, <4>1
      <4>2. CASE t \notin ReduceTokens(i)
        <5>1. t \in DOMAIN action_map[i] /\ action_map'[i][t] = action_map[i][t]
          BY <3>1, <3>6, <4>2
        <5> QED
          BY <1>4, <2>3, <2>5, <5>1 DEF EdgesAreGotos
      <4> QED
        BY <4>1, <4>2
    <3> QED
      BY <2>5, <3>1, <3>2, <3>4, <3>5, <3>6
  <2> QED
    BY <2>4, <2>5
<1> QED
  BY <1>5, <1>6, <1>8, <1>9 DEF AutomatonInvariant

\* All other steps fill sets and tables of their own.
LEMMA OtherStepsKeepInvariant ==
    ASSUME AutomatonInvariant,
           \/ ExtendSymbols \/ ExtendState \/ BeginBuild \/ Build \/ MergeProduction
           \/ MergeEmptyProduction \/ EndMerge \/ RegisterConflict \/ Return
    PROVE  AutomatonInvariant'
<1>1. UNCHANGED lr0_vars /\ pc # "bootstrap" /\ pc' # "bootstrap"
  BY DEF ExtendSymbols, ExtendState, BeginBuild, Build, MergeProduction,
         MergeEmptyProduction, EndMerge, RegisterConflict, Return
<1>2. pc \in {"register", "done", "aborted"} => pc' \in {"register", "done", "aborted"}
  BY DEF ExtendSymbols, ExtendState, BeginBuild, Build, MergeProduction,
         MergeEmptyProduction, EndMerge, RegisterConflict, Return
<1>3. unprocessed = <<>>
  BY <1>1 DEF AutomatonInvariant, QueueHoldsTheRest
<1>4. L!Ids' = L!Ids /\ \A i : Finished(i)' = Finished(i)
  BY <1>1 DEF lr0_vars, L!Ids, Finished
<1>5. EofReducesTheFinished'
  <2>1. CASE BeginBuild
    <3>1. eof_action' = [i \in L!Ids |-> {}]
      BY <2>1 DEF BeginBuild
    <3> QED
      BY <1>4, <3>1 DEF EofReducesTheFinished
  <2>2. CASE ~BeginBuild
    <3>1. /\ UNCHANGED eof_action
          /\ pc' \in {"build", "merge", "register", "done"} =>
                pc \in {"build", "merge", "register", "done"}
      BY <2>2 DEF ExtendSymbols, ExtendState, BeginBuild, Build, MergeProduction,
                  MergeEmptyProduction, EndMerge, RegisterConflict, Return, table_vars
    <3> QED
      BY <1>4, <3>1 DEF AutomatonInvariant, EofReducesTheFinished
  <2> QED
    BY <2>1, <2>2
<1> QED
  BY <1>1, <1>2, <1>3, <1>5, AutomatonStays

\* The automaton starts right, and no step of the construction breaks it.
LEMMA AutomatonInvariantStarts ==
    ASSUME Init
    PROVE  AutomatonInvariant
<1>1. /\ grammar \in GrammarChoices /\ states = <<>> /\ action_map = <<>>
      /\ goto_map = <<>> /\ unprocessed = <<InitialItems(grammar)>>
      /\ cursor = 0 /\ pc = "bootstrap"
  BY SameOperators DEF Init, L!Init
<1>2. L!Ids = {} /\ L!StateCount = 0
  <2>1. L!Ids = {}
    BY <1>1 DEF L!Ids
  <2> QED
    BY <2>1, SameOperators, FS_EmptySet DEF L!StateCount
<1>3. StatesAreNumbered
  BY <1>1, <1>2 DEF StatesAreNumbered
<1>4. InitialItems(grammar) \in SUBSET Items(grammar)
  BY <1>3, GrammarIsGrammar, ExpansionType DEF InitialItems
<1>5. QueueHoldsTheRest
  BY <1>1, <1>2, <1>4 DEF QueueHoldsTheRest
<1> QED
  BY <1>1, <1>2, <1>3, <1>5 DEF AutomatonInvariant, EdgesAreGotos, EofReducesTheFinished

\* So does every step of BuildLALRAutomaton: what comes after the automaton only
\* adds reductions, each to a slot that is free.
LEMMA AutomatonInvariantIsKept ==
    ASSUME AutomatonInvariant, [Next]_vars
    PROVE  AutomatonInvariant'
<1>1. CASE UNCHANGED vars
  <2>1. UNCHANGED <<lr0_vars, pc, eof_action>>
    BY <1>1 DEF vars, table_vars
  <2>2. L!Ids' = L!Ids /\ \A i : Finished(i)' = Finished(i)
    BY <2>1 DEF lr0_vars, L!Ids, Finished
  <2>3. EofReducesTheFinished'
    BY <2>1, <2>2 DEF AutomatonInvariant, EofReducesTheFinished
  <2>4. pc' # "bootstrap" => unprocessed = <<>>
    BY <2>1 DEF AutomatonInvariant, QueueHoldsTheRest
  <2> QED
    BY <2>1, <2>3, <2>4, AutomatonStays
<1> QED
  BY <1>1, BootstrapKeepsInvariant, RegisterReductionsKeepsInvariant,
     OtherStepsKeepInvariant DEF Next, Step

\* The construction keeps its automaton right, whatever the grammar.
THEOREM AutomatonInvariantHolds == Spec => []AutomatonInvariant
<1>1. Init => AutomatonInvariant
  BY AutomatonInvariantStarts
<1>2. AutomatonInvariant /\ [Next]_vars => AutomatonInvariant'
  BY AutomatonInvariantIsKept
<1> QED
  BY <1>1, <1>2, PTL DEF Spec

-----------------------------------------------------------------------------
(* The theorems                                                            *)

\* BootstrapParsingAutomaton: the queue holds each unexpanded state once, in
\* order, and no item set has two states (LR0Automaton, MakeState).
THEOREM QueueIsRight == Spec => []QueueIsTheUnexpandedStates
<1>1. AutomatonInvariant => QueueIsTheUnexpandedStates
  <2> SUFFICES ASSUME AutomatonInvariant, pc = "bootstrap"
               PROVE  L!QueueIsTheUnexpandedStates
    BY DEF QueueIsTheUnexpandedStates
  <2>1. \A i, j \in L!Ids : states[i] = states[j] => i = j
    BY DEF AutomatonInvariant, StatesAreNumbered
  <2>2. states # <<>> => L!Ids # {}
    BY DEF AutomatonInvariant, StatesAreNumbered
  <2>3. DOMAIN unprocessed = 1 .. Len(unprocessed)
    BY DEF AutomatonInvariant, QueueHoldsTheRest
  <2>4. L!Ids # {} =>
            \A k \in DOMAIN unprocessed : unprocessed[k] = states[L!Expanded + k - 1]
    BY <2>3 DEF AutomatonInvariant, QueueHoldsTheRest
  <2> QED
    BY <2>1, <2>2, <2>4 DEF L!QueueIsTheUnexpandedStates
<1> QED
  BY <1>1, AutomatonInvariantHolds, PTL

\* The edges are at every moment the gotos of the symbols tried: RegisterShift's
\* assertions hold, and no edge leads to the wrong state.
THEOREM EdgesAreRight == Spec => []EdgesAreTheTriedGotos
<1>1. AutomatonInvariant => EdgesAreTheTriedGotos
  <2> SUFFICES ASSUME AutomatonInvariant, pc = "bootstrap",
                      NEW i \in L!Ids, NEW s \in Symbols(grammar)
               PROVE  LET dest == GotoItems(grammar, states[i], s)
                      IN  /\ L!HasEdge(i, s) <=> (L!Tried(i, s) /\ dest # {})
                          /\ L!HasEdge(i, s) => states[L!Target(i, s)] = dest
    BY SameOperators DEF EdgesAreTheTriedGotos, L!EdgesAreTheTriedGotos
  <2>1. EdgesAreGotos /\ Tokens(grammar) \cap Variables(grammar) = {}
    BY GrammarIsGrammar DEF AutomatonInvariant, IsGrammar
  <2>2. CASE s \in Tokens(grammar)
    <3>1. /\ L!HasEdge(i, s) <=> s \in DOMAIN action_map[i]
          /\ L!Target(i, s) = action_map[i][s].target
      BY <2>1, <2>2, SameOperators DEF EdgesAreGotos, L!HasEdge, L!Target
    <3>2. /\ s \in DOMAIN action_map[i] <=> Wanted(i, s)
          /\ Wanted(i, s) => IsShift(i, s)
      BY <2>1, <2>2 DEF EdgesAreGotos, IsReduction
    <3>3. IsShift(i, s) => states[action_map[i][s].target] = GotoItems(grammar, states[i], s)
      BY DEF IsShift, L!PdaEdgeShift
    <3> QED
      BY <3>1, <3>2, <3>3 DEF Wanted
  <2>3. CASE s \in Variables(grammar)
    <3>1. /\ L!HasEdge(i, s) <=> s \in DOMAIN goto_map[i]
          /\ L!Target(i, s) = goto_map[i][s]
      BY <2>1, <2>3, SameOperators DEF EdgesAreGotos, L!HasEdge, L!Target
    <3>2. /\ s \in DOMAIN goto_map[i] <=> Wanted(i, s)
          /\ Wanted(i, s) => IsGoto(i, s)
      BY <2>1, <2>3 DEF EdgesAreGotos
    <3> QED
      BY <3>1, <3>2 DEF Wanted, IsGoto
  <2> QED
    BY <2>2, <2>3 DEF Symbols
<1> QED
  BY <1>1, AutomatonInvariantHolds, PTL

\* Once the queue is empty every symbol was tried in every state.
LEMMA AllTried ==
    ASSUME AutomatonInvariant, unprocessed = <<>>, NEW i \in L!Ids, NEW s
    PROVE  Wanted(i, s) <=> GotoItems(grammar, states[i], s) # {}
<1>1. L!StateCount \in Nat /\ i < L!StateCount
  BY DEF AutomatonInvariant, StatesAreNumbered
<1>2. L!Expanded = L!StateCount
  BY <1>1 DEF L!Expanded
<1> QED
  BY <1>1, <1>2 DEF Wanted, L!Tried

\* In a finished automaton an edge that is no reduction stands exactly where
\* the goto is not empty, and leads to the state that has it as its item set.
LEMMA EdgesOfTheAutomaton ==
    ASSUME AutomatonInvariant, unprocessed = <<>>, NEW i \in L!Ids, NEW s \in Symbols(grammar)
    PROVE  LET dest == GotoItems(grammar, states[i], s)
               shifts == /\ L!HasEdge(i, s)
                         /\ \A p \in Productions(grammar) : ~Reduces(i, s, p)
           IN  IF dest = {} THEN ~shifts
               ELSE shifts /\ L!Target(i, s) \in L!Ids /\ states[L!Target(i, s)] = dest
<1>1. /\ EdgesAreGotos /\ Tokens(grammar) \cap Variables(grammar) = {}
      /\ states[i] \in SUBSET Items(grammar)
  BY GrammarIsGrammar DEF AutomatonInvariant, IsGrammar, StatesAreNumbered
<1>2. Wanted(i, s) <=> GotoItems(grammar, states[i], s) # {}
  BY AllTried
<1>3. Finished(i) \subseteq Productions(grammar)
  BY <1>1, ItemShape DEF Finished
<1>4. CASE s \in Tokens(grammar)
  <2>1. /\ L!HasEdge(i, s) <=> s \in DOMAIN action_map[i]
        /\ L!Target(i, s) = action_map[i][s].target
    BY <1>1, <1>4, SameOperators DEF EdgesAreGotos, L!HasEdge, L!Target
  <2>2. /\ Wanted(i, s) => s \in DOMAIN action_map[i] /\ IsShift(i, s)
        /\ s \in DOMAIN action_map[i] => Wanted(i, s) \/ IsReduction(i, s)
    BY <1>1, <1>4 DEF EdgesAreGotos
  <2>3. IsShift(i, s) => /\ action_map[i][s].target \in L!Ids
                         /\ states[action_map[i][s].target] = GotoItems(grammar, states[i], s)
    BY DEF IsShift, L!PdaEdgeShift
  <2>4. (IsReduction(i, s) /\ s \in DOMAIN action_map[i]) =>
              \E p \in Productions(grammar) : Reduces(i, s, p)
    BY <1>3 DEF IsReduction, Reduces
  <2>5. IsShift(i, s) => \A p : ~Reduces(i, s, p)
    BY DEF IsShift, Reduces, L!PdaEdgeShift, PdaEdgeReduce
  <2> QED
    BY <1>2, <2>1, <2>2, <2>3, <2>4, <2>5
<1>5. CASE s \in Variables(grammar)
  <2>1. /\ L!HasEdge(i, s) <=> s \in DOMAIN goto_map[i]
        /\ L!Target(i, s) = goto_map[i][s]
        /\ s \notin DOMAIN action_map[i]
    BY <1>1, <1>5, SameOperators DEF EdgesAreGotos, L!HasEdge, L!Target
  <2>2. /\ s \in DOMAIN goto_map[i] <=> Wanted(i, s)
        /\ Wanted(i, s) => IsGoto(i, s)
    BY <1>1, <1>5 DEF EdgesAreGotos
  <2> QED
    BY <1>2, <2>1, <2>2 DEF IsGoto, Reduces
<1> QED
  BY <1>4, <1>5 DEF Symbols

\* BuildLALRAutomaton returns tables of the LR(0) automaton: all of its edges,
\* nothing else, and reductions of finished items only, whatever FIRST and
\* FOLLOW sets the reductions were registered with.
THEOREM TablesAreRight == Spec => []TablesAreConsistent
<1>1. AutomatonInvariant => TablesAreConsistent
  <2> SUFFICES ASSUME AutomatonInvariant, pc = "done", NEW i \in L!Ids
               PROVE  /\ \A s \in Symbols(grammar) :
                            LET dest == GotoItems(grammar, states[i], s)
                                shifts == /\ L!HasEdge(i, s)
                                          /\ \A p \in Productions(grammar) : ~Reduces(i, s, p)
                            IN  IF dest = {} THEN ~shifts
                                ELSE shifts /\ states[L!Target(i, s)] = dest
                      /\ \A p \in Productions(grammar) :
                            (p \in eof_action[i] \/ \E t \in Tokens(grammar) : Reduces(i, t, p))
                                => p \in Finished(i)
    BY DEF TablesAreConsistent
  <2>1. /\ EdgesAreGotos /\ Tokens(grammar) \cap Variables(grammar) = {}
        /\ states[i] \in SUBSET Items(grammar)
    BY GrammarIsGrammar DEF AutomatonInvariant, IsGrammar, StatesAreNumbered
  <2>2. unprocessed = <<>>
    BY DEF AutomatonInvariant, QueueHoldsTheRest
  <2>5. ASSUME NEW t \in Tokens(grammar), NEW p, t \in DOMAIN action_map[i],
               IsShift(i, t)
        PROVE  ~Reduces(i, t, p)
    BY <2>5 DEF IsShift, Reduces, L!PdaEdgeShift, PdaEdgeReduce
  <2>6. ASSUME NEW t \in Tokens(grammar), NEW p, Reduces(i, t, p)
        PROVE  p \in Finished(i)
    <3>1. t \in DOMAIN action_map[i] /\ action_map[i][t] = PdaEdgeReduce(p)
      BY <2>6 DEF Reduces
    <3>2. ~IsShift(i, t)
      BY <2>5, <2>6, <3>1
    <3>3. IsReduction(i, t)
      BY <2>1, <3>1, <3>2 DEF EdgesAreGotos
    <3> QED
      BY <3>1, <3>3 DEF IsReduction, PdaEdgeReduce
  <2>7. ASSUME NEW p \in eof_action[i] PROVE p \in Finished(i)
    BY DEF AutomatonInvariant, EofReducesTheFinished
  <2>8. ASSUME NEW s \in Symbols(grammar)
        PROVE  LET dest == GotoItems(grammar, states[i], s)
                   shifts == /\ L!HasEdge(i, s)
                             /\ \A p \in Productions(grammar) : ~Reduces(i, s, p)
               IN  IF dest = {} THEN ~shifts
                   ELSE shifts /\ states[L!Target(i, s)] = dest
    BY <2>2, EdgesOfTheAutomaton
  <2> QED
    BY <2>6, <2>7, <2>8
<1> QED
  BY <1>1, AutomatonInvariantHolds, PTL

-----------------------------------------------------------------------------
(* The states hold the items valid for the viable prefixes.                *)

\* Delta is the goto of the item sets.
LEMMA DeltaIsTheGoto ==
    ASSUME AutomatonInvariant, unprocessed = <<>>, NEW i \in L!Ids, NEW s \in Symbols(grammar)
    PROVE  LET dest == GotoItems(grammar, states[i], s)
           IN  IF dest = {} THEN Delta[i][s] = -1
               ELSE /\ Delta[i][s] \in L!Ids /\ states[Delta[i][s]] = dest
                    /\ Delta[i][s] = L!Target(i, s)
<1>1. Delta[i][s] = IF Shifts(i, s) THEN L!Target(i, s) ELSE -1
  BY DEF Delta
<1> QED
  BY <1>1, EdgesOfTheAutomaton DEF Shifts

\* There is a first state, and -1 is none.
LEMMA FirstStateIs ==
    ASSUME AutomatonInvariant, unprocessed = <<>>
    PROVE  0 \in L!Ids /\ -1 \notin L!Ids /\ states[0] = InitialItems(grammar)
<1>1. L!Ids # {}
  BY DEF AutomatonInvariant, QueueHoldsTheRest
<1>2. L!StateCount \in Nat /\ L!Ids = 0 .. (L!StateCount - 1)
  BY DEF AutomatonInvariant, StatesAreNumbered
<1>3. 0 \in L!Ids /\ -1 \notin L!Ids
  BY <1>1, <1>2
<1> QED
  BY <1>3 DEF AutomatonInvariant, StatesAreNumbered

\* In a finished automaton the state a word leads to holds the items that are
\* valid for it, and where it leads nowhere none is.
LEMMA PathLeadsToTheValidItems ==
    ASSUME AutomatonInvariant, unprocessed = <<>>,
           NEW n \in Nat, NEW word \in [1 .. n -> Symbols(grammar)]
    PROVE  LET s == Path(Delta, 0, word)
           IN  IF s = -1 THEN ValidItems(grammar, word) = {}
               ELSE ClosureItems(grammar, states[s]) = ValidItems(grammar, word)
<1> DEFINE S == L!Ids \cup {-1}
<1>1. Len(word) = n
  OBVIOUS
<1>2. 0 \in L!Ids /\ -1 \notin L!Ids /\ states[0] = InitialItems(grammar)
  BY FirstStateIs
<1>3. \A i \in L!Ids : states[i] \in SUBSET Items(grammar)
  BY DEF AutomatonInvariant, StatesAreNumbered
<1>4. \A j \in S : \A k \in 1 .. n : j # -1 => Delta[j][word[k]] \in S
  BY DeltaIsTheGoto
<1>5. PICK at \in [0 .. n -> S] :
            /\ at[0] = 0 /\ Path(Delta, 0, word) = at[n]
            /\ \A k \in 1 .. n : at[k] = IF at[k - 1] = -1 THEN -1 ELSE Delta[at[k - 1]][word[k]]
  <2> PICK i : i = 0
    OBVIOUS
  <2>1. i \in S /\ -1 \in S /\ \A j \in S : \A k \in 1 .. Len(word) : j # -1 => Delta[j][word[k]] \in S
    BY <1>1, <1>2, <1>4
  <2> HIDE DEF S
  <2>2. \E at : Passes(at, S, Delta, i, word)
    BY <1>1, <2>1, PathIsFollowed
  <2> QED
    BY <1>1, <2>2 DEF Passes
<1> DEFINE K == [k \in 0 .. n |-> IF at[k] = -1 THEN {} ELSE states[at[k]]]
<1>6. KernelsAlong(grammar, word, K)
  <2>1. K \in [0 .. n -> SUBSET Items(grammar)]
    BY <1>3, <1>5
  <2>2. K[0] = InitialItems(grammar)
    BY <1>2, <1>5
  <2>3. ASSUME NEW k \in 1 .. n PROVE K[k] = GotoItems(grammar, K[k - 1], word[k])
    <3>1. k \in 0 .. n /\ k - 1 \in 0 .. n /\ word[k] \in Symbols(grammar)
      OBVIOUS
    <3>2. CASE at[k - 1] = -1
      <4>1. at[k] = -1 /\ K[k] = {} /\ K[k - 1] = {}
        BY <1>5, <3>1, <3>2
      <4> QED
        BY <4>1, EmptyClosure
    <3>3. CASE at[k - 1] # -1
      <4> PICK j, s : j = at[k - 1] /\ s = word[k]
        OBVIOUS
      <4>1. j \in L!Ids /\ s \in Symbols(grammar) /\ at[k] = Delta[j][s] /\ K[k - 1] = states[j]
        BY <1>5, <3>1, <3>3
      <4>2. K[k] = IF at[k] = -1 THEN {} ELSE states[at[k]]
        BY <3>1
      <4> HIDE DEF K
      <4>3. LET dest == GotoItems(grammar, states[j], s)
            IN  IF dest = {} THEN Delta[j][s] = -1
                ELSE Delta[j][s] \in L!Ids /\ states[Delta[j][s]] = dest
        BY <4>1, DeltaIsTheGoto
      <4> QED
        BY <1>2, <4>1, <4>2, <4>3
    <3> QED
      BY <3>2, <3>3
  <2> QED
    BY <1>1, <2>1, <2>2, <2>3 DEF KernelsAlong
<1>7. ClosureItems(grammar, K[n]) = ValidItems(grammar, word)
  <2> HIDE DEF K
  <2>1. IsGrammar(grammar)
    BY GrammarIsGrammar DEF AutomatonInvariant
  <2> QED
    BY <1>1, <1>6, <2>1, KernelsHoldTheValidItems
<1>8. K[n] = IF at[n] = -1 THEN {} ELSE states[at[n]]
  <2>1. n \in 0 .. n
    OBVIOUS
  <2> QED
    BY <2>1
<1> HIDE DEF K
<1> QED
  BY <1>5, <1>7, <1>8, EmptyClosure

\* BootstrapParsingAutomaton: for words of any length, the finished automaton
\* follows exactly the viable prefixes, and in the state one leads to are
\* exactly the items valid for it.
THEOREM StatesAreValid == Spec => []StatesHoldTheValidItems
<1>1. AutomatonInvariant => StatesHoldTheValidItems
  <2> SUFFICES ASSUME AutomatonInvariant, pc = "extend",
                      NEW n \in 0 .. WordBound, NEW word \in [1 .. n -> Symbols(grammar)]
               PROVE  LET s == Path(Delta, 0, word)
                      IN  IF s = -1 THEN ValidItems(grammar, word) = {}
                          ELSE ClosureItems(grammar, states[s]) = ValidItems(grammar, word)
    BY DEF StatesHoldTheValidItems
  <2>1. n \in Nat
    BY WordBoundAssumption
  <2>2. unprocessed = <<>>
    BY DEF AutomatonInvariant, QueueHoldsTheRest
  <2> QED
    BY <2>1, <2>2, PathLeadsToTheValidItems
<1> QED
  BY <1>1, AutomatonInvariantHolds, PTL

-----------------------------------------------------------------------------
(* Every finished item is merged: the way back along a right-hand side       *)

\* Every state but the first is the goto of a state, and none is empty.
StatesAreReached ==
    \A i \in L!Ids :
        /\ states[i] # {}
        /\ i # 0 => \E j \in L!Ids, s \in Symbols(grammar) :
                        states[i] = GotoItems(grammar, states[j], s)

\* The states passed along the first d symbols of the right-hand side of p, from
\* state i, and along all of it.
WaysTo(i, p, d) ==
    {w \in [0 .. d -> L!Ids] :
        /\ w[0] = i
        /\ \A k \in 1 .. d :
            states[w[k]] = GotoItems(grammar, states[w[k - 1]], Right(grammar, p)[k])}

WaysFrom(i, p) == WaysTo(i, p, Len(Right(grammar, p)))

\* The symbol that stands in the extended grammar for a variable expanded in
\* state i: with the state its goto leads to, or the new root.
StandsFor(e, i, v) ==
    IF i = 0 /\ v = RootVariable(grammar) THEN e = NewRoot
    ELSE \E j \in L!Ids : states[j] = GotoItems(grammar, states[i], v) /\ e = Symbol(v, j)

\* Extended production q is p on the way w from state i.
IsExtended(q, i, p, w) ==
    LET n == Len(Right(grammar, p))
    IN  /\ q.info = p /\ StandsFor(q.lhs, i, Left(grammar, p))
        /\ q.rhs = [k \in 1 .. n |-> Symbol(Right(grammar, p)[k], w[k])]

\* The site has the productions state i expands, on their ways.
SiteHolds(i) ==
    \A p \in ExpandedIn(i) : \A w \in WaysFrom(i, p) :
        \E k \in 1 .. Len(site.productions) : IsExtended(site.productions[k], i, p, w)

SiteIsComplete ==
    /\ "productions" \in DOMAIN site
    /\ \E S : site.productions \in Seq(S)
    /\ pc = "extend_states" =>
        to_visit \subseteq L!Ids /\ \A i \in L!Ids \ to_visit : SiteHolds(i)
    /\ pc \in {"build", "merge", "register", "done"} => \A i \in L!Ids : SiteHolds(i)

MergedAreLocated ==
    /\ merged \in Nat
    /\ pc \notin {"merge", "register", "done", "aborted"} => merged = 0
    /\ pc \in {"register", "done"} => merged = Len(site.productions)
    /\ \A k \in 1 .. merged :
        /\ site.productions[k].rhs # <<>>
        /\ Located(site.productions[k]) \in DOMAIN merged_follow

MergeInvariant == StatesAreReached /\ SiteIsComplete /\ MergedAreLocated

\* A way goes on over the next edge.
LEMMA WayGoesOn ==
    ASSUME NEW i, NEW p, NEW d \in Nat, NEW w \in WaysTo(i, p, d), NEW y \in L!Ids,
           states[y] = GotoItems(grammar, states[w[d]], Right(grammar, p)[d + 1])
    PROVE  \E u \in WaysTo(i, p, d + 1) : u[d + 1] = y /\ \A k \in 0 .. d : u[k] = w[k]
<1> DEFINE u == [k \in 0 .. d + 1 |-> IF k = d + 1 THEN y ELSE w[k]]
<1>1. /\ w \in [0 .. d -> L!Ids] /\ w[0] = i
      /\ \A k \in 1 .. d :
            states[w[k]] = GotoItems(grammar, states[w[k - 1]], Right(grammar, p)[k])
  BY DEF WaysTo
<1>2. /\ u \in [0 .. d + 1 -> L!Ids] /\ u[d + 1] = y /\ u[0] = i
      /\ \A k \in 0 .. d : u[k] = w[k]
  BY <1>1
<1> HIDE DEF u
<1>3. ASSUME NEW k \in 1 .. d + 1
      PROVE  states[u[k]] = GotoItems(grammar, states[u[k - 1]], Right(grammar, p)[k])
  <2>1. CASE k = d + 1
    <3>1. k - 1 = d /\ d \in 0 .. d
      BY <2>1
    <3> QED
      BY <1>2, <2>1, <3>1
  <2>2. CASE k # d + 1
    <3>1. k \in 1 .. d /\ k \in 0 .. d /\ k - 1 \in 0 .. d
      BY <2>2
    <3> QED
      BY <1>1, <1>2, <3>1
  <2> QED
    BY <2>1, <2>2
<1> QED
  BY <1>2, <1>3 DEF WaysTo

\* An item of the goto from a state had its cursor before the symbol there.
LEMMA CameFrom ==
    ASSUME AutomatonInvariant, NEW e \in L!Ids, NEW s, NEW it \in GotoItems(grammar, states[e], s)
    PROVE  /\ Right(grammar, it.prod)[it.dot] = s
           /\ Item(it.prod, it.dot - 1) \in ClosureItems(grammar, states[e])
<1> PICK K : K = states[e]
  OBVIOUS
<1>1. IsGrammar(grammar) /\ K \in SUBSET Items(grammar)
  BY GrammarIsGrammar DEF AutomatonInvariant, StatesAreNumbered
<1> QED
  BY <1>1, GotoItemsType

\* An item of a state leads back, along the symbols before its cursor, to a
\* state that expands its production.
LEMMA WayBack ==
    ASSUME AutomatonInvariant, StatesAreReached,
           NEW i \in L!Ids, NEW p \in Productions(grammar),
           NEW n \in 0 .. Len(Right(grammar, p)), Item(p, n) \in ClosureItems(grammar, states[i])
    PROVE  \E j \in L!Ids : p \in ExpandedIn(j) /\ \E w \in WaysTo(j, p, n) : w[n] = i
<1> DEFINE rhs == Right(grammar, p)
           Back(d) == \A x \in L!Ids : Item(p, d) \in ClosureItems(grammar, states[x]) =>
                        \E j \in L!Ids : p \in ExpandedIn(j) /\ \E w \in WaysTo(j, p, d) : w[d] = x
           A == {d \in 0 .. n : Back(d)}
<1>1. /\ IsGrammar(grammar)
      /\ \A x \in L!Ids : states[x] \in SUBSET Items(grammar)
      /\ 0 \in L!Ids => states[0] = InitialItems(grammar)
  BY GrammarIsGrammar DEF AutomatonInvariant, StatesAreNumbered
<1>2. n \in Nat
  BY <1>1, ProductionShape
<1>3. 0 \in A
  <2> SUFFICES ASSUME NEW x \in L!Ids, Item(p, 0) \in ClosureItems(grammar, states[x])
               PROVE  p \in ExpandedIn(x) /\ \E w \in WaysTo(x, p, 0) : w[0] = x
    BY <1>2
  <2> DEFINE w == [k \in 0 .. 0 |-> x]
  <2>1. w \in [0 .. 0 -> L!Ids] /\ w[0] = x
    OBVIOUS
  <2> HIDE DEF w
  <2> QED
    BY <2>1 DEF WaysTo, ExpandedIn
<1>4. ASSUME NEW d \in 0 .. n, d # n, Back(d) PROVE Back(d + 1)
  <2> SUFFICES ASSUME NEW x \in L!Ids,
                      Item(p, d + 1) \in ClosureItems(grammar, states[x])
               PROVE  \E j \in L!Ids : p \in ExpandedIn(j) /\ \E w \in WaysTo(j, p, d + 1) : w[d + 1] = x
    OBVIOUS
  <2>1. d \in Nat /\ d + 1 # 0
    BY <1>2, <1>4
  <2>2. Item(p, d + 1).dot = d + 1 /\ Item(p, d + 1).prod = p
    BY DEF Item
  <2>3. Item(p, d + 1) \in states[x]
    BY <2>1, <2>2, MovedItemsAreKernel
  <2>4. x # 0
    <3>1. \A it \in InitialItems(grammar) : it.dot = 0
      BY DEF InitialItems, Expansion, Item
    <3> QED
      BY <1>1, <2>1, <2>2, <2>3, <3>1
  <2>5. PICK e \in L!Ids, s \in Symbols(grammar) :
            states[x] = GotoItems(grammar, states[e], s)
    BY <2>4 DEF StatesAreReached
  <2>6. rhs[d + 1] = s /\ Item(p, d) \in ClosureItems(grammar, states[e])
    <3>1. (d + 1) - 1 = d
      BY <2>1
    <3> PICK it : it = Item(p, d + 1)
      OBVIOUS
    <3>2. it \in GotoItems(grammar, states[e], s)
      BY <2>3, <2>5
    <3>3. /\ Right(grammar, it.prod)[it.dot] = s
          /\ Item(it.prod, it.dot - 1) \in ClosureItems(grammar, states[e])
      BY <3>2, CameFrom
    <3>4. it.prod = p /\ it.dot = d + 1
      BY DEF Item
    <3> QED
      BY <3>1, <3>3, <3>4
  <2>7. PICK j \in L!Ids : p \in ExpandedIn(j) /\ \E w \in WaysTo(j, p, d) : w[d] = e
    BY <1>4, <2>6
  <2>8. PICK w \in WaysTo(j, p, d) : w[d] = e
    BY <2>7
  <2>9. states[x] = GotoItems(grammar, states[w[d]], Right(grammar, p)[d + 1])
    BY <2>5, <2>6, <2>8
  <2>10. \E u \in WaysTo(j, p, d + 1) : u[d + 1] = x /\ \A k \in 0 .. d : u[k] = w[k]
    BY <2>1, <2>9, WayGoesOn
  <2> QED
    BY <2>7, <2>10
<1>5. Back(n)
  <2> HIDE DEF Back
  <2>1. \A d \in 0 .. n : d # n /\ d \in A => d + 1 \in A
    BY <1>2, <1>4
  <2> HIDE DEF A
  <2>2. \A d \in 0 .. n : d \in A
    BY <1>2, <1>3, <2>1, IntervalInduction
  <2>3. n \in 0 .. n
    BY <1>2
  <2> QED
    BY <2>2, <2>3 DEF A
<1> QED
  BY <1>5

\* Where a way has got to an item, there are edges along the rest of its
\* right-hand side.
LEMMA WayAhead ==
    ASSUME AutomatonInvariant, unprocessed = <<>>,
           NEW i \in L!Ids, NEW p \in Productions(grammar),
           NEW m \in 0 .. Len(Right(grammar, p)), NEW v \in WaysTo(i, p, m),
           Item(p, m) \in ClosureItems(grammar, states[v[m]])
    PROVE  \E w \in WaysFrom(i, p) : \A k \in 0 .. m : w[k] = v[k]
<1> DEFINE rhs == Right(grammar, p)
           n == Len(rhs)
           Ahead(d) == \E w \in WaysTo(i, p, d) :
                        /\ \A k \in 0 .. m : w[k] = v[k]
                        /\ Item(p, d) \in ClosureItems(grammar, states[w[d]])
           A == {d \in 0 .. n : d < m \/ Ahead(d)}
<1>1. IsGrammar(grammar)
  BY GrammarIsGrammar DEF AutomatonInvariant
<1>2. n \in Nat /\ rhs \in Seq(Symbols(grammar)) /\ m \in Nat
  BY <1>1, ProductionShape
<1>3. Ahead(m)
  OBVIOUS
<1>4. ASSUME NEW d \in 0 .. n, d # n, m <= d, Ahead(d) PROVE Ahead(d + 1)
  <2>1. PICK w \in WaysTo(i, p, d) :
            /\ \A k \in 0 .. m : w[k] = v[k]
            /\ Item(p, d) \in ClosureItems(grammar, states[w[d]])
    BY <1>4
  <2>2. /\ d \in Nat /\ d + 1 \in 1 .. n /\ rhs[d + 1] \in Symbols(grammar)
        /\ w[d] \in L!Ids
    BY <1>2, <1>4 DEF WaysTo
  <2>3. NextIs(grammar, Item(p, d), rhs[d + 1])
    BY <1>2, <1>4, <2>2 DEF NextIs, IsFinalized, Item
  <2>4. CreateSuccessor(Item(p, d)) \in GotoItems(grammar, states[w[d]], rhs[d + 1])
    BY <2>1, <2>3 DEF GotoItems
  <2>5. Item(p, d + 1) \in GotoItems(grammar, states[w[d]], rhs[d + 1])
    BY <2>4 DEF CreateSuccessor, Item
  <2>6. PICK y \in L!Ids : states[y] = GotoItems(grammar, states[w[d]], rhs[d + 1])
    <3> HIDE DEF rhs
    <3> QED
      BY <2>2, <2>5, DeltaIsTheGoto
  <2>7. PICK u \in WaysTo(i, p, d + 1) : u[d + 1] = y /\ \A k \in 0 .. d : u[k] = w[k]
    BY <2>2, <2>6, WayGoesOn
  <2>8. Item(p, d + 1) \in ClosureItems(grammar, states[u[d + 1]])
    BY <2>5, <2>6, <2>7 DEF ClosureItems
  <2>9. \A k \in 0 .. m : u[k] = v[k]
    <3>1. \A k \in 0 .. m : k \in 0 .. d
      BY <1>2, <1>4, <2>2
    <3> QED
      BY <2>1, <2>7, <3>1
  <2> QED
    BY <2>8, <2>9
<1>5. Ahead(n)
  <2> HIDE DEF Ahead, n
  <2>1. \A d \in 0 .. n : d # n /\ d \in A => d + 1 \in A
    <3> SUFFICES ASSUME NEW d \in 0 .. n, d # n, d \in A PROVE d + 1 \in A
      OBVIOUS
    <3>1. d + 1 \in 0 .. n
      BY <1>2
    <3>2. CASE d < m
      <4>1. d + 1 < m \/ d + 1 = m
        BY <1>2, <3>2
      <4> QED
        BY <1>3, <3>1, <4>1
    <3>3. CASE ~(d < m)
      <4>1. m <= d
        BY <1>2, <3>3
      <4> QED
        BY <1>4, <3>1, <3>3, <4>1
    <3> QED
      BY <3>2, <3>3
  <2>2. 0 \in A
    <3>1. m = 0 \/ 0 < m
      BY <1>2
    <3> QED
      BY <1>2, <1>3, <3>1
  <2>3. m <= n
    BY <1>2 DEF n
  <2> HIDE DEF A
  <2>4. \A d \in 0 .. n : d \in A
    BY <1>2, <2>1, <2>2, IntervalInduction
  <2>5. n \in 0 .. n /\ ~(n < m)
    BY <1>2, <2>3
  <2> QED
    BY <2>4, <2>5 DEF A
<1>6. PICK w \in WaysTo(i, p, n) : \A k \in 0 .. m : w[k] = v[k]
  BY <1>5
<1> QED
  BY <1>6 DEF WaysFrom

\* There is a way from every state that expands a production, and through every
\* state whose closure has an item of it.
LEMMA WayThrough ==
    ASSUME AutomatonInvariant, StatesAreReached, unprocessed = <<>>,
           NEW i \in L!Ids, NEW p \in Productions(grammar),
           NEW d \in 0 .. Len(Right(grammar, p)), Item(p, d) \in ClosureItems(grammar, states[i])
    PROVE  \E j \in L!Ids : p \in ExpandedIn(j) /\ \E w \in WaysFrom(j, p) : w[d] = i
<1>1. PICK j \in L!Ids : p \in ExpandedIn(j) /\ \E w \in WaysTo(j, p, d) : w[d] = i
  BY WayBack
<1>2. PICK v \in WaysTo(j, p, d) : v[d] = i
  BY <1>1
<1>3. \E w \in WaysFrom(j, p) : \A k \in 0 .. d : w[k] = v[k]
  BY <1>2, WayAhead
<1>4. d \in 0 .. d
  BY GrammarIsGrammar, ProductionShape DEF AutomatonInvariant
<1> QED
  BY <1>1, <1>2, <1>3, <1>4

\* A state that expands a production has a way along it.
LEMMA ExpandedHasAWay ==
    ASSUME AutomatonInvariant, unprocessed = <<>>, NEW i \in L!Ids, NEW p \in ExpandedIn(i)
    PROVE  \E w \in WaysFrom(i, p) : TRUE
<1>1. p \in Productions(grammar) /\ Item(p, 0) \in ClosureItems(grammar, states[i])
  BY DEF ExpandedIn
<1> DEFINE v == [k \in 0 .. 0 |-> i]
<1>2. v \in [0 .. 0 -> L!Ids] /\ v[0] = i
  OBVIOUS
<1> HIDE DEF v
<1>3. v \in WaysTo(i, p, 0)
  BY <1>2 DEF WaysTo
<1> PICK m : m = 0
  OBVIOUS
<1>4. m \in 0 .. Len(Right(grammar, p))
  BY <1>1, GrammarIsGrammar, ProductionShape DEF AutomatonInvariant
<1>5. v \in WaysTo(i, p, m) /\ Item(p, m) \in ClosureItems(grammar, states[v[m]])
  BY <1>1, <1>2, <1>3
<1>6. \E w \in WaysFrom(i, p) : \A k \in 0 .. m : w[k] = v[k]
  BY <1>1, <1>4, <1>5, WayAhead
<1> QED
  BY <1>6

\* A production a kernel finishes ends there.
LEMMA FinishedEnds ==
    ASSUME AutomatonInvariant, NEW i \in L!Ids, NEW p \in Finished(i)
    PROVE  /\ p \in Productions(grammar)
           /\ Item(p, Len(Right(grammar, p))) \in ClosureItems(grammar, states[i])
<1>1. states[i] \in SUBSET Items(grammar) /\ IsGrammar(grammar)
  BY GrammarIsGrammar DEF AutomatonInvariant, StatesAreNumbered
<1>2. PICK it \in states[i] : IsFinalized(grammar, it) /\ it.prod = p
  BY DEF Finished
<1>3. it.prod \in Productions(grammar) /\ it = Item(it.prod, it.dot)
  BY <1>1, <1>2, ItemShape
<1>4. it.dot = Len(Right(grammar, p))
  BY <1>1, <1>2, <1>3, ProductionShape DEF IsFinalized
<1> QED
  BY <1>2, <1>3, <1>4 DEF ClosureItems

\* at follows the edges along rhs from state i.
Follows(at, i, rhs) ==
    at = [k \in 0 .. Len(rhs) |-> IF k = 0 THEN i ELSE L!Target(at[k - 1], rhs[k])]

\* The recursion StatesAlong is defined by has a solution, so it is one.
LEMMA AlongIsRecursive ==
    ASSUME NEW i, NEW rhs, NEW w, Follows(w, i, rhs)
    PROVE  Follows(StatesAlong(i, rhs), i, rhs)
BY DEF StatesAlong, Follows

\* LookupTargetState: in the finished LR(0) automaton the edge on a symbol leads
\* to the state that has the goto as its item set.
LEMMA TargetIsTheGoto ==
    ASSUME AutomatonInvariant, unprocessed = <<>>,
           NEW i \in L!Ids, NEW j \in L!Ids, NEW s \in Symbols(grammar),
           states[j] = GotoItems(grammar, states[i], s), states[j] # {}
    PROVE  L!Target(i, s) = j
<1>1. \A x, y \in L!Ids : states[x] = states[y] => x = y
  BY DEF AutomatonInvariant, StatesAreNumbered
<1>2. L!Target(i, s) \in L!Ids /\ states[L!Target(i, s)] = GotoItems(grammar, states[i], s)
  BY EdgesOfTheAutomaton
<1> QED
  BY <1>1, <1>2

\* Following the edges along a right-hand side passes the states of the way.
LEMMA AlongIsTheWay ==
    ASSUME AutomatonInvariant, StatesAreReached, unprocessed = <<>>,
           NEW i \in L!Ids, NEW p \in Productions(grammar), NEW w \in WaysFrom(i, p)
    PROVE  \A k \in 0 .. Len(Right(grammar, p)) :
                StatesAlong(i, Right(grammar, p))[k] = w[k]
<1> PICK rhs, n, at : rhs = Right(grammar, p) /\ n = Len(rhs) /\ at = StatesAlong(i, rhs)
  OBVIOUS
<1>1. n \in Nat /\ \A k \in 1 .. n : rhs[k] \in Symbols(grammar)
  <2>1. rhs \in Seq(Symbols(grammar)) /\ Len(rhs) \in Nat
    BY GrammarIsGrammar, ProductionShape DEF AutomatonInvariant
  <2> QED
    BY <2>1
<1>2. /\ w \in [0 .. n -> L!Ids] /\ w[0] = i
      /\ \A k \in 1 .. n : states[w[k]] = GotoItems(grammar, states[w[k - 1]], rhs[k])
  BY DEF WaysFrom, WaysTo
<1>3. \A k \in 1 .. n : L!Target(w[k - 1], rhs[k]) = w[k]
  <2> SUFFICES ASSUME NEW k \in 1 .. n PROVE L!Target(w[k - 1], rhs[k]) = w[k]
    OBVIOUS
  <2>1. w[k] \in L!Ids /\ w[k - 1] \in L!Ids
    <3>1. k \in 0 .. n /\ k - 1 \in 0 .. n
      BY <1>1
    <3> QED
      BY <1>2, <3>1
  <2>2. states[w[k]] # {}
    BY <2>1 DEF StatesAreReached
  <2> QED
    BY <1>1, <1>2, <2>1, <2>2, TargetIsTheGoto
<1>4. w = [k \in 0 .. n |-> IF k = 0 THEN i ELSE L!Target(w[k - 1], rhs[k])]
  <2>1. \A k \in 0 .. n : w[k] = IF k = 0 THEN i ELSE L!Target(w[k - 1], rhs[k])
    <3>1. \A k \in 0 .. n : k = 0 \/ k \in 1 .. n
      BY <1>1
    <3> QED
      BY <1>2, <1>3, <3>1
  <2> QED
    BY <1>2, <2>1
<1>5. at = [k \in 0 .. n |-> IF k = 0 THEN i ELSE L!Target(at[k - 1], rhs[k])]
  <2>1. Follows(w, i, rhs)
    BY <1>4 DEF Follows
  <2>2. Follows(StatesAlong(i, rhs), i, rhs)
    BY <2>1, AlongIsRecursive
  <2> QED
    BY <2>2 DEF Follows
<1>6. at[0] = w[0] /\ \A k \in 1 .. n : at[k - 1] = w[k - 1] => at[k] = w[k]
  BY <1>1, <1>2, <1>3, <1>5
<1>7. \A k \in 0 .. n : at[k] = w[k]
  <2> DEFINE A == {k \in 0 .. n : at[k] = w[k]}
  <2>1. n \in Nat /\ 0 \in A
    BY <1>1, <1>6
  <2>2. \A k \in 0 .. n : k # n /\ k \in A => k + 1 \in A
    <3> SUFFICES ASSUME NEW k \in 0 .. n, k # n, at[k] = w[k] PROVE k + 1 \in A
      OBVIOUS
    <3>1. k + 1 \in 1 .. n /\ (k + 1) - 1 = k /\ k + 1 \in 0 .. n
      BY <2>1
    <3>2. at[k + 1] = w[k + 1]
      BY <1>6, <3>1
    <3> QED
      BY <3>1, <3>2
  <2> HIDE DEF A
  <2>3. \A k \in 0 .. n : k \in A
    BY <2>1, <2>2, IntervalInduction
  <2> QED
    BY <2>3 DEF A
<1> QED
  BY <1>7

\* A state has a goto for the variable of a production it expands, unless it is
\* the first state and the variable the root.
LEMMA ExpandedHasGoto ==
    ASSUME AutomatonInvariant, StatesAreReached, NEW i \in L!Ids, NEW p \in ExpandedIn(i),
           i # 0 \/ Left(grammar, p) # RootVariable(grammar)
    PROVE  GotoItems(grammar, states[i], Left(grammar, p)) # {}
<1> DEFINE v == Left(grammar, p)
<1>1. /\ IsGrammar(grammar) /\ p \in Productions(grammar) /\ v \in Variables(grammar)
      /\ Item(p, 0) \in ClosureItems(grammar, states[i])
      /\ \A x \in L!Ids : states[x] \in SUBSET Items(grammar)
      /\ 0 \in L!Ids => states[0] = InitialItems(grammar)
  BY GrammarIsGrammar, ProductionShape DEF AutomatonInvariant, StatesAreNumbered, ExpandedIn
<1>2. Item(p, 0) \notin states[i]
  <2>1. CASE i # 0
    <3>1. PICK j \in L!Ids, s \in Symbols(grammar) :
              states[i] = GotoItems(grammar, states[j], s)
      BY <2>1 DEF StatesAreReached
    <3>2. \A it \in states[i] : it.dot > 0
      <4>1. \A it \in GotoItems(grammar, states[j], s) : it.dot > 0
        BY <1>1, GotoItemsType
      <4> QED
        BY <3>1, <4>1
    <3>3. Item(p, 0).dot = 0
      BY DEF Item
    <3> QED
      BY <3>2, <3>3
  <2>2. CASE i = 0
    BY <1>1, <2>2 DEF InitialItems, Expansion, Item
  <2> QED
    BY <2>1, <2>2
<1>3. v \in ClosureVariables(grammar, states[i])
  <2>1. PICK u \in ClosureVariables(grammar, states[i]) : Item(p, 0) \in Expansion(grammar, u)
    BY <1>1, <1>2 DEF ClosureItems
  <2>2. PICK r \in Productions(grammar) : Left(grammar, r) = u /\ Item(p, 0) = Item(r, 0)
    BY <2>1 DEF Expansion
  <2>3. r = p
    BY <2>2 DEF Item
  <2> QED
    BY <2>1, <2>2, <2>3
<1>4. PICK it \in ClosureItems(grammar, states[i]) : NextIs(grammar, it, v)
  BY <1>1, <1>3, ClosureVariableIsNext
<1> QED
  BY <1>4 DEF GotoItems

\* The left-hand side of an extended production stands for its variable there.
LEMMA LeftStandsForIt ==
    ASSUME AutomatonInvariant, StatesAreReached, unprocessed = <<>>,
           NEW i \in L!Ids, NEW p \in ExpandedIn(i)
    PROVE  StandsFor(ExtendedLeft(i, p), i, Left(grammar, p))
<1>1. CASE i # 0 \/ Left(grammar, p) # RootVariable(grammar)
  <2>1. Left(grammar, p) \in Symbols(grammar)
    BY GrammarIsGrammar, ProductionShape DEF AutomatonInvariant, ExpandedIn, Symbols
  <2>2. GotoItems(grammar, states[i], Left(grammar, p)) # {}
    BY <1>1, ExpandedHasGoto
  <2>3. /\ L!Target(i, Left(grammar, p)) \in L!Ids
        /\ states[L!Target(i, Left(grammar, p))] = GotoItems(grammar, states[i], Left(grammar, p))
    BY <2>1, <2>2, EdgesOfTheAutomaton
  <2> QED
    BY <1>1, <2>3 DEF StandsFor, ExtendedLeft
<1>2. CASE ~(i # 0 \/ Left(grammar, p) # RootVariable(grammar))
  BY <1>2 DEF StandsFor, ExtendedLeft
<1> QED
  BY <1>1, <1>2

\* CreateExtendedGrammar makes of a production what it is on the way from the
\* state that expands it.
LEMMA ExtendedOnTheWay ==
    ASSUME AutomatonInvariant, StatesAreReached, unprocessed = <<>>,
           NEW i \in L!Ids, NEW p \in ExpandedIn(i), NEW w \in WaysFrom(i, p)
    PROVE  IsExtended([info |-> p, lhs |-> ExtendedLeft(i, p), rhs |-> ExtendedRight(i, p)],
                      i, p, w)
<1> PICK n : n = Len(Right(grammar, p))
  OBVIOUS
<1>1. /\ p \in Productions(grammar) /\ n \in Nat
      /\ DOMAIN Right(grammar, p) = 1 .. n
  <2>1. p \in Productions(grammar) /\ Right(grammar, p) \in Seq(Symbols(grammar))
    BY GrammarIsGrammar, ProductionShape DEF AutomatonInvariant, ExpandedIn
  <2> QED
    BY <2>1
<1>2. \A m \in 1 .. n : StatesAlong(i, Right(grammar, p))[m] = w[m]
  <2>1. \A m \in 0 .. n : StatesAlong(i, Right(grammar, p))[m] = w[m]
    BY <1>1, AlongIsTheWay
  <2> QED
    BY <1>1, <2>1
<1>3. ExtendedRight(i, p) = [m \in 1 .. n |-> Symbol(Right(grammar, p)[m], w[m])]
  BY <1>1, <1>2 DEF ExtendedRight
<1>4. StandsFor(ExtendedLeft(i, p), i, Left(grammar, p))
  BY LeftStandsForIt
<1> QED
  BY <1>3, <1>4 DEF IsExtended

\* Productions are numbers, and a state expands finitely many.
LEMMA ExpandedIsFinite ==
    ASSUME IsGrammar(grammar), NEW i
    PROVE  /\ ExpandedIn(i) \in SUBSET Int /\ IsFiniteSet(ExpandedIn(i))
           /\ Cardinality(ExpandedIn(i)) \in Nat
<1>1. \E m \in Nat : Productions(grammar) = 1 .. m
  <2>1. Len(grammar.productions) \in Nat
        /\ DOMAIN grammar.productions = 1 .. Len(grammar.productions)
    BY DEF IsGrammar
  <2> QED
    BY <2>1 DEF Productions
<1>2. Productions(grammar) \in SUBSET Int /\ IsFiniteSet(Productions(grammar))
  BY <1>1, FS_Interval
<1>3. ExpandedIn(i) \in SUBSET Productions(grammar)
  BY DEF ExpandedIn
<1> QED
  BY <1>2, <1>3, FS_Subset, FS_CardinalityType

\* ExtendedProductions lists every production the state expands.
LEMMA ExtendedListsAll ==
    ASSUME IsGrammar(grammar), NEW i
    PROVE  /\ \E S : ExtendedProductions(i) \in Seq(S)
           /\ \A p \in ExpandedIn(i) :
                \E k \in 1 .. Len(ExtendedProductions(i)) :
                    ExtendedProductions(i)[k] =
                        [info |-> p, lhs |-> ExtendedLeft(i, p), rhs |-> ExtendedRight(i, p)]
           /\ \A k \in 1 .. Len(ExtendedProductions(i)) :
                \E p \in ExpandedIn(i) :
                    ExtendedProductions(i)[k] =
                        [info |-> p, lhs |-> ExtendedLeft(i, p), rhs |-> ExtendedRight(i, p)]
<1> DEFINE E == ExpandedIn(i)
           Place(x) == Cardinality({q \in E : q < x})
           nth(k) == CHOOSE p \in E : Place(p) = k - 1
           x(k) == [info |-> nth(k), lhs |-> ExtendedLeft(i, nth(k)),
                    rhs |-> ExtendedRight(i, nth(k))]
           n == Cardinality(E)
<1>1. /\ ExpandedIn(i) \in SUBSET Int /\ IsFiniteSet(ExpandedIn(i))
      /\ Cardinality(ExpandedIn(i)) \in Nat
  BY ExpandedIsFinite
<1>2. ExtendedProductions(i) = [k \in 1 .. n |-> x(k)]
  BY DEF ExtendedProductions
<1>3. ASSUME NEW p \in E
      PROVE  /\ Place(p) \in Nat /\ Place(p) + 1 \in 1 .. n /\ n \in Nat
             /\ \A q \in E : Place(q) = Place(p) => q = p
  <2> HIDE DEF E
  <2> QED
    BY <1>1, EachHasItsPlace DEF E
<1> HIDE DEF E, Place, n
<1>4. ASSUME NEW p \in E PROVE nth(Place(p) + 1) = p
  <2>1. (Place(p) + 1) - 1 = Place(p)
    BY <1>3
  <2> QED
    BY <1>3, <2>1
<1>7. ASSUME NEW k \in 1 .. n PROVE nth(k) \in E
  <2>1. \E p \in E : Place(p) = k - 1
    <3> HIDE DEF E
    <3> QED
      BY <1>1, EveryPlaceIsTaken DEF E, Place, n
  <2> QED
    BY <2>1
<1> HIDE DEF nth
<1>5. /\ \E S : ExtendedProductions(i) \in Seq(S)
      /\ Len(ExtendedProductions(i)) = n
  <2>1. n \in Nat
    BY <1>1 DEF n, E
  <2>2. [k \in 1 .. n |-> x(k)] \in Seq({x(k) : k \in 1 .. n})
    BY <2>1
  <2>3. Len([k \in 1 .. n |-> x(k)]) = n
    BY <2>1
  <2> QED
    BY <1>2, <2>2, <2>3
<1>6. ASSUME NEW p \in E
      PROVE  \E k \in 1 .. Len(ExtendedProductions(i)) :
                ExtendedProductions(i)[k] =
                    [info |-> p, lhs |-> ExtendedLeft(i, p), rhs |-> ExtendedRight(i, p)]
  BY <1>2, <1>3, <1>4, <1>5
<1> QED
  BY <1>2, <1>5, <1>6, <1>7 DEF E

\* Ways and what stands for what depend on the states only.
SameWays ==
    /\ \A i, p, d : WaysTo(i, p, d)' = WaysTo(i, p, d)
    /\ \A i, p : WaysFrom(i, p)' = WaysFrom(i, p)
    /\ \A i : ExpandedIn(i)' = ExpandedIn(i)
    /\ \A e, i, v : StandsFor(e, i, v)' = StandsFor(e, i, v)
    /\ \A q, i, p, w : IsExtended(q, i, p, w)' = IsExtended(q, i, p, w)

\* They stay while the states do.
LEMMA WaysStay ==
    ASSUME UNCHANGED <<grammar, states>>
    PROVE  SameWays /\ L!Ids' = L!Ids
<1>1. L!Ids' = L!Ids
  BY DEF L!Ids
<1>2. \A i, p, d : WaysTo(i, p, d)' = WaysTo(i, p, d)
  BY <1>1 DEF WaysTo
<1>3. \A i, p : WaysFrom(i, p)' = WaysFrom(i, p)
  BY <1>1 DEF WaysFrom, WaysTo
<1>4. \A i : ExpandedIn(i)' = ExpandedIn(i)
  BY DEF ExpandedIn
<1>5. \A e, i, v : StandsFor(e, i, v)' = StandsFor(e, i, v)
  BY <1>1 DEF StandsFor, NewRoot, Symbol
<1>6. \A q, i, p, w : IsExtended(q, i, p, w)' = IsExtended(q, i, p, w)
  BY <1>1 DEF IsExtended, StandsFor, NewRoot, Symbol
<1> QED
  BY <1>1, <1>2, <1>3, <1>4, <1>5, <1>6 DEF SameWays

\* CreateExtendedGrammar adds, for a state, all it expands, located right.
LEMMA ExtendStateCompletes ==
    ASSUME AutomatonInvariant, StatesAreReached, unprocessed = <<>>,
           NEW i \in L!Ids, \E S : site.productions \in Seq(S),
           site'.productions = site.productions \o ExtendedProductions(i),
           UNCHANGED <<grammar, states>>
    PROVE  /\ \E S : site'.productions \in Seq(S)
           /\ SiteHolds(i)'
           /\ \A j \in L!Ids : SiteHolds(j) => SiteHolds(j)'
<1> PICK old, new, all : /\ old = site.productions /\ new = ExtendedProductions(i)
                        /\ all = site'.productions
  OBVIOUS
<1>1. IsGrammar(grammar)
  BY GrammarIsGrammar DEF AutomatonInvariant
<1>2. PICK S : old \in Seq(S)
  OBVIOUS
<1>3. PICK T : new \in Seq(T)
  BY <1>1, ExtendedListsAll
<1>4. /\ old \in Seq(S \cup T) /\ new \in Seq(S \cup T) /\ all = old \o new
  BY <1>2, <1>3
<1>5. /\ all \in Seq(S \cup T) /\ Len(all) = Len(old) + Len(new)
      /\ Len(old) \in Nat /\ Len(new) \in Nat
      /\ \A k \in 1 .. Len(old) : all[k] = old[k]
      /\ \A k \in 1 .. Len(new) : all[Len(old) + k] = new[k]
  BY <1>4
<1>6. SameWays /\ L!Ids' = L!Ids
  BY WaysStay
<1>7. ASSUME NEW j \in L!Ids, SiteHolds(j) PROVE SiteHolds(j)'
  <2> SUFFICES ASSUME NEW p \in ExpandedIn(j), NEW w \in WaysFrom(j, p)
               PROVE  \E k \in 1 .. Len(all) : IsExtended(all[k], j, p, w)
    BY <1>6 DEF SiteHolds, SameWays
  <2>1. PICK k \in 1 .. Len(old) : IsExtended(old[k], j, p, w)
    BY <1>7 DEF SiteHolds
  <2>2. k \in 1 .. Len(all) /\ all[k] = old[k]
    BY <1>5
  <2> QED
    BY <2>1, <2>2
<1>8. SiteHolds(i)'
  <2> SUFFICES ASSUME NEW p \in ExpandedIn(i), NEW w \in WaysFrom(i, p)
               PROVE  \E k \in 1 .. Len(all) : IsExtended(all[k], i, p, w)
    BY <1>6 DEF SiteHolds, SameWays
  <2>1. PICK k \in 1 .. Len(new) :
            new[k] = [info |-> p, lhs |-> ExtendedLeft(i, p), rhs |-> ExtendedRight(i, p)]
    BY <1>1, ExtendedListsAll
  <2>2. Len(old) + k \in 1 .. Len(all) /\ all[Len(old) + k] = new[k]
    BY <1>5
  <2>3. IsExtended(new[k], i, p, w)
    BY <2>1, ExtendedOnTheWay
  <2> QED
    BY <2>2, <2>3
<1> QED
  BY <1>5, <1>7, <1>8

\* MakeState makes the initial set first, and then gotos that are not empty.
LEMMA StatesAreMade ==
    ASSUME AutomatonInvariant, Bootstrap
    PROVE  \/ UNCHANGED <<grammar, states>>
           \/ \E items :
                /\ items # {} /\ grammar' = grammar
                /\ states' = L!Put(states, L!IdOf(items), items)
                /\ \/ L!Ids = {} /\ items = InitialItems(grammar)
                   \/ \E e \in L!Ids, s \in Symbols(grammar) :
                        items = GotoItems(grammar, states[e], s)
<1>1. StatesAreNumbered /\ QueueHoldsTheRest /\ IsGrammar(grammar)
  BY GrammarIsGrammar DEF AutomatonInvariant
<1>2. CASE L!BeginState
  <2>1. grammar' = grammar /\ unprocessed # <<>>
    BY <1>2 DEF L!BeginState
  <2>2. CASE L!Ids # {}
    <3>1. L!Known(Head(unprocessed))
      BY <1>1, <2>1, <2>2, FrontIsExpanded
    <3> QED
      BY <1>2, <2>1, <3>1 DEF L!BeginState
  <2>3. CASE L!Ids = {}
    <3> PICK items : items = InitialItems(grammar)
      OBVIOUS
    <3>1. Head(unprocessed) = items
      BY <1>1, <2>3 DEF QueueHoldsTheRest
    <3>2. ~L!Known(items)
      BY <2>3 DEF L!Known
    <3>3. states' = L!Put(states, L!IdOf(items), items)
      BY <1>2, <3>1, <3>2 DEF L!BeginState
    <3>4. items # {}
      <4>1. RootVariable(grammar) \in Variables(grammar)
        BY <1>1, RootIsVariable
      <4>2. PICK p \in Productions(grammar) : Left(grammar, p) = RootVariable(grammar)
        BY <1>1, <4>1 DEF IsGrammar
      <4>3. Item(p, 0) \in items
        BY <4>2 DEF InitialItems, Expansion
      <4> QED
        BY <4>3
    <3> QED
      BY <2>1, <2>3, <3>3, <3>4
  <2> QED
    BY <2>2, <2>3
<1>3. CASE L!AddTransition
  <2>1. /\ grammar' = grammar /\ cursor \in 1 .. Len(L!SymbolOrder) /\ L!Dest # {}
        /\ states' = L!Put(states, L!IdOf(L!Dest), L!Dest)
    BY <1>3 DEF L!AddTransition
  <2>2. cursor # 0
    BY <1>1, <2>1, EverySymbolOnce
  <2>3. unprocessed # <<>> /\ L!Ids # {}
    BY <1>1, <2>2 DEF QueueHoldsTheRest
  <2>4. L!Expanded \in L!Ids /\ Head(unprocessed) = states[L!Expanded]
    BY <1>1, <2>3, FrontIsExpanded
  <2>5. L!SymbolOrder[cursor] \in Symbols(grammar)
    BY <1>1, <2>1, EverySymbolOnce
  <2>6. L!Dest = GotoItems(grammar, states[L!Expanded], L!SymbolOrder[cursor])
    BY <2>4, SameOperators DEF L!Dest
  <2> PICK dest, e, s : /\ dest = L!Dest /\ e = L!Expanded
                        /\ s = L!SymbolOrder[cursor]
    OBVIOUS
  <2>7. /\ dest # {} /\ grammar' = grammar /\ states' = L!Put(states, L!IdOf(dest), dest)
        /\ e \in L!Ids /\ s \in Symbols(grammar)
        /\ dest = GotoItems(grammar, states[e], s)
    BY <2>1, <2>4, <2>5, <2>6
  <2> QED
    BY <2>7
<1>4. CASE L!SkipSymbol \/ L!EndState \/ L!Bootstrapped
  BY <1>4 DEF L!SkipSymbol, L!EndState, L!Bootstrapped
<1> QED
  BY <1>2, <1>3, <1>4 DEF Bootstrap, L!Step

\* So every state but the first is reached, and none is empty.
LEMMA MakeStateReaches ==
    ASSUME AutomatonInvariant, StatesAreReached, Bootstrap
    PROVE  StatesAreReached'
<1>1. StatesAreNumbered
  BY DEF AutomatonInvariant
<1>2. ASSUME UNCHANGED <<grammar, states>> PROVE StatesAreReached'
  BY <1>2 DEF StatesAreReached, L!Ids
<1>3. ASSUME NEW items, items # {}, grammar' = grammar,
             states' = L!Put(states, L!IdOf(items), items),
             \/ L!Ids = {} /\ items = InitialItems(grammar)
             \/ \E e \in L!Ids, s \in Symbols(grammar) :
                    items = GotoItems(grammar, states[e], s)
      PROVE  StatesAreReached'
  <2> PICK d : d = L!IdOf(items)
    OBVIOUS
  <2>1. /\ L!Known(items) => d \in L!Ids /\ states[d] = items
        /\ ~L!Known(items) => d = L!StateCount /\ d \notin L!Ids
    BY <1>1, IdOfKnown
  <2>2. /\ L!Ids' = L!Ids \cup {d} /\ states'[d] = items
        /\ \A i \in L!Ids : i # d => states'[i] = states[i]
    BY <1>3 DEF L!Put, L!Ids
  <2>3. \A i \in L!Ids : states'[i] = states[i]
    BY <2>1, <2>2
  <2>4. CASE L!Ids = {}
    <3>1. ~L!Known(items)
      BY <2>4 DEF L!Known
    <3>2. L!StateCount = 0
      BY <2>4, SameOperators, FS_EmptySet DEF L!StateCount
    <3> QED
      BY <1>3, <2>1, <2>2, <2>4, <3>1, <3>2 DEF StatesAreReached
  <2>5. CASE L!Ids # {}
    <3>1. PICK e \in L!Ids, s \in Symbols(grammar) :
                items = GotoItems(grammar, states[e], s)
      BY <1>3, <2>5
    <3>2. states'[e] = states[e] /\ e \in L!Ids'
      BY <2>2, <2>3
    <3>3. states'[d] # {} /\ states'[d] = GotoItems(grammar', states'[e], s)
      BY <1>3, <2>2, <3>1, <3>2
    <3> SUFFICES ASSUME NEW i \in L!Ids'
                 PROVE  /\ states'[i] # {}
                        /\ i # 0 => \E j \in L!Ids', r \in Symbols(grammar') :
                                        states'[i] = GotoItems(grammar', states'[j], r)
      BY DEF StatesAreReached
    <3>4. CASE i = d
      BY <1>3, <3>2, <3>3, <3>4
    <3>5. CASE i # d
      <4>1. i \in L!Ids /\ states'[i] = states[i] /\ states[i] # {}
        BY <2>2, <3>5 DEF StatesAreReached
      <4>2. CASE i # 0
        <5>1. PICK j \in L!Ids, r \in Symbols(grammar) :
                    states[i] = GotoItems(grammar, states[j], r)
          BY <4>1, <4>2 DEF StatesAreReached
        <5>2. j \in L!Ids' /\ states'[j] = states[j]
          BY <2>2, <2>3
        <5> QED
          BY <1>3, <4>1, <5>1, <5>2
      <4> QED
        BY <4>1, <4>2
    <3> QED
      BY <3>4, <3>5
  <2> QED
    BY <2>4, <2>5
<1> QED
  BY <1>2, <1>3, StatesAreMade

\* The facts about the site stay true while it and the states stay the same.
LEMMA SiteStays ==
    ASSUME UNCHANGED <<grammar, states, site>>
    PROVE  /\ StatesAreReached => StatesAreReached'
           /\ L!Ids' = L!Ids
           /\ \A i \in L!Ids : SiteHolds(i) => SiteHolds(i)'
<1>1. L!Ids' = L!Ids
  BY DEF L!Ids
<1>2. ASSUME StatesAreReached PROVE StatesAreReached'
  BY <1>1, <1>2 DEF StatesAreReached
<1>3. SameWays
  BY WaysStay
<1>4. \A i \in L!Ids : SiteHolds(i) => SiteHolds(i)'
  BY <1>3 DEF SiteHolds, SameWays
<1> QED
  BY <1>1, <1>2, <1>4

\* From the first production merged on, the states and the site are settled.
Settled == Build \/ MergeProduction \/ MergeEmptyProduction \/ EndMerge
           \/ RegisterReductions \/ RegisterConflict \/ Return

\* They change neither the states nor the extended grammar, and stay in the
\* phases after it.
LEMMA SettledSteps ==
    ASSUME Settled
    PROVE  /\ UNCHANGED <<grammar, states, site>>
           /\ pc \in {"build", "merge", "register"}
           /\ pc' \in {"build", "merge", "register", "done", "aborted"}
<1>1. CASE Build
  <2>1. G!Step => UNCHANGED site
    BY DEF G!Step, G!FirstOfProduction, G!EndFirstPass, G!FollowOfSymbol,
           G!EndFollowProduction, G!EndFollowPass
  <2> QED
    BY <1>1, <2>1 DEF Build, lr0_vars
<1>2. CASE ~Build
  BY <1>2 DEF Settled, MergeProduction, MergeEmptyProduction, EndMerge, RegisterReductions,
     RegisterConflict, Return, lr0_vars, set_vars
<1> QED
  BY <1>1, <1>2

\* CreateExtendedGrammar: the site is complete once every state was visited.
LEMMA SiteIsCompleted ==
    ASSUME AutomatonInvariant, StatesAreReached, SiteIsComplete, Step
    PROVE  SiteIsComplete'
<1>1. CASE Bootstrap
  <2>1. UNCHANGED site /\ pc' \in {"bootstrap", "extend"}
    BY <1>1 DEF Bootstrap, set_vars, L!Step, L!BeginState, L!SkipSymbol, L!AddTransition,
       L!EndState, L!Bootstrapped
  <2> QED
    BY <2>1 DEF SiteIsComplete
<1>2. CASE ExtendSymbols
  <2>1. L!Ids' = L!Ids /\ to_visit' = L!Ids /\ pc' = "extend_states"
    BY <1>2 DEF ExtendSymbols, lr0_vars, L!Ids
  <2>2. "productions" \in DOMAIN site' /\ site'.productions = <<>>
    BY <1>2 DEF ExtendSymbols
  <2>3. site'.productions \in Seq({})
    BY <2>2
  <2> QED
    BY <2>1, <2>2, <2>3 DEF SiteIsComplete
<1>3. CASE ExtendState
  <2>1. PICK i \in to_visit :
            /\ site' = [site EXCEPT !.productions = @ \o ExtendedProductions(i)]
            /\ to_visit' = to_visit \ {i}
    BY <1>3 DEF ExtendState
  <2>2. UNCHANGED <<grammar, states, pc>> /\ pc = "extend_states"
    BY <1>3 DEF ExtendState, lr0_vars
  <2>3. unprocessed = <<>>
    BY <2>2 DEF AutomatonInvariant, QueueHoldsTheRest
  <2>4. /\ "productions" \in DOMAIN site /\ \E S : site.productions \in Seq(S)
        /\ to_visit \subseteq L!Ids /\ \A j \in L!Ids \ to_visit : SiteHolds(j)
    BY <2>2 DEF SiteIsComplete
  <2>5. /\ "productions" \in DOMAIN site'
        /\ site'.productions = site.productions \o ExtendedProductions(i)
    BY <2>1, <2>4
  <2>6. /\ \E S : site'.productions \in Seq(S)
        /\ SiteHolds(i)'
        /\ \A j \in L!Ids : SiteHolds(j) => SiteHolds(j)'
    BY <2>2, <2>3, <2>4, <2>5, ExtendStateCompletes
  <2>7. L!Ids' = L!Ids
    BY <2>2 DEF L!Ids
  <2> QED
    BY <2>1, <2>2, <2>4, <2>5, <2>6, <2>7 DEF SiteIsComplete
<1>4. CASE BeginBuild \/ Settled
  <2>1. UNCHANGED <<grammar, states, site>> /\ pc' # "extend_states"
    BY <1>4, SettledSteps DEF BeginBuild, lr0_vars, set_vars
  <2>2. \A i \in L!Ids : SiteHolds(i)
    <3>1. CASE BeginBuild
      BY <3>1 DEF BeginBuild, SiteIsComplete
    <3>2. CASE Settled
      BY <3>2, SettledSteps DEF SiteIsComplete
    <3> QED
      BY <1>4, <3>1, <3>2
  <2>3. L!Ids' = L!Ids /\ \A i \in L!Ids : SiteHolds(i)'
    BY <2>1, <2>2, SiteStays
  <2> QED
    BY <2>1, <2>3 DEF SiteIsComplete
<1> QED
  BY <1>1, <1>2, <1>3, <1>4 DEF Step, Settled

\* The loop over all_locations: a production is merged where it ends.
LEMMA MergedStayLocated ==
    ASSUME SiteIsComplete, MergedAreLocated, Step
    PROVE  MergedAreLocated'
<1>1. CASE MergeProduction
  <2> PICK p, key : p = site.productions[merged + 1] /\ key = Located(p)
    OBVIOUS
  <2>1. /\ pc = "merge" /\ pc' = pc /\ merged < Len(site.productions)
        /\ merged' = merged + 1 /\ p.rhs # <<>>
        /\ UNCHANGED site
    BY <1>1 DEF MergeProduction, set_vars
  <2>2. PICK follows : merged_follow' = L!Put(merged_follow, key, follows)
    BY <1>1 DEF MergeProduction
  <2>3. DOMAIN merged_follow' = DOMAIN merged_follow \cup {key}
    BY <2>2 DEF L!Put
  <2>4. merged \in Nat /\ \A k \in 1 .. merged + 1 : k \in 1 .. merged \/ k = merged + 1
    BY DEF MergedAreLocated
  <2>5. \A k \in 1 .. merged + 1 :
            /\ site.productions[k].rhs # <<>>
            /\ Located(site.productions[k]) \in DOMAIN merged_follow'
    BY <2>1, <2>3, <2>4 DEF MergedAreLocated
  <2> QED
    BY <2>1, <2>4, <2>5 DEF MergedAreLocated, Located
<1>2. CASE ~MergeProduction
  <2>1. UNCHANGED <<merged, merged_follow>>
    BY <1>2 DEF Step, Bootstrap, ExtendSymbols, ExtendState, BeginBuild, Build,
       MergeEmptyProduction, EndMerge, RegisterReductions, RegisterConflict, Return, table_vars
  <2>2. CASE Settled
    <3>1. UNCHANGED site
      BY <2>2, SettledSteps
    <3>2. pc' = "merge" => pc \in {"build", "merge"}
      BY <2>2 DEF Settled, Build, MergeProduction, MergeEmptyProduction, EndMerge,
         RegisterReductions, RegisterConflict, Return
    <3>3. /\ pc' \in {"register", "done"} =>
                pc \in {"register", "done"} \/ merged = Len(site.productions)
          /\ pc' \notin {"merge", "register", "done", "aborted"} =>
                pc \notin {"merge", "register", "done", "aborted"}
      BY <1>2, <2>2 DEF Settled, Build, MergeProduction, MergeEmptyProduction, EndMerge,
         RegisterReductions, RegisterConflict, Return
    <3> QED
      BY <2>1, <3>1, <3>3 DEF MergedAreLocated, Located
  <2>3. CASE ~Settled
    <3>1. /\ pc \notin {"merge", "register", "done", "aborted"}
          /\ pc' \notin {"merge", "register", "done", "aborted"}
      BY <2>3 DEF Step, Settled, Bootstrap, ExtendSymbols, ExtendState, BeginBuild, L!Step,
         L!BeginState, L!SkipSymbol, L!AddTransition, L!EndState, L!Bootstrapped
    <3>2. merged = 0 /\ merged' = 0
      BY <2>1, <3>1 DEF MergedAreLocated
    <3> QED
      BY <3>1, <3>2 DEF MergedAreLocated
  <2> QED
    BY <2>2, <2>3
<1> QED
  BY <1>1, <1>2

\* What the merged sets rest on is kept in all phases, and nothing changes the
\* extended grammar once it is complete.
LEMMA MergeInvariantIsKept ==
    ASSUME AutomatonInvariant, MergeInvariant, [Next]_vars
    PROVE  MergeInvariant'
<1>1. CASE UNCHANGED vars
  <2>1. UNCHANGED <<grammar, states, site>>
    BY <1>1 DEF vars, lr0_vars, set_vars
  <2>2. UNCHANGED <<pc, to_visit, merged, merged_follow>>
    BY <1>1 DEF vars, table_vars
  <2>3. /\ StatesAreReached'
        /\ L!Ids' = L!Ids
        /\ \A i \in L!Ids : SiteHolds(i) => SiteHolds(i)'
    BY <2>1, SiteStays DEF MergeInvariant
  <2>4. SiteIsComplete'
    BY <2>1, <2>2, <2>3 DEF MergeInvariant, SiteIsComplete
  <2>5. MergedAreLocated'
    BY <2>1, <2>2 DEF MergeInvariant, MergedAreLocated, Located
  <2> QED
    BY <2>3, <2>4, <2>5 DEF MergeInvariant
<1>2. CASE Step
  <2>1. StatesAreReached'
    <3>1. CASE Bootstrap
      BY <3>1, MakeStateReaches DEF MergeInvariant
    <3>2. CASE ~Bootstrap
      <4>1. UNCHANGED <<grammar, states>>
        BY <1>2, <3>2, SettledSteps DEF Step, Settled, ExtendSymbols, ExtendState, BeginBuild,
           lr0_vars
      <4> QED
        BY <4>1 DEF MergeInvariant, StatesAreReached, L!Ids
    <3> QED
      BY <3>1, <3>2
  <2> QED
    BY <1>2, <2>1, SiteIsCompleted, MergedStayLocated DEF MergeInvariant
<1> QED
  BY <1>1, <1>2 DEF Next

\* An extended production that is not empty is located where its way ends.
LEMMA LocatedWhereItEnds ==
    ASSUME NEW i, NEW p, NEW w, NEW q, IsExtended(q, i, p, w),
           Len(Right(grammar, p)) \in Nat, q.rhs # <<>>
    PROVE  /\ Len(Right(grammar, p)) # 0
           /\ Located(q) = [state |-> w[Len(Right(grammar, p))], prod |-> p]
<1> PICK n : n = Len(Right(grammar, p))
  OBVIOUS
<1>1. q.info = p /\ q.rhs = [m \in 1 .. n |-> Symbol(Right(grammar, p)[m], w[m])]
  BY DEF IsExtended
<1>2. n # 0
  BY <1>1
<1>3. Len(q.rhs) = n /\ n \in 1 .. n
  BY <1>1, <1>2
<1>4. q.rhs[n].version = w[n]
  BY <1>1, <1>3 DEF Symbol
<1> QED
  BY <1>1, <1>2, <1>3, <1>4 DEF Located

\* A production a kernel finishes was merged under that state, so it is not
\* empty.
LEMMA FinishedIsMerged ==
    ASSUME AutomatonInvariant, MergeInvariant, pc \in {"register", "done"},
           NEW i \in L!Ids, NEW p \in Finished(i)
    PROVE  /\ [state |-> i, prod |-> p] \in DOMAIN merged_follow
           /\ p \in Productions(grammar) /\ Len(Right(grammar, p)) # 0
<1> PICK n : n = Len(Right(grammar, p))
  OBVIOUS
<1>0. /\ p \in Productions(grammar) /\ n \in Nat /\ n \in 0 .. n
      /\ Item(p, n) \in ClosureItems(grammar, states[i])
  <2>1. p \in Productions(grammar) /\ Item(p, n) \in ClosureItems(grammar, states[i])
    BY FinishedEnds
  <2>2. n \in Nat
    BY <2>1, GrammarIsGrammar, ProductionShape DEF AutomatonInvariant
  <2> QED
    BY <2>1, <2>2
<1>1. PICK j \in L!Ids : p \in ExpandedIn(j) /\ \E w \in WaysTo(j, p, n) : w[n] = i
  BY <1>0, WayBack DEF MergeInvariant
<1>2. PICK w \in WaysFrom(j, p) : w[n] = i
  BY <1>1 DEF WaysFrom
<1>3. SiteHolds(j)
  BY DEF MergeInvariant, SiteIsComplete
<1>4. PICK k \in 1 .. Len(site.productions) : IsExtended(site.productions[k], j, p, w)
  BY <1>1, <1>3 DEF SiteHolds
<1> PICK q : q = site.productions[k]
  OBVIOUS
<1>5. q.rhs # <<>> /\ Located(q) \in DOMAIN merged_follow
  BY DEF MergeInvariant, MergedAreLocated
<1>7. n # 0 /\ Located(q) = [state |-> i, prod |-> p]
  <2>1. IsExtended(q, j, p, w) /\ Len(Right(grammar, p)) \in Nat
    BY <1>0, <1>4
  <2>2. n # 0 /\ Located(q) = [state |-> w[n], prod |-> p]
    BY <1>5, <2>1, LocatedWhereItEnds
  <2> QED
    BY <1>2, <2>2
<1> QED
  BY <1>0, <1>5, <1>7

\* Nothing is merged at first.
LEMMA MergeInvariantStarts ==
    ASSUME Init
    PROVE  MergeInvariant
<1>1. states = <<>> /\ pc = "bootstrap" /\ site = EmptySite /\ merged = 0
  BY DEF Init, L!Init, G!StartBuild
<1>2. L!Ids = {}
  BY <1>1 DEF L!Ids
<1>3. "productions" \in DOMAIN site /\ site.productions \in Seq({})
  BY <1>1 DEF EmptySite
<1> QED
  BY <1>1, <1>2, <1>3
  DEF MergeInvariant, StatesAreReached, SiteIsComplete, MergedAreLocated

\* merged_follow.at(key) never throws, whatever the grammar: every production
\* that a kernel finishes was merged, under that state, before the reductions
\* are registered.
THEOREM FinishedItemsAreMerged == Spec => []EveryFinishedItemIsMerged
<1>1. Init => MergeInvariant
  BY MergeInvariantStarts
<1>2. AutomatonInvariant /\ MergeInvariant /\ [Next]_vars => MergeInvariant'
  BY MergeInvariantIsKept
<1>3. AutomatonInvariant /\ MergeInvariant => EveryFinishedItemIsMerged
  BY FinishedIsMerged DEF EveryFinishedItemIsMerged
<1> QED
  BY <1>1, <1>2, <1>3, AutomatonInvariantHolds, PTL DEF Spec
-----------------------------------------------------------------------------
(***************************************************************************)
(* Where reductions are registered, and when the construction fails: a     *)
(* lookahead lies in FOLLOW of the grammar, so that an assertion fails     *)
(* only for grammars that are not SLR(1) or have an empty production.      *)
(*                                                                         *)
(* Dropping the states from the symbols of the extended grammar gives the  *)
(* grammar back, so what can follow a symbol there can follow it here.     *)
(***************************************************************************)
B == INSTANCE GrammarBuilderProofs WITH Sites <- {}

-----------------------------------------------------------------------------
(* A site whose symbols carry more than those of another                   *)

\* Dropping what they carry makes of a production of big one of small.
MapsTo(big, small) ==
    /\ \A s \in big.terms : s.info \in small.terms
    /\ \A s \in big.nonterms : s.info \in small.nonterms
    /\ big.root \in big.nonterms /\ big.root.info = small.root
    /\ \A q \in Textbook!Prods(big) :
        /\ q.lhs \in big.nonterms
        /\ Len(q.rhs) \in Nat /\ DOMAIN q.rhs = 1 .. Len(q.rhs)
        /\ \A k \in 1 .. Len(q.rhs) : q.rhs[k] \in Textbook!SymbolsOf(big)
        /\ \E p \in Textbook!Prods(small) :
            /\ p.lhs = q.lhs.info
            /\ Len(p.rhs) = Len(q.rhs) /\ DOMAIN p.rhs = 1 .. Len(q.rhs)
            /\ \A k \in 1 .. Len(q.rhs) : p.rhs[k] = q.rhs[k].info

\* A pair of symbols without what they carry.
Bare(r) == <<r[1].info, r[2].info>>

\* A symbol that vanishes in big does in small.
LEMMA NullableMaps ==
    ASSUME NEW big, NEW small, MapsTo(big, small), NEW s \in Textbook!Nullable(big)
    PROVE  s.info \in Textbook!Nullable(small)
<1>1. s \in big.nonterms /\ s.info \in small.nonterms
  BY DEF Textbook!Nullable, MapsTo
<1> SUFFICES ASSUME NEW N \in SUBSET small.nonterms, Textbook!IsNullClosed(small, N)
             PROVE  s.info \in N
  BY <1>1 DEF Textbook!Nullable
<1> DEFINE M == {u \in big.nonterms : u.info \in N}
<1>2. Textbook!IsNullClosed(big, M)
  <2> SUFFICES ASSUME NEW q \in Textbook!Prods(big), \A i \in DOMAIN q.rhs : q.rhs[i] \in M
               PROVE  q.lhs \in M
    BY DEF Textbook!IsNullClosed
  <2>1. PICK p \in Textbook!Prods(small) :
            /\ p.lhs = q.lhs.info
            /\ Len(p.rhs) = Len(q.rhs) /\ DOMAIN p.rhs = 1 .. Len(q.rhs)
            /\ \A k \in 1 .. Len(q.rhs) : p.rhs[k] = q.rhs[k].info
    BY DEF MapsTo
  <2>2. DOMAIN q.rhs = 1 .. Len(q.rhs) /\ q.lhs \in big.nonterms
    BY DEF MapsTo
  <2>3. \A i \in DOMAIN p.rhs : p.rhs[i] \in N
    BY <2>1, <2>2
  <2>4. p.lhs \in N
    BY <2>3 DEF Textbook!IsNullClosed
  <2> QED
    BY <2>1, <2>2, <2>4
<1>3. s \in M
  BY <1>2 DEF Textbook!Nullable
<1> QED
  BY <1>3

\* Which symbols begin, end and neighbour others in big, they do in small.
LEMMA RelationsMap ==
    ASSUME NEW big, NEW small, MapsTo(big, small)
    PROVE  /\ \A r \in Textbook!Begins(big) :
                r[2] \in Textbook!SymbolsOf(big) /\ Bare(r) \in Textbook!Begins(small)
           /\ \A r \in Textbook!Ends(big) :
                r[2] \in Textbook!SymbolsOf(big) /\ Bare(r) \in Textbook!Ends(small)
           /\ \A r \in Textbook!Neighbours(big) :
                /\ r[1] \in Textbook!SymbolsOf(big) /\ r[2] \in Textbook!SymbolsOf(big)
                /\ Bare(r) \in Textbook!Neighbours(small)
<1>1. \A u \in Textbook!Nullable(big) : u.info \in Textbook!Nullable(small)
  BY NullableMaps
<1>2. ASSUME NEW q \in Textbook!Prods(big)
      PROVE  /\ DOMAIN q.rhs = 1 .. Len(q.rhs) /\ Len(q.rhs) \in Nat
             /\ \A k \in 1 .. Len(q.rhs) : q.rhs[k] \in Textbook!SymbolsOf(big)
             /\ \E p \in Textbook!Prods(small) :
                    /\ p.lhs = q.lhs.info
                    /\ Len(p.rhs) = Len(q.rhs) /\ DOMAIN p.rhs = 1 .. Len(q.rhs)
                    /\ \A k \in 1 .. Len(q.rhs) : p.rhs[k] = q.rhs[k].info
  BY DEF MapsTo
<1>3. ASSUME NEW r \in Textbook!Begins(big)
      PROVE  r[2] \in Textbook!SymbolsOf(big) /\ Bare(r) \in Textbook!Begins(small)
  <2>1. PICK q \in Textbook!Prods(big) :
            \E i \in DOMAIN q.rhs : /\ \A k \in 1 .. (i - 1) : q.rhs[k] \in Textbook!Nullable(big)
                                    /\ r = <<q.lhs, q.rhs[i]>>
    BY DEF Textbook!Begins
  <2>2. PICK i \in 1 .. Len(q.rhs) : /\ \A k \in 1 .. (i - 1) : q.rhs[k] \in Textbook!Nullable(big)
                                     /\ r = <<q.lhs, q.rhs[i]>>
    BY <1>2, <2>1
  <2>3. PICK p \in Textbook!Prods(small) :
                    /\ p.lhs = q.lhs.info
                    /\ Len(p.rhs) = Len(q.rhs) /\ DOMAIN p.rhs = 1 .. Len(q.rhs)
                    /\ \A k \in 1 .. Len(q.rhs) : p.rhs[k] = q.rhs[k].info
    BY <1>2
  <2>4. \A k \in 1 .. (i - 1) : p.rhs[k] \in Textbook!Nullable(small)
    BY <1>1, <1>2, <2>2, <2>3
  <2>5. <<p.lhs, p.rhs[i]>> \in Textbook!Begins(small)
    BY <2>3, <2>4 DEF Textbook!Begins
  <2>6. Bare(r) = <<p.lhs, p.rhs[i]>> /\ r[2] = q.rhs[i]
    BY <2>2, <2>3 DEF Bare
  <2> QED
    BY <1>2, <2>5, <2>6
<1>4. ASSUME NEW r \in Textbook!Ends(big)
      PROVE  r[2] \in Textbook!SymbolsOf(big) /\ Bare(r) \in Textbook!Ends(small)
  <2>1. PICK q \in Textbook!Prods(big) :
            \E i \in DOMAIN q.rhs :
                /\ \A k \in (i + 1) .. Len(q.rhs) : q.rhs[k] \in Textbook!Nullable(big)
                /\ r = <<q.lhs, q.rhs[i]>>
    BY DEF Textbook!Ends
  <2>2. PICK i \in 1 .. Len(q.rhs) :
                /\ \A k \in (i + 1) .. Len(q.rhs) : q.rhs[k] \in Textbook!Nullable(big)
                /\ r = <<q.lhs, q.rhs[i]>>
    BY <1>2, <2>1
  <2>3. PICK p \in Textbook!Prods(small) :
                    /\ p.lhs = q.lhs.info
                    /\ Len(p.rhs) = Len(q.rhs) /\ DOMAIN p.rhs = 1 .. Len(q.rhs)
                    /\ \A k \in 1 .. Len(q.rhs) : p.rhs[k] = q.rhs[k].info
    BY <1>2
  <2>4. \A k \in (i + 1) .. Len(p.rhs) : p.rhs[k] \in Textbook!Nullable(small)
    BY <1>1, <1>2, <2>2, <2>3
  <2>5. <<p.lhs, p.rhs[i]>> \in Textbook!Ends(small)
    BY <2>3, <2>4 DEF Textbook!Ends
  <2>6. Bare(r) = <<p.lhs, p.rhs[i]>> /\ r[2] = q.rhs[i]
    BY <2>2, <2>3 DEF Bare
  <2> QED
    BY <1>2, <2>5, <2>6
<1>5. ASSUME NEW r \in Textbook!Neighbours(big)
      PROVE  /\ r[1] \in Textbook!SymbolsOf(big) /\ r[2] \in Textbook!SymbolsOf(big)
             /\ Bare(r) \in Textbook!Neighbours(small)
  <2>1. PICK q \in Textbook!Prods(big) :
            \E j \in DOMAIN q.rhs : \E i \in 1 .. (j - 1) :
                /\ \A k \in (i + 1) .. (j - 1) : q.rhs[k] \in Textbook!Nullable(big)
                /\ r = <<q.rhs[i], q.rhs[j]>>
    BY DEF Textbook!Neighbours
  <2>2. PICK j \in 1 .. Len(q.rhs) :
            \E i \in 1 .. (j - 1) :
                /\ \A k \in (i + 1) .. (j - 1) : q.rhs[k] \in Textbook!Nullable(big)
                /\ r = <<q.rhs[i], q.rhs[j]>>
    BY <1>2, <2>1
  <2>3. PICK i \in 1 .. (j - 1) :
                /\ \A k \in (i + 1) .. (j - 1) : q.rhs[k] \in Textbook!Nullable(big)
                /\ r = <<q.rhs[i], q.rhs[j]>>
    BY <2>2
  <2>4. PICK p \in Textbook!Prods(small) :
                    /\ p.lhs = q.lhs.info
                    /\ Len(p.rhs) = Len(q.rhs) /\ DOMAIN p.rhs = 1 .. Len(q.rhs)
                    /\ \A k \in 1 .. Len(q.rhs) : p.rhs[k] = q.rhs[k].info
    BY <1>2
  <2>5. Len(q.rhs) \in Nat /\ i \in 1 .. Len(q.rhs)
    BY <1>2
  <2>6. \A k \in (i + 1) .. (j - 1) : p.rhs[k] \in Textbook!Nullable(small)
    BY <1>1, <2>3, <2>4, <2>5
  <2>7. <<p.rhs[i], p.rhs[j]>> \in Textbook!Neighbours(small)
    <3>1. j \in DOMAIN p.rhs
      BY <2>4
    <3>2. i \in {m \in 1 .. (j - 1) :
                    \A k \in (m + 1) .. (j - 1) : p.rhs[k] \in Textbook!Nullable(small)}
      BY <2>6
    <3> QED
      BY <3>1, <3>2 DEF Textbook!Neighbours
  <2>8. Bare(r) = <<p.rhs[i], p.rhs[j]>> /\ r[1] = q.rhs[i] /\ r[2] = q.rhs[j]
    BY <2>3, <2>4, <2>5 DEF Bare
  <2> QED
    BY <1>2, <2>5, <2>7, <2>8
<1> QED
  BY <1>3, <1>4, <1>5

\* What is reached in a relation that maps into another is reached there.
LEMMA ReachedMaps ==
    ASSUME NEW rel, NEW U, NEW other, NEW V,
           \A u \in U : u.info \in V,
           \A r \in rel : r[2] \in U /\ Bare(r) \in other,
           NEW s \in U, NEW t \in Textbook!ReachedBy(rel, U, s)
    PROVE  t \in U /\ t.info \in Textbook!ReachedBy(other, V, s.info)
<1>1. t \in U /\ t.info \in V
  BY DEF Textbook!ReachedBy
<1> SUFFICES ASSUME NEW W \in SUBSET V, s.info \in W, Textbook!IsClosed(other, W)
             PROVE  t.info \in W
  BY <1>1 DEF Textbook!ReachedBy
<1> DEFINE D == {u \in U : u.info \in W}
<1>2. Textbook!IsClosed(rel, D)
  <2> SUFFICES ASSUME NEW r \in rel, r[1] \in D PROVE r[2] \in D
    BY DEF Textbook!IsClosed
  <2>1. Bare(r) \in other /\ Bare(r)[1] = r[1].info /\ Bare(r)[2] = r[2].info
    BY DEF Bare
  <2> QED
    BY <2>1 DEF Textbook!IsClosed
<1>3. t \in D
  BY <1>2 DEF Textbook!ReachedBy
<1> QED
  BY <1>3

\* So do FIRST, FOLLOW and the marks at the end.
LEMMA SetsMap ==
    ASSUME NEW big, NEW small, MapsTo(big, small)
    PROVE  /\ \A s \in Textbook!SymbolsOf(big) : \A t \in Textbook!First(big, s) :
                t.info \in Textbook!First(small, s.info)
           /\ \A s \in Textbook!SymbolsOf(big) : \A t \in Textbook!Follow(big, s) :
                t.info \in Textbook!Follow(small, s.info)
           /\ \A s \in Textbook!PrecedesEof(big) : s.info \in Textbook!PrecedesEof(small)
<1> DEFINE U == Textbook!SymbolsOf(big)
           V == Textbook!SymbolsOf(small)
<1>1. /\ \A u \in U : u.info \in V
      /\ \A s \in big.terms : s.info \in small.terms
      /\ \A s \in big.nonterms : s.info \in small.nonterms
      /\ big.root \in U /\ big.root.info = small.root
  BY DEF MapsTo, Textbook!SymbolsOf
<1>2. ASSUME NEW s \in U, NEW t \in Textbook!First(big, s)
      PROVE  t.info \in Textbook!First(small, s.info)
  <2>1. t \in Textbook!ReachedBy(Textbook!Begins(big), U, s) /\ t \in big.terms
    BY DEF Textbook!First, Textbook!Beginnings
  <2>2. t.info \in Textbook!ReachedBy(Textbook!Begins(small), V, s.info)
    <3> HIDE DEF U, V
    <3> QED
      BY <1>1, <2>1, RelationsMap, ReachedMaps DEF U
  <2> QED
    BY <1>1, <2>1, <2>2 DEF Textbook!First, Textbook!Beginnings
<1>3. ASSUME NEW s \in U, NEW t \in Textbook!Endings(big, s)
      PROVE  t.info \in Textbook!Endings(small, s.info)
  <2>1. t \in Textbook!ReachedBy(Textbook!Ends(big), U, s)
    BY DEF Textbook!Endings
  <2>2. t.info \in Textbook!ReachedBy(Textbook!Ends(small), V, s.info)
    <3> HIDE DEF U, V
    <3> QED
      BY <1>1, <2>1, RelationsMap, ReachedMaps DEF U
  <2> QED
    BY <2>2 DEF Textbook!Endings
<1>4. ASSUME NEW s \in U, NEW t \in Textbook!Follow(big, s)
      PROVE  t.info \in Textbook!Follow(small, s.info)
  <2>1. PICK n \in Textbook!Neighbours(big) :
            s \in Textbook!Endings(big, n[1]) /\ t \in Textbook!First(big, n[2])
    BY DEF Textbook!Follow
  <2>2. n[1] \in U /\ n[2] \in U /\ Bare(n) \in Textbook!Neighbours(small)
    BY RelationsMap
  <2>3. Bare(n)[1] = n[1].info /\ Bare(n)[2] = n[2].info
    BY DEF Bare
  <2>4. /\ s.info \in Textbook!Endings(small, Bare(n)[1])
        /\ t.info \in Textbook!First(small, Bare(n)[2])
    BY <1>2, <1>3, <2>1, <2>2, <2>3
  <2> QED
    BY <2>2, <2>4 DEF Textbook!Follow
<1>5. ASSUME NEW s \in Textbook!PrecedesEof(big)
      PROVE  s.info \in Textbook!PrecedesEof(small)
  <2>1. s \in Textbook!Endings(big, big.root) /\ s \in big.nonterms
    BY DEF Textbook!PrecedesEof
  <2>2. s.info \in Textbook!Endings(small, small.root)
    BY <1>1, <1>3, <2>1
  <2> QED
    BY <1>1, <2>1, <2>2 DEF Textbook!PrecedesEof
<1> QED
  BY <1>2, <1>4, <1>5
-----------------------------------------------------------------------------
(* The items of the automaton are of productions the root can use.         *)

\* The root is used, and so is what a used variable has on its right.
LEMMA UsedIsClosed ==
    ASSUME IsGrammar(grammar)
    PROVE  /\ RootVariable(grammar) \in UsedVariables
           /\ \A p \in Productions(grammar) : Left(grammar, p) \in UsedVariables =>
                \A k \in DOMAIN Right(grammar, p) : Right(grammar, p)[k] \in UsedVariables
<1> DEFINE U == Symbols(grammar)
           below == UNION {{<<Left(grammar, p), Right(grammar, p)[k]>> :
                               k \in DOMAIN Right(grammar, p)} : p \in Productions(grammar)}
<1>1. UsedVariables = Textbook!ReachedBy(below, U, RootVariable(grammar))
  BY DEF UsedVariables
<1>2. RootVariable(grammar) \in U
  BY RootIsVariable DEF Symbols
<1>3. ASSUME NEW p \in Productions(grammar), NEW k \in DOMAIN Right(grammar, p)
      PROVE  <<Left(grammar, p), Right(grammar, p)[k]>> \in below /\ Right(grammar, p)[k] \in U
  BY ProductionShape
<1> HIDE DEF U, below
<1>4. RootVariable(grammar) \in UsedVariables
  BY <1>1, <1>2 DEF Textbook!ReachedBy
<1>5. ASSUME NEW p \in Productions(grammar), Left(grammar, p) \in UsedVariables,
             NEW k \in DOMAIN Right(grammar, p)
      PROVE  Right(grammar, p)[k] \in UsedVariables
  <2> SUFFICES ASSUME NEW W \in SUBSET U, RootVariable(grammar) \in W,
                      Textbook!IsClosed(below, W)
               PROVE  Right(grammar, p)[k] \in W
    BY <1>1, <1>3 DEF Textbook!ReachedBy
  <2>1. Left(grammar, p) \in W
    BY <1>1, <1>5 DEF Textbook!ReachedBy
  <2> QED
    BY <1>3, <2>1 DEF Textbook!IsClosed
<1> QED
  BY <1>4, <1>5

UsesOnly(K) == \A it \in K : Left(grammar, it.prod) \in UsedVariables

\* EnumerateClosureItems and ComputeGotoItems stay within the used productions.
LEMMA GotosAreUsed ==
    ASSUME IsGrammar(grammar), NEW K \in SUBSET Items(grammar), UsesOnly(K)
    PROVE  /\ UsesOnly(ClosureItems(grammar, K))
           /\ \A s : UsesOnly(GotoItems(grammar, K, s))
<1> DEFINE S == UsedVariables \cap Variables(grammar)
<1>1. Seeds(grammar, K) \subseteq S
  <2> SUFFICES ASSUME NEW it \in K, NEW v \in Variables(grammar), NextIs(grammar, it, v)
               PROVE  v \in UsedVariables
    BY DEF Seeds
  <2>1. /\ it.prod \in Productions(grammar) /\ it.dot \in 0 .. Len(Right(grammar, it.prod))
        /\ Right(grammar, it.prod) \in Seq(Symbols(grammar))
    BY ItemShape, ProductionShape
  <2>2. it.dot + 1 \in DOMAIN Right(grammar, it.prod)
    BY <2>1 DEF NextIs, IsFinalized
  <2> QED
    BY <2>1, <2>2, UsedIsClosed DEF NextIs, UsesOnly
<1>2. ASSUME NEW u \in S PROVE Heads(grammar, u) \subseteq S
  <2> SUFFICES ASSUME NEW p \in Productions(grammar), Left(grammar, p) = u,
                      Right(grammar, p) # <<>>
               PROVE  Right(grammar, p)[1] \in UsedVariables
    BY DEF Heads
  <2>1. 1 \in DOMAIN Right(grammar, p)
    BY ProductionShape
  <2> QED
    BY <2>1, UsedIsClosed
<1>3. ClosureVariables(grammar, K) \subseteq S
  BY <1>1, <1>2, ClosureVariablesLeast
<1>4. UsesOnly(ClosureItems(grammar, K))
  BY <1>3 DEF UsesOnly, ClosureItems, Expansion, Item
<1>5. ASSUME NEW s PROVE UsesOnly(GotoItems(grammar, K, s))
  BY <1>4 DEF UsesOnly, GotoItems, CreateSuccessor, Item
<1> QED
  BY <1>4, <1>5

ItemsAreUsed == \A i \in L!Ids : UsesOnly(states[i])

\* MakeState makes states of used items only.
LEMMA MakeStateUses ==
    ASSUME AutomatonInvariant, ItemsAreUsed, Bootstrap
    PROVE  ItemsAreUsed'
<1>1. StatesAreNumbered /\ IsGrammar(grammar)
  BY GrammarIsGrammar DEF AutomatonInvariant
<1>2. CASE UNCHANGED <<grammar, states>>
  BY <1>2 DEF ItemsAreUsed, UsesOnly, UsedVariables, L!Ids
<1>3. ASSUME NEW items, grammar' = grammar,
             states' = L!Put(states, L!IdOf(items), items),
             \/ L!Ids = {} /\ items = InitialItems(grammar)
             \/ \E e \in L!Ids, s \in Symbols(grammar) :
                    items = GotoItems(grammar, states[e], s)
      PROVE  ItemsAreUsed'
  <2>1. UsesOnly(items)
    <3>1. CASE items = InitialItems(grammar)
      BY <1>1, <3>1, UsedIsClosed DEF UsesOnly, InitialItems, Expansion, Item
    <3>2. CASE \E e \in L!Ids, s \in Symbols(grammar) :
                    items = GotoItems(grammar, states[e], s)
      <4>1. \A e \in L!Ids : states[e] \in SUBSET Items(grammar) /\ UsesOnly(states[e])
        BY <1>1 DEF StatesAreNumbered, ItemsAreUsed
      <4> QED
        BY <1>1, <3>2, <4>1, GotosAreUsed
    <3> QED
      BY <1>3, <3>1, <3>2
  <2>2. \A i \in L!Ids' : states'[i] = items \/ (i \in L!Ids /\ states'[i] = states[i])
    BY <1>3 DEF L!Put, L!Ids
  <2>3. UsedVariables' = UsedVariables
    BY <1>3 DEF UsedVariables
  <2> QED
    BY <1>3, <2>1, <2>2, <2>3 DEF ItemsAreUsed, UsesOnly
<1> QED
  BY <1>2, <1>3, StatesAreMade

-----------------------------------------------------------------------------
(* The extended grammar: every symbol with the state it leads to.          *)

\* A symbol a state has a goto for is one of the extended grammar, with the
\* state of that goto.
LEMMA EdgeIsExtended ==
    ASSUME AutomatonInvariant, unprocessed = <<>>, pc = "extend_states",
           NEW x \in L!Ids, NEW s \in Symbols(grammar),
           GotoItems(grammar, states[x], s) # {}
    PROVE  \E y \in L!Ids :
            /\ states[y] = GotoItems(grammar, states[x], s) /\ L!Target(x, s) = y
            /\ s \in Tokens(grammar) => Symbol(s, y) \in ExtendedTerms
            /\ s \in Variables(grammar) => Symbol(s, y) \in ExtendedNonterms
<1>1. /\ EdgesAreGotos /\ Wanted(x, s)
      /\ Tokens(grammar) \cap Variables(grammar) = {}
  BY AllTried, GrammarIsGrammar DEF AutomatonInvariant, IsGrammar
<1>2. CASE s \in Tokens(grammar)
  <2>1. s \in DOMAIN action_map[x] /\ IsShift(x, s)
    BY <1>1, <1>2 DEF EdgesAreGotos
  <2>2. PICK d \in L!Ids : /\ action_map[x][s] = L!PdaEdgeShift(d)
                           /\ states[d] = GotoItems(grammar, states[x], s)
    BY <2>1 DEF IsShift
  <2>3. action_map[x][s].target = d
    BY <2>2 DEF L!PdaEdgeShift
  <2>4. Symbol(s, d) \in ExtendedTerms
    BY <2>1, <2>3 DEF ExtendedTerms
  <2>5. L!Target(x, s) = d
    BY <1>2, <2>3, SameOperators DEF L!Target
  <2> QED
    BY <1>1, <1>2, <2>2, <2>4, <2>5
<1>3. CASE s \in Variables(grammar)
  <2>1. s \in DOMAIN goto_map[x] /\ IsGoto(x, s)
    BY <1>1, <1>3 DEF EdgesAreGotos
  <2>2. /\ goto_map[x][s] \in L!Ids
        /\ states[goto_map[x][s]] = GotoItems(grammar, states[x], s)
    BY <2>1 DEF IsGoto
  <2>3. Symbol(s, goto_map[x][s]) \in ExtendedNonterms
    BY <2>1 DEF ExtendedNonterms
  <2>4. L!Target(x, s) = goto_map[x][s]
    BY <1>1, <1>3, SameOperators DEF L!Target
  <2> QED
    BY <1>1, <1>3, <2>2, <2>3, <2>4
<1> QED
  BY <1>2, <1>3 DEF Symbols

\* The symbols of a right-hand side, with the states of a way along it, are
\* symbols of the extended grammar.
LEMMA WaysAreExtended ==
    ASSUME AutomatonInvariant, StatesAreReached, unprocessed = <<>>, pc = "extend_states",
           NEW i \in L!Ids, NEW p \in Productions(grammar), NEW w \in WaysFrom(i, p),
           NEW m \in 1 .. Len(Right(grammar, p))
    PROVE  Symbol(Right(grammar, p)[m], w[m]) \in ExtendedTerms \cup ExtendedNonterms
<1> PICK rhs, n : rhs = Right(grammar, p) /\ n = Len(rhs)
  OBVIOUS
<1>1. n \in Nat /\ m \in 1 .. n /\ rhs[m] \in Symbols(grammar)
  <2>1. rhs \in Seq(Symbols(grammar)) /\ Len(rhs) \in Nat
    BY GrammarIsGrammar, ProductionShape DEF AutomatonInvariant
  <2> QED
    BY <2>1
<1> PICK x, y : x = w[m - 1] /\ y = w[m]
  OBVIOUS
<1>2. x \in L!Ids /\ y \in L!Ids /\ states[y] = GotoItems(grammar, states[x], rhs[m])
  <2>1. m \in 0 .. n /\ m - 1 \in 0 .. n
    BY <1>1
  <2>2. /\ w \in [0 .. n -> L!Ids]
        /\ \A k \in 1 .. n : states[w[k]] = GotoItems(grammar, states[w[k - 1]], rhs[k])
    BY DEF WaysFrom, WaysTo
  <2> QED
    BY <1>1, <2>1, <2>2
<1>3. GotoItems(grammar, states[x], rhs[m]) # {}
  BY <1>2 DEF StatesAreReached
<1>4. L!Target(x, rhs[m]) = y
  BY <1>1, <1>2, <1>3, TargetIsTheGoto
<1>5. PICK z \in L!Ids :
            /\ L!Target(x, rhs[m]) = z
            /\ rhs[m] \in Tokens(grammar) => Symbol(rhs[m], z) \in ExtendedTerms
            /\ rhs[m] \in Variables(grammar) => Symbol(rhs[m], z) \in ExtendedNonterms
  BY <1>1, <1>2, <1>3, EdgeIsExtended
<1> QED
  BY <1>1, <1>4, <1>5 DEF Symbols

\* The left-hand side of an expanded production is a nonterminal of the extended
\* grammar: the state has a goto for it, or it is the root's, which gets a
\* nonterminal of its own.
LEMMA LeftIsExtended ==
    ASSUME AutomatonInvariant, StatesAreReached, unprocessed = <<>>, pc = "extend_states",
           NEW i \in L!Ids, NEW p \in ExpandedIn(i)
    PROVE  /\ ExtendedLeft(i, p) \in ExtendedNonterms
           /\ ExtendedLeft(i, p).info = Left(grammar, p)
<1> DEFINE v == Left(grammar, p)
<1>1. v \in Variables(grammar) /\ Tokens(grammar) \cap Variables(grammar) = {}
  BY GrammarIsGrammar, ProductionShape DEF AutomatonInvariant, ExpandedIn, IsGrammar
<1>2. CASE i # 0 \/ v # RootVariable(grammar)
  <2>4. GotoItems(grammar, states[i], v) # {}
    BY <1>2, ExpandedHasGoto
  <2>5. Symbol(v, L!Target(i, v)) \in ExtendedNonterms
    BY <1>1, <2>4, EdgeIsExtended DEF Symbols
  <2> QED
    BY <1>2, <2>5 DEF ExtendedLeft, Symbol
<1>3. CASE ~(i # 0 \/ v # RootVariable(grammar))
  BY <1>3 DEF ExtendedLeft, ExtendedNonterms, NewRoot, Symbol
<1> QED
  BY <1>2, <1>3

\* An extended production has symbols of the extended grammar, and without what
\* they carry it is a used production of the grammar.
Carries(q, terms, nonterms) ==
    /\ q.info \in Productions(grammar) /\ Left(grammar, q.info) \in UsedVariables
    /\ q.lhs \in nonterms /\ q.lhs.info = Left(grammar, q.info)
    /\ q.rhs \in Seq(terms \cup nonterms)
    /\ Len(q.rhs) = Len(Right(grammar, q.info))
    /\ \A k \in 1 .. Len(q.rhs) : q.rhs[k].info = Right(grammar, q.info)[k]

\* CreateExtendedGrammar gives each production of a state the symbols of the one it stands for.
LEMMA ExtendedCarries ==
    ASSUME AutomatonInvariant, StatesAreReached, ItemsAreUsed,
           unprocessed = <<>>, pc = "extend_states",
           NEW i \in L!Ids, NEW k \in 1 .. Len(ExtendedProductions(i))
    PROVE  Carries(ExtendedProductions(i)[k], ExtendedTerms, ExtendedNonterms)
<1>1. IsGrammar(grammar) /\ \A x \in L!Ids : states[x] \in SUBSET Items(grammar)
  BY GrammarIsGrammar DEF AutomatonInvariant, StatesAreNumbered
<1>2. PICK p \in ExpandedIn(i) :
        ExtendedProductions(i)[k] =
            [info |-> p, lhs |-> ExtendedLeft(i, p), rhs |-> ExtendedRight(i, p)]
  BY <1>1, ExtendedListsAll
<1> PICK rhs, n, q, S : /\ rhs = Right(grammar, p) /\ n = Len(rhs)
                        /\ q = ExtendedProductions(i)[k]
                        /\ S = ExtendedTerms \cup ExtendedNonterms
  OBVIOUS
<1>3. /\ p \in Productions(grammar) /\ Item(p, 0) \in ClosureItems(grammar, states[i])
      /\ rhs \in Seq(Symbols(grammar)) /\ n \in Nat /\ DOMAIN rhs = 1 .. n
  <2>1. p \in Productions(grammar) /\ Item(p, 0) \in ClosureItems(grammar, states[i])
    BY DEF ExpandedIn
  <2>2. rhs \in Seq(Symbols(grammar))
    BY <1>1, <2>1, ProductionShape
  <2> QED
    BY <2>1, <2>2
<1>4. Left(grammar, p) \in UsedVariables
  <2>1. UsesOnly(ClosureItems(grammar, states[i]))
    BY <1>1, GotosAreUsed DEF ItemsAreUsed
  <2>2. Item(p, 0).prod = p
    BY DEF Item
  <2> QED
    BY <1>3, <2>1, <2>2 DEF UsesOnly
<1>5. PICK w \in WaysFrom(i, p) : TRUE
  BY ExpandedHasAWay
<1>6. \A m \in 1 .. n : Symbol(rhs[m], w[m]) \in S
  BY <1>3, WaysAreExtended
<1>7. ExtendedRight(i, p) = [m \in 1 .. n |-> Symbol(rhs[m], w[m])]
  <2>1. IsExtended([info |-> p, lhs |-> ExtendedLeft(i, p), rhs |-> ExtendedRight(i, p)],
                   i, p, w)
    BY ExtendedOnTheWay
  <2> QED
    BY <2>1 DEF IsExtended
<1>8. /\ q.rhs \in Seq(S) /\ Len(q.rhs) = n
      /\ \A m \in 1 .. n : q.rhs[m].info = rhs[m]
  <2>1. [m \in 1 .. n |-> Symbol(rhs[m], w[m])] \in Seq(S)
    BY <1>3, <1>6
  <2>2. Len([m \in 1 .. n |-> Symbol(rhs[m], w[m])]) = n
    BY <1>3
  <2>3. q.rhs = [m \in 1 .. n |-> Symbol(rhs[m], w[m])]
    BY <1>2, <1>7
  <2>4. \A m \in 1 .. n : q.rhs[m].info = rhs[m]
    BY <2>3 DEF Symbol
  <2> QED
    BY <2>1, <2>2, <2>3, <2>4
<1>9. q.info = p /\ q.lhs \in ExtendedNonterms /\ q.lhs.info = Left(grammar, p)
  BY <1>2, LeftIsExtended
<1> QED
  BY <1>3, <1>4, <1>8, <1>9 DEF Carries

\* The extended grammar, from its first production on.
SiteShape ==
    pc \in {"extend_states", "build", "merge", "register", "done"} =>
        /\ {"terms", "nonterms", "root", "productions"} \subseteq DOMAIN site
        /\ site.root = NewRoot /\ site.root \in site.nonterms
        /\ \A s \in site.terms : s.info \in Tokens(grammar)
        /\ \A s \in site.nonterms : s.info \in Variables(grammar)
        /\ \A k \in 1 .. Len(site.productions) :
            Carries(site.productions[k], site.terms, site.nonterms)
        /\ pc = "extend_states" =>
            site.terms = ExtendedTerms /\ site.nonterms = ExtendedNonterms

\* CreateExtendedGrammar gives the extended grammar its shape and nothing later
\* changes it.
LEMMA SiteGetsItsShape ==
    ASSUME AutomatonInvariant, MergeInvariant, ItemsAreUsed, SiteShape, Step
    PROVE  SiteShape'
<1>1. /\ AutomatonInvariant /\ StatesAreReached /\ SiteIsComplete /\ IsGrammar(grammar)
      /\ EdgesAreGotos
  BY GrammarIsGrammar DEF AutomatonInvariant, MergeInvariant
<1>2. CASE Bootstrap
  BY <1>2 DEF SiteShape, Bootstrap, L!Step, L!BeginState, L!SkipSymbol, L!AddTransition,
     L!EndState, L!Bootstrapped
<1>3. CASE ExtendSymbols
  <2>1. /\ site' = [terms |-> ExtendedTerms, nonterms |-> ExtendedNonterms,
                    root |-> NewRoot, productions |-> <<>>]
        /\ pc' = "extend_states"
        /\ UNCHANGED <<grammar, states, action_map, goto_map>>
    BY <1>3 DEF ExtendSymbols, lr0_vars
  <2>2. /\ ExtendedTerms' = ExtendedTerms /\ ExtendedNonterms' = ExtendedNonterms
        /\ NewRoot' = NewRoot
    BY <2>1 DEF ExtendedTerms, ExtendedNonterms, NewRoot, Symbol, L!Ids
  <2>3. \A s \in ExtendedTerms : s.info \in Tokens(grammar)
    <3> SUFFICES ASSUME NEW i \in L!Ids, NEW t \in DOMAIN action_map[i]
                 PROVE  Symbol(t, action_map[i][t].target).info \in Tokens(grammar)
      BY DEF ExtendedTerms
    <3> QED
      BY <1>1 DEF EdgesAreGotos, Symbol
  <2>4. \A s \in ExtendedNonterms : s.info \in Variables(grammar)
    <3>1. NewRoot.info \in Variables(grammar)
      BY <1>1, RootIsVariable DEF NewRoot, Symbol
    <3>2. ASSUME NEW i \in L!Ids, NEW v \in DOMAIN goto_map[i]
          PROVE  Symbol(v, goto_map[i][v]).info \in Variables(grammar)
      BY <1>1 DEF EdgesAreGotos, Symbol
    <3> QED
      BY <3>1, <3>2 DEF ExtendedNonterms
  <2>5. NewRoot \in ExtendedNonterms
    BY DEF ExtendedNonterms
  <2> PICK terms, nonterms, root : terms = ExtendedTerms /\ nonterms = ExtendedNonterms
                                   /\ root = NewRoot
    OBVIOUS
  <2>6. /\ {"terms", "nonterms", "root", "productions"} \subseteq DOMAIN site'
        /\ site'.root = root /\ site'.terms = terms /\ site'.nonterms = nonterms
        /\ Len(site'.productions) = 0
    BY <2>1
  <2> QED
    BY <2>1, <2>2, <2>3, <2>4, <2>5, <2>6 DEF SiteShape
<1>4. CASE ExtendState
  <2>1. PICK i \in to_visit :
            site' = [site EXCEPT !.productions = @ \o ExtendedProductions(i)]
    BY <1>4 DEF ExtendState
  <2>2. /\ pc = "extend_states" /\ pc' = pc
        /\ UNCHANGED <<grammar, states, action_map, goto_map>>
    BY <1>4 DEF ExtendState, lr0_vars
  <2>3. /\ unprocessed = <<>> /\ i \in L!Ids /\ \E S : site.productions \in Seq(S)
    BY <1>1, <2>2 DEF AutomatonInvariant, QueueHoldsTheRest, SiteIsComplete
  <2>4. /\ {"terms", "nonterms", "root", "productions"} \subseteq DOMAIN site
        /\ site.root = NewRoot /\ site.root \in site.nonterms
        /\ \A s \in site.terms : s.info \in Tokens(grammar)
        /\ \A s \in site.nonterms : s.info \in Variables(grammar)
        /\ \A k \in 1 .. Len(site.productions) :
            Carries(site.productions[k], site.terms, site.nonterms)
        /\ site.terms = ExtendedTerms /\ site.nonterms = ExtendedNonterms
    BY <2>2 DEF SiteShape
  <2>5. /\ {"terms", "nonterms", "root", "productions"} \subseteq DOMAIN site'
        /\ site'.root = site.root /\ site'.terms = site.terms
        /\ site'.nonterms = site.nonterms
        /\ site'.productions = site.productions \o ExtendedProductions(i)
    BY <2>1, <2>4
  <2>6. /\ ExtendedTerms' = ExtendedTerms /\ ExtendedNonterms' = ExtendedNonterms
        /\ NewRoot' = NewRoot
        /\ \A q, T, N : Carries(q, T, N)' = Carries(q, T, N)
    BY <2>2 DEF ExtendedTerms, ExtendedNonterms, NewRoot, Symbol, L!Ids, Carries, UsedVariables
  <2>7. \A k \in 1 .. Len(site'.productions) :
            Carries(site'.productions[k], site.terms, site.nonterms)
    <3> PICK old, new : old = site.productions /\ new = ExtendedProductions(i)
      OBVIOUS
    <3>1. PICK S : old \in Seq(S)
      BY <2>3
    <3>2. PICK T : new \in Seq(T)
      BY <1>1, ExtendedListsAll
    <3>3. old \in Seq(S \cup T) /\ new \in Seq(S \cup T)
      BY <3>1, <3>2
    <3>4. \A k \in 1 .. Len(old \o new) :
            \/ k \in 1 .. Len(old) /\ (old \o new)[k] = old[k]
            \/ k - Len(old) \in 1 .. Len(new) /\ (old \o new)[k] = new[k - Len(old)]
      BY <3>3
    <3>5. \A k \in 1 .. Len(new) : Carries(new[k], site.terms, site.nonterms)
      BY <1>1, <2>2, <2>3, <2>4, ExtendedCarries
    <3> QED
      BY <2>4, <2>5, <3>4, <3>5
  <2> QED
    BY <2>2, <2>4, <2>5, <2>6, <2>7 DEF SiteShape
<1>5. CASE BeginBuild \/ Settled
  <2>1. UNCHANGED <<grammar, states, site>>
    BY <1>5, SettledSteps DEF BeginBuild, lr0_vars, set_vars
  <2>2. pc' # "extend_states" /\ pc \in {"extend_states", "build", "merge", "register"}
    BY <1>5, SettledSteps DEF BeginBuild
  <2>3. NewRoot' = NewRoot /\ \A q, T, N : Carries(q, T, N)' = Carries(q, T, N)
    BY <2>1 DEF NewRoot, Symbol, Carries, UsedVariables
  <2> QED
    BY <2>1, <2>2, <2>3 DEF SiteShape
<1> QED
  BY <1>2, <1>3, <1>4, <1>5 DEF Step, Settled

\* Without what its symbols carry the extended grammar is part of the grammar.
LEMMA SiteMaps ==
    ASSUME IsGrammar(grammar), SiteIsComplete, SiteShape,
           pc \in {"extend_states", "build", "merge", "register", "done"}
    PROVE  B!IsSite(site) /\ MapsTo(site, ReachableSite)
<1> DEFINE ps == site.productions
           kept == {p \in Productions(grammar) : Left(grammar, p) \in UsedVariables}
           T == site.terms
           N == site.nonterms
<1>1. PICK S : ps \in Seq(S)
  BY DEF SiteIsComplete
<1>2. Len(ps) \in Nat /\ DOMAIN ps = 1 .. Len(ps)
  BY <1>1
<1>3. /\ site.root = NewRoot /\ site.root \in N
      /\ \A s \in T : s.info \in Tokens(grammar)
      /\ \A s \in N : s.info \in Variables(grammar)
      /\ \A k \in 1 .. Len(ps) : Carries(ps[k], T, N)
      /\ Tokens(grammar) \cap Variables(grammar) = {}
  BY DEF SiteShape, IsGrammar
<1>4. /\ ReachableSite.terms = Tokens(grammar) /\ ReachableSite.nonterms = Variables(grammar)
      /\ ReachableSite.root = RootVariable(grammar)
      /\ Textbook!Prods(ReachableSite) = {grammar.productions[p] : p \in kept}
  BY DEF ReachableSite, Textbook!Prods
<1> HIDE DEF ps, T, N
<1>5. ASSUME NEW k \in 1 .. Len(ps)
      PROVE  /\ ps[k].lhs \in N /\ ps[k].rhs \in Seq(T \cup N)
             /\ Len(ps[k].rhs) \in Nat /\ DOMAIN ps[k].rhs = 1 .. Len(ps[k].rhs)
             /\ \A m \in 1 .. Len(ps[k].rhs) : ps[k].rhs[m] \in T \cup N
             /\ \E p \in Textbook!Prods(ReachableSite) :
                    /\ p.lhs = ps[k].lhs.info
                    /\ Len(p.rhs) = Len(ps[k].rhs) /\ DOMAIN p.rhs = 1 .. Len(ps[k].rhs)
                    /\ \A m \in 1 .. Len(ps[k].rhs) : p.rhs[m] = ps[k].rhs[m].info
  <2>1. Carries(ps[k], T, N)
    BY <1>3
  <2>2. /\ ps[k].lhs \in N /\ ps[k].rhs \in Seq(T \cup N)
        /\ ps[k].lhs.info = Left(grammar, ps[k].info)
        /\ Len(ps[k].rhs) = Len(Right(grammar, ps[k].info))
        /\ \A m \in 1 .. Len(ps[k].rhs) : ps[k].rhs[m].info = Right(grammar, ps[k].info)[m]
        /\ ps[k].info \in kept /\ ps[k].info \in Productions(grammar)
    BY <2>1 DEF Carries
  <2>3. Right(grammar, ps[k].info) \in Seq(Symbols(grammar))
    BY <2>2, ProductionShape
  <2>4. DOMAIN Right(grammar, ps[k].info) = 1 .. Len(ps[k].rhs)
    BY <2>2, <2>3
  <2>5. \E p \in Textbook!Prods(ReachableSite) :
            p.lhs = Left(grammar, ps[k].info) /\ p.rhs = Right(grammar, ps[k].info)
    BY <1>4, <2>2 DEF Left, Right
  <2> QED
    BY <2>2, <2>4, <2>5
<1>6. T \cap N = {}
  BY <1>3
<1>7. B!IsSite(site)
  BY <1>2, <1>3, <1>5, <1>6 DEF B!IsSite, ps, T, N
<1>8. MapsTo(site, ReachableSite)
  <2>1. \A q \in Textbook!Prods(site) : \E k \in 1 .. Len(ps) : q = ps[k]
    BY <1>2 DEF Textbook!Prods, ps
  <2>2. Textbook!SymbolsOf(site) = T \cup N
    BY DEF Textbook!SymbolsOf, T, N
  <2>3. NewRoot.info = RootVariable(grammar)
    BY DEF NewRoot, Symbol
  <2>4. /\ \A s \in T : s.info \in ReachableSite.terms
        /\ \A s \in N : s.info \in ReachableSite.nonterms
        /\ site.root \in N /\ site.root.info = ReachableSite.root
    BY <1>3, <1>4, <2>3
  <2>5. ASSUME NEW q \in Textbook!Prods(site)
        PROVE  /\ q.lhs \in N
               /\ Len(q.rhs) \in Nat /\ DOMAIN q.rhs = 1 .. Len(q.rhs)
               /\ \A m \in 1 .. Len(q.rhs) : q.rhs[m] \in Textbook!SymbolsOf(site)
               /\ \E p \in Textbook!Prods(ReachableSite) :
                    /\ p.lhs = q.lhs.info
                    /\ Len(p.rhs) = Len(q.rhs) /\ DOMAIN p.rhs = 1 .. Len(q.rhs)
                    /\ \A m \in 1 .. Len(q.rhs) : p.rhs[m] = q.rhs[m].info
    <3>1. PICK k \in 1 .. Len(ps) : q = ps[k]
      BY <2>1
    <3>2. /\ q.lhs \in N
          /\ Len(q.rhs) \in Nat /\ DOMAIN q.rhs = 1 .. Len(q.rhs)
          /\ \A m \in 1 .. Len(q.rhs) : q.rhs[m] \in T \cup N
      BY <1>5, <3>1
    <3>3. \E p \in Textbook!Prods(ReachableSite) :
              /\ p.lhs = q.lhs.info
              /\ Len(p.rhs) = Len(q.rhs) /\ DOMAIN p.rhs = 1 .. Len(q.rhs)
              /\ \A m \in 1 .. Len(q.rhs) : p.rhs[m] = q.rhs[m].info
      BY <1>5, <3>1
    <3> QED
      BY <3>2, <3>3, <2>2
  <2> QED
    BY <2>4, <2>5 DEF MapsTo, T, N
<1> QED
  BY <1>7, <1>8

-----------------------------------------------------------------------------
(* The FOLLOW sets of the extended grammar.                                *)

\* The builder starts on the finished site with empty sets, and all it does is
\* covered by its own invariant (module GrammarBuilderProofs).
BuilderPhase ==
    /\ pc \in {"bootstrap", "extend", "extend_states"} =>
        /\ nullable = {} /\ precedes_eof = {} /\ growing = FALSE
        /\ prod = 1 /\ back = 0 /\ epsilon_path = TRUE /\ stage = "first"
    /\ pc = "extend_states" =>
        first = [s \in site.nonterms |-> {}] /\ follow = [s \in site.nonterms |-> {}]
    /\ pc \in {"build", "merge", "register", "done"} => B!BuilderInvariant
    /\ pc \in {"merge", "register", "done"} => stage = "built"

\* The builder's steps here are those of the module by itself.
LEMMA SameSteps == G!Step <=> B!Step
BY DEF G!Step, G!FirstOfProduction, G!EndFirstPass, G!FollowOfSymbol,
       G!EndFollowProduction, G!EndFollowPass, G!Production, G!Reached, G!FirstOf, G!Gain,
       G!sets,
       B!Step, B!FirstOfProduction, B!EndFirstPass, B!FollowOfSymbol,
       B!EndFollowProduction, B!EndFollowPass, B!Production, B!Reached, B!FirstOf, B!Gain,
       B!sets

\* The invariant of the builder of the sets holds while it runs on the extended grammar.
LEMMA BuilderPhaseIsKept ==
    ASSUME AutomatonInvariant, MergeInvariant, SiteShape, BuilderPhase, Step
    PROVE  BuilderPhase'
<1>1. CASE Bootstrap
  BY <1>1 DEF BuilderPhase, Bootstrap, set_vars, L!Step, L!BeginState, L!SkipSymbol,
     L!AddTransition, L!EndState, L!Bootstrapped
<1>2. CASE ExtendSymbols
  BY <1>2 DEF BuilderPhase, ExtendSymbols
<1>3. CASE ExtendState
  <2>1. pc = "extend_states" /\ {"terms", "nonterms", "root", "productions"} \subseteq DOMAIN site
    BY <1>3 DEF ExtendState, SiteShape
  <2>2. site'.nonterms = site.nonterms
    BY <1>3, <2>1 DEF ExtendState
  <2> QED
    BY <1>3, <2>1, <2>2 DEF BuilderPhase, ExtendState
<1>4. CASE BeginBuild
  <2>1. pc = "extend_states" /\ pc' = "build" /\ UNCHANGED B!vars
    BY <1>4 DEF BeginBuild, set_vars, B!vars
  <2>2. B!IsSite(site)
    BY <2>1, SiteMaps, GrammarIsGrammar DEF AutomatonInvariant, MergeInvariant
  <2>3. B!StartBuild(site)
    BY <2>1 DEF BuilderPhase, B!StartBuild
  <2>4. B!BuilderInvariant
    BY <2>2, <2>3, B!BuildStarts
  <2>5. B!BuilderInvariant'
    BY <2>1, <2>4, B!BuilderStutters
  <2> QED
    BY <2>1, <2>5 DEF BuilderPhase
<1>5. CASE Build
  <2>1. /\ pc = "build" /\ B!Step /\ pc' \in {"build", "merge"}
        /\ pc' = "merge" => stage' = "built"
    BY <1>5, SameSteps DEF Build
  <2>2. B!BuilderInvariant'
    BY <2>1, B!BuildStepKeeps DEF BuilderPhase
  <2> QED
    BY <2>1, <2>2 DEF BuilderPhase
<1>6. CASE MergeProduction \/ EndMerge \/ RegisterReductions \/ Return
  <2>1. /\ pc \in {"merge", "register"} /\ pc' \in {"merge", "register", "done"}
        /\ UNCHANGED B!vars
    BY <1>6 DEF MergeProduction, EndMerge, RegisterReductions, Return, set_vars, B!vars
  <2>2. B!BuilderInvariant'
    BY <2>1, B!BuilderStutters DEF BuilderPhase
  <2>3. stage' = "built"
    BY <2>1 DEF BuilderPhase, B!vars
  <2> QED
    BY <2>1, <2>2, <2>3 DEF BuilderPhase
<1>7. CASE MergeEmptyProduction \/ RegisterConflict
  <2>1. pc' = "aborted"
    BY <1>7 DEF MergeEmptyProduction, RegisterConflict
  <2> QED
    BY <2>1 DEF BuilderPhase
<1> QED
  BY <1>1, <1>2, <1>3, <1>4, <1>5, <1>6, <1>7 DEF Step

\* The two instances of the textbook's definitions are one.
LEMMA SameTextbook ==
    ASSUME NEW st
    PROVE  /\ \A s : B!T!Follow(st, s) = Textbook!Follow(st, s)
           /\ B!T!PrecedesEof(st) = Textbook!PrecedesEof(st)
BY DEF B!T!Follow, B!T!First, B!T!Beginnings, B!T!Endings, B!T!PrecedesEof, B!T!Neighbours,
       B!T!Begins, B!T!Ends, B!T!Nullable, B!T!IsNullClosed, B!T!ReachedBy, B!T!IsClosed,
       B!T!Prods, B!T!SymbolsOf,
       Textbook!Follow, Textbook!First, Textbook!Beginnings, Textbook!Endings,
       Textbook!PrecedesEof, Textbook!Neighbours, Textbook!Begins, Textbook!Ends,
       Textbook!Nullable, Textbook!IsNullClosed, Textbook!ReachedBy, Textbook!IsClosed,
       Textbook!Prods, Textbook!SymbolsOf

\* While the sets are merged, what can follow a left-hand side in the extended
\* grammar can follow the variable in the grammar.
LEMMA FollowIsSLR ==
    ASSUME AutomatonInvariant, MergeInvariant, SiteShape, BuilderPhase, pc = "merge",
           NEW k \in 1 .. Len(site.productions)
    PROVE  LET p == site.productions[k]
           IN  /\ \A t \in follow[p.lhs] : t.info \in SLRFollow(p.info)
               /\ p.lhs \in precedes_eof => SLRAtEof(p.info)
<1> PICK p : p = site.productions[k]
  OBVIOUS
<1>1. B!IsSite(site) /\ MapsTo(site, ReachableSite)
  BY SiteMaps, GrammarIsGrammar DEF AutomatonInvariant, MergeInvariant
<1>2. /\ p.lhs \in site.nonterms /\ p.lhs.info = Left(grammar, p.info)
      /\ p.lhs \in Textbook!SymbolsOf(site)
  BY DEF SiteShape, Carries, Textbook!SymbolsOf
<1>3. /\ precedes_eof \subseteq Textbook!PrecedesEof(site)
      /\ follow[p.lhs] \subseteq Textbook!Follow(site, p.lhs)
  <2>1. B!EofAndFollowAreExact
    BY B!InvariantIsExact DEF BuilderPhase
  <2> QED
    BY <1>2, <2>1, SameTextbook DEF B!EofAndFollowAreExact
<1>4. ASSUME NEW t \in follow[p.lhs] PROVE t.info \in SLRFollow(p.info)
  BY <1>1, <1>2, <1>3, SetsMap DEF SLRFollow
<1>5. ASSUME p.lhs \in precedes_eof PROVE SLRAtEof(p.info)
  BY <1>1, <1>2, <1>3, <1>5, SetsMap DEF SLRAtEof
<1> QED
  BY <1>4, <1>5

-----------------------------------------------------------------------------
(* Merging and registration.                                               *)

\* What is merged for a production can follow its variable.
MergedAreSound ==
    /\ \A key \in DOMAIN merged_follow : merged_follow[key] \subseteq SLRFollow(key.prod)
    /\ \A key \in merged_ending : SLRAtEof(key.prod)

\* Merging the lookaheads of a production adds only what can follow its variable.
LEMMA MergedStaySound ==
    ASSUME AutomatonInvariant, MergeInvariant, SiteShape, BuilderPhase, MergedAreSound, Step
    PROVE  MergedAreSound'
<1>1. UNCHANGED grammar
  BY SettledSteps DEF Step, Settled, Bootstrap, ExtendSymbols, ExtendState, BeginBuild,
     lr0_vars, L!Step, L!BeginState, L!SkipSymbol, L!AddTransition, L!EndState, L!Bootstrapped
<1>2. /\ \A p : SLRFollow(p)' = SLRFollow(p)
      /\ \A p : SLRAtEof(p)' = SLRAtEof(p)
  BY <1>1 DEF SLRFollow, SLRAtEof, ReachableSite, UsedVariables
<1>3. CASE MergeProduction
  <2> PICK p, key : p = site.productions[merged + 1] /\ key = Located(p)
    OBVIOUS
  <2>1. /\ pc = "merge" /\ merged + 1 \in 1 .. Len(site.productions)
        /\ merged_ending' =
                IF p.lhs \in precedes_eof THEN merged_ending \cup {key} ELSE merged_ending
        /\ merged_follow' =
                L!Put(merged_follow, key, MergedFollow(key) \cup {t.info : t \in follow[p.lhs]})
    <3>1. /\ pc = "merge" /\ merged < Len(site.productions)
          /\ merged_ending' =
                IF p.lhs \in precedes_eof THEN merged_ending \cup {key} ELSE merged_ending
          /\ merged_follow' =
                L!Put(merged_follow, key, MergedFollow(key) \cup {t.info : t \in follow[p.lhs]})
      BY <1>3 DEF MergeProduction
    <3>2. merged \in Nat /\ \E S : site.productions \in Seq(S)
      BY DEF MergeInvariant, MergedAreLocated, SiteIsComplete
    <3> QED
      BY <3>1, <3>2
  <2>2. key.prod = p.info
    BY DEF Located
  <2>3. /\ \A t \in follow[p.lhs] : t.info \in SLRFollow(key.prod)
        /\ p.lhs \in precedes_eof => SLRAtEof(key.prod)
    BY <2>1, <2>2, FollowIsSLR
  <2>4. MergedFollow(key) \cup {t.info : t \in follow[p.lhs]} \subseteq SLRFollow(key.prod)
    BY <2>3 DEF MergedFollow, MergedAreSound
  <2>5. \A other \in DOMAIN merged_follow' :
            merged_follow'[other] \subseteq SLRFollow(other.prod)
    BY <2>1, <2>4 DEF L!Put, MergedAreSound
  <2>6. \A other \in merged_ending' : SLRAtEof(other.prod)
    BY <2>1, <2>3 DEF MergedAreSound
  <2> QED
    BY <1>2, <2>5, <2>6 DEF MergedAreSound
<1>4. CASE ~MergeProduction
  <2>1. UNCHANGED <<merged_follow, merged_ending>>
    BY <1>4 DEF Step, Bootstrap, ExtendSymbols, ExtendState, BeginBuild, Build,
       MergeEmptyProduction, EndMerge, RegisterReductions, RegisterConflict, Return, table_vars
  <2> QED
    BY <1>2, <2>1 DEF MergedAreSound
<1> QED
  BY <1>3, <1>4

\* The reductions registered stand in FOLLOW, and a state not yet visited has an
\* action on a token only where an item waits for it.
ReductionsAreSound ==
    /\ pc \in {"build", "merge"} => \A i \in L!Ids : eof_action[i] = {}
    /\ pc \in {"register", "done"} =>
        /\ \A i \in L!Ids : \A p \in Finished(i) :
            /\ \A t \in Tokens(grammar) : Reduces(i, t, p) => t \in SLRFollow(p)
            /\ p \in eof_action[i] => SLRAtEof(p)
        /\ to_visit \subseteq L!Ids
        /\ \A i \in to_visit : \A t \in DOMAIN action_map[i] :
            t \in Tokens(grammar) /\ GotoItems(grammar, states[i], t) # {}

\* What is merged under a state and a production it finishes.
LEMMA BeforeIsSound ==
    ASSUME AutomatonInvariant, MergeInvariant, MergedAreSound, pc = "register",
           NEW i \in L!Ids
    PROVE  /\ \A t : \A p \in Before(i, t) : p \in Finished(i) /\ t \in SLRFollow(p)
           /\ \A p \in AtEof(i) : p \in Finished(i) /\ SLRAtEof(p)
<1>1. ASSUME NEW t, NEW p \in Before(i, t) PROVE p \in Finished(i) /\ t \in SLRFollow(p)
  <2> PICK key : key = [state |-> i, prod |-> p]
    OBVIOUS
  <2>1. p \in Finished(i) /\ t \in merged_follow[key]
    BY DEF Before
  <2>2. key \in DOMAIN merged_follow /\ key.prod = p
    BY <2>1, FinishedIsMerged
  <2> QED
    BY <2>1, <2>2 DEF MergedAreSound
<1>2. ASSUME NEW p \in AtEof(i) PROVE p \in Finished(i) /\ SLRAtEof(p)
  <2> PICK key : key = [state |-> i, prod |-> p]
    OBVIOUS
  <2>1. p \in Finished(i) /\ key \in merged_ending /\ key.prod = p
    BY DEF AtEof
  <2> QED
    BY <2>1 DEF MergedAreSound
<1> QED
  BY <1>1, <1>2

\* Registering reductions registers them for merged lookaheads only.
LEMMA ReductionsStaySound ==
    ASSUME AutomatonInvariant, MergeInvariant, MergedAreSound, ReductionsAreSound, Step
    PROVE  ReductionsAreSound'
<1>1. CASE EndMerge
  <2>1. /\ pc = "merge" /\ pc' = "register" /\ to_visit' = L!Ids
        /\ UNCHANGED <<grammar, states, action_map, eof_action>>
    BY <1>1 DEF EndMerge, lr0_vars
  <2>2. /\ EdgesAreGotos /\ \A i \in L!Ids : eof_action[i] = {}
    BY <2>1 DEF AutomatonInvariant, ReductionsAreSound
  <2>3. ASSUME NEW i \in L!Ids, NEW t \in DOMAIN action_map[i]
        PROVE  /\ t \in Tokens(grammar) /\ GotoItems(grammar, states[i], t) # {}
               /\ \A p : ~Reduces(i, t, p)
    <3>1. t \in Tokens(grammar) /\ Wanted(i, t) /\ IsShift(i, t)
      BY <2>1, <2>2 DEF EdgesAreGotos, IsReduction
    <3> QED
      BY <3>1 DEF Wanted, IsShift, Reduces, L!PdaEdgeShift, PdaEdgeReduce
  <2>4. /\ L!Ids' = L!Ids /\ \A i : Finished(i)' = Finished(i)
        /\ \A i, t, p : Reduces(i, t, p)' <=> Reduces(i, t, p)
    BY <2>1 DEF L!Ids, Finished, Reduces
  <2>5. \A i \in L!Ids : \A p, t : ~Reduces(i, t, p)
    BY <2>3 DEF Reduces
  <2> QED
    BY <2>1, <2>2, <2>3, <2>4, <2>5 DEF ReductionsAreSound
<1>2. CASE RegisterReductions
  <2>1. PICK i \in to_visit :
        /\ eof_action' = [eof_action EXCEPT ![i] = AtEof(i)]
        /\ action_map' = [action_map EXCEPT ![i] =
                [t \in DOMAIN @ \cup ReduceTokens(i) |->
                    IF t \in ReduceTokens(i)
                    THEN PdaEdgeReduce(CHOOSE p \in Before(i, t) : TRUE)
                    ELSE @[t]]]
        /\ to_visit' = to_visit \ {i}
    BY <1>2 DEF RegisterReductions
  <2>2. pc = "register" /\ pc' = pc /\ UNCHANGED <<grammar, states>>
    BY <1>2 DEF RegisterReductions
  <2>3. /\ to_visit \subseteq L!Ids /\ i \in L!Ids
        /\ DOMAIN action_map = L!Ids /\ DOMAIN eof_action = L!Ids
    BY <2>2 DEF ReductionsAreSound, AutomatonInvariant, StatesAreNumbered, EofReducesTheFinished
  <2>4. /\ L!Ids' = L!Ids /\ \A j : Finished(j)' = Finished(j)
        /\ \A p : SLRFollow(p)' = SLRFollow(p)
        /\ \A p : SLRAtEof(p)' = SLRAtEof(p)
    BY <2>2 DEF L!Ids, Finished, SLRFollow, SLRAtEof, ReachableSite, UsedVariables
  <2>5. \A j \in L!Ids : j # i => action_map'[j] = action_map[j] /\ eof_action'[j] = eof_action[j]
    BY <2>1, <2>3
  <2>6. /\ eof_action'[i] = AtEof(i)
        /\ DOMAIN action_map'[i] = DOMAIN action_map[i] \cup ReduceTokens(i)
        /\ \A t \in ReduceTokens(i) :
                action_map'[i][t] = PdaEdgeReduce(CHOOSE p \in Before(i, t) : TRUE)
        /\ \A t \in DOMAIN action_map[i] :
                t \notin ReduceTokens(i) => action_map'[i][t] = action_map[i][t]
    BY <2>1, <2>3
  <2>7. ASSUME NEW j \in L!Ids, NEW p \in Finished(j), NEW t \in Tokens(grammar),
               Reduces(j, t, p)'
        PROVE  t \in SLRFollow(p)
    <3>1. t \in DOMAIN action_map'[j] /\ action_map'[j][t] = PdaEdgeReduce(p)
      BY <2>7 DEF Reduces
    <3>2. CASE j = i /\ t \in ReduceTokens(i)
      <4> PICK c : c = CHOOSE r \in Before(i, t) : TRUE
        OBVIOUS
      <4>1. c \in Before(i, t)
        BY <3>2 DEF ReduceTokens
      <4>2. PdaEdgeReduce(c) = PdaEdgeReduce(p)
        BY <2>6, <3>1, <3>2
      <4>3. PdaEdgeReduce(c).production = c /\ PdaEdgeReduce(p).production = p
        BY DEF PdaEdgeReduce
      <4>4. c = p
        BY <4>2, <4>3
      <4> QED
        BY <2>2, <2>3, <4>1, <4>4, BeforeIsSound
    <3>3. CASE j # i \/ t \notin ReduceTokens(i)
      <4>1. t \in DOMAIN action_map[j] /\ action_map[j][t] = PdaEdgeReduce(p)
        BY <2>5, <2>6, <3>1, <3>3
      <4> QED
        BY <2>2, <4>1 DEF ReductionsAreSound, Reduces
    <3> QED
      BY <3>2, <3>3
  <2>8. ASSUME NEW j \in L!Ids, NEW p \in Finished(j), p \in eof_action'[j]
        PROVE  SLRAtEof(p)
    <3>1. CASE j = i
      BY <2>2, <2>3, <2>6, <2>8, <3>1, BeforeIsSound
    <3>2. CASE j # i
      BY <2>2, <2>5, <2>8, <3>2 DEF ReductionsAreSound
    <3> QED
      BY <3>1, <3>2
  <2>9. ASSUME NEW j \in to_visit', NEW t \in DOMAIN action_map'[j]
        PROVE  t \in Tokens(grammar) /\ GotoItems(grammar, states[j], t) # {}
    BY <2>1, <2>2, <2>3, <2>5 DEF ReductionsAreSound
  <2> QED
    BY <2>1, <2>2, <2>3, <2>4, <2>7, <2>8, <2>9 DEF ReductionsAreSound
<1>3. CASE BeginBuild
  <2>1. /\ L!Ids' = L!Ids /\ eof_action' = [i \in L!Ids |-> {}] /\ pc' = "build"
    BY <1>3 DEF BeginBuild, lr0_vars, L!Ids
  <2> QED
    BY <2>1 DEF ReductionsAreSound
<1>4. CASE Build \/ MergeProduction \/ Return
  <2>1. UNCHANGED <<grammar, states, action_map, eof_action, to_visit>>
    BY <1>4 DEF Build, MergeProduction, Return, lr0_vars, table_vars
  <2>2. /\ pc' \in {"build", "merge"} => pc \in {"build", "merge"}
        /\ pc' \in {"register", "done"} => pc \in {"register", "done"}
    BY <1>4 DEF Build, MergeProduction, Return
  <2>3. /\ L!Ids' = L!Ids /\ \A j : Finished(j)' = Finished(j)
        /\ \A p : SLRFollow(p)' = SLRFollow(p)
        /\ \A p : SLRAtEof(p)' = SLRAtEof(p)
        /\ \A i, t, p : Reduces(i, t, p)' <=> Reduces(i, t, p)
    BY <2>1 DEF L!Ids, Finished, SLRFollow, SLRAtEof, ReachableSite, UsedVariables, Reduces
  <2> QED
    BY <2>1, <2>2, <2>3 DEF ReductionsAreSound
<1>5. CASE Bootstrap \/ ExtendSymbols \/ ExtendState \/ MergeEmptyProduction \/ RegisterConflict
  <2>1. pc' \notin {"build", "merge", "register", "done"}
    BY <1>5 DEF Bootstrap, ExtendSymbols, ExtendState, MergeEmptyProduction, RegisterConflict,
       L!Step, L!BeginState, L!SkipSymbol, L!AddTransition, L!EndState, L!Bootstrapped
  <2> QED
    BY <2>1 DEF ReductionsAreSound
<1> QED
  BY <1>1, <1>2, <1>3, <1>4, <1>5 DEF Step

-----------------------------------------------------------------------------
(* When the construction fails.                                            *)

\* A set of which no two members differ.
LEMMA AtMostOne ==
    ASSUME NEW S, \A x, y \in S : x = y
    PROVE  Cardinality(S) <= 1 /\ (S # {} => Cardinality(S) = 1)
<1>1. CASE S = {}
  BY <1>1, FS_EmptySet
<1>2. CASE S # {}
  <2>1. PICK x \in S : S = {x}
    BY <1>2
  <2> QED
    BY <2>1, FS_Singleton
<1> QED
  BY <1>1, <1>2

\* The member of a set that has one.
LEMMA OnlyMember ==
    ASSUME NEW S, IsFiniteSet(S), Cardinality(S) = 1, NEW x \in S
    PROVE  S = {x}
BY FS_Singleton

\* A slot that is wanted twice shows that FOLLOW does not tell the actions of the
\* state apart.
LEMMA ConflictIsNotSLR ==
    ASSUME AutomatonInvariant, MergeInvariant, MergedAreSound, ReductionsAreSound,
           pc = "register", NEW i \in to_visit, ~SlotsAreFree(i)
    PROVE  ~IsSLR
<1> SUFFICES ASSUME IsSLR PROVE FALSE
  OBVIOUS
<1>1. i \in L!Ids
  BY DEF ReductionsAreSound
<1>2. /\ \A p, q \in Finished(i) : p # q =>
            SLRFollow(p) \cap SLRFollow(q) = {} /\ ~(SLRAtEof(p) /\ SLRAtEof(q))
      /\ \A p \in Finished(i) : \A t \in SLRFollow(p) :
            GotoItems(grammar, states[i], t) = {}
  BY <1>1 DEF IsSLR
<1>3. Cardinality(AtEof(i)) <= 1
  BY <1>1, <1>2, BeforeIsSound, AtMostOne
<1>4. ASSUME NEW t \in ReduceTokens(i)
      PROVE  Cardinality(Before(i, t)) = 1 /\ t \notin DOMAIN action_map[i]
  <2>1. Before(i, t) # {} /\ \A p \in Before(i, t) : p \in Finished(i) /\ t \in SLRFollow(p)
    BY <1>1, BeforeIsSound DEF ReduceTokens
  <2>2. \A p, q \in Before(i, t) : p = q
    BY <1>2, <2>1
  <2>3. t \notin DOMAIN action_map[i]
    BY <1>2, <2>1 DEF ReductionsAreSound
  <2> QED
    BY <2>1, <2>2, <2>3, AtMostOne
<1> QED
  BY <1>3, <1>4 DEF SlotsAreFree

\* The assertions fail only for grammars that are not SLR(1), or with empty productions.
LEMMA AbortsStayOutsideSLR ==
    ASSUME AutomatonInvariant, MergeInvariant, SiteShape, MergedAreSound, ReductionsAreSound,
           Step
    PROVE  AbortsOnlyOutsideSLR'
<1>1. CASE MergeEmptyProduction
  <2> PICK q : q = site.productions[merged + 1]
    OBVIOUS
  <2>1. pc = "merge" /\ merged < Len(site.productions) /\ q.rhs = <<>> /\ UNCHANGED grammar
    BY <1>1 DEF MergeEmptyProduction, lr0_vars
  <2>2. merged \in Nat /\ \E S : site.productions \in Seq(S)
    BY DEF MergeInvariant, MergedAreLocated, SiteIsComplete
  <2>3. merged + 1 \in 1 .. Len(site.productions)
    BY <2>1, <2>2
  <2>4. /\ q.info \in Productions(grammar) /\ Len(q.rhs) = Len(Right(grammar, q.info))
    BY <2>1, <2>3 DEF SiteShape, Carries
  <2>5. Right(grammar, q.info) \in Seq(Symbols(grammar))
    BY <2>4, GrammarIsGrammar, ProductionShape DEF AutomatonInvariant
  <2>6. Right(grammar, q.info) = <<>>
    BY <2>1, <2>4, <2>5
  <2> QED
    BY <2>1, <2>4, <2>6 DEF AbortsOnlyOutsideSLR, EpsilonFree
<1>2. CASE RegisterConflict
  <2>1. PICK i \in to_visit : ~SlotsAreFree(i)
    BY <1>2 DEF RegisterConflict
  <2>2. pc = "register" /\ UNCHANGED <<grammar, states>>
    BY <1>2 DEF RegisterConflict, lr0_vars
  <2>3. ~IsSLR
    BY <2>1, <2>2, ConflictIsNotSLR
  <2>4. IsSLR' <=> IsSLR
    BY <2>2 DEF IsSLR, L!Ids, Finished, SLRFollow, SLRAtEof, ReachableSite, UsedVariables
  <2> QED
    BY <2>3, <2>4 DEF AbortsOnlyOutsideSLR
<1>3. CASE ~(MergeEmptyProduction \/ RegisterConflict)
  <2>1. pc' # "aborted"
    BY <1>3 DEF Step, Bootstrap, ExtendSymbols, ExtendState, BeginBuild, Build,
       MergeProduction, EndMerge, RegisterReductions, Return,
       L!Step, L!BeginState, L!SkipSymbol, L!AddTransition, L!EndState, L!Bootstrapped
  <2> QED
    BY <2>1 DEF AbortsOnlyOutsideSLR
<1> QED
  BY <1>1, <1>2, <1>3

-----------------------------------------------------------------------------
(* The theorems                                                            *)

LookaheadInvariant ==
    /\ ItemsAreUsed /\ SiteShape /\ BuilderPhase
    /\ MergedAreSound /\ ReductionsAreSound /\ AbortsOnlyOutsideSLR

\* The invariant of the lookaheads holds before the automaton is built.
LEMMA LookaheadInvariantStarts ==
    ASSUME Init
    PROVE  LookaheadInvariant
<1>1. /\ pc = "bootstrap" /\ L!Ids = {} /\ merged_follow = <<>> /\ merged_ending = {}
      /\ nullable = {} /\ precedes_eof = {} /\ growing = FALSE
      /\ prod = 1 /\ back = 0 /\ epsilon_path = TRUE /\ stage = "first"
  BY DEF Init, L!Init, L!Ids, G!StartBuild
<1> QED
  BY <1>1 DEF LookaheadInvariant, ItemsAreUsed, SiteShape, BuilderPhase, MergedAreSound,
     ReductionsAreSound, AbortsOnlyOutsideSLR

\* Every step of the construction keeps the invariant of the lookaheads.
LEMMA LookaheadInvariantIsKept ==
    ASSUME AutomatonInvariant, MergeInvariant, LookaheadInvariant, [Next]_vars
    PROVE  LookaheadInvariant'
<1>1. CASE UNCHANGED vars
  <2>1. UNCHANGED <<grammar, states, action_map, goto_map, pc, site, first, follow,
                    nullable, precedes_eof, growing, prod, back, epsilon_path, stage,
                    eof_action, merged_ending, merged_follow, to_visit>>
    BY <1>1 DEF vars, lr0_vars, set_vars, table_vars
  <2>2. /\ L!Ids' = L!Ids /\ \A i : Finished(i)' = Finished(i)
        /\ UsedVariables' = UsedVariables /\ NewRoot' = NewRoot
        /\ \A p : SLRFollow(p)' = SLRFollow(p)
        /\ \A p : SLRAtEof(p)' = SLRAtEof(p)
        /\ \A i, t, p : Reduces(i, t, p)' <=> Reduces(i, t, p)
        /\ ExtendedTerms' = ExtendedTerms /\ ExtendedNonterms' = ExtendedNonterms
    BY <2>1 DEF L!Ids, Finished, UsedVariables, NewRoot, Symbol, SLRFollow, SLRAtEof,
       ReachableSite, Reduces, ExtendedTerms, ExtendedNonterms
  <2>3. ItemsAreUsed' /\ MergedAreSound' /\ ReductionsAreSound'
    BY <2>1, <2>2 DEF LookaheadInvariant, ItemsAreUsed, UsesOnly, MergedAreSound,
       ReductionsAreSound
  <2>4. SiteShape'
    BY <2>1, <2>2 DEF LookaheadInvariant, SiteShape, Carries
  <2>5. BuilderPhase'
    <3>1. B!BuilderInvariant => B!BuilderInvariant'
      BY <2>1, B!BuilderStutters DEF B!vars
    <3> QED
      BY <2>1, <3>1 DEF LookaheadInvariant, BuilderPhase
  <2>6. AbortsOnlyOutsideSLR'
    BY <2>1, <2>2 DEF LookaheadInvariant, AbortsOnlyOutsideSLR, IsSLR
  <2> QED
    BY <2>3, <2>4, <2>5, <2>6 DEF LookaheadInvariant
<1>2. CASE Step
  <2>1. ItemsAreUsed'
    <3>1. CASE Bootstrap
      BY <3>1, MakeStateUses DEF LookaheadInvariant
    <3>2. CASE ~Bootstrap
      <4>1. UNCHANGED <<grammar, states>>
        BY <1>2, <3>2, SettledSteps DEF Step, Settled, ExtendSymbols, ExtendState, BeginBuild,
           lr0_vars
      <4> QED
        BY <4>1 DEF LookaheadInvariant, ItemsAreUsed, UsesOnly, UsedVariables, L!Ids
    <3> QED
      BY <3>1, <3>2
  <2>2. SiteShape' /\ BuilderPhase' /\ MergedAreSound'
    BY <1>2, SiteGetsItsShape, BuilderPhaseIsKept, MergedStaySound DEF LookaheadInvariant
  <2>3. ReductionsAreSound' /\ AbortsOnlyOutsideSLR'
    BY <1>2, ReductionsStaySound, AbortsStayOutsideSLR DEF LookaheadInvariant
  <2> QED
    BY <2>1, <2>2, <2>3 DEF LookaheadInvariant
<1>3. CASE Stopped /\ UNCHANGED vars
  BY <1>1, <1>3
<1> QED
  BY <1>1, <1>2, <1>3 DEF Next

\* What the lookaheads and the aborts rest on holds in every state of the
\* construction, for every grammar.
THEOREM LookaheadInvariantHolds ==
    Spec => [](AutomatonInvariant /\ MergeInvariant /\ LookaheadInvariant)
<1>1. Init => MergeInvariant /\ LookaheadInvariant
  BY MergeInvariantStarts, LookaheadInvariantStarts
<1>2. /\ AutomatonInvariant /\ MergeInvariant /\ LookaheadInvariant /\ [Next]_vars
      => MergeInvariant' /\ LookaheadInvariant'
  BY MergeInvariantIsKept, LookaheadInvariantIsKept
<1> QED
  BY <1>1, <1>2, AutomatonInvariantHolds, PTL DEF Spec

\* The state-split FOLLOW sets never go beyond FOLLOW: a reduction is registered
\* only before a token, or at an end, that can follow its variable in what the
\* root derives.
THEOREM LookaheadsInFollow == Spec => []LookaheadsAreInFollow
<1>1. LookaheadInvariant => LookaheadsAreInFollow
  BY DEF LookaheadInvariant, ReductionsAreSound, LookaheadsAreInFollow
<1> QED
  BY <1>1, LookaheadInvariantHolds, PTL

\* An SLR(1) grammar without empty productions is always accepted: neither the
\* assertions of RegisterReduce and RegisterReduceOnEof nor rhs.back() of nothing
\* end the program for one.
THEOREM AbortsOutsideSLR == Spec => []AbortsOnlyOutsideSLR
<1>1. LookaheadInvariant => AbortsOnlyOutsideSLR
  BY DEF LookaheadInvariant
<1> QED
  BY <1>1, LookaheadInvariantHolds, PTL

-----------------------------------------------------------------------------
(* No LALR(1) lookahead is lost: what is merged and registered.            *)

\* The merged sets have all that follows a left-hand side merged so far.
MergedCoverFollow ==
    \A k \in 1 .. merged :
        LET q == site.productions[k]
        IN  /\ {t.info : t \in follow[q.lhs]} \subseteq merged_follow[Located(q)]
            /\ q.lhs \in precedes_eof => Located(q) \in merged_ending

\* State i reduces what it finishes wherever the merged sets say.
ReducesAllMerged(i) ==
    /\ eof_action[i] = AtEof(i)
    /\ \A p \in Finished(i) : \A t \in Tokens(grammar) :
        t \in merged_follow[[state |-> i, prod |-> p]] => Reduces(i, t, p)

\* So do all states already visited, in the end every state.
RegisteredCoverMerged ==
    /\ pc \in {"register", "done"} => \A i \in L!Ids \ to_visit : ReducesAllMerged(i)
    /\ pc = "done" => to_visit = {}

CoverInvariant == MergedCoverFollow /\ RegisteredCoverMerged

\* Merging one more production loses nothing of those before it.
LEMMA MergedStayCovering ==
    ASSUME MergeInvariant, MergedCoverFollow, Step
    PROVE  MergedCoverFollow'
<1>1. CASE MergeProduction
  <2> PICK p, key : p = site.productions[merged + 1] /\ key = Located(p)
    OBVIOUS
  <2> PICK gained : gained = {t.info : t \in follow[p.lhs]}
    OBVIOUS
  <2>1. /\ merged_ending' =
                IF p.lhs \in precedes_eof THEN merged_ending \cup {key} ELSE merged_ending
        /\ merged_follow' = L!Put(merged_follow, key, MergedFollow(key) \cup gained)
        /\ merged' = merged + 1 /\ UNCHANGED <<site, follow, precedes_eof>>
    BY <1>1 DEF MergeProduction, set_vars
  <2>2. /\ merged \in Nat
        /\ \A k \in 1 .. merged : Located(site.productions[k]) \in DOMAIN merged_follow
    BY DEF MergeInvariant, MergedAreLocated
  <2>3. merged_follow'[key] = MergedFollow(key) \cup gained
    BY <2>1 DEF L!Put
  <2>4. \A other \in DOMAIN merged_follow : merged_follow[other] \subseteq merged_follow'[other]
    BY <2>1, <2>3 DEF L!Put, MergedFollow
  <2>5. merged_ending \subseteq merged_ending'
    BY <2>1
  <2>6. ASSUME NEW k \in 1 .. merged + 1
        PROVE  /\ {t.info : t \in follow[site.productions[k].lhs]}
                        \subseteq merged_follow'[Located(site.productions[k])]
               /\ site.productions[k].lhs \in precedes_eof =>
                        Located(site.productions[k]) \in merged_ending'
    <3>1. CASE k = merged + 1
      BY <2>1, <2>3, <3>1
    <3>2. CASE k # merged + 1
      <4>1. k \in 1 .. merged
        BY <2>2, <3>2
      <4>2. /\ {t.info : t \in follow[site.productions[k].lhs]}
                        \subseteq merged_follow[Located(site.productions[k])]
            /\ site.productions[k].lhs \in precedes_eof =>
                        Located(site.productions[k]) \in merged_ending
        BY <4>1 DEF MergedCoverFollow
      <4> QED
        BY <2>2, <2>4, <2>5, <4>1, <4>2
    <3> QED
      BY <3>1, <3>2
  <2> QED
    BY <2>1, <2>6 DEF MergedCoverFollow, Located
<1>2. CASE ~MergeProduction
  <2>1. UNCHANGED <<merged, merged_follow, merged_ending>>
    BY <1>2 DEF Step, Bootstrap, ExtendSymbols, ExtendState, BeginBuild, Build,
       MergeEmptyProduction, EndMerge, RegisterReductions, RegisterConflict, Return, table_vars
  <2>2. CASE pc \in {"merge", "register"}
    <3>1. UNCHANGED <<site, follow, precedes_eof>>
      BY <1>2, <2>2 DEF Step, Bootstrap, ExtendSymbols, ExtendState, BeginBuild, Build,
         MergeEmptyProduction, EndMerge, RegisterReductions, RegisterConflict, Return, set_vars
    <3> QED
      BY <2>1, <3>1 DEF MergedCoverFollow, Located
  <2>3. CASE pc \notin {"merge", "register"}
    <3>1. merged = 0
      BY <1>2, <2>3 DEF MergeInvariant, MergedAreLocated, Step, Bootstrap, ExtendSymbols,
         ExtendState, BeginBuild, Build, MergeEmptyProduction, EndMerge, RegisterReductions,
         RegisterConflict, Return
    <3> QED
      BY <2>1, <3>1 DEF MergedCoverFollow
  <2> QED
    BY <2>2, <2>3
<1> QED
  BY <1>1, <1>2

\* A state finishes finitely many productions.
LEMMA FinishedAreFew ==
    ASSUME AutomatonInvariant, NEW i \in L!Ids
    PROVE  IsFiniteSet(Finished(i))
<1>1. IsGrammar(grammar) /\ states[i] \in SUBSET Items(grammar)
  BY GrammarIsGrammar DEF AutomatonInvariant, StatesAreNumbered
<1>2. Finished(i) \subseteq Productions(grammar)
  BY <1>1, ItemShape DEF Finished
<1>3. \E m \in Nat : Productions(grammar) = 1 .. m
  <2>1. Len(grammar.productions) \in Nat
        /\ DOMAIN grammar.productions = 1 .. Len(grammar.productions)
    BY <1>1 DEF IsGrammar
  <2> QED
    BY <2>1 DEF Productions
<1> QED
  BY <1>2, <1>3, FS_Interval, FS_Subset

\* Registering the reductions of a state registers all of them.
LEMMA RegisteredStayCovering ==
    ASSUME AutomatonInvariant, ReductionsAreSound, RegisteredCoverMerged, Step
    PROVE  RegisteredCoverMerged'
<1>1. CASE RegisterReductions
  <2>1. PICK i \in to_visit :
        /\ SlotsAreFree(i)
        /\ eof_action' = [eof_action EXCEPT ![i] = AtEof(i)]
        /\ action_map' = [action_map EXCEPT ![i] =
                [t \in DOMAIN @ \cup ReduceTokens(i) |->
                    IF t \in ReduceTokens(i)
                    THEN PdaEdgeReduce(CHOOSE p \in Before(i, t) : TRUE)
                    ELSE @[t]]]
        /\ to_visit' = to_visit \ {i}
    BY <1>1 DEF RegisterReductions
  <2>2. /\ pc = "register" /\ pc' = pc
        /\ UNCHANGED <<grammar, states, merged_follow, merged_ending>>
    BY <1>1 DEF RegisterReductions
  <2>3. /\ to_visit \subseteq L!Ids /\ i \in L!Ids
        /\ DOMAIN action_map = L!Ids /\ DOMAIN eof_action = L!Ids
    BY <2>2 DEF ReductionsAreSound, AutomatonInvariant, StatesAreNumbered, EofReducesTheFinished
  <2>4. /\ L!Ids' = L!Ids /\ \A j : Finished(j)' = Finished(j)
        /\ \A j : AtEof(j)' = AtEof(j)
    BY <2>2 DEF L!Ids, Finished, AtEof
  <2>5. \A j \in L!Ids : j # i => action_map'[j] = action_map[j] /\ eof_action'[j] = eof_action[j]
    BY <2>1, <2>3
  <2>6. /\ eof_action'[i] = AtEof(i)
        /\ DOMAIN action_map'[i] = DOMAIN action_map[i] \cup ReduceTokens(i)
        /\ \A t \in ReduceTokens(i) :
                action_map'[i][t] = PdaEdgeReduce(CHOOSE p \in Before(i, t) : TRUE)
    BY <2>1, <2>3
  <2>7. ReducesAllMerged(i)'
    <3>1. ASSUME NEW p \in Finished(i), NEW t \in Tokens(grammar),
                 t \in merged_follow[[state |-> i, prod |-> p]]
          PROVE  Reduces(i, t, p)'
      <4>1. p \in Before(i, t) /\ t \in ReduceTokens(i)
        BY <3>1 DEF Before, ReduceTokens
      <4>2. Cardinality(Before(i, t)) = 1
        BY <2>1, <4>1 DEF SlotsAreFree
      <4>3. Before(i, t) = {p}
        <5>1. IsFiniteSet(Before(i, t))
          BY <2>3, FinishedAreFew, FS_Subset DEF Before
        <5> QED
          BY <4>1, <4>2, <5>1, OnlyMember
      <4>4. p = CHOOSE r \in Before(i, t) : TRUE
        BY <4>3
      <4> QED
        BY <2>6, <4>1, <4>4 DEF Reduces
    <3> QED
      BY <2>2, <2>4, <2>6, <3>1 DEF ReducesAllMerged
  <2>8. ASSUME NEW j \in L!Ids \ to_visit, j # i PROVE ReducesAllMerged(j)'
    <3>1. ReducesAllMerged(j)
      BY <2>2 DEF RegisteredCoverMerged
    <3>2. action_map'[j] = action_map[j] /\ eof_action'[j] = eof_action[j]
      BY <2>5, <2>8
    <3> QED
      BY <2>2, <2>4, <3>1, <3>2 DEF ReducesAllMerged, Reduces
  <2> QED
    BY <2>1, <2>2, <2>4, <2>7, <2>8 DEF RegisteredCoverMerged
<1>2. CASE EndMerge
  <2>1. pc' = "register" /\ to_visit' = L!Ids /\ L!Ids' = L!Ids
    BY <1>2 DEF EndMerge, lr0_vars, L!Ids
  <2> QED
    BY <2>1 DEF RegisteredCoverMerged
<1>3. CASE Return
  <2>1. /\ pc = "register" /\ to_visit = {} /\ pc' = "done"
        /\ UNCHANGED <<grammar, states, action_map, eof_action, merged_follow, merged_ending,
                       to_visit>>
    BY <1>3 DEF Return, lr0_vars, table_vars
  <2>2. L!Ids' = L!Ids /\ \A i : ReducesAllMerged(i) => ReducesAllMerged(i)'
    BY <2>1 DEF L!Ids, ReducesAllMerged, Reduces, Finished, AtEof
  <2> QED
    BY <2>1, <2>2 DEF RegisteredCoverMerged
<1>4. CASE Bootstrap \/ ExtendSymbols \/ ExtendState \/ BeginBuild \/ Build \/ MergeProduction
           \/ MergeEmptyProduction \/ RegisterConflict
  <2>1. pc' \notin {"register", "done"}
    BY <1>4 DEF Bootstrap, ExtendSymbols, ExtendState, BeginBuild, Build, MergeProduction,
       MergeEmptyProduction, RegisterConflict,
       L!Step, L!BeginState, L!SkipSymbol, L!AddTransition, L!EndState, L!Bootstrapped
  <2> QED
    BY <2>1 DEF RegisteredCoverMerged
<1> QED
  BY <1>1, <1>2, <1>3, <1>4 DEF Step

\* Both stay true of every step.
LEMMA CoverInvariantIsKept ==
    ASSUME AutomatonInvariant, MergeInvariant, LookaheadInvariant, CoverInvariant, [Next]_vars
    PROVE  CoverInvariant'
<1>1. CASE UNCHANGED vars
  <2>1. UNCHANGED <<grammar, states, action_map, pc, site, follow, precedes_eof,
                    eof_action, merged_ending, merged_follow, merged, to_visit>>
    BY <1>1 DEF vars, lr0_vars, set_vars, table_vars
  <2>2. L!Ids' = L!Ids /\ \A i : ReducesAllMerged(i) => ReducesAllMerged(i)'
    BY <2>1 DEF L!Ids, ReducesAllMerged, Reduces, Finished, AtEof
  <2>3. MergedCoverFollow'
    BY <2>1 DEF CoverInvariant, MergedCoverFollow, Located
  <2>4. RegisteredCoverMerged'
    BY <2>1, <2>2 DEF CoverInvariant, RegisteredCoverMerged
  <2> QED
    BY <2>3, <2>4 DEF CoverInvariant
<1>2. CASE Step
  BY <1>2, MergedStayCovering, RegisteredStayCovering DEF CoverInvariant, LookaheadInvariant
<1> QED
  BY <1>1, <1>2 DEF Next

-----------------------------------------------------------------------------
(* No LALR(1) lookahead is lost: the FOLLOW sets of the extended grammar   *)
(* against the relations of DeRemer and Pennello.                          *)

\* The construction has ended, for a root that is not left-recursive.
Built ==
    /\ AutomatonInvariant /\ MergeInvariant /\ LookaheadInvariant /\ CoverInvariant
    /\ pc = "done" /\ ~RootIsLeftRecursive

\* FIRST and FOLLOW of the extended grammar are closed under its productions.
SetsAreClosed ==
    /\ B!SetTypes /\ site.root \in precedes_eof
    /\ \A k \in 1 .. Len(B!Productions) :
        /\ B!FirstIsClosedAt(k)
        /\ \A m \in 1 .. Len(B!RhsOf(k)) : B!FollowIsClosedAt(k, m)

\* What holds when the automaton is built.
LEMMA BuiltAutomaton ==
    ASSUME Built
    PROVE  /\ AutomatonInvariant /\ StatesAreReached /\ unprocessed = <<>>
           /\ IsGrammar(grammar) /\ Tokens(grammar) \cap Variables(grammar) = {}
           /\ \A i \in L!Ids : states[i] \in SUBSET Items(grammar) /\ SiteHolds(i)
           /\ 0 \in L!Ids /\ -1 \notin L!Ids /\ states[0] = InitialItems(grammar)
<1>1. AutomatonInvariant /\ MergeInvariant /\ pc = "done"
  BY DEF Built
<1>2. unprocessed = <<>> /\ StatesAreNumbered
  BY <1>1 DEF AutomatonInvariant, QueueHoldsTheRest
<1>3. IsGrammar(grammar)
  BY <1>2, GrammarIsGrammar
<1>4. 0 \in L!Ids /\ -1 \notin L!Ids /\ states[0] = InitialItems(grammar)
  BY <1>1, <1>2, FirstStateIs
<1> QED
  BY <1>1, <1>2, <1>3, <1>4 DEF IsGrammar, StatesAreNumbered, MergeInvariant, SiteIsComplete

\* The passes of GrammarBuilder::Build ended with nothing to add.
LEMMA BuiltSets ==
    ASSUME Built
    PROVE  SetsAreClosed
<1>1. B!BuilderInvariant /\ stage = "built"
  BY DEF Built, LookaheadInvariant, BuilderPhase
<1>2. B!SetTypes /\ B!FirstIsClosed /\ B!FollowIsClosed
  BY <1>1 DEF B!BuilderInvariant, B!BuilderTypes
<1> QED
  BY <1>1, <1>2 DEF SetsAreClosed, B!FirstIsClosed, B!FollowIsClosed

\* Delta leads to the state that is the goto.
LEMMA DeltaLeadsTo ==
    ASSUME Built, NEW i \in L!Ids, NEW j \in L!Ids, NEW s \in Symbols(grammar),
           states[j] = GotoItems(grammar, states[i], s)
    PROVE  Delta[i][s] = j
<1>1. AutomatonInvariant /\ StatesAreReached /\ unprocessed = <<>>
  BY BuiltAutomaton
<1>2. states[j] # {}
  BY <1>1 DEF StatesAreReached
<1>3. Delta[i][s] \in L!Ids /\ states[Delta[i][s]] = states[j]
  BY <1>1, <1>2, DeltaIsTheGoto
<1> QED
  BY <1>1, <1>3 DEF AutomatonInvariant, StatesAreNumbered

\* What stands for a variable is the variable with where Delta leads; that is
\* nowhere for the new root.
LEMMA StandsWithDelta ==
    ASSUME Built, NEW i \in L!Ids, NEW v \in Variables(grammar), NEW e, StandsFor(e, i, v)
    PROVE  e = Symbol(v, Delta[i][v])
<1>1. AutomatonInvariant /\ unprocessed = <<>> /\ v \in Symbols(grammar)
      /\ states[0] = InitialItems(grammar)
  BY BuiltAutomaton DEF Symbols
<1>2. CASE i = 0 /\ v = RootVariable(grammar)
  <2>1. GotoItems(grammar, states[i], v) = {}
    BY <1>1, <1>2 DEF Built, RootIsLeftRecursive
  <2>2. Delta[i][v] = -1
    BY <1>1, <2>1, DeltaIsTheGoto
  <2> QED
    BY <1>2, <2>2 DEF StandsFor, NewRoot, NoState
<1>3. CASE ~(i = 0 /\ v = RootVariable(grammar))
  <2>1. PICK j \in L!Ids : /\ states[j] = GotoItems(grammar, states[i], v)
                           /\ e = Symbol(v, j)
    BY <1>3 DEF StandsFor
  <2> QED
    BY <1>1, <2>1, DeltaLeadsTo
<1> QED
  BY <1>2, <1>3

\* A way goes where Delta leads.
LEMMA WaysFollowDelta ==
    ASSUME Built, NEW i \in L!Ids, NEW p \in Productions(grammar), NEW w \in WaysFrom(i, p),
           NEW m \in 1 .. Len(Right(grammar, p))
    PROVE  /\ w[m] \in L!Ids /\ w[m - 1] \in L!Ids /\ Right(grammar, p)[m] \in Symbols(grammar)
           /\ Delta[w[m - 1]][Right(grammar, p)[m]] = w[m]
<1> PICK rhs, n : rhs = Right(grammar, p) /\ n = Len(rhs)
  OBVIOUS
<1>1. n \in Nat /\ m \in 1 .. n /\ rhs[m] \in Symbols(grammar)
  <2>1. rhs \in Seq(Symbols(grammar)) /\ Len(rhs) \in Nat
    BY BuiltAutomaton, ProductionShape
  <2> QED
    BY <2>1
<1> PICK x, y : x = w[m - 1] /\ y = w[m]
  OBVIOUS
<1>2. x \in L!Ids /\ y \in L!Ids /\ states[y] = GotoItems(grammar, states[x], rhs[m])
  <2>1. m \in 0 .. n /\ m - 1 \in 0 .. n
    BY <1>1
  <2>2. /\ w \in [0 .. n -> L!Ids]
        /\ \A k \in 1 .. n : states[w[k]] = GotoItems(grammar, states[w[k - 1]], rhs[k])
    BY DEF WaysFrom, WaysTo
  <2> QED
    BY <1>1, <2>1, <2>2
<1>3. Delta[x][rhs[m]] = y
  BY <1>1, <1>2, DeltaLeadsTo
<1> QED
  BY <1>1, <1>2, <1>3

\* Production k of the site is p on the way w from state i.
IsPlacedAt(k, i, p, w) ==
    LET n == Len(Right(grammar, p))
    IN  /\ k \in 1 .. Len(B!Productions)
        /\ B!LhsOf(k) = Symbol(Left(grammar, p), Delta[i][Left(grammar, p)])
        /\ B!LhsOf(k) \in site.nonterms
        /\ Len(B!RhsOf(k)) = n
        /\ \A m \in 1 .. n :
            /\ B!RhsOf(k)[m] = Symbol(Right(grammar, p)[m], w[m])
            /\ Right(grammar, p)[m] \in Tokens(grammar) => B!RhsOf(k)[m] \in site.terms
            /\ Right(grammar, p)[m] \in Variables(grammar) => B!RhsOf(k)[m] \in site.nonterms
        /\ n # 0 => Located(B!Productions[k]) = [state |-> w[n], prod |-> p]

\* CreateExtendedGrammar has placed every production on every way.
LEMMA EveryWayIsPlaced ==
    ASSUME Built, NEW i \in L!Ids, NEW p \in ExpandedIn(i), NEW w \in WaysFrom(i, p)
    PROVE  \E k : IsPlacedAt(k, i, p, w)
<1> PICK rhs, n, v : rhs = Right(grammar, p) /\ n = Len(rhs) /\ v = Left(grammar, p)
  OBVIOUS
<1>1. /\ p \in Productions(grammar) /\ n \in Nat /\ v \in Variables(grammar)
      /\ Tokens(grammar) \cap Variables(grammar) = {}
  BY BuiltAutomaton, ProductionShape DEF ExpandedIn
<1>2. PICK k \in 1 .. Len(site.productions) : IsExtended(site.productions[k], i, p, w)
  BY BuiltAutomaton DEF SiteHolds
<1> PICK q : q = site.productions[k]
  OBVIOUS
<1>3. q.info = p /\ StandsFor(q.lhs, i, v) /\ q.rhs = [m \in 1 .. n |-> Symbol(rhs[m], w[m])]
  BY <1>2 DEF IsExtended
<1>4. /\ q.lhs \in site.nonterms /\ q.rhs \in Seq(site.terms \cup site.nonterms)
      /\ \A s \in site.terms : s.info \in Tokens(grammar)
      /\ \A s \in site.nonterms : s.info \in Variables(grammar)
  BY DEF Built, LookaheadInvariant, SiteShape, Carries
<1>5. q.lhs = Symbol(v, Delta[i][v])
  BY <1>1, <1>3, StandsWithDelta
<1>6. Len(q.rhs) = n
  BY <1>1, <1>3
<1>7. ASSUME NEW m \in 1 .. n
      PROVE  /\ q.rhs[m] = Symbol(rhs[m], w[m])
             /\ rhs[m] \in Tokens(grammar) => q.rhs[m] \in site.terms
             /\ rhs[m] \in Variables(grammar) => q.rhs[m] \in site.nonterms
  <2>1. q.rhs[m] = Symbol(rhs[m], w[m]) /\ q.rhs[m].info = rhs[m]
    BY <1>3 DEF Symbol
  <2>2. q.rhs[m] \in site.terms \cup site.nonterms
    BY <1>4, <1>6
  <2> QED
    BY <1>1, <1>4, <2>1, <2>2
<1>8. ASSUME n # 0 PROVE Located(q) = [state |-> w[n], prod |-> p]
  <2>1. q.rhs # <<>>
    BY <1>6, <1>8
  <2>2. IsExtended(q, i, p, w) /\ Len(Right(grammar, p)) \in Nat
    BY <1>1, <1>2
  <2> QED
    BY <2>1, <2>2, LocatedWhereItEnds
<1>9. /\ k \in 1 .. Len(B!Productions) /\ B!Productions[k] = q
      /\ B!LhsOf(k) = q.lhs /\ B!RhsOf(k) = q.rhs
  BY DEF B!Productions, B!LhsOf, B!RhsOf
<1> QED
  BY <1>4, <1>5, <1>6, <1>7, <1>8, <1>9 DEF IsPlacedAt

\* What begins the first symbol of a production a state expands begins its
\* left-hand side.
LEMMA FirstGoesUp ==
    ASSUME Built, NEW i \in L!Ids, NEW p \in ExpandedIn(i), NEW s, NEW v,
           Right(grammar, p) # <<>>, s = Right(grammar, p)[1], v = Left(grammar, p)
    PROVE  /\ B!FirstOf(Symbol(s, Delta[i][s])) \subseteq B!FirstOf(Symbol(v, Delta[i][v]))
           /\ s \in Tokens(grammar) => Symbol(s, Delta[i][s]) \in site.terms
<1> PICK n : n = Len(Right(grammar, p))
  OBVIOUS
<1>1. /\ p \in Productions(grammar) /\ n \in Nat /\ n # 0 /\ 1 \in 1 .. n
  <2>1. p \in Productions(grammar) /\ Right(grammar, p) \in Seq(Symbols(grammar))
    BY BuiltAutomaton, ProductionShape DEF ExpandedIn
  <2> QED
    BY <2>1
<1>2. PICK w \in WaysFrom(i, p) : TRUE
  BY BuiltAutomaton, ExpandedHasAWay
<1>3. PICK k : IsPlacedAt(k, i, p, w)
  BY EveryWayIsPlaced
<1>4. /\ k \in 1 .. Len(B!Productions) /\ B!LhsOf(k) = Symbol(v, Delta[i][v])
      /\ B!LhsOf(k) \in site.nonterms /\ Len(B!RhsOf(k)) = n
      /\ B!RhsOf(k)[1] = Symbol(s, w[1])
      /\ s \in Tokens(grammar) => B!RhsOf(k)[1] \in site.terms
  BY <1>1, <1>3 DEF IsPlacedAt
<1>5. Delta[i][s] = w[1]
  <2> PICK m : m = 1
    OBVIOUS
  <2>1. m \in 1 .. n /\ m - 1 = 0
    BY <1>1
  <2>2. Delta[w[m - 1]][Right(grammar, p)[m]] = w[m]
    BY <1>1, <2>1, WaysFollowDelta
  <2>3. w[0] = i
    BY DEF WaysFrom, WaysTo
  <2> QED
    BY <2>1, <2>2, <2>3
<1>6. B!SetTypes /\ B!FirstIsClosedAt(k)
  BY <1>4, BuiltSets DEF SetsAreClosed
<1>7. B!FirstOf(B!RhsOf(k)[1]) \subseteq first[B!LhsOf(k)]
  <2>1. DOMAIN B!RhsOf(k) = 1 .. n
    BY <1>4, <1>6, B!PlaceShape DEF B!SetTypes
  <2>2. 1 \in B!Reached(B!RhsOf(k))
    BY <1>1, <2>1 DEF B!Reached
  <2> QED
    BY <1>6, <2>2 DEF B!FirstIsClosedAt
<1>8. B!FirstOf(B!LhsOf(k)) = first[B!LhsOf(k)]
  BY <1>4, <1>6 DEF B!FirstOf, B!SetTypes, B!IsSite
<1> QED
  BY <1>4, <1>5, <1>7, <1>8

\* What begins the symbol an item of a kernel waits for follows the symbol the
\* kernel was reached on.
LEMMA KernelFollows ==
    ASSUME Built, NEW i \in L!Ids, NEW j \in L!Ids, NEW v \in Variables(grammar),
           states[j] = GotoItems(grammar, states[i], v),
           NEW it \in states[j], NEW s, NextIs(grammar, it, s)
    PROVE  /\ B!FirstOf(Symbol(s, Delta[j][s])) \subseteq follow[Symbol(v, j)]
           /\ s \in Tokens(grammar) => Symbol(s, Delta[j][s]) \in site.terms
<1> PICK p, d : p = it.prod /\ d = it.dot
  OBVIOUS
<1> PICK rhs, n : rhs = Right(grammar, p) /\ n = Len(rhs)
  OBVIOUS
<1>1. it \in Items(grammar) /\ AutomatonInvariant /\ IsGrammar(grammar)
  BY BuiltAutomaton
<1>2. /\ p \in Productions(grammar) /\ it = Item(p, d) /\ d \in 0 .. n /\ n \in Nat
  BY <1>1, ItemShape, ProductionShape
<1>3. rhs[d] = v /\ d # 0
  <2>1. it \in GotoItems(grammar, states[i], v)
    OBVIOUS
  <2>2. rhs[d] = v
    BY <1>1, <2>1, CameFrom
  <2> PICK K : K = states[i]
    OBVIOUS
  <2>3. K \in SUBSET Items(grammar) /\ it \in GotoItems(grammar, K, v)
    BY <2>1, BuiltAutomaton
  <2>4. it.dot > 0
    BY <1>1, <2>3, GotoItemsType
  <2> QED
    BY <1>2, <2>2, <2>4
<1>4. d # n /\ rhs[d + 1] = s
  BY DEF NextIs, IsFinalized
<1>5. d \in 1 .. n /\ d + 1 \in 1 .. n /\ (d + 1) - 1 = d /\ d + 1 > 1
  BY <1>2, <1>3, <1>4
<1>6. PICK e \in L!Ids : p \in ExpandedIn(e) /\ \E w \in WaysFrom(e, p) : w[d] = j
  <2>1. Item(p, d) \in ClosureItems(grammar, states[j])
    BY <1>2 DEF ClosureItems
  <2>2. d \in 0 .. Len(Right(grammar, p))
    BY <1>2
  <2>3. AutomatonInvariant /\ StatesAreReached /\ unprocessed = <<>>
    BY BuiltAutomaton
  <2> QED
    BY <1>2, <2>1, <2>2, <2>3, WayThrough
<1>7. PICK w \in WaysFrom(e, p) : w[d] = j
  BY <1>6
<1>8. PICK k : IsPlacedAt(k, e, p, w)
  BY <1>6, EveryWayIsPlaced
<1> PICK m : m = d + 1
  OBVIOUS
<1>9. /\ k \in 1 .. Len(B!Productions) /\ m \in 1 .. Len(B!RhsOf(k))
      /\ B!RhsOf(k)[d] = Symbol(v, j) /\ B!RhsOf(k)[d] \in site.nonterms
      /\ B!RhsOf(k)[m] = Symbol(s, w[m])
      /\ s \in Tokens(grammar) => B!RhsOf(k)[m] \in site.terms
  BY <1>3, <1>4, <1>5, <1>7, <1>8 DEF IsPlacedAt
<1>10. Delta[j][s] = w[m]
  <2>1. m \in 1 .. Len(Right(grammar, p))
    BY <1>5
  <2>2. Delta[w[m - 1]][Right(grammar, p)[m]] = w[m]
    BY <1>2, <1>6, <2>1, WaysFollowDelta
  <2> QED
    BY <1>4, <1>5, <1>7, <2>2
<1>11. B!FollowIsClosedAt(k, m)
  BY <1>9, BuiltSets DEF SetsAreClosed
<1>12. B!FirstOf(B!RhsOf(k)[m]) \subseteq follow[B!RhsOf(k)[d]]
  BY <1>5, <1>9, <1>11 DEF B!FollowIsClosedAt
<1> QED
  BY <1>9, <1>10, <1>12

\* So does what begins a variable of its closure.
LEMMA ClosureFollows ==
    ASSUME Built, NEW i \in L!Ids, NEW j \in L!Ids, NEW v \in Variables(grammar),
           states[j] = GotoItems(grammar, states[i], v),
           NEW u \in ClosureVariables(grammar, states[j])
    PROVE  B!FirstOf(Symbol(u, Delta[j][u])) \subseteq follow[Symbol(v, j)]
<1> DEFINE V == ClosureVariables(grammar, states[j])
           S == {x \in V : B!FirstOf(Symbol(x, Delta[j][x])) \subseteq follow[Symbol(v, j)]}
<1>1. /\ V \subseteq Variables(grammar) /\ Seeds(grammar, states[j]) \subseteq V
      /\ \A x \in V : Heads(grammar, x) \subseteq V
  BY ClosureVariablesLeast
<1>2. Seeds(grammar, states[j]) \subseteq S
  <2> SUFFICES ASSUME NEW x \in Seeds(grammar, states[j])
               PROVE  B!FirstOf(Symbol(x, Delta[j][x])) \subseteq follow[Symbol(v, j)]
    BY <1>1
  <2>1. PICK it \in states[j] : NextIs(grammar, it, x)
    BY DEF Seeds
  <2> QED
    BY <2>1, KernelFollows
<1>3. ASSUME NEW x \in S, NEW y \in Heads(grammar, x) PROVE y \in S
  <2>1. x \in V /\ B!FirstOf(Symbol(x, Delta[j][x])) \subseteq follow[Symbol(v, j)]
    OBVIOUS
  <2>2. PICK p \in Productions(grammar) :
            Left(grammar, p) = x /\ Right(grammar, p) # <<>> /\ Right(grammar, p)[1] = y
    BY DEF Heads
  <2>3. p \in ExpandedIn(j)
    BY <2>1, <2>2 DEF ExpandedIn, ClosureItems, Expansion
  <2>4. B!FirstOf(Symbol(y, Delta[j][y])) \subseteq B!FirstOf(Symbol(x, Delta[j][x]))
    BY <2>2, <2>3, FirstGoesUp
  <2>5. y \in V
    BY <1>1, <2>1
  <2> QED
    BY <2>1, <2>4, <2>5
<1>4. S \in SUBSET Variables(grammar) /\ \A x \in S : Heads(grammar, x) \subseteq S
  BY <1>1, <1>3
<1> HIDE DEF S
<1>5. V \subseteq S
  BY <1>2, <1>4, ClosureVariablesLeast
<1> QED
  BY <1>5 DEF S

\* What may stand after an extended symbol, the end of the input included.
AfterSymbol(e) ==
    {t.info : t \in follow[e]} \cup (IF e \in precedes_eof THEN {Eof} ELSE {})

\* The extended symbol of a transition.
OfTransition(x) == Symbol(x.var, Delta[x.from][x.var])

Transitions == VariableTransitions(grammar, L!Ids, Delta)

\* A transition starts in a state that expands its variable.
LEMMA TransitionShape ==
    ASSUME Built, NEW x \in Transitions
    PROVE  /\ x.from \in L!Ids /\ x.var \in Variables(grammar)
           /\ x.var \in Symbols(grammar)
           /\ Delta[x.from][x.var] = -1 => x.from = 0 /\ x.var = RootVariable(grammar)
           /\ Delta[x.from][x.var] # -1 =>
                /\ Delta[x.from][x.var] \in L!Ids
                /\ states[Delta[x.from][x.var]] = GotoItems(grammar, states[x.from], x.var)
           /\ \A p \in Productions(grammar) : Left(grammar, p) = x.var => p \in ExpandedIn(x.from)
<1> PICK i, v : i = x.from /\ v = x.var
  OBVIOUS
<1>1. /\ i \in L!Ids /\ v \in Variables(grammar)
      /\ Delta[i][v] # -1 \/ (i = 0 /\ v = RootVariable(grammar))
  BY DEF Transitions, VariableTransitions
<1>2. /\ AutomatonInvariant /\ unprocessed = <<>> /\ IsGrammar(grammar)
      /\ states[0] = InitialItems(grammar) /\ v \in Symbols(grammar)
  BY <1>1, BuiltAutomaton DEF Symbols
<1>3. ASSUME Delta[i][v] # -1
      PROVE  /\ Delta[i][v] \in L!Ids /\ states[Delta[i][v]] = GotoItems(grammar, states[i], v)
             /\ GotoItems(grammar, states[i], v) # {}
  BY <1>1, <1>2, <1>3, DeltaIsTheGoto
<1>4. ASSUME NEW p \in Productions(grammar), Left(grammar, p) = v
      PROVE  p \in ExpandedIn(i)
  <2>1. CASE Delta[i][v] # -1
    <3>1. PICK it \in ClosureItems(grammar, states[i]) : NextIs(grammar, it, v)
      BY <1>3, <2>1 DEF GotoItems
    <3>2. v \in ClosureVariables(grammar, states[i])
      BY <1>1, <1>2, <3>1, NextIsInClosure
    <3> QED
      BY <1>4, <3>2 DEF ExpandedIn, ClosureItems, Expansion
  <2>2. CASE i = 0 /\ v = RootVariable(grammar)
    BY <1>2, <1>4, <2>2 DEF ExpandedIn, ClosureItems, InitialItems, Expansion
  <2> QED
    BY <1>1, <2>1, <2>2
<1> QED
  BY <1>1, <1>2, <1>3, <1>4

\* A token that can be shifted after a kernel follows the symbol the kernel was
\* reached on.
LEMMA ShiftedFollows ==
    ASSUME Built, NEW i \in L!Ids, NEW j \in L!Ids, NEW v \in Variables(grammar),
           states[j] = GotoItems(grammar, states[i], v),
           NEW t \in Tokens(grammar), Delta[j][t] # -1
    PROVE  t \in {u.info : u \in follow[Symbol(v, j)]}
<1> PICK e : e = Symbol(t, Delta[j][t])
  OBVIOUS
<1>1. AutomatonInvariant /\ unprocessed = <<>> /\ IsGrammar(grammar) /\ t \in Symbols(grammar)
  BY BuiltAutomaton DEF Symbols
<1>2. GotoItems(grammar, states[j], t) # {}
  BY <1>1, DeltaIsTheGoto
<1>3. PICK it \in ClosureItems(grammar, states[j]) : NextIs(grammar, it, t)
  BY <1>2 DEF GotoItems
<1>4. B!FirstOf(e) \subseteq follow[Symbol(v, j)] /\ e \in site.terms
  <2>1. CASE it \in states[j]
    BY <1>3, <2>1, KernelFollows
  <2>2. CASE it \notin states[j]
    <3>1. PICK u \in ClosureVariables(grammar, states[j]) : it \in Expansion(grammar, u)
      BY <2>2 DEF ClosureItems
    <3>2. PICK p \in Productions(grammar) : it = Item(p, 0) /\ Left(grammar, p) = u
      BY <3>1 DEF Expansion
    <3>3. Len(Right(grammar, p)) # 0 /\ Right(grammar, p)[1] = t
      BY <1>3, <3>2 DEF NextIs, IsFinalized, Item
    <3>4. Right(grammar, p) # <<>>
      BY <3>3
    <3>5. p \in ExpandedIn(j)
      BY <3>1, <3>2 DEF ExpandedIn, ClosureItems, Expansion
    <3>6. B!FirstOf(e) \subseteq B!FirstOf(Symbol(u, Delta[j][u])) /\ e \in site.terms
      BY <3>2, <3>3, <3>4, <3>5, FirstGoesUp
    <3>7. B!FirstOf(Symbol(u, Delta[j][u])) \subseteq follow[Symbol(v, j)]
      BY <3>1, ClosureFollows
    <3> QED
      BY <3>6, <3>7
  <2> QED
    BY <2>1, <2>2
<1>5. e \in follow[Symbol(v, j)] /\ e.info = t
  BY <1>4 DEF B!FirstOf, Symbol
<1> QED
  BY <1>5

\* What a transition reads directly stands after its symbol.
LEMMA DirectReadFollows ==
    ASSUME Built, NEW x \in Transitions
    PROVE  DirectRead(grammar, Delta, x) \subseteq AfterSymbol(OfTransition(x))
<1> PICK i, v, j : i = x.from /\ v = x.var /\ j = Delta[i][v]
  OBVIOUS
<1>1. /\ i \in L!Ids /\ v \in Variables(grammar) /\ v \in Symbols(grammar)
      /\ j # -1 => j \in L!Ids /\ states[j] = GotoItems(grammar, states[i], v)
  BY TransitionShape
<1>2. OfTransition(x) = Symbol(v, j)
  BY DEF OfTransition
<1>3. ASSUME NEW t \in Tokens(grammar), j # -1, Delta[j][t] # -1
      PROVE  t \in AfterSymbol(OfTransition(x))
  BY <1>1, <1>2, <1>3, ShiftedFollows DEF AfterSymbol
<1>4. ASSUME i = 0, v = RootVariable(grammar)
      PROVE  Eof \in AfterSymbol(OfTransition(x))
  <2>1. AutomatonInvariant /\ unprocessed = <<>> /\ states[0] = InitialItems(grammar)
    BY BuiltAutomaton
  <2>2. GotoItems(grammar, states[i], v) = {}
    BY <1>4, <2>1 DEF Built, RootIsLeftRecursive
  <2>3. j = -1
    BY <1>1, <2>1, <2>2, DeltaIsTheGoto
  <2>4. OfTransition(x) = NewRoot
    BY <1>2, <1>4, <2>3 DEF NewRoot, NoState
  <2>5. site.root = NewRoot
    BY DEF Built, LookaheadInvariant, SiteShape
  <2> QED
    BY <2>4, <2>5, BuiltSets DEF SetsAreClosed, AfterSymbol
<1> QED
  BY <1>3, <1>4 DEF DirectRead

\* Following Delta along a beginning of a right-hand side is going the way.
LEMMA PathIsTheWay ==
    ASSUME Built, NEW i \in L!Ids, NEW p \in Productions(grammar), NEW w \in WaysFrom(i, p),
           NEW word, Len(word) \in Nat, Len(word) <= Len(Right(grammar, p)),
           \A k \in 1 .. Len(word) : word[k] = Right(grammar, p)[k]
    PROVE  Path(Delta, i, word) = w[Len(word)]
<1> DEFINE S == L!Ids \cup {-1}
<1> PICK rhs, n, m : rhs = Right(grammar, p) /\ n = Len(rhs) /\ m = Len(word)
  OBVIOUS
<1>1. /\ AutomatonInvariant /\ unprocessed = <<>> /\ -1 \notin L!Ids
      /\ n \in Nat /\ rhs \in Seq(Symbols(grammar))
  BY BuiltAutomaton, ProductionShape
<1>2. m \in Nat /\ m <= n /\ 1 .. m \subseteq 1 .. n /\ m \in 0 .. n
  BY <1>1
<1>3. \A k \in 1 .. m : word[k] = rhs[k] /\ word[k] \in Symbols(grammar)
  BY <1>1, <1>2
<1>4. \A j \in S : \A k \in 1 .. m : j # -1 => Delta[j][word[k]] \in S
  BY <1>1, <1>3, DeltaIsTheGoto
<1>5. PICK at : Passes(at, S, Delta, i, word)
  <2>1. i \in S /\ -1 \in S
    OBVIOUS
  <2> HIDE DEF S
  <2> QED
    BY <1>2, <1>4, <2>1, PathIsFollowed
<1>6. /\ at[0] = i /\ Path(Delta, i, word) = at[m]
      /\ \A k \in 1 .. m : at[k] = IF at[k - 1] = -1 THEN -1 ELSE Delta[at[k - 1]][word[k]]
  BY <1>5 DEF Passes
<1> DEFINE A == {k \in 0 .. m : at[k] = w[k]}
<1>7. 0 \in A
  BY <1>2, <1>6 DEF WaysFrom, WaysTo
<1>8. ASSUME NEW k \in 0 .. m, k # m, k \in A PROVE k + 1 \in A
  <2> PICK l : l = k + 1
    OBVIOUS
  <2>1. l \in 1 .. m /\ l \in 1 .. n /\ l \in 0 .. m /\ l - 1 = k
    BY <1>2, <1>8
  <2>2. w[k] \in L!Ids /\ Delta[w[k]][rhs[l]] = w[l]
    BY <2>1, WaysFollowDelta
  <2>3. at[k] = w[k]
    BY <1>8
  <2>4. at[l] = Delta[at[k]][word[l]]
    BY <1>1, <1>6, <2>1, <2>2, <2>3
  <2>5. at[l] = w[l]
    BY <1>3, <2>1, <2>2, <2>3, <2>4
  <2> QED
    BY <2>1, <2>5
<1> HIDE DEF A
<1>9. \A k \in 0 .. m : k \in A
  BY <1>2, <1>7, <1>8, IntervalInduction
<1>10. m \in 0 .. m
  BY <1>2
<1> QED
  BY <1>6, <1>9, <1>10 DEF A

\* What stands after the left-hand side of a production stands after the symbol
\* the production ends with.
LEMMA IncludesFollows ==
    ASSUME Built, NEW x \in Transitions, NEW y \in Transitions,
           Includes(grammar, Delta, x, y)
    PROVE  AfterSymbol(OfTransition(y)) \subseteq AfterSymbol(OfTransition(x))
<1>1. PICK p \in Productions(grammar) :
        LET rhs == Right(grammar, p)
        IN  /\ Left(grammar, p) = y.var
            /\ rhs # <<>> /\ rhs[Len(rhs)] = x.var
            /\ Path(Delta, y.from, SubSeq(rhs, 1, Len(rhs) - 1)) = x.from
  BY DEF Includes
<1> PICK i, rhs, n : i = y.from /\ rhs = Right(grammar, p) /\ n = Len(rhs)
  OBVIOUS
<1> PICK m, word : m = n - 1 /\ word = SubSeq(rhs, 1, m)
  OBVIOUS
<1>2. rhs \in Seq(Symbols(grammar)) /\ n \in Nat
  BY BuiltAutomaton, ProductionShape
<1>3. n # 0 /\ n \in 1 .. n /\ m \in Nat /\ m <= n
  BY <1>1, <1>2
<1>4. Len(word) = m /\ \A k \in 1 .. m : word[k] = rhs[k]
  BY <1>2, <1>3
<1>5. i \in L!Ids /\ p \in ExpandedIn(i)
  BY <1>1, TransitionShape
<1>6. PICK w \in WaysFrom(i, p) : TRUE
  BY <1>5, BuiltAutomaton, ExpandedHasAWay
<1>7. w[m] = x.from
  <2>1. /\ Len(word) \in Nat /\ Len(word) <= Len(Right(grammar, p))
        /\ \A k \in 1 .. Len(word) : word[k] = Right(grammar, p)[k]
    BY <1>3, <1>4
  <2>2. Path(Delta, i, word) = w[Len(word)]
    BY <1>5, <2>1, PathIsTheWay
  <2> QED
    BY <1>1, <1>4, <2>2
<1>8. Delta[x.from][x.var] = w[n]
  <2>1. n \in 1 .. Len(Right(grammar, p))
    BY <1>3
  <2>2. Delta[w[n - 1]][Right(grammar, p)[n]] = w[n]
    BY <1>5, <2>1, WaysFollowDelta
  <2> QED
    BY <1>1, <1>7, <2>2
<1>9. PICK k : IsPlacedAt(k, i, p, w)
  BY <1>5, EveryWayIsPlaced
<1>10. x.var \in Variables(grammar)
  BY TransitionShape
<1>11. /\ k \in 1 .. Len(B!Productions) /\ Len(B!RhsOf(k)) = n
       /\ B!LhsOf(k) = OfTransition(y)
       /\ B!RhsOf(k)[n] = OfTransition(x) /\ B!RhsOf(k)[n] \in site.nonterms
  BY <1>1, <1>3, <1>8, <1>9, <1>10 DEF IsPlacedAt, OfTransition
<1>12. B!FollowIsClosedAt(k, n)
  BY <1>3, <1>11, BuiltSets DEF SetsAreClosed
<1>13. B!CanEnd(k, n)
  BY <1>3, <1>11 DEF B!CanEnd
<1>14. /\ follow[OfTransition(y)] \subseteq follow[OfTransition(x)]
       /\ OfTransition(y) \in precedes_eof => OfTransition(x) \in precedes_eof
  BY <1>11, <1>12, <1>13 DEF B!FollowIsClosedAt
<1> QED
  BY <1>14 DEF AfterSymbol

\* There are finitely many transitions.
LEMMA TransitionsAreFinite ==
    ASSUME AutomatonInvariant
    PROVE  IsFiniteSet(Transitions)
<1> DEFINE V == Variables(grammar)
           Pairs == L!Ids \X V
           h == [t \in Pairs |-> [from |-> t[1], var |-> t[2]]]
<1>1. IsFiniteSet(V)
  <2>1. IsGrammar(grammar)
    BY GrammarIsGrammar DEF AutomatonInvariant
  <2>2. Len(grammar.variables) \in Nat
        /\ DOMAIN grammar.variables = 1 .. Len(grammar.variables)
    BY <2>1 DEF IsGrammar
  <2> QED
    BY <2>2, ImageOfIntervalIsFinite DEF Variables
<1>2. IsFiniteSet(L!Ids)
  <2> PICK last : last = L!StateCount - 1
    OBVIOUS
  <2>1. last \in Int /\ L!Ids = 0 .. last
    BY DEF AutomatonInvariant, StatesAreNumbered
  <2> QED
    BY <2>1, FS_Interval
<1>3. IsFiniteSet(Pairs)
  BY <1>1, <1>2, FS_Product
<1>4. h \in Surjection(Pairs, [from : L!Ids, var : V])
  <2>1. h \in [Pairs -> [from : L!Ids, var : V]]
    OBVIOUS
  <2>2. ASSUME NEW d \in [from : L!Ids, var : V] PROVE \E t \in Pairs : h[t] = d
    <3>1. <<d.from, d.var>> \in Pairs /\ d = [from |-> d.from, var |-> d.var]
      OBVIOUS
    <3>2. h[<<d.from, d.var>>] = d
      BY <3>1
    <3> QED
      BY <3>1, <3>2
  <2> QED
    BY <2>1, <2>2 DEF Surjection
<1>5. IsFiniteSet([from : L!Ids, var : V])
  BY <1>3, <1>4, FS_Surjection
<1>6. Transitions \subseteq [from : L!Ids, var : V]
  BY DEF Transitions, VariableTransitions
<1> QED
  BY <1>5, <1>6, FS_Subset

\* All that follows a transition by the relations of DeRemer and Pennello stands
\* after its symbol.
LEMMA FollowIsAfterSymbol ==
    ASSUME Built, NEW x \in Transitions
    PROVE  FollowOfTransition(grammar, L!Ids, Delta, x) \subseteq AfterSymbol(OfTransition(x))
<1> DEFINE U == Transitions
           next == [u \in U |-> {v \in U : Includes(grammar, Delta, u, v)}]
           Kept == {y \in U : AfterSymbol(OfTransition(y)) \subseteq AfterSymbol(OfTransition(x))}
<1>1. IsFiniteSet(U)
  BY TransitionsAreFinite, BuiltAutomaton
<1>2. next \in [U -> SUBSET U]
  OBVIOUS
<1>3. x \in Kept
  OBVIOUS
<1>4. \A y \in Kept \cap U : next[y] \subseteq Kept
  <2> SUFFICES ASSUME NEW y \in Kept, NEW z \in next[y]
               PROVE  z \in Kept
    OBVIOUS
  <2>1. y \in U /\ z \in U /\ Includes(grammar, Delta, y, z)
    OBVIOUS
  <2>2. AfterSymbol(OfTransition(z)) \subseteq AfterSymbol(OfTransition(y))
    BY <2>1, IncludesFollows
  <2> QED
    BY <2>1, <2>2
<1>5. FollowOfTransition(grammar, L!Ids, Delta, x)
      = UNION {DirectRead(grammar, Delta, y) : y \in Reached(U, next, x)}
  BY DEF FollowOfTransition, Transitions
<1>6. \A y \in Kept : y \in Transitions
                   /\ AfterSymbol(OfTransition(y)) \subseteq AfterSymbol(OfTransition(x))
  OBVIOUS
<1> HIDE DEF Kept, next
<1>7. Reached(U, next, x) \subseteq Kept
  BY <1>1, <1>2, <1>3, <1>4, ReachedIsLeast
<1> QED
  BY <1>5, <1>6, <1>7, DirectReadFollows

\* Every LALR(1) lookahead of a finished production has been registered.
LEMMA LookaheadsAreRegistered ==
    ASSUME Built, NEW i \in L!Ids, NEW p \in Finished(i)
    PROVE  LALRLookaheads(i, p) \subseteq Registered(i, p)
<1> PICK n, v, key : n = Len(Right(grammar, p)) /\ v = Left(grammar, p)
                     /\ key = [state |-> i, prod |-> p]
  OBVIOUS
<1> SUFFICES ASSUME NEW x \in Transitions, x.var = v, Path(Delta, x.from, Right(grammar, p)) = i
             PROVE  FollowOfTransition(grammar, L!Ids, Delta, x) \subseteq Registered(i, p)
  BY DEF LALRLookaheads, Lookaheads, Transitions
<1> PICK j : j = x.from
  OBVIOUS
<1>1. /\ AutomatonInvariant /\ MergeInvariant /\ pc = "done" /\ LookaheadInvariant
      /\ CoverInvariant
  BY DEF Built
<1>2. p \in Productions(grammar) /\ n \in Nat /\ n # 0
  BY <1>1, FinishedIsMerged, BuiltAutomaton, ProductionShape
<1>3. j \in L!Ids /\ p \in ExpandedIn(j)
  BY <1>2, TransitionShape
<1>4. PICK w \in WaysFrom(j, p) : TRUE
  BY <1>3, BuiltAutomaton, ExpandedHasAWay
<1>5. w[n] = i
  <2> PICK word : word = Right(grammar, p)
    OBVIOUS
  <2>1. /\ Len(word) \in Nat /\ Len(word) <= Len(Right(grammar, p))
        /\ \A k \in 1 .. Len(word) : word[k] = Right(grammar, p)[k]
    BY <1>2
  <2>2. Path(Delta, j, word) = w[Len(word)]
    BY <1>2, <1>3, <2>1, PathIsTheWay
  <2> QED
    BY <2>2
<1>6. PICK k : IsPlacedAt(k, j, p, w)
  BY <1>3, EveryWayIsPlaced
<1> PICK q : q = site.productions[k]
  OBVIOUS
<1>7. /\ k \in 1 .. Len(site.productions) /\ q.lhs = OfTransition(x)
      /\ q.lhs \in site.nonterms /\ Located(q) = key
  <2>1. B!Productions[k] = q /\ B!LhsOf(k) = q.lhs /\ Len(B!Productions) = Len(site.productions)
    BY DEF B!Productions, B!LhsOf
  <2> QED
    BY <1>2, <1>5, <1>6, <2>1 DEF IsPlacedAt, OfTransition
<1>8. /\ {t.info : t \in follow[q.lhs]} \subseteq merged_follow[key]
      /\ q.lhs \in precedes_eof => key \in merged_ending
  BY <1>1, <1>7 DEF MergeInvariant, MergedAreLocated, CoverInvariant, MergedCoverFollow
<1>9. ReducesAllMerged(i)
  BY <1>1 DEF CoverInvariant, RegisteredCoverMerged
<1>10. \A t \in follow[q.lhs] : t.info \in Tokens(grammar)
  BY <1>1, <1>7, BuiltSets DEF LookaheadInvariant, SiteShape, SetsAreClosed, B!SetTypes
<1>11. {t.info : t \in follow[q.lhs]} \subseteq Registered(i, p)
  BY <1>8, <1>9, <1>10 DEF ReducesAllMerged, Registered
<1>12. q.lhs \in precedes_eof => Eof \in Registered(i, p)
  BY <1>8, <1>9 DEF ReducesAllMerged, Registered, AtEof
<1> QED
  BY <1>7, <1>11, <1>12, FollowIsAfterSymbol DEF AfterSymbol

\* BuildLALRAutomaton: no LALR(1) lookahead is lost on the way through the
\* extended grammar, its FOLLOW sets, their merge and the registration, for any
\* grammar whose root is not left-recursive.
THEOREM LookaheadsCover == Spec => []LookaheadsCoverLALR
<1>1. Init => CoverInvariant
  <2> SUFFICES ASSUME Init PROVE CoverInvariant
    OBVIOUS
  <2>1. merged = 0 /\ pc = "bootstrap"
    BY DEF Init, L!Init
  <2> QED
    BY <2>1 DEF CoverInvariant, MergedCoverFollow, RegisteredCoverMerged
<1>2. AutomatonInvariant /\ MergeInvariant /\ LookaheadInvariant
      /\ CoverInvariant /\ [Next]_vars => CoverInvariant'
  BY CoverInvariantIsKept
<1>3. AutomatonInvariant /\ MergeInvariant /\ LookaheadInvariant /\ CoverInvariant
      => LookaheadsCoverLALR
  BY LookaheadsAreRegistered DEF LookaheadsCoverLALR, Built
<1> QED
  BY <1>1, <1>2, <1>3, AutomatonInvariantHolds, LookaheadInvariantHolds, PTL DEF Spec

-----------------------------------------------------------------------------
(* The tables as the driver takes them.                                    *)

\* In the extended grammar the productions of the root are those of the new
\* root, which is on no right-hand side.
RootIsApart ==
    \A k \in 1 .. Len(site.productions) :
        LET q == site.productions[k]
        IN  /\ Left(grammar, q.info) = RootVariable(grammar) => q.lhs = NewRoot
            /\ Len(q.rhs) \in Nat
            /\ \A m \in 1 .. Len(q.rhs) : q.rhs[m] # NewRoot

\* Nothing follows the new root.
RootHasNoFollow ==
    /\ prod \in Nat \ {0} /\ back \in Nat
    /\ pc \in {"extend_states", "build", "merge", "register", "done"} =>
        NewRoot \in DOMAIN follow /\ follow[NewRoot] = {}

\* Nor does anything where its productions end.
RootIsMergedEmpty ==
    \A key \in DOMAIN merged_follow :
        Left(grammar, key.prod) = RootVariable(grammar) => merged_follow[key] = {}

\* So no token reduces them.
RootIsNotReduced ==
    pc \in {"register", "done"} =>
        \A i \in L!Ids : \A t \in DOMAIN action_map[i] : \A p :
            action_map[i][t] = PdaEdgeReduce(p) => Left(grammar, p) # RootVariable(grammar)

RootInvariant ==
    RootIsFresh(grammar) =>
        RootIsApart /\ RootHasNoFollow /\ RootIsMergedEmpty /\ RootIsNotReduced

\* The tables of a running Parse.
DriverHasItsTables ==
    parsing # "idle" =>
        /\ config.grammar = grammar
        /\ R!ConsistentPda(config)
        /\ RootIsFresh(grammar) => R!RootWaitsForEof(config)

\* The driver with what is proved of it.
P == INSTANCE GenericParserProofs WITH Configurations <- {}, pc <- parsing

\* Before Parse is called its variables are as Parse begins with.
DriverWaits ==
    parsing = "idle" =>
        /\ loaded = 0 /\ offset = 0 /\ tok = R!NullToken /\ result = R!NullToken
        /\ state_stack = <<>> /\ ast_stack = <<>>

\* Once it is called its own invariant holds.
DriverIsRight == parsing # "idle" => P!ParserInvariant

ConstructionInvariant == AutomatonInvariant /\ MergeInvariant /\ RootInvariant
GeneratorInvariant == ConstructionInvariant /\ DriverHasItsTables
GeneratedParserInvariant == GeneratorInvariant /\ DriverWaits /\ DriverIsRight

-----------------------------------------------------------------------------
(* The root                                                                *)

\* EnumerateClosureItems: only the first state expands a root that is on no
\* right-hand side.
LEMMA OnlyTheFirstExpandsTheRoot ==
    ASSUME AutomatonInvariant, StatesAreReached, RootIsFresh(grammar),
           NEW i \in L!Ids, NEW p \in ExpandedIn(i),
           Left(grammar, p) = RootVariable(grammar)
    PROVE  i = 0
<1>1. /\ IsGrammar(grammar) /\ states[i] \in SUBSET Items(grammar)
      /\ p \in Productions(grammar) /\ Item(p, 0) \in ClosureItems(grammar, states[i])
  BY GrammarIsGrammar DEF AutomatonInvariant, StatesAreNumbered, ExpandedIn
<1>2. RootVariable(grammar) \notin ClosureVariables(grammar, states[i])
  <2> SUFFICES ASSUME RootVariable(grammar) \in ClosureVariables(grammar, states[i])
               PROVE  FALSE
    OBVIOUS
  <2>1. PICK it \in ClosureItems(grammar, states[i]) :
            NextIs(grammar, it, RootVariable(grammar))
    BY <1>1, ClosureVariableIsNext
  <2>2. it \in Items(grammar)
    BY <1>1, ClosureItemsType
  <2>3. /\ it.prod \in Productions(grammar)
        /\ it.dot \in 0 .. Len(Right(grammar, it.prod))
    BY <2>2, ItemShape
  <2>4. Right(grammar, it.prod) \in Seq(Symbols(grammar))
    BY <1>1, <2>3, ProductionShape
  <2>5. it.dot + 1 \in DOMAIN Right(grammar, it.prod)
    BY <2>1, <2>3, <2>4 DEF NextIs, IsFinalized
  <2> QED
    BY <2>1, <2>3, <2>5 DEF NextIs, RootIsFresh
<1>3. Item(p, 0) \in states[i]
  <2>1. CASE Item(p, 0) \notin states[i]
    <3>1. PICK v \in ClosureVariables(grammar, states[i]) : Item(p, 0) \in Expansion(grammar, v)
      BY <1>1, <2>1 DEF ClosureItems
    <3>2. v = RootVariable(grammar)
      BY <3>1 DEF Expansion, Item
    <3> QED
      BY <1>2, <3>1, <3>2
  <2> QED
    BY <2>1
<1>4. CASE i # 0
  <2>1. PICK j \in L!Ids, s \in Symbols(grammar) :
            states[i] = GotoItems(grammar, states[j], s)
    BY <1>4 DEF StatesAreReached
  <2>2. states[j] \in SUBSET Items(grammar)
    BY DEF AutomatonInvariant, StatesAreNumbered
  <2>3. \A it \in GotoItems(grammar, states[j], s) : it.dot > 0
    BY <1>1, <2>2, GotoItemsType
  <2> QED
    BY <1>3, <2>1, <2>3 DEF Item
<1> QED
  BY <1>4

\* CreateExtendedGrammar: what a state adds keeps the root apart.
LEMMA ExtendedRootIsApart ==
    ASSUME AutomatonInvariant, StatesAreReached, RootIsFresh(grammar),
           NEW i \in L!Ids, NEW k \in 1 .. Len(ExtendedProductions(i))
    PROVE  LET q == ExtendedProductions(i)[k]
           IN  /\ Left(grammar, q.info) = RootVariable(grammar) => q.lhs = NewRoot
               /\ Len(q.rhs) \in Nat
               /\ \A m \in 1 .. Len(q.rhs) : q.rhs[m] # NewRoot
<1> DEFINE E == ExpandedIn(i)
           p == CHOOSE x \in E : Cardinality({q \in E : q < x}) = k - 1
<1>1. IsGrammar(grammar)
  BY GrammarIsGrammar DEF AutomatonInvariant
<1>2. E \in SUBSET Int /\ IsFiniteSet(E) /\ Cardinality(E) \in Nat
  BY <1>1, ExpandedIsFinite
<1>3. ExtendedProductions(i) =
        [l \in 1 .. Cardinality(E) |->
            LET x == CHOOSE x \in E : Cardinality({q \in E : q < x}) = l - 1
            IN  [info |-> x, lhs |-> ExtendedLeft(i, x), rhs |-> ExtendedRight(i, x)]]
  BY DEF ExtendedProductions
<1>4. k \in 1 .. Cardinality(E)
  BY <1>2, <1>3
<1>5. ExtendedProductions(i)[k] =
            [info |-> p, lhs |-> ExtendedLeft(i, p), rhs |-> ExtendedRight(i, p)]
  BY <1>3, <1>4
<1>6. p \in E
  <2> HIDE DEF E
  <2>1. \E x \in E : Cardinality({q \in E : q < x}) = k - 1
    BY <1>2, <1>4, EveryPlaceIsTaken
  <2> QED
    BY <2>1
<1> PICK x, lhs, rhs : x = p /\ lhs = ExtendedLeft(i, p) /\ rhs = ExtendedRight(i, p)
  OBVIOUS
<1> HIDE DEF p
<1>7. Left(grammar, x) = RootVariable(grammar) => lhs = NewRoot
  BY <1>6, OnlyTheFirstExpandsTheRoot DEF ExtendedLeft
<1>8. /\ x \in Productions(grammar) /\ Right(grammar, x) \in Seq(Symbols(grammar))
  BY <1>1, <1>6, ProductionShape DEF ExpandedIn
<1>9. Len(rhs) \in Nat /\ \A m \in 1 .. Len(rhs) : rhs[m] # NewRoot
  <2> PICK n : n = Len(Right(grammar, x))
    OBVIOUS
  <2>1. n \in Nat /\ DOMAIN Right(grammar, x) = 1 .. n
    BY <1>8
  <2>2. rhs = [l \in 1 .. n |->
                Symbol(Right(grammar, x)[l], StatesAlong(i, Right(grammar, x))[l])]
    BY <2>1 DEF ExtendedRight
  <2>3. Len(rhs) = n /\ \A m \in 1 .. n : rhs[m].info = Right(grammar, x)[m]
    BY <2>1, <2>2 DEF Symbol
  <2>4. NewRoot.info = RootVariable(grammar)
    BY DEF NewRoot, Symbol
  <2>5. \A m \in 1 .. n : Right(grammar, x)[m] # RootVariable(grammar)
    BY <1>8, <2>1 DEF RootIsFresh
  <2> QED
    BY <2>1, <2>3, <2>4, <2>5
<1> QED
  BY <1>5, <1>7, <1>9

\* BuildLALRAutomaton up to the merging: the root stays apart.
LEMMA RootStaysApart ==
    ASSUME AutomatonInvariant, MergeInvariant, RootIsFresh(grammar), RootIsApart, Step
    PROVE  RootIsApart'
<1>1. CASE ExtendState
  <2>1. PICK i \in to_visit :
            site' = [site EXCEPT !.productions = @ \o ExtendedProductions(i)]
    BY <1>1 DEF ExtendState
  <2>2. UNCHANGED grammar /\ pc = "extend_states"
    BY <1>1 DEF ExtendState, lr0_vars
  <2>3. /\ "productions" \in DOMAIN site /\ \E S : site.productions \in Seq(S)
        /\ i \in L!Ids /\ StatesAreReached /\ IsGrammar(grammar)
    BY <2>2, GrammarIsGrammar DEF AutomatonInvariant, MergeInvariant, SiteIsComplete
  <2> PICK old, new, all : /\ old = site.productions /\ new = ExtendedProductions(i)
                          /\ all = site'.productions
    OBVIOUS
  <2>4. all = old \o new
    BY <2>1, <2>3
  <2>5. PICK S : old \in Seq(S)
    BY <2>3
  <2>6. PICK T : new \in Seq(T)
    BY <2>3, ExtendedListsAll
  <2>7. \A k \in 1 .. Len(all) :
            \/ k \in 1 .. Len(old) /\ all[k] = old[k]
            \/ k - Len(old) \in 1 .. Len(new) /\ all[k] = new[k - Len(old)]
    <3>1. old \in Seq(S \cup T) /\ new \in Seq(S \cup T)
      BY <2>5, <2>6
    <3> QED
      BY <2>4, <3>1
  <2>8. NewRoot' = NewRoot
    BY <2>2 DEF NewRoot, Symbol
  <2> SUFFICES ASSUME NEW k \in 1 .. Len(all)
               PROVE  LET q == all[k]
                      IN  /\ Left(grammar, q.info) = RootVariable(grammar) => q.lhs = NewRoot
                          /\ Len(q.rhs) \in Nat
                          /\ \A m \in 1 .. Len(q.rhs) : q.rhs[m] # NewRoot
    BY <2>2, <2>8 DEF RootIsApart
  <2>9. CASE k \in 1 .. Len(old) /\ all[k] = old[k]
    BY <2>9 DEF RootIsApart
  <2>10. CASE k - Len(old) \in 1 .. Len(new) /\ all[k] = new[k - Len(old)]
    BY <2>3, <2>10, ExtendedRootIsApart
  <2> QED
    BY <2>7, <2>9, <2>10
<1>2. CASE ExtendSymbols
  <2>1. site'.productions = <<>>
    BY <1>2 DEF ExtendSymbols
  <2> QED
    BY <2>1 DEF RootIsApart
<1>3. CASE ~ExtendState /\ ~ExtendSymbols
  <2>1. UNCHANGED <<grammar, site>>
    <3>1. CASE Bootstrap
      BY <3>1 DEF Bootstrap, set_vars, L!Step, L!BeginState, L!SkipSymbol, L!AddTransition,
         L!EndState, L!Bootstrapped
    <3>2. CASE ~Bootstrap
      BY <1>3, <3>2, SettledSteps DEF Step, Settled, BeginBuild, lr0_vars, set_vars
    <3> QED
      BY <3>1, <3>2
  <2> QED
    BY <2>1 DEF RootIsApart, NewRoot, Symbol
<1> QED
  BY <1>1, <1>2, <1>3

\* ComputeFollowSet inserts only into the sets of symbols on right-hand sides.
LEMMA NothingFollowsTheRoot ==
    ASSUME MergeInvariant, RootIsApart, RootHasNoFollow, NewRoot' = NewRoot, Step
    PROVE  RootHasNoFollow'
<1>1. CASE Build
  <2>1. /\ pc = "build" /\ G!Step
        /\ NewRoot \in DOMAIN follow /\ follow[NewRoot] = {}
        /\ prod \in Nat \ {0} /\ back \in Nat
    BY <1>1 DEF Build, RootHasNoFollow
  <2>2. CASE G!FollowOfSymbol
    <3> PICK rhs, lhs, here : /\ rhs = site.productions[prod].rhs
                             /\ lhs = site.productions[prod].lhs
                             /\ here = Len(rhs) - back
      OBVIOUS
    <3>1. prod <= Len(site.productions) /\ back < Len(rhs) /\ prod' = prod /\ back' = back + 1
      BY <2>2 DEF G!FollowOfSymbol, G!Production
    <3>2. \E S : site.productions \in Seq(S)
      BY DEF MergeInvariant, SiteIsComplete
    <3>3. prod \in 1 .. Len(site.productions)
      BY <2>1, <3>1, <3>2
    <3>4. Len(rhs) \in Nat /\ \A m \in 1 .. Len(rhs) : rhs[m] # NewRoot
      BY <3>3 DEF RootIsApart
    <3>5. here \in 1 .. Len(rhs) /\ (here > 1 => here - 1 \in 1 .. Len(rhs))
      BY <2>1, <3>1, <3>4
    <3>6. rhs[here] # NewRoot /\ (here > 1 => rhs[here - 1] # NewRoot)
      BY <3>4, <3>5
    <3>7. ASSUME NEW f, NEW s, NEW terms, s # NewRoot, NewRoot \in DOMAIN f
          PROVE  NewRoot \in DOMAIN G!Gain(f, s, terms) /\ G!Gain(f, s, terms)[NewRoot] = f[NewRoot]
      BY <3>7 DEF G!Gain
    <3> PICK looked :
            looked = IF here > 1 /\ rhs[here - 1] \in site.nonterms
                     THEN G!Gain(follow, rhs[here - 1], G!FirstOf(rhs[here]))
                     ELSE follow
      OBVIOUS
    <3>8. NewRoot \in DOMAIN looked /\ looked[NewRoot] = {}
      BY <2>1, <3>6, <3>7
    <3>9. follow' = looked \/ follow' = G!Gain(looked, rhs[here], looked[lhs])
      BY <2>2 DEF G!FollowOfSymbol, G!Production
    <3>10. NewRoot \in DOMAIN follow' /\ follow'[NewRoot] = {}
      <4>1. LET f == G!Gain(looked, rhs[here], looked[lhs])
            IN  NewRoot \in DOMAIN f /\ f[NewRoot] = looked[NewRoot]
        <5>1. PICK s, terms : s = rhs[here] /\ terms = looked[lhs]
          OBVIOUS
        <5>2. s # NewRoot /\ NewRoot \in DOMAIN looked
          BY <3>6, <3>8, <5>1
        <5>3. NewRoot \in DOMAIN G!Gain(looked, s, terms)
              /\ G!Gain(looked, s, terms)[NewRoot] = looked[NewRoot]
          BY <5>2 DEF G!Gain
        <5> QED
          BY <5>1, <5>3
      <4>2. CASE follow' = looked
        BY <3>8, <4>2
      <4>3. CASE follow' = G!Gain(looked, rhs[here], looked[lhs])
        BY <3>8, <4>1, <4>3
      <4> QED
        BY <3>9, <4>2, <4>3
    <3> QED
      BY <2>1, <3>1, <3>10 DEF RootHasNoFollow
  <2>3. CASE ~G!FollowOfSymbol
    <3>1. /\ UNCHANGED follow
          /\ prod' \in {prod, prod + 1, 1} /\ back' \in {back, 0}
      BY <2>1, <2>3 DEF G!Step, G!FirstOfProduction, G!EndFirstPass, G!EndFollowProduction,
         G!EndFollowPass, G!sets
    <3> QED
      BY <2>1, <3>1 DEF RootHasNoFollow
  <2> QED
    BY <2>2, <2>3
<1>2. CASE ExtendSymbols
  <2>1. /\ follow' = [s \in ExtendedNonterms |-> {}] /\ UNCHANGED <<prod, back>>
    BY <1>2 DEF ExtendSymbols
  <2>2. NewRoot \in ExtendedNonterms
    BY DEF ExtendedNonterms
  <2> QED
    BY <2>1, <2>2 DEF RootHasNoFollow
<1>3. CASE ~Build /\ ~ExtendSymbols
  <2>1. UNCHANGED <<follow, prod, back>>
    BY <1>3 DEF Step, Bootstrap, ExtendState, BeginBuild, MergeProduction,
       MergeEmptyProduction, EndMerge, RegisterReductions, RegisterConflict, Return, set_vars
  <2>2. pc' \in {"extend_states", "build", "merge", "register", "done"} =>
            pc \in {"extend_states", "build", "merge", "register", "done"}
    <3>1. CASE Bootstrap
      BY <3>1 DEF Bootstrap, L!Step, L!BeginState, L!SkipSymbol, L!AddTransition,
         L!EndState, L!Bootstrapped
    <3>2. CASE ~Bootstrap
      BY <1>3, <3>2, SettledSteps DEF Step, Settled, ExtendState, BeginBuild
    <3> QED
      BY <3>1, <3>2
  <2> QED
    BY <2>1, <2>2 DEF RootHasNoFollow
<1> QED
  BY <1>1, <1>2, <1>3

\* Nor does merging give the root's productions any token.
LEMMA RootStaysMergedEmpty ==
    ASSUME MergeInvariant, RootIsApart, RootHasNoFollow, RootIsMergedEmpty, Step,
           UNCHANGED grammar
    PROVE  RootIsMergedEmpty'
<1>1. CASE MergeProduction
  <2> PICK p, key : p = site.productions[merged + 1] /\ key = Located(p)
    OBVIOUS
  <2>1. /\ pc = "merge" /\ merged < Len(site.productions)
        /\ merged_follow' =
                L!Put(merged_follow, key, MergedFollow(key) \cup {t.info : t \in follow[p.lhs]})
    BY <1>1 DEF MergeProduction
  <2>2. follow[NewRoot] = {}
    BY <2>1 DEF RootHasNoFollow
  <2>3. merged + 1 \in 1 .. Len(site.productions)
    BY <2>1 DEF MergeInvariant, MergedAreLocated, SiteIsComplete
  <2>4. key.prod = p.info
    BY DEF Located
  <2>5. Left(grammar, p.info) = RootVariable(grammar) => p.lhs = NewRoot
    BY <2>3 DEF RootIsApart
  <2>6. Left(grammar, key.prod) = RootVariable(grammar) =>
            MergedFollow(key) \cup {t.info : t \in follow[p.lhs]} = {}
    BY <2>2, <2>4, <2>5 DEF MergedFollow, RootIsMergedEmpty
  <2>7. \A x \in DOMAIN merged_follow' :
            \/ x = key /\ merged_follow'[x] = MergedFollow(key) \cup {t.info : t \in follow[p.lhs]}
            \/ x \in DOMAIN merged_follow /\ merged_follow'[x] = merged_follow[x]
    BY <2>1 DEF L!Put
  <2> QED
    BY <2>6, <2>7 DEF RootIsMergedEmpty
<1>2. CASE ~MergeProduction
  <2>1. UNCHANGED merged_follow
    BY <1>2 DEF Step, Bootstrap, ExtendSymbols, ExtendState, BeginBuild, Build,
       MergeEmptyProduction, EndMerge, RegisterReductions, RegisterConflict, Return, table_vars
  <2> QED
    BY <2>1 DEF RootIsMergedEmpty
<1> QED
  BY <1>1, <1>2

\* RegisterReduce: so no token reduces the root.
LEMMA RootStaysUnreduced ==
    ASSUME AutomatonInvariant, MergeInvariant, RootIsMergedEmpty, RootIsNotReduced, Step
    PROVE  RootIsNotReduced'
<1>1. CASE RegisterReductions
  <2>1. PICK i \in to_visit :
            action_map' = [action_map EXCEPT ![i] =
                [t \in DOMAIN @ \cup ReduceTokens(i) |->
                    IF t \in ReduceTokens(i)
                    THEN PdaEdgeReduce(CHOOSE p \in Before(i, t) : TRUE)
                    ELSE @[t]]]
    BY <1>1 DEF RegisterReductions
  <2>2. UNCHANGED <<grammar, states>> /\ pc = "register"
    BY <1>1 DEF RegisterReductions
  <2>3. L!Ids' = L!Ids
    BY <2>2 DEF L!Ids
  <2>4. DOMAIN action_map = L!Ids
    BY DEF AutomatonInvariant, StatesAreNumbered
  <2> SUFFICES ASSUME NEW j \in L!Ids, NEW t \in DOMAIN action_map'[j], NEW p,
                      action_map'[j][t] = PdaEdgeReduce(p)
               PROVE  Left(grammar, p) # RootVariable(grammar)
    BY <2>2, <2>3 DEF RootIsNotReduced
  <2>5. CASE j = i /\ t \in ReduceTokens(i)
    <3>1. action_map'[i][t] = PdaEdgeReduce(CHOOSE x \in Before(i, t) : TRUE)
      BY <2>1, <2>4, <2>5
    <3>2. p = (CHOOSE x \in Before(i, t) : TRUE)
      BY <2>5, <3>1 DEF PdaEdgeReduce
    <3>3. p \in Before(i, t)
      BY <2>5, <3>2 DEF ReduceTokens
    <3>4. p \in Finished(i) /\ t \in merged_follow[[state |-> i, prod |-> p]]
      BY <3>3 DEF Before
    <3>5. [state |-> i, prod |-> p] \in DOMAIN merged_follow
      BY <2>2, <2>5, <3>4, FinishedIsMerged
    <3> QED
      BY <3>4, <3>5 DEF RootIsMergedEmpty
  <2>6. CASE ~(j = i /\ t \in ReduceTokens(i))
    <3>1. t \in DOMAIN action_map[j] /\ action_map'[j][t] = action_map[j][t]
      BY <2>1, <2>4, <2>6
    <3> QED
      BY <2>2, <3>1 DEF RootIsNotReduced
  <2> QED
    BY <2>5, <2>6
<1>2. CASE EndMerge
  <2>1. UNCHANGED <<grammar, states, action_map>> /\ pc = "merge"
    BY <1>2 DEF EndMerge, lr0_vars
  <2>2. \A i \in L!Ids : \A t \in DOMAIN action_map[i] : \A p :
            action_map[i][t] # PdaEdgeReduce(p)
    <3> SUFFICES ASSUME NEW i \in L!Ids, NEW t \in DOMAIN action_map[i], NEW p
                 PROVE  action_map[i][t] # PdaEdgeReduce(p)
      OBVIOUS
    <3>1. IsShift(i, t)
      BY <2>1 DEF AutomatonInvariant, EdgesAreGotos, IsReduction
    <3> QED
      BY <3>1 DEF IsShift, L!PdaEdgeShift, PdaEdgeReduce
  <2> QED
    BY <2>1, <2>2 DEF RootIsNotReduced, L!Ids
<1>3. CASE ~RegisterReductions /\ ~EndMerge
  <2>1. CASE Settled
    <3>1. UNCHANGED <<grammar, states, action_map>>
      BY <1>3, <2>1 DEF Settled, Build, MergeProduction, MergeEmptyProduction,
         RegisterConflict, Return, lr0_vars
    <3>2. pc' \in {"register", "done"} => pc \in {"register", "done"}
      BY <1>3, <2>1 DEF Settled, Build, MergeProduction, MergeEmptyProduction,
         RegisterConflict, Return
    <3> QED
      BY <3>1, <3>2 DEF RootIsNotReduced, L!Ids
  <2>2. CASE ~Settled
    <3>1. pc' \notin {"register", "done"}
      BY <2>2 DEF Step, Settled, Bootstrap, ExtendSymbols, ExtendState, BeginBuild, L!Step,
         L!BeginState, L!SkipSymbol, L!AddTransition, L!EndState, L!Bootstrapped
    <3> QED
      BY <3>1 DEF RootIsNotReduced
  <2> QED
    BY <2>1, <2>2
<1> QED
  BY <1>1, <1>2, <1>3

\* The grammar is the one the construction began with.
LEMMA GrammarStays ==
    ASSUME Step
    PROVE  UNCHANGED grammar
<1>1. CASE Bootstrap
  BY <1>1 DEF Bootstrap, L!Step, L!BeginState, L!SkipSymbol, L!AddTransition, L!EndState,
     L!Bootstrapped
<1>2. CASE ~Bootstrap
  BY <1>2, SettledSteps DEF Step, Settled, ExtendSymbols, ExtendState, BeginBuild, lr0_vars
<1> QED
  BY <1>1, <1>2

\* What the construction keeps true, step after step.
LEMMA ConstructionStarts ==
    ASSUME Init
    PROVE  ConstructionInvariant
<1>1. /\ site = EmptySite /\ prod = 1 /\ back = 0 /\ merged_follow = <<>>
      /\ pc = "bootstrap"
  BY DEF Init, L!Init, G!StartBuild
<1>2. RootIsApart
  BY <1>1 DEF RootIsApart, EmptySite
<1>3. RootHasNoFollow /\ RootIsMergedEmpty /\ RootIsNotReduced
  BY <1>1 DEF RootHasNoFollow, RootIsMergedEmpty, RootIsNotReduced
<1> QED
  BY <1>2, <1>3, AutomatonInvariantStarts, MergeInvariantStarts
  DEF ConstructionInvariant, RootInvariant

\* Every step of BuildLALRAutomaton keeps the invariants of the automaton, of
\* the merged sets and of the root.
LEMMA ConstructionIsKept ==
    ASSUME ConstructionInvariant, [Next]_vars
    PROVE  ConstructionInvariant' /\ UNCHANGED grammar
<1>1. AutomatonInvariant' /\ MergeInvariant'
  BY AutomatonInvariantIsKept, MergeInvariantIsKept DEF ConstructionInvariant
<1>2. UNCHANGED grammar
  BY GrammarStays DEF Next, vars, lr0_vars
<1>3. RootInvariant'
  <2> SUFFICES ASSUME RootIsFresh(grammar)
               PROVE  (RootIsApart /\ RootHasNoFollow /\ RootIsMergedEmpty /\ RootIsNotReduced)'
    BY <1>2 DEF RootInvariant
  <2>1. /\ AutomatonInvariant /\ MergeInvariant
        /\ RootIsApart /\ RootHasNoFollow /\ RootIsMergedEmpty /\ RootIsNotReduced
    BY DEF ConstructionInvariant, RootInvariant
  <2>2. NewRoot' = NewRoot
    BY <1>2 DEF NewRoot, Symbol
  <2>3. CASE Step
    BY <1>2, <2>1, <2>2, <2>3, RootStaysApart, NothingFollowsTheRoot, RootStaysMergedEmpty,
       RootStaysUnreduced
  <2>4. CASE UNCHANGED vars
    <3>1. UNCHANGED <<states, action_map, pc, site, follow, prod, back, merged_follow>>
      BY <2>4 DEF vars, lr0_vars, set_vars, table_vars
    <3> QED
      BY <1>2, <2>1, <2>2, <3>1
      DEF RootIsApart, RootHasNoFollow, RootIsMergedEmpty, RootIsNotReduced, L!Ids
  <2> QED
    BY <2>3, <2>4 DEF Next
<1> QED
  BY <1>1, <1>2, <1>3 DEF ConstructionInvariant

-----------------------------------------------------------------------------
(* The tables                                                              *)

\* The driver's copies of the operators on items are those operators.
LEMMA SameForTheDriver ==
    /\ \A K, s : R!GotoItems(grammar, K, s) = GotoItems(grammar, K, s)
    /\ R!InitialItems(grammar) = InitialItems(grammar)
    /\ R!Tokens(grammar) = Tokens(grammar) /\ R!Variables(grammar) = Variables(grammar)
    /\ R!Productions(grammar) = Productions(grammar)
    /\ R!RootVariable(grammar) = RootVariable(grammar)
    /\ \A p : /\ R!Left(grammar, p) = Left(grammar, p)
              /\ R!Right(grammar, p) = Right(grammar, p)
              /\ \A d : R!Item(p, d) = Item(p, d)
<1>1. /\ R!Tokens(grammar) = Tokens(grammar) /\ R!Variables(grammar) = Variables(grammar)
      /\ R!Productions(grammar) = Productions(grammar)
      /\ R!RootVariable(grammar) = RootVariable(grammar)
  BY DEF R!Tokens, R!Variables, R!Productions, R!RootVariable,
         Tokens, Variables, Productions, RootVariable
<1>2. \A p : /\ R!Left(grammar, p) = Left(grammar, p)
             /\ R!Right(grammar, p) = Right(grammar, p)
             /\ \A d : R!Item(p, d) = Item(p, d)
  BY DEF R!Left, R!Right, R!Item, Left, Right, Item
<1>3. R!InitialItems(grammar) = InitialItems(grammar)
  BY DEF R!InitialItems, R!Expansion, R!RootVariable, R!Productions, R!Left, R!Item,
         InitialItems, Expansion, RootVariable, Productions, Left, Item
<1>4. \A K, s : R!GotoItems(grammar, K, s) = GotoItems(grammar, K, s)
  BY DEF R!GotoItems, R!ClosureItems, R!ClosureVariables, R!Seeds, R!Heads, R!Expansion,
         R!NextIs, R!IsFinalized, R!CreateSuccessor, R!Item, R!Productions, R!Left,
         R!Right, R!Variables,
         GotoItems, ClosureItems, ClosureVariables, Seeds, Heads, Expansion, NextIs,
         IsFinalized, CreateSuccessor, Item, Productions, Left, Right, Variables
<1> QED
  BY <1>1, <1>2, <1>3, <1>4

\* A production the automaton reduces may be reduced by the driver.
LEMMA FinishedMayBeReduced ==
    ASSUME AutomatonInvariant, MergeInvariant, pc = "done",
           NEW c, c.grammar = grammar, c.pda.items = states,
           NEW i \in L!Ids, NEW p \in Finished(i)
    PROVE  p \in Productions(grammar) /\ R!MayReduce(c, i, p)
<1>1. /\ p \in Productions(grammar) /\ Len(Right(grammar, p)) # 0
  BY FinishedIsMerged
<1>2. Right(grammar, p) # <<>>
  BY <1>1
<1>3. Item(p, Len(Right(grammar, p))) \in states[i]
  <2>1. PICK it \in states[i] : IsFinalized(grammar, it) /\ it.prod = p
    BY DEF Finished
  <2>2. it = Item(it.prod, it.dot)
    BY ItemShape DEF AutomatonInvariant, StatesAreNumbered
  <2> QED
    BY <2>1, <2>2 DEF IsFinalized
<1> QED
  BY <1>1, <1>2, <1>3, SameForTheDriver DEF R!MayReduce

\* Initialize copies the automaton into the tables, with ActionError and -1 for
\* what it has not.
LEMMA TablesAreTablesOfTheAutomaton ==
    ASSUME ConstructionInvariant, pc = "done",
           NEW c, c = [grammar |-> grammar, pda |-> Tables]
    PROVE  /\ c.grammar = grammar
           /\ R!ConsistentPda(c)
           /\ RootIsFresh(grammar) => R!RootWaitsForEof(c)
<1>1. /\ AutomatonInvariant /\ MergeInvariant /\ RootInvariant
      /\ StatesAreNumbered /\ EdgesAreGotos /\ unprocessed = <<>>
      /\ L!Ids # {}
  BY DEF ConstructionInvariant, AutomatonInvariant, QueueHoldsTheRest
<1>2. /\ c.grammar = grammar /\ c.pda.items = states /\ R!States(c) = L!Ids
      /\ \A i \in L!Ids : \A t \in Tokens(grammar) :
            c.pda.action[i][t] = IF t \in DOMAIN action_map[i]
                                 THEN TranslateAction(action_map[i][t]) ELSE R!ErrorAction
      /\ \A i \in L!Ids :
            c.pda.eof[i] = IF eof_action[i] = {} THEN R!ErrorAction
                           ELSE R!ReduceAction(CHOOSE p \in eof_action[i] : TRUE)
      /\ \A i \in L!Ids : \A v \in Variables(grammar) :
            c.pda.goto[i][v] = IF v \in DOMAIN goto_map[i] THEN goto_map[i][v] ELSE R!NoState
  BY DEF Tables, GotoTable, R!States, L!Ids
<1>3. \A i \in L!Ids : \A s : Wanted(i, s) <=> GotoItems(grammar, states[i], s) # {}
  BY <1>1, AllTried
<1>4. /\ L!Ids # {} /\ 0 \in L!Ids /\ L!Ids \subseteq Nat
      /\ states[0] = InitialItems(grammar)
  BY <1>1 DEF StatesAreNumbered
<1>5. \A i \in L!Ids : \A p \in Finished(i) : p \in Productions(grammar) /\ R!MayReduce(c, i, p)
  BY <1>1, <1>2, FinishedMayBeReduced
<1>6. ASSUME NEW i \in L!Ids, NEW t \in Tokens(grammar)
      PROVE  \/ c.pda.action[i][t] = R!ErrorAction
             \/ \E d \in L!Ids :
                    /\ c.pda.action[i][t] = R!ShiftAction(d)
                    /\ states[d] = GotoItems(grammar, states[i], t)
             \/ \E p \in Productions(grammar) :
                    /\ c.pda.action[i][t] = R!ReduceAction(p)
                    /\ R!MayReduce(c, i, p)
  <2>1. CASE t \notin DOMAIN action_map[i]
    BY <1>2, <2>1
  <2>2. CASE t \in DOMAIN action_map[i] /\ IsShift(i, t)
    <3>1. PICK d \in L!Ids : /\ action_map[i][t] = L!PdaEdgeShift(d)
                             /\ states[d] = GotoItems(grammar, states[i], t)
      BY <2>2 DEF IsShift
    <3>2. c.pda.action[i][t] = R!ShiftAction(d)
      BY <1>2, <2>2, <3>1 DEF TranslateAction, L!PdaEdgeShift
    <3> QED
      BY <3>1, <3>2
  <2>3. CASE t \in DOMAIN action_map[i] /\ ~IsShift(i, t)
    <3>1. IsReduction(i, t)
      BY <1>1, <2>3 DEF EdgesAreGotos
    <3>2. PICK p \in Finished(i) : action_map[i][t] = PdaEdgeReduce(p)
      BY <3>1 DEF IsReduction
    <3>3. c.pda.action[i][t] = R!ReduceAction(p)
      BY <1>2, <2>3, <3>2 DEF TranslateAction, PdaEdgeReduce
    <3> QED
      BY <1>5, <3>3
  <2> QED
    BY <2>1, <2>2, <2>3
<1>7. ASSUME NEW i \in L!Ids
      PROVE  \/ c.pda.eof[i] = R!ErrorAction
             \/ \E p \in Productions(grammar) :
                    c.pda.eof[i] = R!ReduceAction(p) /\ R!MayReduce(c, i, p)
  <2>1. eof_action[i] \subseteq Finished(i)
    BY <1>1 DEF AutomatonInvariant, EofReducesTheFinished
  <2>2. CASE eof_action[i] # {}
    <3> PICK p : p = CHOOSE q \in eof_action[i] : TRUE
      OBVIOUS
    <3>1. p \in eof_action[i]
      BY <2>2
    <3> QED
      BY <1>2, <1>5, <2>1, <2>2, <3>1
  <2> QED
    BY <1>2, <2>2
<1>8. ASSUME NEW i \in L!Ids, NEW v \in Variables(grammar)
      PROVE  LET dest == GotoItems(grammar, states[i], v)
             IN  \/ c.pda.goto[i][v] = R!NoState /\ dest = {}
                 \/ c.pda.goto[i][v] \in L!Ids /\ states[c.pda.goto[i][v]] = dest
  <2>1. v \in DOMAIN goto_map[i] <=> GotoItems(grammar, states[i], v) # {}
    BY <1>1, <1>3 DEF EdgesAreGotos
  <2>2. v \in DOMAIN goto_map[i] => IsGoto(i, v)
    BY <1>1 DEF EdgesAreGotos
  <2> QED
    BY <1>2, <2>1, <2>2 DEF IsGoto
<1>9. R!ConsistentPda(c)
  <2>1. \A i \in R!States(c) : \A t \in R!Tokens(c.grammar) :
            \/ c.pda.action[i][t] = R!ErrorAction
            \/ \E d \in R!States(c) :
                   /\ c.pda.action[i][t] = R!ShiftAction(d)
                   /\ c.pda.items[d] = R!GotoItems(c.grammar, c.pda.items[i], t)
            \/ \E p \in R!Productions(c.grammar) :
                   c.pda.action[i][t] = R!ReduceAction(p) /\ R!MayReduce(c, i, p)
    BY <1>2, <1>6, SameForTheDriver
  <2>2. \A i \in R!States(c) :
            \/ c.pda.eof[i] = R!ErrorAction
            \/ \E p \in R!Productions(c.grammar) :
                   c.pda.eof[i] = R!ReduceAction(p) /\ R!MayReduce(c, i, p)
    BY <1>2, <1>7, SameForTheDriver
  <2>3. \A i \in R!States(c) : \A v \in R!Variables(c.grammar) :
            LET dest == R!GotoItems(c.grammar, c.pda.items[i], v)
            IN  \/ c.pda.goto[i][v] = R!NoState /\ dest = {}
                \/ /\ c.pda.goto[i][v] \in R!States(c)
                   /\ c.pda.items[c.pda.goto[i][v]] = dest
    BY <1>2, <1>8, SameForTheDriver
  <2>4. /\ R!States(c) # {} /\ 0 \in R!States(c) /\ R!States(c) \subseteq Nat
        /\ c.pda.items[0] = R!InitialItems(c.grammar)
    BY <1>2, <1>4, SameForTheDriver
  <2> QED
    BY <2>1, <2>2, <2>3, <2>4 DEF R!ConsistentPda
<1>10. ASSUME RootIsFresh(grammar) PROVE R!RootWaitsForEof(c)
  <2> SUFFICES ASSUME NEW i \in L!Ids, NEW t \in Tokens(grammar), NEW p,
                      c.pda.action[i][t] = R!ReduceAction(p)
               PROVE  Left(grammar, p) # RootVariable(grammar)
    BY <1>2, SameForTheDriver DEF R!RootWaitsForEof
  <2>1. t \in DOMAIN action_map[i]
    BY <1>2 DEF R!ErrorAction, R!ReduceAction
  <2>2. ~IsShift(i, t)
    <3> SUFFICES ASSUME NEW d \in L!Ids, action_map[i][t] = L!PdaEdgeShift(d) PROVE FALSE
      BY DEF IsShift
    <3>1. c.pda.action[i][t] = R!ShiftAction(d)
      BY <1>2, <2>1 DEF L!PdaEdgeShift, TranslateAction
    <3> QED
      BY <3>1 DEF R!ShiftAction, R!ReduceAction
  <2>3. PICK x \in Finished(i) : action_map[i][t] = PdaEdgeReduce(x)
    BY <1>1, <2>1, <2>2 DEF EdgesAreGotos, IsReduction
  <2>4. x = p
    BY <1>2, <2>1, <2>3 DEF TranslateAction, PdaEdgeReduce, R!ReduceAction
  <2>5. RootIsNotReduced
    BY <1>1, <1>10 DEF RootInvariant
  <2> QED
    BY <2>1, <2>3, <2>4, <2>5 DEF RootIsNotReduced
<1> QED
  BY <1>2, <1>9, <1>10

-----------------------------------------------------------------------------
(* The generator                                                           *)

\* Initialize and Parse keep the tables: they are filled from a finished
\* automaton, and nothing changes them afterwards.
LEMMA GeneratorInvariantIsKept ==
    ASSUME GeneratorInvariant, [GeneratorNext]_generator_vars
    PROVE  GeneratorInvariant'
<1>1. [Next]_vars
  BY DEF GeneratorNext, GeneratorStep, ReadConfiguration, ResolveParserInfo, Generate,
     BuildAutomaton, CallParse, Parse, generator_vars, Next
<1>2. ConstructionInvariant' /\ UNCHANGED grammar
  BY <1>1, ConstructionIsKept DEF GeneratorInvariant
<1>3. CASE CallParse
  <2> PICK c : c = [grammar |-> grammar, pda |-> Tables]
    OBVIOUS
  <2>1. pc = "done" /\ config' = c
    BY <1>3 DEF CallParse
  <2>2. /\ c.grammar = grammar
        /\ R!ConsistentPda(c)
        /\ RootIsFresh(grammar) => R!RootWaitsForEof(c)
    BY <2>1, TablesAreTablesOfTheAutomaton DEF GeneratorInvariant
  <2>3. DriverHasItsTables'
    BY <1>2, <2>1, <2>2 DEF DriverHasItsTables
  <2> QED
    BY <1>2, <2>3 DEF GeneratorInvariant
<1>4. CASE ~CallParse
  <2>1. UNCHANGED config /\ (parsing' # "idle" => parsing # "idle")
    <3>1. CASE Parse
      BY <3>1 DEF Parse, R!Step, R!LoadToken, R!SkipToken, R!ThrowInvalidToken, R!LoadEof,
         R!FeedShift, R!FeedReduce, R!FeedError, R!AbortOnState, R!Finalize
    <3>2. CASE ~Parse
      BY <1>4, <3>2 DEF GeneratorNext, GeneratorStep, ReadConfiguration, ResolveParserInfo,
         Generate, BuildAutomaton, generator_vars, parse_vars
    <3> QED
      BY <3>1, <3>2
  <2>2. DriverHasItsTables'
    BY <1>2, <2>1 DEF GeneratorInvariant, DriverHasItsTables
  <2> QED
    BY <1>2, <2>2 DEF GeneratorInvariant
<1> QED
  BY <1>3, <1>4

\* Whatever the grammar, Parse is called with tables that meet the hypotheses of
\* GenericParserProofs: consistent with the LR(0) automaton, and with the root,
\* if it is on no right-hand side, reduced at the end of the input only.
THEOREM GeneratedTablesFitTheDriver == GeneratorSpec => []TablesFitTheDriver
<1>1. GeneratorInit => GeneratorInvariant
  BY ConstructionStarts DEF GeneratorInit, GeneratorInvariant, DriverHasItsTables
<1>2. GeneratorInvariant /\ [GeneratorNext]_generator_vars => GeneratorInvariant'
  BY GeneratorInvariantIsKept
<1>3. GeneratorInvariant => TablesFitTheDriver
  BY DEF GeneratorInvariant, DriverHasItsTables, TablesFitTheDriver
<1> QED
  BY <1>1, <1>2, <1>3, PTL DEF GeneratorSpec

-----------------------------------------------------------------------------
(* The generated parser                                                    *)

\* The two instances of the driver are one.
LEMMA SameDriver ==
    /\ R!Step <=> P!Step
    /\ R!NullToken = P!NullToken
    /\ R!Lexemes(grammar) = P!Lexemes(grammar)
    /\ R!ConsistentPda(config) <=> P!ConsistentPda(config)
    /\ R!RootWaitsForEof(config) <=> P!RootWaitsForEof(config)
    /\ P!IsGrammar(grammar) <=> IsGrammar(grammar)
    /\ P!Tokens(grammar) = Tokens(grammar)
<1>1. R!NullToken = P!NullToken
  BY DEF R!NullToken, P!NullToken
<1>2. /\ \A gr : R!Tokens(gr) = P!Tokens(gr) /\ R!Variables(gr) = P!Variables(gr)
      /\ \A gr : R!Productions(gr) = P!Productions(gr)
      /\ \A gr : R!RootVariable(gr) = P!RootVariable(gr)
      /\ \A gr, p : /\ R!Left(gr, p) = P!Left(gr, p)
                    /\ R!Right(gr, p) = P!Right(gr, p)
      /\ \A p, d : R!Item(p, d) = P!Item(p, d)
  BY DEF R!Tokens, R!Variables, R!Productions, R!RootVariable, R!Left, R!Right, R!Item,
         P!Tokens, P!Variables, P!Productions, P!RootVariable, P!Left, P!Right, P!Item
<1>3. R!Lexemes(grammar) = P!Lexemes(grammar)
  BY <1>2 DEF R!Lexemes, P!Lexemes
<1>4. R!ConsistentPda(config) <=> P!ConsistentPda(config)
  BY DEF R!ConsistentPda, R!States, R!NoState, R!ErrorAction, R!ShiftAction, R!ReduceAction,
         R!MayReduce, R!InitialItems, R!RootVariable, R!Tokens,
         R!GotoItems, R!ClosureItems, R!ClosureVariables, R!Seeds, R!Heads, R!Expansion,
         R!NextIs, R!IsFinalized, R!CreateSuccessor, R!Item, R!Productions, R!Left,
         R!Right, R!Variables,
         P!ConsistentPda, P!States, P!NoState, P!ErrorAction, P!ShiftAction, P!ReduceAction,
         P!MayReduce, P!InitialItems, P!RootVariable, P!Tokens,
         P!GotoItems, P!ClosureItems, P!ClosureVariables, P!Seeds, P!Heads, P!Expansion,
         P!NextIs, P!IsFinalized, P!CreateSuccessor, P!Item, P!Productions, P!Left,
         P!Right, P!Variables
<1>5. R!RootWaitsForEof(config) <=> P!RootWaitsForEof(config)
  BY <1>2 DEF R!RootWaitsForEof, P!RootWaitsForEof, R!States, P!States,
     R!ReduceAction, P!ReduceAction
<1>6. P!Tokens(grammar) = Tokens(grammar)
  BY DEF P!Tokens, Tokens
<1>7. P!IsGrammar(grammar) <=> IsGrammar(grammar)
  BY DEF P!IsGrammar, IsGrammar, P!Tokens, Tokens, P!Variables, Variables, P!Symbols, Symbols,
     P!Productions, Productions, P!Left, Left
<1>8. R!Step <=> P!Step
  BY DEF R!Step, R!LoadToken, R!SkipToken, R!ThrowInvalidToken, R!LoadEof, R!FeedShift,
     R!FeedReduce, R!FeedError, R!AbortOnState, R!Finalize, R!Lexeme, R!Tokens, R!g, R!pda,
     R!NullToken, R!CurrentState, R!Top, R!CurrentAction, R!IsValid, R!Feeding, R!States,
     R!Location, R!EndOf, R!GotoFrom, R!Folded, R!RootIsFolded, R!Left, R!Right,
     R!RootVariable,
     P!Step, P!LoadToken, P!SkipToken, P!ThrowInvalidToken, P!LoadEof, P!FeedShift,
     P!FeedReduce, P!FeedError, P!AbortOnState, P!Finalize, P!Lexeme, P!Tokens, P!g, P!pda,
     P!NullToken, P!CurrentState, P!Top, P!CurrentAction, P!IsValid, P!Feeding, P!States,
     P!Location, P!EndOf, P!GotoFrom, P!Folded, P!RootIsFolded, P!Left, P!Right,
     P!RootVariable
<1> QED
  BY <1>1, <1>3, <1>4, <1>5, <1>6, <1>7, <1>8

\* What the variables of Parse are when it is called.
IsCalled ==
    /\ parsing = "load" /\ data \in Inputs(grammar)
    /\ loaded = 0 /\ offset = 0 /\ tok = R!NullToken /\ result = R!NullToken
    /\ state_stack = <<>> /\ ast_stack = <<>>

\* A call on the generated tables starts in the driver's invariant.
LEMMA CallIsRight ==
    (AutomatonInvariant /\ DriverHasItsTables /\ IsCalled) => P!ParserInvariant
<1> SUFFICES ASSUME AutomatonInvariant, DriverHasItsTables, IsCalled
             PROVE  P!ParserInvariant
  OBVIOUS
<1>1. config.grammar = grammar /\ R!ConsistentPda(config)
  BY DEF DriverHasItsTables, IsCalled
<1>2. grammar \in GrammarChoices /\ IsGrammar(grammar)
  BY GrammarIsGrammar DEF AutomatonInvariant, StatesAreNumbered
<1>3. P!InputOK
  BY <1>1, <1>2, InputsAssumption, SameDriver DEF P!InputOK, P!g, IsCalled
<1>4. P!StartParse(config, data)
  BY SameDriver DEF P!StartParse, IsCalled
<1> QED
  BY <1>3, <1>4, InputsAssumption, P!ParserInvariantStarts

\* So does the state after a step that calls it.
LEMMA CallStarts ==
    (AutomatonInvariant' /\ DriverHasItsTables' /\ IsCalled') => P!ParserInvariant'
BY CallIsRight, PTL

\* Initialize and Parse keep the driver's invariant too.
LEMMA GeneratedParserInvariantIsKept ==
    ASSUME GeneratedParserInvariant, [GeneratorNext]_generator_vars
    PROVE  GeneratedParserInvariant'
<1>1. GeneratorInvariant'
  BY GeneratorInvariantIsKept DEF GeneratedParserInvariant
<1>2. CASE CallParse
  <2>1. [Next]_vars
    BY <1>2 DEF CallParse
  <2>2. IsCalled'
    BY <1>2, <2>1, ConstructionIsKept
    DEF CallParse, IsCalled, GeneratedParserInvariant, GeneratorInvariant, DriverWaits
  <2>3. P!ParserInvariant'
    BY <1>1, <2>2, CallStarts DEF GeneratorInvariant, ConstructionInvariant
  <2> QED
    BY <1>1, <2>2, <2>3 DEF GeneratedParserInvariant, DriverWaits, DriverIsRight, IsCalled
<1>3. CASE Parse
  <2>1. parsing # "idle" /\ P!Next
    BY <1>3, SameDriver DEF Parse, P!Next
  <2>2. P!ParserInvariant'
    BY <2>1, InputsAssumption, P!ParserInvariantIsKept
    DEF GeneratedParserInvariant, DriverIsRight
  <2>3. parsing' # "idle"
    BY <2>1, <2>2 DEF P!ParserInvariant, P!TypeOK
  <2> QED
    BY <1>1, <2>2, <2>3 DEF GeneratedParserInvariant, DriverWaits, DriverIsRight
<1>4. CASE ~CallParse /\ ~Parse
  <2>1. UNCHANGED parse_vars
    BY <1>4 DEF GeneratorNext, GeneratorStep, ReadConfiguration, ResolveParserInfo,
       Generate, BuildAutomaton, generator_vars
  <2>2. UNCHANGED <<config, data, loaded, offset, tok, state_stack, ast_stack, result, parsing>>
    BY <2>1 DEF parse_vars
  <2>3. DriverWaits'
    BY <2>2 DEF GeneratedParserInvariant, DriverWaits, R!NullToken
  <2>4. P!ParserInvariant => P!ParserInvariant'
    BY <2>2, InputsAssumption, P!ParserInvariantIsKept DEF P!vars
  <2> QED
    BY <1>1, <2>2, <2>3, <2>4 DEF GeneratedParserInvariant, DriverIsRight
<1> QED
  BY <1>2, <1>3, <1>4

\* From the first state of Initialize on.
LEMMA GeneratedParserInvariantHolds == GeneratorSpec => []GeneratedParserInvariant
<1>1. GeneratorInit => GeneratedParserInvariant
  BY ConstructionStarts DEF GeneratorInit, GeneratedParserInvariant, GeneratorInvariant,
     DriverHasItsTables, DriverWaits, DriverIsRight
<1> QED
  BY <1>1, GeneratedParserInvariantIsKept, PTL DEF GeneratorSpec

\* From the grammar to the end of Parse: where the root is on no right-hand
\* side no assertion of the driver fails, whatever the input.
THEOREM GeneratedParserNeverAborts ==
    GeneratorSpec => [](RootIsFresh(grammar) => parsing # "aborted")
<1>1. GeneratedParserInvariant => (RootIsFresh(grammar) => parsing # "aborted")
  <2> SUFFICES ASSUME GeneratedParserInvariant, RootIsFresh(grammar), parsing = "aborted"
               PROVE  FALSE
    OBVIOUS
  <2>1. P!ParserInvariant
    BY DEF GeneratedParserInvariant, DriverIsRight
  <2>2. P!RootWaitsForEof(config)
    BY SameDriver DEF GeneratedParserInvariant, GeneratorInvariant, DriverHasItsTables
  <2> QED
    BY <2>1, <2>2 DEF P!ParserInvariant, P!NoStateIsLast
<1> QED
  BY <1>1, GeneratedParserInvariantHolds, PTL

\* On the tables it is given, of whatever grammar, Parse keeps its stacks on a
\* path of the automaton, finds every handle on them and the root at the end,
\* and orders the locations.
THEOREM GeneratedParserKeepsItsStacks ==
    GeneratorSpec => [](parsing # "idle" =>
                            /\ R!StackFollowsAutomaton /\ R!HandleIsOnTop
                            /\ R!FinalizeFindsTheRoot /\ R!LocationsAreOrdered)
<1>1. P!ParserInvariant =>
        /\ P!StackFollowsAutomaton /\ P!HandleIsOnTop
        /\ P!FinalizeFindsTheRoot /\ P!LocationsAreOrdered
  BY InputsAssumption, P!HandleLiesThere DEF P!ParserInvariant, P!StackInvariant
<1>2. P!StackFollowsAutomaton => R!StackFollowsAutomaton
  BY DEF P!StackFollowsAutomaton, R!StackFollowsAutomaton, P!Depth, R!Depth, P!StateBelow,
     R!StateBelow, P!States, R!States, P!NoState, R!NoState, P!g, R!g, P!pda, R!pda,
     R!GotoItems, R!ClosureItems, R!ClosureVariables, R!Seeds, R!Heads, R!Expansion,
     R!NextIs, R!IsFinalized, R!CreateSuccessor, R!Item, R!Productions, R!Left,
     R!Right, R!Variables, R!RootVariable,
     P!GotoItems, P!ClosureItems, P!ClosureVariables, P!Seeds, P!Heads, P!Expansion,
     P!NextIs, P!IsFinalized, P!CreateSuccessor, P!Item, P!Productions, P!Left,
     P!Right, P!Variables, P!RootVariable
<1>3. P!HandleIsOnTop => R!HandleIsOnTop
  BY DEF P!HandleIsOnTop, R!HandleIsOnTop, P!Feeding, R!Feeding, P!CurrentState,
     R!CurrentState, P!Top, R!Top, P!States, R!States, P!CurrentAction, R!CurrentAction,
     P!IsValid, R!IsValid, P!pda, R!pda, P!g, R!g, P!Right, R!Right, P!Depth, R!Depth
<1>4. P!FinalizeFindsTheRoot => R!FinalizeFindsTheRoot
  BY DEF P!FinalizeFindsTheRoot, R!FinalizeFindsTheRoot, P!Depth, R!Depth,
     P!RootVariable, R!RootVariable, P!g, R!g
<1>5. P!LocationsAreOrdered => R!LocationsAreOrdered
  BY DEF P!LocationsAreOrdered, R!LocationsAreOrdered, P!Depth, R!Depth, P!EndOf, R!EndOf
<1>6. GeneratedParserInvariant =>
        (parsing # "idle" => /\ R!StackFollowsAutomaton /\ R!HandleIsOnTop
                             /\ R!FinalizeFindsTheRoot /\ R!LocationsAreOrdered)
  BY <1>1, <1>2, <1>3, <1>4, <1>5 DEF GeneratedParserInvariant, DriverIsRight
<1> QED
  BY <1>6, GeneratedParserInvariantHolds, PTL

\* The two instances of the driver have one recognizer.
LEMMA SameRecognizer ==
    [P!Recognizer!Next]_(P!Recognizer!vars) <=> [R!Recognizer!Next]_(R!Recognizer!vars)
BY DEF P!Recognizer!Next, P!Recognizer!vars, R!Recognizer!Next, R!Recognizer!vars,
   P!Recognizer!Skip, R!Recognizer!Skip, P!Recognizer!Shift, R!Recognizer!Shift,
   P!Recognizer!Reduce, R!Recognizer!Reduce, P!Recognizer!Accept, R!Recognizer!Accept,
   P!Recognizer!RejectToken, R!Recognizer!RejectToken,
   P!Recognizer!RejectSyntax, R!Recognizer!RejectSyntax,
   P!Recognizer!More, R!Recognizer!More, P!Recognizer!Tokens, R!Recognizer!Tokens,
   P!Recognizer!Productions, R!Recognizer!Productions, P!Recognizer!Left, R!Recognizer!Left,
   P!Recognizer!Right, R!Recognizer!Right, P!Recognizer!RootVariable,
   R!Recognizer!RootVariable,
   P!g, R!g, P!Input, R!Input, P!Form, R!Form, P!Consumed, R!Consumed, P!Verdict, R!Verdict,
   P!InHand, R!InHand, P!IsValid, R!IsValid, P!Stopped, R!Stopped

\* The generated parser is a bottom-up recognizer of the grammar: when Parse is
\* called it has read nothing, and from then on every step of it is one of the
\* recognizer or is not seen by it.  So what it accepts is derived by the grammar.
THEOREM GeneratedParserRecognizes ==
    GeneratorSpec =>
        [][IF parsing = "idle" THEN R!Recognizer!Init' ELSE R!Recognizer!Next]_(R!Recognizer!vars)
<1>1. ASSUME GeneratedParserInvariant, GeneratedParserInvariant',
             [GeneratorNext]_generator_vars
      PROVE  [IF parsing = "idle" THEN R!Recognizer!Init' ELSE R!Recognizer!Next]_(R!Recognizer!vars)
  <2>1. CASE parsing = "idle"
    <3>1. UNCHANGED <<loaded, tok, ast_stack>> /\ parsing' \in {"idle", "load"}
      BY <1>1, <2>1 DEF GeneratorNext, GeneratorStep, ReadConfiguration, ResolveParserInfo,
         Generate, BuildAutomaton, CallParse, Parse, generator_vars, parse_vars
    <3>2. loaded' = 0 /\ ast_stack' = <<>>
      BY <1>1, <2>1, <3>1 DEF GeneratedParserInvariant, DriverWaits
    <3>3. R!Form' = <<>>
      BY <3>1, <3>2 DEF R!Form
    <3>4. R!Consumed' = 0
      BY <3>1, <3>2 DEF R!Consumed, R!InHand
    <3>5. R!Verdict' = "none"
      BY <3>1 DEF R!Verdict, R!Stopped
    <3> QED
      BY <2>1, <3>3, <3>4, <3>5 DEF R!Recognizer!Init
  <2>2. CASE parsing # "idle"
    <3>1. P!ParserInvariant /\ P!ParserInvariant'
      <4>1. parsing' # "idle"
        <5>1. CASE Parse
          BY <2>2, <5>1 DEF Parse, R!Step, R!LoadToken, R!SkipToken, R!ThrowInvalidToken,
             R!LoadEof, R!FeedShift, R!FeedReduce, R!FeedError, R!AbortOnState, R!Finalize
        <5>2. CASE ~Parse
          BY <1>1, <2>2, <5>2 DEF GeneratorNext, GeneratorStep, ReadConfiguration,
             ResolveParserInfo, Generate, BuildAutomaton, CallParse, generator_vars, parse_vars
        <5> QED
          BY <5>1, <5>2
      <4> QED
        BY <1>1, <2>2, <4>1 DEF GeneratedParserInvariant, DriverIsRight
    <3>2. [P!Next]_(P!vars)
      BY <1>1, <2>2, SameDriver DEF GeneratorNext, GeneratorStep, ReadConfiguration,
         ResolveParserInfo, Generate, BuildAutomaton, CallParse, Parse, generator_vars,
         parse_vars, P!Next, P!vars
    <3>3. [P!Recognizer!Next]_(P!Recognizer!vars)
      BY <3>1, <3>2, InputsAssumption, P!StepRefines
    <3> QED
      BY <2>2, <3>3, SameRecognizer
  <2> QED
    BY <2>1, <2>2
<1> QED
  BY <1>1, GeneratedParserInvariantHolds, PTL DEF GeneratorSpec
=============================================================================
