------------------------ MODULE GenericParserProofs -------------------------
(***************************************************************************)
(* The driver is right for every grammar, all consistent tables and every  *)
(* input: its stacks spell a path of the automaton, a handle is given the  *)
(* items of its right-hand side, and it implements BottomUpRecognizer.     *)
(*                                                                         *)
(* The heart of the argument is ItemsAreSpelled: an item in a state on the *)
(* stack says what lies below the state, and the state under all of that   *)
(* is one that expands the item's production.  So a reduction finds its    *)
(* right-hand side, and then a goto; the only variable no goto waits for   *)
(* is the root, at the bottom.                                             *)
(***************************************************************************)
EXTENDS GenericParser, GrammarTheorems

\* A call of Parse is well formed: its grammar, its tables and its text are.
InputOK ==
    /\ IsGrammar(g) /\ ConsistentPda(config)
    /\ NoToken \notin Tokens(g) /\ Ignored \notin Tokens(g)
    /\ data \in Seq(Lexemes(g))

\* The part of the right-hand side before the cursor of an item lies on top.
ItemsAreSpelled ==
    \A k \in 1 .. Depth : state_stack[k] \in States(config) =>
        \A it \in pda.items[state_stack[k]] :
            /\ it \in Items(g)
            /\ it.dot \in 1 .. k
            /\ \A i \in 1 .. it.dot :
                ast_stack[k - it.dot + i].symbol = Right(g, it.prod)[i]
            /\ Item(it.prod, 0) \in
                ClosureItems(g, pda.items[StateBelow(k - it.dot + 1)])

\* The token being fed is the last one that was loaded; without one, all were.
TokenInHand ==
    /\ InHand => loaded >= 1 /\ tok.token = data[loaded].token
    /\ (pc = "feed" /\ ~IsValid(tok)) \/ pc = "finalize" => loaded = Len(data)

\* It lies after everything on the stack.
TokenIsAhead ==
    (pc = "feed" /\ IsValid(tok)) =>
        /\ tok.length > 0 /\ tok.offset + tok.length <= offset
        /\ \A k \in 1 .. Depth : EndOf(ast_stack[k]) <= tok.offset

\* NoState is on the stack between the reduction of the root and the end of
\* the call only.
NoStateIsLast ==
    /\ (Depth = 1 /\ state_stack[1] = NoState) =>
        \/ pc = "finalize"
        \/ pc \in {"feed", "aborted"} /\ ~RootWaitsForEof(config)
    /\ pc = "aborted" => ~RootWaitsForEof(config)

StackInvariant == StackFollowsAutomaton /\ ItemsAreSpelled

ParserInvariant ==
    /\ InputOK /\ TypeOK
    /\ StackInvariant
    /\ TokenInHand
    /\ LocationsAreOrdered /\ TokenIsAhead
    /\ NoStateIsLast /\ FinalizeFindsTheRoot

-----------------------------------------------------------------------------
(* The automaton                                                           *)

\* What a well-formed call knows of its configuration (Initialize, LoadToken).
LEMMA ConfigurationFacts ==
    ASSUME InputOK
    PROVE  /\ IsGrammar(g) /\ ConsistentPda(config)
           /\ NoToken \notin Tokens(g) /\ Ignored \notin Tokens(g)
           /\ data \in Seq(Lexemes(g))
           /\ NoState \notin States(config) /\ 0 \in States(config)
           /\ pda.items[0] = InitialItems(g)
<1>1. /\ IsGrammar(g) /\ ConsistentPda(config)
      /\ NoToken \notin Tokens(g) /\ Ignored \notin Tokens(g)
      /\ data \in Seq(Lexemes(g))
  BY DEF InputOK
<1>2. /\ States(config) \subseteq Nat /\ 0 \in States(config)
      /\ pda.items[0] = InitialItems(g)
  BY <1>1 DEF ConsistentPda, g, pda
<1>3. NoState \notin States(config)
  BY <1>2 DEF NoState
<1> QED
  BY <1>1, <1>2, <1>3

\* While the driver is in a state of the automaton, all it has on the stack are
\* states of the automaton.
LEMMA StackHoldsStates ==
    ASSUME InputOK, TypeOK, StackFollowsAutomaton, CurrentState \in States(config)
    PROVE  /\ Depth \in Nat
           /\ \A k \in 1 .. Depth : state_stack[k] \in States(config)
           /\ \A k \in 1 .. Depth + 1 : StateBelow(k) \in States(config)
           /\ CurrentState = StateBelow(Depth + 1)
<1>1. Depth \in Nat /\ state_stack \in Seq(States(config) \cup {NoState})
  <2>1. state_stack \in Seq(States(config) \cup {NoState})
    BY DEF TypeOK
  <2> QED
    BY <2>1 DEF Depth
<1>2. CurrentState = StateBelow(Depth + 1)
  BY <1>1 DEF CurrentState, Top, StateBelow, Depth
<1>3. \A k \in 1 .. Depth + 1 : StateBelow(k) \in States(config)
  BY <1>1, <1>2 DEF StackFollowsAutomaton
<1>4. \A k \in 1 .. Depth : state_stack[k] = StateBelow(k + 1)
  BY <1>1 DEF StateBelow
<1> QED
  BY <1>1, <1>2, <1>3, <1>4

\* The items of the state at any height: those of the initial state have their
\* cursor at the front, the others have not.
LEMMA ItemsAtHeight ==
    ASSUME InputOK, TypeOK, StackInvariant, CurrentState \in States(config),
           NEW k \in 1 .. Depth + 1
    PROVE  /\ pda.items[StateBelow(k)] \subseteq Items(g)
           /\ k = 1 => pda.items[StateBelow(k)] = InitialItems(g)
           /\ k > 1 => \A it \in pda.items[StateBelow(k)] : it.dot > 0
<1>1. Depth \in Nat /\ \A j \in 1 .. Depth : state_stack[j] \in States(config)
  BY StackHoldsStates DEF StackInvariant
<1>2. CASE k = 1
  <2>1. pda.items[StateBelow(k)] = InitialItems(g)
    BY <1>2, ConfigurationFacts DEF StateBelow
  <2>2. InitialItems(g) \subseteq Items(g)
    BY ConfigurationFacts, ExpansionType DEF InitialItems
  <2> QED
    BY <1>2, <2>1, <2>2
<1>3. CASE k > 1
  <2>1. StateBelow(k) = state_stack[k - 1] /\ k - 1 \in 1 .. Depth
    BY <1>1, <1>3 DEF StateBelow
  <2>2. \A it \in pda.items[state_stack[k - 1]] : it \in Items(g) /\ it.dot \in 1 .. (k - 1)
    BY <1>1, <2>1 DEF StackInvariant, ItemsAreSpelled
  <2> QED
    BY <1>3, <2>1, <2>2
<1> QED
  BY <1>1, <1>2, <1>3

-----------------------------------------------------------------------------
(* The stacks                                                              *)

\* Pushing a state on what is left of the stacks, after a shift or a reduction,
\* keeps them on a path of the automaton.
LEMMA PushKeepsStack ==
    ASSUME InputOK, TypeOK, StackInvariant, CurrentState \in States(config),
           NEW base \in 0 .. Depth, NEW d, NEW a,
           config' = config, Depth' = base + 1,
           \A i \in 1 .. base : /\ state_stack'[i] = state_stack[i]
                                /\ ast_stack'[i] = ast_stack[i],
           state_stack'[base + 1] = d, ast_stack'[base + 1] = a,
           LET dest == GotoItems(g, pda.items[StateBelow(base + 1)], a.symbol)
           IN  \/ d \in States(config) /\ pda.items[d] = dest
               \/ /\ base = 0 /\ d = NoState
                  /\ a.symbol = RootVariable(g) /\ dest = {}
    PROVE  StackInvariant'
<1> DEFINE below == pda.items[StateBelow(base + 1)]
           dest == GotoItems(g, below, a.symbol)
<1>1. /\ Depth \in Nat
      /\ \A k \in 1 .. Depth : state_stack[k] \in States(config)
      /\ \A k \in 1 .. Depth + 1 : StateBelow(k) \in States(config)
  BY StackHoldsStates DEF StackInvariant
<1>2. g' = g /\ pda' = pda
  BY DEF g, pda
<1>3. \A k \in 1 .. base + 1 : StateBelow(k)' = StateBelow(k)
  BY <1>1 DEF StateBelow
<1>4. \/ d \in States(config) /\ pda.items[d] = dest
      \/ /\ base = 0 /\ d = NoState
         /\ a.symbol = RootVariable(g) /\ dest = {}
  OBVIOUS
<1> HIDE DEF below, dest
<1>5. StackFollowsAutomaton'
  <2> SUFFICES ASSUME NEW k \in 1 .. base + 1
               PROVE  LET to == GotoItems(g, pda.items[StateBelow(k)], ast_stack'[k].symbol)
                      IN  /\ StateBelow(k) \in States(config)
                          /\ \/ state_stack'[k] \in States(config)
                                /\ pda.items[state_stack'[k]] = to
                             \/ /\ k = 1 /\ base + 1 = 1 /\ state_stack'[k] = NoState
                                /\ ast_stack'[k].symbol = RootVariable(g) /\ to = {}
    BY <1>1, <1>2, <1>3 DEF StackFollowsAutomaton
  <2>1. StateBelow(k) \in States(config)
    BY <1>1
  <2>2. CASE k <= base
    <3>1. k \in 1 .. Depth /\ state_stack'[k] = state_stack[k] /\ ast_stack'[k] = ast_stack[k]
      BY <1>1, <2>2
    <3>2. state_stack[k] \in States(config)
      BY <1>1, <3>1
    <3>3. state_stack[k] # NoState
      BY <3>2, ConfigurationFacts
    <3>4. pda.items[state_stack[k]] = GotoItems(g, pda.items[StateBelow(k)], ast_stack[k].symbol)
      BY <3>1, <3>3 DEF StackInvariant, StackFollowsAutomaton
    <3> QED
      BY <2>1, <3>1, <3>2, <3>4
  <2>3. CASE k = base + 1
    BY <1>4, <2>1, <2>3 DEF dest, below
  <2> QED
    BY <1>1, <2>2, <2>3
<1>6. ItemsAreSpelled'
  <2> SUFFICES ASSUME NEW k \in 1 .. base + 1, state_stack'[k] \in States(config),
                      NEW it \in pda.items[state_stack'[k]]
               PROVE  /\ it \in Items(g)
                      /\ it.dot \in 1 .. k
                      /\ \A i \in 1 .. it.dot :
                            ast_stack'[k - it.dot + i].symbol = Right(g, it.prod)[i]
                      /\ Item(it.prod, 0) \in
                            ClosureItems(g, pda.items[StateBelow(k - it.dot + 1)'])
    BY <1>1, <1>2 DEF ItemsAreSpelled
  <2>1. CASE k <= base
    <3>1. k \in 1 .. Depth /\ state_stack'[k] = state_stack[k]
      BY <1>1, <2>1
    <3>2. /\ it \in Items(g)
          /\ it.dot \in 1 .. k
          /\ \A i \in 1 .. it.dot :
                ast_stack[k - it.dot + i].symbol = Right(g, it.prod)[i]
          /\ Item(it.prod, 0) \in ClosureItems(g, pda.items[StateBelow(k - it.dot + 1)])
      BY <3>1 DEF StackInvariant, ItemsAreSpelled
    <3>3. \A i \in 1 .. it.dot : k - it.dot + i \in 1 .. base
      BY <1>1, <2>1, <3>2
    <3>4. k - it.dot + 1 \in 1 .. base + 1
      BY <1>1, <2>1, <3>2
    <3>5. StateBelow(k - it.dot + 1)' = StateBelow(k - it.dot + 1)
      BY <1>3, <3>4
    <3> QED
      BY <3>2, <3>3, <3>5
  <2>2. CASE k = base + 1
    <3>1. it \in dest
      BY <1>4, <2>2, ConfigurationFacts
    <3>2. PICK it0 \in ClosureItems(g, below) :
              NextIs(g, it0, a.symbol) /\ it = CreateSuccessor(it0)
      BY <3>1 DEF dest, GotoItems
    <3>3. below \subseteq Items(g)
      BY <1>1, ItemsAtHeight DEF below
    <3>4. it0 \in Items(g) /\ IsGrammar(g)
      BY <3>3, ClosureItemsType, ConfigurationFacts
    <3>5. /\ it0.prod \in Productions(g) /\ it0 = Item(it0.prod, it0.dot)
          /\ it0.dot \in Nat /\ it0.dot + 1 \in 0 .. Len(Right(g, it0.prod))
          /\ Right(g, it0.prod)[it0.dot + 1] = a.symbol
      <4>1. Len(Right(g, it0.prod)) \in Nat
        BY <3>4, ItemShape, ProductionShape
      <4> QED
        BY <3>2, <3>4, <4>1, ItemShape DEF NextIs, IsFinalized
    <3>6. it \in Items(g) /\ it.prod = it0.prod /\ it.dot = it0.dot + 1
      BY <3>2, <3>5, ItemIn DEF CreateSuccessor
    <3>7. CASE it0.dot = 0
      <4>1. it.dot = 1
        BY <3>6, <3>7
      <4>2. StateBelow(k - it.dot + 1)' = StateBelow(base + 1)
        BY <1>1, <1>3, <2>2, <4>1
      <4>3. it0 = Item(it.prod, 0)
        BY <3>5, <3>6, <3>7
      <4>4. \A i \in 1 .. it.dot : k - it.dot + i = base + 1 /\ i = it0.dot + 1
        BY <1>1, <2>2, <3>7, <4>1
      <4>5. \A i \in 1 .. it.dot : ast_stack'[k - it.dot + i].symbol = Right(g, it.prod)[i]
        BY <3>5, <3>6, <4>4
      <4>6. Item(it.prod, 0) \in ClosureItems(g, pda.items[StateBelow(k - it.dot + 1)'])
        BY <4>2, <4>3 DEF below
      <4> QED
        BY <1>1, <3>6, <4>1, <4>5, <4>6
    <3>8. CASE it0.dot # 0
      <4>1. it0 \in below
        BY <3>8, MovedItemsAreKernel
      <4>2. base # 0
        BY <1>1, <3>8, <4>1, ItemsAtHeight DEF below, InitialItems, Expansion, Item
      <4>3. base \in 1 .. Depth /\ below = pda.items[state_stack[base]]
        BY <1>1, <4>2 DEF below, StateBelow
      <4>4. /\ it0.dot \in 1 .. base
            /\ \A i \in 1 .. it0.dot :
                  ast_stack[base - it0.dot + i].symbol = Right(g, it0.prod)[i]
            /\ Item(it0.prod, 0) \in
                  ClosureItems(g, pda.items[StateBelow(base - it0.dot + 1)])
        BY <1>1, <4>1, <4>3 DEF StackInvariant, ItemsAreSpelled
      <4>5. k - it.dot + 1 = base - it0.dot + 1 /\ base - it0.dot + 1 \in 1 .. base + 1
        BY <1>1, <2>2, <3>6, <4>4
      <4>6. StateBelow(k - it.dot + 1)' = StateBelow(base - it0.dot + 1)
        BY <1>3, <4>5
      <4>7. ASSUME NEW i \in 1 .. it.dot
            PROVE  ast_stack'[k - it.dot + i].symbol = Right(g, it.prod)[i]
        <5>1. CASE i = it0.dot + 1
          <6>1. k - it.dot + i = base + 1
            BY <1>1, <2>2, <3>6, <4>4, <5>1
          <6> QED
            BY <3>5, <3>6, <5>1, <6>1
        <5>2. CASE i # it0.dot + 1
          <6>1. /\ i \in 1 .. it0.dot
                /\ k - it.dot + i = base - it0.dot + i
                /\ base - it0.dot + i \in 1 .. base
            BY <1>1, <2>2, <3>6, <4>4, <5>2
          <6> QED
            BY <3>6, <4>4, <6>1
        <5> QED
          BY <5>1, <5>2
      <4>8. it.dot \in 1 .. k
        BY <1>1, <2>2, <3>6, <4>4
      <4> QED
        BY <3>6, <4>4, <4>6, <4>7, <4>8
    <3> QED
      BY <3>7, <3>8
  <2> QED
    BY <1>1, <2>1, <2>2
<1> QED
  BY <1>5, <1>6 DEF StackInvariant

\* When a finished production is on top, its right-hand side lies on the
\* stacks, and under it a state with a goto for its left-hand side, unless that
\* is the root and nothing is left.
LEMMA HandleLiesOnTop ==
    ASSUME InputOK, TypeOK, StackInvariant, CurrentState \in States(config),
           NEW p, MayReduce(config, CurrentState, p)
    PROVE  LET n == Len(Right(g, p))
               src == StateBelow(Depth - n + 1)
           IN  /\ p \in Productions(g)
               /\ n \in 1 .. Depth
               /\ \A i \in 1 .. n : ast_stack[Depth - n + i].symbol = Right(g, p)[i]
               /\ src \in States(config)
               /\ \/ GotoItems(g, pda.items[src], Left(g, p)) # {}
                  \/ n = Depth /\ Left(g, p) = RootVariable(g)
<1> DEFINE n == Len(Right(g, p))
           it == Item(p, n)
           src == StateBelow(Depth - n + 1)
<1>1. /\ Depth \in Nat
      /\ \A k \in 1 .. Depth : state_stack[k] \in States(config)
      /\ \A k \in 1 .. Depth + 1 : StateBelow(k) \in States(config)
      /\ CurrentState = StateBelow(Depth + 1)
  BY StackHoldsStates DEF StackInvariant
<1>2. p \in Productions(g) /\ Right(g, p) # <<>> /\ it \in pda.items[CurrentState]
  BY DEF MayReduce, g, pda
<1>3. n \in Nat \ {0} /\ IsGrammar(g) /\ Left(g, p) \in Variables(g)
  BY <1>2, ConfigurationFacts, ProductionShape
<1>4. it.prod = p /\ it.dot = n
  BY DEF Item
<1> HIDE DEF n, it
<1>5. Depth # 0
  <2> SUFFICES ASSUME Depth = 0 PROVE FALSE
    OBVIOUS
  <2>1. it \in InitialItems(g)
    BY <1>1, <1>2, ItemsAtHeight
  <2> QED
    BY <1>3, <1>4, <2>1 DEF InitialItems, Expansion, Item
<1>6. it \in pda.items[state_stack[Depth]] /\ Depth \in 1 .. Depth
  BY <1>1, <1>2, <1>5 DEF StateBelow
<1>7. /\ n \in 1 .. Depth
      /\ \A i \in 1 .. n : ast_stack[Depth - n + i].symbol = Right(g, p)[i]
      /\ Item(p, 0) \in ClosureItems(g, pda.items[src])
  BY <1>1, <1>4, <1>6 DEF StackInvariant, ItemsAreSpelled
<1>8. Depth - n + 1 \in 1 .. Depth + 1 /\ src \in States(config)
  BY <1>1, <1>7
<1>9. \/ GotoItems(g, pda.items[src], Left(g, p)) # {}
      \/ n = Depth /\ Left(g, p) = RootVariable(g)
  <2>1. CASE Item(p, 0) \in pda.items[src]
    <3>1. ~(Depth - n + 1 > 1)
      BY <1>8, <2>1, ItemsAtHeight DEF Item
    <3>2. n = Depth
      BY <1>1, <1>7, <3>1
    <3>3. Item(p, 0) \in InitialItems(g)
      BY <1>1, <1>8, <2>1, <3>2, ItemsAtHeight
    <3>4. Left(g, p) = RootVariable(g)
      BY <3>3 DEF InitialItems, Expansion, Item
    <3> QED
      BY <3>2, <3>4
  <2>2. CASE Item(p, 0) \notin pda.items[src]
    <3>1. PICK v \in ClosureVariables(g, pda.items[src]) : Item(p, 0) \in Expansion(g, v)
      BY <1>7, <2>2 DEF ClosureItems
    <3>2. PICK q \in Productions(g) : Left(g, q) = v /\ Item(p, 0) = Item(q, 0)
      BY <3>1 DEF Expansion
    <3>3. Left(g, p) = v
      BY <3>2 DEF Item
    <3>4. PICK i \in ClosureItems(g, pda.items[src]) : NextIs(g, i, v)
      BY <1>3, <3>1, ClosureVariableIsNext
    <3>5. CreateSuccessor(i) \in GotoItems(g, pda.items[src], v)
      BY <3>4 DEF GotoItems
    <3> QED
      BY <3>3, <3>5
  <2> QED
    BY <2>1, <2>2
<1> QED
  BY <1>2, <1>7, <1>8, <1>9 DEF n

-----------------------------------------------------------------------------
(* The steps                                                               *)

\* What the tables of a configuration can answer.
LEMMA ActionShape ==
    ASSUME InputOK, TypeOK, CurrentState \in States(config)
    PROVE  \/ CurrentAction.type = "error"
           \/ /\ IsValid(tok) /\ tok.token \in Tokens(g)
              /\ \E d \in States(config) :
                    /\ CurrentAction = ShiftAction(d)
                    /\ pda.items[d] = GotoItems(g, pda.items[CurrentState], tok.token)
           \/ \E p \in Productions(g) :
                /\ CurrentAction = ReduceAction(p)
                /\ MayReduce(config, CurrentState, p)
                /\ IsValid(tok) => /\ tok.token \in Tokens(g)
                                   /\ pda.action[CurrentState][tok.token] = ReduceAction(p)
<1>1. ConsistentPda(config)
  BY ConfigurationFacts
<1>2. CASE IsValid(tok)
  <2>1. tok.token \in Tokens(g)
    BY <1>2 DEF TypeOK, IsValid
  <2>2. CurrentAction = pda.action[CurrentState][tok.token]
    BY <1>2 DEF CurrentAction
  <2>3. \/ pda.action[CurrentState][tok.token] = ErrorAction
        \/ \E d \in States(config) :
            /\ pda.action[CurrentState][tok.token] = ShiftAction(d)
            /\ pda.items[d] = GotoItems(g, pda.items[CurrentState], tok.token)
        \/ \E p \in Productions(g) :
            /\ pda.action[CurrentState][tok.token] = ReduceAction(p)
            /\ MayReduce(config, CurrentState, p)
    BY <1>1, <2>1 DEF ConsistentPda, g, pda
  <2> QED
    BY <1>2, <2>1, <2>2, <2>3 DEF ErrorAction
<1>3. CASE ~IsValid(tok)
  <2>1. CurrentAction = pda.eof[CurrentState]
    BY <1>3 DEF CurrentAction
  <2>2. \/ pda.eof[CurrentState] = ErrorAction
        \/ \E p \in Productions(g) :
            pda.eof[CurrentState] = ReduceAction(p) /\ MayReduce(config, CurrentState, p)
    BY <1>1 DEF ConsistentPda, g, pda
  <2> QED
    BY <1>3, <2>1, <2>2 DEF ErrorAction
<1> QED
  BY <1>2, <1>3

\* Steps that leave the stacks alone.
LEMMA SameStack ==
    ASSUME StackInvariant, UNCHANGED <<config, state_stack, ast_stack>>
    PROVE  StackInvariant'
BY DEF StackInvariant, StackFollowsAutomaton, ItemsAreSpelled, StateBelow, Depth, g, pda

\* The next lexeme of the text has a kind and a length (LoadToken).
LEMMA LexemeShape ==
    ASSUME InputOK, TypeOK, loaded < Len(data)
    PROVE  /\ loaded \in Nat /\ loaded + 1 \in 1 .. Len(data)
           /\ Lexeme.length \in Nat \ {0}
           /\ Lexeme.token \in Tokens(g) \cup {Ignored, NoToken}
<1>1. data \in Seq(Lexemes(g)) /\ loaded \in 0 .. Len(data)
  BY ConfigurationFacts DEF TypeOK
<1>2. loaded \in Nat /\ loaded + 1 \in 1 .. Len(data)
  BY <1>1
<1>3. Lexeme \in Lexemes(g)
  BY <1>1, <1>2 DEF Lexeme
<1> QED
  BY <1>2, <1>3 DEF Lexemes

\* Offsets and lengths on the AST stack are integers.
LEMMA LocationsAreNumbers ==
    ASSUME TypeOK
    PROVE  /\ Depth \in Nat
           /\ \A k \in 1 .. Depth :
                /\ ast_stack[k].symbol \in Symbols(g)
                /\ ast_stack[k].offset \in Int /\ ast_stack[k].length \in Int
                /\ EndOf(ast_stack[k]) \in Int
<1>1. /\ ast_stack \in Seq(AstItems) /\ Len(ast_stack) = Depth
      /\ state_stack \in Seq(States(config) \cup {NoState})
  BY DEF TypeOK
<1>2. Depth \in Nat
  BY <1>1 DEF Depth
<1>3. \A k \in 1 .. Depth : ast_stack[k] \in AstItems
  BY <1>1
<1> QED
  BY <1>2, <1>3 DEF AstItems, EndOf

\* Reading on keeps the locations in order: nothing on the AST stack reaches
\* past the lexer, and the lexer only moves forward (LoadToken).
LEMMA OffsetMovesOn ==
    ASSUME TypeOK, LocationsAreOrdered, UNCHANGED <<state_stack, ast_stack>>,
           offset \in Int, offset' \in Int, offset <= offset'
    PROVE  LocationsAreOrdered'
<1>1. Depth' = Depth /\ ast_stack' = ast_stack
  BY DEF Depth
<1>2. \A k \in 1 .. Depth : ast_stack[k].length > 0 /\ EndOf(ast_stack[k]) <= offset'
  <2> SUFFICES ASSUME NEW k \in 1 .. Depth
               PROVE  ast_stack[k].length > 0 /\ EndOf(ast_stack[k]) <= offset'
    OBVIOUS
  <2>1. EndOf(ast_stack[k]) \in Int
    BY LocationsAreNumbers
  <2>2. ast_stack[k].length > 0 /\ EndOf(ast_stack[k]) <= offset
    BY DEF LocationsAreOrdered
  <2> QED
    BY <2>1, <2>2
<1>3. \A j, k \in 1 .. Depth : j < k => EndOf(ast_stack[j]) <= ast_stack[k].offset
  BY DEF LocationsAreOrdered
<1> QED
  BY <1>1, <1>2, <1>3 DEF LocationsAreOrdered, EndOf

\* Loading a token of the grammar keeps the invariant.
LEMMA LoadTokenKeepsInvariant ==
    ASSUME ParserInvariant, LoadToken
    PROVE  ParserInvariant'
<1> USE DEF ParserInvariant
<1>1. /\ pc = "load" /\ loaded < Len(data) /\ Lexeme.token \in Tokens(g)
      /\ tok' = [token |-> Lexeme.token, offset |-> offset, length |-> Lexeme.length]
      /\ offset' = offset + Lexeme.length /\ loaded' = loaded + 1 /\ pc' = "feed"
      /\ UNCHANGED <<config, data, state_stack, ast_stack, result>>
  BY DEF LoadToken
<1>2. /\ loaded \in Nat /\ loaded + 1 \in 1 .. Len(data)
      /\ Lexeme.length \in Nat \ {0} /\ offset \in Nat
  BY <1>1, LexemeShape DEF TypeOK
<1>3. InputOK' /\ g' = g /\ Depth' = Depth
  BY <1>1 DEF InputOK, g, Depth
<1>4. StackInvariant'
  BY <1>1, SameStack
<1>5. TypeOK'
  <2>1. tok' \in [token : Tokens(g) \cup {NoToken}, offset : Int, length : Int]
    BY <1>1, <1>2
  <2>2. loaded' \in 0 .. Len(data) /\ offset' \in Nat
    BY <1>1, <1>2
  <2>3. States(config)' = States(config) /\ AstItems' = AstItems
    BY <1>1, <1>3 DEF States, AstItems
  <2> QED
    BY <1>1, <1>3, <2>1, <2>2, <2>3 DEF TypeOK
<1>6. IsValid(tok)'
  BY <1>1, ConfigurationFacts DEF IsValid
<1>7. TokenInHand'
  <2>1. tok'.token = data[loaded'].token /\ loaded' >= 1
    BY <1>1, <1>2 DEF Lexeme
  <2> QED
    BY <1>1, <1>6, <2>1 DEF TokenInHand
<1>8. LocationsAreOrdered' /\ TokenIsAhead'
  <2>1. offset \in Int /\ offset' \in Int /\ offset <= offset'
    BY <1>1, <1>2
  <2>2. tok'.length > 0 /\ tok'.offset + tok'.length <= offset' /\ tok'.offset = offset
    BY <1>1, <1>2
  <2>3. LocationsAreOrdered'
    BY <1>1, <2>1, OffsetMovesOn
  <2>4. TokenIsAhead'
    BY <1>1, <1>3, <2>2 DEF TokenIsAhead, LocationsAreOrdered, EndOf
  <2> QED
    BY <2>3, <2>4
<1>9. NoStateIsLast' /\ FinalizeFindsTheRoot'
  BY <1>1, <1>3 DEF NoStateIsLast, FinalizeFindsTheRoot
<1> QED
  BY <1>3, <1>4, <1>5, <1>7, <1>8, <1>9

\* Moving over an ignored token keeps the invariant.
LEMMA SkipTokenKeepsInvariant ==
    ASSUME ParserInvariant, SkipToken
    PROVE  ParserInvariant'
<1> USE DEF ParserInvariant
<1>1. /\ pc = "load" /\ loaded < Len(data)
      /\ offset' = offset + Lexeme.length /\ loaded' = loaded + 1
      /\ UNCHANGED <<config, data, tok, state_stack, ast_stack, result, pc>>
  BY DEF SkipToken
<1>2. /\ loaded \in Nat /\ loaded + 1 \in 1 .. Len(data)
      /\ Lexeme.length \in Nat \ {0} /\ offset \in Nat
  BY <1>1, LexemeShape DEF TypeOK
<1>3. InputOK' /\ g' = g /\ Depth' = Depth
  BY <1>1 DEF InputOK, g, Depth
<1>4. StackInvariant'
  BY <1>1, SameStack
<1>5. TypeOK'
  <2>1. loaded' \in 0 .. Len(data) /\ offset' \in Nat
    BY <1>1, <1>2
  <2>2. States(config)' = States(config) /\ AstItems' = AstItems
    BY <1>1, <1>3 DEF States, AstItems
  <2> QED
    BY <1>1, <1>3, <2>1, <2>2 DEF TypeOK
<1>6. TokenInHand' /\ TokenIsAhead'
  BY <1>1 DEF TokenInHand, TokenIsAhead, InHand
<1>7. LocationsAreOrdered'
  <2>1. offset \in Int /\ offset' \in Int /\ offset <= offset'
    BY <1>1, <1>2
  <2> QED
    BY <1>1, <2>1, OffsetMovesOn
<1>8. NoStateIsLast' /\ FinalizeFindsTheRoot'
  BY <1>1, <1>3 DEF NoStateIsLast, FinalizeFindsTheRoot
<1> QED
  BY <1>3, <1>4, <1>5, <1>6, <1>7, <1>8

\* The exception for text that is no token keeps the invariant.
LEMMA ThrowInvalidTokenKeepsInvariant ==
    ASSUME ParserInvariant, ThrowInvalidToken
    PROVE  ParserInvariant'
<1>1. /\ pc = "load" /\ pc' = "invalid token"
      /\ UNCHANGED <<config, data, loaded, offset, tok, state_stack, ast_stack, result>>
  BY DEF ThrowInvalidToken
<1>2. InputOK' /\ TypeOK'
  BY <1>1 DEF ParserInvariant, InputOK, TypeOK, AstItems, States, Depth, g
<1>3. StackInvariant'
  BY <1>1, SameStack DEF ParserInvariant
<1>4. TokenInHand' /\ TokenIsAhead' /\ LocationsAreOrdered'
  BY <1>1 DEF ParserInvariant, TokenInHand, TokenIsAhead, LocationsAreOrdered, InHand, Depth
<1>5. NoStateIsLast' /\ FinalizeFindsTheRoot'
  BY <1>1 DEF ParserInvariant, NoStateIsLast, FinalizeFindsTheRoot, Depth
<1> QED
  BY <1>2, <1>3, <1>4, <1>5 DEF ParserInvariant

\* Turning to the end of the input keeps the invariant.
LEMMA LoadEofKeepsInvariant ==
    ASSUME ParserInvariant, LoadEof
    PROVE  ParserInvariant'
<1>1. /\ pc = "load" /\ loaded = Len(data) /\ tok' = NullToken /\ pc' = "feed"
      /\ UNCHANGED <<config, data, loaded, offset, state_stack, ast_stack, result>>
  BY DEF LoadEof
<1>2. InputOK' /\ TypeOK'
  BY <1>1 DEF ParserInvariant, InputOK, TypeOK, AstItems, States, Depth, g, NullToken
<1>3. StackInvariant'
  BY <1>1, SameStack DEF ParserInvariant
<1>4. ~IsValid(tok)'
  BY <1>1 DEF IsValid, NullToken
<1>5. TokenInHand' /\ TokenIsAhead' /\ LocationsAreOrdered'
  BY <1>1, <1>4
     DEF ParserInvariant, TokenInHand, TokenIsAhead, LocationsAreOrdered, InHand, Depth
<1>6. NoStateIsLast' /\ FinalizeFindsTheRoot'
  BY <1>1 DEF ParserInvariant, NoStateIsLast, FinalizeFindsTheRoot, Depth
<1> QED
  BY <1>2, <1>3, <1>5, <1>6 DEF ParserInvariant

\* A shift keeps the invariant: the token's state lies on the path and its
\* location after all others.
LEMMA FeedShiftKeepsInvariant ==
    ASSUME ParserInvariant, FeedShift
    PROVE  ParserInvariant'
<1> USE DEF ParserInvariant
<1> DEFINE a == Location(tok.token, tok.offset, tok.offset + tok.length)
           d == CurrentAction.target
<1>1. /\ pc = "feed" /\ CurrentState \in States(config) /\ CurrentAction.type = "shift"
      /\ state_stack' = Append(state_stack, d)
      /\ ast_stack' = Append(ast_stack, a)
      /\ pc' = "load"
      /\ UNCHANGED <<config, data, loaded, offset, tok, result>>
  BY DEF FeedShift, Feeding
<1>2. /\ IsValid(tok) /\ tok.token \in Tokens(g)
      /\ d \in States(config)
      /\ pda.items[d] = GotoItems(g, pda.items[CurrentState], tok.token)
  <2>1. \A p : ReduceAction(p).type # "shift"
    BY DEF ReduceAction
  <2>2. \A e : ShiftAction(e).target = e
    BY DEF ShiftAction
  <2>3. /\ IsValid(tok) /\ tok.token \in Tokens(g)
        /\ \E e \in States(config) :
            /\ CurrentAction = ShiftAction(e)
            /\ pda.items[e] = GotoItems(g, pda.items[CurrentState], tok.token)
    BY <1>1, <2>1, ActionShape
  <2> QED
    BY <2>2, <2>3
<1>3. /\ state_stack \in Seq(States(config) \cup {NoState})
      /\ ast_stack \in Seq(AstItems) /\ Len(ast_stack) = Depth /\ Depth \in Nat
      /\ tok.offset \in Int /\ tok.length \in Int
  BY LocationsAreNumbers DEF TypeOK
<1>4. a.symbol = tok.token /\ a.offset = tok.offset /\ a.length = tok.length /\ a \in AstItems
  BY <1>2, <1>3 DEF Location, AstItems, Symbols
<1> HIDE DEF a, d
<1>5. /\ state_stack' \in Seq(States(config) \cup {NoState}) /\ Len(state_stack') = Depth + 1
      /\ state_stack'[Depth + 1] = d
      /\ \A i \in 1 .. Depth : state_stack'[i] = state_stack[i]
  BY <1>1, <1>2, <1>3, PushShape DEF Depth
<1>6. /\ ast_stack' \in Seq(AstItems) /\ Len(ast_stack') = Depth + 1
      /\ ast_stack'[Depth + 1] = a
      /\ \A i \in 1 .. Depth : ast_stack'[i] = ast_stack[i]
  BY <1>1, <1>3, <1>4, PushShape
<1>7. InputOK' /\ g' = g /\ Depth' = Depth + 1
  BY <1>1, <1>5 DEF InputOK, g, Depth
<1>8. StackInvariant'
  <2>1. CurrentState = StateBelow(Depth + 1)
    BY <1>1, StackHoldsStates DEF StackInvariant
  <2>2. Depth \in 0 .. Depth
    BY <1>3
  <2>3. LET dest == GotoItems(g, pda.items[StateBelow(Depth + 1)], a.symbol)
        IN  d \in States(config) /\ pda.items[d] = dest
    BY <1>2, <1>4, <2>1
  <2>4. \A i \in 1 .. Depth : state_stack'[i] = state_stack[i] /\ ast_stack'[i] = ast_stack[i]
    BY <1>5, <1>6
  <2> QED
    BY <1>1, <1>5, <1>6, <1>7, <2>2, <2>3, <2>4, PushKeepsStack
<1>9. TypeOK'
  <2>1. States(config)' = States(config) /\ AstItems' = AstItems
    BY <1>1, <1>7 DEF States, AstItems
  <2> QED
    BY <1>1, <1>5, <1>6, <1>7, <2>1 DEF TypeOK
<1>10. TokenInHand' /\ TokenIsAhead'
  BY <1>1 DEF TokenInHand, TokenIsAhead, InHand
<1>11. LocationsAreOrdered'
  <2>1. /\ tok.length > 0 /\ tok.offset + tok.length <= offset
        /\ \A k \in 1 .. Depth : EndOf(ast_stack[k]) <= tok.offset
    BY <1>1, <1>2 DEF TokenIsAhead
  <2>2. \A k \in 1 .. Depth : ast_stack[k].length > 0 /\ EndOf(ast_stack[k]) <= offset
    BY DEF LocationsAreOrdered
  <2>3. \A j, k \in 1 .. Depth : j < k => EndOf(ast_stack[j]) <= ast_stack[k].offset
    BY DEF LocationsAreOrdered
  <2>4. EndOf(a) = tok.offset + tok.length
    BY <1>4 DEF EndOf
  <2>5. \A k \in 1 .. Depth + 1 : k \in 1 .. Depth \/ k = Depth + 1
    BY <1>3
  <2>6. \A k \in 1 .. Depth + 1 : ast_stack'[k].length > 0 /\ EndOf(ast_stack'[k]) <= offset
    BY <1>4, <1>6, <2>1, <2>2, <2>4, <2>5
  <2>7. \A j, k \in 1 .. Depth + 1 : j < k => EndOf(ast_stack'[j]) <= ast_stack'[k].offset
    <3> SUFFICES ASSUME NEW j \in 1 .. Depth + 1, NEW k \in 1 .. Depth + 1, j < k
                 PROVE  EndOf(ast_stack'[j]) <= ast_stack'[k].offset
      OBVIOUS
    <3>1. j \in 1 .. Depth
      BY <1>3
    <3> QED
      BY <1>4, <1>6, <2>1, <2>3, <2>5, <3>1
  <2> QED
    BY <1>1, <1>7, <2>6, <2>7 DEF LocationsAreOrdered, EndOf
<1>12. NoStateIsLast' /\ FinalizeFindsTheRoot'
  <2>1. state_stack'[Depth'] # NoState
    BY <1>2, <1>5, <1>7, ConfigurationFacts
  <2> QED
    BY <1>1, <2>1 DEF NoStateIsLast, FinalizeFindsTheRoot
<1> QED
  BY <1>7, <1>8, <1>9, <1>10, <1>11, <1>12

\* The state under a handle.
LEMMA TopOfPrefix ==
    ASSUME NEW S, state_stack \in Seq(S), NEW base \in 0 .. Len(state_stack)
    PROVE  Top(SubSeq(state_stack, 1, base)) = StateBelow(base + 1)
<1> DEFINE below == SubSeq(state_stack, 1, base)
<1>1. /\ below \in Seq(S) /\ Len(below) = base
      /\ \A i \in 1 .. base : below[i] = state_stack[i]
  BY PrefixShape
<1>2. base \in Nat
  OBVIOUS
<1> HIDE DEF below
<1>3. CASE base = 0
  <2>1. below = <<>>
    BY <1>1, <1>3
  <2>2. Top(below) = 0
    BY <2>1 DEF Top
  <2> QED
    BY <1>3, <2>2 DEF StateBelow, below
<1>4. CASE base # 0
  <2>1. base \in 1 .. base /\ below # <<>> /\ base + 1 # 1 /\ (base + 1) - 1 = base
    BY <1>1, <1>2, <1>4
  <2>2. Top(below) = state_stack[base]
    BY <1>1, <2>1 DEF Top
  <2> QED
    BY <2>1, <2>2 DEF StateBelow, below
<1> QED
  BY <1>3, <1>4

\* A step of FeedReduce: production p is reduced, its right-hand side lies
\* above base, and d is the entry of the goto table.
Reduction(p, base) ==
    LET dest == GotoItems(g, pda.items[StateBelow(base + 1)], Left(g, p))
        d == pda.goto[StateBelow(base + 1)][Left(g, p)]
        a == Location(Left(g, p), ast_stack[base + 1].offset,
                      EndOf(ast_stack[Depth]))
    IN  /\ base = Depth - Len(Right(g, p))
        /\ \A i \in 1 .. Len(Right(g, p)) :
            ast_stack[base + i].symbol = Right(g, p)[i]
        /\ Left(g, p) \in Variables(g)
        /\ IsValid(tok) => /\ tok.token \in Tokens(g)
                           /\ pda.action[CurrentState][tok.token] = ReduceAction(p)
        /\ \/ d \in States(config) /\ pda.items[d] = dest
           \/ base = 0 /\ d = NoState /\ Left(g, p) = RootVariable(g) /\ dest = {}
        /\ state_stack' = Append(SubSeq(state_stack, 1, base), d)
        /\ ast_stack' = Append(SubSeq(ast_stack, 1, base), a)
        /\ pc' = IF ~IsValid(tok) /\ base = 0 /\ Left(g, p) = RootVariable(g)
                 THEN "finalize" ELSE "feed"

\* FeedReduce is such a step.
LEMMA ReduceShape ==
    ASSUME ParserInvariant, FeedReduce
    PROVE  \E p \in Productions(g), base \in 0 .. Depth - 1 : Reduction(p, base)
<1> USE DEF ParserInvariant
<1>1. CurrentState \in States(config) /\ CurrentAction.type = "reduce"
  BY DEF FeedReduce, Feeding
<1>2. PICK p \in Productions(g) :
        /\ CurrentAction = ReduceAction(p)
        /\ MayReduce(config, CurrentState, p)
        /\ IsValid(tok) => /\ tok.token \in Tokens(g)
                           /\ pda.action[CurrentState][tok.token] = ReduceAction(p)
  <2>1. \A d : ShiftAction(d).type # "reduce"
    BY DEF ShiftAction
  <2> QED
    BY <1>1, <2>1, ActionShape
<1> DEFINE n == Len(Right(g, p))
           base == Depth - n
           src == StateBelow(base + 1)
           dest == GotoItems(g, pda.items[src], Left(g, p))
           d == pda.goto[src][Left(g, p)]
           a == Location(Left(g, p), ast_stack[base + 1].offset, EndOf(ast_stack[Depth]))
<1>3. /\ n \in 1 .. Depth
      /\ \A i \in 1 .. n : ast_stack[Depth - n + i].symbol = Right(g, p)[i]
      /\ src \in States(config)
      /\ \/ dest # {}
         \/ n = Depth /\ Left(g, p) = RootVariable(g)
  BY <1>1, <1>2, HandleLiesOnTop
<1>4. /\ state_stack \in Seq(States(config) \cup {NoState}) /\ Len(state_stack) = Depth
      /\ Len(ast_stack) = Depth /\ Depth \in Nat /\ base \in 0 .. Depth - 1
      /\ Left(g, p) \in Variables(g)
  <2>1. Depth \in Nat
    BY LocationsAreNumbers
  <2>2. base \in 0 .. Depth - 1
    BY <1>3, <2>1
  <2> QED
    BY <2>1, <2>2, ProductionShape, ConfigurationFacts DEF TypeOK, Depth
<1>5. \/ d = NoState /\ dest = {}
      \/ d \in States(config) /\ pda.items[d] = dest
  BY <1>3, <1>4, ConfigurationFacts DEF ConsistentPda, g, pda
<1>6. CurrentAction.production = p
  BY <1>2 DEF ReduceAction
<1>7. Top(SubSeq(state_stack, 1, base)) = src
  BY <1>4, TopOfPrefix
<1>8. /\ state_stack' = Append(SubSeq(state_stack, 1, base), d)
      /\ ast_stack' = Append(SubSeq(ast_stack, 1, base), a)
      /\ pc' = IF ~IsValid(tok) /\ base = 0 /\ Left(g, p) = RootVariable(g)
               THEN "finalize" ELSE "feed"
  BY <1>4, <1>6, <1>7 DEF FeedReduce, GotoFrom, Folded, RootIsFolded
<1>9. /\ \A i \in 1 .. n : ast_stack[base + i].symbol = Right(g, p)[i]
      /\ \/ d \in States(config) /\ pda.items[d] = dest
         \/ base = 0 /\ d = NoState /\ Left(g, p) = RootVariable(g) /\ dest = {}
  BY <1>3, <1>4, <1>5
<1> HIDE DEF n, dest, d, a
<1>10. /\ base = Depth - Len(Right(g, p))
       /\ \A i \in 1 .. Len(Right(g, p)) : ast_stack[base + i].symbol = Right(g, p)[i]
  BY <1>9 DEF n
<1> HIDE DEF base
<1> QED
  BY <1>2, <1>4, <1>8, <1>9, <1>10 DEF dest, d, a, src, Reduction

\* A reduction keeps the invariant, whether the end of the input is consumed
\* with it or not.
LEMMA FeedReduceKeepsInvariant ==
    ASSUME ParserInvariant, FeedReduce
    PROVE  ParserInvariant'
<1> USE DEF ParserInvariant
<1>1. PICK p \in Productions(g), base \in 0 .. Depth - 1 : Reduction(p, base)
  BY ReduceShape
<1> DEFINE dest == GotoItems(g, pda.items[StateBelow(base + 1)], Left(g, p))
           d == pda.goto[StateBelow(base + 1)][Left(g, p)]
           a == Location(Left(g, p), ast_stack[base + 1].offset, EndOf(ast_stack[Depth]))
<1>2. /\ pc = "feed" /\ CurrentState \in States(config)
      /\ UNCHANGED <<config, data, loaded, offset, tok, result>>
  BY DEF FeedReduce, Feeding
<1>3. /\ d \in States(config) \cup {NoState}
      /\ state_stack' = Append(SubSeq(state_stack, 1, base), d)
      /\ ast_stack' = Append(SubSeq(ast_stack, 1, base), a)
      /\ pc' = IF ~IsValid(tok) /\ base = 0 /\ Left(g, p) = RootVariable(g)
               THEN "finalize" ELSE "feed"
  BY <1>1 DEF Reduction
<1>4. /\ state_stack \in Seq(States(config) \cup {NoState}) /\ Len(state_stack) = Depth
      /\ ast_stack \in Seq(AstItems) /\ Len(ast_stack) = Depth /\ Depth \in Nat
      /\ base \in 0 .. Depth /\ base + 1 \in 1 .. Depth /\ Depth \in 1 .. Depth
  <2>1. /\ state_stack \in Seq(States(config) \cup {NoState}) /\ Len(state_stack) = Depth
        /\ ast_stack \in Seq(AstItems) /\ Len(ast_stack) = Depth
    BY DEF TypeOK, Depth
  <2>2. Depth \in Nat
    BY LocationsAreNumbers
  <2>3. base \in 0 .. Depth /\ base + 1 \in 1 .. Depth /\ Depth \in 1 .. Depth
    BY <2>2
  <2> QED
    BY <2>1, <2>2, <2>3
<1>5. /\ a.symbol = Left(g, p) /\ a.offset = ast_stack[base + 1].offset
      /\ a.length = EndOf(ast_stack[Depth]) - a.offset
      /\ a.offset \in Int /\ a.length \in Int
      /\ EndOf(a) = EndOf(ast_stack[Depth]) /\ a \in AstItems
  <2>1. a.symbol = Left(g, p) /\ a.offset = ast_stack[base + 1].offset
        /\ a.length = EndOf(ast_stack[Depth]) - a.offset
    BY DEF Location
  <2>2. a.offset \in Int /\ EndOf(ast_stack[Depth]) \in Int
    BY <1>4, <2>1, LocationsAreNumbers
  <2>3. a \in AstItems
    BY <1>1, <2>1, <2>2 DEF Reduction, Location, AstItems, Symbols
  <2> HIDE DEF a
  <2> QED
    BY <2>1, <2>2, <2>3 DEF EndOf
<1> HIDE DEF a, d, dest
<1>6. /\ state_stack' \in Seq(States(config) \cup {NoState}) /\ Len(state_stack') = base + 1
      /\ state_stack'[base + 1] = d
      /\ \A i \in 1 .. base : state_stack'[i] = state_stack[i]
  BY <1>3, <1>4, PrefixShape, PushShape
<1>7. /\ ast_stack' \in Seq(AstItems) /\ Len(ast_stack') = base + 1
      /\ ast_stack'[base + 1] = a
      /\ \A i \in 1 .. base : ast_stack'[i] = ast_stack[i]
  BY <1>3, <1>4, <1>5, PrefixShape, PushShape
<1>8. InputOK' /\ g' = g /\ pda' = pda /\ Depth' = base + 1
  BY <1>2, <1>6 DEF InputOK, g, pda, Depth
<1>9. \/ d \in States(config) /\ pda.items[d] = dest
      \/ base = 0 /\ d = NoState /\ Left(g, p) = RootVariable(g) /\ dest = {}
  BY <1>1 DEF Reduction, d, dest
<1>10. StackInvariant'
  <2>1. \A i \in 1 .. base : /\ state_stack'[i] = state_stack[i]
                             /\ ast_stack'[i] = ast_stack[i]
    BY <1>6, <1>7
  <2>2. LET to == GotoItems(g, pda.items[StateBelow(base + 1)], a.symbol)
        IN  \/ d \in States(config) /\ pda.items[d] = to
            \/ /\ base = 0 /\ d = NoState
               /\ a.symbol = RootVariable(g) /\ to = {}
    BY <1>5, <1>9 DEF dest
  <2> QED
    BY <1>2, <1>4, <1>6, <1>7, <1>8, <2>1, <2>2, PushKeepsStack
<1>11. TypeOK'
  <2>1. States(config)' = States(config) /\ AstItems' = AstItems
    BY <1>2, <1>8 DEF States, AstItems
  <2>2. pc' \in {"feed", "finalize"}
    BY <1>3
  <2> QED
    BY <1>2, <1>6, <1>7, <1>8, <2>1, <2>2 DEF TypeOK
<1>12. TokenInHand'
  BY <1>2, <1>3 DEF TokenInHand, InHand, IsValid
<1>13. /\ \A k \in 1 .. Depth : ast_stack[k].length > 0 /\ EndOf(ast_stack[k]) <= offset
       /\ \A j, k \in 1 .. Depth : j < k => EndOf(ast_stack[j]) <= ast_stack[k].offset
  BY DEF LocationsAreOrdered
<1>14. \A k \in 1 .. base + 1 : k \in 1 .. base \/ k = base + 1
  BY <1>4
<1>15. a.length > 0
  <2>1. /\ ast_stack[base + 1].offset \in Int /\ ast_stack[base + 1].length \in Int
        /\ ast_stack[Depth].offset \in Int /\ ast_stack[Depth].length \in Int
    BY <1>4, LocationsAreNumbers
  <2>2. EndOf(ast_stack[base + 1]) = ast_stack[base + 1].offset + ast_stack[base + 1].length
    BY DEF EndOf
  <2>3. EndOf(ast_stack[Depth]) = ast_stack[Depth].offset + ast_stack[Depth].length
    BY DEF EndOf
  <2>4. ast_stack[base + 1].length > 0 /\ ast_stack[Depth].length > 0
    BY <1>4, <1>13
  <2>5. a.length = EndOf(ast_stack[Depth]) - ast_stack[base + 1].offset
    BY <1>5
  <2>6. CASE base + 1 = Depth
    BY <2>1, <2>2, <2>4, <2>5, <2>6
  <2>7. CASE base + 1 # Depth
    <3>1. base + 1 < Depth
      BY <1>4, <2>7
    <3>2. EndOf(ast_stack[base + 1]) <= ast_stack[Depth].offset
      BY <1>4, <1>13, <3>1
    <3> QED
      BY <2>1, <2>2, <2>3, <2>4, <2>5, <3>2
  <2> QED
    BY <2>6, <2>7
<1>16. LocationsAreOrdered'
  <2>1. \A k \in 1 .. base + 1 : ast_stack'[k].length > 0 /\ EndOf(ast_stack'[k]) <= offset
    <3>1. \A k \in 1 .. base : k \in 1 .. Depth
      BY <1>4
    <3>2. \A k \in 1 .. base : ast_stack'[k].length > 0 /\ EndOf(ast_stack'[k]) <= offset
      BY <1>7, <1>13, <3>1
    <3>3. EndOf(a) <= offset
      BY <1>4, <1>5, <1>13
    <3>4. ast_stack'[base + 1].length > 0 /\ EndOf(ast_stack'[base + 1]) <= offset
      BY <1>7, <1>15, <3>3
    <3> QED
      BY <1>14, <3>2, <3>4
  <2>2. \A j, k \in 1 .. base + 1 : j < k => EndOf(ast_stack'[j]) <= ast_stack'[k].offset
    <3> SUFFICES ASSUME NEW j \in 1 .. base + 1, NEW k \in 1 .. base + 1, j < k
                 PROVE  EndOf(ast_stack'[j]) <= ast_stack'[k].offset
      OBVIOUS
    <3>1. j \in 1 .. base /\ j \in 1 .. Depth /\ j < base + 1
      BY <1>4
    <3>2. EndOf(ast_stack[j]) <= ast_stack[base + 1].offset
      BY <1>4, <1>13, <3>1
    <3>3. CASE k = base + 1
      BY <1>5, <1>7, <3>1, <3>2, <3>3
    <3>4. CASE k \in 1 .. base
      <4>1. k \in 1 .. Depth
        BY <1>4, <3>4
      <4> QED
        BY <1>7, <1>13, <3>1, <3>4, <4>1
    <3> QED
      BY <1>14, <3>3, <3>4
  <2> QED
    BY <1>2, <1>8, <2>1, <2>2 DEF LocationsAreOrdered, EndOf
<1>17. TokenIsAhead'
  <2>1. (pc = "feed" /\ IsValid(tok)) =>
          /\ tok.length > 0 /\ tok.offset + tok.length <= offset
          /\ \A k \in 1 .. base + 1 : EndOf(ast_stack'[k]) <= tok.offset
    BY <1>4, <1>5, <1>7, <1>14 DEF TokenIsAhead
  <2> QED
    BY <1>2, <1>8, <2>1 DEF TokenIsAhead, EndOf, IsValid
<1>18. NoStateIsLast'
  <2> SUFFICES ASSUME d = NoState, pc' # "finalize"
               PROVE  pc' = "feed" /\ ~RootWaitsForEof(config)
    BY <1>2, <1>3, <1>4, <1>6, <1>8 DEF NoStateIsLast
  <2>1. base = 0 /\ Left(g, p) = RootVariable(g)
    BY <1>9, ConfigurationFacts
  <2>2. IsValid(tok)
    BY <1>3, <2>1
  <2>3. tok.token \in Tokens(g) /\ pda.action[CurrentState][tok.token] = ReduceAction(p)
    BY <1>1, <2>2 DEF Reduction
  <2>4. ~RootWaitsForEof(config)
    BY <1>2, <2>1, <2>3 DEF RootWaitsForEof, g, pda
  <2> QED
    BY <1>3, <2>4
<1>19. FinalizeFindsTheRoot'
  BY <1>3, <1>4, <1>5, <1>7, <1>8 DEF FinalizeFindsTheRoot
<1> QED
  BY <1>8, <1>10, <1>11, <1>12, <1>16, <1>17, <1>18, <1>19

\* The exception for a syntax error keeps the invariant.
LEMMA FeedErrorKeepsInvariant ==
    ASSUME ParserInvariant, FeedError
    PROVE  ParserInvariant'
<1>1. /\ pc = "feed" /\ pc' = "parsing error" /\ CurrentState \in States(config)
      /\ UNCHANGED <<config, data, loaded, offset, tok, state_stack, ast_stack, result>>
  BY DEF FeedError, Feeding
<1>2. InputOK' /\ TypeOK'
  BY <1>1 DEF ParserInvariant, InputOK, TypeOK, AstItems, States, Depth, g
<1>3. StackInvariant'
  BY <1>1, SameStack DEF ParserInvariant
<1>4. TokenInHand' /\ TokenIsAhead' /\ LocationsAreOrdered'
  BY <1>1 DEF ParserInvariant, TokenInHand, TokenIsAhead, LocationsAreOrdered, InHand,
              IsValid, Depth
<1>5. Depth = 1 => state_stack[1] # NoState
  <2>1. \A k \in 1 .. Depth : state_stack[k] \in States(config)
    BY <1>1, StackHoldsStates DEF ParserInvariant, StackInvariant
  <2> QED
    BY <2>1, ConfigurationFacts DEF ParserInvariant
<1>6. NoStateIsLast' /\ FinalizeFindsTheRoot'
  BY <1>1, <1>5 DEF ParserInvariant, NoStateIsLast, FinalizeFindsTheRoot, Depth
<1> QED
  BY <1>2, <1>3, <1>4, <1>6 DEF ParserInvariant

\* A state that is none aborts only after a root was folded at the bottom.
LEMMA AbortOnStateKeepsInvariant ==
    ASSUME ParserInvariant, AbortOnState
    PROVE  ParserInvariant'
<1>1. /\ pc = "feed" /\ pc' = "aborted" /\ CurrentState \notin States(config)
      /\ UNCHANGED <<config, data, loaded, offset, tok, state_stack, ast_stack, result>>
  BY DEF AbortOnState
<1>2. InputOK' /\ TypeOK'
  BY <1>1 DEF ParserInvariant, InputOK, TypeOK, AstItems, States, Depth, g
<1>3. StackInvariant'
  BY <1>1, SameStack DEF ParserInvariant
<1>4. TokenInHand' /\ TokenIsAhead' /\ LocationsAreOrdered'
  BY <1>1 DEF ParserInvariant, TokenInHand, TokenIsAhead, LocationsAreOrdered, InHand,
              IsValid, Depth
<1>5. Depth = 1 /\ state_stack[1] = NoState
  <2>1. state_stack \in Seq(States(config) \cup {NoState}) /\ Depth \in Nat
    BY LocationsAreNumbers DEF ParserInvariant, TypeOK
  <2>2. state_stack # <<>>
    BY <1>1, ConfigurationFacts DEF ParserInvariant, CurrentState, Top
  <2>3. Depth \in 1 .. Depth /\ CurrentState = state_stack[Depth]
    BY <2>1, <2>2 DEF CurrentState, Top, Depth
  <2> QED
    BY <1>1, <2>3 DEF ParserInvariant, StackInvariant, StackFollowsAutomaton
<1>6. ~RootWaitsForEof(config)
  BY <1>1, <1>5 DEF ParserInvariant, NoStateIsLast
<1>7. NoStateIsLast' /\ FinalizeFindsTheRoot'
  BY <1>1, <1>6 DEF ParserInvariant, NoStateIsLast, FinalizeFindsTheRoot, Depth
<1> QED
  BY <1>2, <1>3, <1>4, <1>7 DEF ParserInvariant

\* Finalize keeps the invariant: it leaves empty stacks.
LEMMA FinalizeKeepsInvariant ==
    ASSUME ParserInvariant, Finalize
    PROVE  ParserInvariant'
<1>1. /\ pc = "finalize" /\ pc' = "accepted" /\ state_stack' = <<>> /\ ast_stack' = <<>>
      /\ UNCHANGED <<config, data, loaded, offset, tok>>
  BY DEF Finalize
<1>2. Depth' = 0
  BY <1>1 DEF Depth
<1>3. InputOK' /\ TypeOK'
  <2>1. States(config)' = States(config) /\ AstItems' = AstItems /\ g' = g
    BY <1>1 DEF States, AstItems, g
  <2> QED
    BY <1>1, <1>2, <2>1 DEF ParserInvariant, InputOK, TypeOK
<1>4. StackInvariant' /\ LocationsAreOrdered'
  BY <1>2 DEF StackInvariant, StackFollowsAutomaton, ItemsAreSpelled, LocationsAreOrdered
<1>5. TokenInHand' /\ TokenIsAhead' /\ NoStateIsLast' /\ FinalizeFindsTheRoot'
  BY <1>1, <1>2
     DEF TokenInHand, TokenIsAhead, InHand, NoStateIsLast, FinalizeFindsTheRoot
<1> QED
  BY <1>3, <1>4, <1>5 DEF ParserInvariant

-----------------------------------------------------------------------------
(* The theorems                                                            *)

\* A well-formed call of Parse starts in the invariant.
LEMMA ParserInvariantStarts ==
    ASSUME InputOK, StartParse(config, data)
    PROVE  ParserInvariant
<1>1. /\ loaded = 0 /\ offset = 0 /\ tok = NullToken
      /\ state_stack = <<>> /\ ast_stack = <<>> /\ pc = "load"
  BY DEF StartParse
<1>2. Depth = 0 /\ Len(data) \in Nat
  BY <1>1, ConfigurationFacts DEF Depth
<1>3. TypeOK
  BY <1>1, <1>2 DEF TypeOK, NullToken
<1>4. StackInvariant /\ LocationsAreOrdered
  BY <1>2 DEF StackInvariant, StackFollowsAutomaton, ItemsAreSpelled, LocationsAreOrdered
<1>5. TokenInHand /\ TokenIsAhead /\ NoStateIsLast /\ FinalizeFindsTheRoot
  BY <1>1, <1>2 DEF TokenInHand, TokenIsAhead, InHand, NoStateIsLast, FinalizeFindsTheRoot
<1> QED
  BY <1>3, <1>4, <1>5 DEF ParserInvariant

\* Every step of Parse keeps it.
LEMMA ParserInvariantIsKept ==
    ASSUME ParserInvariant, [Next]_vars
    PROVE  ParserInvariant'
<1>1. ASSUME UNCHANGED vars PROVE ParserInvariant'
  <2>1. UNCHANGED <<config, data, loaded, offset, tok, state_stack, ast_stack, result, pc>>
    BY <1>1 DEF vars
  <2>2. StackInvariant'
    BY <2>1, SameStack DEF ParserInvariant
  <2>3. InputOK' /\ TypeOK' /\ TokenInHand' /\ TokenIsAhead'
    BY <2>1 DEF ParserInvariant, InputOK, TypeOK, AstItems, States, Depth, g, TokenInHand,
                TokenIsAhead, InHand, IsValid
  <2>4. LocationsAreOrdered' /\ NoStateIsLast' /\ FinalizeFindsTheRoot'
    BY <2>1 DEF ParserInvariant, LocationsAreOrdered, NoStateIsLast, FinalizeFindsTheRoot,
                Depth, g
  <2> QED
    BY <2>2, <2>3, <2>4 DEF ParserInvariant
<1> QED
  BY <1>1, LoadTokenKeepsInvariant, SkipTokenKeepsInvariant,
     ThrowInvalidTokenKeepsInvariant, LoadEofKeepsInvariant, FeedShiftKeepsInvariant,
     FeedReduceKeepsInvariant, FeedErrorKeepsInvariant, AbortOnStateKeepsInvariant,
     FinalizeKeepsInvariant
  DEF Next, Step

\* The invariant of the loop of Parse, for every grammar, tables and input.
THEOREM InvariantHolds == Spec => []ParserInvariant
<1>1. Init => ParserInvariant
  <2> SUFFICES ASSUME Init PROVE ParserInvariant
    OBVIOUS
  <2>1. PICK c \in Configurations : \E text \in Inputs(c.grammar) : StartParse(c, text)
    BY DEF Init
  <2>2. config = c /\ data \in Inputs(c.grammar) /\ StartParse(config, data)
    BY <2>1 DEF StartParse
  <2>3. InputOK
    BY <2>2, ConfigurationsAssumption DEF InputOK, g
  <2> QED
    BY <2>2, <2>3, ParserInvariantStarts
<1> QED
  BY <1>1, ParserInvariantIsKept, PTL DEF Spec

\* The stacks hold states, symbols and locations, and have one height.
THEOREM ParserTypes == Spec => []TypeOK
<1>1. ParserInvariant => TypeOK
  BY DEF ParserInvariant
<1> QED
  BY <1>1, InvariantHolds, PTL

\* The states on the stack are a path of the automaton over the symbols beside
\* them, whatever the interleaving of shifts and reductions.
THEOREM StackIsAPath == Spec => []StackFollowsAutomaton
<1>1. ParserInvariant => StackFollowsAutomaton
  BY DEF ParserInvariant, StackInvariant
<1> QED
  BY <1>1, InvariantHolds, PTL

\* A reduction finds the right-hand side of its production on the stacks.
LEMMA HandleLiesThere ==
    ASSUME ParserInvariant
    PROVE  HandleIsOnTop
<1> SUFFICES ASSUME Feeding("reduce")
             PROVE  LET rhs == Right(g, CurrentAction.production)
                    IN  /\ rhs # <<>> /\ Len(rhs) <= Depth
                        /\ \A i \in 1 .. Len(rhs) :
                              ast_stack[Depth - Len(rhs) + i].symbol = rhs[i]
  BY DEF HandleIsOnTop
<1>1. CurrentState \in States(config) /\ CurrentAction.type = "reduce"
  BY DEF Feeding
<1>2. \A d : ShiftAction(d).type # "reduce"
  BY DEF ShiftAction
<1>3. PICK p \in Productions(g) :
        CurrentAction = ReduceAction(p) /\ MayReduce(config, CurrentState, p)
  BY <1>1, <1>2, ActionShape DEF ParserInvariant
<1>4. CurrentAction.production = p
  BY <1>3 DEF ReduceAction
<1>5. /\ Right(g, p) # <<>>
      /\ Len(Right(g, p)) \in 1 .. Depth
      /\ \A i \in 1 .. Len(Right(g, p)) :
            ast_stack[Depth - Len(Right(g, p)) + i].symbol = Right(g, p)[i]
  BY <1>1, <1>3, HandleLiesOnTop DEF ParserInvariant, MayReduce, g
<1> QED
  BY <1>4, <1>5

\* ExecuteReduce never pops an empty stack, and gives every handle the items
\* of the production's right-hand side.
THEOREM ReductionsFindTheirHandle == Spec => []HandleIsOnTop
BY HandleLiesThere, InvariantHolds, PTL

\* With tables that reduce the root at the end only, no assertion of Parse can
\* fail.
THEOREM NoAbortWhenRootWaits == Spec => []WaitingRootNeverAborts
<1>1. ParserInvariant => WaitingRootNeverAborts
  BY DEF ParserInvariant, NoStateIsLast, WaitingRootNeverAborts
<1> QED
  BY <1>1, InvariantHolds, PTL

\* Finalize is called with the root alone on the stack.
THEOREM FinalizeIsSafe == Spec => []FinalizeFindsTheRoot
<1>1. ParserInvariant => FinalizeFindsTheRoot
  BY DEF ParserInvariant
<1> QED
  BY <1>1, InvariantHolds, PTL

\* The locations on the stack are in the order of the text and do not overlap.
THEOREM LocationsStayOrdered == Spec => []LocationsAreOrdered
<1>1. ParserInvariant => LocationsAreOrdered
  BY DEF ParserInvariant
<1> QED
  BY <1>1, InvariantHolds, PTL

-----------------------------------------------------------------------------
(* The driver implements BottomUpRecognizer                                *)

\* Before a call returns, the form is made of the symbols on the AST stack.
LEMMA FormShape ==
    ASSUME TypeOK, pc # "accepted"
    PROVE  /\ Form \in Seq(Symbols(g)) /\ Len(Form) = Depth
           /\ \A k \in 1 .. Depth : Form[k] = ast_stack[k].symbol
<1>1. ast_stack \in Seq(AstItems) /\ Len(ast_stack) = Depth
  BY DEF TypeOK
<1>2. \A x \in AstItems : x.symbol \in Symbols(g)
  BY DEF AstItems
<1>3. Form = [k \in DOMAIN ast_stack |-> ast_stack[k].symbol]
  BY DEF Form
<1> QED
  BY <1>1, <1>2, <1>3, SymbolsOf

\* The recognizer's input is made of the kinds of the lexemes.
LEMMA InputShape ==
    ASSUME InputOK
    PROVE  Len(Input) = Len(data) /\ \A k \in 1 .. Len(data) : Input[k] = data[k].token
BY ConfigurationFacts, KindsOf DEF Input

\* Loading a token is not seen; a token the driver ignores is.
LEMMA LoadingRefines ==
    ASSUME ParserInvariant, LoadToken \/ SkipToken \/ ThrowInvalidToken \/ LoadEof
    PROVE  Recognizer!Next \/ UNCHANGED Recognizer!vars
<1>1. /\ pc = "load" /\ UNCHANGED <<config, data, ast_stack, result>> /\ pc' # "accepted"
  BY DEF LoadToken, SkipToken, ThrowInvalidToken, LoadEof
<1>2. g' = g /\ Input' = Input /\ Form' = Form
  BY <1>1 DEF g, Input, Form
<1>3. Consumed = loaded /\ Verdict = "none"
  BY <1>1 DEF Consumed, InHand, Verdict, Stopped
<1>4. InputOK /\ TypeOK
  BY DEF ParserInvariant
<1>5. CASE LoadToken
  <2>1. /\ loaded < Len(data) /\ loaded' = loaded + 1 /\ pc' = "feed"
        /\ tok'.token = Lexeme.token /\ Lexeme.token \in Tokens(g)
    BY <1>5 DEF LoadToken
  <2>2. InHand'
    BY <1>4, <2>1, ConfigurationFacts DEF InHand, IsValid
  <2>3. Consumed' = Consumed
    <3>1. Consumed' = loaded' - 1
      BY <2>2 DEF Consumed
    <3>2. loaded \in Nat
      BY <1>4, <2>1, LexemeShape
    <3> QED
      BY <1>3, <2>1, <3>1, <3>2
  <2>4. Verdict' = Verdict
    BY <1>3, <2>1 DEF Verdict, Stopped
  <2> QED
    BY <1>2, <2>3, <2>4 DEF Recognizer!vars
<1>6. CASE SkipToken
  <2>1. /\ loaded < Len(data) /\ loaded' = loaded + 1 /\ pc' = "load"
        /\ Lexeme.token = Ignored
    BY <1>1, <1>6 DEF SkipToken
  <2>2. Consumed' = loaded + 1 /\ Verdict' = "none"
    BY <2>1 DEF Consumed, InHand, Verdict, Stopped
  <2>3. Consumed < Len(Input) /\ Input[Consumed + 1] = Ignored
    BY <1>3, <1>4, <2>1, LexemeShape, InputShape DEF Lexeme
  <2>4. Recognizer!Skip
    BY <1>2, <1>3, <2>2, <2>3 DEF Recognizer!Skip, Recognizer!More
  <2> QED
    BY <2>4 DEF Recognizer!Next
<1>7. CASE ThrowInvalidToken
  <2>1. /\ loaded < Len(data) /\ loaded' = loaded /\ pc' = "invalid token"
        /\ Lexeme.token = NoToken
    BY <1>7 DEF ThrowInvalidToken
  <2>2. Consumed' = loaded /\ Verdict' = "invalid token"
    BY <2>1 DEF Consumed, InHand, Verdict, Stopped
  <2>3. Consumed < Len(Input) /\ Input[Consumed + 1] = NoToken
    BY <1>3, <1>4, <2>1, LexemeShape, InputShape DEF Lexeme
  <2>4. Recognizer!RejectToken
    BY <1>2, <1>3, <2>2, <2>3 DEF Recognizer!RejectToken, Recognizer!More
  <2> QED
    BY <2>4 DEF Recognizer!Next
<1>8. CASE LoadEof
  <2>1. loaded' = loaded /\ pc' = "feed" /\ tok' = NullToken
    BY <1>8 DEF LoadEof
  <2>2. Consumed' = Consumed /\ Verdict' = Verdict
    BY <1>3, <2>1 DEF Consumed, InHand, IsValid, NullToken, Verdict, Stopped
  <2> QED
    BY <1>2, <2>2 DEF Recognizer!vars
<1> QED
  BY <1>5, <1>6, <1>7, <1>8

\* A shift is the recognizer's.
LEMMA ShiftRefines ==
    ASSUME ParserInvariant, ParserInvariant', FeedShift
    PROVE  Recognizer!Next
<1>1. /\ pc = "feed" /\ pc' = "load" /\ CurrentState \in States(config)
      /\ CurrentAction.type = "shift"
      /\ ast_stack' = Append(ast_stack,
                             Location(tok.token, tok.offset, tok.offset + tok.length))
      /\ UNCHANGED <<config, data, loaded, tok>>
  BY DEF FeedShift, Feeding
<1>2. InputOK /\ TypeOK /\ TypeOK'
  BY DEF ParserInvariant
<1>3. IsValid(tok) /\ tok.token \in Tokens(g)
  <2>1. \A p : ReduceAction(p).type # "shift"
    BY DEF ReduceAction
  <2> QED
    BY <1>1, <1>2, <2>1, ActionShape
<1>4. InHand /\ ~InHand'
  BY <1>1, <1>3 DEF InHand
<1>5. /\ Consumed = loaded - 1 /\ Consumed' = loaded
      /\ Verdict = "none" /\ Verdict' = "none"
  BY <1>1, <1>4 DEF Consumed, Verdict, Stopped
<1>6. /\ loaded \in 1 .. Len(data) /\ loaded \in Int /\ Consumed + 1 = loaded
      /\ tok.token = data[loaded].token
  <2>1. loaded >= 1 /\ tok.token = data[loaded].token
    BY <1>4 DEF ParserInvariant, TokenInHand
  <2>2. loaded \in 0 .. Len(data)
    BY <1>2 DEF TypeOK
  <2>3. Len(data) \in Nat
    BY <1>2, ConfigurationFacts
  <2> QED
    BY <1>5, <2>1, <2>2, <2>3
<1>7. Consumed < Len(Input) /\ Input[Consumed + 1] = tok.token
  BY <1>2, <1>5, <1>6, ConfigurationFacts, InputShape
<1>8. g' = g /\ Input' = Input
  BY <1>1 DEF g, Input
<1>9. Form' = Append(Form, tok.token)
  <2> DEFINE a == Location(tok.token, tok.offset, tok.offset + tok.length)
  <2>1. /\ Form \in Seq(Symbols(g)) /\ Len(Form) = Depth
        /\ \A k \in 1 .. Depth : Form[k] = ast_stack[k].symbol
    BY <1>1, <1>2, FormShape
  <2>2. ast_stack' \in Seq(AstItems) /\ \A x \in AstItems : x.symbol \in Symbols(g)
    <3>1. AstItems' = AstItems
      BY <1>8 DEF AstItems
    <3> QED
      BY <1>2, <3>1 DEF TypeOK, AstItems
  <2>3. Form' = [k \in DOMAIN ast_stack' |-> ast_stack'[k].symbol]
    BY <1>1 DEF Form
  <2>4. /\ Form' \in Seq(Symbols(g)) /\ Len(Form') = Len(ast_stack')
        /\ \A k \in 1 .. Len(ast_stack') : Form'[k] = ast_stack'[k].symbol
    BY <2>2, <2>3, SymbolsOf
  <2>5. ast_stack \in Seq(AstItems) /\ Len(ast_stack) = Depth /\ Depth \in Nat
    BY <1>2, LocationsAreNumbers DEF TypeOK
  <2>6. a.symbol = tok.token
    BY DEF Location
  <2> HIDE DEF a
  <2>7. /\ Len(ast_stack') = Depth + 1 /\ ast_stack'[Depth + 1] = a
        /\ \A i \in 1 .. Depth : ast_stack'[i] = ast_stack[i]
    BY <1>1, <2>5 DEF a
  <2>8. tok.token \in Symbols(g)
    BY <1>3 DEF Symbols
  <2>9. /\ Append(Form, tok.token) \in Seq(Symbols(g))
        /\ Len(Append(Form, tok.token)) = Depth + 1
        /\ Append(Form, tok.token)[Depth + 1] = tok.token
        /\ \A i \in 1 .. Depth : Append(Form, tok.token)[i] = Form[i]
    BY <2>1, <2>8, PushShape
  <2>10. \A i \in 1 .. Depth + 1 : Form'[i] = Append(Form, tok.token)[i]
    BY <2>1, <2>4, <2>5, <2>6, <2>7, <2>9
  <2> QED
    BY <2>4, <2>7, <2>9, <2>10, SameSequence
<1>10. Recognizer!Shift
  BY <1>3, <1>5, <1>6, <1>7, <1>8, <1>9
     DEF Recognizer!Shift, Recognizer!More, Recognizer!Tokens, Tokens
<1> QED
  BY <1>10 DEF Recognizer!Next

\* A reduction is the recognizer's, of the production the tables name.
LEMMA ReduceRefines ==
    ASSUME ParserInvariant, ParserInvariant', FeedReduce
    PROVE  Recognizer!Next
<1>1. PICK p \in Productions(g), base \in 0 .. Depth - 1 : Reduction(p, base)
  BY ReduceShape
<1> DEFINE a == Location(Left(g, p), ast_stack[base + 1].offset, EndOf(ast_stack[Depth]))
           n == Len(Right(g, p))
<1>2. /\ pc = "feed" /\ UNCHANGED <<config, data, loaded, tok>>
      /\ pc' = IF ~IsValid(tok) /\ base = 0 /\ Left(g, p) = RootVariable(g)
               THEN "finalize" ELSE "feed"
      /\ ast_stack' = Append(SubSeq(ast_stack, 1, base), a)
      /\ Left(g, p) \in Symbols(g)
  BY <1>1 DEF Reduction, FeedReduce, Feeding, Symbols
<1>3. InputOK /\ TypeOK /\ TypeOK' /\ IsGrammar(g)
  BY ConfigurationFacts DEF ParserInvariant
<1>4. g' = g /\ Input' = Input
  BY <1>2 DEF g, Input
<1>5. Consumed' = Consumed /\ Verdict = "none" /\ Verdict' = "none"
  BY <1>2 DEF Consumed, InHand, IsValid, Verdict, Stopped
<1>6. /\ Form \in Seq(Symbols(g)) /\ Len(Form) = Depth
      /\ \A k \in 1 .. Depth : Form[k] = ast_stack[k].symbol
  BY <1>2, <1>3, FormShape
<1>7. /\ ast_stack \in Seq(AstItems) /\ Len(ast_stack) = Depth /\ Depth \in Nat
      /\ Right(g, p) \in Seq(Symbols(g))
      /\ a.symbol = Left(g, p)
  BY <1>3, LocationsAreNumbers, ProductionShape DEF TypeOK, Location
<1>8. n \in Nat /\ n = Depth - base /\ base \in 0 .. Depth /\ base \in Nat
  BY <1>1, <1>7 DEF Reduction
<1>9. \A i \in 1 .. n : ast_stack[base + i].symbol = Right(g, p)[i]
  BY <1>1 DEF Reduction
<1> HIDE DEF a
<1>10. Right(g, p) = SubSeq(Form, base + 1, Len(Form))
  <2> DEFINE handle == SubSeq(Form, base + 1, Len(Form))
  <2>1. /\ handle \in Seq(Symbols(g)) /\ Len(handle) = n
        /\ \A i \in 1 .. n : handle[i] = Form[base + i]
    BY <1>6, <1>7, <1>8
  <2>2. \A i \in 1 .. n : Form[base + i] = ast_stack[base + i].symbol
    BY <1>6, <1>7, <1>8
  <2> HIDE DEF handle
  <2>3. \A i \in 1 .. n : handle[i] = Right(g, p)[i]
    BY <1>9, <2>1, <2>2
  <2>4. handle = Right(g, p)
    BY <1>7, <2>1, <2>3, SameSequence
  <2> QED
    BY <2>4 DEF handle
<1>11. Form' = Append(SubSeq(Form, 1, base), Left(g, p))
  <2> DEFINE new == Append(SubSeq(Form, 1, base), Left(g, p))
             kept == SubSeq(Form, 1, base)
  <2>1. kept \in Seq(Symbols(g)) /\ Len(kept) = base /\ \A i \in 1 .. base : kept[i] = Form[i]
    BY <1>6, <1>8, PrefixShape
  <2> HIDE DEF kept
  <2>2. /\ new \in Seq(Symbols(g)) /\ Len(new) = base + 1 /\ new[base + 1] = Left(g, p)
        /\ \A i \in 1 .. base : new[i] = Form[i]
    BY <1>2, <2>1, PushShape DEF kept
  <2>3. ast_stack' \in Seq(AstItems) /\ \A x \in AstItems : x.symbol \in Symbols(g)
    <3>1. AstItems' = AstItems
      BY <1>4 DEF AstItems
    <3> QED
      BY <1>3, <3>1 DEF TypeOK, AstItems
  <2>4. Form' = [k \in DOMAIN ast_stack' |-> ast_stack'[k].symbol]
    BY <1>2 DEF Form
  <2>5. /\ Form' \in Seq(Symbols(g)) /\ Len(Form') = Len(ast_stack')
        /\ \A k \in 1 .. Len(ast_stack') : Form'[k] = ast_stack'[k].symbol
    BY <2>3, <2>4, SymbolsOf
  <2>6. /\ Len(ast_stack') = base + 1 /\ ast_stack'[base + 1] = a
        /\ \A i \in 1 .. base : ast_stack'[i] = ast_stack[i]
    <3> DEFINE under == SubSeq(ast_stack, 1, base)
    <3>1. /\ under \in Seq(AstItems) /\ Len(under) = base
          /\ \A i \in 1 .. base : under[i] = ast_stack[i]
      BY <1>7, <1>8, PrefixShape
    <3>2. ast_stack' = Append(under, a)
      BY <1>2
    <3> HIDE DEF under
    <3> QED
      BY <3>1, <3>2
  <2> HIDE DEF new
  <2>7. \A i \in 1 .. base + 1 : i \in 1 .. base \/ i = base + 1
    BY <1>8
  <2>8. ASSUME NEW i \in 1 .. base PROVE Form'[i] = new[i]
    <3>1. i \in 1 .. base + 1 /\ i \in 1 .. Depth
      BY <1>7, <1>8
    <3>2. Form'[i] = ast_stack[i].symbol
      BY <2>5, <2>6, <3>1
    <3>3. new[i] = ast_stack[i].symbol
      BY <1>6, <2>2, <3>1
    <3> QED
      BY <3>2, <3>3
  <2>9. Form'[base + 1] = new[base + 1]
    BY <1>7, <1>8, <2>2, <2>5, <2>6
  <2>10. Form' = new
    BY <2>2, <2>5, <2>6, <2>7, <2>8, <2>9, SameSequence
  <2> QED
    BY <2>10 DEF new
<1>12. Recognizer!Reduce
  <2>1. base \in 0 .. Len(Form) /\ p \in Recognizer!Productions(g)
    BY <1>6, <1>8 DEF Recognizer!Productions, Productions
  <2>2. Recognizer!Right(g, p) = Right(g, p) /\ Recognizer!Left(g, p) = Left(g, p)
    BY DEF Recognizer!Right, Recognizer!Left, Right, Left
  <2> QED
    BY <1>4, <1>5, <1>10, <1>11, <2>1, <2>2 DEF Recognizer!Reduce
<1> QED
  BY <1>12 DEF Recognizer!Next

\* The end of a call is a verdict; a failed assertion is none.
LEMMA EndingRefines ==
    ASSUME ParserInvariant, FeedError \/ AbortOnState \/ Finalize
    PROVE  Recognizer!Next \/ UNCHANGED Recognizer!vars
<1>1. InputOK /\ TypeOK
  BY DEF ParserInvariant
<1>2. CASE FeedError
  <2>1. /\ pc = "feed" /\ pc' = "parsing error"
        /\ UNCHANGED <<config, data, loaded, tok, ast_stack>>
    BY <1>2 DEF FeedError, Feeding
  <2>2. /\ g' = g /\ Input' = Input /\ Form' = Form /\ Consumed' = Consumed
        /\ Verdict = "none" /\ Verdict' = "parsing error"
    BY <2>1 DEF g, Input, Form, Consumed, InHand, IsValid, Verdict, Stopped
  <2>3. Recognizer!RejectSyntax
    BY <2>2 DEF Recognizer!RejectSyntax
  <2> QED
    BY <2>3 DEF Recognizer!Next
<1>3. CASE AbortOnState
  <2>1. /\ pc = "feed" /\ pc' = "aborted"
        /\ UNCHANGED <<config, data, loaded, tok, ast_stack>>
    BY <1>3 DEF AbortOnState
  <2>2. /\ g' = g /\ Input' = Input /\ Form' = Form /\ Consumed' = Consumed
        /\ Verdict' = Verdict
    BY <2>1 DEF g, Input, Form, Consumed, InHand, IsValid, Verdict, Stopped
  <2> QED
    BY <2>2 DEF Recognizer!vars
<1>4. CASE Finalize
  <2>1. /\ pc = "finalize" /\ pc' = "accepted" /\ result' = ast_stack[Len(ast_stack)]
        /\ UNCHANGED <<config, data, loaded, tok>>
    BY <1>4 DEF Finalize
  <2>2. Depth = 1 /\ ast_stack[1].symbol = RootVariable(g) /\ Len(ast_stack) = 1
    BY <1>1, <2>1 DEF ParserInvariant, FinalizeFindsTheRoot, TypeOK
  <2>3. /\ g' = g /\ Input' = Input /\ Consumed = loaded /\ Consumed' = loaded
        /\ Verdict = "none" /\ Verdict' = "accepted"
    BY <2>1 DEF g, Input, Consumed, InHand, Verdict, Stopped
  <2>4. RootVariable(g) \in Symbols(g)
    BY <1>1, ConfigurationFacts, RootIsVariable DEF Symbols
  <2>5. Form = <<RootVariable(g)>>
    <3>1. /\ Form \in Seq(Symbols(g)) /\ Len(Form) = 1 /\ Form[1] = RootVariable(g)
      BY <1>1, <2>1, <2>2, FormShape
    <3>2. /\ <<RootVariable(g)>> \in Seq(Symbols(g)) /\ Len(<<RootVariable(g)>>) = 1
          /\ <<RootVariable(g)>>[1] = RootVariable(g)
      BY <2>4
    <3> QED
      BY <3>1, <3>2, SameSequence
  <2>6. Form' = <<RootVariable(g)>>
    BY <2>1, <2>2 DEF Form
  <2>7. Consumed = Len(Input)
    BY <1>1, <2>1, <2>3, InputShape DEF ParserInvariant, TokenInHand
  <2>8. Recognizer!Accept
    BY <2>3, <2>5, <2>6, <2>7
       DEF Recognizer!Accept, Recognizer!RootVariable, RootVariable
  <2> QED
    BY <2>8 DEF Recognizer!Next
<1> QED
  BY <1>2, <1>3, <1>4

\* Every step of Parse is the recognizer's, or is not seen by it.
LEMMA StepRefines ==
    ASSUME ParserInvariant, ParserInvariant', [Next]_vars
    PROVE  [Recognizer!Next]_Recognizer!vars
<1>1. UNCHANGED vars => UNCHANGED Recognizer!vars
  BY DEF vars, Recognizer!vars, g, Input, Form, Consumed, InHand, IsValid, Verdict, Stopped
<1> QED
  BY <1>1, LoadingRefines, ShiftRefines, ReduceRefines, EndingRefines DEF Next, Step

\* Parse implements the recognizer, for every grammar, tables and input: what
\* it accepts has a derivation from the root, read from left to right.
THEOREM ParseImplementsRecognizer == Spec => RefinesRecognizer
<1>1. Init => Recognizer!Init
  <2> SUFFICES ASSUME Init PROVE Recognizer!Init
    OBVIOUS
  <2>1. loaded = 0 /\ tok = NullToken /\ ast_stack = <<>> /\ pc = "load"
    BY DEF Init, StartParse
  <2>2. Form = <<>>
    BY <2>1 DEF Form
  <2>3. Consumed = 0 /\ Verdict = "none"
    BY <2>1 DEF Consumed, InHand, Verdict, Stopped
  <2> QED
    BY <2>2, <2>3 DEF Recognizer!Init
<1> QED
  BY <1>1, StepRefines, InvariantHolds, PTL DEF Spec, RefinesRecognizer, Recognizer!Spec
=============================================================================
