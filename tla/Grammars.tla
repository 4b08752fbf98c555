------------------------------ MODULE Grammars ------------------------------
(***************************************************************************)
(* The grammar a configuration describes, as the parser generator sees it  *)
(* after ResolveParserInfo, and the pure operators on LR items.            *)
(*                                                                         *)
(* A grammar is a record                                                   *)
(*   tokens       the TokenInfo array, in order of declaration,            *)
(*   variables    the VariableInfo array, in order of declaration,         *)
(*   productions  the ProductionInfo array; a production is the record     *)
(*                [lhs, rhs] and is named by its place in the array, which *)
(*                is also the order of its address.                        *)
(* Names stand for the SymbolInfo objects: MetaInfo.cc throws when two     *)
(* symbols have one name (RegisterSymbolInfo).                             *)
(***************************************************************************)
EXTENDS Integers, Sequences, FiniteSets

Tokens(g) == {g.tokens[i] : i \in DOMAIN g.tokens}
Variables(g) == {g.variables[i] : i \in DOMAIN g.variables}
Symbols(g) == Tokens(g) \cup Variables(g)

\* "assumes last variable is root"
RootVariable(g) == g.variables[Len(g.variables)]

Productions(g) == DOMAIN g.productions
Left(g, p) == g.productions[p].lhs
Right(g, p) == g.productions[p].rhs

\* What LoadSymbolInfo can build: names are unique, every rule has at least
\* one production, and every symbol of a right-hand side was declared.
IsGrammar(g) ==
    /\ g = [tokens |-> g.tokens, variables |-> g.variables,
            productions |-> g.productions]
    /\ g.tokens \in Seq(Tokens(g))
    /\ g.variables \in Seq(Variables(g))
    /\ Len(g.variables) >= 1
    /\ \A i, j \in DOMAIN g.tokens : g.tokens[i] = g.tokens[j] => i = j
    /\ \A i, j \in DOMAIN g.variables : g.variables[i] = g.variables[j] => i = j
    /\ Tokens(g) \cap Variables(g) = {}
    /\ g.productions \in Seq([lhs : Variables(g), rhs : Seq(Symbols(g))])
    /\ \A v \in Variables(g) : \E p \in Productions(g) : Left(g, p) = v

-----------------------------------------------------------------------------
(* LR items: class ParserItem.                                             *)

Item(p, cursor) == [prod |-> p, dot |-> cursor]

Items(g) ==
    UNION {{Item(p, d) : d \in 0 .. Len(Right(g, p))} : p \in Productions(g)}

IsFinalized(g, it) == it.dot = Len(Right(g, it.prod))

\* NextSymbol(item) == s, without the null pointer of a finalized item.
NextIs(g, it, s) == ~IsFinalized(g, it) /\ Right(g, it.prod)[it.dot + 1] = s

CreateSuccessor(it) == Item(it.prod, it.dot + 1)

\* ParserItem::Less, the order of the items in a FlatSet.
ItemLess(a, b) == a.prod < b.prod \/ (a.prod = b.prod /\ a.dot < b.dot)

\* The order of states_, a std::map on the sorted item vectors: the vectors
\* differ first at the least item that is in one set only.
ItemSetLess(a, b) ==
    \E d \in (a \ b) \cup (b \ a) :
        /\ \A e \in ((a \ b) \cup (b \ a)) \ {d} : ItemLess(d, e)
        /\ IF d \in a THEN \E e \in b : ItemLess(d, e)
                      ELSE ~\E e \in a : ItemLess(d, e)

-----------------------------------------------------------------------------
(* What EnumerateClosureItems visits.  The code finds it with a worklist   *)
(* (module ClosureWalk, which is proved to visit exactly these items); the *)
(* other modules use this definition of it.                                *)

\* The variables that stand right after the cursor of an item.
Seeds(g, kernel) == {v \in Variables(g) : \E it \in kernel : NextIs(g, it, v)}

\* The variables that begin a production of v.
Heads(g, v) ==
    {w \in Variables(g) : \E p \in Productions(g) :
        Left(g, p) = v /\ Right(g, p) # <<>> /\ Right(g, p)[1] = w}

\* Mutant: one level of expansion only.
ClosureVariables_OneLevel(g, kernel) == Seeds(g, kernel)

\* The least set of variables that holds the seeds and is closed under Heads.
ClosureVariables(g, kernel) ==
    {v \in Variables(g) : \A S \in SUBSET Variables(g) :
        (Seeds(g, kernel) \subseteq S /\ \A u \in S : Heads(g, u) \subseteq S)
            => v \in S}

Expansion(g, v) == {Item(p, 0) : p \in {q \in Productions(g) : Left(g, q) = v}}

ClosureItems(g, kernel) ==
    kernel \cup UNION {Expansion(g, v) : v \in ClosureVariables(g, kernel)}

GotoItems(g, src, s) ==
    {CreateSuccessor(it) : it \in {i \in ClosureItems(g, src) : NextIs(g, i, s)}}

InitialItems(g) == Expansion(g, RootVariable(g))

-----------------------------------------------------------------------------
\* The root is on no right-hand side.  Neither the configuration parser nor
\* MetaInfo demands it.
RootIsFresh(g) ==
    \A p \in Productions(g) : \A i \in DOMAIN Right(g, p) :
        Right(g, p)[i] # RootVariable(g)

\* No production is empty.  The configuration parser accepts empty ones.
EpsilonFree(g) == \A p \in Productions(g) : Right(g, p) # <<>>
=============================================================================
