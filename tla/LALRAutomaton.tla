--------------------------- MODULE LALRAutomaton ----------------------------
(***************************************************************************)
(* BuildLALRAutomaton (ParserAutomaton.cc): the LR(0) automaton is built   *)
(* (module LR0Automaton), its grammar is rewritten so that every symbol    *)
(* carries the state it leads to, FIRST and FOLLOW of that grammar are     *)
(* computed (module GrammarBuilder), the FOLLOW sets are merged by the     *)
(* state a production ends in, and the reductions are registered.          *)
(*                                                                         *)
(* A failing assertion and an out-of-bounds access end the program:        *)
(* CMakeLists.txt builds with assertions on.  pc is then "aborted".        *)
(***************************************************************************)
EXTENDS Grammars

CONSTANT GrammarChoices

ASSUME GrammarChoicesAssumption == \A gr \in GrammarChoices : IsGrammar(gr)

VARIABLES grammar, states, action_map, goto_map, unprocessed, cursor, pc,
          site, first, follow, nullable, precedes_eof, growing, prod, back,
          epsilon_path, stage,
          eof_action,       \* id -> the set of the production reduced at the end
          merged_ending,    \* the located productions reduced at the end
          merged_follow,    \* located production -> tokens
          merged,           \* productions of the site merged so far
          to_visit       \* ids a running EnumerateState has still to visit

L == INSTANCE LR0Automaton
G == INSTANCE GrammarBuilder WITH Sites <- {}
Textbook == INSTANCE TextbookSets

lr0_vars == <<grammar, states, action_map, goto_map, unprocessed, cursor>>
set_vars == <<site, first, follow, nullable, precedes_eof, growing, prod, back,
              epsilon_path, stage>>
table_vars == <<eof_action, merged_ending, merged_follow, merged, to_visit>>
vars == <<lr0_vars, pc, set_vars, table_vars>>

PdaEdgeReduce(p) == [type |-> "reduce", production |-> p]

\* ParserState* nullptr, the version of the root of the extended grammar.
NoState == -1

-----------------------------------------------------------------------------
(* CreateExtendedGrammar                                                   *)

Symbol(info, version) == [info |-> info, version |-> version]
NewRoot == Symbol(RootVariable(grammar), NoState)

\* The left-hand side of a production expanded in state i.
ExtendedLeft(i, p) ==
    IF i # 0 \/ Left(grammar, p) # RootVariable(grammar)
    THEN Symbol(Left(grammar, p), L!Target(i, Left(grammar, p)))
    ELSE NewRoot

\* The states on the way from i along a word of symbols, i among them.
StatesAlong(i, rhs) ==
    LET at[k \in 0 .. Len(rhs)] == IF k = 0 THEN i ELSE L!Target(at[k - 1], rhs[k])
    IN  at

\* Every symbol of the right-hand side with the state it leads to from i.
ExtendedRight(i, p) ==
    LET rhs == Right(grammar, p)
        at == StatesAlong(i, rhs)
    IN  [k \in DOMAIN rhs |-> Symbol(rhs[k], at[k])]

\* The productions state i expands.
ExpandedIn(i) ==
    {p \in Productions(grammar) : Item(p, 0) \in ClosureItems(grammar, states[i])}

\* They, extended, in order.  (The worklist gives them in another order, and a
\* left-recursive root's twice; the sets computed from them depend on neither.)
ExtendedProductions(i) ==
    LET expanded == ExpandedIn(i)
        nth(k) == CHOOSE p \in expanded :
                    Cardinality({q \in expanded : q < p}) = k - 1
    IN  [k \in 1 .. Cardinality(expanded) |->
            LET p == nth(k)
            IN  [info |-> p, lhs |-> ExtendedLeft(i, p), rhs |-> ExtendedRight(i, p)]]

ExtendedTerms ==
    UNION {{Symbol(t, action_map[i][t].target) : t \in DOMAIN action_map[i]} : i \in L!Ids}
ExtendedNonterms ==
    {NewRoot} \cup
    UNION {{Symbol(v, goto_map[i][v]) : v \in DOMAIN goto_map[i]} : i \in L!Ids}

EmptySite == [terms |-> {}, nonterms |-> {}, productions |-> <<>>]

-----------------------------------------------------------------------------
Init ==
    /\ L!Init
    /\ G!StartBuild(EmptySite)
    /\ eof_action = <<>>
    /\ merged_ending = {}
    /\ merged_follow = <<>>
    /\ merged = 0
    /\ to_visit = {}

Bootstrap == pc = "bootstrap" /\ L!Step /\ UNCHANGED <<set_vars, table_vars>>

\* The order EnumerateState visits the states in: that of states_.
IsNext(i) ==
    /\ i \in to_visit
    /\ \A j \in to_visit \ {i} : ItemSetLess(states[i], states[j])

\* The first half of CreateExtendedGrammar: the symbols and the new root.
ExtendSymbols ==
    /\ pc = "extend"
    /\ site' = [terms |-> ExtendedTerms, nonterms |-> ExtendedNonterms,
                root |-> NewRoot, productions |-> <<>>]
    /\ first' = [s \in ExtendedNonterms |-> {}]
    /\ follow' = [s \in ExtendedNonterms |-> {}]
    /\ to_visit' = L!Ids
    /\ pc' = "extend_states"
    /\ UNCHANGED <<lr0_vars, nullable, precedes_eof, growing, prod, back, epsilon_path,
                   stage, eof_action, merged_ending, merged_follow, merged>>

\* The second half, state after state.
ExtendState ==
    /\ pc = "extend_states"
    /\ \E i \in to_visit :
        /\ IsNext(i)
        /\ site' = [site EXCEPT !.productions = @ \o ExtendedProductions(i)]
        /\ to_visit' = to_visit \ {i}
    /\ UNCHANGED <<lr0_vars, pc, first, follow, nullable, precedes_eof, growing, prod,
                   back, epsilon_path, stage, eof_action, merged_ending,
                   merged_follow, merged>>

BeginBuild ==
    /\ pc = "extend_states" /\ to_visit = {}
    /\ eof_action' = [i \in L!Ids |-> {}]
    /\ pc' = "build"
    /\ UNCHANGED <<lr0_vars, set_vars, merged_ending, merged_follow, merged, to_visit>>

\* builder.Build(new_root), pass by pass.
Build ==
    /\ pc = "build"
    /\ G!Step
    /\ pc' = IF stage' = "built" THEN "merge" ELSE "build"
    /\ UNCHANGED <<lr0_vars, table_vars>>

\* Mutant: the state of the first symbol.
Located_Front(p) == [state |-> p.rhs[1].version, prod |-> p.info]

\* Where the production ends, and which production it was.
Located(p) == [state |-> p.rhs[Len(p.rhs)].version, prod |-> p.info]

\* Mutant: the set of the last production merged stands.
MergedFollow_Last(key) == {}

\* merged_follow[key], made empty if it is not there.
MergedFollow(key) == IF key \in DOMAIN merged_follow THEN merged_follow[key] ELSE {}

MergeProduction ==
    /\ pc = "merge" /\ merged < Len(site.productions)
    /\ LET p == site.productions[merged + 1]
           key == Located(p)
       IN  /\ p.rhs # <<>>
           /\ merged_ending' =
                IF p.lhs \in precedes_eof THEN merged_ending \cup {key} ELSE merged_ending
           /\ merged_follow' =
                L!Put(merged_follow, key, MergedFollow(key) \cup {t.info : t \in follow[p.lhs]})
    /\ merged' = merged + 1
    /\ UNCHANGED <<lr0_vars, pc, set_vars, eof_action, to_visit>>

\* rhs.back() of an empty right-hand side.
MergeEmptyProduction ==
    /\ pc = "merge" /\ merged < Len(site.productions)
    /\ site.productions[merged + 1].rhs = <<>>
    /\ pc' = "aborted"
    /\ UNCHANGED <<lr0_vars, set_vars, table_vars>>

EndMerge ==
    /\ pc = "merge" /\ merged = Len(site.productions)
    /\ pc' = "register"
    /\ to_visit' = L!Ids
    /\ UNCHANGED <<lr0_vars, set_vars, eof_action, merged_ending, merged_follow, merged>>

-----------------------------------------------------------------------------
(* Registration of the reductions                                          *)

\* The productions whose finalized item is in the kernel of state i.
Finished(i) == {it.prod : it \in {x \in states[i] : IsFinalized(grammar, x)}}

AtEof(i) == {p \in Finished(i) : [state |-> i, prod |-> p] \in merged_ending}

\* Mutant: a production reduced at the end is reduced before every token.
Before_AnyIfEof(i, t) ==
    {p \in Finished(i) : \/ t \in merged_follow[[state |-> i, prod |-> p]]
                         \/ p \in AtEof(i)}

Before(i, t) == {p \in Finished(i) : t \in merged_follow[[state |-> i, prod |-> p]]}
ReduceTokens(i) == {t \in Tokens(grammar) : Before(i, t) # {}}

\* Mutants: without the assertions; a state that reduces does nothing else.
SlotsAreFree_Unchecked(i) == TRUE
SlotsAreFree_LR0(i) ==
    /\ Cardinality(Finished(i)) <= 1
    /\ Finished(i) # {} => DOMAIN action_map[i] \cup DOMAIN goto_map[i] = {}

\* The assertions of RegisterReduceOnEof and RegisterReduce: one action a slot.
SlotsAreFree(i) ==
    /\ Cardinality(AtEof(i)) <= 1
    /\ \A t \in ReduceTokens(i) :
        Cardinality(Before(i, t)) = 1 /\ t \notin DOMAIN action_map[i]

RegisterReductions ==
    /\ pc = "register"
    /\ \E i \in to_visit :
        /\ IsNext(i) /\ SlotsAreFree(i)
        /\ eof_action' = [eof_action EXCEPT ![i] = AtEof(i)]
        /\ action_map' = [action_map EXCEPT ![i] =
                [t \in DOMAIN @ \cup ReduceTokens(i) |->
                    IF t \in ReduceTokens(i)
                    THEN PdaEdgeReduce(CHOOSE p \in Before(i, t) : TRUE)
                    ELSE @[t]]]
        /\ to_visit' = to_visit \ {i}
    /\ UNCHANGED <<grammar, states, goto_map, unprocessed, cursor, pc, set_vars,
                   merged_ending, merged_follow, merged>>

RegisterConflict ==
    /\ pc = "register"
    /\ \E i \in to_visit : IsNext(i) /\ ~SlotsAreFree(i)
    /\ pc' = "aborted"
    /\ UNCHANGED <<lr0_vars, set_vars, table_vars>>

Return ==
    /\ pc = "register" /\ to_visit = {}
    /\ pc' = "done"
    /\ UNCHANGED <<lr0_vars, set_vars, table_vars>>

Step == \/ Bootstrap \/ ExtendSymbols \/ ExtendState \/ BeginBuild \/ Build
        \/ MergeProduction \/ MergeEmptyProduction \/ EndMerge
        \/ RegisterReductions \/ RegisterConflict \/ Return

Stopped == pc \in {"done", "aborted"}

Next == Step \/ (Stopped /\ UNCHANGED vars)

Spec == Init /\ [][Next]_vars

-----------------------------------------------------------------------------
Reduces(i, t, p) == t \in DOMAIN action_map[i] /\ action_map[i][t] = PdaEdgeReduce(p)

\* While the LR(0) automaton is built its queue holds each unexpanded state
\* once, in order (module LR0Automaton).
QueueIsTheUnexpandedStates == pc = "bootstrap" => L!QueueIsTheUnexpandedStates

\* All that time its edges are the gotos of the symbols tried, and the
\* assertions of RegisterShift hold.
EdgesAreTheTriedGotos == pc = "bootstrap" => L!EdgesAreTheTriedGotos

\* merged_follow.at(key) finds every finished item of a kernel: the walk from
\* the state that expands a production ends in the state that finishes it.
EveryFinishedItemIsMerged ==
    pc \in {"register", "done"} =>
        \A i \in L!Ids : \A p \in Finished(i) :
            [state |-> i, prod |-> p] \in DOMAIN merged_follow

\* The tables that come out are tables of the LR(0) automaton: edges are its
\* gotos, none is lost, and a production is reduced only where its item is
\* finished.  The parser's correctness rests on this (module GenericParser).
TablesAreConsistent ==
    pc = "done" =>
        \A i \in L!Ids :
            /\ \A s \in Symbols(grammar) :
                LET dest == GotoItems(grammar, states[i], s)
                    shifts == /\ L!HasEdge(i, s)
                              /\ \A p \in Productions(grammar) : ~Reduces(i, s, p)
                IN  IF dest = {} THEN ~shifts
                    ELSE shifts /\ states[L!Target(i, s)] = dest
            /\ \A p \in Productions(grammar) :
                (p \in eof_action[i] \/ \E t \in Tokens(grammar) : Reduces(i, t, p))
                    => p \in Finished(i)

\* The productions a derivation from the root can use, as a site.
UsedVariables ==
    LET below == UNION {{<<Left(grammar, p), Right(grammar, p)[k]>> :
                            k \in DOMAIN Right(grammar, p)} : p \in Productions(grammar)}
    IN  Textbook!ReachedBy(below, Symbols(grammar), RootVariable(grammar))

ReachableSite ==
    LET kept == {p \in Productions(grammar) : Left(grammar, p) \in UsedVariables}
    IN  [terms |-> Tokens(grammar), nonterms |-> Variables(grammar),
         root |-> RootVariable(grammar),
         productions |-> [p \in kept |-> grammar.productions[p]]]

\* The lookaheads an SLR(1) parser reduces a production at.
SLRFollow(p) == Textbook!Follow(ReachableSite, Left(grammar, p))
SLRAtEof(p) == Left(grammar, p) \in Textbook!PrecedesEof(ReachableSite)

\* No lookahead is registered that cannot follow the variable anywhere.
LookaheadsAreInFollow ==
    pc = "done" =>
        \A i \in L!Ids : \A p \in Finished(i) :
            /\ {t \in Tokens(grammar) : Reduces(i, t, p)} \subseteq SLRFollow(p)
            /\ p \in eof_action[i] => SLRAtEof(p)

\* No state has two uses for a lookahead when reductions stand at FOLLOW.
IsSLR ==
    \A i \in L!Ids :
        /\ \A p, q \in Finished(i) : p # q =>
            SLRFollow(p) \cap SLRFollow(q) = {} /\ ~(SLRAtEof(p) /\ SLRAtEof(q))
        /\ \A p \in Finished(i) : \A t \in SLRFollow(p) :
            GotoItems(grammar, states[i], t) = {}

\* The assertions of the registration fail, and rhs.back() is taken of nothing,
\* only for grammars that are not SLR(1) or have an empty production.
AbortsOnlyOutsideSLR == (pc = "aborted" /\ EpsilonFree(grammar)) => ~IsSLR
=============================================================================
