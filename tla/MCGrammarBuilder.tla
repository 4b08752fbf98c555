-------------------------- MODULE MCGrammarBuilder --------------------------
(* GrammarBuilder on sites with empty productions, cycles and nonterminals *)
(* that derive nothing, against the textbook definitions.                  *)
EXTENDS GrammarBuilder

P(l, r) == [lhs |-> l, rhs |-> r]

\* Two nonterminals with two productions each.
Bodies == {<<>>, <<"a">>, <<"A", "b">>, <<"B", "A">>, <<"A", "B", "b">>, <<"a", "B">>}

MCSites ==
    {[terms |-> {"a", "b"}, nonterms |-> {"A", "B"}, root |-> "B",
      productions |-> <<P("A", r1), P("A", r2), P("B", r3), P("B", r4)>>] :
        r1 \in Bodies, r2 \in Bodies, r3 \in Bodies, r4 \in Bodies}

-----------------------------------------------------------------------------
\* FOLLOW is exact for every grammar: Grammar.cc:106 describes FOLLOW as the
\* "terminals that may follow s".
FollowIsExact ==
    stage = "built" => \A s \in site.nonterms : follow[s] = T!Follow(site, s)
=============================================================================
