----------------------------- MODULE TextbookLR -----------------------------
(***************************************************************************)
(* Reference definitions of the notions the generator computes, written    *)
(* from their textbook definitions and not from the code.                  *)
(***************************************************************************)
EXTENDS Grammars

\* What is reached from x, within the finite set U, by going from an element
\* to one of its successors (next is a function from U to sets) any number of
\* times: there is no need to go further than U has elements.
Reached(U, next, x) ==
    LET within[k \in 0 .. Cardinality(U)] ==
            IF k = 0 THEN {x}
            ELSE LET r == within[k - 1] IN r \cup UNION {next[y] : y \in r}
    IN  within[Cardinality(U)]

\* The symbols of word from place i on begin with prefix.
Matches(word, i, prefix) ==
    /\ i + Len(prefix) - 1 <= Len(word)
    /\ \A k \in DOMAIN prefix : word[i + k - 1] = prefix[k]

-----------------------------------------------------------------------------
(* Viable prefixes.  An item A -> d . b is valid for a word of symbols     *)
(* when a rightmost derivation from the root reaches  a A w  and  word is  *)
(* a d: the word is cut at the places where the productions of the         *)
(* variables on the way down begin.                                        *)

\* Pairs [var, at]: var is derived starting at place at of word.
Derivations(g, word) == [var : Variables(g), at : 1 .. Len(word) + 1]

\* Production p of a variable derived at place at: the variables on its right
\* that are derived where the word reaches them.
Begun(g, word, at, p) ==
    {[var |-> Right(g, p)[i], at |-> at + i - 1] :
        i \in {j \in DOMAIN Right(g, p) :
                /\ Right(g, p)[j] \in Variables(g)
                /\ Matches(word, at, SubSeq(Right(g, p), 1, j - 1))}}

DerivedAt(g, word) ==
    Reached(Derivations(g, word),
            [n \in Derivations(g, word) |->
                UNION {Begun(g, word, n.at, p) : p \in {q \in Productions(g) : Left(g, q) = n.var}}],
            [var |-> RootVariable(g), at |-> 1])

ValidItems(g, word) ==
    {it \in Items(g) : \E n \in DerivedAt(g, word) :
        /\ n.var = Left(g, it.prod)
        /\ n.at + it.dot = Len(word) + 1
        /\ Matches(word, n.at, SubSeq(Right(g, it.prod), 1, it.dot))}

-----------------------------------------------------------------------------
(* LALR(1) lookaheads by the relations of DeRemer and Pennello, on an      *)
(* LR(0) automaton given by its states ids, 0 first, and its transition    *)
(* function delta (delta[i][s] is -1 where there is none).  For grammars   *)
(* without empty productions.                                              *)

Eof == "$"

\* The state reached from state i on a word of symbols.
Path(delta, i, word) ==
    LET at[k \in 0 .. Len(word)] ==
            IF k = 0 THEN i
            ELSE LET j == at[k - 1] IN IF j = -1 THEN -1 ELSE delta[j][word[k]]
    IN  at[Len(word)]

\* Transitions on variables, and the root at the start.
VariableTransitions(g, ids, delta) ==
    {x \in [from : ids, var : Variables(g)] :
        delta[x.from][x.var] # -1 \/ (x.from = 0 /\ x.var = RootVariable(g))}

DirectRead(g, delta, x) ==
    (IF delta[x.from][x.var] = -1 THEN {}
     ELSE {t \in Tokens(g) : delta[delta[x.from][x.var]][t] # -1})
    \cup (IF x.from = 0 /\ x.var = RootVariable(g) THEN {Eof} ELSE {})

\* x includes y: x.var ends a production of y.var that begins in y.from.
Includes(g, delta, x, y) ==
    \E p \in Productions(g) :
        LET rhs == Right(g, p)
        IN  /\ Left(g, p) = y.var
            /\ rhs # <<>> /\ rhs[Len(rhs)] = x.var
            /\ Path(delta, y.from, SubSeq(rhs, 1, Len(rhs) - 1)) = x.from

FollowOfTransition(g, ids, delta, x) ==
    LET U == VariableTransitions(g, ids, delta)
    IN  UNION {DirectRead(g, delta, y) :
               y \in Reached(U, [u \in U |-> {v \in U : Includes(g, delta, u, v)}], x)}

\* The lookaheads of production p finished in state i.
Lookaheads(g, ids, delta, i, p) ==
    UNION {FollowOfTransition(g, ids, delta, x) :
           x \in {y \in VariableTransitions(g, ids, delta) :
                    y.var = Left(g, p) /\ Path(delta, y.from, Right(g, p)) = i}}

-----------------------------------------------------------------------------
(* The words of at most n tokens a grammar derives.                        *)

Joined(A, B, n) == {w \in {a \o b : a \in A, b \in B} : Len(w) <= n}

\* lang is a set of pairs [var, word].
WordsOfRhs(g, lang, rhs, n) ==
    LET Of(s) == IF s \in Tokens(g) THEN {<<s>>}
                 ELSE {x.word : x \in {y \in lang : y.var = s}}
        words[k \in 0 .. Len(rhs)] ==
            IF k = 0 THEN {<<>>}
            ELSE LET shorter == words[k - 1] IN Joined(shorter, Of(rhs[k]), n)
    IN  words[Len(rhs)]

\* By the height of the derivation tree.  The words of the height below are
\* bound by a set, so that TLC has them before it grows them.
Sentences(g, n) ==
    LET Grown(lang) ==
            UNION {{[var |-> Left(g, p), word |-> w] :
                        w \in WordsOfRhs(g, lang, Right(g, p), n)} : p \in Productions(g)}
        height[k \in 0 .. (n + 1) * Cardinality(Variables(g))] ==
            IF k = 0 THEN {} ELSE UNION {Grown(lang) : lang \in {height[k - 1]}}
    IN  {x.word : x \in {y \in height[(n + 1) * Cardinality(Variables(g))] :
                           y.var = RootVariable(g)}}
=============================================================================
