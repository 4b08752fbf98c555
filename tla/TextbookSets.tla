---------------------------- MODULE TextbookSets ----------------------------
(***************************************************************************)
(* FIRST, FOLLOW and nullability of a site (see GrammarBuilder), defined   *)
(* from derivations by way of relations between symbols: which symbol can  *)
(* begin what another derives, which can end it, and which two can stand   *)
(* side by side.  What is defined inductively is the least set closed      *)
(* under its rules.  A reference for the passes of the code.               *)
(***************************************************************************)
EXTENDS Integers, Sequences, FiniteSets

Prods(st) == {st.productions[i] : i \in DOMAIN st.productions}

SymbolsOf(st) == st.terms \cup st.nonterms

\* What is reached from s, in U, by going from the left of a pair of rel to
\* its right any number of times.
IsClosed(rel, C) == \A r \in rel : r[1] \in C => r[2] \in C

ReachedBy(rel, U, s) ==
    {t \in U : \A C \in SUBSET U : s \in C /\ IsClosed(rel, C) => t \in C}

\* The nonterminals that derive the empty word.
IsNullClosed(st, N) ==
    \A p \in Prods(st) : (\A i \in DOMAIN p.rhs : p.rhs[i] \in N) => p.lhs \in N

Nullable(st) ==
    {s \in st.nonterms : \A N \in SUBSET st.nonterms : IsNullClosed(st, N) => s \in N}

\* A symbol with one that can begin, or end, what a production makes of it.
Begins(st) ==
    LET null == Nullable(st)
    IN  UNION {{<<p.lhs, p.rhs[i]>> :
                    i \in {j \in DOMAIN p.rhs : \A k \in 1 .. (j - 1) : p.rhs[k] \in null}} :
               p \in Prods(st)}

Ends(st) ==
    LET null == Nullable(st)
    IN  UNION {{<<p.lhs, p.rhs[i]>> :
                    i \in {j \in DOMAIN p.rhs :
                            \A k \in (j + 1) .. Len(p.rhs) : p.rhs[k] \in null}} :
               p \in Prods(st)}

\* Symbols of a right-hand side that stand side by side when what is between
\* them vanishes.
Neighbours(st) ==
    LET null == Nullable(st)
        before(p, j) == {i \in 1 .. (j - 1) : \A k \in (i + 1) .. (j - 1) : p.rhs[k] \in null}
    IN  UNION {UNION {{<<p.rhs[i], p.rhs[j]>> : i \in before(p, j)} : j \in DOMAIN p.rhs} :
               p \in Prods(st)}

\* The symbols that can begin, or end, what symbol s derives.
Beginnings(st, s) == ReachedBy(Begins(st), SymbolsOf(st), s)
Endings(st, s) == ReachedBy(Ends(st), SymbolsOf(st), s)

First(st, s) == Beginnings(st, s) \cap st.terms

\* The terminals that can stand right after s in a word derived from any
\* nonterminal: s ends one of two neighbours, and the terminal begins the other.
Follow(st, s) ==
    UNION {First(st, n[2]) : n \in {m \in Neighbours(st) : s \in Endings(st, m[1])}}

\* The nonterminals that can end a word derived from the root.
PrecedesEof(st) == Endings(st, st.root) \cap st.nonterms

\* A nullable symbol between two others, after a nonterminal.
HasNullableGap(st) ==
    \E p \in Prods(st) : \E i \in 2 .. (Len(p.rhs) - 1) :
        p.rhs[i] \in Nullable(st) /\ p.rhs[i - 1] \in st.nonterms
=============================================================================
