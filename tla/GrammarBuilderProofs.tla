------------------------ MODULE GrammarBuilderProofs ------------------------
(***************************************************************************)
(* GrammarBuilder::Build computes FIRST, nullability and the end marks     *)
(* exactly, and FOLLOW exactly where no symbol that vanishes stands        *)
(* between two others, for every grammar.  At each step the sets are sound *)
(* and a pass that has changed nothing so far has left its productions     *)
(* closed; sets that are sound and closed are the least closed sets.       *)
(***************************************************************************)
EXTENDS GrammarBuilder, TLAPS

-----------------------------------------------------------------------------
(* The textbook's definitions as least closed sets.                        *)

\* A production of a site has a nonterminal on the left and symbols on the right.
LEMMA SiteProduction ==
    ASSUME NEW st, IsSite(st), NEW i \in DOMAIN st.productions
    PROVE  /\ st.productions[i].lhs \in st.nonterms
           /\ st.productions[i].rhs \in Seq(T!SymbolsOf(st))
           /\ Len(st.productions[i].rhs) \in Nat
           /\ DOMAIN st.productions[i].rhs = 1 .. Len(st.productions[i].rhs)
           /\ st.productions[i] \in T!Prods(st)
           /\ st.productions[i].lhs \in T!SymbolsOf(st)
           /\ \A k \in DOMAIN st.productions[i].rhs :
                st.productions[i].rhs[k] \in T!SymbolsOf(st)
<1> DEFINE ps == st.productions
<1>1. i \in DOMAIN ps
  OBVIOUS
<1>3. ps[i].lhs \in st.nonterms /\ ps[i].rhs \in Seq(T!SymbolsOf(st))
  BY DEF IsSite, T!SymbolsOf
<1>4. ps[i] \in T!Prods(st)
  BY <1>1 DEF T!Prods
<1> HIDE DEF ps
<1>5. /\ Len(ps[i].rhs) \in Nat /\ DOMAIN ps[i].rhs = 1 .. Len(ps[i].rhs)
      /\ \A k \in DOMAIN ps[i].rhs : ps[i].rhs[k] \in T!SymbolsOf(st)
  BY <1>3
<1>6. ps[i].lhs \in T!SymbolsOf(st)
  BY <1>3 DEF T!SymbolsOf
<1> QED
  BY <1>3, <1>4, <1>5, <1>6 DEF ps

\* Nullable is closed under the productions, and least.
LEMMA NullableIsLeast ==
    ASSUME NEW st, IsSite(st)
    PROVE  /\ T!Nullable(st) \subseteq st.nonterms
           /\ T!IsNullClosed(st, T!Nullable(st))
           /\ \A N \in SUBSET st.nonterms :
                T!IsNullClosed(st, N) => T!Nullable(st) \subseteq N
<1>1. \A p \in T!Prods(st) : p.lhs \in st.nonterms
  BY SiteProduction DEF T!Prods
<1>2. T!IsNullClosed(st, T!Nullable(st))
  <2> SUFFICES ASSUME NEW p \in T!Prods(st), \A i \in DOMAIN p.rhs : p.rhs[i] \in T!Nullable(st),
                      NEW N \in SUBSET st.nonterms, T!IsNullClosed(st, N)
               PROVE  p.lhs \in N
    BY <1>1 DEF T!IsNullClosed, T!Nullable
  <2>1. \A i \in DOMAIN p.rhs : p.rhs[i] \in N
    BY DEF T!Nullable
  <2> QED
    BY <2>1 DEF T!IsNullClosed
<1> QED
  BY <1>2 DEF T!Nullable

\* What is reached from a symbol holds it, is closed under the relation, and is
\* contained in every set that holds it and is closed.
LEMMA ReachedIsLeast ==
    ASSUME NEW rel, NEW U, NEW s \in U
    PROVE  /\ s \in T!ReachedBy(rel, U, s)
           /\ T!ReachedBy(rel, U, s) \subseteq U
           /\ \A r \in rel : r[1] \in T!ReachedBy(rel, U, s) /\ r[2] \in U
                => r[2] \in T!ReachedBy(rel, U, s)
           /\ \A C \in SUBSET U : s \in C /\ T!IsClosed(rel, C) => T!ReachedBy(rel, U, s) \subseteq C
           /\ \A t \in T!ReachedBy(rel, U, s) : T!ReachedBy(rel, U, t) \subseteq T!ReachedBy(rel, U, s)
BY DEF T!ReachedBy, T!IsClosed

\* The relations from the productions.
LEMMA BeginsEndsNeighbours ==
    ASSUME NEW st, IsSite(st), NEW i \in DOMAIN st.productions,
           NEW k \in DOMAIN st.productions[i].rhs
    PROVE  LET p == st.productions[i]
           IN  /\ (\A m \in 1 .. (k - 1) : p.rhs[m] \in T!Nullable(st))
                    => <<p.lhs, p.rhs[k]>> \in T!Begins(st)
               /\ (\A m \in (k + 1) .. Len(p.rhs) : p.rhs[m] \in T!Nullable(st))
                    => <<p.lhs, p.rhs[k]>> \in T!Ends(st)
               /\ \A j \in 1 .. (k - 1) :
                    (\A m \in (j + 1) .. (k - 1) : p.rhs[m] \in T!Nullable(st))
                        => <<p.rhs[j], p.rhs[k]>> \in T!Neighbours(st)
<1>1. st.productions[i] \in T!Prods(st)
  BY SiteProduction
<1> QED
  BY <1>1 DEF T!Begins, T!Ends, T!Neighbours

\* A symbol that can begin a right-hand side gives its FIRST to the left.
LEMMA FirstGoesUp ==
    ASSUME NEW st, IsSite(st), NEW i \in DOMAIN st.productions,
           NEW k \in DOMAIN st.productions[i].rhs,
           \A m \in 1 .. (k - 1) : st.productions[i].rhs[m] \in T!Nullable(st)
    PROVE  T!First(st, st.productions[i].rhs[k]) \subseteq T!First(st, st.productions[i].lhs)
<1> DEFINE lhs == st.productions[i].lhs
           sym == st.productions[i].rhs[k]
           U == T!SymbolsOf(st)
           rel == T!Begins(st)
<1>1. lhs \in U /\ sym \in U
  BY SiteProduction
<1>2. <<lhs, sym>> \in rel
  BY BeginsEndsNeighbours
<1> HIDE DEF lhs, sym, U, rel
<1>3. sym \in T!ReachedBy(rel, U, lhs)
  <2>1. <<lhs, sym>>[1] = lhs /\ <<lhs, sym>>[2] = sym
    OBVIOUS
  <2> QED
    BY <1>1, <1>2, <2>1, ReachedIsLeast
<1>4. T!ReachedBy(rel, U, sym) \subseteq T!ReachedBy(rel, U, lhs)
  BY <1>1, <1>3, ReachedIsLeast
<1> QED
  BY <1>4 DEF T!First, T!Beginnings, lhs, sym, U, rel

\* A terminal begins itself.
LEMMA TerminalsFirst ==
    ASSUME NEW st, NEW t \in st.terms
    PROVE  t \in T!First(st, t)
BY ReachedIsLeast DEF T!First, T!Beginnings, T!SymbolsOf

\* A symbol that can end a right-hand side ends whatever the left ends.
LEMMA EndingsGoDown ==
    ASSUME NEW st, IsSite(st), NEW i \in DOMAIN st.productions,
           NEW k \in DOMAIN st.productions[i].rhs,
           \A m \in (k + 1) .. Len(st.productions[i].rhs) :
                st.productions[i].rhs[m] \in T!Nullable(st),
           NEW x \in T!SymbolsOf(st), st.productions[i].lhs \in T!Endings(st, x)
    PROVE  st.productions[i].rhs[k] \in T!Endings(st, x)
<1> DEFINE lhs == st.productions[i].lhs
           sym == st.productions[i].rhs[k]
           U == T!SymbolsOf(st)
           rel == T!Ends(st)
<1>1. sym \in U
  BY SiteProduction
<1>2. <<lhs, sym>> \in rel
  BY BeginsEndsNeighbours
<1>3. <<lhs, sym>>[1] = lhs /\ <<lhs, sym>>[2] = sym
  OBVIOUS
<1> HIDE DEF lhs, sym, U, rel
<1>4. x \in U /\ lhs \in T!ReachedBy(rel, U, x)
  BY DEF T!Endings, lhs, U, rel
<1>5. sym \in T!ReachedBy(rel, U, x)
  BY <1>1, <1>2, <1>3, <1>4, ReachedIsLeast
<1> QED
  BY <1>5 DEF T!Endings, sym, U, rel

\* What begins a symbol can follow the symbol to its left.
LEMMA FollowOfNeighbour ==
    ASSUME NEW st, IsSite(st), NEW i \in DOMAIN st.productions,
           NEW k \in DOMAIN st.productions[i].rhs, k > 1
    PROVE  T!First(st, st.productions[i].rhs[k]) \subseteq T!Follow(st, st.productions[i].rhs[k - 1])
<1> DEFINE p == st.productions[i]
<1>1. /\ k \in 1 .. Len(p.rhs) /\ Len(p.rhs) \in Nat
      /\ p.rhs[k - 1] \in T!SymbolsOf(st)
  BY SiteProduction
<1>2. k - 1 \in 1 .. (k - 1) /\ \A m \in (k - 1 + 1) .. (k - 1) : FALSE
  BY <1>1
<1>3. <<p.rhs[k - 1], p.rhs[k]>> \in T!Neighbours(st)
  BY <1>2, BeginsEndsNeighbours
<1>4. p.rhs[k - 1] \in T!Endings(st, p.rhs[k - 1])
  BY <1>1, ReachedIsLeast DEF T!Endings
<1> HIDE DEF p
<1>5. T!First(st, p.rhs[k]) \subseteq T!Follow(st, p.rhs[k - 1])
  BY <1>3, <1>4 DEF T!Follow
<1> QED
  BY <1>5 DEF p

\* Neighbours are symbols.
LEMMA NeighboursAreSymbols ==
    ASSUME NEW st, IsSite(st), NEW n \in T!Neighbours(st)
    PROVE  \E i \in DOMAIN st.productions :
            LET p == st.productions[i]
            IN  \E k \in DOMAIN p.rhs : \E j \in 1 .. (k - 1) :
                    /\ n = <<p.rhs[j], p.rhs[k]>>
                    /\ \A m \in (j + 1) .. (k - 1) : p.rhs[m] \in T!Nullable(st)
                    /\ n[1] \in T!SymbolsOf(st) /\ n[2] \in T!SymbolsOf(st)
<1>1. PICK p \in T!Prods(st) : \E k \in DOMAIN p.rhs : \E j \in 1 .. (k - 1) :
            /\ n = <<p.rhs[j], p.rhs[k]>>
            /\ \A m \in (j + 1) .. (k - 1) : p.rhs[m] \in T!Nullable(st)
  BY DEF T!Neighbours
<1>2. PICK i \in DOMAIN st.productions : p = st.productions[i]
  BY DEF T!Prods
<1>3. p.rhs \in Seq(T!SymbolsOf(st)) /\ Len(p.rhs) \in Nat /\ DOMAIN p.rhs = 1 .. Len(p.rhs)
  BY <1>2, SiteProduction
<1>4. \A k \in DOMAIN p.rhs : \A j \in 1 .. (k - 1) : j \in DOMAIN p.rhs
  BY <1>3
<1> QED
  BY <1>1, <1>2, <1>3, <1>4

\* At the end of a right-hand side a symbol is followed by what follows the left.
LEMMA FollowGoesDown ==
    ASSUME NEW st, IsSite(st), NEW i \in DOMAIN st.productions,
           NEW k \in DOMAIN st.productions[i].rhs,
           \A m \in (k + 1) .. Len(st.productions[i].rhs) :
                st.productions[i].rhs[m] \in T!Nullable(st)
    PROVE  T!Follow(st, st.productions[i].lhs) \subseteq T!Follow(st, st.productions[i].rhs[k])
<1> SUFFICES ASSUME NEW n \in T!Neighbours(st),
                    st.productions[i].lhs \in T!Endings(st, n[1])
             PROVE  st.productions[i].rhs[k] \in T!Endings(st, n[1])
  BY DEF T!Follow
<1>1. n[1] \in T!SymbolsOf(st)
  BY NeighboursAreSymbols
<1> QED
  BY <1>1, EndingsGoDown

-----------------------------------------------------------------------------
(* The inductive invariant.                                                *)

Productions == site.productions
LhsOf(i) == Productions[i].lhs
RhsOf(i) == Productions[i].rhs

\* The sets, and the place in hand, which lies in the production in hand.
SetTypes ==
    /\ IsSite(site)
    /\ first \in [site.nonterms -> SUBSET site.terms]
    /\ follow \in [site.nonterms -> SUBSET site.terms]
    /\ nullable \subseteq site.nonterms
    /\ precedes_eof \subseteq site.nonterms

FlagTypes == growing \in BOOLEAN /\ epsilon_path \in BOOLEAN

LoopTypes ==
    /\ prod \in 1 .. (Len(Productions) + 1)
    /\ back \in Nat
    /\ stage \in {"first", "follow", "built"}
    /\ IF stage = "follow" /\ prod <= Len(Productions) THEN back <= Len(RhsOf(prod))
       ELSE back = 0 /\ epsilon_path = TRUE

BuilderTypes == SetTypes /\ FlagTypes /\ LoopTypes

\* Nothing is in a set that the definitions do not put there.
SetsAreSound ==
    /\ nullable \subseteq T!Nullable(site)
    /\ \A s \in site.nonterms : first[s] \subseteq T!First(site, s)
    /\ \A s \in site.nonterms : follow[s] \subseteq T!Follow(site, s)
    /\ precedes_eof \subseteq T!PrecedesEof(site)

\* Production i adds nothing to FIRST and nullability.
FirstIsClosedAt(i) ==
    /\ \A k \in Reached(RhsOf(i)) : FirstOf(RhsOf(i)[k]) \subseteq first[LhsOf(i)]
    /\ (\A k \in DOMAIN RhsOf(i) : RhsOf(i)[k] \in nullable) => LhsOf(i) \in nullable

\* In a pass that has changed nothing the productions visited add nothing, and
\* after the last pass none does.
FirstIsClosed ==
    /\ stage = "first" /\ ~growing => \A i \in 1 .. (prod - 1) : FirstIsClosedAt(i)
    /\ stage # "first" => \A i \in 1 .. Len(Productions) : FirstIsClosedAt(i)

\* The symbols to the right of place k of production i can vanish.
CanEnd(i, k) == \A m \in (k + 1) .. Len(RhsOf(i)) : RhsOf(i)[m] \in nullable

\* epsilon_path speaks of the symbols done.
PathIsRight ==
    stage = "follow" /\ prod <= Len(Productions) =>
        (epsilon_path <=> CanEnd(prod, Len(RhsOf(prod)) - back))

\* Place k of production i adds nothing to FOLLOW and the end marks.
FollowIsClosedAt(i, k) ==
    /\ k > 1 /\ RhsOf(i)[k - 1] \in site.nonterms =>
            FirstOf(RhsOf(i)[k]) \subseteq follow[RhsOf(i)[k - 1]]
    /\ RhsOf(i)[k] \in site.nonterms /\ CanEnd(i, k) =>
            /\ follow[LhsOf(i)] \subseteq follow[RhsOf(i)[k]]
            /\ LhsOf(i) \in precedes_eof => RhsOf(i)[k] \in precedes_eof

\* As FirstIsClosed, for the second loop, within a right-hand side too.
FollowIsClosed ==
    /\ stage # "first" => site.root \in precedes_eof
    /\ stage = "follow" /\ ~growing =>
        /\ \A i \in 1 .. (prod - 1) : \A k \in 1 .. Len(RhsOf(i)) : FollowIsClosedAt(i, k)
        /\ prod <= Len(Productions) =>
            \A k \in (Len(RhsOf(prod)) - back + 1) .. Len(RhsOf(prod)) : FollowIsClosedAt(prod, k)
    /\ stage = "built" =>
        \A i \in 1 .. Len(Productions) : \A k \in 1 .. Len(RhsOf(i)) : FollowIsClosedAt(i, k)

BuilderInvariant ==
    BuilderTypes /\ SetsAreSound /\ FirstIsClosed /\ PathIsRight /\ FollowIsClosed

-----------------------------------------------------------------------------
(* Sets that are closed hold what the definitions put in them.             *)

\* The production in hand, in the terms of the definitions.
LEMMA PlaceShape ==
    ASSUME IsSite(site), NEW i \in 1 .. Len(Productions)
    PROVE  /\ i \in DOMAIN Productions
           /\ LhsOf(i) \in site.nonterms
           /\ Len(RhsOf(i)) \in Nat
           /\ DOMAIN RhsOf(i) = 1 .. Len(RhsOf(i))
           /\ Productions[i] \in T!Prods(site)
           /\ \A k \in 1 .. Len(RhsOf(i)) : RhsOf(i)[k] \in site.terms \cup site.nonterms
<1>1. i \in DOMAIN Productions
  BY DEF IsSite, Productions
<1>2. Productions = site.productions
  BY DEF Productions
<1> QED
  BY <1>1, <1>2, SiteProduction DEF LhsOf, RhsOf, T!SymbolsOf

\* Every production is one of the places.
LEMMA EveryPlace ==
    ASSUME IsSite(site), NEW p \in T!Prods(site)
    PROVE  \E i \in 1 .. Len(Productions) : p = Productions[i]
BY DEF IsSite, Productions, T!Prods

\* Sets closed under every production hold all that FIRST and nullability define,
\* for these are least.
LEMMA FirstIsComplete ==
    ASSUME BuilderTypes, \A i \in 1 .. Len(Productions) : FirstIsClosedAt(i)
    PROVE  /\ T!Nullable(site) \subseteq nullable
           /\ \A s \in site.nonterms : T!First(site, s) \subseteq first[s]
<1>1. T!Nullable(site) \subseteq nullable
  <2>1. T!IsNullClosed(site, nullable)
    <3> SUFFICES ASSUME NEW p \in T!Prods(site), \A k \in DOMAIN p.rhs : p.rhs[k] \in nullable
                 PROVE  p.lhs \in nullable
      BY DEF T!IsNullClosed
    <3>1. PICK i \in 1 .. Len(Productions) : p = Productions[i]
      BY EveryPlace DEF BuilderTypes, SetTypes, FlagTypes, LoopTypes
    <3> QED
      BY <3>1 DEF FirstIsClosedAt, LhsOf, RhsOf
  <2> QED
    BY <2>1, NullableIsLeast DEF BuilderTypes, SetTypes, FlagTypes, LoopTypes
<1>2. ASSUME NEW s \in site.nonterms PROVE T!First(site, s) \subseteq first[s]
  <2> DEFINE U == T!SymbolsOf(site)
             C == {x \in U : FirstOf(x) \subseteq first[s]}
  <2>1. s \in C
    BY DEF FirstOf, T!SymbolsOf, BuilderTypes, SetTypes, FlagTypes, LoopTypes, IsSite
  <2>2. T!IsClosed(T!Begins(site), C)
    <3> SUFFICES ASSUME NEW r \in T!Begins(site), r[1] \in C PROVE r[2] \in C
      BY DEF T!IsClosed
    <3> PICK p \in T!Prods(site) : \E k \in DOMAIN p.rhs :
            r = <<p.lhs, p.rhs[k]>> /\ \A m \in 1 .. (k - 1) : p.rhs[m] \in T!Nullable(site)
      BY DEF T!Begins
    <3>1. PICK k \in DOMAIN p.rhs :
            r = <<p.lhs, p.rhs[k]>> /\ \A m \in 1 .. (k - 1) : p.rhs[m] \in T!Nullable(site)
      OBVIOUS
    <3>2. PICK i \in 1 .. Len(Productions) : p = Productions[i]
      BY EveryPlace DEF BuilderTypes, SetTypes, FlagTypes, LoopTypes
    <3>3. p.rhs = RhsOf(i) /\ p.lhs = LhsOf(i)
      BY <3>2 DEF RhsOf, LhsOf
    <3>4. LhsOf(i) \in site.nonterms /\ r[2] \in U
      BY <3>1, <3>3, PlaceShape DEF BuilderTypes, SetTypes, FlagTypes, LoopTypes, T!SymbolsOf
    <3>5. first[LhsOf(i)] \subseteq first[s]
      BY <3>1, <3>3, <3>4 DEF FirstOf, BuilderTypes, SetTypes, FlagTypes, LoopTypes, IsSite
    <3>6. k \in Reached(RhsOf(i))
      BY <1>1, <3>1, <3>3 DEF Reached
    <3>7. FirstOf(RhsOf(i)[k]) \subseteq first[LhsOf(i)]
      BY <3>6 DEF FirstIsClosedAt
    <3> QED
      BY <3>1, <3>3, <3>4, <3>5, <3>7
  <2>3. s \in U
    BY DEF T!SymbolsOf
  <2>4. C \in SUBSET U
    OBVIOUS
  <2> HIDE DEF C, U
  <2>5. T!ReachedBy(T!Begins(site), U, s) \subseteq C
    BY <2>1, <2>2, <2>3, <2>4, ReachedIsLeast
  <2>6. \A t \in site.terms : t \in C => t \in first[s]
    BY DEF C, FirstOf
  <2> QED
    BY <2>5, <2>6 DEF T!First, T!Beginnings, U
<1> QED
  BY <1>1, <1>2

\* And so the marks at the end and FOLLOW; FOLLOW only where no symbol that
\* vanishes stands between two others, for the code looks one place to the left.
LEMMA FollowIsComplete ==
    ASSUME BuilderTypes, SetsAreSound,
           \A i \in 1 .. Len(Productions) : FirstIsClosedAt(i),
           site.root \in precedes_eof,
           \A i \in 1 .. Len(Productions) : \A k \in 1 .. Len(RhsOf(i)) : FollowIsClosedAt(i, k)
    PROVE  /\ T!PrecedesEof(site) \subseteq precedes_eof
           /\ \/ T!HasNullableGap(site)
              \/ \A s \in site.nonterms : T!Follow(site, s) \subseteq follow[s]
<1> DEFINE U == T!SymbolsOf(site)
<1>1. /\ T!Nullable(site) \subseteq nullable
      /\ \A s \in site.nonterms : T!First(site, s) \subseteq first[s]
  BY FirstIsComplete
<1>2. ASSUME NEW r \in T!Ends(site)
      PROVE  \E i \in 1 .. Len(Productions) : \E k \in 1 .. Len(RhsOf(i)) :
                r = <<LhsOf(i), RhsOf(i)[k]>> /\ CanEnd(i, k) /\ r[2] \in U
  <2> PICK p \in T!Prods(site) : \E k \in DOMAIN p.rhs :
            r = <<p.lhs, p.rhs[k]>> /\ \A m \in (k + 1) .. Len(p.rhs) : p.rhs[m] \in T!Nullable(site)
    BY DEF T!Ends
  <2>1. PICK k \in DOMAIN p.rhs :
            r = <<p.lhs, p.rhs[k]>> /\ \A m \in (k + 1) .. Len(p.rhs) : p.rhs[m] \in T!Nullable(site)
    OBVIOUS
  <2>2. PICK i \in 1 .. Len(Productions) : p = Productions[i]
    BY EveryPlace DEF BuilderTypes, SetTypes, FlagTypes, LoopTypes
  <2>3. p.rhs = RhsOf(i) /\ p.lhs = LhsOf(i)
    BY <2>2 DEF RhsOf, LhsOf
  <2>4. k \in 1 .. Len(RhsOf(i)) /\ RhsOf(i)[k] \in U
    BY <2>1, <2>3, PlaceShape DEF BuilderTypes, SetTypes, FlagTypes, LoopTypes, T!SymbolsOf
  <2> QED
    BY <1>1, <2>1, <2>3, <2>4 DEF CanEnd
<1>3. T!PrecedesEof(site) \subseteq precedes_eof
  <2> DEFINE C == {x \in U : x \in site.nonterms => x \in precedes_eof}
  <2>1. T!IsClosed(T!Ends(site), C)
    <3> SUFFICES ASSUME NEW r \in T!Ends(site), r[1] \in C PROVE r[2] \in C
      BY DEF T!IsClosed
    <3>1. PICK i \in 1 .. Len(Productions) : \E k \in 1 .. Len(RhsOf(i)) :
                r = <<LhsOf(i), RhsOf(i)[k]>> /\ CanEnd(i, k) /\ r[2] \in U
      BY <1>2
    <3>2. LhsOf(i) \in site.nonterms
      BY PlaceShape DEF BuilderTypes, SetTypes, FlagTypes, LoopTypes
    <3> QED
      BY <3>1, <3>2 DEF FollowIsClosedAt
  <2>2. site.root \in U /\ site.root \in C
    BY DEF BuilderTypes, SetTypes, FlagTypes, LoopTypes, IsSite, T!SymbolsOf
  <2>3. C \in SUBSET U
    OBVIOUS
  <2> HIDE DEF C, U
  <2>4. T!ReachedBy(T!Ends(site), U, site.root) \subseteq C
    BY <2>1, <2>2, <2>3, ReachedIsLeast
  <2> QED
    BY <2>4 DEF C, U, T!PrecedesEof, T!Endings
<1>4. ASSUME ~T!HasNullableGap(site), NEW s \in site.nonterms
      PROVE  T!Follow(site, s) \subseteq follow[s]
  <2> SUFFICES ASSUME NEW n \in T!Neighbours(site), s \in T!Endings(site, n[1])
               PROVE  T!First(site, n[2]) \subseteq follow[s]
    BY DEF T!Follow
  <2>1. PICK i \in DOMAIN site.productions : \E k \in DOMAIN RhsOf(i) : \E j \in 1 .. (k - 1) :
            /\ n = <<RhsOf(i)[j], RhsOf(i)[k]>>
            /\ \A m \in (j + 1) .. (k - 1) : RhsOf(i)[m] \in T!Nullable(site)
            /\ n[1] \in U /\ n[2] \in U
    BY NeighboursAreSymbols DEF BuilderTypes, SetTypes, FlagTypes, LoopTypes, RhsOf, Productions
  <2>2. i \in 1 .. Len(Productions)
    BY DEF BuilderTypes, SetTypes, FlagTypes, LoopTypes, IsSite, Productions
  <2> PICK k \in 1 .. Len(RhsOf(i)) : \E j \in 1 .. (k - 1) :
            /\ n[1] = RhsOf(i)[j] /\ n[2] = RhsOf(i)[k]
            /\ \A m \in (j + 1) .. (k - 1) : RhsOf(i)[m] \in T!Nullable(site)
            /\ n[1] \in U /\ n[2] \in U
    <3>1. DOMAIN RhsOf(i) = 1 .. Len(RhsOf(i))
      BY <2>2, PlaceShape DEF BuilderTypes, SetTypes
    <3> QED
      BY <2>1, <3>1
  <2>3. PICK j \in 1 .. (k - 1) :
            /\ n[1] = RhsOf(i)[j] /\ n[2] = RhsOf(i)[k]
            /\ \A m \in (j + 1) .. (k - 1) : RhsOf(i)[m] \in T!Nullable(site)
            /\ n[1] \in U /\ n[2] \in U
    OBVIOUS
  <2>4. n[1] \in site.nonterms
    <3> SUFFICES ASSUME n[1] \notin site.nonterms PROVE FALSE
      OBVIOUS
    <3>1. T!IsClosed(T!Ends(site), {n[1]})
      <4> SUFFICES ASSUME NEW r \in T!Ends(site), r[1] = n[1] PROVE FALSE
        BY DEF T!IsClosed
      <4>1. r[1] \in site.nonterms
        BY <1>2, PlaceShape DEF BuilderTypes, SetTypes, FlagTypes, LoopTypes
      <4> QED
        BY <4>1
    <3>2. s = n[1]
      BY <2>3, <3>1, ReachedIsLeast DEF T!Endings
    <3> QED
      BY <3>2
  <2>5. j = k - 1
    <3> SUFFICES ASSUME j # k - 1 PROVE FALSE
      OBVIOUS
    <3>1. /\ j + 1 \in 2 .. (Len(RhsOf(i)) - 1)
          /\ RhsOf(i)[j + 1] \in T!Nullable(site)
          /\ j + 1 - 1 = j
      BY <2>2, <2>3, PlaceShape DEF BuilderTypes, SetTypes, FlagTypes, LoopTypes
    <3>2. Productions[i] \in T!Prods(site)
      BY <2>2, PlaceShape DEF BuilderTypes, SetTypes, FlagTypes, LoopTypes
    <3> QED
      <4> DEFINE p == Productions[i]
      <4>1. p.rhs = RhsOf(i)
        BY DEF RhsOf
      <4>2. /\ p \in T!Prods(site) /\ j + 1 \in 2 .. (Len(p.rhs) - 1)
            /\ p.rhs[j + 1] \in T!Nullable(site) /\ p.rhs[j + 1 - 1] \in site.nonterms
        BY <2>3, <2>4, <3>1, <3>2, <4>1
      <4> HIDE DEF p
      <4> QED
        BY <1>4, <4>2 DEF T!HasNullableGap
  <2>6. FirstOf(n[2]) \subseteq follow[n[1]]
    <3>1. k > 1 /\ n[1] = RhsOf(i)[k - 1] /\ FollowIsClosedAt(i, k)
      BY <2>2, <2>3, <2>5
    <3> QED
      BY <2>3, <2>4, <3>1 DEF FollowIsClosedAt
  <2>7. T!First(site, n[2]) \subseteq FirstOf(n[2])
    <3>1. CASE n[2] \in site.nonterms
      BY <1>1, <3>1 DEF FirstOf, BuilderTypes, SetTypes, FlagTypes, LoopTypes, IsSite
    <3>2. CASE n[2] \notin site.nonterms
      <4>1. T!IsClosed(T!Begins(site), {n[2]})
        <5> SUFFICES ASSUME NEW r \in T!Begins(site), r[1] = n[2] PROVE FALSE
          BY DEF T!IsClosed
        <5>1. PICK p \in T!Prods(site) : r[1] = p.lhs
          BY DEF T!Begins
        <5> QED
          BY <3>2, <5>1, EveryPlace, PlaceShape DEF BuilderTypes, SetTypes, FlagTypes, LoopTypes, LhsOf
      <4>2. T!First(site, n[2]) \subseteq {n[2]}
        BY <2>3, <4>1, ReachedIsLeast DEF T!First, T!Beginnings
      <4> QED
        BY <2>3, <3>2, <4>2 DEF FirstOf, T!SymbolsOf
    <3> QED
      BY <3>1, <3>2
  <2>8. follow[n[1]] \subseteq follow[s]
    <3> DEFINE C == {x \in U : x \in site.nonterms => follow[n[1]] \subseteq follow[x]}
    <3>1. T!IsClosed(T!Ends(site), C)
      <4> SUFFICES ASSUME NEW r \in T!Ends(site), r[1] \in C PROVE r[2] \in C
        BY DEF T!IsClosed
      <4> PICK i1 \in 1 .. Len(Productions) : \E k1 \in 1 .. Len(RhsOf(i1)) :
                r = <<LhsOf(i1), RhsOf(i1)[k1]>> /\ CanEnd(i1, k1) /\ r[2] \in U
        BY <1>2
      <4>1. PICK k1 \in 1 .. Len(RhsOf(i1)) :
                r = <<LhsOf(i1), RhsOf(i1)[k1]>> /\ CanEnd(i1, k1) /\ r[2] \in U
        OBVIOUS
      <4>2. LhsOf(i1) \in site.nonterms /\ r[1] = LhsOf(i1) /\ r[2] = RhsOf(i1)[k1]
        BY <4>1, PlaceShape DEF BuilderTypes, SetTypes, FlagTypes, LoopTypes
      <4>3. follow[n[1]] \subseteq follow[LhsOf(i1)]
        BY <4>2
      <4>4. r[2] \in site.nonterms => follow[LhsOf(i1)] \subseteq follow[r[2]]
        BY <4>1, <4>2 DEF FollowIsClosedAt
      <4> QED
        BY <4>1, <4>3, <4>4
    <3>2. n[1] \in C /\ C \in SUBSET U
      BY <2>3
    <3> HIDE DEF C, U
    <3>3. T!ReachedBy(T!Ends(site), U, n[1]) \subseteq C
      BY <2>3, <3>1, <3>2, ReachedIsLeast
    <3> QED
      BY <3>3 DEF C, U, T!Endings
  <2> QED
    BY <2>6, <2>7, <2>8
<1> QED
  BY <1>3, <1>4

-----------------------------------------------------------------------------
(* Every step keeps the invariant.                                         *)

\* What TryInsertFIRST inserts are terminals that begin the symbol.
LEMMA FirstOfIsSound ==
    ASSUME BuilderTypes, SetsAreSound, NEW s \in site.terms \cup site.nonterms
    PROVE  FirstOf(s) \subseteq site.terms /\ FirstOf(s) \subseteq T!First(site, s)
<1>1. CASE s \in site.terms
  BY <1>1, TerminalsFirst DEF FirstOf
<1>2. CASE s \in site.nonterms
  BY <1>2 DEF FirstOf, BuilderTypes, SetTypes, FlagTypes, LoopTypes, IsSite, SetsAreSound
<1> QED
  BY <1>1, <1>2

\* Build starts with empty sets, at the first production.
LEMMA BuildStarts ==
    ASSUME NEW st, IsSite(st), StartBuild(st)
    PROVE  BuilderInvariant
<1>1. site = st /\ prod = 1 /\ stage = "first" /\ back = 0 /\ epsilon_path = TRUE
  BY DEF StartBuild
<1>2. Len(Productions) \in Nat
  BY <1>1 DEF IsSite, Productions
<1>3. BuilderTypes
  <2>1. SetTypes
    BY <1>1 DEF StartBuild, SetTypes
  <2>2. LoopTypes
    BY <1>1, <1>2 DEF StartBuild, LoopTypes
  <2>3. FlagTypes
    BY <1>1 DEF StartBuild, FlagTypes
  <2> QED
    BY <2>1, <2>2, <2>3 DEF BuilderTypes
<1>4. SetsAreSound
  BY <1>1 DEF StartBuild, SetsAreSound
<1>5. FirstIsClosed /\ PathIsRight /\ FollowIsClosed
  BY <1>1 DEF FirstIsClosed, PathIsRight, FollowIsClosed
<1> QED
  BY <1>3, <1>4, <1>5 DEF BuilderInvariant

\* ComputeFirstSet at one production: what is added is sound, and if nothing is
\* added the production is closed.
LEMMA FirstOfProductionKeeps ==
    ASSUME BuilderInvariant, FirstOfProduction
    PROVE  BuilderInvariant'
<1> DEFINE lhs == LhsOf(prod)
           rhs == RhsOf(prod)
           gained == UNION {FirstOf(rhs[k]) : k \in Reached(rhs)}
           vanishes == \A k \in DOMAIN rhs : rhs[k] \in nullable
<1>1. /\ BuilderTypes /\ SetsAreSound /\ FirstIsClosed
      /\ stage = "first" /\ prod \in 1 .. Len(Productions) /\ Len(Productions) \in Nat
  BY DEF BuilderInvariant, FirstOfProduction, BuilderTypes, SetTypes, FlagTypes, LoopTypes, Productions, IsSite
<1>2. /\ Production = Productions[prod] /\ Production.lhs = lhs /\ Production.rhs = rhs
  BY DEF Production, LhsOf, RhsOf, Productions
<1>3. /\ first' = [first EXCEPT ![lhs] = @ \cup gained]
      /\ nullable' = IF vanishes THEN nullable \cup {lhs} ELSE nullable
      /\ growing' = (growing \/ ~(gained \subseteq first[lhs]) \/ (vanishes /\ lhs \notin nullable))
      /\ prod' = prod + 1
      /\ UNCHANGED <<site, follow, precedes_eof, back, epsilon_path, stage>>
  BY <1>2 DEF FirstOfProduction
<1>4. /\ prod \in DOMAIN Productions /\ lhs \in site.nonterms
      /\ Len(rhs) \in Nat /\ DOMAIN rhs = 1 .. Len(rhs)
      /\ \A k \in DOMAIN rhs : rhs[k] \in site.terms \cup site.nonterms
      /\ Productions[prod] \in T!Prods(site)
  BY <1>1, PlaceShape DEF BuilderTypes, SetTypes, FlagTypes, LoopTypes
<1>5. gained \subseteq site.terms /\ gained \subseteq T!First(site, lhs)
  <2> SUFFICES ASSUME NEW k \in Reached(rhs)
               PROVE  FirstOf(rhs[k]) \subseteq site.terms /\ FirstOf(rhs[k]) \subseteq T!First(site, lhs)
    OBVIOUS
  <2>1. /\ k \in DOMAIN rhs /\ rhs[k] \in site.terms \cup site.nonterms
        /\ \A m \in 1 .. (k - 1) : rhs[m] \in T!Nullable(site)
    BY <1>1, <1>4 DEF Reached, SetsAreSound
  <2>2. T!First(site, rhs[k]) \subseteq T!First(site, lhs)
    BY <1>1, <1>4, <2>1, FirstGoesUp DEF BuilderTypes, SetTypes, FlagTypes, LoopTypes, LhsOf, RhsOf, Productions
  <2> QED
    BY <1>1, <2>1, <2>2, FirstOfIsSound
<1>6. vanishes => lhs \in T!Nullable(site)
  <2> SUFFICES ASSUME vanishes PROVE lhs \in T!Nullable(site)
    OBVIOUS
  <2>1. \A k \in DOMAIN Productions[prod].rhs : Productions[prod].rhs[k] \in T!Nullable(site)
    BY <1>1 DEF SetsAreSound, RhsOf
  <2>2. T!IsNullClosed(site, T!Nullable(site))
    BY <1>1, NullableIsLeast DEF BuilderTypes, SetTypes, FlagTypes, LoopTypes
  <2> QED
    BY <1>4, <2>1, <2>2 DEF T!IsNullClosed, LhsOf
<1>7. \A i \in 1 .. Len(Productions) : i < prod + 1 => i \in 1 .. (prod - 1) \/ i = prod
  BY <1>1
<1> HIDE DEF lhs, rhs, gained, vanishes
<1>8. ASSUME ~growing'
      PROVE  first' = first /\ nullable' = nullable /\ FirstIsClosedAt(prod) /\ ~growing
  <2>1. gained \subseteq first[lhs] /\ (vanishes => lhs \in nullable) /\ ~growing
    BY <1>3, <1>8
  <2>2. first' = first /\ nullable' = nullable
    BY <1>1, <1>3, <1>4, <2>1 DEF BuilderTypes, SetTypes, FlagTypes, LoopTypes
  <2> QED
    BY <2>1, <2>2 DEF FirstIsClosedAt, lhs, rhs, gained, vanishes
<1>9. BuilderTypes'
  BY <1>1, <1>3, <1>4, <1>5 DEF BuilderTypes, SetTypes, FlagTypes, LoopTypes, Productions
<1>10. SetsAreSound'
  BY <1>1, <1>3, <1>4, <1>5, <1>6 DEF SetsAreSound, BuilderTypes, SetTypes, FlagTypes, LoopTypes
<1>11. FirstIsClosed'
  <2> SUFFICES ASSUME ~growing', NEW i \in 1 .. prod PROVE FirstIsClosedAt(i)'
    BY <1>1, <1>3 DEF FirstIsClosed, BuilderTypes, SetTypes, FlagTypes, LoopTypes
  <2>1. FirstIsClosedAt(i)
    BY <1>1, <1>7, <1>8 DEF FirstIsClosed
  <2> QED
    BY <1>3, <1>8, <2>1 DEF FirstIsClosedAt, Reached, FirstOf, LhsOf, RhsOf, Productions
<1> QED
  BY <1>1, <1>3, <1>9, <1>10, <1>11 DEF BuilderInvariant, PathIsRight, FollowIsClosed

\* A pass that changed nothing has closed every production, and ComputeFollowSet
\* starts with the root marked.
LEMMA EndFirstPassKeeps ==
    ASSUME BuilderInvariant, EndFirstPass
    PROVE  BuilderInvariant'
<1>1. /\ BuilderTypes /\ SetsAreSound /\ FirstIsClosed
      /\ stage = "first" /\ prod = Len(Productions) + 1 /\ Len(Productions) \in Nat
      /\ growing' = FALSE /\ prod' = 1
      /\ UNCHANGED <<site, first, follow, nullable, back, epsilon_path>>
  BY DEF BuilderInvariant, EndFirstPass, BuilderTypes, SetTypes, FlagTypes, LoopTypes, Productions, IsSite
<1>2. Productions' = Productions
  BY <1>1 DEF Productions
<1>3. CASE growing
  <2>1. UNCHANGED <<precedes_eof, stage>> /\ back = 0 /\ epsilon_path = TRUE
    BY <1>1, <1>3 DEF EndFirstPass, BuilderTypes, LoopTypes
  <2>2. SetTypes'
    BY <1>1, <2>1 DEF BuilderTypes, SetTypes
  <2>3. FlagTypes' /\ LoopTypes'
    <3>1. FlagTypes'
      BY <1>1, <2>1 DEF BuilderTypes, FlagTypes
    <3>2. LoopTypes'
      BY <1>1, <1>2, <2>1 DEF BuilderTypes, LoopTypes
    <3> QED
      BY <3>1, <3>2
  <2>4. SetsAreSound'
    BY <1>1, <2>1 DEF SetsAreSound
  <2>5. FirstIsClosed' /\ PathIsRight' /\ FollowIsClosed'
    BY <1>1, <2>1 DEF FirstIsClosed, PathIsRight, FollowIsClosed
  <2> QED
    BY <2>2, <2>3, <2>4, <2>5 DEF BuilderInvariant, BuilderTypes
<1>4. CASE ~growing
  <2>1. precedes_eof' = {site.root} /\ stage' = "follow"
    BY <1>4 DEF EndFirstPass
  <2>2. back = 0 /\ epsilon_path = TRUE
    BY <1>1 DEF BuilderTypes, LoopTypes
  <2>3. \A i \in 1 .. Len(Productions) : Len(RhsOf(i)) \in Nat
    BY <1>1, PlaceShape DEF BuilderTypes, SetTypes
  <2>4. site.root \in T!PrecedesEof(site) /\ site.root \in site.nonterms
    BY <1>1, ReachedIsLeast
       DEF BuilderTypes, SetTypes, IsSite, T!PrecedesEof, T!Endings, T!SymbolsOf
  <2>5. SetTypes'
    BY <1>1, <2>1, <2>4 DEF BuilderTypes, SetTypes
  <2>6. FlagTypes' /\ LoopTypes'
    <3>1. IF 1 <= Len(Productions) THEN 0 <= Len(RhsOf(1)) ELSE TRUE
      BY <1>1, <2>3
    <3>2. FlagTypes'
      BY <1>1 DEF BuilderTypes, FlagTypes
    <3>3. LoopTypes'
      BY <1>1, <1>2, <2>1, <2>2, <3>1 DEF LoopTypes, RhsOf
    <3> QED
      BY <3>2, <3>3
  <2>7. SetsAreSound'
    BY <1>1, <2>1, <2>4 DEF SetsAreSound
  <2>8. FirstIsClosed'
    <3> SUFFICES ASSUME NEW i \in 1 .. Len(Productions) PROVE FirstIsClosedAt(i)'
      BY <1>2, <2>1 DEF FirstIsClosed
    <3>1. FirstIsClosedAt(i)
      BY <1>1, <1>4 DEF FirstIsClosed
    <3> QED
      BY <1>1, <1>2, <3>1 DEF FirstIsClosedAt, Reached, FirstOf, LhsOf, RhsOf
  <2>9. PathIsRight' /\ FollowIsClosed'
    BY <1>1, <1>2, <2>1, <2>2, <2>3 DEF PathIsRight, FollowIsClosed, CanEnd, RhsOf
  <2> QED
    BY <2>5, <2>6, <2>7, <2>8, <2>9 DEF BuilderInvariant, BuilderTypes
<1> QED
  BY <1>3, <1>4

\* ComputeFollowSet at one symbol: what the neighbour and the last symbols gain
\* is sound, and if nothing is gained this place is closed.
LEMMA FollowOfSymbolKeeps ==
    ASSUME BuilderInvariant, FollowOfSymbol
    PROVE  BuilderInvariant'
<1> DEFINE lhs == LhsOf(prod)
           rhs == RhsOf(prod)
           here == Len(rhs) - back
           current == rhs[here]
           left == rhs[here - 1]
           looked == IF here > 1 /\ left \in site.nonterms
                     THEN Gain(follow, left, FirstOf(current)) ELSE follow
           ends == epsilon_path /\ current \in site.nonterms
           eofs == IF ends /\ lhs \in precedes_eof THEN {current} ELSE {}
<1>1. /\ BuilderTypes /\ SetsAreSound /\ FirstIsClosed /\ PathIsRight /\ FollowIsClosed
      /\ stage = "follow" /\ prod \in 1 .. Len(Productions) /\ Len(Productions) \in Nat
  BY DEF BuilderInvariant, FollowOfSymbol, BuilderTypes, SetTypes, LoopTypes, Productions, IsSite
<1>2. /\ Production = Productions[prod] /\ Production.lhs = lhs /\ Production.rhs = rhs
  BY DEF Production, LhsOf, RhsOf, Productions
<1>3. /\ follow' = IF ends THEN Gain(looked, current, looked[lhs]) ELSE looked
      /\ precedes_eof' = precedes_eof \cup eofs
      /\ epsilon_path' = (ends /\ current \in nullable)
      /\ growing' = (growing \/ follow' # follow \/ precedes_eof' # precedes_eof)
      /\ back' = back + 1 /\ back < Len(rhs)
      /\ UNCHANGED <<site, first, nullable, prod, stage>>
  BY <1>2 DEF FollowOfSymbol
<1>4. /\ prod \in DOMAIN Productions /\ lhs \in site.nonterms
      /\ Len(rhs) \in Nat /\ DOMAIN rhs = 1 .. Len(rhs)
      /\ \A k \in 1 .. Len(rhs) : rhs[k] \in site.terms \cup site.nonterms
  BY <1>1, PlaceShape DEF BuilderTypes, SetTypes
<1>5. /\ here \in 1 .. Len(rhs) /\ here \in DOMAIN rhs /\ here \in Nat /\ back \in Nat
      /\ current \in site.terms \cup site.nonterms
      /\ Len(rhs) - (back + 1) = here - 1
  BY <1>1, <1>3, <1>4 DEF BuilderTypes, LoopTypes
<1>6. epsilon_path <=> CanEnd(prod, here)
  BY <1>1 DEF PathIsRight
<1>7. /\ FirstOf(current) \subseteq site.terms
      /\ FirstOf(current) \subseteq T!First(site, current)
  BY <1>1, <1>5, FirstOfIsSound
<1>8. Productions' = Productions
  BY <1>3 DEF Productions
<1>9. /\ looked \in [site.nonterms -> SUBSET site.terms]
      /\ \A s \in site.nonterms : follow[s] \subseteq looked[s]
      /\ here > 1 /\ left \in site.nonterms => FirstOf(current) \subseteq looked[left]
  BY <1>1, <1>7 DEF Gain, BuilderTypes, SetTypes
<1>10. \A s \in site.nonterms : looked[s] \subseteq T!Follow(site, s)
  <2>1. here > 1 => T!First(site, current) \subseteq T!Follow(site, left)
    BY <1>1, <1>4, <1>5, FollowOfNeighbour DEF BuilderTypes, SetTypes, RhsOf, Productions
  <2> HIDE DEF current, left, here
  <2> QED
    BY <1>1, <1>7, <2>1 DEF Gain, BuilderTypes, SetTypes, SetsAreSound
<1> HIDE DEF looked
<1>11. /\ follow' \in [site.nonterms -> SUBSET site.terms]
       /\ \A s \in site.nonterms : looked[s] \subseteq follow'[s]
       /\ ends => looked[lhs] \subseteq follow'[current]
  BY <1>3, <1>4, <1>9 DEF Gain
<1>12. \A s \in site.nonterms : follow'[s] \subseteq T!Follow(site, s)
  <2>1. ends => T!Follow(site, lhs) \subseteq T!Follow(site, current)
    <3> SUFFICES ASSUME ends PROVE T!Follow(site, lhs) \subseteq T!Follow(site, current)
      OBVIOUS
    <3>1. \A m \in (here + 1) .. Len(rhs) : rhs[m] \in T!Nullable(site)
      BY <1>1, <1>6 DEF CanEnd, SetsAreSound
    <3> QED
      BY <1>1, <1>4, <1>5, <3>1, FollowGoesDown DEF BuilderTypes, SetTypes, RhsOf, LhsOf, Productions
  <2> HIDE DEF current, lhs
  <2> QED
    BY <1>3, <1>4, <1>9, <1>10, <2>1 DEF Gain
<1>13. precedes_eof' \subseteq T!PrecedesEof(site) /\ precedes_eof' \subseteq site.nonterms
  <2>1. eofs \subseteq T!PrecedesEof(site) /\ eofs \subseteq site.nonterms
    <3> SUFFICES ASSUME ends, lhs \in precedes_eof PROVE current \in T!PrecedesEof(site)
      BY DEF T!PrecedesEof
    <3>1. \A m \in (here + 1) .. Len(rhs) : rhs[m] \in T!Nullable(site)
      BY <1>1, <1>6 DEF CanEnd, SetsAreSound
    <3>2. lhs \in T!Endings(site, site.root) /\ site.root \in T!SymbolsOf(site)
      BY <1>1 DEF SetsAreSound, T!PrecedesEof, BuilderTypes, SetTypes, IsSite, T!SymbolsOf
    <3>3. current \in T!Endings(site, site.root)
      BY <1>1, <1>4, <1>5, <3>1, <3>2, EndingsGoDown
         DEF BuilderTypes, SetTypes, RhsOf, LhsOf, Productions
    <3> QED
      BY <3>3 DEF T!PrecedesEof
  <2> QED
    BY <1>1, <1>3, <2>1 DEF SetsAreSound, BuilderTypes, SetTypes
<1>14. ASSUME ~growing'
       PROVE  /\ follow' = follow /\ precedes_eof' = precedes_eof /\ ~growing
              /\ FollowIsClosedAt(prod, here)
  <2>1. follow' = follow /\ precedes_eof' = precedes_eof /\ ~growing
    BY <1>3, <1>14
  <2>2. here > 1 /\ left \in site.nonterms => FirstOf(current) \subseteq follow[left]
    BY <1>9, <1>11, <2>1
  <2>3. ends => /\ follow[lhs] \subseteq follow[current]
                /\ lhs \in precedes_eof => current \in precedes_eof
    BY <1>3, <1>4, <1>9, <1>11, <2>1
  <2> QED
    BY <1>6, <2>1, <2>2, <2>3 DEF FollowIsClosedAt
<1>15. BuilderTypes'
  <2>1. SetTypes'
    BY <1>1, <1>3, <1>11, <1>13 DEF BuilderTypes, SetTypes
  <2>2. FlagTypes'
    BY <1>3 DEF FlagTypes
  <2>3. LoopTypes'
    BY <1>1, <1>3, <1>4, <1>8, <1>5 DEF BuilderTypes, LoopTypes, RhsOf
  <2> QED
    BY <2>1, <2>2, <2>3 DEF BuilderTypes
<1>16. SetsAreSound'
  BY <1>1, <1>3, <1>12, <1>13 DEF SetsAreSound
<1>17. FirstIsClosed'
  <2> SUFFICES ASSUME NEW i \in 1 .. Len(Productions) PROVE FirstIsClosedAt(i)'
    BY <1>1, <1>3, <1>8 DEF FirstIsClosed
  <2>1. FirstIsClosedAt(i)
    BY <1>1 DEF FirstIsClosed
  <2> QED
    BY <1>3, <1>8, <2>1 DEF FirstIsClosedAt, Reached, FirstOf, LhsOf, RhsOf
<1>18. PathIsRight'
  <2>1. CanEnd(prod, here - 1) <=> CanEnd(prod, here) /\ current \in nullable
    <3>1. here - 1 + 1 = here /\ (\A m \in here .. Len(rhs) : m = here \/ m \in (here + 1) .. Len(rhs))
      BY <1>4, <1>5
    <3>2. (here + 1) .. Len(rhs) \subseteq here .. Len(rhs) /\ here \in here .. Len(rhs)
      BY <1>4, <1>5
    <3> HIDE DEF here
    <3> QED
      BY <3>1, <3>2 DEF CanEnd
  <2>2. epsilon_path' <=> CanEnd(prod, here - 1)
    BY <1>1, <1>3, <1>6, <2>1 DEF BuilderTypes, SetTypes
  <2>3. (RhsOf(prod))' = RhsOf(prod) /\ \A k : CanEnd(prod, k)' <=> CanEnd(prod, k)
    BY <1>3, <1>8 DEF CanEnd, RhsOf
  <2>4. (Len(RhsOf(prod)) - back)' = here - 1
    BY <1>3, <1>5, <2>3
  <2> QED
    BY <1>3, <2>2, <2>3, <2>4 DEF PathIsRight
<1>19. FollowIsClosed'
  <2>1. (site.root \in precedes_eof)'
    BY <1>1, <1>3 DEF FollowIsClosed
  <2>2. ASSUME ~growing', NEW i, NEW k, FollowIsClosedAt(i, k) PROVE FollowIsClosedAt(i, k)'
    BY <1>3, <1>8, <1>14, <2>2 DEF FollowIsClosedAt, CanEnd, LhsOf, RhsOf, FirstOf
  <2>3. ASSUME ~growing', NEW i \in 1 .. (prod - 1), NEW k \in 1 .. Len(RhsOf(i))
        PROVE  FollowIsClosedAt(i, k)'
    BY <1>1, <1>14, <2>2, <2>3 DEF FollowIsClosed
  <2>4. ASSUME ~growing', NEW k \in here .. Len(RhsOf(prod)) PROVE FollowIsClosedAt(prod, k)'
    <3>1. \A a, n \in Nat : \A x \in a .. n : x = a \/ x \in (a + 1) .. n
      OBVIOUS
    <3>2. here \in Nat /\ Len(RhsOf(prod)) \in Nat
      BY <1>4, <1>5
    <3>3. FollowIsClosedAt(prod, here)
      BY <1>14, <2>4
    <3>4. k \in (here + 1) .. Len(RhsOf(prod)) => FollowIsClosedAt(prod, k)
      BY <1>1, <1>14, <2>4 DEF FollowIsClosed
    <3> HIDE DEF here
    <3>5. FollowIsClosedAt(prod, k)
      BY <3>1, <3>2, <3>3, <3>4
    <3> QED
      BY <1>3, <1>8, <1>14, <2>4, <3>5 DEF FollowIsClosedAt, CanEnd, LhsOf, RhsOf, FirstOf
  <2>5. Len(RhsOf(prod)) - back' + 1 = here
    BY <1>3, <1>4, <1>5
  <2>6. \A i : RhsOf(i)' = RhsOf(i)
    BY <1>8 DEF RhsOf
  <2> HIDE DEF here
  <2> QED
    BY <1>1, <1>3, <1>8, <2>1, <2>3, <2>4, <2>5, <2>6 DEF FollowIsClosed
<1> QED
  BY <1>15, <1>16, <1>17, <1>18, <1>19 DEF BuilderInvariant

\* All places of a production are done: on to the next, the path vanishing again.
LEMMA EndFollowProductionKeeps ==
    ASSUME BuilderInvariant, EndFollowProduction
    PROVE  BuilderInvariant'
<1>1. /\ BuilderTypes /\ SetsAreSound /\ FirstIsClosed /\ PathIsRight /\ FollowIsClosed
      /\ stage = "follow" /\ prod \in 1 .. Len(Productions) /\ Len(Productions) \in Nat
      /\ back = Len(RhsOf(prod))
      /\ prod' = prod + 1 /\ back' = 0 /\ epsilon_path' = TRUE
      /\ UNCHANGED <<site, first, follow, nullable, precedes_eof, growing, stage>>
  BY DEF BuilderInvariant, EndFollowProduction, BuilderTypes, SetTypes, LoopTypes,
         Production, Productions, RhsOf, sets, IsSite
<1>2. Productions' = Productions
  BY <1>1 DEF Productions
<1>3. \A i \in 1 .. Len(Productions) : Len(RhsOf(i)) \in Nat
  BY <1>1, PlaceShape DEF BuilderTypes, SetTypes
<1>4. BuilderTypes'
  <2>1. SetTypes'
    BY <1>1 DEF BuilderTypes, SetTypes
  <2>2. FlagTypes'
    BY <1>1 DEF BuilderTypes, FlagTypes
  <2>3. prod' <= Len(Productions) => Len(Productions[prod'].rhs) \in Nat
    BY <1>1, <1>3 DEF RhsOf
  <2>4. LoopTypes'
    BY <1>1, <1>2, <2>3 DEF BuilderTypes, LoopTypes, RhsOf
  <2> QED
    BY <2>1, <2>2, <2>4 DEF BuilderTypes
<1>5. SetsAreSound'
  BY <1>1 DEF SetsAreSound
<1>6. FirstIsClosed'
  <2> SUFFICES ASSUME NEW i \in 1 .. Len(Productions) PROVE FirstIsClosedAt(i)'
    BY <1>1, <1>2 DEF FirstIsClosed
  <2> QED
    BY <1>1, <1>2 DEF FirstIsClosed, FirstIsClosedAt, Reached, FirstOf, LhsOf, RhsOf
<1>7. PathIsRight'
  <2> SUFFICES ASSUME prod' <= Len(Productions)
               PROVE  \A m \in (Len(Productions[prod'].rhs) - 0 + 1) .. Len(Productions[prod'].rhs) : FALSE
    BY <1>1, <1>2 DEF PathIsRight, CanEnd, RhsOf
  <2>1. Len(Productions[prod'].rhs) \in Nat
    BY <1>1, <1>3 DEF RhsOf
  <2> QED
    BY <2>1
<1>8. FollowIsClosed'
  <2>1. ASSUME ~growing, NEW i \in 1 .. prod, NEW k \in 1 .. Len(RhsOf(i))
        PROVE  FollowIsClosedAt(i, k)'
    <3>1. FollowIsClosedAt(i, k)
      <4>1. CASE i \in 1 .. (prod - 1)
        BY <1>1, <2>1, <4>1 DEF FollowIsClosed
      <4>2. CASE i = prod
        <5>1. Len(RhsOf(prod)) - back + 1 = 1
          BY <1>1, <1>3
        <5> QED
          BY <1>1, <2>1, <4>2, <5>1 DEF FollowIsClosed
      <4> QED
        BY <1>1, <4>1, <4>2
    <3> QED
      BY <1>1, <1>2, <3>1 DEF FollowIsClosedAt, CanEnd, LhsOf, RhsOf, FirstOf
  <2>2. \A i : RhsOf(i)' = RhsOf(i)
    BY <1>2 DEF RhsOf
  <2>3. (prod - 1)' = prod
    BY <1>1
  <2>4. (site.root \in precedes_eof)'
    BY <1>1 DEF FollowIsClosed
  <2>5. prod' <= Len(Productions) =>
            \A k \in (Len(Productions[prod'].rhs) - 0 + 1) .. Len(Productions[prod'].rhs) : FALSE
    <3> SUFFICES ASSUME prod' <= Len(Productions) PROVE Len(Productions[prod'].rhs) \in Nat
      OBVIOUS
    <3> QED
      BY <1>1, <1>3 DEF RhsOf
  <2> QED
    BY <1>1, <1>2, <2>1, <2>2, <2>3, <2>4, <2>5 DEF FollowIsClosed, RhsOf
<1> QED
  BY <1>4, <1>5, <1>6, <1>7, <1>8 DEF BuilderInvariant

\* A pass that changed nothing has closed every place of every production.
LEMMA EndFollowPassKeeps ==
    ASSUME BuilderInvariant, EndFollowPass
    PROVE  BuilderInvariant'
<1>1. /\ BuilderTypes /\ SetsAreSound /\ FirstIsClosed /\ PathIsRight /\ FollowIsClosed
      /\ stage = "follow" /\ prod = Len(Productions) + 1 /\ Len(Productions) \in Nat
      /\ back = 0 /\ epsilon_path = TRUE
      /\ stage' = (IF growing THEN "follow" ELSE "built")
      /\ growing' = FALSE /\ prod' = 1
      /\ UNCHANGED <<site, first, follow, nullable, precedes_eof, back, epsilon_path>>
  BY DEF BuilderInvariant, EndFollowPass, BuilderTypes, SetTypes, LoopTypes,
         Productions, sets, IsSite
<1>2. Productions' = Productions
  BY <1>1 DEF Productions
<1>3. \A i \in 1 .. Len(Productions) : Len(RhsOf(i)) \in Nat
  BY <1>1, PlaceShape DEF BuilderTypes, SetTypes
<1>4. BuilderTypes'
  <2>1. SetTypes'
    BY <1>1 DEF BuilderTypes, SetTypes
  <2>2. FlagTypes'
    BY <1>1 DEF BuilderTypes, FlagTypes
  <2>3. 1 <= Len(Productions) => 0 <= Len(RhsOf(1))
    BY <1>1, <1>3
  <2>4. LoopTypes'
    BY <1>1, <1>2, <2>3 DEF LoopTypes, RhsOf
  <2> QED
    BY <2>1, <2>2, <2>4 DEF BuilderTypes
<1>5. SetsAreSound'
  BY <1>1 DEF SetsAreSound
<1>6. FirstIsClosed'
  <2> SUFFICES ASSUME NEW i \in 1 .. Len(Productions) PROVE FirstIsClosedAt(i)'
    BY <1>1, <1>2 DEF FirstIsClosed
  <2> QED
    BY <1>1, <1>2 DEF FirstIsClosed, FirstIsClosedAt, Reached, FirstOf, LhsOf, RhsOf
<1>7. PathIsRight'
  BY <1>1, <1>2, <1>3 DEF PathIsRight, CanEnd, RhsOf
<1>8. FollowIsClosed'
  <2>1. ASSUME ~growing, NEW i \in 1 .. Len(Productions), NEW k \in 1 .. Len(RhsOf(i))
        PROVE  FollowIsClosedAt(i, k)'
    <3>1. FollowIsClosedAt(i, k)
      BY <1>1, <2>1 DEF FollowIsClosed
    <3> QED
      BY <1>1, <1>2, <3>1 DEF FollowIsClosedAt, CanEnd, LhsOf, RhsOf, FirstOf
  <2>2. (site.root \in precedes_eof)'
    BY <1>1 DEF FollowIsClosed
  <2> QED
    BY <1>1, <1>2, <1>3, <2>1, <2>2 DEF FollowIsClosed, RhsOf
<1> QED
  BY <1>4, <1>5, <1>6, <1>7, <1>8 DEF BuilderInvariant

\* One lemma for every step of Build.
LEMMA BuildStepKeeps == BuilderInvariant /\ Step => BuilderInvariant'
BY FirstOfProductionKeeps, EndFirstPassKeeps, FollowOfSymbolKeeps,
   EndFollowProductionKeeps, EndFollowPassKeeps DEF Step

\* The invariant speaks of the builder's own variables.
LEMMA BuilderStutters ==
    ASSUME BuilderInvariant, UNCHANGED vars
    PROVE  BuilderInvariant'
<1> USE DEF vars
<1>1. BuilderTypes' <=> BuilderTypes
  BY DEF BuilderTypes, SetTypes, FlagTypes, LoopTypes, RhsOf, Productions
<1>2. SetsAreSound' <=> SetsAreSound
  BY DEF SetsAreSound
<1>3. FirstIsClosed' <=> FirstIsClosed
  BY DEF FirstIsClosed, FirstIsClosedAt, Reached, FirstOf, LhsOf, RhsOf, Productions
<1>4. PathIsRight' <=> PathIsRight
  BY DEF PathIsRight, CanEnd, RhsOf, Productions
<1>5. FollowIsClosed' <=> FollowIsClosed
  BY DEF FollowIsClosed, FollowIsClosedAt, CanEnd, FirstOf, LhsOf, RhsOf, Productions
<1> QED
  BY <1>1, <1>2, <1>3, <1>4, <1>5 DEF BuilderInvariant

-----------------------------------------------------------------------------
(* The theorems.                                                           *)

\* What the invariant says of the sets.
LEMMA InvariantIsExact ==
    ASSUME BuilderInvariant
    PROVE  FirstIsExact /\ EofAndFollowAreExact
<1>1. BuilderTypes /\ SetsAreSound /\ FirstIsClosed /\ FollowIsClosed
  BY DEF BuilderInvariant
<1>2. FirstIsExact
  BY <1>1, FirstIsComplete DEF FirstIsClosed, SetsAreSound, FirstIsExact
<1>3. stage = "built" =>
        /\ T!PrecedesEof(site) \subseteq precedes_eof
        /\ \/ T!HasNullableGap(site)
           \/ \A s \in site.nonterms : T!Follow(site, s) \subseteq follow[s]
  BY <1>1, FollowIsComplete DEF FirstIsClosed, FollowIsClosed
<1> QED
  BY <1>1, <1>2, <1>3 DEF SetsAreSound, EofAndFollowAreExact

\* Build keeps its sets sound, and the passes that changed nothing closed.
THEOREM BuilderInvariantHolds == Spec => []BuilderInvariant
<1>1. Init => BuilderInvariant
  BY BuildStarts, SitesAssumption DEF Init
<1>2. BuilderInvariant /\ [Next]_vars => BuilderInvariant'
  <2> SUFFICES ASSUME BuilderInvariant, [Next]_vars PROVE BuilderInvariant'
    OBVIOUS
  <2>1. CASE Step
    BY <2>1, BuildStepKeeps
  <2>2. CASE UNCHANGED vars
    BY <2>2, BuilderStutters
  <2> QED
    BY <2>1, <2>2 DEF Next
<1> QED
  BY <1>1, <1>2, PTL DEF Spec

\* ComputeFirstSet ends with exactly the nonterminals that derive the empty word
\* and exactly the terminals that begin a symbol.
THEOREM FirstAndNullableAreExact == Spec => []FirstIsExact
<1>1. BuilderInvariant => FirstIsExact
  BY InvariantIsExact
<1> QED
  BY <1>1, BuilderInvariantHolds, PTL

\* ComputeFollowSet never puts a terminal into FOLLOW, or marks a nonterminal,
\* that the definitions do not; it ends with all marks, and with all of FOLLOW
\* where no symbol that vanishes stands between two others.
THEOREM FollowIsSoundAndExact == Spec => []EofAndFollowAreExact
<1>1. BuilderInvariant => EofAndFollowAreExact
  BY InvariantIsExact
<1> QED
  BY <1>1, BuilderInvariantHolds, PTL
=============================================================================
