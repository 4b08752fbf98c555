--------------------------- MODULE GrammarTheorems --------------------------
(***************************************************************************)
(* Facts about items, closures and gotos that hold for every grammar.      *)
(***************************************************************************)
EXTENDS TextbookLR, FiniteSetTheorems, TLAPS

\* A grammar's productions have variables on the left and words of symbols on
\* the right, as LoadSymbolInfo builds them.
LEMMA ProductionShape ==
    ASSUME NEW g, IsGrammar(g), NEW p \in Productions(g)
    PROVE  /\ Left(g, p) \in Variables(g)
           /\ Right(g, p) \in Seq(Symbols(g))
           /\ Len(Right(g, p)) \in Nat
<1> DEFINE R == [lhs : Variables(g), rhs : Seq(Symbols(g))]
           ps == g.productions
<1>1. ps \in Seq(R) /\ p \in DOMAIN ps
  BY DEF IsGrammar, Productions
<1> HIDE DEF R, ps
<1>2. ps[p] \in R
  BY <1>1
<1> USE DEF R, ps
<1>3. ps[p].lhs \in Variables(g) /\ ps[p].rhs \in Seq(Symbols(g))
  BY <1>2
<1> HIDE DEF ps
<1>4. Left(g, p) = ps[p].lhs /\ Right(g, p) = ps[p].rhs
  BY DEF Left, Right, ps
<1> QED
  BY <1>3, <1>4

\* The root is a variable.
LEMMA RootIsVariable ==
    ASSUME NEW g, IsGrammar(g)
    PROVE  RootVariable(g) \in Variables(g)
BY DEF IsGrammar, RootVariable, Variables

\* Items are pairs of a production and a place in its right-hand side (the
\* assertions of ParserItem's constructor).
LEMMA ItemShape ==
    ASSUME NEW g, NEW it \in Items(g)
    PROVE  /\ it.prod \in Productions(g)
           /\ it.dot \in 0 .. Len(Right(g, it.prod))
           /\ it = Item(it.prod, it.dot)
BY DEF Items, Item

\* A production and a place in its right-hand side make an item.
LEMMA ItemIn ==
    ASSUME NEW g, NEW p \in Productions(g), NEW d \in 0 .. Len(Right(g, p))
    PROVE  Item(p, d) \in Items(g) /\ Item(p, d).prod = p /\ Item(p, d).dot = d
BY DEF Items, Item

\* The productions of a variable give items of the grammar.
LEMMA ExpansionType ==
    ASSUME NEW g, IsGrammar(g), NEW v
    PROVE  Expansion(g, v) \subseteq Items(g)
<1> SUFFICES ASSUME NEW p \in Productions(g), Left(g, p) = v
             PROVE  Item(p, 0) \in Items(g)
  BY DEF Expansion
<1>1. Len(Right(g, p)) \in Nat
  BY ProductionShape
<1>2. 0 \in 0 .. Len(Right(g, p))
  BY <1>1
<1> QED
  BY <1>2, ItemIn

\* ClosureVariables holds the seeds, is closed under Heads, and is contained in
\* every set of variables that is and does.
LEMMA ClosureVariablesLeast ==
    ASSUME NEW g, NEW K
    PROVE  /\ ClosureVariables(g, K) \subseteq Variables(g)
           /\ Seeds(g, K) \subseteq ClosureVariables(g, K)
           /\ \A u \in ClosureVariables(g, K) : Heads(g, u) \subseteq ClosureVariables(g, K)
           /\ \A S \in SUBSET Variables(g) :
                (Seeds(g, K) \subseteq S /\ \A u \in S : Heads(g, u) \subseteq S)
                    => ClosureVariables(g, K) \subseteq S
<1>1. Seeds(g, K) \subseteq Variables(g) /\ \A u : Heads(g, u) \subseteq Variables(g)
  BY DEF Seeds, Heads
<1> QED
  BY <1>1 DEF ClosureVariables

\* The closure of items of a grammar are items of it.
LEMMA ClosureItemsType ==
    ASSUME NEW g, IsGrammar(g), NEW K \in SUBSET Items(g)
    PROVE  ClosureItems(g, K) \subseteq Items(g)
BY ExpansionType DEF ClosureItems

\* Only expanded productions have the cursor at the front.
LEMMA MovedItemsAreKernel ==
    ASSUME NEW g, NEW K, NEW it \in ClosureItems(g, K), it.dot # 0
    PROVE  it \in K
BY DEF ClosureItems, Expansion, Item

\* What ComputeGotoItems collects are items, none with its cursor at the front.
LEMMA GotoItemsType ==
    ASSUME NEW g, IsGrammar(g), NEW K \in SUBSET Items(g), NEW s
    PROVE  \A it \in GotoItems(g, K, s) :
                /\ it \in Items(g) /\ it.dot > 0
                /\ Right(g, it.prod)[it.dot] = s
                /\ Item(it.prod, it.dot - 1) \in ClosureItems(g, K)
<1> SUFFICES ASSUME NEW it \in GotoItems(g, K, s)
             PROVE  /\ it \in Items(g) /\ it.dot > 0
                    /\ Right(g, it.prod)[it.dot] = s
                    /\ Item(it.prod, it.dot - 1) \in ClosureItems(g, K)
  OBVIOUS
<1>1. PICK it0 \in ClosureItems(g, K) : NextIs(g, it0, s) /\ it = CreateSuccessor(it0)
  BY DEF GotoItems
<1>2. it0 \in Items(g)
  BY ClosureItemsType
<1>3. /\ it0.prod \in Productions(g) /\ it0 = Item(it0.prod, it0.dot)
      /\ it0.dot \in 0 .. Len(Right(g, it0.prod)) /\ Len(Right(g, it0.prod)) \in Nat
  BY <1>2, ItemShape, ProductionShape
<1>4. it0.dot + 1 \in 0 .. Len(Right(g, it0.prod)) /\ it0.dot \in Nat
  BY <1>1, <1>3 DEF NextIs, IsFinalized
<1>5. /\ it \in Items(g) /\ it.prod = it0.prod /\ it.dot = it0.dot + 1
  BY <1>1, <1>3, <1>4, ItemIn DEF CreateSuccessor
<1>6. it.dot - 1 = it0.dot /\ it.dot > 0
  BY <1>4, <1>5
<1> QED
  BY <1>1, <1>3, <1>5, <1>6 DEF NextIs

\* A variable gets into a closure because it stands after the cursor of some
\* item of the closure; so the automaton has a goto for it.
LEMMA ClosureVariableIsNext ==
    ASSUME NEW g, IsGrammar(g), NEW K, NEW v \in ClosureVariables(g, K)
    PROVE  \E it \in ClosureItems(g, K) : NextIs(g, it, v)
<1> DEFINE S == {u \in ClosureVariables(g, K) :
                    \E it \in ClosureItems(g, K) : NextIs(g, it, u)}
<1>1. S \in SUBSET Variables(g)
  BY ClosureVariablesLeast
<1>2. Seeds(g, K) \subseteq S
  <2> SUFFICES ASSUME NEW u \in Seeds(g, K) PROVE u \in S
    OBVIOUS
  <2>1. PICK it \in K : NextIs(g, it, u)
    BY DEF Seeds
  <2>2. it \in ClosureItems(g, K)
    BY DEF ClosureItems
  <2> QED
    BY <2>1, <2>2, ClosureVariablesLeast
<1>3. ASSUME NEW u \in S PROVE Heads(g, u) \subseteq S
  <2> SUFFICES ASSUME NEW w \in Heads(g, u) PROVE w \in S
    OBVIOUS
  <2>1. w \in ClosureVariables(g, K)
    BY ClosureVariablesLeast
  <2>2. PICK p \in Productions(g) :
            Left(g, p) = u /\ Right(g, p) # <<>> /\ Right(g, p)[1] = w
    BY DEF Heads
  <2>3. Item(p, 0) \in Expansion(g, u)
    BY <2>2 DEF Expansion
  <2>4. Item(p, 0) \in ClosureItems(g, K)
    BY <2>3 DEF ClosureItems
  <2>5. Right(g, p) \in Seq(Symbols(g)) /\ Len(Right(g, p)) # 0
    BY <2>2, ProductionShape
  <2>6. NextIs(g, Item(p, 0), w)
    BY <2>2, <2>5 DEF NextIs, IsFinalized, Item
  <2> QED
    BY <2>1, <2>4, <2>6
<1>4. ClosureVariables(g, K) \subseteq S
  BY <1>1, <1>2, <1>3, ClosureVariablesLeast
<1> QED
  BY <1>4

\* A variable after the cursor of an item of a closure is expanded in it.
LEMMA NextIsInClosure ==
    ASSUME NEW g, IsGrammar(g), NEW K, NEW it \in ClosureItems(g, K),
           NEW v \in Variables(g), NextIs(g, it, v)
    PROVE  v \in ClosureVariables(g, K)
<1>1. CASE it \in K
  <2>1. v \in Seeds(g, K)
    BY <1>1 DEF Seeds
  <2> QED
    BY <2>1, ClosureVariablesLeast
<1>2. CASE it \notin K
  <2>1. PICK u \in ClosureVariables(g, K) : it \in Expansion(g, u)
    BY <1>2 DEF ClosureItems
  <2>2. PICK p \in Productions(g) : Left(g, p) = u /\ it = Item(p, 0)
    BY <2>1 DEF Expansion
  <2>3. Len(Right(g, p)) # 0 /\ Right(g, p)[1] = v
    BY <2>2 DEF NextIs, IsFinalized, Item
  <2>4. v \in Heads(g, u)
    BY <2>2, <2>3, ProductionShape DEF Heads
  <2> QED
    BY <2>1, <2>4, ClosureVariablesLeast
<1> QED
  BY <1>1, <1>2

-----------------------------------------------------------------------------
(* Induction, stated of sets: a set, unlike a predicate, can be the argument  *)
(* of a lemma here.                                                           *)

\* A set that holds 0 and with every number below n the next one holds them all.
\* (Were k missing, the missing numbers up to k could be moved down by one, and
\* would all fit in the places of the others.)
LEMMA IntervalInduction ==
    ASSUME NEW n \in Nat, NEW A, 0 \in A, \A k \in 0 .. n : k # n /\ k \in A => k + 1 \in A
    PROVE  \A k \in 0 .. n : k \in A
<1> SUFFICES ASSUME NEW k \in 0 .. n, k \notin A PROVE FALSE
  OBVIOUS
<1> DEFINE D == {x \in 0 .. k : x \notin A}
           f == [x \in D |-> x - 1]
<1>1. \A x \in D : x \in Nat /\ x # 0 /\ x - 1 \in D /\ x - 1 # k
  <2> SUFFICES ASSUME NEW x \in D PROVE x \in Nat /\ x # 0 /\ x - 1 \in D /\ x - 1 # k
    OBVIOUS
  <2>1. x \in Nat /\ x # 0 /\ x <= k /\ x - 1 \in 0 .. n /\ x - 1 # n
    OBVIOUS
  <2>2. x - 1 \notin A
    BY <2>1
  <2> QED
    BY <2>1, <2>2
<1>2. IsFiniteSet(0 .. k)
  BY FS_Interval
<1>3. IsFiniteSet(D) /\ k \in D
  BY <1>2, FS_Subset
<1>4. /\ IsFiniteSet(D \ {k}) /\ Cardinality(D \ {k}) = Cardinality(D) - 1
      /\ Cardinality(D) \in Nat
  BY <1>3, FS_RemoveElement, FS_CardinalityType
<1>5. f \in [D -> D \ {k}]
  BY <1>1
<1>6. \A x, y \in D : f[x] = f[y] => x = y
  BY <1>1
<1> HIDE DEF D, f
<1>7. Cardinality(D \ {k}) < Cardinality(D)
  BY <1>4
<1>8. \E x, y \in D : x # y /\ f[x] = f[y]
  BY <1>3, <1>4, <1>5, <1>7, FS_PigeonHole
<1> QED
  BY <1>6, <1>8

\* The elements of a finite set of integers, counted in order: each has its
\* place.
LEMMA EachHasItsPlace ==
    ASSUME NEW S \in SUBSET Int, IsFiniteSet(S), NEW p \in S
    PROVE  LET Place(x) == Cardinality({q \in S : q < x})
           IN  /\ Cardinality(S) \in Nat /\ Place(p) \in Nat
               /\ Place(p) + 1 \in 1 .. Cardinality(S)
               /\ \A x \in S : Place(x) = Place(p) => x = p
<1> DEFINE Below(x) == {q \in S : q < x}
           Place(x) == Cardinality(Below(x))
<1>1. \A x \in S : IsFiniteSet(Below(x)) /\ Place(x) \in Nat
  BY FS_Subset, FS_CardinalityType
<1>2. \A x, y \in S : x < y => Place(x) # Place(y)
  <2> SUFFICES ASSUME NEW x \in S, NEW y \in S, x < y PROVE Place(x) # Place(y)
    OBVIOUS
  <2>1. x \in Int /\ y \in Int /\ \A q \in S : q \in Int /\ (q < x => q < y)
    OBVIOUS
  <2>2. Below(x) \subseteq Below(y) /\ x \in Below(y) /\ x \notin Below(x)
    <3>1. ~(x < x)
      BY <2>1
    <3> QED
      BY <2>1, <3>1
  <2> HIDE DEF Below
  <2> QED
    BY <1>1, <2>2, FS_Subset
<1>3. Place(p) < Cardinality(S) /\ Cardinality(S) \in Nat
  <2>1. Below(p) \in SUBSET S /\ p \notin Below(p)
    OBVIOUS
  <2> HIDE DEF Below
  <2>2. Cardinality(S) \in Nat /\ Cardinality(Below(p)) <= Cardinality(S)
        /\ Cardinality(S) # Cardinality(Below(p))
    BY <2>1, FS_Subset, FS_CardinalityType
  <2> QED
    BY <1>1, <2>2
<1>4. \A x \in S : Place(x) = Place(p) => x = p
  BY <1>2
<1> QED
  BY <1>1, <1>3, <1>4

\* And every place is taken.
LEMMA EveryPlaceIsTaken ==
    ASSUME NEW S \in SUBSET Int, IsFiniteSet(S), NEW k \in 1 .. Cardinality(S)
    PROVE  \E x \in S : Cardinality({q \in S : q < x}) = k - 1
<1> DEFINE Place(x) == Cardinality({q \in S : q < x})
           n == Cardinality(S)
           T == (1 .. n) \ {k}
           f == [x \in S |-> Place(x) + 1]
<1>1. n \in Nat
  BY FS_CardinalityType
<1>2. \A x \in S : Place(x) \in Nat /\ Place(x) + 1 \in 1 .. n
  BY EachHasItsPlace
<1>3. \A x, y \in S : Place(x) = Place(y) => x = y
  BY EachHasItsPlace
<1> HIDE DEF Place
<1>4. IsFiniteSet(1 .. n) /\ Cardinality(1 .. n) = n
  BY <1>1, FS_Interval
<1>5. IsFiniteSet(T) /\ Cardinality(T) < Cardinality(S)
  <2>1. IsFiniteSet(T) /\ Cardinality(T) = n - 1
    BY <1>4, FS_RemoveElement
  <2> QED
    BY <1>1, <2>1
<1>6. ASSUME \A x \in S : Place(x) # k - 1 PROVE FALSE
  <2>1. f \in [S -> T]
    BY <1>2, <1>6
  <2>2. \A x, y \in S : f[x] = f[y] => x = y
    BY <1>2, <1>3
  <2> HIDE DEF f, T
  <2>3. \E x, y \in S : x # y /\ f[x] = f[y]
    BY <1>5, <2>1, FS_PigeonHole
  <2> QED
    BY <2>2, <2>3
<1> QED
  BY <1>6 DEF Place

-----------------------------------------------------------------------------
(* Facts about the stacks of the parser and of its generator.              *)

\* What is left when the top of a stack is popped.
LEMMA PrefixShape ==
    ASSUME NEW S, NEW s \in Seq(S), NEW n \in 0 .. Len(s)
    PROVE  /\ SubSeq(s, 1, n) \in Seq(S)
           /\ Len(SubSeq(s, 1, n)) = n
           /\ \A i \in 1 .. n : SubSeq(s, 1, n)[i] = s[i]
OBVIOUS

\* The new top of a stack, and what is below it.
LEMMA PushShape ==
    ASSUME NEW S, NEW s \in Seq(S), NEW x \in S
    PROVE  /\ Append(s, x) \in Seq(S)
           /\ Len(Append(s, x)) = Len(s) + 1
           /\ Append(s, x)[Len(s) + 1] = x
           /\ \A i \in 1 .. Len(s) : Append(s, x)[i] = s[i]
OBVIOUS

\* Sequences are equal when they agree everywhere.
LEMMA SameSequence ==
    ASSUME NEW S, NEW s \in Seq(S), NEW t \in Seq(S), Len(s) = Len(t),
           \A i \in 1 .. Len(s) : s[i] = t[i]
    PROVE  s = t
OBVIOUS

\* The symbols of a stack of AST items, and the kinds of a text.
LEMMA SymbolsOf ==
    ASSUME NEW S, NEW T, NEW s \in Seq(S), \A x \in S : x.symbol \in T
    PROVE  LET f == [k \in DOMAIN s |-> s[k].symbol]
           IN  f \in Seq(T) /\ Len(f) = Len(s) /\ \A k \in 1 .. Len(s) : f[k] = s[k].symbol
<1> DEFINE n == Len(s)
<1>1. n \in Nat /\ DOMAIN s = 1 .. n
  OBVIOUS
<1>2. \A k \in 1 .. n : s[k] \in S
  OBVIOUS
<1> HIDE DEF n
<1>3. [k \in 1 .. n |-> s[k].symbol] \in Seq(T)
  BY <1>1, <1>2
<1>4. Len([k \in 1 .. n |-> s[k].symbol]) = n
  BY <1>1
<1> QED
  BY <1>1, <1>3, <1>4 DEF n

\* The kinds of the lexemes of a text, in order.
LEMMA KindsOf ==
    ASSUME NEW S, NEW s \in Seq(S)
    PROVE  LET f == [k \in DOMAIN s |-> s[k].token]
           IN  Len(f) = Len(s) /\ \A k \in 1 .. Len(s) : f[k] = s[k].token
<1> DEFINE n == Len(s)
<1>1. n \in Nat /\ DOMAIN s = 1 .. n
  OBVIOUS
<1> HIDE DEF n
<1>2. Len([k \in 1 .. n |-> s[k].token]) = n
  BY <1>1
<1> QED
  BY <1>1, <1>2 DEF n

\* w starts with a, and f[k] takes what w has before place k to what it has
\* there.
Iterates(w, n, S, a, f) ==
    /\ w \in [0 .. n -> S] /\ w[0] = a
    /\ \A k \in 1 .. n : w[k] = f[k][w[k - 1]]

\* A recursion over the numbers up to n has a solution.
LEMMA RecursionIsSolved ==
    ASSUME NEW n \in Nat, NEW S, NEW a \in S, NEW f \in [1 .. n -> [S -> S]]
    PROVE  \E w : Iterates(w, n, S, a, f)
<1> DEFINE Solves(w, m) == /\ w \in [0 .. m -> S] /\ w[0] = a
                           /\ \A k \in 1 .. m : w[k] = f[k][w[k - 1]]
           A == {m \in 0 .. n : \E w : Solves(w, m)}
<1>1. 0 \in A
  <2> DEFINE w == [k \in 0 .. 0 |-> a]
  <2>1. Solves(w, 0)
    OBVIOUS
  <2> HIDE DEF w, Solves
  <2> QED
    BY <2>1
<1>2. ASSUME NEW m \in 0 .. n, m # n, m \in A PROVE m + 1 \in A
  <2>1. PICK w : Solves(w, m)
    BY <1>2
  <2>2. m \in Nat /\ m + 1 \in 0 .. n /\ m + 1 \in 1 .. n /\ m + 1 # 0 /\ m \in 0 .. m
    BY <1>2
  <2> DEFINE u == [k \in 0 .. m + 1 |-> IF k = m + 1 THEN f[m + 1][w[m]] ELSE w[k]]
  <2>3. w[m] \in S /\ f[m + 1][w[m]] \in S
    BY <2>1, <2>2
  <2>4. u \in [0 .. m + 1 -> S] /\ u[0] = a /\ u[m + 1] = f[m + 1][w[m]] /\ \A k \in 0 .. m : u[k] = w[k]
    <3>1. \A k \in 0 .. m + 1 : k = m + 1 \/ k \in 0 .. m
      BY <2>2
    <3>2. 0 \in 0 .. m /\ \A k \in 0 .. m : k # m + 1 /\ k \in 0 .. m + 1
      BY <2>2
    <3>3. m + 1 \in 0 .. m + 1
      BY <2>2
    <3> QED
      BY <2>1, <2>2, <2>3, <3>1, <3>2, <3>3
  <2> HIDE DEF u
  <2>5. \A k \in 1 .. m + 1 : u[k] = f[k][u[k - 1]]
    <3> SUFFICES ASSUME NEW k \in 1 .. m + 1 PROVE u[k] = f[k][u[k - 1]]
      OBVIOUS
    <3>1. CASE k = m + 1
      <4>1. k - 1 = m
        BY <2>2, <3>1
      <4> QED
        BY <2>2, <2>4, <3>1, <4>1
    <3>2. CASE k # m + 1
      <4>1. k \in 1 .. m /\ k \in 0 .. m /\ k - 1 \in 0 .. m
        BY <2>2, <3>2
      <4> QED
        BY <2>1, <2>4, <4>1
    <3> QED
      BY <3>1, <3>2
  <2>6. Solves(u, m + 1)
    BY <2>4, <2>5
  <2> HIDE DEF Solves
  <2> QED
    BY <2>2, <2>6
<1>3. \A k \in 0 .. n : k \in A
  <2> HIDE DEF A
  <2> QED
    BY <1>1, <1>2, IntervalInduction
<1>4. n \in A
  BY <1>3
<1>5. PICK w : Solves(w, n)
  BY <1>4
<1> QED
  BY <1>5 DEF Iterates

\* Reached is the least set that holds the start and is closed under the
\* successors: what is found in as many turns as there are elements grows in
\* each turn or is closed.
LEMMA ReachedIsLeast ==
    ASSUME NEW U, IsFiniteSet(U), NEW next \in [U -> SUBSET U], NEW x \in U
    PROVE  LET R == Reached(U, next, x)
           IN  /\ x \in R /\ R \subseteq U
               /\ \A y \in R : next[y] \subseteq R
               /\ \A C : (x \in C /\ \A y \in C \cap U : next[y] \subseteq C) => R \subseteq C
<1> DEFINE n == Cardinality(U)
           Grown(r) == r \cup UNION {next[y] : y \in r}
           f == [k \in 1 .. n |-> [r \in SUBSET U |-> Grown(r)]]
<1>1. n \in Nat
  BY FS_CardinalityType
<1>2. \A r \in SUBSET U : Grown(r) \in SUBSET U
  OBVIOUS
<1>3. /\ f \in [1 .. n -> [SUBSET U -> SUBSET U]]
      /\ \A k \in 1 .. n : \A r \in SUBSET U : f[k][r] = Grown(r)
  BY <1>2
<1>4. PICK w : /\ w \in [0 .. n -> SUBSET U] /\ w[0] = {x}
               /\ \A k \in 1 .. n : w[k] = f[k][w[k - 1]]
  <2>1. {x} \in SUBSET U
    OBVIOUS
  <2> HIDE DEF f, n
  <2>2. \E w : Iterates(w, n, SUBSET U, {x}, f)
    BY <1>1, <1>3, <2>1, RecursionIsSolved
  <2> QED
    BY <2>2 DEF Iterates
<1>5. w = [k \in 0 .. n |-> IF k = 0 THEN {x} ELSE LET r == w[k - 1] IN r \cup UNION {next[y] : y \in r}]
  <2>1. \A k \in 0 .. n : k # 0 => k - 1 \in 0 .. n /\ k \in 1 .. n
    BY <1>1
  <2>2. \A k \in 0 .. n : w[k] = IF k = 0 THEN {x} ELSE LET r == w[k - 1] IN r \cup UNION {next[y] : y \in r}
    <3> HIDE DEF f, n
    <3>1. \A k \in 0 .. n : k # 0 => k \in 1 .. n /\ w[k - 1] \in SUBSET U /\ w[k] = f[k][w[k - 1]]
      BY <1>4, <2>1
    <3>2. \A k \in 0 .. n : k # 0 => w[k] = Grown(w[k - 1])
      BY <1>3, <3>1
    <3> QED
      BY <1>4, <3>2
  <2> HIDE DEF n
  <2> QED
    BY <1>4, <2>2
<1> DEFINE g == CHOOSE v : v = [k \in 0 .. n |-> IF k = 0 THEN {x} ELSE LET r == v[k - 1] IN r \cup UNION {next[y] : y \in r}]
<1>6. g = [k \in 0 .. n |-> IF k = 0 THEN {x} ELSE LET r == g[k - 1] IN r \cup UNION {next[y] : y \in r}]
  BY <1>5
<1>7. Reached(U, next, x) = g[n]
  BY DEF Reached
<1> HIDE DEF g, n, f
<1>9. /\ g[0] = {x}
      /\ \A k \in 0 .. n : k # n => k + 1 \in 0 .. n /\ g[k + 1] = Grown(g[k])
  <2>1. 0 \in 0 .. n /\ \A k \in 0 .. n : k # n => k + 1 \in 0 .. n /\ k + 1 # 0 /\ (k + 1) - 1 = k
    BY <1>1
  <2>2. \A k \in 0 .. n : g[k] = IF k = 0 THEN {x} ELSE Grown(g[k - 1])
    BY <1>6
  <2> QED
    BY <2>1, <2>2
<1> DEFINE LeastSoFar(r) == x \in r /\ r \in SUBSET U
                       /\ \A C : (x \in C /\ \A y \in C \cap U : next[y] \subseteq C) => r \subseteq C
<1>10. \A k \in 0 .. n : LeastSoFar(g[k])
  <2> DEFINE A == {k \in 0 .. n : LeastSoFar(g[k])}
  <2>1. LeastSoFar({x}) /\ \A r : LeastSoFar(r) => LeastSoFar(Grown(r))
    <3>1. LeastSoFar({x})
      OBVIOUS
    <3>2. ASSUME NEW r, LeastSoFar(r) PROVE LeastSoFar(Grown(r))
      <4>1. x \in Grown(r) /\ Grown(r) \in SUBSET U
        BY <3>2
      <4>2. ASSUME NEW C, x \in C, \A y \in C \cap U : next[y] \subseteq C
            PROVE  Grown(r) \subseteq C
        <5>1. r \subseteq C /\ r \subseteq U
          BY <3>2, <4>2
        <5> QED
          BY <4>2, <5>1
      <4> QED
        BY <4>1, <4>2
    <3> QED
      BY <3>1, <3>2
  <2> HIDE DEF LeastSoFar, Grown
  <2>2. 0 \in A
    <3>1. 0 \in 0 .. n
      BY <1>1
    <3> QED
      BY <1>9, <2>1, <3>1
  <2>4. \A k \in 0 .. n : k # n /\ k \in A => k + 1 \in A
    BY <1>9, <2>1
  <2> HIDE DEF A
  <2>3. \A k \in 0 .. n : k \in A
    BY <1>1, <2>2, <2>4, IntervalInduction
  <2> QED
    BY <2>3 DEF A
<1>11. \A k \in 0 .. n : Grown(g[k]) = g[k] \/ Cardinality(g[k]) > k
  <2> DEFINE A == {k \in 0 .. n : Grown(g[k]) = g[k] \/ Cardinality(g[k]) > k}
  <2>1. 0 \in A
    <3>1. Cardinality({x}) = 1
      BY FS_Singleton
    <3>2. 0 \in 0 .. n /\ Cardinality(g[0]) > 0
      BY <1>1, <1>9, <3>1
    <3> QED
      BY <3>2
  <2>2. ASSUME NEW k \in 0 .. n, k # n, k \in A PROVE k + 1 \in A
    <3> PICK r, q : r = g[k] /\ q = g[k + 1]
      OBVIOUS
    <3>1. q = Grown(r) /\ k + 1 \in 0 .. n /\ r \in SUBSET U /\ q \in SUBSET U
      BY <1>9, <1>10, <2>2
    <3>2. CASE Grown(r) = r
      BY <3>1, <3>2
    <3>3. CASE Grown(r) # r
      <4>1. Cardinality(r) > k
        BY <2>2, <3>3
      <4>2. r \subseteq q /\ r # q
        BY <3>1, <3>3
      <4>3. IsFiniteSet(q)
        BY <3>1, FS_Subset
      <4>4. /\ Cardinality(r) \in Nat /\ Cardinality(q) \in Nat /\ Cardinality(r) < Cardinality(q)
        <5>1. IsFiniteSet(r) /\ Cardinality(r) <= Cardinality(q)
              /\ (Cardinality(q) = Cardinality(r) => r = q)
          BY <4>2, <4>3, FS_Subset
        <5>2. Cardinality(r) \in Nat /\ Cardinality(q) \in Nat
          BY <4>3, <5>1, FS_CardinalityType
        <5> QED
          BY <4>2, <5>1, <5>2
      <4>5. Cardinality(q) > k + 1
        BY <4>1, <4>4
      <4> QED
        BY <3>1, <4>5
    <3> QED
      BY <3>2, <3>3
  <2> HIDE DEF A
  <2>3. \A k \in 0 .. n : k # n /\ k \in A => k + 1 \in A
    BY <2>2
  <2>4. \A k \in 0 .. n : k \in A
    BY <1>1, <2>1, <2>3, IntervalInduction
  <2> QED
    BY <2>4 DEF A
<1>12. n \in 0 .. n
  BY <1>1
<1>13. Grown(g[n]) = g[n]
  <2>1. g[n] \in SUBSET U
    BY <1>10, <1>12
  <2>2. Cardinality(g[n]) <= n /\ Cardinality(g[n]) \in Nat
    <3>1. IsFiniteSet(g[n]) /\ Cardinality(g[n]) <= Cardinality(U)
      BY <2>1, FS_Subset
    <3> QED
      BY <3>1, FS_CardinalityType DEF n
  <2> QED
    BY <1>1, <1>11, <1>12, <2>2
<1>14. LeastSoFar(g[n])
  BY <1>10, <1>12
<1> HIDE DEF LeastSoFar
<1>15. \A y \in g[n] : next[y] \subseteq g[n]
  BY <1>13
<1> QED
  BY <1>7, <1>14, <1>15 DEF LeastSoFar

\* Pairs of a member of one finite set and one of another are finitely many,
\* and so are what the numbers up to n give.
LEMMA ImageOfIntervalIsFinite ==
    ASSUME NEW n \in Nat, NEW f
    PROVE  IsFiniteSet({f[i] : i \in 1 .. n})
<1>1. IsFiniteSet(1 .. n)
  BY FS_Interval
<1> DEFINE h == [i \in 1 .. n |-> f[i]]
           T == {f[i] : i \in 1 .. n}
<1>2. h \in Surjection(1 .. n, T)
  BY DEF Surjection
<1>3. IsFiniteSet(T)
  BY <1>1, <1>2, FS_Surjection
<1> QED
  BY <1>3

LEMMA DerivationsAreFinite ==
    ASSUME NEW g, IsGrammar(g), NEW word, Len(word) \in Nat
    PROVE  IsFiniteSet(Derivations(g, word))
<1> DEFINE n == Len(word) + 1
           V == Variables(g)
<1>1. IsFiniteSet(V)
  <2>1. Len(g.variables) \in Nat /\ DOMAIN g.variables = 1 .. Len(g.variables)
    BY DEF IsGrammar
  <2> QED
    BY <2>1, ImageOfIntervalIsFinite DEF Variables
<1>2. n \in Nat /\ IsFiniteSet(1 .. n)
  BY FS_Interval
<1>3. IsFiniteSet(V \X (1 .. n))
  BY <1>1, <1>2, FS_Product
<1> DEFINE h == [t \in V \X (1 .. n) |-> [var |-> t[1], at |-> t[2]]]
<1>4. h \in Surjection(V \X (1 .. n), [var : V, at : 1 .. n])
  <2>1. h \in [V \X (1 .. n) -> [var : V, at : 1 .. n]]
    OBVIOUS
  <2>2. ASSUME NEW d \in [var : V, at : 1 .. n] PROVE \E t \in V \X (1 .. n) : h[t] = d
    <3>1. <<d.var, d.at>> \in V \X (1 .. n) /\ d = [var |-> d.var, at |-> d.at]
      OBVIOUS
    <3>2. h[<<d.var, d.at>>] = d
      BY <3>1
    <3> QED
      BY <3>1, <3>2
  <2> QED
    BY <2>1, <2>2 DEF Surjection
<1>5. IsFiniteSet([var : V, at : 1 .. n])
  BY <1>3, <1>4, FS_Surjection
<1> QED
  BY <1>5 DEF Derivations

Node(v, at) == [var |-> v, at |-> at]

\* The i-th symbol of production p is a variable derived where the word
\* reaches it.
Begins(g, word, at, p, i) ==
    /\ p \in Productions(g) /\ i \in 1 .. Len(Right(g, p))
    /\ Right(g, p)[i] \in Variables(g)
    /\ Matches(word, at, SubSeq(Right(g, p), 1, i - 1))

\* DerivedAt is the least set that holds the root at the start and, with a
\* variable, those its productions begin.
LEMMA DerivedAtIsLeast ==
    ASSUME NEW g, IsGrammar(g), NEW word, Len(word) \in Nat
    PROVE  LET D == DerivedAt(g, word)
           IN  /\ Node(RootVariable(g), 1) \in D
               /\ D \subseteq Derivations(g, word)
               /\ \A n \in D : \A p, i : Left(g, p) = n.var /\ Begins(g, word, n.at, p, i)
                    => Node(Right(g, p)[i], n.at + i - 1) \in D
               /\ \A C : /\ Node(RootVariable(g), 1) \in C
                         /\ \A n \in C \cap Derivations(g, word) : \A p, i :
                                Left(g, p) = n.var /\ Begins(g, word, n.at, p, i)
                                    => Node(Right(g, p)[i], n.at + i - 1) \in C
                         => D \subseteq C
<1> DEFINE U == Derivations(g, word)
           Below(n) == UNION {Begun(g, word, n.at, p) : p \in {q \in Productions(g) : Left(g, q) = n.var}}
           next == [n \in U |-> Below(n)]
           x == Node(RootVariable(g), 1)
           D == DerivedAt(g, word)
           Hangs(n, p, i) == Left(g, p) = n.var /\ Begins(g, word, n.at, p, i)
<1>1. \A n, m : m \in Below(n) <=> \E p, i : Hangs(n, p, i) /\ m = Node(Right(g, p)[i], n.at + i - 1)
  <2>1. \A p \in Productions(g) : Right(g, p) \in Seq(Symbols(g))
    BY ProductionShape
  <2>2. \A p \in Productions(g) : DOMAIN Right(g, p) = 1 .. Len(Right(g, p))
    BY <2>1
  <2>3. \A at, m : \A p \in Productions(g) : m \in Begun(g, word, at, p) <=>
            \E i : Begins(g, word, at, p, i) /\ m = Node(Right(g, p)[i], at + i - 1)
    BY <2>2 DEF Begun, Begins, Node
  <2>4. \A n, m : m \in Below(n) <=>
            \E p \in Productions(g) : Left(g, p) = n.var /\ m \in Begun(g, word, n.at, p)
    OBVIOUS
  <2> HIDE DEF Below
  <2>5. \A at, p, i : Begins(g, word, at, p, i) => p \in Productions(g)
    BY DEF Begins
  <2> QED
    BY <2>3, <2>4, <2>5
<1>2. \A n \in U : \A p, i : Hangs(n, p, i) => Node(Right(g, p)[i], n.at + i - 1) \in U
  <2> SUFFICES ASSUME NEW n \in U, NEW p, NEW i, Hangs(n, p, i)
               PROVE  Node(Right(g, p)[i], n.at + i - 1) \in U
    OBVIOUS
  <2>1. /\ n.at \in 1 .. Len(word) + 1 /\ p \in Productions(g) /\ i \in 1 .. Len(Right(g, p))
        /\ Right(g, p)[i] \in Variables(g) /\ Matches(word, n.at, SubSeq(Right(g, p), 1, i - 1))
    BY DEF Derivations, Begins
  <2>2. Right(g, p) \in Seq(Symbols(g)) /\ Len(Right(g, p)) \in Nat
    BY <2>1, ProductionShape
  <2>3. i - 1 \in 0 .. Len(Right(g, p))
    BY <2>1, <2>2
  <2>4. Len(SubSeq(Right(g, p), 1, i - 1)) = i - 1
    BY <2>2, <2>3, PrefixShape
  <2>5. n.at + (i - 1) - 1 <= Len(word)
    BY <2>1, <2>4 DEF Matches
  <2>6. n.at + i - 1 \in 1 .. Len(word) + 1
    BY <2>1, <2>2, <2>5
  <2> QED
    BY <2>1, <2>6 DEF Derivations, Node
<1> HIDE DEF Hangs, Below
<1>3. next \in [U -> SUBSET U] /\ \A n \in U : next[n] = Below(n)
  <2>1. \A n \in U : Below(n) \in SUBSET U
    BY <1>1, <1>2
  <2> QED
    BY <2>1
<1>4. x \in U
  <2>1. 1 \in 1 .. Len(word) + 1
    OBVIOUS
  <2> QED
    BY <2>1, RootIsVariable DEF Derivations, Node
<1>5. D = Reached(U, next, x)
  BY DEF DerivedAt, Node, Below
<1>6. IsFiniteSet(U)
  BY DerivationsAreFinite
<1> HIDE DEF U, next, x, D
<1>7. /\ x \in D /\ D \subseteq U
      /\ \A y \in D : next[y] \subseteq D
      /\ \A C : (x \in C /\ \A y \in C \cap U : next[y] \subseteq C) => D \subseteq C
  BY <1>3, <1>4, <1>5, <1>6, ReachedIsLeast
<1>8. \A n \in D : \A p, i : Hangs(n, p, i) => Node(Right(g, p)[i], n.at + i - 1) \in D
  BY <1>1, <1>3, <1>7
<1>9. ASSUME NEW C, x \in C,
             \A n \in C \cap U : \A p, i : Hangs(n, p, i) => Node(Right(g, p)[i], n.at + i - 1) \in C
      PROVE  D \subseteq C
  <2>1. \A y \in C \cap U : next[y] \subseteq C
    BY <1>1, <1>3, <1>9
  <2> QED
    BY <1>7, <1>9, <2>1
<1> QED
  BY <1>7, <1>8, <1>9 DEF D, U, x, Hangs

\* The items whose cursor the first k symbols of the word reach.
ItemsAt(g, word, k) ==
    {it \in Items(g) : \E n \in DerivedAt(g, word) :
        /\ n.var = Left(g, it.prod)
        /\ n.at + it.dot = k + 1
        /\ Matches(word, n.at, SubSeq(Right(g, it.prod), 1, it.dot))}

\* The item sets on the way along the word from the initial one.
KernelsAlong(g, word, K) ==
    /\ K \in [0 .. Len(word) -> SUBSET Items(g)]
    /\ K[0] = InitialItems(g)
    /\ \A k \in 1 .. Len(word) : K[k] = GotoItems(g, K[k - 1], word[k])

\* The prefix before a cursor one place further.
LEMMA LongerMatch ==
    ASSUME NEW g, IsGrammar(g), NEW p \in Productions(g), NEW word, Len(word) \in Nat,
           NEW at \in Nat, NEW d \in Nat, d + 1 \in 0 .. Len(Right(g, p))
    PROVE  Matches(word, at, SubSeq(Right(g, p), 1, d + 1)) <=>
                /\ Matches(word, at, SubSeq(Right(g, p), 1, d))
                /\ at + d <= Len(word)
                /\ Right(g, p)[d + 1] = word[at + d]
<1> PICK rhs, a, b : rhs = Right(g, p) /\ a = SubSeq(rhs, 1, d) /\ b = SubSeq(rhs, 1, d + 1)
  OBVIOUS
<1>1. rhs \in Seq(Symbols(g)) /\ Len(rhs) \in Nat
  BY ProductionShape
<1>2. d \in 0 .. Len(rhs) /\ d + 1 \in 1 .. d + 1 /\ \A k \in 1 .. d + 1 : k \in 1 .. d \/ k = d + 1
  BY <1>1
<1>3. /\ a \in Seq(Symbols(g)) /\ Len(a) = d /\ \A k \in 1 .. d : a[k] = rhs[k]
  BY <1>1, <1>2, PrefixShape
<1>4. PICK m : m = d + 1 /\ m \in 0 .. Len(rhs)
  OBVIOUS
<1>5. /\ b \in Seq(Symbols(g)) /\ Len(b) = d + 1 /\ \A k \in 1 .. d + 1 : b[k] = rhs[k]
  <2>1. b = SubSeq(rhs, 1, m)
    BY <1>4
  <2> QED
    BY <1>1, <1>4, <2>1, PrefixShape
<1>6. DOMAIN a = 1 .. d /\ DOMAIN b = 1 .. d + 1
  BY <1>3, <1>5
<1>7. \A k \in 1 .. d : k \in 1 .. d + 1 /\ b[k] = a[k]
  BY <1>2, <1>3, <1>5
<1>8. Matches(word, at, b) <=> /\ at + (d + 1) - 1 <= Len(word)
                               /\ \A k \in 1 .. d : word[at + k - 1] = a[k]
                               /\ word[at + (d + 1) - 1] = rhs[d + 1]
  <2>1. (\A k \in 1 .. d + 1 : word[at + k - 1] = b[k]) <=>
            /\ \A k \in 1 .. d : word[at + k - 1] = a[k]
            /\ word[at + (d + 1) - 1] = rhs[d + 1]
    BY <1>2, <1>5, <1>7
  <2> QED
    BY <1>5, <1>6, <2>1 DEF Matches
<1>9. Matches(word, at, a) <=> /\ at + d - 1 <= Len(word)
                               /\ \A k \in 1 .. d : word[at + k - 1] = a[k]
  BY <1>3, <1>6 DEF Matches
<1>10. at + (d + 1) - 1 = at + d /\ (at + d <= Len(word) => at + d - 1 <= Len(word))
  OBVIOUS
<1> QED
  BY <1>8, <1>9, <1>10

\* Nothing is before the cursor of an expanded production.
LEMMA EmptyMatch ==
    ASSUME NEW g, IsGrammar(g), NEW p \in Productions(g), NEW word, Len(word) \in Nat,
           NEW at \in 1 .. Len(word) + 1
    PROVE  Matches(word, at, SubSeq(Right(g, p), 1, 0))
<1>1. Right(g, p) \in Seq(Symbols(g)) /\ Len(Right(g, p)) \in Nat
  BY ProductionShape
<1> PICK z : z = 0
  OBVIOUS
<1>2. z \in 0 .. Len(Right(g, p))
  BY <1>1
<1>3. SubSeq(Right(g, p), 1, z) \in Seq(Symbols(g)) /\ Len(SubSeq(Right(g, p), 1, z)) = z
  BY <1>1, <1>2, PrefixShape
<1>4. DOMAIN SubSeq(Right(g, p), 1, z) = {}
  BY <1>3
<1> QED
  BY <1>3, <1>4 DEF Matches

\* A variable derived at a place expands there, and one after the cursor of an
\* item is derived where the item has got to.
LEMMA ItemsAtAreClosed ==
    ASSUME NEW g, IsGrammar(g), NEW word, Len(word) \in Nat, NEW k \in 0 .. Len(word)
    PROVE  /\ \A n \in DerivedAt(g, word) : n.at = k + 1 =>
                Expansion(g, n.var) \subseteq ItemsAt(g, word, k)
           /\ \A it \in ItemsAt(g, word, k), v \in Variables(g) : NextIs(g, it, v) =>
                Expansion(g, v) \subseteq ItemsAt(g, word, k)
<1>1. ASSUME NEW n \in DerivedAt(g, word), n.at = k + 1
      PROVE  Expansion(g, n.var) \subseteq ItemsAt(g, word, k)
  <2> SUFFICES ASSUME NEW p \in Productions(g), Left(g, p) = n.var
               PROVE  Item(p, 0) \in ItemsAt(g, word, k)
    BY DEF Expansion
  <2>1. Len(Right(g, p)) \in Nat
    BY ProductionShape
  <2>2. PICK z : z = 0 /\ z \in 0 .. Len(Right(g, p))
    BY <2>1
  <2>3. Item(p, z) \in Items(g) /\ Item(p, z).prod = p /\ Item(p, z).dot = z
    BY <2>2, ItemIn
  <2>4. n.at \in 1 .. Len(word) + 1 /\ n.at + z = k + 1
    BY <1>1, <2>2
  <2>5. Matches(word, n.at, SubSeq(Right(g, p), 1, z))
    BY <2>2, <2>4, EmptyMatch
  <2> QED
    BY <2>2, <2>3, <2>4, <2>5 DEF ItemsAt
<1>2. ASSUME NEW it \in ItemsAt(g, word, k), NEW v \in Variables(g), NextIs(g, it, v)
      PROVE  Expansion(g, v) \subseteq ItemsAt(g, word, k)
  <2>1. PICK n \in DerivedAt(g, word) :
            /\ n.var = Left(g, it.prod)
            /\ n.at + it.dot = k + 1
            /\ Matches(word, n.at, SubSeq(Right(g, it.prod), 1, it.dot))
    BY DEF ItemsAt
  <2>2. /\ it \in Items(g) /\ it.prod \in Productions(g) /\ it.dot \in 0 .. Len(Right(g, it.prod))
        /\ Len(Right(g, it.prod)) \in Nat
    BY ItemShape, ProductionShape DEF ItemsAt
  <2>3. it.dot # Len(Right(g, it.prod)) /\ Right(g, it.prod)[it.dot + 1] = v
    BY <1>2 DEF NextIs, IsFinalized
  <2> PICK i : i = it.dot + 1
    OBVIOUS
  <2>4. i \in 1 .. Len(Right(g, it.prod)) /\ i - 1 = it.dot
    BY <2>2, <2>3
  <2>5. Begins(g, word, n.at, it.prod, i)
    BY <2>1, <2>2, <2>3, <2>4 DEF Begins
  <2>6. Node(Right(g, it.prod)[i], n.at + i - 1) \in DerivedAt(g, word)
    BY <2>1, <2>5, DerivedAtIsLeast
  <2>7. n.at \in 1 .. Len(word) + 1
    BY DerivedAtIsLeast DEF Derivations
  <2>8. n.at + i - 1 = k + 1
    BY <2>1, <2>2, <2>4, <2>7
  <2>9. Node(v, k + 1) \in DerivedAt(g, word)
    BY <2>3, <2>6, <2>8
  <2>10. Node(v, k + 1).at = k + 1 /\ Node(v, k + 1).var = v
    BY DEF Node
  <2> QED
    BY <1>1, <2>9, <2>10
<1> QED
  BY <1>1, <1>2

\* An item with its cursor moved is at k when, one place back, it is at k - 1
\* before the k-th symbol.
LEMMA ItemsAtMove ==
    ASSUME NEW g, IsGrammar(g), NEW word, Len(word) \in Nat, NEW k \in 1 .. Len(word),
           NEW p \in Productions(g), NEW d \in Nat, d + 1 \in 0 .. Len(Right(g, p))
    PROVE  Item(p, d + 1) \in ItemsAt(g, word, k) <=>
                /\ Item(p, d) \in ItemsAt(g, word, k - 1)
                /\ NextIs(g, Item(p, d), word[k])
<1> DEFINE D == DerivedAt(g, word)
           rhs == Right(g, p)
<1>1. Len(rhs) \in Nat /\ d \in 0 .. Len(rhs) /\ d # Len(rhs)
  BY ProductionShape
<1> PICK e : e = d + 1
  OBVIOUS
<1>2. /\ Item(p, d) \in Items(g) /\ Item(p, d).prod = p /\ Item(p, d).dot = d
      /\ Item(p, e) \in Items(g) /\ Item(p, e).prod = p /\ Item(p, e).dot = e
  BY <1>1, ItemIn
<1>3. NextIs(g, Item(p, d), word[k]) <=> rhs[e] = word[k]
  BY <1>1, <1>2 DEF NextIs, IsFinalized
<1>4. Item(p, e) \in ItemsAt(g, word, k) <=>
        \E n \in D : n.var = Left(g, p) /\ n.at + e = k + 1 /\ Matches(word, n.at, SubSeq(rhs, 1, e))
  BY <1>2 DEF ItemsAt
<1>5. Item(p, d) \in ItemsAt(g, word, k - 1) <=>
        \E n \in D : n.var = Left(g, p) /\ n.at + d = (k - 1) + 1 /\ Matches(word, n.at, SubSeq(rhs, 1, d))
  BY <1>2 DEF ItemsAt
<1>6. ASSUME NEW n \in D
      PROVE  /\ n.at + e = k + 1 <=> n.at + d = (k - 1) + 1
             /\ n.at + d = (k - 1) + 1 =>
                (Matches(word, n.at, SubSeq(rhs, 1, e)) <=>
                    Matches(word, n.at, SubSeq(rhs, 1, d)) /\ rhs[e] = word[k])
  <2>1. n.at \in Nat
    BY DerivedAtIsLeast DEF Derivations
  <2>2. n.at + e = k + 1 <=> n.at + d = (k - 1) + 1
    BY <2>1
  <2>3. n.at + d = (k - 1) + 1 => n.at + d = k /\ k <= Len(word)
    BY <2>1
  <2>4. Matches(word, n.at, SubSeq(rhs, 1, d + 1)) <=>
                /\ Matches(word, n.at, SubSeq(rhs, 1, d))
                /\ n.at + d <= Len(word)
                /\ rhs[d + 1] = word[n.at + d]
    BY <2>1, LongerMatch
  <2> QED
    BY <2>2, <2>3, <2>4
<1> HIDE DEF D, rhs
<1>7. (\E n \in D : n.var = Left(g, p) /\ n.at + e = k + 1 /\ Matches(word, n.at, SubSeq(rhs, 1, e)))
      <=> /\ rhs[e] = word[k]
          /\ \E n \in D : n.var = Left(g, p) /\ n.at + d = (k - 1) + 1 /\ Matches(word, n.at, SubSeq(rhs, 1, d))
  BY <1>6
<1> QED
  BY <1>3, <1>4, <1>5, <1>7

\* The closure of the item set a word leads to holds exactly the items that
\* are valid for it.
LEMMA KernelsHoldTheValidItems ==
    ASSUME NEW g, IsGrammar(g), NEW word, Len(word) \in Nat, NEW K, KernelsAlong(g, word, K)
    PROVE  ClosureItems(g, K[Len(word)]) = ValidItems(g, word)
<1> DEFINE m == Len(word)
           V(k) == ItemsAt(g, word, k)
           D == DerivedAt(g, word)
           A == {k \in 0 .. m : ClosureItems(g, K[k]) = V(k)}
<1>1. \A k \in 0 .. m : K[k] \in SUBSET Items(g)
  BY DEF KernelsAlong
\* What starts right is closed right.
<1>2. ASSUME NEW k \in 0 .. m, K[k] \subseteq V(k) PROVE ClosureItems(g, K[k]) \subseteq V(k)
  <2> DEFINE S == {v \in Variables(g) : Expansion(g, v) \subseteq V(k)}
  <2>1. \A it \in V(k), v \in Variables(g) : NextIs(g, it, v) => Expansion(g, v) \subseteq V(k)
    BY ItemsAtAreClosed
  <2>2. Seeds(g, K[k]) \subseteq S
    BY <1>2, <2>1 DEF Seeds
  <2>3. \A u \in S : Heads(g, u) \subseteq S
    <3> SUFFICES ASSUME NEW u \in S, NEW w \in Variables(g), NEW p \in Productions(g),
                        Left(g, p) = u, Right(g, p) # <<>>, Right(g, p)[1] = w
                 PROVE  Expansion(g, w) \subseteq V(k)
      BY DEF Heads
    <3>1. Item(p, 0) \in V(k)
      BY DEF Expansion
    <3>2. Right(g, p) \in Seq(Symbols(g)) /\ Len(Right(g, p)) \in Nat /\ Len(Right(g, p)) # 0
      BY ProductionShape
    <3>3. NextIs(g, Item(p, 0), w)
      BY <3>2 DEF NextIs, IsFinalized, Item
    <3> QED
      BY <2>1, <3>1, <3>3
  <2>4. S \in SUBSET Variables(g)
    OBVIOUS
  <2> HIDE DEF S
  <2>5. ClosureVariables(g, K[k]) \subseteq S
    BY <2>2, <2>3, <2>4, ClosureVariablesLeast
  <2> QED
    BY <1>2, <2>5 DEF S, ClosureItems
\* Of what is at a place, the items with their cursor at the front are in the
\* closure when the others are.
<1>3. ASSUME NEW k \in 0 .. m, \A it \in V(k) : it.dot # 0 => it \in K[k],
             k = 0 => K[k] = InitialItems(g)
      PROVE  V(k) \subseteq ClosureItems(g, K[k])
  <2> DEFINE X == {n \in D : n.at = k + 1 => Expansion(g, n.var) \subseteq ClosureItems(g, K[k])}
  <2>1. Node(RootVariable(g), 1) \in X
    <3>1. Node(RootVariable(g), 1).at = 1 /\ Node(RootVariable(g), 1).var = RootVariable(g)
      BY DEF Node
    <3>2. k = 0 => Expansion(g, RootVariable(g)) \subseteq ClosureItems(g, K[k])
      BY <1>3 DEF InitialItems, ClosureItems
    <3>3. 1 = k + 1 => k = 0
      OBVIOUS
    <3> QED
      BY <3>1, <3>2, <3>3, DerivedAtIsLeast
  <2>2. ASSUME NEW n \in X \cap Derivations(g, word), NEW p, NEW i,
               Left(g, p) = n.var, Begins(g, word, n.at, p, i)
        PROVE  Node(Right(g, p)[i], n.at + i - 1) \in X
    <3>1. Node(Right(g, p)[i], n.at + i - 1) \in D
      BY <2>2, DerivedAtIsLeast
    <3> SUFFICES ASSUME n.at + i - 1 = k + 1
                 PROVE  Expansion(g, Right(g, p)[i]) \subseteq ClosureItems(g, K[k])
      BY <3>1 DEF Node
    <3>2. /\ p \in Productions(g) /\ i \in 1 .. Len(Right(g, p)) /\ Right(g, p)[i] \in Variables(g)
          /\ Matches(word, n.at, SubSeq(Right(g, p), 1, i - 1))
          /\ Len(Right(g, p)) \in Nat
      BY <2>2, ProductionShape DEF Begins
    <3> PICK d : d = i - 1
      OBVIOUS
    <3>3. d \in 0 .. Len(Right(g, p)) /\ d # Len(Right(g, p)) /\ d + 1 = i
      BY <3>2
    <3>4. Item(p, d) \in Items(g) /\ Item(p, d).prod = p /\ Item(p, d).dot = d
      BY <3>2, <3>3, ItemIn
    <3>5. n.at + d = k + 1
      <4>1. n.at \in Nat
        BY DEF Derivations
      <4> QED
        BY <3>2, <3>3, <4>1
    <3>6. Item(p, d) \in V(k)
      BY <2>2, <3>2, <3>4, <3>5 DEF ItemsAt
    <3>7. Item(p, d) \in ClosureItems(g, K[k])
      <4>1. CASE d = 0
        <5>1. n.at = k + 1
          <6>1. n.at \in Nat
            BY DEF Derivations
          <6> QED
            BY <3>5, <4>1, <6>1
        <5>2. Item(p, d) \in Expansion(g, n.var)
          BY <2>2, <3>2, <4>1 DEF Expansion
        <5> QED
          BY <5>1, <5>2
      <4>2. CASE d # 0
        BY <1>3, <3>4, <3>6, <4>2 DEF ClosureItems
      <4> QED
        BY <4>1, <4>2
    <3>8. NextIs(g, Item(p, d), Right(g, p)[i])
      BY <3>3, <3>4 DEF NextIs, IsFinalized
    <3>9. Right(g, p)[i] \in ClosureVariables(g, K[k])
      BY <3>2, <3>7, <3>8, NextIsInClosure
    <3> QED
      BY <3>9 DEF ClosureItems
  <2> HIDE DEF X
  <2>3. D \subseteq X
    BY <2>1, <2>2, DerivedAtIsLeast
  <2> SUFFICES ASSUME NEW it \in V(k) PROVE it \in ClosureItems(g, K[k])
    OBVIOUS
  <2>4. CASE it.dot # 0
    BY <1>3, <2>4 DEF ClosureItems
  <2>5. CASE it.dot = 0
    <3>1. PICK n \in D : n.var = Left(g, it.prod) /\ n.at + it.dot = k + 1
      BY DEF ItemsAt
    <3>2. n.at \in Nat
      BY DerivedAtIsLeast DEF Derivations
    <3>3. n.at = k + 1
      BY <2>5, <3>1, <3>2
    <3>4. Expansion(g, n.var) \subseteq ClosureItems(g, K[k])
      BY <2>3, <3>3 DEF X
    <3>5. it.prod \in Productions(g) /\ it = Item(it.prod, it.dot)
      BY ItemShape DEF ItemsAt
    <3> QED
      BY <2>5, <3>1, <3>4, <3>5 DEF Expansion
  <2> QED
    BY <2>4, <2>5
<1>4. 0 \in A
  <2>1. 0 \in 0 .. m /\ K[0] = InitialItems(g)
    BY DEF KernelsAlong
  <2>2. K[0] \subseteq V(0)
    <3>1. Node(RootVariable(g), 1) \in D /\ Node(RootVariable(g), 1).at = 0 + 1
          /\ Node(RootVariable(g), 1).var = RootVariable(g)
      BY DerivedAtIsLeast DEF Node
    <3>2. Expansion(g, RootVariable(g)) \subseteq ItemsAt(g, word, 0)
      BY <2>1, <3>1, ItemsAtAreClosed
    <3> QED
      BY <2>1, <3>2 DEF InitialItems
  <2>3. \A it \in V(0) : it.dot = 0
    <3> SUFFICES ASSUME NEW it \in V(0) PROVE it.dot = 0
      OBVIOUS
    <3>1. PICK n \in D : n.at + it.dot = 0 + 1
      BY DEF ItemsAt
    <3>2. n.at \in Nat /\ n.at >= 1
      BY DerivedAtIsLeast DEF Derivations
    <3>3. it.dot \in Nat
      <4>1. it.prod \in Productions(g) /\ it.dot \in 0 .. Len(Right(g, it.prod))
        BY ItemShape DEF ItemsAt
      <4> QED
        BY <4>1, ProductionShape
    <3> QED
      BY <3>1, <3>2, <3>3
  <2> HIDE DEF V
  <2>4. ClosureItems(g, K[0]) \subseteq V(0) /\ V(0) \subseteq ClosureItems(g, K[0])
    BY <1>2, <1>3, <2>1, <2>2, <2>3
  <2> QED
    BY <2>1, <2>4
<1>5. ASSUME NEW j \in 0 .. m, j # m, j \in A PROVE j + 1 \in A
  <2> PICK k : k = j + 1
    OBVIOUS
  <2>1. k \in 1 .. m /\ k - 1 = j /\ k \in 0 .. m /\ k # 0
    BY <1>5
  <2>2. K[k] = GotoItems(g, K[j], word[k]) /\ ClosureItems(g, K[j]) = V(j)
    BY <1>5, <2>1 DEF KernelsAlong
  <2>3. \A p \in Productions(g) : \A d \in Nat : d + 1 \in 0 .. Len(Right(g, p)) =>
            (Item(p, d + 1) \in V(k) <=> Item(p, d) \in V(j) /\ NextIs(g, Item(p, d), word[k]))
    BY <2>1, ItemsAtMove
  <2>4. \A it \in K[k] : it \in V(k)
    <3> SUFFICES ASSUME NEW it \in K[k] PROVE it \in V(k)
      OBVIOUS
    <3>1. PICK i0 \in V(j) : NextIs(g, i0, word[k]) /\ it = CreateSuccessor(i0)
      BY <2>2 DEF GotoItems
    <3>2. /\ i0.prod \in Productions(g) /\ i0.dot \in 0 .. Len(Right(g, i0.prod)) /\ i0 = Item(i0.prod, i0.dot)
          /\ Len(Right(g, i0.prod)) \in Nat
      BY ItemShape, ProductionShape DEF ItemsAt
    <3>3. i0.dot # Len(Right(g, i0.prod))
      BY <3>1 DEF NextIs, IsFinalized
    <3>4. i0.dot \in Nat /\ i0.dot + 1 \in 0 .. Len(Right(g, i0.prod))
      BY <3>2, <3>3
    <3> HIDE DEF V
    <3>5. Item(i0.prod, i0.dot + 1) \in V(k)
      BY <2>3, <3>1, <3>2, <3>4
    <3> QED
      BY <3>1, <3>5 DEF CreateSuccessor
  <2>5. \A it \in V(k) : it.dot # 0 => it \in K[k]
    <3> SUFFICES ASSUME NEW it \in V(k), it.dot # 0 PROVE it \in K[k]
      OBVIOUS
    <3>1. /\ it.prod \in Productions(g) /\ it.dot \in 0 .. Len(Right(g, it.prod)) /\ it = Item(it.prod, it.dot)
          /\ Len(Right(g, it.prod)) \in Nat
      BY ItemShape, ProductionShape DEF ItemsAt
    <3> PICK d : d = it.dot - 1
      OBVIOUS
    <3>2. d \in Nat /\ d + 1 = it.dot /\ d + 1 \in 0 .. Len(Right(g, it.prod))
      BY <3>1
    <3> HIDE DEF V
    <3>3. Item(it.prod, d) \in V(j) /\ NextIs(g, Item(it.prod, d), word[k])
      BY <2>3, <3>1, <3>2
    <3>4. it = CreateSuccessor(Item(it.prod, d))
      BY <3>1, <3>2 DEF CreateSuccessor, Item
    <3> QED
      BY <2>2, <3>3, <3>4 DEF GotoItems
  <2> HIDE DEF V
  <2>6. ClosureItems(g, K[k]) \subseteq V(k) /\ V(k) \subseteq ClosureItems(g, K[k])
    BY <1>2, <1>3, <2>1, <2>4, <2>5
  <2> QED
    BY <2>1, <2>6
<1>6. \A k \in 0 .. m : k \in A
  <2> HIDE DEF A, m
  <2>1. \A k \in 0 .. m : k # m /\ k \in A => k + 1 \in A
    BY <1>5
  <2>2. m \in Nat
    BY DEF m
  <2> QED
    BY <1>4, <2>1, <2>2, IntervalInduction
<1>7. m \in 0 .. m
  OBVIOUS
<1>8. ClosureItems(g, K[m]) = V(m)
  BY <1>6, <1>7
<1>9. V(m) = ValidItems(g, word)
  BY DEF ItemsAt, ValidItems
<1> QED
  BY <1>8, <1>9

\* at are the states delta passes along the word, -1 from where there is no
\* way on.
Passes(at, S, delta, i, word) ==
    /\ at \in [0 .. Len(word) -> S]
    /\ at[0] = i /\ Path(delta, i, word) = at[Len(word)]
    /\ \A k \in 1 .. Len(word) :
        at[k] = IF at[k - 1] = -1 THEN -1 ELSE delta[at[k - 1]][word[k]]

\* Path follows delta from state to state until there is no way on.
LEMMA PathIsFollowed ==
    ASSUME NEW S, -1 \in S, NEW delta, NEW i \in S, NEW word, Len(word) \in Nat,
           \A j \in S : \A k \in 1 .. Len(word) : j # -1 => delta[j][word[k]] \in S
    PROVE  \E at : Passes(at, S, delta, i, word)
<1> DEFINE n == Len(word)
           StepOf(j, k) == IF j = -1 THEN -1 ELSE delta[j][word[k]]
           f == [k \in 1 .. n |-> [j \in S |-> StepOf(j, k)]]
<1>1. n \in Nat
  OBVIOUS
<1>2. \A j \in S : \A k \in 1 .. n : StepOf(j, k) \in S
  OBVIOUS
<1>3. /\ f \in [1 .. n -> [S -> S]]
      /\ \A k \in 1 .. n : \A j \in S : f[k][j] = StepOf(j, k)
  BY <1>2
<1>4. PICK w : w \in [0 .. n -> S] /\ w[0] = i /\ \A k \in 1 .. n : w[k] = f[k][w[k - 1]]
  <2> HIDE DEF f, n
  <2>1. \E w : Iterates(w, n, S, i, f)
    BY <1>1, <1>3, RecursionIsSolved
  <2> QED
    BY <2>1 DEF Iterates
<1>5. \A k \in 0 .. n : w[k] = IF k = 0 THEN i ELSE StepOf(w[k - 1], k)
  <2> SUFFICES ASSUME NEW k \in 0 .. n, k # 0 PROVE w[k] = StepOf(w[k - 1], k)
    BY <1>4
  <2>1. k \in 1 .. n /\ k - 1 \in 0 .. n
    BY <1>1
  <2>2. w[k - 1] \in S /\ w[k] = f[k][w[k - 1]]
    BY <1>4, <2>1
  <2> HIDE DEF f, StepOf, n
  <2> QED
    BY <1>3, <2>1, <2>2
<1>6. w = [k \in 0 .. n |-> IF k = 0 THEN i
                            ELSE LET j == w[k - 1] IN IF j = -1 THEN -1 ELSE delta[j][word[k]]]
  BY <1>4, <1>5
<1> DEFINE at == CHOOSE v : v = [k \in 0 .. n |-> IF k = 0 THEN i
                            ELSE LET j == v[k - 1] IN IF j = -1 THEN -1 ELSE delta[j][word[k]]]
<1>7. at = [k \in 0 .. n |-> IF k = 0 THEN i
                            ELSE LET j == at[k - 1] IN IF j = -1 THEN -1 ELSE delta[j][word[k]]]
  BY <1>6
<1>8. Path(delta, i, word) = at[n]
  BY DEF Path
<1> HIDE DEF at
<1>9. at[0] = i /\ \A k \in 1 .. n : at[k] = StepOf(at[k - 1], k)
  <2>1. 0 \in 0 .. n /\ \A k \in 1 .. n : k \in 0 .. n /\ k # 0
    BY <1>1
  <2> QED
    BY <1>7, <2>1
<1> HIDE DEF n
<1>10. \A k \in 0 .. n : at[k] \in S
  <2> DEFINE A == {k \in 0 .. n : at[k] \in S}
  <2>1. 0 \in A
    BY <1>1, <1>9
  <2>2. \A k \in 0 .. n : k # n /\ k \in A => k + 1 \in A
    <3> SUFFICES ASSUME NEW k \in 0 .. n, k # n, at[k] \in S PROVE k + 1 \in A
      OBVIOUS
    <3>1. k + 1 \in 1 .. n /\ k + 1 \in 0 .. n /\ (k + 1) - 1 = k
      BY <1>1
    <3>2. at[k + 1] = StepOf(at[k], k + 1)
      BY <1>9, <3>1
    <3> HIDE DEF StepOf
    <3> QED
      BY <1>2, <3>1, <3>2
  <2> HIDE DEF A
  <2>3. \A k \in 0 .. n : k \in A
    BY <1>1, <2>1, <2>2, IntervalInduction
  <2> QED
    BY <2>3 DEF A
<1>11. at \in [0 .. n -> S]
  BY <1>7, <1>10
<1> QED
  BY <1>8, <1>9, <1>11 DEF n, Passes

\* Nothing is in the closure of nothing.
LEMMA EmptyClosure ==
    ASSUME NEW g
    PROVE  ClosureItems(g, {}) = {} /\ \A s : GotoItems(g, {}, s) = {}
<1>1. Seeds(g, {}) = {}
  BY DEF Seeds
<1> PICK E : E = {}
  OBVIOUS
<1>2. ClosureVariables(g, {}) \subseteq E
  <2>1. E \in SUBSET Variables(g) /\ Seeds(g, {}) \subseteq E /\ \A u \in E : Heads(g, u) \subseteq E
    BY <1>1
  <2> QED
    BY <2>1, ClosureVariablesLeast
<1>3. ClosureItems(g, {}) = {}
  BY <1>2 DEF ClosureItems
<1> QED
  BY <1>3 DEF GotoItems
=============================================================================
