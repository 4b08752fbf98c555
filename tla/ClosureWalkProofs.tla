-------------------------- MODULE ClosureWalkProofs -------------------------
(***************************************************************************)
(* EnumerateClosureItems visits exactly the closure of the kernel, for     *)
(* every grammar and every kernel.                                         *)
(***************************************************************************)
EXTENDS ClosureWalk, GrammarTheorems

OnStack == {to_be_visited[i] : i \in DOMAIN to_be_visited}
Handled == VisitedItems \cup batch

\* Nothing outside the closure is ever added or visited.
WalkIsSound ==
    /\ added \subseteq ClosureVariables(g, walk.kernel)
    /\ Handled \subseteq ClosureItems(g, walk.kernel)

\* A variable that was added is on the stack, or its productions were handed
\* to the inner loop; the kernel was; and what follows the cursor of a visited
\* item was added.
WalkIsComplete ==
    /\ OnStack \subseteq added
    /\ \A v \in added : v \in OnStack \/ Expansion(g, v) \subseteq Handled
    /\ walk.kernel \subseteq Handled
    /\ \A it \in VisitedItems, v \in Variables(g) : NextIs(g, it, v) => v \in added

WalkInvariant == TypeOK /\ WalkIsSound /\ WalkIsComplete

-----------------------------------------------------------------------------
\* The callback and try_register_candidate on the next item keep the invariant.
LEMMA VisitItemKeepsInvariant ==
    ASSUME WalkInvariant, VisitItem
    PROVE  WalkInvariant'
<1> USE DEF g
<1>1. PICK it \in batch : /\ batch' = batch \ {it}
                          /\ visited' = Append(visited, it)
                          /\ TryRegisterCandidate(it)
  BY DEF VisitItem
<1>2. walk' = walk
  BY DEF VisitItem
<1>3. it \in Items(g) /\ it \in ClosureItems(g, walk.kernel) /\ IsGrammar(g)
  BY DEF WalkInvariant, TypeOK, WalkIsSound, Handled
<1>4. visited' \in Seq(Items(g)) /\ VisitedItems' = VisitedItems \cup {it}
  <2>1. visited \in Seq(Items(g))
    BY DEF WalkInvariant, TypeOK
  <2> QED
    BY <1>1, <1>3, <2>1 DEF VisitedItems
<1>5. Handled' = Handled
  BY <1>1, <1>4 DEF Handled
<1>6. CASE \E v \in Variables(g) \ added :
              /\ NextIs(g, it, v)
              /\ added' = added \cup {v}
              /\ to_be_visited' = Append(to_be_visited, v)
  <2>1. PICK v \in Variables(g) \ added :
              /\ NextIs(g, it, v)
              /\ added' = added \cup {v}
              /\ to_be_visited' = Append(to_be_visited, v)
    BY <1>6
  <2>2. to_be_visited' \in Seq(Variables(g)) /\ OnStack' = OnStack \cup {v}
    <3>1. to_be_visited \in Seq(Variables(g))
      BY DEF WalkInvariant, TypeOK
    <3> QED
      BY <2>1, <3>1 DEF OnStack
  <2>3. TypeOK'
    BY <1>1, <1>2, <1>4, <2>1, <2>2 DEF WalkInvariant, TypeOK
  <2>4. v \in ClosureVariables(g, walk.kernel)
    BY <1>3, <2>1, NextIsInClosure
  <2>5. WalkIsSound'
    BY <1>2, <1>5, <2>1, <2>4 DEF WalkInvariant, WalkIsSound
  <2>6. \A u \in Variables(g) : NextIs(g, it, u) => u \in added'
    BY <2>1 DEF NextIs
  <2>7. WalkIsComplete'
    BY <1>2, <1>4, <1>5, <2>1, <2>2, <2>6 DEF WalkInvariant, WalkIsComplete
  <2> QED
    BY <2>3, <2>5, <2>7 DEF WalkInvariant
<1>7. CASE /\ \A v \in Variables(g) \ added : ~NextIs(g, it, v)
           /\ UNCHANGED <<added, to_be_visited>>
  <2>1. OnStack' = OnStack
    BY <1>7 DEF OnStack
  <2>2. TypeOK'
    BY <1>1, <1>2, <1>4, <1>7 DEF WalkInvariant, TypeOK
  <2>3. WalkIsSound'
    BY <1>2, <1>5, <1>7 DEF WalkInvariant, WalkIsSound
  <2>4. WalkIsComplete'
    BY <1>2, <1>4, <1>5, <1>7, <2>1 DEF WalkInvariant, WalkIsComplete
  <2> QED
    BY <2>2, <2>3, <2>4 DEF WalkInvariant
<1> QED
  BY <1>1, <1>6, <1>7 DEF TryRegisterCandidate

\* So does popping a variable, whose productions become the inner loop's.
LEMMA TakeVariableKeepsInvariant ==
    ASSUME WalkInvariant, TakeVariable
    PROVE  WalkInvariant'
<1> USE DEF g
<1> DEFINE n == Len(to_be_visited)
           v == to_be_visited[n]
<1>1. /\ batch = {} /\ to_be_visited # <<>>
      /\ batch' = Expansion(g, v)
      /\ to_be_visited' = SubSeq(to_be_visited, 1, n - 1)
      /\ walk' = walk /\ added' = added /\ visited' = visited
  BY DEF TakeVariable
<1>2. to_be_visited \in Seq(Variables(g)) /\ IsGrammar(g)
  BY DEF WalkInvariant, TypeOK
<1>3. /\ n \in Nat \ {0} /\ v \in OnStack
      /\ to_be_visited' \in Seq(Variables(g))
      /\ OnStack' \subseteq OnStack /\ OnStack \subseteq OnStack' \cup {v}
  <2>1. n \in Nat \ {0} /\ DOMAIN to_be_visited = 1 .. n /\ n - 1 \in 0 .. n
    BY <1>1, <1>2
  <2>2. /\ to_be_visited' \in Seq(Variables(g)) /\ Len(to_be_visited') = n - 1
        /\ \A i \in 1 .. (n - 1) : to_be_visited'[i] = to_be_visited[i]
    BY <1>1, <1>2, <2>1, PrefixShape
  <2>3. DOMAIN to_be_visited' = 1 .. (n - 1)
    BY <2>2
  <2> HIDE DEF n
  <2>4. v \in OnStack
    BY <2>1 DEF OnStack
  <2>5. OnStack' \subseteq OnStack
    BY <2>1, <2>2, <2>3 DEF OnStack
  <2>6. OnStack \subseteq OnStack' \cup {v}
    BY <2>1, <2>2, <2>3 DEF OnStack
  <2> QED
    BY <2>1, <2>2, <2>4, <2>5, <2>6
<1>4. v \in ClosureVariables(g, walk.kernel)
  BY <1>3 DEF WalkInvariant, WalkIsComplete, WalkIsSound
<1>5. VisitedItems' = VisitedItems /\ Handled' = Handled \cup Expansion(g, v)
  BY <1>1 DEF VisitedItems, Handled
<1>6. TypeOK'
  BY <1>1, <1>2, <1>3, ExpansionType DEF WalkInvariant, TypeOK
<1>7. WalkIsSound'
  BY <1>1, <1>4, <1>5 DEF WalkInvariant, WalkIsSound, ClosureItems
<1>8. WalkIsComplete'
  BY <1>1, <1>3, <1>5 DEF WalkInvariant, WalkIsComplete
<1> QED
  BY <1>6, <1>7, <1>8 DEF WalkInvariant

\* The invariant is inductive.
THEOREM InvariantHolds == Spec => []WalkInvariant
<1>1. Init => WalkInvariant
  <2> SUFFICES ASSUME Init PROVE WalkInvariant
    OBVIOUS
  <2>1. IsGrammar(g) /\ walk.kernel \in SUBSET Items(g)
    BY WalksAssumption DEF Init, g
  <2>2. VisitedItems = {} /\ OnStack = {} /\ Handled = walk.kernel
    BY DEF Init, VisitedItems, OnStack, Handled
  <2>3. TypeOK
    BY <2>1 DEF Init, TypeOK
  <2>4. WalkIsSound /\ WalkIsComplete
    BY <2>2 DEF Init, WalkIsSound, WalkIsComplete, ClosureItems
  <2> QED
    BY <2>3, <2>4 DEF WalkInvariant
<1>2. WalkInvariant /\ [Next]_vars => WalkInvariant'
  <2>1. WalkInvariant /\ UNCHANGED vars => WalkInvariant'
    BY DEF WalkInvariant, TypeOK, WalkIsSound, WalkIsComplete, VisitedItems, OnStack,
           Handled, vars, g
  <2> QED
    BY <2>1, VisitItemKeepsInvariant, TakeVariableKeepsInvariant DEF Next
<1> QED
  BY <1>1, <1>2, PTL DEF Spec

\* The walk's state is made of items and variables of its grammar, for every
\* grammar and kernel.
THEOREM WalkTypes == Spec => []TypeOK
<1>1. WalkInvariant => TypeOK
  BY DEF WalkInvariant
<1> QED
  BY <1>1, InvariantHolds, PTL

\* When EnumerateClosureItems returns, the callback has seen exactly the
\* closure of the kernel: the use of ClosureItems in the other modules is
\* sound for every grammar.
THEOREM ClosureIsExact == Spec => []VisitsExactlyTheClosure
<1>1. WalkInvariant => VisitsExactlyTheClosure
  <2> SUFFICES ASSUME WalkInvariant, Done
               PROVE  VisitedItems = ClosureItems(g, walk.kernel)
    BY DEF VisitsExactlyTheClosure
  <2> DEFINE K == walk.kernel
  <2>1. Handled = VisitedItems /\ OnStack = {}
    BY DEF Done, Handled, OnStack
  <2>2. /\ K \subseteq VisitedItems
        /\ \A v \in added : Expansion(g, v) \subseteq VisitedItems
        /\ \A it \in VisitedItems, v \in Variables(g) : NextIs(g, it, v) => v \in added
        /\ added \in SUBSET Variables(g) /\ IsGrammar(g)
    BY <2>1 DEF WalkInvariant, WalkIsComplete, TypeOK
  <2>3. Seeds(g, K) \subseteq added
    BY <2>2 DEF Seeds
  <2>4. ASSUME NEW u \in added PROVE Heads(g, u) \subseteq added
    <3> SUFFICES ASSUME NEW w \in Heads(g, u) PROVE w \in added
      OBVIOUS
    <3>1. w \in Variables(g) /\ \E p \in Productions(g) :
              Left(g, p) = u /\ Right(g, p) # <<>> /\ Right(g, p)[1] = w
      BY DEF Heads
    <3>2. PICK p \in Productions(g) :
              Left(g, p) = u /\ Right(g, p) # <<>> /\ Right(g, p)[1] = w
      BY <3>1
    <3>3. Item(p, 0) \in VisitedItems
      BY <2>2, <3>2 DEF Expansion
    <3>4. Right(g, p) \in Seq(Symbols(g)) /\ Len(Right(g, p)) # 0
      BY <2>2, <3>2, ProductionShape
    <3>5. NextIs(g, Item(p, 0), w)
      BY <3>2, <3>4 DEF NextIs, IsFinalized, Item
    <3> QED
      BY <2>2, <3>1, <3>3, <3>5
  <2>5. ClosureVariables(g, K) \subseteq added
    BY <2>2, <2>3, <2>4, ClosureVariablesLeast
  <2>6. ClosureItems(g, K) \subseteq VisitedItems
    BY <2>2, <2>5 DEF ClosureItems
  <2>7. VisitedItems \subseteq ClosureItems(g, K)
    BY <2>1 DEF WalkInvariant, WalkIsSound
  <2> QED
    BY <2>6, <2>7
<1> QED
  BY <1>1, InvariantHolds, PTL
=============================================================================
