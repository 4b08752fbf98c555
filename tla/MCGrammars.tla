----------------------------- MODULE MCGrammars -----------------------------
(***************************************************************************)
(* The grammars the model-checking runs use.  Each is written the way a    *)
(* configuration lists it: tokens, rules in order (the last is the root),  *)
(* productions in order.                                                   *)
(***************************************************************************)
EXTENDS Grammars

P(lhs, rhs) == [lhs |-> lhs, rhs |-> rhs]

Gram(tokens, variables, productions) ==
    [tokens |-> tokens, variables |-> variables, productions |-> productions]

\* E = E p T | T;  T = a | l E r;  S = E
Arithmetic ==
    Gram(<<"a", "p", "l", "r">>, <<"T", "E", "S">>,
         <<P("T", <<"a">>), P("T", <<"l", "E", "r">>),
           P("E", <<"E", "p", "T">>), P("E", <<"T">>), P("S", <<"E">>)>>)

\* S = L q R | R;  L = s R | i;  R = L: LALR(1), not SLR(1)
Pointers ==
    Gram(<<"q", "s", "i">>, <<"L", "R", "S">>,
         <<P("L", <<"s", "R">>), P("L", <<"i">>), P("R", <<"L">>),
           P("S", <<"L", "q", "R">>), P("S", <<"R">>)>>)

\* S = a A c | a B d | b A d | b B c;  A = e;  B = e: LR(1), not LALR(1)
NotLALR ==
    Gram(<<"a", "b", "c", "d", "e">>, <<"A", "B", "S">>,
         <<P("A", <<"e">>), P("B", <<"e">>),
           P("S", <<"a", "A", "c">>), P("S", <<"a", "B", "d">>),
           P("S", <<"b", "A", "d">>), P("S", <<"b", "B", "c">>)>>)

\* S = a g d | a A c | b A d | b g c;  A = B;  B = g: LALR(1)
SharedGoto ==
    Gram(<<"a", "b", "c", "d", "g">>, <<"B", "A", "S">>,
         <<P("B", <<"g">>), P("A", <<"B">>),
           P("S", <<"a", "g", "d">>), P("S", <<"a", "A", "c">>),
           P("S", <<"b", "A", "d">>), P("S", <<"b", "g", "c">>)>>)

\* S = X | Y;  X = x X | x;  Y = x y
Sentence ==
    Gram(<<"x", "y">>, <<"X", "Y", "S">>,
         <<P("X", <<"x", "X">>), P("X", <<"x">>), P("Y", <<"x", "y">>),
           P("S", <<"X">>), P("S", <<"Y">>)>>)

\* Roots on a right-hand side: nested, at the left, at the right.
NestedRoot ==
    Gram(<<"l", "r", "a">>, <<"S">>, <<P("S", <<"l", "S", "r">>), P("S", <<"a">>)>>)
LeftRecursiveRoot ==
    Gram(<<"a">>, <<"S">>, <<P("S", <<"S", "a">>), P("S", <<"a">>)>>)
RightRecursiveRoot ==
    Gram(<<"a", "b">>, <<"S">>, <<P("S", <<"a", "S">>), P("S", <<"b">>)>>)

\* Ambiguous: E = E p E | a;  S = E
Ambiguous ==
    Gram(<<"a", "p">>, <<"E", "S">>,
         <<P("E", <<"E", "p", "E">>), P("E", <<"a">>), P("S", <<"E">>)>>)

\* Two productions of one variable are equal.
Twice == Gram(<<"a">>, <<"A", "S">>,
              <<P("A", <<"a">>), P("A", <<"a">>), P("S", <<"A">>)>>)

\* A variable that derives no string, and a cycle.
Unproductive ==
    Gram(<<"a", "b">>, <<"A", "S">>,
         <<P("A", <<"b", "A">>), P("S", <<"a">>), P("S", <<"A">>)>>)
Cyclic ==
    Gram(<<"a">>, <<"A", "S">>,
         <<P("A", <<"A">>), P("A", <<"a">>), P("S", <<"A">>)>>)

\* With empty productions: S = A b;  A = a | .
OptionalHead ==
    Gram(<<"a", "b">>, <<"A", "S">>,
         <<P("A", <<"a">>), P("A", <<>>), P("S", <<"A", "b">>)>>)

FreshRooted == {Arithmetic, Pointers, NotLALR, SharedGoto, Sentence, Ambiguous,
                Twice, Unproductive, Cyclic}
RootRecursive == {NestedRoot, LeftRecursiveRoot, RightRecursiveRoot}

-----------------------------------------------------------------------------
(* 256 grammars over two tokens, a variable A and a root S with two        *)
(* productions each: recursive, ambiguous and useless ones among them.     *)

SmallGrammars ==
    LET Bodies == {<<"a">>, <<"A", "b">>, <<"b", "A">>, <<"S">>}
        RootBodies == {<<"A">>, <<"a", "S">>, <<"A", "A">>, <<"b">>}
    IN  {Gram(<<"a", "b">>, <<"A", "S">>,
              <<P("A", r1), P("A", r2), P("S", r3), P("S", r4)>>) :
            r1 \in Bodies, r2 \in Bodies, r3 \in RootBodies, r4 \in RootBodies}

Words(alphabet, n) == UNION {[1 .. k -> alphabet] : k \in 0 .. n}
=============================================================================
