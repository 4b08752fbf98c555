--------------------------- MODULE MCASTBuilding ----------------------------
(* One rule is varied: its type, its hint, and what its two items do.       *)
EXTENDS ASTBuilding

Q(name, qual) == [name |-> name, qual |-> qual]
M(type, name) == [type |-> type, name |-> name]
S(symbol, assign) == [symbol |-> symbol, assign |-> assign]
R(name, type, items) == [name |-> name, type |-> type, items |-> items]
I(rhs, hint) == [rhs |-> rhs, hint |-> hint]
T(name) == [name |-> name, regex |-> TRUE]

Leaf == R("Leaf", Q("C", ""), <<I(<<S("A", "t")>>, Q("_", ""))>>)

\* A rule of each type for the varied rule to use.
Kids ==
    { R("Kid", Q("E", ""), <<I(<<S("A", "")>>, Q("v1", ""))>>),
      R("Kid", Q("C", ""), <<I(<<S("Leaf", "!")>>, NoHint)>>),
      R("Kid", Q("B", ""), <<I(<<S("Leaf", "!")>>, NoHint)>>),
      R("Kid", Q("C", "vec"), <<I(<<S("Leaf", "&")>>, Q("_", ""))>>),
      R("Kid", Q("B", "opt"), <<I(<<S("Leaf", "!")>>, NoHint)>>) }

SubTypes == {Q(n, q) : n \in {"E", "B", "C", "D"}, q \in {"", "vec", "opt"}} \cup {Q("token", ""), Q("token", "opt")}
Hints == {NoHint, Q("_", ""), Q("v1", ""), Q("C", ""), Q("D", ""), Q("C", "opt")}
Assigns == {"", "!", "&", "t", "e", "o", "v", "b"}

Config(kid, sub) ==
    [ enums |-> <<[name |-> "E", choices |-> <<"v0", "v1", "C">>]>>,
      bases |-> <<[name |-> "B"]>>,
      nodes |-> << [name |-> "C", parent |-> "B",
                    members |-> <<M(Q("token", ""), "t"), M(Q("E", ""), "e"), M(Q("B", "opt"), "o"),
                                  M(Q("C", "vec"), "v"), M(Q("B", ""), "b")>>],
                   [name |-> "D", parent |-> "", members |-> <<>>],
                   [name |-> "F", parent |-> "", members |-> <<M(sub.type, "f")>>] >>,
      tokens |-> <<T("A")>>,
      ignored_tokens |-> <<T("W")>>,
      rules |-> <<Leaf, kid, sub, R("Top", Q("F", ""), <<I(<<S("Sub", "f")>>, Q("_", ""))>>)>> ]

Varied == {Config(kid, R("Sub", type, <<I(<<S("Kid", a1), S("A", a2)>>, hint)>>)) :
              kid \in Kids, type \in SubTypes, hint \in Hints, a1 \in Assigns, a2 \in {"", "!", "t"}}

\* A list, as of the functions of a program.
List == Config(CHOOSE k \in Kids : k.type = Q("B", ""),
               R("Sub", Q("B", "vec"), <<I(<<S("Kid", "&")>>, Q("_", "")), I(<<S("Sub", "!"), S("Leaf", "&")>>, NoHint)>>))

\* Definitions that clash or do not resolve.
Broken ==
    { [List EXCEPT !.enums[1].name = "C"], [List EXCEPT !.bases[1].name = "E"],
      [List EXCEPT !.nodes[2].name = "token"], [List EXCEPT !.nodes[1].parent = "E"],
      [List EXCEPT !.nodes[3].members[1].type.name = "X"], [List EXCEPT !.tokens[1].regex = FALSE],
      [List EXCEPT !.ignored_tokens[1].regex = FALSE], [List EXCEPT !.rules[1].name = "A"],
      [List EXCEPT !.rules[1].type.name = "X"], [List EXCEPT !.rules[1].items[1].rhs[1].symbol = "W"] }

MCConfigs == Varied \cup {List} \cup Broken
=============================================================================
