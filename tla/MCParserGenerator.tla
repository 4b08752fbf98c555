------------------------- MODULE MCParserGenerator --------------------------
(* The generator end to end: grammars, texts that are configurations of    *)
(* them, and every short input for each.                                   *)
EXTENDS ParserGenerator, MCGrammars

T == INSTANCE TextbookLR

MCGrammarChoices == {Arithmetic, Pointers, Sentence, SharedGoto, NestedRoot,
                     RightRecursiveRoot, Unproductive, Cyclic, Twice}
LeftRecursiveChoices == {LeftRecursiveRoot}

-----------------------------------------------------------------------------
(* Configurations of the grammars, written in three layouts and damaged.   *)

MCLetters == {"token", "ignore", "enum", "base", "node", "rule", "x", "vec", "s"}
             \cup UNION {Symbols(gr) : gr \in MCGrammarChoices \cup LeftRecursiveChoices}
MCDigits == {"1"}

NodeType == [name |-> <<"x", "1">>, qual |-> <<>>]
VectorType == [NodeType EXCEPT !.qual = <<"vec">>]
Pattern == <<"\"", "#", " ", "\"", "s", "\"">>

\* The i-th item of a rule hands its symbols on in the i-th way.
Assigns == <<<<"!">>, <<>>, <<"&">>, <<"s", "_">>>>
Hints == <<[name |-> <<>>, qual |-> <<>>], VectorType, [name |-> <<"_">>, qual |-> <<>>]>>

RulesOf(gr) ==
    LET items(v) == SelectSeq(gr.productions, LAMBDA q : q.lhs = v)
        symbols(rhs, i) == [k \in DOMAIN rhs |-> [symbol |-> <<rhs[k]>>, assign |-> Assigns[((i + k) % 4) + 1]]]
        rule(v) == [name |-> <<v>>, type |-> IF v = RootVariable(gr) THEN NodeType ELSE VectorType,
                    items |-> [i \in DOMAIN items(v) |->
                                [rhs |-> symbols(items(v)[i].rhs, i), hint |-> Hints[(i % 3) + 1]]]]
    IN  [r \in DOMAIN gr.variables |-> rule(gr.variables[r])]

ConfigurationOf(gr) ==
    [tokens |-> [i \in DOMAIN gr.tokens |-> [name |-> <<gr.tokens[i]>>, regex |-> Pattern]],
     ignored_tokens |-> <<[name |-> <<"s", "_", "s">>, regex |-> <<"\"", "\"">>]>>,
     enums |-> <<[name |-> <<"enum", "s">>, choices |-> <<<<"token">>, <<"x", "_">>>>],
                 [name |-> <<"s">>, choices |-> <<>>]>>,
     bases |-> <<[name |-> <<"base">>]>>,
     nodes |-> <<[name |-> <<"x", "1">>, parent |-> <<"base">>,
                  members |-> <<[type |-> VectorType, name |-> <<"s">>], [type |-> NodeType, name |-> <<"x">>]>>],
                 [name |-> <<"x">>, parent |-> <<>>, members |-> <<>>]>>,
     rules |-> RulesOf(gr)]

\* Items that no grammar has: quoted symbols, none at all, a rule without types.
Odd == [ConfigurationOf(Twice) EXCEPT
            !.rules = <<[name |-> <<"s">>, type |-> NodeType,
                         items |-> <<[rhs |-> <<>>, hint |-> Hints[3]], [rhs |-> <<>>, hint |-> Hints[1]],
                                     [rhs |-> <<[symbol |-> Pattern, assign |-> <<"!">>],
                                                [symbol |-> <<"\"", "\"">>, assign |-> <<>>]>>,
                                      hint |-> Hints[2]]>>]>>]

\* The lexemes of a configuration, each a sequence of characters.
Join(list, Write(_)) == FlattenSeq([i \in DOMAIN list |-> Write(list[i])])
Quoted(string) ==
    <<<<"\"">> \o Join(SubSeq(string, 2, Len(string) - 1), LAMBDA c : IF c = "\"" THEN <<c, c>> ELSE <<c>>)
                \o <<"\"">>>>
Spec_(type) == <<IF type.qual = <<>> THEN type.name ELSE type.name \o <<"'">> \o type.qual>>

Written(c) ==
    LET token(keyword, d) == <<<<keyword>>, d.name, <<"=">>>> \o Quoted(d.regex) \o <<<<";">>>>
        enum(d) == <<<<"enum">>, d.name, <<"{">>>> \o Join(d.choices, LAMBDA v : <<v, <<";">>>>) \o <<<<"}">>>>
        base(d) == <<<<"base">>, d.name, <<";">>>>
        node(d) == <<<<"node">>, d.name>> \o (IF d.parent = <<>> THEN <<>> ELSE <<<<":">>, d.parent>>) \o <<<<"{">>>>
                   \o Join(d.members, LAMBDA m : Spec_(m.type) \o <<m.name, <<";">>>>) \o <<<<"}">>>>
        symbol(x) == (IF Head(x.symbol) = "\"" THEN Quoted(x.symbol) ELSE <<x.symbol>>)
                     \o (IF x.assign = <<>> THEN <<>> ELSE IF x.assign \in {<<"!">>, <<"&">>} THEN <<x.assign>>
                         ELSE <<<<":">>, x.assign>>)
        item(x) == <<<<"=">>>> \o Join(x.rhs, symbol)
                   \o (IF x.hint.name = <<>> THEN <<>> ELSE <<<<"->">>>> \o Spec_(x.hint))
        rule(d) == <<<<"rule">>, d.name, <<":">>>> \o Spec_(d.type) \o Join(d.items, item) \o <<<<";">>>>
    IN  Join(c.tokens, LAMBDA d : token("token", d)) \o Join(c.ignored_tokens, LAMBDA d : token("ignore", d))
        \o Join(c.enums, enum) \o Join(c.bases, base) \o Join(c.nodes, node) \o Join(c.rules, rule)

NameCharacters == MCLetters \cup MCDigits \cup {"_"}
Separated(lexemes, Between(_, _)) ==
    FlattenSeq([i \in DOMAIN lexemes |->
        IF i = 1 THEN lexemes[i] ELSE Between(Last(lexemes[i - 1]), Head(lexemes[i])) \o lexemes[i]])
Spaced(lexemes) == Separated(lexemes, LAMBDA a, b : <<" ">>)
Dense(lexemes) ==
    Separated(lexemes, LAMBDA a, b :
        IF {a, b} \subseteq NameCharacters \/ (a = "\"" /\ b = "\"") THEN <<"\t">> ELSE <<>>)
Commented(lexemes) ==
    Separated(lexemes, LAMBDA a, b : <<"#", "x", "\"", "\n", "\r", " ", "#", "\n", "#", "#", "\n">>)

Layouts(c) == {Spaced(Written(c)), Dense(Written(c)), Commented(Written(c)), Commented(Written(c)) \o <<" ", "#", "x">>}
Samples(gr) == {ConfigurationOf(gr)} \cup (IF gr = Twice THEN {Odd} ELSE {})

\* A lexeme is left out, or there twice; a text ends early.
Damaged(c) ==
    LET w == Written(c)
    IN  {Spaced(RemoveAt(w, i)) : i \in DOMAIN w} \cup {Dense(InsertAt(w, i, w[i])) : i \in DOMAIN w}
        \cup {SubSeq(Spaced(w), 1, n) : n \in 1 .. (Len(Spaced(w)) - 1)}

MCTexts(gr) == UNION {Layouts(c) : c \in Samples(gr)}
               \cup (IF gr = Twice THEN UNION {Damaged(c) : c \in Samples(gr)} ELSE {})

\* A text without blanks and comments, where they are outside strings.
RECURSIVE Significance(_)
Significance(t) ==
    LET plain(u) == SelectSeq(u, LAMBDA c : c \notin {" ", "\t", "\r", "\n"})
        marks == {i \in DOMAIN t : t[i] \in {"\"", "#"}}
        i == Min(marks)
        ends == {j \in DOMAIN t : j > i /\ t[j] = IF t[i] = "#" THEN "\n" ELSE "\""}
        end == IF ends = {} THEN Len(t) ELSE Min(ends)
        kept == IF t[i] = "#" THEN <<>> ELSE SubSeq(t, i, end)
    IN  IF marks = {} THEN plain(t)
        ELSE plain(SubSeq(t, 1, i - 1)) \o kept \o Significance(SubSeq(t, end + 1, Len(t)))

-----------------------------------------------------------------------------
MaxLexemes == 4
MCInputs(gr) ==
    {[i \in DOMAIN w |-> [token |-> w[i], length |-> 1]] :
        w \in Words(Tokens(gr) \cup {Ignored}, MaxLexemes)}

Language == [gr \in MCGrammarChoices \cup LeftRecursiveChoices |-> T!Sentences(gr, MaxLexemes)]

Kinds(input) == [i \in DOMAIN input |-> input[i].token]
Significant(kinds) == SelectSeq(kinds, LAMBDA k : k # Ignored)

-----------------------------------------------------------------------------
\* Every configuration is read back as it was written, in any layout.  And of
\* a text that is read, damaged or not, nothing but blanks and comments is
\* passed over: what was read, written again, is the text.
ReadsWhatIsWritten ==
    /\ reading \in {"read", "error"} =>
        \A c \in Samples(grammar) : text \in Layouts(c) => reading = "read" /\ configuration = c
    /\ reading = "read" => Significance(text) = FlattenSeq(Written(configuration))

\* A text is parsed exactly when the grammar derives it, where the root is not
\* left-recursive; otherwise only if the grammar derives it.
ParsesExactlyTheSentences ==
    LET leftRecursive ==
            GotoItems(grammar, InitialItems(grammar), RootVariable(grammar)) # {}
        sentence == Significant(Kinds(data)) \in Language[grammar]
    IN  /\ parsing = "accepted" => sentence
        /\ parsing \in {"parsing error", "invalid token", "aborted"}
                => leftRecursive \/ ~sentence

\* README.md:3: a parser for an LALR(1) grammar parses its sentences.
ParsesTheLanguage ==
    parsing \in {"parsing error", "invalid token", "aborted"}
        => Significant(Kinds(data)) \notin Language[grammar]
=============================================================================
