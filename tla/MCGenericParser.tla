--------------------------- MODULE MCGenericParser --------------------------
(* GenericParser on SLR(1) tables, which are tables of the LR(0) automaton *)
(* but not those BuildLALRAutomaton makes: the driver is right for any.    *)
EXTENDS GenericParser, MCGrammars

T == INSTANCE TextbookLR
S == INSTANCE TextbookSets

\* The members of a finite set in increasing order.
Sorted(members, Less(_, _)) ==
    LET least[k \in 0 .. Cardinality(members)] ==
            IF k = 0 THEN <<>>
            ELSE LET r == least[k - 1]
                     rest == members \ {r[i] : i \in DOMAIN r}
                 IN  Append(r, CHOOSE x \in rest : \A y \in rest \ {x} : Less(x, y))
    IN  least[Cardinality(members)]

\* The item sets of the LR(0) automaton, turn by turn: found are the sets met so
\* far, fresh the last of them.
ItemSets(gr) ==
    LET Gotos(I) == {GotoItems(gr, I, X) : X \in Symbols(gr)} \ {{}}
        turns == 2 * Cardinality(Items(gr))
        grow[k \in 0 .. turns] ==
            IF k = 0 THEN [found |-> {InitialItems(gr)}, fresh |-> {InitialItems(gr)}]
            ELSE LET r == grow[k - 1]
                     next == UNION {Gotos(I) : I \in r.fresh} \ r.found
                 IN  [found |-> r.found \cup next, fresh |-> next]
    IN  grow[turns].found

SlrPda(gr) ==
    LET others == Sorted(ItemSets(gr) \ {InitialItems(gr)}, ItemSetLess)
        sets == [s \in 0 .. Len(others) |-> IF s = 0 THEN InitialItems(gr) ELSE others[s]]
        Id(I) == IF I = {} THEN NoState ELSE CHOOSE s \in DOMAIN sets : sets[s] = I
        site == [terms |-> Tokens(gr), nonterms |-> Variables(gr),
                 root |-> RootVariable(gr), productions |-> gr.productions]
        Done(s) == {p \in Productions(gr) : Item(p, Len(Right(gr, p))) \in sets[s]}
        On(s, t) == {p \in Done(s) : t \in S!Follow(site, Left(gr, p))}
        AtEof(s) == {p \in Done(s) : Left(gr, p) \in S!PrecedesEof(site)}
    IN  [items |-> sets,
         action |-> [s \in DOMAIN sets |-> [t \in Tokens(gr) |->
            IF GotoItems(gr, sets[s], t) # {} THEN ShiftAction(Id(GotoItems(gr, sets[s], t)))
            ELSE IF On(s, t) # {} THEN ReduceAction(CHOOSE p \in On(s, t) : TRUE)
            ELSE ErrorAction]],
         eof |-> [s \in DOMAIN sets |->
            IF AtEof(s) # {} THEN ReduceAction(CHOOSE p \in AtEof(s) : TRUE)
            ELSE ErrorAction],
         goto |-> [s \in DOMAIN sets |-> [v \in Variables(gr) |->
            Id(GotoItems(gr, sets[s], v))]]]

MCConfigurations ==
    {[grammar |-> gr, pda |-> SlrPda(gr)] :
        gr \in {Arithmetic, Sentence, NestedRoot, LeftRecursiveRoot, RightRecursiveRoot}}

NestedConfigurations == {[grammar |-> NestedRoot, pda |-> SlrPda(NestedRoot)]}

\* Tokens are one character long, ignored text is two.
MaxLexemes == 5
MCInputs(gr) ==
    {[i \in DOMAIN w |-> [token |-> w[i], length |-> IF w[i] = Ignored THEN 2 ELSE 1]] :
        w \in Words(Tokens(gr) \cup {Ignored, NoToken}, MaxLexemes)}

\* The sentences of every grammar, long enough to complete any prefix.
Language == [c \in MCConfigurations |-> T!Sentences(c.grammar, 2 * MaxLexemes + 1)]

Kinds(text) == [i \in DOMAIN text |-> text[i].token]
Significant(kinds) == SelectSeq(kinds, LAMBDA k : k # Ignored)

-----------------------------------------------------------------------------
\* A call returns a tree exactly for the sentences of the grammar, with any
\* ignored text between the tokens; and the tree's location reaches from the
\* first token that is not ignored to the end of the last one.
AcceptsExactlyTheLanguage ==
    LET Start(i) == Cardinality({j \in 1 .. (i - 1) : data[j].token # Ignored})
                    + 2 * Cardinality({j \in 1 .. (i - 1) : data[j].token = Ignored})
        places == {Start(i) : i \in {j \in DOMAIN data : data[j].token # Ignored}}
    IN  /\ Stopped => (pc = "accepted" <=> Significant(Kinds(data)) \in Language[config])
        /\ pc = "accepted" =>
            /\ result.offset \in places
            /\ EndOf(result) - 1 \in places
            /\ \A x \in places : x \in result.offset .. (EndOf(result) - 1)

\* An error is found at the first token that no sentence continues with: what
\* has been shifted always begins a sentence.
ShiftedIsAViablePrefix ==
    pc = "load" =>
        LET read == Significant(SubSeq(Kinds(data), 1, loaded))
        IN  \E w \in Language[config] :
                Len(w) >= Len(read) /\ SubSeq(w, 1, Len(read)) = read

=============================================================================
