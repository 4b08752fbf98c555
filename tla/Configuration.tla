--------------------------- MODULE Configuration ----------------------------
(***************************************************************************)
(* ParseConfig (Configuration.cc): the reader of configurations.  A text   *)
(* is a sequence of characters, where the letters of a keyword or a name   *)
(* that stand together, and the arrow, are one "character": so a name may  *)
(* begin with a keyword.  Names and strings are sequences of characters    *)
(* too, <<>> where there is none.                                          *)
(*                                                                         *)
(* A parser of a part takes a place in the text and gives [value, next]    *)
(* with the place behind; an exception gives the place Thrown, where no    *)
(* parser finds anything.                                                  *)
(***************************************************************************)
EXTENDS Integers, Sequences

CONSTANTS Letters, Digits   \* the characters isalpha and isdigit

VARIABLES text,            \* what is read
          place,           \* the pointer s into it
          configuration,   \* ParserConfiguration
          reading          \* "reading", "read" or "error"

End == "end"
Thrown == 0
Failed == [value |-> <<>>, next |-> Thrown]
CharAt(k) == IF k \in DOMAIN text THEN text[k] ELSE End

Empty == [tokens |-> <<>>, ignored_tokens |-> <<>>, enums |-> <<>>, bases |-> <<>>, nodes |-> <<>>, rules |-> <<>>]

Places == 0 .. (Len(text) + 1)

\* The first place from k on whose character is outside a set.
Behind(k, set) == CHOOSE n \in k .. (Len(text) + 1) :
                    CharAt(n) \notin set /\ \A j \in k .. (n - 1) : CharAt(j) \in set

\* Mutant: a comment after a comment is not skipped.
SkipWhitespace_Once(k) ==
    LET line == CHOOSE n \in k .. (Len(text) + 1) :
                    CharAt(n) \in {"\n", End} /\ \A j \in k .. (n - 1) : CharAt(j) \notin {"\n", End}
    IN  IF k = Thrown THEN Thrown
        ELSE Behind(IF CharAt(k) = "#" THEN line ELSE k, {" ", "\r", "\n", "\t"})

SkipWhitespace(k) ==
    LET line(j) == CHOOSE n \in j .. (Len(text) + 1) :
                    CharAt(n) \in {"\n", End} /\ \A m \in j .. (n - 1) : CharAt(m) \notin {"\n", End}
        blank == {" ", "\r", "\n", "\t"}
        skipped[j \in Places] ==
            IF j = Thrown THEN Thrown
            ELSE IF CharAt(j) = "#" THEN skipped[line(j)]
            ELSE IF CharAt(j) \in blank THEN skipped[Behind(j, blank)]
            ELSE j
    IN  skipped[k]

-----------------------------------------------------------------------------
(* TryParseConstant: whether it is there, and the place behind it. *)
Finds(k, constant) == CharAt(SkipWhitespace(k)) = constant
Past(k) == SkipWhitespace(k) + 1

ParseConstant(k, constant) == IF Finds(k, constant) THEN Past(k) ELSE Thrown

\* skip_ws is false.
IdentifierAt(k) ==
    LET n == Behind(k, Letters \cup Digits \cup {"_"})
    IN  IF CharAt(k) \in Letters THEN [value |-> SubSeq(text, k, n - 1), next |-> n] ELSE Failed

ParseIdentifier(k) == IdentifierAt(SkipWhitespace(k))

\* The rest of a string behind its first quote; buf ends in a quote of its own.
StringRest(k) ==
    LET rest[j \in Places] ==
            LET then(char, next) == [value |-> <<char>> \o rest[next].value, next |-> rest[next].next]
            IN  CASE CharAt(j) = End -> Failed
                  [] CharAt(j) = "\"" /\ CharAt(j + 1) = "\"" -> then("\"", j + 2)
                  [] CharAt(j) = "\"" /\ CharAt(j + 1) # "\"" -> [value |-> <<"\"">>, next |-> j + 1]
                  [] OTHER -> then(CharAt(j), j + 1)
    IN  rest[k]

ParseString(k) ==
    LET rest == StringRest(Past(k))
    IN  IF Finds(k, "\"") THEN [rest EXCEPT !.value = <<"\"">> \o @] ELSE Failed

\* A part that is left out.
Nothing(k) == [value |-> <<>>, next |-> k]

QualifierAt(k) == IF CharAt(k) = "'" THEN IdentifierAt(k + 1) ELSE Nothing(k)

ParseTypeSpec(k) ==
    LET name == ParseIdentifier(k)
        qual == QualifierAt(name.next)
    IN  [value |-> [name |-> name.value, qual |-> qual.value], next |-> qual.next]

\* A loop that parses one part after the other up to a place of done; part
\* is the parser, as a function.
Repeat(part, done, k) ==
    LET from[j \in Places] ==
            LET one == part[j]
                rest == from[one.next]
            IN  IF j = Thrown THEN Failed
                ELSE IF j \in done THEN Nothing(j)
                ELSE [value |-> <<one.value>> \o rest.value, next |-> rest.next]
    IN  from[k]

\* Parts up to a closing brace.
Braced(part, k) ==
    LET parts == Repeat(part, {j \in Places : Finds(j, "}")}, ParseConstant(k, "{"))
    IN  [value |-> parts.value, next |-> ParseConstant(parts.next, "}")]

-----------------------------------------------------------------------------
(* The definitions, behind their keywords. *)

TokenDefinition(k) ==
    LET name == ParseIdentifier(k)
        regex == ParseString(ParseConstant(name.next, "="))
    IN  [value |-> [name |-> name.value, regex |-> regex.value], next |-> ParseConstant(regex.next, ";")]

NameDefinition(k) ==
    LET name == ParseIdentifier(k)
    IN  [value |-> name.value, next |-> ParseConstant(name.next, ";")]

BaseDefinition(k) ==
    LET name == NameDefinition(k) IN [value |-> [name |-> name.value], next |-> name.next]

EnumDefinition(k) ==
    LET name == ParseIdentifier(k)
        choices == Braced([j \in Places |-> NameDefinition(j)], name.next)
    IN  [value |-> [name |-> name.value, choices |-> choices.value], next |-> choices.next]

NodeMember(k) ==
    LET type == ParseTypeSpec(k)
        name == NameDefinition(type.next)
    IN  [value |-> [type |-> type.value, name |-> name.value], next |-> name.next]

ParentAt(k) == IF Finds(k, ":") THEN ParseIdentifier(Past(k)) ELSE Nothing(k)

NodeDefinition(k) ==
    LET name == ParseIdentifier(k)
        parent == ParentAt(name.next)
        members == Braced([j \in Places |-> NodeMember(j)], parent.next)
    IN  [value |-> [name |-> name.value, parent |-> parent.value, members |-> members.value],
         next |-> members.next]

\* What becomes of a symbol's value.
AssignAt(k) ==
    LET mark == CharAt(SkipWhitespace(k))
    IN  CASE mark \in {"!", "&"} -> [value |-> <<mark>>, next |-> Past(k)]
          [] mark = ":" -> ParseIdentifier(Past(k))
          [] OTHER -> Nothing(k)

RuleSymbol(k) ==
    LET symbol == IF Finds(k, "\"") THEN ParseString(k) ELSE ParseIdentifier(k)
        assign == AssignAt(symbol.next)
    IN  [value |-> [symbol |-> symbol.value, assign |-> assign.value], next |-> assign.next]

\* An underscore is a hint of its own, whatever stands behind it.
ClassHint(k) ==
    IF Finds(k, "_") THEN [value |-> [name |-> <<"_">>, qual |-> <<>>], next |-> Past(k)]
    ELSE ParseTypeSpec(k)

NoHint == [name |-> <<>>, qual |-> <<>>]
HintAt(k) == IF Finds(k, "->") THEN ClassHint(Past(k)) ELSE [value |-> NoHint, next |-> k]

RuleItem(k) ==
    LET rhs == Repeat([j \in Places |-> RuleSymbol(j)],
                      {j \in Places : CharAt(SkipWhitespace(j)) \notin Letters \cup {"\""}}, ParseConstant(k, "="))
        hint == HintAt(rhs.next)
    IN  [value |-> [rhs |-> rhs.value, hint |-> hint.value], next |-> hint.next]

\* At least one item.
RuleDefinition(k) ==
    LET name == ParseIdentifier(k)
        type == ParseTypeSpec(ParseConstant(name.next, ":"))
        first == RuleItem(type.next)
        others == Repeat([j \in Places |-> RuleItem(j)], {j \in Places : Finds(j, ";")}, first.next)
    IN  [value |-> [name |-> name.value, type |-> type.value, items |-> <<first.value>> \o others.value],
         next |-> ParseConstant(others.next, ";")]

-----------------------------------------------------------------------------
(* The loop of ParseConfigInternal *)

ConfigurationInit ==
    /\ place = 1
    /\ configuration = Empty
    /\ reading = "reading"

\* Behind a keyword a definition is read into its list, with the blanks
\* behind it, or throws.
Load(keyword, list, definition) ==
    /\ reading = "reading" /\ Finds(place, keyword)
    /\ IF definition.next = Thrown
       THEN reading' = "error" /\ UNCHANGED <<configuration, place>>
       ELSE /\ configuration' = [configuration EXCEPT ![list] = Append(@, definition.value)]
            /\ place' = SkipWhitespace(definition.next)
            /\ UNCHANGED reading
    /\ UNCHANGED text

LoadToken == Load("token", "tokens", TokenDefinition(Past(place)))
LoadIgnored == Load("ignore", "ignored_tokens", TokenDefinition(Past(place)))
LoadEnum == Load("enum", "enums", EnumDefinition(Past(place)))
LoadBase == Load("base", "bases", BaseDefinition(Past(place)))
LoadNode == Load("node", "nodes", NodeDefinition(Past(place)))
LoadRule == Load("rule", "rules", RuleDefinition(Past(place)))

UnexpectedToken ==
    /\ reading = "reading" /\ CharAt(place) # End
    /\ \A keyword \in {"token", "ignore", "enum", "base", "node", "rule"} : ~Finds(place, keyword)
    /\ reading' = "error"
    /\ UNCHANGED <<text, place, configuration>>

Read ==
    /\ reading = "reading" /\ CharAt(place) = End
    /\ reading' = "read"
    /\ UNCHANGED <<text, place, configuration>>

ReadConfiguration ==
    \/ LoadToken \/ LoadIgnored \/ LoadEnum \/ LoadBase \/ LoadNode \/ LoadRule
    \/ UnexpectedToken \/ Read
=============================================================================
