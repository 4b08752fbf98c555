-------------------------- MODULE MetaInfoBuilder ---------------------------
(***************************************************************************)
(* MetaInfo::Builder (MetaInfo.cc): from the definitions of a              *)
(* configuration to types, symbols and productions with their handles.     *)
(*                                                                         *)
(* A configuration has the sequences ParseConfig fills.  A QualType is a   *)
(* record [name, qual]; the regex of a token is only whether ParseRegex    *)
(* takes it.  An exception or a failed assertion ends the building with an *)
(* outcome of that name.                                                   *)
(***************************************************************************)
EXTENDS Integers, FiniteSets, SequencesExt

Empty == ""
OwnType == "_"   \* the hint for the type of the rule itself

CONSTANTS Configs,  \* configurations
          Hosted    \* whether there is an ASTTypeProxyManager, which knows all types

\* The sequences of a ParserConfiguration and the fields of what they hold.
Fields == [ enums |-> {"name", "choices"}, bases |-> {"name"}, nodes |-> {"name", "parent", "members"},
            tokens |-> {"name", "regex"}, ignored_tokens |-> {"name", "regex"}, rules |-> {"name", "type", "items"} ]

\* The definitions, members, items and right-hand sides of a configuration are
\* vectors, and its names are neither empty nor OwnType: the parser takes
\* identifiers that begin with a letter.
IsConfig(c) ==
    /\ DOMAIN c = DOMAIN Fields
    /\ \A k \in DOMAIN Fields :
        c[k] \in Seq(Range(c[k])) /\ \A d \in Range(c[k]) : DOMAIN d = Fields[k] /\ d.name \notin {Empty, OwnType}
    /\ \A d \in Range(c.nodes) : d.members \in Seq(Range(d.members))
    /\ \A r \in Range(c.rules) :
        r.items \in Seq(Range(r.items)) /\ \A item \in Range(r.items) : item.rhs \in Seq(Range(item.rhs))

ASSUME ConfigsAssumption == Hosted \in BOOLEAN /\ \A c \in Configs : IsConfig(c)

VARIABLES config, at, types, symbols, productions, outcome

builder_vars == <<config, at, types, symbols, productions, outcome>>

NoHint == [name |-> Empty, qual |-> Empty]
TokenType == [category |-> "token", values |-> <<>>, base |-> Empty, members |-> <<>>]

Phases == <<"enums", "bases", "nodes", "members", "tokens", "ignored_tokens", "rules", "productions">>

\* The items of all rules in order, each with its rule.
RuleItems(c) ==
    FlattenSeq([r \in DOMAIN c.rules |->
        [i \in DOMAIN c.rules[r].items |-> [lhs |-> c.rules[r].name, item |-> c.rules[r].items[i]]]])

DefinitionsOf(c, phase) ==
    CASE phase = "members" -> c.nodes
      [] phase = "productions" -> RuleItems(c)
      [] OTHER -> c[phase]

Building == outcome = "building"
Phase == Phases[at.phase]
Definitions == DefinitionsOf(config, Phase)
Def == Definitions[at.index]
In(phase) == Building /\ at.index <= Len(Definitions) /\ Phase = phase

BuilderInit ==
    /\ config \in Configs
    /\ at = [phase |-> 1, index |-> 1]
    /\ types = [name \in {"token"} |-> TokenType]
    /\ symbols = <<>>
    /\ productions = <<>>
    /\ outcome = "building"

\* A lookup with one entry more.
Inserted(lookup, name, info) ==
    [n \in DOMAIN lookup \cup {name} |-> IF n = name THEN info ELSE lookup[n]]

Fail(how) == outcome' = how /\ UNCHANGED <<config, at, types, symbols, productions>>

Continue == at' = [at EXCEPT !.index = @ + 1] /\ UNCHANGED <<config, outcome>>

EndPhase ==
    /\ Building /\ at.index > Len(Definitions)
    /\ IF at.phase < Len(Phases)
       THEN at' = [phase |-> at.phase + 1, index |-> 1] /\ UNCHANGED outcome
       ELSE outcome' = "built" /\ UNCHANGED at
    /\ UNCHANGED <<config, types, symbols, productions>>

-----------------------------------------------------------------------------
(* LoadTypeInfo *)

RegisterTypeInfo(name, info) ==
    IF name \in DOMAIN types THEN Fail("duplicate_type")
    ELSE types' = Inserted(types, name, info) /\ UNCHANGED <<symbols, productions>> /\ Continue

LoadEnum == In("enums") /\ RegisterTypeInfo(Def.name, [TokenType EXCEPT !.category = "enum", !.values = Def.choices])

LoadBase == In("bases") /\ RegisterTypeInfo(Def.name, [TokenType EXCEPT !.category = "base"])

LoadNode == In("nodes") /\ RegisterTypeInfo(Def.name, [TokenType EXCEPT !.category = "class"])

Is(category, name) == name \in DOMAIN types /\ types[name].category = category

TranslateTypeSpec(def) == [qual |-> IF def.qual \in {"vec", "opt"} THEN def.qual ELSE "none", type |-> def.name]

LoadMembers ==
    /\ In("members")
    /\ IF Def.parent # Empty /\ ~Is("base", Def.parent) THEN Fail("invalid_base")
       ELSE IF \E m \in Range(Def.members) : m.type.name \notin DOMAIN types THEN Fail("out_of_range")
       ELSE /\ types' = [types EXCEPT
                    ![Def.name].base = Def.parent,
                    ![Def.name].members = [m \in DOMAIN Def.members |->
                        [type |-> TranslateTypeSpec(Def.members[m].type), name |-> Def.members[m].name]]]
            /\ UNCHANGED <<symbols, productions>>
            /\ Continue

-----------------------------------------------------------------------------
(* ConstructAstHandle: an operator per handle, giving [error] or the handle *)

Error(how) == [error |-> how]
IsError(r) == "error" \in DOMAIN r

IsVec(spec) == spec.qual = "vec"
IsOpt(spec) == spec.qual = "opt"
IsEnum(spec) == ~IsVec(spec) /\ Is("enum", spec.type)
IsObj(spec) == ~IsVec(spec) /\ (Is("class", spec.type) \/ Is("base", spec.type))

Gen(kind, arg, type) == [kind |-> kind, arg |-> arg, type |-> type]

\* The handle of a rule with a class hint, and rule_type_info.
HintedGen(spec, hint) ==
    LET values == types[spec.type].values
        type == IF hint.name = OwnType THEN spec.type ELSE hint.name
    IN  IF IsOpt(spec) /\ (hint.name = OwnType \/ hint.qual = "opt") THEN Gen("optional", 0, spec.type)
        ELSE IF IsEnum(spec)
        THEN IF Contains(values, hint.name) THEN Gen("enum", SelectInSeq(values, LAMBDA v : v = hint.name) - 1, spec.type)
             ELSE Error("invalid_enum_member")
        ELSE IF type \notin DOMAIN types THEN Error("out_of_range")
        ELSE IF IsVec(spec) THEN Gen("vector", 0, type)
        ELSE IF IsObj(spec) THEN Gen("object", 0, type)
        ELSE Error("aborted")

\* Mutant: the index is counted from the back.
SelectorGen_Neighbour(spec, rhs) ==
    LET selected == {i \in DOMAIN rhs : rhs[i].assign = "!"}
        i == CHOOSE x \in selected : TRUE
        symbol == symbols[rhs[i].symbol]
    IN  IF selected = {} THEN Error("rule_does_not_return")
        ELSE IF Cardinality(selected) > 1 THEN Error("multiple_items")
        ELSE Gen("selector", Len(rhs) + 1 - i, IF symbol.category = "variable" THEN symbol.type.type ELSE spec.type)

SelectorGen(spec, rhs) ==
    LET selected == {i \in DOMAIN rhs : rhs[i].assign = "!"}
        i == CHOOSE x \in selected : TRUE
        symbol == symbols[rhs[i].symbol]
    IN  IF selected = {} THEN Error("rule_does_not_return")
        ELSE IF Cardinality(selected) > 1 THEN Error("multiple_items")
        ELSE Gen("selector", i, IF symbol.category = "variable" THEN symbol.type.type ELSE spec.type)

GenHandle(spec, rule) == IF rule.hint # NoHint THEN HintedGen(spec, rule.hint) ELSE SelectorGen(spec, rule.rhs)

\* The manipulating half of a handle: the places of the right side it uses,
\* with the members they are for.
Manip(kind, places, member) == [kind |-> kind, places |-> places, member |-> member]

MemberIndex(members, name) == SelectInSeq(members, LAMBDA m : m.name = name)

\* The loop over the right side looks members up in what rule_type_info
\* points to, without a look whether that is a class.
ManipHandle(spec, rhs, type) ==
    LET pushed == {i \in DOMAIN rhs : rhs[i].assign = "&"}
        named == {i \in DOMAIN rhs : rhs[i].assign \notin {Empty, "!", "&"}}
        members == types[type].members
        MemberOf(i) == MemberIndex(members, rhs[i].assign)
    IN  IF named # {} /\ ~Is("class", type) THEN Error("crashed")
        ELSE IF \E i \in named : MemberOf(i) = 0 THEN Error("no_member")
        ELSE IF IsVec(spec)
        THEN IF named # {} THEN Error("unexpected_assign") ELSE Manip("merger", pushed, <<>>)
        ELSE IF IsObj(spec)
        THEN IF pushed # {} THEN Error("unexpected_push")
             ELSE Manip("setter", named, [i \in named |-> MemberOf(i)])
        ELSE IF ~IsOpt(spec) /\ ~IsEnum(spec) THEN Error("aborted")
        ELSE IF pushed \cup named # {} THEN Error("unexpected_push_or_assign")
        ELSE Manip("placeholder", {}, <<>>)

\* The manager has no proxy for tokens; without a manager it is the dummy's.
HasProxy(type) == Hosted => ~Is("token", type)

ConstructAstHandle(spec, rule) ==
    LET gen == GenHandle(spec, rule)
        manip == ManipHandle(spec, rule.rhs, gen.type)
    IN  IF IsError(gen) THEN gen
        ELSE IF IsError(manip) THEN manip
        ELSE IF ~HasProxy(gen.type) THEN Error("no_proxy")
        ELSE [gen |-> gen, manip |-> manip, proxy |-> gen.type]

-----------------------------------------------------------------------------
(* LoadSymbolInfo *)

RegisterSymbolInfo(name, info) ==
    IF name \in DOMAIN symbols THEN Fail("duplicate_symbol")
    ELSE symbols' = Inserted(symbols, name, info) /\ UNCHANGED <<types, productions>> /\ Continue

\* MakeTokenInfo parses the regex first.
LoadToken ==
    /\ In("tokens")
    /\ IF ~Def.regex THEN Fail("bad_regex")
       ELSE RegisterSymbolInfo(Def.name, [category |-> "token", id |-> at.index - 1])

\* An ignored token is no symbol of the lookup.
LoadIgnoredToken ==
    /\ In("ignored_tokens")
    /\ IF ~Def.regex THEN Fail("bad_regex")
       ELSE UNCHANGED <<types, symbols, productions>> /\ Continue

LoadVariable ==
    /\ In("rules")
    /\ IF Def.type.name \notin DOMAIN types THEN Fail("out_of_range")
       ELSE RegisterSymbolInfo(Def.name, [category |-> "variable", id |-> at.index - 1, type |-> TranslateTypeSpec(Def.type)])

LoadProduction ==
    LET rule == Def.item
        handle == ConstructAstHandle(symbols[Def.lhs].type, rule)
    IN  /\ In("productions")
        /\ IF \E s \in Range(rule.rhs) : s.symbol \notin DOMAIN symbols THEN Fail("out_of_range")
           ELSE IF IsError(handle) THEN Fail(handle.error)
           ELSE /\ productions' = Append(productions,
                        [lhs |-> Def.lhs, rhs |-> [i \in DOMAIN rule.rhs |-> rule.rhs[i].symbol], handle |-> handle])
                /\ UNCHANGED <<types, symbols>>
                /\ Continue

Build ==
    \/ LoadEnum \/ LoadBase \/ LoadNode \/ LoadMembers
    \/ LoadToken \/ LoadIgnoredToken \/ LoadVariable \/ LoadProduction
    \/ EndPhase
=============================================================================
