---------------------------- MODULE ASTBuilding -----------------------------
(***************************************************************************)
(* The AST layer: what the handles of a built MetaInfo do to items, nodes  *)
(* and locations when a parser reduces (ASTHandle.h, ASTItem.h,            *)
(* ASTTypeProxy.h, DataBundle.h, ASTBasic.h).                              *)
(*                                                                         *)
(* An item is [tag, of, ref, loc, held]: tokens, enumerators and optionals *)
(* are stored in it with their location; objects and vectors are in the    *)
(* heap, a sequence of nodes, and the item has the index in ref.  The      *)
(* parser is any sequence of shifts and reductions over its stack.         *)
(***************************************************************************)
EXTENDS MetaInfoBuilder

CONSTANT MaxTokens   \* length of the texts

VARIABLES stack, heap, read

vars == <<builder_vars, stack, heap, read>>

Unset == [offset |-> -1, length |-> -1]
Nothing == <<>>
Item(tag, of, ref, loc, held) == [tag |-> tag, of |-> of, ref |-> ref, loc |-> loc, held |-> held]
Node(kind, type, fields) == [kind |-> kind, type |-> type, fields |-> fields, loc |-> Unset]
TokenItem(offset) == Item("token", "token", 0, [offset |-> offset, length |-> 1], Nothing)
Mismatch == Item("mismatch", Empty, 0, Unset, Nothing)

IsRef(item) == item.tag \in {"object", "vector"}

\* GetLocationInfo and UpdateLocationInfo, through RefNodeBase.
LocationOf(item, h) == IF IsRef(item) THEN h[item.ref].loc ELSE item.loc

\* Mutant: only the class itself.
DerivesFrom_Exact(class, type) == class = type

\* dynamic_cast to a class or a base.
DerivesFrom(class, type) == class = type \/ types[class].base = type

\* Mutant: every object passes.
ExtractOne_Unchecked(type, item, h) ==
    CASE Is("token", type) -> IF item.tag = "token" THEN item ELSE Mismatch
      [] Is("enum", type) -> IF item.tag = "enum" /\ item.of = type THEN item ELSE Mismatch
      [] OTHER -> IF item.tag = "object" THEN item ELSE Mismatch

\* ASTItem::Extract for the storage type of a type.
ExtractOne(type, item, h) ==
    CASE Is("token", type) -> IF item.tag = "token" THEN item ELSE Mismatch
      [] Is("enum", type) -> IF item.tag = "enum" /\ item.of = type THEN item ELSE Mismatch
      [] OTHER -> IF item.tag = "object" /\ DerivesFrom(h[item.ref].type, type) THEN item ELSE Mismatch

\* ASTItem::Extract for a member: an optional takes also what it may hold,
\* with its location at that time.
Extract(spec, item, h) ==
    LET held == ExtractOne(spec.type, item, h)
    IN  CASE spec.qual = "vec" -> IF item.tag = "vector" /\ item.of = spec.type THEN item ELSE Mismatch
          [] spec.qual = "opt" -> IF item.tag = "optional" /\ item.of = spec.type THEN item
                                  ELSE IF held = Mismatch THEN Mismatch
                                  ELSE Item("optional", spec.type, 0, LocationOf(item, h), <<held>>)
          [] OTHER -> held

-----------------------------------------------------------------------------
(* The handles.  A step of a handle works on [h, ok]: the heap and whether *)
(* no exception was thrown; items are named by their index in rhs.         *)

\* The constructing operations of a proxy; Arena::Construct appends to the
\* heap.  An abstract base and an enum are no class.
Throws(h) == [item |-> Mismatch, h |-> h]
Allocated(tag, type, fields, h) ==
    [item |-> Item(tag, type, Len(h) + 1, Unset, Nothing), h |-> Append(h, Node(tag, type, fields))]

ConstructEnum(type, value, h) ==
    IF Is("enum", type) THEN [item |-> Item("enum", type, 0, Unset, <<value>>), h |-> h] ELSE Throws(h)
ConstructObject(type, h) ==
    IF Is("class", type) THEN Allocated("object", type, [m \in DOMAIN types[type].members |-> Nothing], h)
    ELSE Throws(h)
ConstructVector(type, h) == Allocated("vector", type, <<>>, h)
ConstructOptional(type, h) == [item |-> Item("optional", type, 0, Unset, Nothing), h |-> h]

Generated(gen, rhs, h) ==
    CASE gen.kind = "enum" -> ConstructEnum(gen.type, gen.arg, h)
      [] gen.kind = "object" -> ConstructObject(gen.type, h)
      [] gen.kind = "vector" -> ConstructVector(gen.type, h)
      [] gen.kind = "optional" -> ConstructOptional(gen.type, h)
      [] gen.kind = "selector" -> [item |-> rhs[gen.arg], h |-> h]

\* DataBundle::SetItem
SetItem(h, ref, member, field) == [h EXCEPT ![ref].fields[member] = <<field>>]

PushBack(h, ref, elem) == [h EXCEPT ![ref].fields = Append(@, <<elem>>)]

AssignField(state, proxy, obj, member, value) ==
    LET field == Extract(types[proxy].members[member].type, value, state.h)
        ok == ExtractOne(proxy, obj, state.h) # Mismatch /\ field # Mismatch
    IN  IF state.ok /\ ok THEN [state EXCEPT !.h = SetItem(@, obj.ref, member, field)]
        ELSE [state EXCEPT !.ok = FALSE]

PushBackElement(state, proxy, vec, value) ==
    LET elem == ExtractOne(proxy, value, state.h)
        ok == Extract([qual |-> "vec", type |-> proxy], vec, state.h) # Mismatch /\ elem # Mismatch
    IN  IF state.ok /\ ok THEN [state EXCEPT !.h = PushBack(@, vec.ref, elem)]
        ELSE [state EXCEPT !.ok = FALSE]

\* What a handle does with item i of the right side.
Used(handle, item, rhs, state, i) ==
    IF i \notin handle.manip.places THEN state
    ELSE IF handle.manip.kind = "setter" THEN AssignField(state, handle.proxy, item, handle.manip.member[i], rhs[i])
    ELSE PushBackElement(state, handle.proxy, item, rhs[i])

Manipulated(handle, item, rhs, h) ==
    LET after[i \in 0 .. Len(rhs)] ==
            IF i = 0 THEN [h |-> h, ok |-> TRUE] ELSE Used(handle, item, rhs, after[i - 1], i)
    IN  after[Len(rhs)]

\* Mutant: the end of the last item is not the last item's.
Spanned_Front(rhs, h) ==
    LET front == LocationOf(rhs[1], h)
    IN  [offset |-> front.offset, length |-> front.length]

Spanned(rhs, h) ==
    LET front == LocationOf(rhs[1], h)
        back == LocationOf(rhs[Len(rhs)], h)
    IN  [offset |-> front.offset, length |-> back.offset + back.length - front.offset]

\* UpdateLocationInfo of a node.
SetLocation(h, ref, loc) == [h EXCEPT ![ref].loc = loc]

\* ASTHandle::Invoke: [item, h], with Mismatch where it throws.
Invoke(handle, rhs, h) ==
    LET made == Generated(handle.gen, rhs, h)
        done == Manipulated(handle, made.item, rhs, made.h)
        loc == Spanned(rhs, done.h)
    IN  IF made.item = Mismatch \/ ~done.ok THEN [item |-> Mismatch, h |-> h]
        ELSE IF IsRef(made.item) THEN [item |-> made.item, h |-> SetLocation(done.h, made.item.ref, loc)]
        ELSE [item |-> [made.item EXCEPT !.loc = loc], h |-> done.h]

-----------------------------------------------------------------------------
(* The parser over the stack *)

Init == BuilderInit /\ stack = <<>> /\ heap = <<>> /\ read = 0

BuildStep == Build /\ UNCHANGED <<stack, heap, read>>

Parsing == outcome = "built" /\ Hosted

Shift(name) ==
    /\ Parsing /\ read < MaxTokens
    /\ symbols[name].category = "token"
    /\ stack' = Append(stack, [symbol |-> name, item |-> TokenItem(read)])
    /\ read' = read + 1
    /\ UNCHANGED <<builder_vars, heap>>

Reduce(production) ==
    LET n == Len(production.rhs)
        below == Len(stack) - n
        top == SubSeq(stack, below + 1, Len(stack))
        made == Invoke(production.handle, [i \in 1..n |-> top[i].item], heap)
    IN  /\ Parsing /\ below >= 0
        /\ [i \in 1..n |-> top[i].symbol] = production.rhs
        /\ IF made.item = Mismatch THEN outcome' = "mismatch" /\ UNCHANGED <<stack, heap>>
           ELSE /\ stack' = Append(SubSeq(stack, 1, below), [symbol |-> production.lhs, item |-> made.item])
                /\ heap' = made.h
                /\ UNCHANGED outcome
        /\ UNCHANGED <<config, at, types, symbols, productions, read>>

Root == config.rules[Len(config.rules)]

\* BasicParser::Parse extracts the root.
Finish ==
    /\ Parsing /\ Len(stack) = 1 /\ stack[1].symbol = Root.name
    /\ outcome' = IF ExtractOne(Root.type.name, stack[1].item, heap) = Mismatch THEN "mismatch" ELSE "parsed"
    /\ UNCHANGED <<config, at, types, symbols, productions, stack, heap, read>>

Next ==
    \/ BuildStep
    \/ \E name \in DOMAIN symbols : Shift(name)
    \/ \E k \in DOMAIN productions : Reduce(productions[k])
    \/ Finish

Spec == Init /\ [][Next]_vars

-----------------------------------------------------------------------------
(***************************************************************************)
(* A typing of configurations, apart from how the builder goes about it.   *)
(***************************************************************************)
TypeOfName(c, name) ==
    CASE name \in {d.name : d \in Range(c.enums)} -> "enum"
      [] name \in {d.name : d \in Range(c.bases)} -> "base"
      [] name \in {d.name : d \in Range(c.nodes)} -> "class"
      [] name = "token" -> "token"
      [] OTHER -> "none"
NodeOf(c, name) == CHOOSE d \in Range(c.nodes) : d.name = name
EnumOf(c, name) == CHOOSE d \in Range(c.enums) : d.name = name
RuleOf(c, name) == CHOOSE d \in Range(c.rules) : d.name = name
IsRule(c, name) == name \in {d.name : d \in Range(c.rules)}

Subtype(c, sub, type) == sub = type \/ (TypeOfName(c, sub) = "class" /\ NodeOf(c, sub).parent = type)
One(type) == [name |-> type, qual |-> Empty]
SymbolType(c, s) == IF IsRule(c, s) THEN RuleOf(c, s).type ELSE One("token")

\* What is of type from may go where to is asked for.
Assignable(c, from, to) ==
    \/ from = to
    \/ /\ from.qual = Empty /\ to.qual \in {Empty, "opt"} /\ Subtype(c, from.name, to.name)

\* The classes whose members the item may assign, when it returns rightly.
Returned(c, type, item) ==
    LET h == item.hint
        selected == {s \in Range(item.rhs) : s.assign = "!"}
        from == SymbolType(c, (CHOOSE s \in selected : TRUE).symbol)
    IN  IF h = NoHint THEN IF from.qual = Empty THEN {from.name} ELSE {}
        ELSE IF h.name = OwnType /\ type.qual = Empty THEN {type.name}
        ELSE IF type.qual # "vec" /\ h.qual = Empty /\ TypeOfName(c, type.name) # "enum" THEN {h.name} ELSE {}

ReturnsRightly(c, type, item) ==
    LET h == item.hint
        selected == {i \in DOMAIN item.rhs : item.rhs[i].assign = "!"}
    IN  IF h = NoHint
        THEN /\ Cardinality(selected) = 1
             /\ \A i \in selected : Assignable(c, SymbolType(c, item.rhs[i].symbol), type)
        ELSE IF type.qual = "vec" THEN h.name \in {OwnType, type.name}
        ELSE IF type.qual = "opt" /\ (h.name = OwnType \/ h.qual = "opt") THEN TRUE
        ELSE IF TypeOfName(c, type.name) = "enum" THEN Contains(EnumOf(c, type.name).choices, h.name)
        ELSE LET class == IF h.name = OwnType THEN type.name ELSE h.name
             IN  TypeOfName(c, class) = "class" /\ Subtype(c, class, type.name)

AssignsRightly(c, type, item) ==
    \A s \in Range(item.rhs) :
        CASE s.assign \in {Empty, "!"} -> TRUE
          [] s.assign = "&" -> type.qual = "vec" /\ Assignable(c, SymbolType(c, s.symbol), One(type.name))
          [] OTHER ->
                /\ type.qual # "vec"
                /\ \E class \in Returned(c, type, item) :
                    /\ TypeOfName(c, class) = "class"
                    /\ \E m \in Range(NodeOf(c, class).members) :
                        m.name = s.assign /\ Assignable(c, SymbolType(c, s.symbol), m.type)

\* Every name means one thing that is there, and every rule is used as its type.
WellTyped(c) ==
    LET typeNames == <<"token">> \o [i \in DOMAIN c.enums |-> c.enums[i].name]
                     \o [i \in DOMAIN c.bases |-> c.bases[i].name] \o [i \in DOMAIN c.nodes |-> c.nodes[i].name]
        symbolNames == [i \in DOMAIN c.tokens |-> c.tokens[i].name] \o [i \in DOMAIN c.rules |-> c.rules[i].name]
    IN  /\ IsInjective(typeNames) /\ IsInjective(symbolNames)
        /\ \A t \in Range(c.tokens \o c.ignored_tokens) : t.regex
        /\ \A d \in Range(c.nodes) :
            /\ d.parent # Empty => TypeOfName(c, d.parent) = "base"
            /\ IsInjective([m \in DOMAIN d.members |-> d.members[m].name])
            /\ \A m \in Range(d.members) : TypeOfName(c, m.type.name) # "none"
        /\ c.rules # <<>> /\ c.rules[Len(c.rules)].type.qual = Empty
        /\ \A r \in Range(c.rules) :
            /\ TypeOfName(c, r.type.name) \notin {"none", "token"}
            /\ \A item \in Range(r.items) :
                /\ \A s \in Range(item.rhs) : s.symbol \in Range(symbolNames)
                /\ ReturnsRightly(c, r.type, item)
                /\ AssignsRightly(c, r.type, item)

\* A configuration whose rules are typed is built, and no reduction of any
\* text meets a value of another type than it asks for.
TypedConfigurationsAreSafe == WellTyped(config) => outcome \in {"building", "built", "parsed"}

\* The places that hold an item: on the stack, and the fields of nodes.
Places == {<<0, k>> : k \in DOMAIN stack}
          \cup UNION {{<<n, f>> : f \in {x \in DOMAIN heap[n].fields : heap[n].fields[x] # Nothing}} : n \in DOMAIN heap}
ItemAt(place) == IF place[1] = 0 THEN stack[place[2]].item ELSE heap[place[1]].fields[place[2]][1]
HeldItem(item) == IF item.tag = "optional" /\ item.held # Nothing THEN item.held[1] ELSE item

\* Whatever the configuration, a node is held by one place only: by a field
\* of one node or by the stack.
NodesAreHeldOnce ==
    \A n \in DOMAIN heap : Cardinality({p \in Places : HeldItem(ItemAt(p)).ref = n}) <= 1

\* The location of a node spans what its fields hold, although the object a
\* selector returns is shared and its location is written again.
LocationsNest ==
    \A p \in Places : p[1] # 0 =>
        LET in == LocationOf(ItemAt(p), heap)
            out == heap[p[1]].loc
        IN  out.offset <= in.offset /\ in.offset + in.length <= out.offset + out.length

\* What a field holds is of the type of its member, in configurations without
\* a typing as well: there the exception comes first.
FieldsHoldTheirTypes ==
    \A p \in Places : p[1] # 0 =>
        LET node == heap[p[1]]
            spec == IF node.kind = "vector" THEN [qual |-> "none", type |-> node.type]
                    ELSE types[node.type].members[p[2]].type
            item == ItemAt(p)
            held == HeldItem(item)
        IN  /\ spec.qual = "opt" <=> item.tag = "optional"
            /\ spec.qual = "vec" <=> item.tag = "vector"
            /\ held.tag \in {"enum", "vector"} => held.of = spec.type
            /\ held.tag = "object" => Subtype(config, heap[held.ref].type, spec.type)

\* assert(is_obj), assert(is_opt || is_enum)
AssertionsHold == outcome # "aborted"
=============================================================================
