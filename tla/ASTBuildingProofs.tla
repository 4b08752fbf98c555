------------------------- MODULE ASTBuildingProofs --------------------------
(***************************************************************************)
(* What holds of the AST whatever the configuration and the text: a node   *)
(* is held once, a field holds what its member asks for, and locations     *)
(* nest.  And for configurations with a typing: they are built, and no     *)
(* handle throws.                                                          *)
(***************************************************************************)
EXTENDS ASTBuilding, FiniteSetTheorems, TLAPS

T == INSTANCE GrammarTheorems

-----------------------------------------------------------------------------
(* What the builder leaves behind                                          *)

\* The definitions of sequence defs that the loop of phase n has been through.
DoneAt(a, n, defs) == {k \in DOMAIN defs : a.phase > n \/ (a.phase = n /\ k < a.index)}
Done(n, defs) == DoneAt(at, n, defs)

Names(n, defs) == {defs[k].name : k \in Done(n, defs)}

PhasesAreInOrder ==
    /\ config \in Configs
    /\ at \in [phase : 1 .. 8, index : Nat \ {0}]
    /\ at.phase < 8 => productions = <<>>
    /\ IF outcome \in {"built", "parsed", "mismatch"} THEN at.phase = 8 ELSE stack = <<>> /\ heap = <<>>

\* Every type is in the lookup under its name, with the category of its phase.
TypesAreNamed ==
    DOMAIN types = {"token"} \cup Names(1, config.enums) \cup Names(2, config.bases) \cup Names(3, config.nodes)

CategoriesAreRight ==
    /\ Is("token", "token")
    /\ \A t \in Names(1, config.enums) : Is("enum", t)
    /\ \A t \in Names(2, config.bases) : Is("base", t)
    /\ \A t \in Names(3, config.nodes) : Is("class", t)

ClassesDiffer ==
    \A k, l \in Done(3, config.nodes) : config.nodes[k].name = config.nodes[l].name => k = l

IsTypeInfo(info) ==
    info = [category |-> info.category, values |-> info.values, base |-> info.base, members |-> info.members]

Categorized(lookup, name, category) == name \in DOMAIN lookup /\ lookup[name].category = category

BaseFits(lookup, t) ==
    IsTypeInfo(lookup[t]) /\ (lookup[t].base # Empty => Categorized(lookup, lookup[t].base, "base"))

BasesAreBases == \A t \in DOMAIN types : BaseFits(types, t)

TypesAreRegistered == TypesAreNamed /\ CategoriesAreRight /\ ClassesDiffer /\ BasesAreBases

\* A class has the base its definition names, and members of known qualifiers.
MembersFit(members) ==
    /\ members \in Seq(Range(members))
    /\ \A m \in DOMAIN members : members[m].type.qual \in {"vec", "opt", "none"}

ClassesAreLoaded ==
    /\ \A k \in Done(4, config.nodes) : types[config.nodes[k].name].base = config.nodes[k].parent
    /\ \A t \in DOMAIN types : MembersFit(types[t].members)

\* A handle uses each item of a right-hand side once: returns it, assigns it to a
\* member, or pushes it.
HandleFits(p) ==
    LET gen == p.handle.gen
        manip == p.handle.manip
    IN  /\ Len(p.rhs) \in Nat
        /\ gen.kind \in {"enum", "object", "vector", "optional", "selector"}
        /\ manip.kind \in {"setter", "merger", "placeholder"}
        /\ manip.kind = "placeholder" => manip.places = {}
        /\ manip.places \subseteq 1 .. Len(p.rhs)
        /\ gen.kind = "selector" => gen.arg \in (1 .. Len(p.rhs)) \ manip.places
        /\ manip.kind = "setter" => \A i \in manip.places :
            Is("class", p.handle.proxy) /\ manip.member[i] \in DOMAIN types[p.handle.proxy].members

\* No rule has an empty right-hand side. For one BuildLALRAutomaton ends at
\* rhs.back(), and there is no parser.
NoEmptyItems(c) == \A r \in Range(c.rules) : \A item \in Range(r.items) : item.rhs # <<>>

HandlesFit ==
    /\ productions \in Seq(Range(productions))
    /\ \A p \in Range(productions) : HandleFits(p) /\ (NoEmptyItems(config) => Len(p.rhs) # 0)

BuilderInvariant == PhasesAreInOrder /\ TypesAreRegistered /\ ClassesAreLoaded /\ HandlesFit

-----------------------------------------------------------------------------
(* Items and nodes                                                         *)

IsRow(s) == Len(s) \in Nat /\ s = [k \in 1 .. Len(s) |-> s[k]]

\* An object is of a class and has a field for each of its members.
NodeFits(node) ==
    /\ node = [kind |-> node.kind, type |-> node.type, fields |-> node.fields, loc |-> node.loc]
    /\ node.kind \in {"object", "vector"}
    /\ IsRow(node.fields)
    /\ node.kind = "object" =>
        Is("class", node.type) /\ DOMAIN node.fields = DOMAIN types[node.type].members

IsHeap(h) == IsRow(h) /\ \A n \in DOMAIN h : NodeFits(h[n])

\* An item is what its tag says; only what refers to a node has a reference.
ItemFits(item, h) ==
    /\ item = Item(item.tag, item.of, item.ref, item.loc, item.held)
    /\ item.tag \in {"token", "enum", "optional", "object", "vector"}
    /\ IF IsRef(item) THEN item.ref \in DOMAIN h /\ h[item.ref].kind = item.tag ELSE item.ref = 0
    /\ item.tag = "vector" => h[item.ref].type = item.of

\* An item of the parser: an optional holds nothing yet.
LooseFits(item, h) == ItemFits(item, h) /\ (item.tag = "optional" => item.held = Nothing)

\* What Extract makes of an item for a member.
FieldFits(spec, item, h) ==
    /\ ItemFits(item, h)
    /\ HeldItem(item).tag = "optional" => item.held = Nothing
    /\ HeldItem(item).tag # "optional" => ItemFits(HeldItem(item), h)
    /\ spec.qual = "opt" <=> item.tag = "optional"
    /\ spec.qual = "vec" <=> item.tag = "vector"
    /\ HeldItem(item).tag \in {"enum", "vector"} => HeldItem(item).of = spec.type
    /\ HeldItem(item).tag = "object" =>
        \/ h[HeldItem(item).ref].type = spec.type
        \/ types[h[HeldItem(item).ref].type].base = spec.type

SpecOf(node, f) ==
    IF node.kind = "vector" THEN [qual |-> "none", type |-> node.type]
    ELSE types[node.type].members[f].type

Filled(h, n, f) == n \in DOMAIN h /\ f \in DOMAIN h[n].fields /\ h[n].fields[f] # Nothing
FieldItem(h, n, f) == h[n].fields[f][1]
FieldRef(h, n, f) == HeldItem(FieldItem(h, n, f)).ref

FieldsFit(h) == \A n, f : Filled(h, n, f) => FieldFits(SpecOf(h[n], f), FieldItem(h, n, f), h)

\* No node is referred to twice, by the references refs of loose items and by
\* fields.
HeldOnce(h, refs) ==
    /\ \A i, j \in DOMAIN refs : refs[i] = refs[j] /\ refs[i] # 0 => i = j
    /\ \A i \in DOMAIN refs : \A n, f : Filled(h, n, f) /\ FieldRef(h, n, f) = refs[i] => refs[i] = 0
    /\ \A n, f, m, g :
        Filled(h, n, f) /\ Filled(h, m, g) /\ FieldRef(h, n, f) = FieldRef(h, m, g) /\ FieldRef(h, n, f) # 0
        => n = m /\ f = g

RefsOf(s) == [k \in DOMAIN s |-> s[k].item.ref]

TreesOf(s, h) ==
    /\ IsRow(s)
    /\ IsHeap(h)
    /\ \A k \in DOMAIN s : LooseFits(s[k].item, h)
    /\ FieldsFit(h)
    /\ HeldOnce(h, RefsOf(s))

TreesFit == TreesOf(stack, heap)

-----------------------------------------------------------------------------
(* Locations                                                               *)

IsLocation(loc) == loc.offset \in Nat /\ loc.length \in Nat

\* in lies within out.
Within(in, out) == out.offset <= in.offset /\ in.offset + in.length <= out.offset + out.length

FieldsNest(h) ==
    \A n, f : Filled(h, n, f) =>
        LET loc == LocationOf(FieldItem(h, n, f), h) IN IsLocation(loc) /\ Within(loc, h[n].loc)

\* The items of the stack lie one after another in what was read of the text.
Ordered(s, h, end) ==
    /\ end \in Nat
    /\ \A k \in DOMAIN s :
        LET loc == LocationOf(s[k].item, h)
        IN  IsLocation(loc) /\ loc.offset + loc.length <= end
    /\ \A j, k \in DOMAIN s : j < k =>
        LocationOf(s[j].item, h).offset + LocationOf(s[j].item, h).length <= LocationOf(s[k].item, h).offset

LocationsFit == NoEmptyItems(config) => Ordered(stack, heap, read) /\ FieldsNest(heap)

-----------------------------------------------------------------------------
(* Steps over the heap                                                     *)

\* The nodes of g are those of h, but for their fields.
SameNodes(h, g) ==
    /\ DOMAIN g = DOMAIN h
    /\ \A n \in DOMAIN h : g[n].kind = h[n].kind /\ g[n].type = h[n].type /\ g[n].loc = h[n].loc

\* The nodes of h are in g with their kinds and types.
SameKinds(h, g) ==
    DOMAIN h \subseteq DOMAIN g /\ \A n \in DOMAIN h : g[n].kind = h[n].kind /\ g[n].type = h[n].type

\* g is h with x in field f of node n.
FillsOne(h, g, n, f, x) ==
    /\ n \in DOMAIN h /\ SameNodes(h, g) /\ IsHeap(g)
    /\ \A m \in DOMAIN h : m # n => g[m] = h[m]
    /\ DOMAIN g[n].fields = DOMAIN h[n].fields \cup {f}
    /\ g[n].fields[f] = <<x>>
    /\ \A e \in DOMAIN h[n].fields : e # f => g[n].fields[e] = h[n].fields[e]

\* g is h with the item taken by a field of node n.
Takes(h, g, n, item) ==
    \E f, x : /\ FillsOne(h, g, n, f, x)
              /\ FieldFits(SpecOf(h[n], f), x, h)
              /\ HeldItem(x) = item /\ LocationOf(x, h) = LocationOf(item, h)

\* What the steps of a handle work on.
IsState(state) == state = [h |-> state.h, ok |-> state.ok] /\ state.ok \in BOOLEAN

\* The references left when the owners of the places up to k, from base on, gave
\* their items up.
Given(refs, base, places, k) ==
    [o \in DOMAIN refs |-> IF \E i \in places : i <= k /\ o = base + i THEN 0 ELSE refs[o]]

\* The fields of node n, which is being built, are within span, and those of the
\* others within their node.
NestWithin(h, n, span) ==
    \A m, f : Filled(h, m, f) =>
        LET loc == LocationOf(FieldItem(h, m, f), h)
        IN  IsLocation(loc) /\ Within(loc, IF m = n THEN span ELSE h[m].loc)

-----------------------------------------------------------------------------
(* Sequences                                                               *)

\* A set of places has a first one.
LEMMA LeastIsIn ==
    ASSUME NEW n \in Nat, NEW I \in SUBSET (1 .. n), I # {}
    PROVE  Min(I) \in I
<1>1. \E x \in I : \A y \in I : x <= y
  <2> SUFFICES ASSUME \A x \in I : \E y \in I : ~(x <= y)
               PROVE  FALSE
    OBVIOUS
  <2> DEFINE A == {k \in 0 .. n : \A j \in 1 .. k : j \notin I}
  <2>1. 0 \in A
    OBVIOUS
  <2>2. \A k \in 0 .. n : k # n /\ k \in A => k + 1 \in A
    <3> SUFFICES ASSUME NEW k \in 0 .. n, k # n, k \in A PROVE k + 1 \in A
      OBVIOUS
    <3>1. \A y \in I : y >= k + 1
      OBVIOUS
    <3>2. k + 1 \notin I
      BY <3>1
    <3> QED
      BY <3>2
  <2>3. \A k \in 0 .. n : k \in A
    <3> HIDE DEF A
    <3> QED
      BY <2>1, <2>2, T!IntervalInduction
  <2>4. n \in A
    BY <2>3
  <2>5. \A j \in 1 .. n : j \notin I
    BY <2>4
  <2> QED
    BY <2>5
<1> QED
  BY <1>1 DEF Min

\* Sequences put one after another hold what they held.
LEMMA Flattened ==
    ASSUME NEW S, NEW seqs \in Seq(Seq(S))
    PROVE  FlattenSeq(seqs) \in Seq(S)
<1> DEFINE n == Len(seqs)
           Step(f, i) == IF i = 1 THEN seqs[i] ELSE f[i - 1] \o seqs[i]
           Fits(k, f) == f = [i \in 1 .. k |-> Step(f, i)]
           A == {k \in 0 .. n : \E f : Fits(k, f)}
<1>0. n \in Nat
  OBVIOUS
<1>1. 0 \in A
  <2>1. PICK f : f = [i \in 1 .. 0 |-> 1]
    OBVIOUS
  <2>2. Fits(0, f)
    BY <2>1
  <2> HIDE DEF Fits
  <2> QED
    BY <1>0, <2>2
<1>2. \A k \in 0 .. n : k # n /\ k \in A => k + 1 \in A
  <2> SUFFICES ASSUME NEW k \in 0 .. n, k # n, k \in A PROVE k + 1 \in A
    OBVIOUS
  <2>1. PICK f : Fits(k, f)
    <3> HIDE DEF Fits
    <3> QED
      OBVIOUS
  <2>2. PICK g : g = [i \in 1 .. (k + 1) |-> IF i = k + 1 THEN Step(f, i) ELSE f[i]]
    OBVIOUS
  <2>3. \A i \in 1 .. k : g[i] = f[i]
    BY <2>2
  <2>4. \A i \in 1 .. (k + 1) : g[i] = Step(f, i) 
    <3>1. \A i \in 1 .. k : f[i] = Step(f, i)
      <4> HIDE DEF Step
      <4> QED
        BY <2>1
    <3> HIDE DEF Step, Fits
    <3> QED
      BY <2>2, <3>1
  <2>5. \A i \in 1 .. (k + 1) : i # 1 => i - 1 \in 1 .. k
    OBVIOUS
  <2>6. \A i \in 1 .. (k + 1) : g[i] = Step(g, i)
    BY <2>3, <2>4, <2>5
  <2>7. Fits(k + 1, g)
    <3>1. g = [i \in 1 .. (k + 1) |-> g[i]]
      BY <2>2
    <3> HIDE DEF Step
    <3> QED
      BY <2>6, <3>1
  <2> HIDE DEF Fits
  <2> QED
    BY <1>0, <2>7
<1>3. \A k \in 0 .. n : k \in A
  <2> HIDE DEF A
  <2> QED
    BY <1>0, <1>1, <1>2, T!IntervalInduction
<1>4. PICK w : Fits(n, w)
  <2> HIDE DEF Fits
  <2>1. n \in A
    BY <1>0, <1>3
  <2> QED
    BY <2>1
<1> DEFINE flatten == CHOOSE f : f = [i \in 1 .. n |-> Step(f, i)]
<1>5. Fits(n, flatten)
  BY <1>4
<1> HIDE DEF flatten
<1>6. \A k \in 0 .. n : k = 0 \/ flatten[k] \in Seq(S)
  <2> DEFINE B == {k \in 0 .. n : k = 0 \/ flatten[k] \in Seq(S)}
  <2>1. \A k \in 0 .. n : k # n /\ k \in B => k + 1 \in B
    <3> SUFFICES ASSUME NEW k \in 0 .. n, k # n, k \in B PROVE k + 1 \in B
      OBVIOUS
    <3>1. k + 1 \in 1 .. n /\ (k + 1) - 1 = k /\ seqs[k + 1] \in Seq(S)
      BY <1>0
    <3>2. flatten[k + 1] = Step(flatten, k + 1)
      <4> HIDE DEF Step
      <4> QED
        BY <1>5, <3>1
    <3>3. flatten[k + 1] \in Seq(S)
      BY <3>1, <3>2
    <3> QED
      BY <3>1, <3>3
  <2> HIDE DEF B
  <2>2. 0 \in B
    BY <1>0 DEF B
  <2>3. \A k \in 0 .. n : k \in B
    BY <1>0, <2>1, <2>2, T!IntervalInduction
  <2> QED
    BY <2>3 DEF B
<1>7. n # 0 => FlattenSeq(seqs) = flatten[n]
  BY DEF FlattenSeq, flatten
<1>8. n = 0 => FlattenSeq(seqs) = seqs /\ seqs = <<>>
  BY DEF FlattenSeq
<1> QED
  BY <1>0, <1>6, <1>7, <1>8

-----------------------------------------------------------------------------
(* The builder                                                             *)

\* What a configuration is made of.
LEMMA ConfigShape ==
    ASSUME PhasesAreInOrder
    PROVE  /\ config.enums \in Seq(Range(config.enums))
           /\ config.bases \in Seq(Range(config.bases))
           /\ config.nodes \in Seq(Range(config.nodes))
           /\ config.rules \in Seq(Range(config.rules))
           /\ \A k \in DOMAIN config.nodes :
                config.nodes[k].name # Empty /\ config.nodes[k].members \in Seq(Range(config.nodes[k].members))
           /\ \A r \in Range(config.rules) :
                r.items \in Seq(Range(r.items)) /\ \A item \in Range(r.items) : item.rhs \in Seq(Range(item.rhs))
<1>1. IsConfig(config)
  BY ConfigsAssumption DEF PhasesAreInOrder
<1>2. {"enums", "bases", "nodes", "rules"} \subseteq DOMAIN Fields
  BY DEF Fields
<1>3. \A k \in DOMAIN config.nodes :
        config.nodes[k].name # Empty /\ config.nodes[k].members \in Seq(Range(config.nodes[k].members))
  <2>1. \A d \in Range(config.nodes) : d.name # Empty /\ d.members \in Seq(Range(d.members))
    BY <1>1, <1>2 DEF IsConfig
  <2> QED
    BY <2>1 DEF Range
<1> QED
  BY <1>1, <1>2, <1>3 DEF IsConfig

\* The name of the running phase tells its number.
LEMMA PhaseNumber ==
    ASSUME at.phase \in 1 .. 8
    PROVE  /\ Phase = "enums" <=> at.phase = 1
           /\ Phase = "bases" <=> at.phase = 2
           /\ Phase = "nodes" <=> at.phase = 3
           /\ Phase = "members" <=> at.phase = 4
           /\ Phase = "productions" <=> at.phase = 8
           /\ Phase = "tokens" => at.phase = 5
           /\ Phase = "ignored_tokens" => at.phase = 6
           /\ Phase = "rules" => at.phase = 7
BY DEF Phase, Phases

\* A lookup with one entry more holds it and what it held.
LEMMA Registered ==
    ASSUME NEW f, NEW name, name \notin DOMAIN f, NEW info, NEW g, g = Inserted(f, name, info)
    PROVE  /\ DOMAIN g = DOMAIN f \cup {name}
           /\ g[name] = info
           /\ \A t \in DOMAIN f : g[t] = f[t]
BY DEF Inserted

\* A step of the builder fails, goes on to the next definition, or ends a phase.
LEMMA BuildShape ==
    ASSUME PhasesAreInOrder, Build
    PROVE  /\ outcome = "building" /\ config' = config
           /\ \/ /\ UNCHANGED <<at, types, symbols, productions>>
                 /\ outcome' \in {"built", "parsed", "mismatch"} => at.phase = 8
              \/ /\ at' = [at EXCEPT !.index = @ + 1] /\ UNCHANGED outcome
                 /\ at.index <= Len(Definitions)
                 /\ productions' # productions => at.phase = 8
                 /\ types' # types => at.phase \in {1, 2, 3, 4}
              \/ /\ at.phase < 8 /\ at' = [phase |-> at.phase + 1, index |-> 1]
                 /\ at.index > Len(Definitions)
                 /\ UNCHANGED <<types, productions, outcome>>
<1>0. at.phase \in 1 .. 8
  BY DEF PhasesAreInOrder
<1>1. CASE LoadEnum
  BY <1>0, <1>1, PhaseNumber DEF LoadEnum, In, Building, RegisterTypeInfo, Fail, Continue
<1>2. CASE LoadBase
  BY <1>0, <1>2, PhaseNumber DEF LoadBase, In, Building, RegisterTypeInfo, Fail, Continue
<1>3. CASE LoadNode
  BY <1>0, <1>3, PhaseNumber DEF LoadNode, In, Building, RegisterTypeInfo, Fail, Continue
<1>4. CASE LoadMembers
  BY <1>0, <1>4, PhaseNumber DEF LoadMembers, In, Building, Fail, Continue
<1>5. CASE LoadToken
  BY <1>0, <1>5, PhaseNumber DEF LoadToken, In, Building, RegisterSymbolInfo, Fail, Continue
<1>6. CASE LoadIgnoredToken
  BY <1>0, <1>6, PhaseNumber DEF LoadIgnoredToken, In, Building, Fail, Continue
<1>7. CASE LoadVariable
  BY <1>0, <1>7, PhaseNumber DEF LoadVariable, In, Building, RegisterSymbolInfo, Fail, Continue
<1>8. CASE LoadProduction
  BY <1>0, <1>8, PhaseNumber DEF LoadProduction, In, Building, Fail, Continue
<1>9. CASE EndPhase
  <2>1. Len(Phases) = 8
    BY DEF Phases
  <2> QED
    BY <1>0, <1>9, <2>1 DEF EndPhase, Building
<1> QED
  BY <1>1, <1>2, <1>3, <1>4, <1>5, <1>6, <1>7, <1>8, <1>9 DEF Build

\* The phases follow one another, and nothing is parsed before the last.
LEMMA BuildKeepsOrder ==
    ASSUME PhasesAreInOrder, BuildStep
    PROVE  PhasesAreInOrder'
<1>1. Build /\ UNCHANGED <<stack, heap>>
  BY DEF BuildStep
<1>2. outcome = "building" /\ config' = config /\ stack' = <<>> /\ heap' = <<>>
  BY <1>1, BuildShape DEF PhasesAreInOrder
<1>3. CASE UNCHANGED <<at, types, symbols, productions>>
           /\ (outcome' \in {"built", "parsed", "mismatch"} => at.phase = 8)
  BY <1>2, <1>3 DEF PhasesAreInOrder
<1>4. CASE /\ at' = [at EXCEPT !.index = @ + 1] /\ UNCHANGED outcome
           /\ productions' # productions => at.phase = 8
  BY <1>2, <1>4 DEF PhasesAreInOrder
<1>5. CASE /\ at.phase < 8 /\ at' = [phase |-> at.phase + 1, index |-> 1]
           /\ UNCHANGED <<types, productions, outcome>>
  BY <1>2, <1>5 DEF PhasesAreInOrder
<1> QED
  BY <1>1, <1>3, <1>4, <1>5, BuildShape

\* The definitions of the phases that load types.
LEMMA DefinitionsAre ==
    ASSUME PhasesAreInOrder
    PROVE  /\ at.phase = 1 => Definitions = config.enums
           /\ at.phase = 2 => Definitions = config.bases
           /\ at.phase = 3 => Definitions = config.nodes
           /\ at.phase = 4 => Definitions = config.nodes
           /\ at.phase = 8 => Definitions = RuleItems(config)
<1>1. at.phase \in 1 .. 8
  BY DEF PhasesAreInOrder
<1>2. /\ at.phase = 1 => Phase = "enums"
      /\ at.phase = 2 => Phase = "bases"
      /\ at.phase = 3 => Phase = "nodes"
      /\ at.phase = 4 => Phase = "members"
      /\ at.phase = 8 => Phase = "productions"
  BY <1>1 DEF Phase, Phases
<1> QED
  BY <1>2 DEF Definitions, DefinitionsOf

\* A definition done is one more in its phase and none in the others; when a phase
\* ends nothing more is done than before.
LEMMA DoneAfter ==
    ASSUME PhasesAreInOrder, config' = config
    PROVE  /\ at' = [at EXCEPT !.index = @ + 1] /\ at.index <= Len(Definitions) =>
                /\ Done(1, config.enums)' = IF at.phase = 1 THEN Done(1, config.enums) \cup {at.index} ELSE Done(1, config.enums)
                /\ Done(2, config.bases)' = IF at.phase = 2 THEN Done(2, config.bases) \cup {at.index} ELSE Done(2, config.bases)
                /\ Done(3, config.nodes)' = IF at.phase = 3 THEN Done(3, config.nodes) \cup {at.index} ELSE Done(3, config.nodes)
                /\ Done(4, config.nodes)' = IF at.phase = 4 THEN Done(4, config.nodes) \cup {at.index} ELSE Done(4, config.nodes)
           /\ at' = at \/ (at.phase < 8 /\ at' = [phase |-> at.phase + 1, index |-> 1] /\ at.index > Len(Definitions)) =>
                /\ Done(1, config.enums)' = Done(1, config.enums)
                /\ Done(2, config.bases)' = Done(2, config.bases)
                /\ Done(3, config.nodes)' = Done(3, config.nodes)
                /\ Done(4, config.nodes)' = Done(4, config.nodes)
<1>1. at.phase \in 1 .. 8 /\ at.index \in Nat \ {0} /\ at \in [phase : 1 .. 8, index : Nat \ {0}]
  BY DEF PhasesAreInOrder
<1>5. /\ Len(config.enums) \in Nat /\ DOMAIN config.enums = 1 .. Len(config.enums)
      /\ Len(config.bases) \in Nat /\ DOMAIN config.bases = 1 .. Len(config.bases)
      /\ Len(config.nodes) \in Nat /\ DOMAIN config.nodes = 1 .. Len(config.nodes)
  <2>1. /\ config.enums \in Seq(Range(config.enums))
        /\ config.bases \in Seq(Range(config.bases))
        /\ config.nodes \in Seq(Range(config.nodes))
    BY ConfigShape
  <2> QED
    BY <2>1
<1>6. /\ at.phase = 1 => Definitions = config.enums
      /\ at.phase = 2 => Definitions = config.bases
      /\ at.phase = 3 => Definitions = config.nodes
      /\ at.phase = 4 => Definitions = config.nodes
  BY DefinitionsAre
<1>2. ASSUME at' = [at EXCEPT !.index = @ + 1], at.index <= Len(Definitions)
      PROVE  /\ DoneAt(at', 1, config.enums) = IF at.phase = 1 THEN Done(1, config.enums) \cup {at.index} ELSE Done(1, config.enums)
             /\ DoneAt(at', 2, config.bases) = IF at.phase = 2 THEN Done(2, config.bases) \cup {at.index} ELSE Done(2, config.bases)
             /\ DoneAt(at', 3, config.nodes) = IF at.phase = 3 THEN Done(3, config.nodes) \cup {at.index} ELSE Done(3, config.nodes)
             /\ DoneAt(at', 4, config.nodes) = IF at.phase = 4 THEN Done(4, config.nodes) \cup {at.index} ELSE Done(4, config.nodes)
  <2>1. DoneAt(at', 1, config.enums) = IF 1 = at.phase THEN Done(1, config.enums) \cup {at.index} ELSE Done(1, config.enums)
    BY <1>1, <1>2, <1>5, <1>6 DEF Done, DoneAt
  <2>2. DoneAt(at', 2, config.bases) = IF 2 = at.phase THEN Done(2, config.bases) \cup {at.index} ELSE Done(2, config.bases)
    BY <1>1, <1>2, <1>5, <1>6 DEF Done, DoneAt
  <2>3. DoneAt(at', 3, config.nodes) = IF 3 = at.phase THEN Done(3, config.nodes) \cup {at.index} ELSE Done(3, config.nodes)
    BY <1>1, <1>2, <1>5, <1>6 DEF Done, DoneAt
  <2>4. DoneAt(at', 4, config.nodes) = IF 4 = at.phase THEN Done(4, config.nodes) \cup {at.index} ELSE Done(4, config.nodes)
    BY <1>1, <1>2, <1>5, <1>6 DEF Done, DoneAt
  <2> QED
    BY <2>1, <2>2, <2>3, <2>4
<1>3. ASSUME at.phase < 8, at' = [phase |-> at.phase + 1, index |-> 1], at.index > Len(Definitions)
      PROVE  /\ DoneAt(at', 1, config.enums) = Done(1, config.enums)
             /\ DoneAt(at', 2, config.bases) = Done(2, config.bases)
             /\ DoneAt(at', 3, config.nodes) = Done(3, config.nodes)
             /\ DoneAt(at', 4, config.nodes) = Done(4, config.nodes)
  <2>1. DoneAt(at', 1, config.enums) = Done(1, config.enums)
    BY <1>1, <1>3, <1>5, <1>6 DEF Done, DoneAt
  <2>2. DoneAt(at', 2, config.bases) = Done(2, config.bases)
    BY <1>1, <1>3, <1>5, <1>6 DEF Done, DoneAt
  <2>3. DoneAt(at', 3, config.nodes) = Done(3, config.nodes)
    BY <1>1, <1>3, <1>5, <1>6 DEF Done, DoneAt
  <2>4. DoneAt(at', 4, config.nodes) = Done(4, config.nodes)
    BY <1>1, <1>3, <1>5, <1>6 DEF Done, DoneAt
  <2> QED
    BY <2>1, <2>2, <2>3, <2>4
<1>4. \A n : /\ Done(n, config.enums)' = DoneAt(at', n, config.enums)
             /\ Done(n, config.bases)' = DoneAt(at', n, config.bases)
             /\ Done(n, config.nodes)' = DoneAt(at', n, config.nodes)
  BY DEF Done
<1> QED
  BY <1>2, <1>3, <1>4 DEF Done

\* The steps that leave the lookup of types alone.
LEMMA TypesStay ==
    ASSUME TypesAreRegistered, ClassesAreLoaded, UNCHANGED <<config, types>>,
           UNCHANGED <<Done(1, config.enums), Done(2, config.bases), Done(3, config.nodes), Done(4, config.nodes)>>
    PROVE  TypesAreRegistered' /\ ClassesAreLoaded'
<1>1. \A category, name : Is(category, name)' <=> Is(category, name)
  BY DEF Is
<1>2. /\ Names(1, config.enums)' = Names(1, config.enums)
      /\ Names(2, config.bases)' = Names(2, config.bases)
      /\ Names(3, config.nodes)' = Names(3, config.nodes)
  BY DEF Names
<1>3. TypesAreNamed'
  BY <1>2 DEF TypesAreRegistered, TypesAreNamed
<1>4. CategoriesAreRight'
  BY <1>1, <1>2 DEF TypesAreRegistered, CategoriesAreRight
<1>5. ClassesDiffer'
  BY DEF TypesAreRegistered, ClassesDiffer
<1>6. BasesAreBases'
  BY DEF TypesAreRegistered, BasesAreBases
<1>7. ClassesAreLoaded'
  BY DEF ClassesAreLoaded
<1> QED
  BY <1>3, <1>4, <1>5, <1>6, <1>7 DEF TypesAreRegistered

\* What RegisterTypeInfo does to a lookup.
LEMMA RegisterKeeps ==
    ASSUME PhasesAreInOrder, TypesAreRegistered, ClassesAreLoaded, config' = config,
           at' = [at EXCEPT !.index = @ + 1], at.index <= Len(Definitions), at.phase \in {1, 2, 3},
           NEW info, NEW name, name = Def.name, name \notin DOMAIN types,
           types' = Inserted(types, name, info),
           at.phase = 1 => info.category = "enum",
           at.phase = 2 => info.category = "base",
           at.phase = 3 => info.category = "class",
           IsTypeInfo(info), info.base = Empty, info.members = <<>>
    PROVE  TypesAreRegistered' /\ ClassesAreLoaded'
<1>1. /\ DOMAIN types' = DOMAIN types \cup {name}
      /\ types'[name] = info
      /\ \A t \in DOMAIN types : types'[t] = types[t]
  BY DEF Inserted
<1>2. \A category : \A t \in DOMAIN types : Is(category, t)' <=> Is(category, t)
  BY <1>1 DEF Is
<1>3. Is(info.category, name)'
  BY <1>1 DEF Is
<1>4. /\ Done(1, config.enums)' = IF at.phase = 1 THEN Done(1, config.enums) \cup {at.index} ELSE Done(1, config.enums)
      /\ Done(2, config.bases)' = IF at.phase = 2 THEN Done(2, config.bases) \cup {at.index} ELSE Done(2, config.bases)
      /\ Done(3, config.nodes)' = IF at.phase = 3 THEN Done(3, config.nodes) \cup {at.index} ELSE Done(3, config.nodes)
      /\ Done(4, config.nodes)' = Done(4, config.nodes)
  BY DoneAfter
<1>5. /\ at.phase = 1 => name = config.enums[at.index].name
      /\ at.phase = 2 => name = config.bases[at.index].name
      /\ at.phase = 3 => name = config.nodes[at.index].name
  BY DefinitionsAre DEF Def
<1>6. /\ Names(1, config.enums)' = IF at.phase = 1 THEN Names(1, config.enums) \cup {name} ELSE Names(1, config.enums)
      /\ Names(2, config.bases)' = IF at.phase = 2 THEN Names(2, config.bases) \cup {name} ELSE Names(2, config.bases)
      /\ Names(3, config.nodes)' = IF at.phase = 3 THEN Names(3, config.nodes) \cup {name} ELSE Names(3, config.nodes)
  BY <1>4, <1>5 DEF Names
<1>7. TypesAreNamed /\ CategoriesAreRight /\ ClassesDiffer /\ BasesAreBases
  BY DEF TypesAreRegistered
<1>8. TypesAreNamed'
  BY <1>1, <1>6, <1>7 DEF TypesAreNamed
<1>9. BasesAreBases'
  <2>0. ASSUME NEW t \in DOMAIN types'
        PROVE  BaseFits(types', t)
    <3>1. CASE t = name
      BY <1>1, <3>1 DEF BaseFits
    <3>2. CASE t # name
      BY <1>1, <1>7, <3>2 DEF BaseFits, BasesAreBases, Categorized
    <3> QED
      BY <3>1, <3>2
  <2> QED
    BY <2>0 DEF BasesAreBases
<1>10. CategoriesAreRight'
  <2>1. /\ \A t \in Names(1, config.enums) : Is("enum", t)'
        /\ \A t \in Names(2, config.bases) : Is("base", t)'
        /\ \A t \in Names(3, config.nodes) : Is("class", t)'
        /\ Is("token", "token")'
    BY <1>2, <1>7 DEF CategoriesAreRight, TypesAreNamed
  <2>2. /\ at.phase = 1 => Is("enum", name)'
        /\ at.phase = 2 => Is("base", name)'
        /\ at.phase = 3 => Is("class", name)'
    BY <1>3
  <2> QED
    BY <1>6, <2>1, <2>2 DEF CategoriesAreRight
<1>12. ClassesDiffer'
  <2>1. \A k, l \in Done(3, config.nodes) : config.nodes[k].name = config.nodes[l].name => k = l
    BY <1>7 DEF ClassesDiffer
  <2>2. \A k \in Done(3, config.nodes) : config.nodes[k].name \in DOMAIN types
    BY <1>7 DEF Names, TypesAreNamed
  <2> QED
    BY <1>4, <1>5, <2>1, <2>2 DEF ClassesDiffer
<1>13. TypesAreRegistered'
  BY <1>8, <1>9, <1>10, <1>12 DEF TypesAreRegistered
<1>14. \A k \in Done(4, config.nodes)' : types'[config.nodes[k].name].base = config.nodes[k].parent
  <2>1. Done(4, config.nodes) = {}
    <3>1. at.phase \in 1 .. 3
      OBVIOUS
    <3> QED
      BY <3>1 DEF Done, DoneAt
  <2> QED
    BY <1>4, <2>1
<1>15. \A t \in DOMAIN types' : MembersFit(types'[t].members)
  <2> TAKE t \in DOMAIN types'
  <2>1. CASE t = name
    <3>1. types'[t].members = <<>>
      BY <1>1, <2>1
    <3> QED
      BY <3>1 DEF MembersFit
  <2>2. CASE t # name
    BY <1>1, <2>2 DEF ClassesAreLoaded
  <2> QED
    BY <2>1, <2>2
<1> QED
  BY <1>13, <1>14, <1>15 DEF ClassesAreLoaded

\* The base and the members of a class are loaded into the lookup.
LEMMA MembersKeep ==
    ASSUME PhasesAreInOrder, TypesAreRegistered, ClassesAreLoaded, LoadMembers, at' # at
    PROVE  TypesAreRegistered' /\ ClassesAreLoaded'
<1>0. PICK n : n = Def.name
  OBVIOUS
<1>00. PICK members : members = [m \in DOMAIN Def.members |->
                        [type |-> TranslateTypeSpec(Def.members[m].type), name |-> Def.members[m].name]]
  OBVIOUS
<1>01. at.phase \in 1 .. 8 /\ at.index \in Nat \ {0}
  BY DEF PhasesAreInOrder
<1>1. /\ at.phase = 4 /\ at.index <= Len(Definitions) /\ config' = config
      /\ at' = [at EXCEPT !.index = @ + 1]
      /\ Def.parent # Empty => Is("base", Def.parent)
      /\ types' = [types EXCEPT ![n].base = Def.parent, ![n].members = members]
  BY <1>0, <1>00, <1>01, PhaseNumber DEF LoadMembers, In, Continue, Fail
<1>2. Definitions = config.nodes /\ Def = config.nodes[at.index]
  BY <1>1, DefinitionsAre DEF Def
<1>3. Len(config.nodes) \in Nat /\ DOMAIN config.nodes = 1 .. Len(config.nodes)
  <2>1. config.nodes \in Seq(Range(config.nodes))
    BY ConfigShape
  <2> QED
    BY <2>1
<1>4. at.index \in DOMAIN config.nodes /\ Done(3, config.nodes) = DOMAIN config.nodes
  BY <1>01, <1>1, <1>2, <1>3 DEF Done, DoneAt
<1>5. TypesAreNamed /\ CategoriesAreRight /\ ClassesDiffer /\ BasesAreBases
  BY DEF TypesAreRegistered
<1>6. n \in Names(3, config.nodes) /\ n \in DOMAIN types
  BY <1>0, <1>2, <1>4, <1>5 DEF Names, TypesAreNamed
<1>7. MembersFit(members)
  <2>1. Def.members \in Seq(Range(Def.members))
    BY <1>2, <1>4, ConfigShape
  <2>2. PICK k : k = Len(Def.members)
    OBVIOUS
  <2>3. k \in Nat /\ DOMAIN Def.members = 1 .. k
    BY <2>1, <2>2
  <2>4. members = [m \in 1 .. k |-> members[m]] /\ DOMAIN members = 1 .. k
    BY <1>00, <2>3
  <2>5. members \in Seq(Range(members))
    BY <2>3, <2>4 DEF Range
  <2>6. \A m \in DOMAIN members : members[m].type = TranslateTypeSpec(Def.members[m].type)
    BY <1>00
  <2>7. \A def : TranslateTypeSpec(def).qual \in {"vec", "opt", "none"}
    BY DEF TranslateTypeSpec
  <2> QED
    BY <2>5, <2>6, <2>7 DEF MembersFit
<1>8. /\ DOMAIN types' = DOMAIN types
      /\ \A t \in DOMAIN types : t # n => types'[t] = types[t]
      /\ types'[n] = [types[n] EXCEPT !.base = Def.parent, !.members = members]
  BY <1>1, <1>6
<1>9. IsTypeInfo(types[n])
  BY <1>5, <1>6 DEF BasesAreBases, BaseFits
<1>10. /\ IsTypeInfo(types'[n])
       /\ types'[n].category = types[n].category
       /\ types'[n].base = Def.parent
       /\ types'[n].members = members
  BY <1>8, <1>9 DEF IsTypeInfo
<1>11. \A t, category : Categorized(types', t, category) <=> Categorized(types, t, category)
  BY <1>8, <1>10 DEF Categorized
<1>12. \A category, t : Is(category, t)' <=> Is(category, t)
  BY <1>11 DEF Is, Categorized
<1>13. /\ Done(1, config.enums)' = Done(1, config.enums)
       /\ Done(2, config.bases)' = Done(2, config.bases)
       /\ Done(3, config.nodes)' = Done(3, config.nodes)
       /\ Done(4, config.nodes)' = Done(4, config.nodes) \cup {at.index}
  BY <1>1, DoneAfter
<1>14. /\ Names(1, config.enums)' = Names(1, config.enums)
       /\ Names(2, config.bases)' = Names(2, config.bases)
       /\ Names(3, config.nodes)' = Names(3, config.nodes)
  BY <1>1, <1>13 DEF Names
<1>15. TypesAreNamed'
  BY <1>5, <1>8, <1>14 DEF TypesAreNamed
<1>16. CategoriesAreRight'
  BY <1>5, <1>12, <1>14 DEF CategoriesAreRight
<1>17. ClassesDiffer'
  BY <1>1, <1>5, <1>13 DEF ClassesDiffer
<1>18. BasesAreBases'
  <2>1. ASSUME NEW t \in DOMAIN types'
        PROVE  BaseFits(types', t)
    <3>1. CASE t = n
      BY <1>1, <1>10, <1>11, <3>1 DEF BaseFits, Is, Categorized
    <3>2. CASE t # n
      BY <1>5, <1>8, <1>11, <3>2 DEF BaseFits, BasesAreBases
    <3> QED
      BY <3>1, <3>2
  <2> QED
    BY <2>1 DEF BasesAreBases
<1>19. \A k \in Done(4, config.nodes)' : types'[config.nodes[k].name].base = config.nodes[k].parent
  <2> SUFFICES ASSUME NEW k \in Done(4, config.nodes) \cup {at.index}
               PROVE  types'[config.nodes[k].name].base = config.nodes[k].parent
    BY <1>13
  <2>1. k \in DOMAIN config.nodes
    BY <1>4 DEF Done, DoneAt
  <2>2. config.nodes[k].name \in DOMAIN types
    BY <1>4, <1>5, <2>1 DEF Names, TypesAreNamed
  <2>3. CASE k = at.index
    BY <1>0, <1>2, <1>10, <2>3
  <2>4. CASE k # at.index
    <3>1. config.nodes[k].name # n
      BY <1>0, <1>2, <1>4, <1>5, <2>1, <2>4 DEF ClassesDiffer
    <3> QED
      BY <1>8, <2>2, <2>4, <3>1 DEF ClassesAreLoaded
  <2> QED
    BY <2>3, <2>4
<1>20. \A t \in DOMAIN types' : MembersFit(types'[t].members)
  BY <1>7, <1>8, <1>10 DEF ClassesAreLoaded
<1> QED
  BY <1>1, <1>15, <1>16, <1>17, <1>18, <1>19, <1>20 DEF TypesAreRegistered, ClassesAreLoaded

\* What is in the lookup of types stays right: names, categories, bases and members.
LEMMA BuildKeepsTypes ==
    ASSUME PhasesAreInOrder, TypesAreRegistered, ClassesAreLoaded, Build
    PROVE  TypesAreRegistered' /\ ClassesAreLoaded'
<1>0. at.phase \in 1 .. 8 /\ config' = config /\ at \in [phase : 1 .. 8, index : Nat \ {0}]
  BY BuildShape DEF PhasesAreInOrder
<1>1. CASE at' = at \/ (at.phase < 8 /\ at' = [phase |-> at.phase + 1, index |-> 1] /\ at.index > Len(Definitions))
  <2>1. types' = types
    <3>1. CASE at' = at
      <4>1. ~Continue
        BY <1>0, <3>1 DEF Continue
      <4> QED
        BY <4>1 DEF Build, LoadEnum, LoadBase, LoadNode, LoadMembers, RegisterTypeInfo, LoadToken, LoadIgnoredToken,
                    LoadVariable, LoadProduction, RegisterSymbolInfo, Fail, EndPhase
    <3>2. CASE at.phase < 8 /\ at' = [phase |-> at.phase + 1, index |-> 1]
      BY <1>0, <3>2, BuildShape
    <3> QED
      BY <1>1, <3>1, <3>2
  <2> QED
    BY <1>0, <1>1, <2>1, DoneAfter, TypesStay
<1>2. CASE at' = [at EXCEPT !.index = @ + 1] /\ at.index <= Len(Definitions)
  <2>0. at' # at
    BY <1>0, <1>2
  <2>1. CASE LoadEnum
    <3>1. PICK name, info : name = Def.name /\ info = [TokenType EXCEPT !.category = "enum", !.values = Def.choices]
      OBVIOUS
    <3>2. name \notin DOMAIN types /\ types' = Inserted(types, name, info) /\ at.phase = 1
      BY <1>0, <2>0, <2>1, <3>1, PhaseNumber DEF LoadEnum, RegisterTypeInfo, In, Fail
    <3>3. IsTypeInfo(info) /\ info.category = "enum" /\ info.base = Empty /\ info.members = <<>>
      BY <3>1 DEF TokenType, IsTypeInfo
    <3>4. /\ at.phase \in {1, 2, 3}
          /\ at.phase = 1 => info.category = "enum"
          /\ at.phase = 2 => info.category = "base"
          /\ at.phase = 3 => info.category = "class"
      BY <3>2, <3>3
    <3> QED
      BY <1>0, <1>2, <3>1, <3>2, <3>3, <3>4, RegisterKeeps, Zenon
  <2>2. CASE LoadBase
    <3>1. PICK name, info : name = Def.name /\ info = [TokenType EXCEPT !.category = "base"]
      OBVIOUS
    <3>2. name \notin DOMAIN types /\ types' = Inserted(types, name, info) /\ at.phase = 2
      BY <1>0, <2>0, <2>2, <3>1, PhaseNumber DEF LoadBase, RegisterTypeInfo, In, Fail
    <3>3. IsTypeInfo(info) /\ info.category = "base" /\ info.base = Empty /\ info.members = <<>>
      BY <3>1 DEF TokenType, IsTypeInfo
    <3>4. /\ at.phase \in {1, 2, 3}
          /\ at.phase = 1 => info.category = "enum"
          /\ at.phase = 2 => info.category = "base"
          /\ at.phase = 3 => info.category = "class"
      BY <3>2, <3>3
    <3> QED
      BY <1>0, <1>2, <3>1, <3>2, <3>3, <3>4, RegisterKeeps, Zenon
  <2>3. CASE LoadNode
    <3>1. PICK name, info : name = Def.name /\ info = [TokenType EXCEPT !.category = "class"]
      OBVIOUS
    <3>2. name \notin DOMAIN types /\ types' = Inserted(types, name, info) /\ at.phase = 3
      BY <1>0, <2>0, <2>3, <3>1, PhaseNumber DEF LoadNode, RegisterTypeInfo, In, Fail
    <3>3. IsTypeInfo(info) /\ info.category = "class" /\ info.base = Empty /\ info.members = <<>>
      BY <3>1 DEF TokenType, IsTypeInfo
    <3>4. /\ at.phase \in {1, 2, 3}
          /\ at.phase = 1 => info.category = "enum"
          /\ at.phase = 2 => info.category = "base"
          /\ at.phase = 3 => info.category = "class"
      BY <3>2, <3>3
    <3> QED
      BY <1>0, <1>2, <3>1, <3>2, <3>3, <3>4, RegisterKeeps, Zenon
  <2>4. CASE LoadMembers
    BY <2>0, <2>4, MembersKeep
  <2>5. CASE LoadToken \/ LoadIgnoredToken \/ LoadVariable \/ LoadProduction
    <3>1. types' = types
      BY <2>5 DEF LoadToken, LoadIgnoredToken, LoadVariable, LoadProduction, RegisterSymbolInfo, Fail
    <3>2. at.phase \notin {1, 2, 3, 4}
      BY <1>0, <2>5, PhaseNumber DEF LoadToken, LoadIgnoredToken, LoadVariable, LoadProduction, In
    <3> QED
      BY <1>0, <1>2, <3>1, <3>2, DoneAfter, TypesStay
  <2>6. CASE EndPhase
    BY <1>0, <1>2, <2>6 DEF EndPhase
  <2> QED
    BY <2>1, <2>2, <2>3, <2>4, <2>5, <2>6 DEF Build
<1> QED
  BY <1>1, <1>2, BuildShape

\* The definitions of the last phase are the items of the rules, with their rule.
LEMMA RuleItemsAre ==
    ASSUME PhasesAreInOrder, NEW k \in Nat \ {0}, k <= Len(RuleItems(config))
    PROVE  \E r \in Range(config.rules) : \E item \in Range(r.items) : RuleItems(config)[k] = [lhs |-> r.name, item |-> item]
<1> DEFINE rules == config.rules
           Part(r) == [i \in DOMAIN rules[r].items |-> [lhs |-> rules[r].name, item |-> rules[r].items[i]]]
           S == UNION {Range(Part(r)) : r \in DOMAIN rules}
<1>1. rules \in Seq(Range(rules))
  BY ConfigShape
<1>2. \A r \in DOMAIN rules : rules[r] \in Range(rules) /\ rules[r].items \in Seq(Range(rules[r].items))
  <2>1. \A r \in DOMAIN rules : rules[r] \in Range(rules)
    BY DEF Range
  <2> QED
    BY <2>1, ConfigShape
<1>3. \A r \in DOMAIN rules : Part(r) \in Seq(S)
  <2> TAKE r \in DOMAIN rules
  <2>1. PICK items : items = rules[r].items
    OBVIOUS
  <2>2. PICK n \in Nat : DOMAIN items = 1 .. n
    BY <1>2, <2>1
  <2>3. PICK part : part = Part(r)
    OBVIOUS
  <2>4. part = [i \in 1 .. n |-> part[i]]
    BY <2>1, <2>2, <2>3
  <2>5. \A i \in 1 .. n : part[i] \in S
    <3>1. \A i \in 1 .. n : part[i] \in Range(part)
      BY <2>4 DEF Range
    <3>2. Range(part) \subseteq S
      BY <2>3
    <3> QED
      BY <3>1, <3>2
  <2>6. part \in Seq(S)
    <3> HIDE DEF S, Part, rules
    <3> QED
      BY <2>4, <2>5
  <2> HIDE DEF S
  <2> QED
    BY <2>3, <2>6
<1>4. PICK seqs : seqs = [r \in DOMAIN rules |-> Part(r)]
  OBVIOUS
<1>5. seqs \in Seq(Seq(S))
  <2>1. PICK n \in Nat : DOMAIN rules = 1 .. n
    BY <1>1
  <2>2. \A r \in 1 .. n : seqs[r] \in Seq(S)
    BY <1>3, <1>4, <2>1
  <2>3. seqs = [r \in 1 .. n |-> seqs[r]]
    BY <1>4, <2>1
  <2> HIDE DEF S, Part, rules
  <2> QED
    BY <2>2, <2>3
<1>6. RuleItems(config) = FlattenSeq(seqs)
  BY <1>4 DEF RuleItems
<1>7. RuleItems(config) \in Seq(S)
  <2> HIDE DEF S
  <2> QED
    BY <1>5, <1>6, Flattened
<1>8. RuleItems(config)[k] \in S
  <2> HIDE DEF S
  <2> QED
    BY <1>7
<1>9. PICK r \in DOMAIN rules : RuleItems(config)[k] \in Range(Part(r))
  BY <1>8
<1>10. PICK i \in DOMAIN rules[r].items : RuleItems(config)[k] = [lhs |-> rules[r].name, item |-> rules[r].items[i]]
  BY <1>9 DEF Range
<1>11. rules[r].items[i] \in Range(rules[r].items)
  BY DEF Range
<1> QED
  BY <1>2, <1>10, <1>11

\* The right-hand sides of the items of a configuration.
LEMMA RuleItemsShape ==
    ASSUME PhasesAreInOrder, NEW k \in Nat \ {0}, k <= Len(RuleItems(config)), NEW rhs, rhs = RuleItems(config)[k].item.rhs
    PROVE  rhs \in Seq(Range(rhs)) /\ (NoEmptyItems(config) => rhs # <<>>)
<1>1. PICK r \in Range(config.rules) : \E item \in Range(r.items) : RuleItems(config)[k] = [lhs |-> r.name, item |-> item]
  BY RuleItemsAre
<1>2. PICK item \in Range(r.items) : RuleItems(config)[k] = [lhs |-> r.name, item |-> item]
  BY <1>1
<1>3. rhs = item.rhs
  BY <1>2
<1> QED
  BY <1>3, ConfigShape DEF NoEmptyItems

\* GenHandle: a selector returns an item marked for it.
LEMMA GenFits ==
    ASSUME NEW spec, NEW rule, NEW gen, gen = GenHandle(spec, rule), ~IsError(gen)
    PROVE  /\ gen.kind \in {"enum", "object", "vector", "optional", "selector"}
           /\ gen.kind = "selector" => gen.arg \in DOMAIN rule.rhs /\ rule.rhs[gen.arg].assign = "!"
<1>1. \A how : IsError(Error(how))
  BY DEF IsError, Error
<1>2. \A kind, arg, type : Gen(kind, arg, type).kind = kind /\ Gen(kind, arg, type).arg = arg
  BY DEF Gen
<1>3. CASE rule.hint # NoHint
  <2>1. PICK arg, type : \E kind \in {"enum", "object", "vector", "optional"} : gen = Gen(kind, arg, type)
    BY <1>1, <1>3 DEF GenHandle, HintedGen
  <2> QED
    BY <1>2, <2>1
<1>4. CASE rule.hint = NoHint
  <2>1. PICK i, type : i \in {k \in DOMAIN rule.rhs : rule.rhs[k].assign = "!"} /\ gen = Gen("selector", i, type)
    BY <1>1, <1>4 DEF GenHandle, SelectorGen
  <2> QED
    BY <1>2, <2>1
<1> QED
  BY <1>3, <1>4

\* The index of a member is 0 or one of a member.
LEMMA MemberIndexFits ==
    ASSUME NEW S, NEW members \in Seq(S), NEW name, MemberIndex(members, name) # 0
    PROVE  MemberIndex(members, name) \in DOMAIN members
<1> DEFINE I == {i \in 1 .. Len(members) : members[i].name = name}
<1>1. I # {} /\ MemberIndex(members, name) = Min(I)
  BY DEF MemberIndex, SelectInSeq
<1>2. Len(members) \in Nat /\ DOMAIN members = 1 .. Len(members)
  OBVIOUS
<1>3. Min(I) \in I
  <2> HIDE DEF I
  <2> QED
    BY <1>1, <1>2, LeastIsIn DEF I
<1> QED
  BY <1>1, <1>2, <1>3

\* ManipHandle: the places it uses are not the selected ones, and for a setter
\* they name members of a class.
LEMMA ManipFits ==
    ASSUME ClassesAreLoaded, NEW spec, NEW rhs, NEW type, NEW manip, manip = ManipHandle(spec, rhs, type), ~IsError(manip)
    PROVE  /\ manip.kind \in {"setter", "merger", "placeholder"}
           /\ manip.kind = "placeholder" => manip.places = {}
           /\ \A i \in manip.places : i \in DOMAIN rhs /\ rhs[i].assign # "!"
           /\ manip.kind = "setter" => \A i \in manip.places :
                Is("class", type) /\ manip.member[i] \in DOMAIN types[type].members
<1> DEFINE pushed == {i \in DOMAIN rhs : rhs[i].assign = "&"}
           named == {i \in DOMAIN rhs : rhs[i].assign \notin {Empty, "!", "&"}}
           members == types[type].members
           MemberOf(i) == MemberIndex(members, rhs[i].assign)
<1>1. \A how : IsError(Error(how))
  BY DEF IsError, Error
<1>2. \A kind, places, member :
        /\ Manip(kind, places, member).kind = kind
        /\ Manip(kind, places, member).places = places
        /\ Manip(kind, places, member).member = member
  BY DEF Manip
<1>3. PICK member : member = [i \in named |-> MemberOf(i)]
  OBVIOUS
<1>4. /\ named # {} => Is("class", type)
      /\ \A i \in named : MemberOf(i) # 0
      /\ \/ manip = Manip("merger", pushed, <<>>)
         \/ manip = Manip("setter", named, member)
         \/ manip = Manip("placeholder", {}, <<>>)
  BY <1>1, <1>3 DEF ManipHandle
<1>5. CASE manip = Manip("setter", named, member)
  <2>1. ASSUME NEW i \in named
        PROVE  Is("class", type) /\ member[i] \in DOMAIN members
    <3>1. MemberOf(i) # 0 /\ member[i] = MemberOf(i) /\ Is("class", type)
      BY <1>3, <1>4
    <3>2. members \in Seq(Range(members))
      BY <3>1 DEF ClassesAreLoaded, MembersFit, Is
    <3> QED
      BY <3>1, <3>2, MemberIndexFits
  <2> HIDE DEF MemberOf
  <2> QED
    BY <1>2, <1>5, <2>1
<1>6. CASE manip = Manip("merger", pushed, <<>>)
  BY <1>2, <1>6
<1>7. CASE manip = Manip("placeholder", {}, <<>>)
  BY <1>2, <1>7
<1> QED
  BY <1>4, <1>5, <1>6, <1>7

\* ConstructAstHandle and LoadProductionInfo.
LEMMA HandleIsSound ==
    ASSUME ClassesAreLoaded, NEW spec, NEW rule, rule.rhs \in Seq(Range(rule.rhs)),
           NEW handle, handle = ConstructAstHandle(spec, rule), ~IsError(handle),
           NEW lhs, NEW p,
           p = [lhs |-> lhs, rhs |-> [i \in DOMAIN rule.rhs |-> rule.rhs[i].symbol], handle |-> handle]
    PROVE  HandleFits(p) /\ Len(p.rhs) = Len(rule.rhs)
<1>1. PICK gen, manip : gen = GenHandle(spec, rule) /\ manip = ManipHandle(spec, rule.rhs, gen.type)
  OBVIOUS
<1>2. /\ ~IsError(gen) /\ ~IsError(manip)
      /\ handle = [gen |-> gen, manip |-> manip, proxy |-> gen.type]
  <2>1. IsError(Error("no_proxy"))
    BY DEF IsError, Error
  <2> QED
    BY <1>1, <2>1 DEF ConstructAstHandle
<1>3. /\ gen.kind \in {"enum", "object", "vector", "optional", "selector"}
      /\ gen.kind = "selector" => gen.arg \in DOMAIN rule.rhs /\ rule.rhs[gen.arg].assign = "!"
  BY <1>1, <1>2, GenFits
<1>4. /\ manip.kind \in {"setter", "merger", "placeholder"}
      /\ manip.kind = "placeholder" => manip.places = {}
      /\ \A i \in manip.places : i \in DOMAIN rule.rhs /\ rule.rhs[i].assign # "!"
      /\ manip.kind = "setter" => \A i \in manip.places :
            Is("class", gen.type) /\ manip.member[i] \in DOMAIN types[gen.type].members
  BY <1>1, <1>2, ManipFits
<1>5. /\ DOMAIN rule.rhs = 1 .. Len(rule.rhs) /\ Len(rule.rhs) \in Nat
      /\ DOMAIN p.rhs = DOMAIN rule.rhs
  OBVIOUS
<1>6. Len(p.rhs) = Len(rule.rhs)
  BY <1>5
<1>7. p.handle.gen = gen /\ p.handle.manip = manip /\ p.handle.proxy = gen.type
  BY <1>2
<1> QED
  BY <1>3, <1>4, <1>5, <1>6, <1>7 DEF HandleFits

\* A production is added with a handle that fits, and those there are still fit.
LEMMA BuildKeepsHandles ==
    ASSUME PhasesAreInOrder, ClassesAreLoaded, HandlesFit, Build
    PROVE  HandlesFit'
<1>0. at.phase \in 1 .. 8 /\ config' = config /\ at.index \in Nat \ {0}
  BY BuildShape DEF PhasesAreInOrder
<1>1. CASE at.phase # 8
  <2>1. productions' = <<>>
    BY <1>0, <1>1, BuildShape DEF PhasesAreInOrder
  <2> QED
    BY <2>1 DEF HandlesFit, Range
<1>2. CASE at.phase = 8
  <2>1. types' = types
    BY <1>2, BuildShape
  <2>2. \A p : HandleFits(p)' <=> HandleFits(p)
    BY <2>1 DEF HandleFits, Is
  <2>3. CASE productions' = productions
    BY <1>0, <2>2, <2>3 DEF HandlesFit
  <2>4. CASE LoadProduction /\ productions' # productions
    <3>1. PICK rule, spec : rule = Def.item /\ spec = symbols[Def.lhs].type
      OBVIOUS
    <3>2. PICK handle, p :
            /\ handle = ConstructAstHandle(spec, rule)
            /\ p = [lhs |-> Def.lhs, rhs |-> [i \in DOMAIN rule.rhs |-> rule.rhs[i].symbol], handle |-> handle]
      OBVIOUS
    <3>3. ~IsError(handle) /\ productions' = Append(productions, p) /\ at.index <= Len(Definitions)
      BY <2>4, <3>1, <3>2 DEF LoadProduction, Fail, In
    <3>4. rule.rhs \in Seq(Range(rule.rhs)) /\ (NoEmptyItems(config) => rule.rhs # <<>>)
      <4>1. Definitions = RuleItems(config) /\ rule.rhs = RuleItems(config)[at.index].item.rhs
        BY <1>2, <3>1, DefinitionsAre DEF Def
      <4> QED
        BY <1>0, <3>3, <4>1, RuleItemsShape
    <3>5. HandleFits(p) /\ Len(p.rhs) = Len(rule.rhs)
      BY <3>2, <3>3, <3>4, HandleIsSound
    <3>6. NoEmptyItems(config) => Len(p.rhs) # 0
      BY <3>4, <3>5
    <3>7. PICK S : S = Range(productions) \cup {p}
      OBVIOUS
    <3>8. Append(productions, p) \in Seq(S)
      BY <3>7 DEF HandlesFit
    <3>9. PICK q : q = productions'
      OBVIOUS
    <3>10. Range(q) \subseteq S /\ q \in Seq(Range(q))
      BY <3>3, <3>8, <3>9 DEF Range
    <3>11. \A x \in Range(q) : HandleFits(x) /\ (NoEmptyItems(config) => Len(x.rhs) # 0)
      BY <3>5, <3>6, <3>7, <3>10 DEF HandlesFit
    <3> QED
      BY <1>0, <2>2, <3>9, <3>10, <3>11 DEF HandlesFit
  <2>5. Build /\ ~LoadProduction => productions' = productions
    BY DEF Build, LoadEnum, LoadBase, LoadNode, LoadMembers, RegisterTypeInfo, LoadToken, LoadIgnoredToken,
           LoadVariable, RegisterSymbolInfo, Fail, EndPhase
  <2> QED
    BY <2>3, <2>4, <2>5
<1> QED
  BY <1>1, <1>2

\* Every step of the builder keeps what is known of its lookups and handles.
LEMMA BuildKeepsInvariant ==
    ASSUME BuilderInvariant, BuildStep
    PROVE  BuilderInvariant'
<1>1. Build
  BY DEF BuildStep
<1> QED
  BY <1>1, BuildKeepsOrder, BuildKeepsTypes, BuildKeepsHandles DEF BuilderInvariant

-----------------------------------------------------------------------------
(* The steps of a handle                                                   *)

\* A class is no base: the dynamic_cast to it finds objects of its own only.
LEMMA ClassesAreExact ==
    ASSUME PhasesAreInOrder, TypesAreRegistered, NEW class, Is("class", class), NEW sub, Is("class", sub), DerivesFrom(sub, class)
    PROVE  sub = class
<1>1. class # Empty
  <2>1. class \in Names(3, config.nodes)
    BY DEF TypesAreRegistered, TypesAreNamed, CategoriesAreRight, Is
  <2> QED
    BY <2>1, ConfigShape DEF Names, Done, DoneAt
<1> QED
  BY <1>1 DEF DerivesFrom, TypesAreRegistered, BasesAreBases, BaseFits, Categorized, Is

\* ExtractOne gives the item it is asked for, or throws.
LEMMA OneExtracted ==
    ASSUME NEW type, NEW item, NEW h, NEW x, x = ExtractOne(type, item, h), x # Mismatch
    PROVE  /\ x = item /\ item.tag \in {"token", "enum", "object"}
           /\ item.tag = "enum" => item.of = type
           /\ item.tag = "object" => DerivesFrom(h[item.ref].type, type)
           /\ Is("class", type) => item.tag = "object"
BY DEF ExtractOne, Is

\* Extract gives an item for a member: the one it is given, or an optional
\* around it at its location.
LEMMA Extracted ==
    ASSUME NEW spec, spec.qual \in {"vec", "opt", "none"}, NEW h, NEW item, LooseFits(item, h),
           NEW x, x = Extract(spec, item, h), x # Mismatch
    PROVE  FieldFits(spec, x, h) /\ HeldItem(x) = item /\ LocationOf(x, h) = LocationOf(item, h)
<1>1. item.tag = "optional" => item.held = Nothing
  BY DEF LooseFits
<1>2. ItemFits(item, h) /\ item.tag \in {"token", "enum", "optional", "object", "vector"}
  BY DEF LooseFits, ItemFits
<1>3. HeldItem(item) = item
  BY <1>1 DEF HeldItem
<1>4. PICK held : held = ExtractOne(spec.type, item, h)
  OBVIOUS
<1>5. held # Mismatch =>
        /\ held = item /\ item.tag \in {"token", "enum", "object"}
        /\ item.tag = "enum" => item.of = spec.type
        /\ item.tag = "object" => DerivesFrom(h[item.ref].type, spec.type)
  BY <1>4, OneExtracted
<1>6. CASE spec.qual = "vec"
  <2>1. x = item /\ item.tag = "vector" /\ item.of = spec.type
    BY <1>6 DEF Extract
  <2> QED
    BY <1>2, <1>3, <1>6, <2>1 DEF FieldFits
<1>7. CASE spec.qual = "opt"
  <2>1. \/ x = item /\ item.tag = "optional" /\ item.of = spec.type
        \/ held # Mismatch /\ x = Item("optional", spec.type, 0, LocationOf(item, h), <<held>>)
    BY <1>4, <1>7 DEF Extract
  <2>2. CASE x = item /\ item.tag = "optional" /\ item.of = spec.type
    BY <1>1, <1>2, <1>3, <1>7, <2>2 DEF FieldFits
  <2>3. CASE held # Mismatch /\ x = Item("optional", spec.type, 0, LocationOf(item, h), <<held>>)
    <3>1. /\ x.tag = "optional" /\ x.ref = 0 /\ x.held = <<item>> /\ x.loc = LocationOf(item, h)
          /\ x = Item(x.tag, x.of, x.ref, x.loc, x.held)
      BY <1>5, <2>3 DEF Item
    <3>2. HeldItem(x) = item
      BY <3>1 DEF HeldItem, Nothing
    <3>3. ItemFits(x, h) /\ LocationOf(x, h) = LocationOf(item, h)
      BY <3>1 DEF ItemFits, IsRef, LocationOf
    <3> QED
      BY <1>2, <1>5, <1>7, <2>3, <3>1, <3>2, <3>3 DEF FieldFits, DerivesFrom
  <2> QED
    BY <2>1, <2>2, <2>3
<1>8. CASE spec.qual = "none"
  <2>1. x = item /\ held # Mismatch
    BY <1>4, <1>5, <1>8 DEF Extract
  <2> QED
    BY <1>2, <1>3, <1>5, <1>8, <2>1 DEF FieldFits, DerivesFrom
<1> QED
  BY <1>6, <1>7, <1>8

\* What is asked of items depends on the kinds of nodes, not on their fields and
\* locations.
LEMMA KindsKeepItems ==
    ASSUME NEW h, NEW g, SameKinds(h, g), NEW item
    PROVE  /\ LooseFits(item, h) => LooseFits(item, g)
           /\ ItemFits(item, h) => ItemFits(item, g)
           /\ \A spec : FieldFits(spec, item, h) => FieldFits(spec, item, g)
<1>1. \A it : ItemFits(it, h) => ItemFits(it, g)
  BY DEF SameKinds, ItemFits, IsRef
<1>2. LooseFits(item, h) => LooseFits(item, g)
  BY <1>1 DEF LooseFits
<1>3. ASSUME NEW spec, FieldFits(spec, item, h)
      PROVE  FieldFits(spec, item, g)
  <2>1. /\ ItemFits(item, g)
        /\ HeldItem(item).tag # "optional" => ItemFits(HeldItem(item), h) /\ ItemFits(HeldItem(item), g)
    BY <1>1, <1>3 DEF FieldFits
  <2>2. HeldItem(item).tag = "object" => g[HeldItem(item).ref].type = h[HeldItem(item).ref].type
    BY <2>1 DEF SameKinds, ItemFits, IsRef
  <2> QED
    BY <1>3, <2>1, <2>2 DEF FieldFits
<1> QED
  BY <1>1, <1>2, <1>3

\* Items fit, and lie where they lay, when only fields of nodes change.
LEMMA SameItems ==
    ASSUME NEW h, NEW g, SameNodes(h, g), NEW item
    PROVE  /\ LooseFits(item, h) => LooseFits(item, g)
           /\ ItemFits(item, h) => ItemFits(item, g) /\ LocationOf(item, g) = LocationOf(item, h)
           /\ \A spec : FieldFits(spec, item, h) => FieldFits(spec, item, g)
<1>1. SameKinds(h, g)
  BY DEF SameNodes, SameKinds
<1>2. ItemFits(item, h) => LocationOf(item, g) = LocationOf(item, h)
  BY DEF SameNodes, ItemFits, IsRef, LocationOf
<1> QED
  BY <1>1, <1>2, KindsKeepItems

\* A field is filled with the item of an owner that gives it up.
LEMMA FillKeeps ==
    ASSUME NEW h, NEW g, NEW n, NEW f, NEW x, FillsOne(h, g, n, f, x),
           FieldsFit(h), FieldFits(SpecOf(h[n], f), x, h),
           NEW refs, HeldOnce(h, refs), NEW o \in DOMAIN refs, HeldItem(x).ref = refs[o],
           NEW after, DOMAIN after = DOMAIN refs, after[o] = 0, \A i \in DOMAIN refs : i # o => after[i] = refs[i]
    PROVE  FieldsFit(g) /\ HeldOnce(g, after)
<1>1. \A m, e : Filled(g, m, e) => (m = n /\ e = f) \/ (Filled(h, m, e) /\ ~(m = n /\ e = f))
  BY DEF FillsOne, Filled, SameNodes
<1>2. \A m, e : Filled(g, m, e) /\ ~(m = n /\ e = f) => FieldItem(g, m, e) = FieldItem(h, m, e)
  BY <1>1 DEF FillsOne, Filled, FieldItem, SameNodes
<1>3. FieldItem(g, n, f) = x
  BY DEF FillsOne, FieldItem
<1>4. SameNodes(h, g) /\ n \in DOMAIN h
  BY DEF FillsOne
<1>5. \A m \in DOMAIN h : \A e : SpecOf(g[m], e) = SpecOf(h[m], e)
  BY <1>4 DEF SameNodes, SpecOf
<1>6. FieldsFit(g)
  <2> SUFFICES ASSUME NEW m, NEW e, Filled(g, m, e)
               PROVE  FieldFits(SpecOf(g[m], e), FieldItem(g, m, e), g)
    BY DEF FieldsFit
  <2>1. m \in DOMAIN h
    BY <1>4 DEF Filled, SameNodes
  <2>2. FieldFits(SpecOf(h[m], e), FieldItem(g, m, e), h)
    BY <1>1, <1>2, <1>3 DEF FieldsFit
  <2> QED
    BY <1>4, <1>5, <2>1, <2>2, SameItems
<1>7. HeldOnce(g, after)
  <2>1. /\ DOMAIN after = DOMAIN refs /\ after[o] = 0
        /\ \A i \in DOMAIN refs : i # o => after[i] = refs[i]
    OBVIOUS
  <2>2. \A i, j \in DOMAIN refs : refs[i] = refs[j] /\ refs[i] # 0 => i = j
    BY DEF HeldOnce
  <2>3. \A i \in DOMAIN refs : \A m, e : Filled(h, m, e) /\ FieldRef(h, m, e) = refs[i] => refs[i] = 0
    BY DEF HeldOnce
  <2>4. \A m, e, k, l :
          Filled(h, m, e) /\ Filled(h, k, l) /\ FieldRef(h, m, e) = FieldRef(h, k, l) /\ FieldRef(h, m, e) # 0
          => m = k /\ e = l
    BY DEF HeldOnce
  <2>5. FieldRef(g, n, f) = refs[o]
    BY <1>3 DEF FieldRef
  <2>6. \A m, e : Filled(g, m, e) /\ ~(m = n /\ e = f) => Filled(h, m, e) /\ FieldRef(g, m, e) = FieldRef(h, m, e)
    BY <1>1, <1>2 DEF FieldRef
  <2>7. \A i, j \in DOMAIN after : after[i] = after[j] /\ after[i] # 0 => i = j
    BY <2>1, <2>2
  <2>8. \A i \in DOMAIN after : \A m, e : Filled(g, m, e) /\ FieldRef(g, m, e) = after[i] => after[i] = 0
    BY <2>1, <2>2, <2>3, <2>5, <2>6
  <2>9. \A m, e, k, l :
          Filled(g, m, e) /\ Filled(g, k, l) /\ FieldRef(g, m, e) = FieldRef(g, k, l) /\ FieldRef(g, m, e) # 0
          => m = k /\ e = l
    BY <2>3, <2>4, <2>5, <2>6
  <2> QED
    BY <2>7, <2>8, <2>9 DEF HeldOnce
<1> QED
  BY <1>6, <1>7

\* Locations nest still when the new field is within the span of its node.
LEMMA FillNests ==
    ASSUME NEW h, NEW g, NEW n, NEW f, NEW x, FillsOne(h, g, n, f, x), FieldsFit(h), ItemFits(x, h),
           NEW span, NestWithin(h, n, span), IsLocation(LocationOf(x, h)), Within(LocationOf(x, h), span)
    PROVE  NestWithin(g, n, span)
<1>1. \A m, e : Filled(g, m, e) => (m = n /\ e = f) \/ (Filled(h, m, e) /\ ~(m = n /\ e = f))
  BY DEF FillsOne, Filled, SameNodes
<1>2. \A m, e : Filled(g, m, e) /\ ~(m = n /\ e = f) => FieldItem(g, m, e) = FieldItem(h, m, e)
  BY <1>1 DEF FillsOne, Filled, FieldItem, SameNodes
<1>3. FieldItem(g, n, f) = x
  BY DEF FillsOne, FieldItem
<1>4. SameNodes(h, g) /\ n \in DOMAIN h
  BY DEF FillsOne
<1>5. SUFFICES ASSUME NEW m, NEW e, Filled(g, m, e)
               PROVE  LET loc == LocationOf(FieldItem(g, m, e), g)
                      IN  IsLocation(loc) /\ Within(loc, IF m = n THEN span ELSE g[m].loc)
  BY DEF NestWithin
<1>6. m \in DOMAIN h /\ g[m].loc = h[m].loc
  BY <1>4, <1>5 DEF Filled, SameNodes
<1>7. CASE m = n /\ e = f
  BY <1>3, <1>4, <1>7, SameItems
<1>8. CASE ~(m = n /\ e = f)
  <2>1. Filled(h, m, e) /\ FieldItem(g, m, e) = FieldItem(h, m, e)
    BY <1>1, <1>2, <1>5, <1>8
  <2>2. ItemFits(FieldItem(h, m, e), h)
    BY <2>1 DEF FieldsFit, FieldFits
  <2>3. LocationOf(FieldItem(g, m, e), g) = LocationOf(FieldItem(h, m, e), h)
    BY <1>4, <2>1, <2>2, SameItems
  <2> QED
    BY <1>6, <2>1, <2>3 DEF NestWithin
<1> QED
  BY <1>7, <1>8

\* A function on 1 .. n is a sequence of that length.
LEMMA RowIs ==
    ASSUME NEW n \in Nat, NEW s, s = [k \in 1 .. n |-> s[k]]
    PROVE  IsRow(s) /\ Len(s) = n /\ s \in Seq(Range(s))
<1>1. \A k \in 1 .. n : s[k] \in Range(s)
  BY DEF Range
<1>2. s \in Seq(Range(s))
  BY <1>1
<1>3. Len(s) = n
  BY <1>2
<1> QED
  BY <1>2, <1>3 DEF IsRow

\* Rows are sequences of what they hold.
LEMMA RowsAreSequences ==
    ASSUME NEW s, IsRow(s)
    PROVE  s \in Seq(Range(s)) /\ Len(s) \in Nat /\ DOMAIN s = 1 .. Len(s)
BY RowIs DEF IsRow

\* SetItem puts a field into an object.
LEMMA SetFills ==
    ASSUME NEW h, IsHeap(h), NEW n \in DOMAIN h, NEW f \in DOMAIN h[n].fields, NEW x,
           NEW g, g = SetItem(h, n, f, x)
    PROVE  FillsOne(h, g, n, f, x)
<1> DEFINE fields == [h[n].fields EXCEPT ![f] = <<x>>]
           node == [h[n] EXCEPT !.fields = fields]
<1>1. Len(h) \in Nat /\ DOMAIN h = 1 .. Len(h) /\ h = [k \in 1 .. Len(h) |-> h[k]]
  BY DEF IsHeap, IsRow
<1>2. NodeFits(h[n]) /\ IsRow(h[n].fields)
  BY DEF IsHeap, NodeFits
<1>3. g = [h EXCEPT ![n] = node]
  BY DEF SetItem
<1>4. /\ DOMAIN fields = DOMAIN h[n].fields /\ fields[f] = <<x>>
      /\ \A e \in DOMAIN h[n].fields : e # f => fields[e] = h[n].fields[e]
  OBVIOUS
<1>5. IsRow(fields)
  <2>1. Len(h[n].fields) \in Nat /\ fields = [k \in 1 .. Len(h[n].fields) |-> fields[k]]
    BY <1>2 DEF IsRow
  <2> HIDE DEF fields
  <2> QED
    BY <2>1, RowIs
<1>6. /\ node.kind = h[n].kind /\ node.type = h[n].type /\ node.loc = h[n].loc /\ node.fields = fields
      /\ node = [kind |-> node.kind, type |-> node.type, fields |-> node.fields, loc |-> node.loc]
  BY <1>2 DEF NodeFits
<1>7. NodeFits(node)
  <2> HIDE DEF fields, node
  <2> QED
    BY <1>2, <1>4, <1>5, <1>6 DEF NodeFits
<1>8. /\ DOMAIN g = DOMAIN h /\ g[n] = node
      /\ \A m \in DOMAIN h : m # n => g[m] = h[m]
      /\ g = [k \in 1 .. Len(h) |-> g[k]]
  <2> HIDE DEF fields, node
  <2> QED
    BY <1>1, <1>3
<1>9. IsRow(g)
  BY <1>1, <1>8, RowIs
<1> HIDE DEF fields, node
<1>10. IsHeap(g)
  BY <1>7, <1>8, <1>9 DEF IsHeap
<1> QED
  BY <1>4, <1>6, <1>8, <1>10 DEF FillsOne, SameNodes

\* A push gives a vector one field more.
LEMMA PushFills ==
    ASSUME NEW h, IsHeap(h), NEW n \in DOMAIN h, h[n].kind = "vector", NEW x,
           NEW g, g = PushBack(h, n, x)
    PROVE  FillsOne(h, g, n, Len(h[n].fields) + 1, x)
<1> DEFINE l == Len(h[n].fields)
           fields == Append(h[n].fields, <<x>>)
           node == [h[n] EXCEPT !.fields = fields]
<1>1. Len(h) \in Nat /\ DOMAIN h = 1 .. Len(h) /\ h = [k \in 1 .. Len(h) |-> h[k]]
  BY DEF IsHeap, IsRow
<1>2. NodeFits(h[n]) /\ IsRow(h[n].fields)
  BY DEF IsHeap, NodeFits
<1>3. g = [h EXCEPT ![n] = node]
  BY DEF PushBack
<1>4. /\ l \in Nat /\ DOMAIN h[n].fields = 1 .. l
      /\ DOMAIN fields = 1 .. (l + 1) /\ fields[l + 1] = <<x>>
      /\ \A e \in 1 .. l : fields[e] = h[n].fields[e]
      /\ IsRow(fields)
  <2>1. PICK S : S = Range(h[n].fields) \cup {<<x>>}
    OBVIOUS
  <2>2. h[n].fields \in Seq(S)
    BY <1>2, <2>1, RowsAreSequences
  <2>3. fields \in Seq(S) /\ Len(fields) = l + 1 /\ fields[l + 1] = <<x>> /\ \A e \in 1 .. l : fields[e] = h[n].fields[e]
    BY <2>1, <2>2
  <2>4. l \in Nat /\ DOMAIN h[n].fields = 1 .. l
    BY <2>2
  <2> HIDE DEF fields
  <2> QED
    BY <2>3, <2>4 DEF IsRow
<1>6. /\ node.kind = h[n].kind /\ node.type = h[n].type /\ node.loc = h[n].loc /\ node.fields = fields
      /\ node = [kind |-> node.kind, type |-> node.type, fields |-> node.fields, loc |-> node.loc]
  <2> HIDE DEF fields
  <2> QED
    BY <1>2 DEF NodeFits
<1> HIDE DEF fields, node
<1>7. NodeFits(node)
  BY <1>2, <1>4, <1>6 DEF NodeFits
<1>8. /\ DOMAIN g = DOMAIN h /\ g[n] = node
      /\ \A m \in DOMAIN h : m # n => g[m] = h[m]
      /\ g = [k \in 1 .. Len(h) |-> g[k]]
  BY <1>1, <1>3
<1>9. IsRow(g)
  BY <1>1, <1>8, RowIs
<1>10. IsHeap(g)
  BY <1>7, <1>8, <1>9 DEF IsHeap
<1>11. 1 .. (l + 1) = (1 .. l) \cup {l + 1} /\ \A e \in 1 .. l : e # l + 1
  BY <1>4
<1> QED
  BY <1>4, <1>6, <1>8, <1>10, <1>11 DEF FillsOne, SameNodes

\* AssignField fills a member with the item, or throws.
LEMMA AssignFills ==
    ASSUME PhasesAreInOrder, TypesAreRegistered, ClassesAreLoaded,
           NEW proxy, Is("class", proxy), NEW member \in DOMAIN types[proxy].members,
           NEW state, IsState(state), IsHeap(state.h), NEW obj, LooseFits(obj, state.h), NEW value, LooseFits(value, state.h),
           NEW next, next = AssignField(state, proxy, obj, member, value)
    PROVE  /\ IsState(next) /\ (next.ok => state.ok)
           /\ next.ok => IsRef(obj) /\ Takes(state.h, next.h, obj.ref, value)
<1> DEFINE h == state.h
<1>1. PICK spec, x : spec = types[proxy].members[member].type /\ x = Extract(spec, value, h)
  OBVIOUS
<1>2. PICK made : made = ExtractOne(proxy, obj, h)
  OBVIOUS
<1>3. IF state.ok /\ made # Mismatch /\ x # Mismatch THEN next = [state EXCEPT !.h = SetItem(@, obj.ref, member, x)]
      ELSE next = [state EXCEPT !.ok = FALSE]
  BY <1>1, <1>2 DEF AssignField
<1>4. /\ IsState(next) /\ (next.ok => state.ok)
      /\ next.ok => made # Mismatch /\ x # Mismatch /\ next.h = SetItem(h, obj.ref, member, x)
  BY <1>3 DEF IsState
<1>5. SUFFICES ASSUME next.ok
               PROVE  IsRef(obj) /\ Takes(state.h, next.h, obj.ref, value)
  BY <1>4
<1>6. obj.tag = "object" /\ DerivesFrom(h[obj.ref].type, proxy)
  BY <1>2, <1>4, <1>5, OneExtracted
<1>7. obj.ref \in DOMAIN h /\ h[obj.ref].kind = "object" /\ IsRef(obj)
  BY <1>6 DEF LooseFits, ItemFits, IsRef
<1>8. NodeFits(h[obj.ref])
  BY <1>7 DEF IsHeap
<1>9. Is("class", h[obj.ref].type) /\ DOMAIN h[obj.ref].fields = DOMAIN types[h[obj.ref].type].members
  BY <1>7, <1>8 DEF NodeFits
<1>10. h[obj.ref].type = proxy
  BY <1>6, <1>9, ClassesAreExact DEF Is
<1>11. spec.qual \in {"vec", "opt", "none"} /\ spec = SpecOf(h[obj.ref], member)
  BY <1>1, <1>7, <1>10 DEF ClassesAreLoaded, MembersFit, Is, SpecOf
<1>12. FieldFits(spec, x, h) /\ HeldItem(x) = value /\ LocationOf(x, h) = LocationOf(value, h)
  BY <1>1, <1>4, <1>5, <1>11, Extracted
<1>13. FillsOne(h, next.h, obj.ref, member, x)
  BY <1>4, <1>5, <1>7, <1>9, <1>10, SetFills
<1> QED
  BY <1>7, <1>11, <1>12, <1>13 DEF Takes

\* PushBackElement fills a new field of the vector with the item, or throws.
LEMMA PushBackFills ==
    ASSUME NEW proxy, NEW state, IsState(state), IsHeap(state.h), NEW vec, LooseFits(vec, state.h),
           NEW value, LooseFits(value, state.h),
           NEW next, next = PushBackElement(state, proxy, vec, value)
    PROVE  /\ IsState(next) /\ (next.ok => state.ok)
           /\ next.ok => IsRef(vec) /\ Takes(state.h, next.h, vec.ref, value)
<1> DEFINE h == state.h
<1>1. PICK elem, made : elem = ExtractOne(proxy, value, h) /\ made = Extract([qual |-> "vec", type |-> proxy], vec, h)
  OBVIOUS
<1>2. IF state.ok /\ made # Mismatch /\ elem # Mismatch THEN next = [state EXCEPT !.h = PushBack(@, vec.ref, elem)]
      ELSE next = [state EXCEPT !.ok = FALSE]
  BY <1>1 DEF PushBackElement
<1>3. /\ IsState(next) /\ (next.ok => state.ok)
      /\ next.ok => made # Mismatch /\ elem # Mismatch /\ next.h = PushBack(h, vec.ref, elem)
  BY <1>2 DEF IsState
<1>4. SUFFICES ASSUME next.ok
               PROVE  IsRef(vec) /\ Takes(state.h, next.h, vec.ref, value)
  BY <1>3
<1>5. vec.tag = "vector" /\ vec.of = proxy
  BY <1>1, <1>3, <1>4 DEF Extract
<1>6. vec.ref \in DOMAIN h /\ h[vec.ref].kind = "vector" /\ h[vec.ref].type = proxy /\ IsRef(vec)
  BY <1>5 DEF LooseFits, ItemFits, IsRef
<1>7. PICK spec : spec = [qual |-> "none", type |-> proxy]
  OBVIOUS
<1>8. \A f : spec = SpecOf(h[vec.ref], f)
  BY <1>6, <1>7 DEF SpecOf
<1>9. elem = Extract(spec, value, h) /\ spec.qual = "none"
  BY <1>1, <1>7 DEF Extract
<1>10. FieldFits(spec, elem, h) /\ HeldItem(elem) = value /\ LocationOf(elem, h) = LocationOf(value, h)
  BY <1>3, <1>4, <1>9, Extracted
<1>11. FillsOne(h, next.h, vec.ref, Len(h[vec.ref].fields) + 1, elem)
  BY <1>3, <1>4, <1>6, PushFills
<1> QED
  BY <1>6, <1>8, <1>10, <1>11 DEF Takes

\* A step of the loop goes on only where the one before did.
LEMMA UsedState ==
    ASSUME NEW handle, NEW item, NEW rhs, NEW state, IsState(state), NEW i, NEW next, next = Used(handle, item, rhs, state, i)
    PROVE  IsState(next) /\ (next.ok => state.ok)
BY DEF Used, AssignField, PushBackElement, IsState

\* What a handle does with an item: nothing, or the item is taken by what is made.
LEMMA UsedFills ==
    ASSUME PhasesAreInOrder, TypesAreRegistered, ClassesAreLoaded, NEW p, HandleFits(p),
           NEW state, IsState(state), IsHeap(state.h), NEW item, LooseFits(item, state.h), NEW rhs,
           NEW i, LooseFits(rhs[i], state.h),
           NEW next, next = Used(p.handle, item, rhs, state, i)
    PROVE  /\ IsState(next) /\ (next.ok => state.ok)
           /\ i \notin p.handle.manip.places => next = state
           /\ i \in p.handle.manip.places /\ next.ok => IsRef(item) /\ Takes(state.h, next.h, item.ref, rhs[i])
<1>1. PICK value : value = rhs[i]
  OBVIOUS
<1>2. CASE i \in p.handle.manip.places /\ p.handle.manip.kind = "setter"
  <2>1. PICK proxy, member : proxy = p.handle.proxy /\ member = p.handle.manip.member[i]
    OBVIOUS
  <2>2. Is("class", proxy) /\ member \in DOMAIN types[proxy].members
    BY <1>2, <2>1 DEF HandleFits
  <2>3. next = AssignField(state, proxy, item, member, value)
    BY <1>1, <1>2, <2>1 DEF Used
  <2>4. LooseFits(value, state.h)
    BY <1>1
  <2> QED
    BY <1>1, <1>2, <2>2, <2>3, <2>4, AssignFills
<1>3. CASE i \in p.handle.manip.places /\ p.handle.manip.kind # "setter"
  <2>1. PICK proxy : proxy = p.handle.proxy
    OBVIOUS
  <2>2. next = PushBackElement(state, proxy, item, value)
    BY <1>1, <1>3, <2>1 DEF Used
  <2>3. LooseFits(value, state.h)
    BY <1>1
  <2> QED
    BY <1>1, <1>3, <2>2, <2>3, PushBackFills
<1>4. CASE i \notin p.handle.manip.places
  BY <1>4 DEF Used
<1> QED
  BY <1>2, <1>3, <1>4

\* The loop over the right-hand side is a chain of states.
LEMMA ManipulatedSteps ==
    ASSUME NEW handle, NEW item, NEW rhs, Len(rhs) \in Nat, NEW h
    PROVE  \E after : /\ after[0] = [h |-> h, ok |-> TRUE]
                      /\ \A i \in 1 .. Len(rhs) : after[i] = Used(handle, item, rhs, after[i - 1], i)
                      /\ Manipulated(handle, item, rhs, h) = after[Len(rhs)]
<1> DEFINE n == Len(rhs)
           Step(f, i) == IF i = 0 THEN [h |-> h, ok |-> TRUE] ELSE Used(handle, item, rhs, f[i - 1], i)
           Fits(k, f) == f = [i \in 0 .. k |-> Step(f, i)]
           A == {k \in 0 .. n : \E f : Fits(k, f)}
<1>0. n \in Nat
  OBVIOUS
<1>1. 0 \in A
  <2>1. PICK f : f = [i \in 0 .. 0 |-> [h |-> h, ok |-> TRUE]]
    OBVIOUS
  <2>2. Fits(0, f)
    BY <2>1
  <2> HIDE DEF Fits
  <2> QED
    BY <1>0, <2>2
<1>2. \A k \in 0 .. n : k # n /\ k \in A => k + 1 \in A
  <2> SUFFICES ASSUME NEW k \in 0 .. n, k # n, k \in A PROVE k + 1 \in A
    OBVIOUS
  <2>1. PICK f : Fits(k, f)
    <3> HIDE DEF Fits
    <3> QED
      OBVIOUS
  <2>2. PICK g : g = [i \in 0 .. (k + 1) |-> IF i = k + 1 THEN Step(f, i) ELSE f[i]]
    OBVIOUS
  <2>3. \A i \in 0 .. k : g[i] = f[i]
    BY <2>2
  <2>4. \A i \in 0 .. (k + 1) : g[i] = Step(f, i)
    <3>1. \A i \in 0 .. k : f[i] = Step(f, i)
      <4> HIDE DEF Step
      <4> QED
        BY <2>1
    <3> HIDE DEF Step, Fits
    <3> QED
      BY <2>2, <3>1
  <2>5. \A i \in 0 .. (k + 1) : i # 0 => i - 1 \in 0 .. k
    OBVIOUS
  <2>6. \A i \in 0 .. (k + 1) : g[i] = Step(g, i)
    BY <2>3, <2>4, <2>5
  <2>7. Fits(k + 1, g)
    <3>1. g = [i \in 0 .. (k + 1) |-> g[i]]
      BY <2>2
    <3> HIDE DEF Step
    <3> QED
      BY <2>6, <3>1
  <2> HIDE DEF Fits
  <2> QED
    BY <1>0, <2>7
<1>3. \A k \in 0 .. n : k \in A
  <2> HIDE DEF A
  <2> QED
    BY <1>0, <1>1, <1>2, T!IntervalInduction
<1>4. PICK w : Fits(n, w)
  <2> HIDE DEF Fits
  <2>1. n \in A
    BY <1>0, <1>3
  <2> QED
    BY <2>1
<1> DEFINE after == CHOOSE f : f = [i \in 0 .. n |-> Step(f, i)]
<1>5. Fits(n, after)
  BY <1>4
<1>6. Manipulated(handle, item, rhs, h) = after[n]
  BY DEF Manipulated
<1> HIDE DEF after
<1>7. \A i \in 0 .. n : after[i] = Step(after, i)
  <2> HIDE DEF Step
  <2> QED
    BY <1>5
<1>8. after[0] = [h |-> h, ok |-> TRUE] /\ \A i \in 1 .. n : after[i] = Used(handle, item, rhs, after[i - 1], i)
  <2>1. 0 \in 0 .. n /\ \A i \in 1 .. n : i \in 0 .. n /\ i # 0
    BY <1>0
  <2>2. after[0] = Step(after, 0) /\ \A i \in 1 .. n : after[i] = Step(after, i)
    <3> HIDE DEF Step
    <3> QED
      BY <1>7, <2>1
  <2> QED
    BY <2>1, <2>2
<1> QED
  BY <1>6, <1>8

\* The turn after the one of k, and the owner of the item of place j.
Follows(k, j) == k \in Nat /\ j = k + 1
Owns(base, j, o) == o = base + j

\* What is asked of the items of a right-hand side: they are loose, the owners from
\* base on own them, and they lie within a span.
AllLoose(rhs, h) == \A i \in 1 .. Len(rhs) : LooseFits(rhs[i], h)
AllOwned(rhs, refs, base) == \A i \in 1 .. Len(rhs) : base + i \in DOMAIN refs /\ refs[base + i] = rhs[i].ref
AllWithin(rhs, h, span) ==
    \A i \in 1 .. Len(rhs) : IsLocation(LocationOf(rhs[i], h)) /\ Within(LocationOf(rhs[i], h), span)

\* One turn of the loop: when it does not throw, the item is still loose or it is
\* held by what is made, and nothing else changes.
LEMMA TurnKeeps ==
    ASSUME PhasesAreInOrder, TypesAreRegistered, ClassesAreLoaded, NEW p, HandleFits(p),
           NEW state, IsState(state), IsHeap(state.h), FieldsFit(state.h), NEW item, LooseFits(item, state.h),
           NEW rhs, NEW k, NEW j, Follows(k, j), LooseFits(rhs[j], state.h),
           NEW next, next = Used(p.handle, item, rhs, state, j), next.ok,
           NEW base \in Nat, NEW refs, NEW o, Owns(base, j, o), o \in DOMAIN refs, refs[o] = rhs[j].ref,
           HeldOnce(state.h, Given(refs, base, p.handle.manip.places, k)),
           NEW span, NoEmptyItems(config) /\ IsRef(item) => NestWithin(state.h, item.ref, span),
           NoEmptyItems(config) => IsLocation(LocationOf(rhs[j], state.h)) /\ Within(LocationOf(rhs[j], state.h), span)
    PROVE  /\ SameNodes(state.h, next.h) /\ IsHeap(next.h) /\ FieldsFit(next.h)
           /\ HeldOnce(next.h, Given(refs, base, p.handle.manip.places, j))
           /\ NoEmptyItems(config) /\ IsRef(item) => NestWithin(next.h, item.ref, span)
<1> DEFINE places == p.handle.manip.places
           now == Given(refs, base, places, k)
           then == Given(refs, base, places, j)
<1>0. k \in Nat /\ j = k + 1 /\ o = base + j /\ \A i \in places : i \in Nat
  BY DEF HandleFits, Follows, Owns
<1>1. CASE j \notin places
  <2>1. next = state
    BY <1>1, UsedFills
  <2>2. \A i \in places : i <= j <=> i <= k
    BY <1>0, <1>1
  <2>3. now = then
    BY <2>2 DEF Given
  <2> QED
    BY <2>1, <2>3 DEF SameNodes
<1>2. CASE j \in places
  <2>1. IsRef(item) /\ Takes(state.h, next.h, item.ref, rhs[j])
    BY <1>2, UsedFills
  <2>2. PICK f, x : /\ FillsOne(state.h, next.h, item.ref, f, x)
                    /\ FieldFits(SpecOf(state.h[item.ref], f), x, state.h)
                    /\ HeldItem(x) = rhs[j] /\ LocationOf(x, state.h) = LocationOf(rhs[j], state.h)
    BY <2>1 DEF Takes
  <2>3. DOMAIN now = DOMAIN refs /\ now[o] = refs[o]
    <3>1. \A i \in places : i <= k => o # base + i
      BY <1>0
    <3> QED
      BY <3>1 DEF Given
  <2>4. DOMAIN then = DOMAIN now /\ then[o] = 0 /\ \A q \in DOMAIN now : q # o => then[q] = now[q]
    <3>1. \A q : (\E i \in places : i <= j /\ q = base + i) <=> (q = o \/ \E i \in places : i <= k /\ q = base + i)
      BY <1>0, <1>2
    <3> QED
      BY <3>1 DEF Given
  <2>5. FieldsFit(next.h) /\ HeldOnce(next.h, then)
    <3>1. o \in DOMAIN now /\ HeldItem(x).ref = now[o]
      BY <2>2, <2>3
    <3>2. HeldOnce(state.h, now)
      OBVIOUS
    <3> HIDE DEF now, then
    <3> QED
      BY <2>2, <2>4, <3>1, <3>2, FillKeeps
  <2>6. NoEmptyItems(config) => NestWithin(next.h, item.ref, span)
    <3>1. ItemFits(x, state.h)
      BY <2>2 DEF FieldFits
    <3> QED
      BY <2>1, <2>2, <3>1, FillNests
  <2> QED
    BY <2>1, <2>2, <2>5, <2>6 DEF FillsOne
<1> QED
  BY <1>1, <1>2

\* The loop over the right-hand side, when it does not throw.
Ran(p, item, rhs, h, done) ==
    HandleFits(p) /\ Len(rhs) = Len(p.rhs) /\ done = Manipulated(p.handle, item, rhs, h) /\ done.ok
AsItWas(h, g) == g = h

\* After the loop the items it used are held by what is made, and no other is.
LEMMA ManipulatedKeeps ==
    ASSUME PhasesAreInOrder, TypesAreRegistered, ClassesAreLoaded,
           NEW p, NEW rhs, NEW h, IsHeap(h), FieldsFit(h), NEW item, LooseFits(item, h),
           AllLoose(rhs, h), NEW base \in Nat, NEW refs, HeldOnce(h, refs), AllOwned(rhs, refs, base),
           NEW span, NoEmptyItems(config) /\ IsRef(item) => NestWithin(h, item.ref, span),
           NoEmptyItems(config) => AllWithin(rhs, h, span),
           NEW done, Ran(p, item, rhs, h, done)
    PROVE  /\ SameNodes(h, done.h) /\ IsHeap(done.h) /\ FieldsFit(done.h)
           /\ HeldOnce(done.h, Given(refs, base, p.handle.manip.places, Len(rhs)))
           /\ NoEmptyItems(config) /\ IsRef(item) => NestWithin(done.h, item.ref, span)
           /\ IsRef(item) \/ AsItWas(h, done.h)
<1> DEFINE n == Len(rhs)
           places == p.handle.manip.places
           Sound(state, k) ==
                /\ SameNodes(h, state.h) /\ IsHeap(state.h) /\ FieldsFit(state.h)
                /\ HeldOnce(state.h, Given(refs, base, places, k))
                /\ NoEmptyItems(config) /\ IsRef(item) => NestWithin(state.h, item.ref, span)
                /\ IsRef(item) \/ state.h = h
<1>0. /\ \A i \in 1 .. n : LooseFits(rhs[i], h) /\ base + i \in DOMAIN refs /\ refs[base + i] = rhs[i].ref
      /\ NoEmptyItems(config) => \A i \in 1 .. n : IsLocation(LocationOf(rhs[i], h)) /\ Within(LocationOf(rhs[i], h), span)
  BY DEF AllLoose, AllOwned, AllWithin
<1>1. n \in Nat /\ places \subseteq 1 .. n
  BY DEF Ran, HandleFits
<1>6. HandleFits(p) /\ done.ok
  BY DEF Ran
<1>2. PICK after : /\ after[0] = [h |-> h, ok |-> TRUE]
                   /\ \A i \in 1 .. n : after[i] = Used(p.handle, item, rhs, after[i - 1], i)
                   /\ done = after[n]
  BY <1>1, ManipulatedSteps DEF Ran
<1> DEFINE A == {k \in 0 .. n : IsState(after[k]) /\ (after[k].ok => Sound(after[k], k))}
<1>3. 0 \in A
  <2>1. IsState(after[0]) /\ after[0].h = h
    BY <1>2 DEF IsState
  <2>2. Given(refs, base, places, 0) = [o \in DOMAIN refs |-> refs[o]]
    <3>1. \A i \in places : ~(i <= 0)
      BY <1>1
    <3> QED
      BY <3>1 DEF Given
  <2>3. HeldOnce(h, Given(refs, base, places, 0))
    BY <2>2 DEF HeldOnce
  <2>4. SameNodes(h, h)
    BY DEF SameNodes
  <2> QED
    BY <1>1, <2>1, <2>3, <2>4
<1>4. \A k \in 0 .. n : k # n /\ k \in A => k + 1 \in A
  <2> SUFFICES ASSUME NEW k \in 0 .. n, k # n, k \in A PROVE k + 1 \in A
    OBVIOUS
  <2>1. PICK state, next : state = after[k] /\ next = after[k + 1]
    OBVIOUS
  <2>2. k + 1 \in 0 .. n /\ k + 1 \in 1 .. n /\ (k + 1) - 1 = k
    BY <1>1
  <2>3. next = Used(p.handle, item, rhs, state, k + 1) /\ IsState(state)
    <3> HIDE DEF Sound
    <3> QED
      BY <1>2, <2>1, <2>2
  <2>4. state.ok => Sound(state, k)
    <3> HIDE DEF Sound
    <3> QED
      BY <2>1
  <2>5. IsState(next) /\ (next.ok => state.ok)
    BY <2>3, UsedState
  <2>6. ASSUME next.ok
        PROVE  Sound(next, k + 1)
    <3>1. Sound(state, k)
      BY <2>4, <2>5, <2>6
    <3>2. LooseFits(item, state.h) /\ LooseFits(rhs[k + 1], state.h)
      BY <1>0, <2>2, <3>1, SameItems
    <3>3. NoEmptyItems(config) => IsLocation(LocationOf(rhs[k + 1], state.h)) /\ Within(LocationOf(rhs[k + 1], state.h), span)
      <4>1. ItemFits(rhs[k + 1], h)
        BY <1>0, <2>2 DEF LooseFits
      <4>2. LocationOf(rhs[k + 1], state.h) = LocationOf(rhs[k + 1], h)
        BY <3>1, <4>1, SameItems
      <4> QED
        BY <1>0, <2>2, <4>2
    <3>4. base + (k + 1) \in DOMAIN refs /\ refs[base + (k + 1)] = rhs[k + 1].ref
      BY <1>0, <2>2
    <3>5. /\ SameNodes(state.h, next.h) /\ IsHeap(next.h) /\ FieldsFit(next.h)
          /\ HeldOnce(next.h, Given(refs, base, places, k + 1))
          /\ NoEmptyItems(config) /\ IsRef(item) => NestWithin(next.h, item.ref, span)
          /\ IsRef(item) \/ next.h = state.h
      <4>1. /\ IsHeap(state.h) /\ FieldsFit(state.h)
            /\ HeldOnce(state.h, Given(refs, base, places, k))
            /\ NoEmptyItems(config) /\ IsRef(item) => NestWithin(state.h, item.ref, span)
        BY <3>1
      <4>2. PICK j, o : j = k + 1 /\ o = base + j
        OBVIOUS
      <4>5. Follows(k, j) /\ Owns(base, j, o)
        BY <1>1, <4>2 DEF Follows, Owns
      <4>3. /\ next = Used(p.handle, item, rhs, state, j) /\ LooseFits(rhs[j], state.h)
            /\ o \in DOMAIN refs /\ refs[o] = rhs[j].ref
            /\ NoEmptyItems(config) => IsLocation(LocationOf(rhs[j], state.h)) /\ Within(LocationOf(rhs[j], state.h), span)
        BY <2>3, <3>2, <3>3, <3>4, <4>2
      <4> HIDE DEF Sound, A
      <4>4. SameNodes(state.h, next.h) /\ IsHeap(next.h) /\ FieldsFit(next.h)
        BY <1>6, <2>3, <2>6, <3>2, <4>1, <4>3, <4>5, TurnKeeps
      <4>6. HeldOnce(next.h, Given(refs, base, places, j))
        BY <1>6, <2>3, <2>6, <3>2, <4>1, <4>3, <4>5, TurnKeeps
      <4>7. ASSUME NoEmptyItems(config), IsRef(item)
            PROVE  NestWithin(next.h, item.ref, span)
        BY <1>6, <2>3, <2>6, <3>2, <4>1, <4>3, <4>5, <4>7, TurnKeeps
      <4>8. IsRef(item) \/ next.h = state.h
        <5>1. IsRef(item) \/ next = state
          BY <1>6, <2>3, <2>6, <3>2, <4>1, <4>3, UsedFills
        <5> QED
          BY <5>1
      <4> QED
        BY <4>2, <4>4, <4>6, <4>7, <4>8
    <3>6. SameNodes(h, next.h)
      BY <3>1, <3>5 DEF SameNodes
    <3> QED
      BY <3>1, <3>5, <3>6
  <2> HIDE DEF Sound
  <2> QED
    BY <2>1, <2>2, <2>5, <2>6
<1>5. n \in A
  <2> HIDE DEF A
  <2>1. \A k \in 0 .. n : k \in A
    <3> HIDE DEF n
    <3> QED
      BY <1>1, <1>3, <1>4, T!IntervalInduction
  <2> QED
    BY <1>1, <2>1
<1> QED
  BY <1>2, <1>5, <1>6 DEF AsItWas

-----------------------------------------------------------------------------
(* What a handle makes                                                     *)

\* References are of nodes.
LEMMA RefsAreIn ==
    ASSUME NEW h, IsHeap(h), FieldsFit(h)
    PROVE  /\ DOMAIN h = 1 .. Len(h) /\ Len(h) \in Nat
           /\ \A n, f : Filled(h, n, f) => FieldRef(h, n, f) = 0 \/ FieldRef(h, n, f) \in DOMAIN h
           /\ \A item : ItemFits(item, h) => item.ref = 0 \/ item.ref \in DOMAIN h
<1>1. DOMAIN h = 1 .. Len(h) /\ Len(h) \in Nat
  BY DEF IsHeap, IsRow
<1>2. \A item : ItemFits(item, h) => item.ref = 0 \/ item.ref \in DOMAIN h
  BY DEF ItemFits
<1>3. ASSUME NEW n, NEW f, Filled(h, n, f)
      PROVE  FieldRef(h, n, f) = 0 \/ FieldRef(h, n, f) \in DOMAIN h
  <2>1. PICK item : item = FieldItem(h, n, f)
    OBVIOUS
  <2>2. FieldFits(SpecOf(h[n], f), item, h) /\ FieldRef(h, n, f) = HeldItem(item).ref
    BY <1>3, <2>1 DEF FieldsFit, FieldRef
  <2>3. ItemFits(HeldItem(item), h)
    BY <2>2 DEF FieldFits, HeldItem
  <2> QED
    BY <1>2, <2>2, <2>3
<1> QED
  BY <1>1, <1>2, <1>3

\* The heap has the nodes it had, and the new ones have no field filled.
Grown(h, g) ==
    /\ IsHeap(g) /\ FieldsFit(g) /\ SameKinds(h, g)
    /\ \A n \in DOMAIN h : g[n] = h[n]
    /\ \A n, f : Filled(g, n, f) <=> Filled(h, n, f)

\* A new node has no field filled and nobody holds it.
LEMMA AllocatedFits ==
    ASSUME NEW h, IsHeap(h), FieldsFit(h), NEW tag \in {"object", "vector"}, NEW type, NEW fields, IsRow(fields),
           tag = "object" => Is("class", type) /\ DOMAIN fields = DOMAIN types[type].members,
           \A f \in DOMAIN fields : fields[f] = Nothing,
           NEW made, made = Allocated(tag, type, fields, h)
    PROVE  Grown(h, made.h) /\ LooseFits(made.item, made.h) /\ made.item.ref \notin DOMAIN h
<1> DEFINE l == Len(h) + 1
           node == Node(tag, type, fields)
           g == Append(h, node)
<1>1. /\ node = [kind |-> node.kind, type |-> node.type, fields |-> node.fields, loc |-> node.loc]
      /\ node.kind = tag /\ node.type = type /\ node.fields = fields
  BY DEF Node
<1>2. NodeFits(node)
  <2> HIDE DEF node
  <2> QED
    BY <1>1 DEF NodeFits
<1>3. h \in Seq(Range(h)) /\ Len(h) \in Nat /\ DOMAIN h = 1 .. Len(h)
  BY RowsAreSequences DEF IsHeap
<1>4. IsRow(g) /\ DOMAIN g = 1 .. l /\ g[l] = node /\ \A n \in DOMAIN h : g[n] = h[n]
  <2> HIDE DEF node
  <2>1. PICK S : S = Range(h) \cup {node}
    OBVIOUS
  <2>2. h \in Seq(S)
    BY <1>3, <2>1
  <2>3. g \in Seq(S) /\ Len(g) = l /\ g[l] = node /\ \A n \in 1 .. Len(h) : g[n] = h[n]
    BY <2>1, <2>2
  <2>4. l \in Nat
    BY <1>3
  <2> HIDE DEF g
  <2> QED
    BY <1>3, <2>3, <2>4 DEF IsRow
<1>5. made.h = g /\ made.item = Item(tag, type, l, Unset, Nothing)
  BY DEF Allocated
<1> HIDE DEF g, node
<1>6. l \notin DOMAIN h /\ DOMAIN g = DOMAIN h \cup {l}
  BY <1>3, <1>4
<1>7. IsHeap(g)
  BY <1>2, <1>4, <1>6 DEF IsHeap
<1>8. SameKinds(h, g)
  BY <1>4, <1>6 DEF SameKinds
<1>9. \A n, f : Filled(g, n, f) <=> Filled(h, n, f)
  BY <1>1, <1>4, <1>6 DEF Filled
<1>10. FieldsFit(g)
  <2> SUFFICES ASSUME NEW n, NEW f, Filled(g, n, f)
               PROVE  FieldFits(SpecOf(g[n], f), FieldItem(g, n, f), g)
    BY DEF FieldsFit
  <2>1. Filled(h, n, f) /\ g[n] = h[n]
    BY <1>4, <1>9 DEF Filled
  <2>2. FieldFits(SpecOf(h[n], f), FieldItem(h, n, f), h) /\ FieldItem(g, n, f) = FieldItem(h, n, f)
    BY <2>1 DEF FieldsFit, FieldItem
  <2> QED
    BY <1>8, <2>1, <2>2, KindsKeepItems
<1>11. PICK item : item = made.item
  OBVIOUS
<1>12. /\ item = Item(item.tag, item.of, item.ref, item.loc, item.held)
       /\ item.tag = tag /\ item.of = type /\ item.ref = l
  BY <1>5, <1>11 DEF Item
<1>13. LooseFits(item, g)
  BY <1>1, <1>4, <1>6, <1>12 DEF LooseFits, ItemFits, IsRef
<1> QED
  BY <1>4, <1>5, <1>6, <1>7, <1>8, <1>9, <1>10, <1>11, <1>12, <1>13 DEF Grown

\* Generated: the item is new and refers to a new node if any, or it is the
\* selected one.
LEMMA GeneratedFits ==
    ASSUME ClassesAreLoaded, NEW p, HandleFits(p), NEW rhs, Len(rhs) = Len(p.rhs),
           NEW h, IsHeap(h), FieldsFit(h), \A i \in 1 .. Len(rhs) : LooseFits(rhs[i], h),
           NEW made, made = Generated(p.handle.gen, rhs, h), made.item # Mismatch
    PROVE  /\ Grown(h, made.h) /\ LooseFits(made.item, made.h)
           /\ p.handle.gen.kind = "selector" => made.item = rhs[p.handle.gen.arg]
           /\ p.handle.gen.kind # "selector" => made.item.ref \notin DOMAIN h
<1>1. PICK gen : gen = p.handle.gen
  OBVIOUS
<1>2. Grown(h, h)
  BY DEF Grown, SameKinds
<1>3. 0 \notin DOMAIN h
  BY RefsAreIn
<1>4. \A kind, type, held : kind \in {"enum", "optional"} /\ (kind = "optional" => held = Nothing) =>
        LooseFits(Item(kind, type, 0, Unset, held), h) /\ Item(kind, type, 0, Unset, held).ref = 0
  BY DEF Item, LooseFits, ItemFits, IsRef
<1>5. CASE gen.kind = "selector"
  <2>1. made = [item |-> rhs[gen.arg], h |-> h] /\ gen.arg \in 1 .. Len(rhs)
    BY <1>1, <1>5 DEF Generated, HandleFits
  <2> QED
    BY <1>1, <1>2, <1>5, <2>1
<1>6. CASE gen.kind = "enum"
  <2>1. made = [item |-> Item("enum", gen.type, 0, Unset, <<gen.arg>>), h |-> h]
    BY <1>1, <1>6 DEF Generated, ConstructEnum, Throws
  <2> QED
    BY <1>1, <1>2, <1>3, <1>4, <1>6, <2>1
<1>7. CASE gen.kind = "optional"
  <2>1. made = [item |-> Item("optional", gen.type, 0, Unset, Nothing), h |-> h]
    BY <1>1, <1>7 DEF Generated, ConstructOptional
  <2> QED
    BY <1>1, <1>2, <1>3, <1>4, <1>7, <2>1
<1>8. CASE gen.kind = "object"
  <2>1. PICK fields : fields = [m \in DOMAIN types[gen.type].members |-> Nothing]
    OBVIOUS
  <2>2. Is("class", gen.type) /\ made = Allocated("object", gen.type, fields, h)
    BY <1>1, <1>8, <2>1 DEF Generated, ConstructObject, Throws
  <2>3. PICK k \in Nat : DOMAIN types[gen.type].members = 1 .. k
    BY <2>2 DEF ClassesAreLoaded, MembersFit, Is
  <2>4. fields = [m \in 1 .. k |-> fields[m]] /\ \A f \in DOMAIN fields : fields[f] = Nothing
    BY <2>1, <2>3
  <2>5. IsRow(fields) /\ DOMAIN fields = DOMAIN types[gen.type].members
    BY <2>1, <2>4, RowIs
  <2> QED
    BY <1>1, <1>8, <2>2, <2>4, <2>5, AllocatedFits
<1>9. CASE gen.kind = "vector"
  <2>1. PICK fields : fields = <<>>
    OBVIOUS
  <2>2. made = Allocated("vector", gen.type, fields, h)
    BY <1>1, <1>9, <2>1 DEF Generated, ConstructVector
  <2>3. IsRow(fields) /\ \A f \in DOMAIN fields : fields[f] = Nothing
    BY <2>1 DEF IsRow
  <2> QED
    BY <1>1, <1>9, <2>2, <2>3, AllocatedFits
<1> QED
  BY <1>1, <1>5, <1>6, <1>7, <1>8, <1>9 DEF HandleFits

\* A node gets its location.
LEMMA LocatedFits ==
    ASSUME NEW h, IsHeap(h), FieldsFit(h), NEW n \in DOMAIN h, NEW loc, NEW g, g = SetLocation(h, n, loc)
    PROVE  /\ IsHeap(g) /\ FieldsFit(g) /\ SameKinds(h, g)
           /\ \A m, f : /\ Filled(g, m, f) <=> Filled(h, m, f)
                        /\ Filled(h, m, f) => FieldItem(g, m, f) = FieldItem(h, m, f)
           /\ \A m \in DOMAIN h : g[m].loc = IF m = n THEN loc ELSE h[m].loc
<1> DEFINE node == [h[n] EXCEPT !.loc = loc]
<1>1. Len(h) \in Nat /\ DOMAIN h = 1 .. Len(h) /\ h = [k \in 1 .. Len(h) |-> h[k]]
  BY DEF IsHeap, IsRow
<1>2. NodeFits(h[n])
  BY DEF IsHeap
<1>3. g = [h EXCEPT ![n] = node]
  BY DEF SetLocation
<1>4. /\ node = [kind |-> node.kind, type |-> node.type, fields |-> node.fields, loc |-> node.loc]
      /\ node.kind = h[n].kind /\ node.type = h[n].type /\ node.fields = h[n].fields /\ node.loc = loc
  BY <1>2 DEF NodeFits
<1> HIDE DEF node
<1>5. NodeFits(node)
  BY <1>2, <1>4 DEF NodeFits
<1>6. /\ DOMAIN g = DOMAIN h /\ g[n] = node
      /\ \A m \in DOMAIN h : m # n => g[m] = h[m]
      /\ g = [k \in 1 .. Len(h) |-> g[k]]
  BY <1>1, <1>3
<1>7. IsRow(g)
  BY <1>1, <1>6, RowIs
<1>8. IsHeap(g)
  BY <1>5, <1>6, <1>7 DEF IsHeap
<1>9. \A m \in DOMAIN h : g[m].kind = h[m].kind /\ g[m].type = h[m].type /\ g[m].fields = h[m].fields
  BY <1>4, <1>6
<1>10. SameKinds(h, g)
  BY <1>6, <1>9 DEF SameKinds
<1>11. \A m, f : /\ Filled(g, m, f) <=> Filled(h, m, f)
                 /\ Filled(h, m, f) => FieldItem(g, m, f) = FieldItem(h, m, f)
  BY <1>6, <1>9 DEF Filled, FieldItem
<1>12. FieldsFit(g)
  <2> SUFFICES ASSUME NEW m, NEW f, Filled(g, m, f)
               PROVE  FieldFits(SpecOf(g[m], f), FieldItem(g, m, f), g)
    BY DEF FieldsFit
  <2>1. Filled(h, m, f) /\ FieldItem(g, m, f) = FieldItem(h, m, f)
    BY <1>11
  <2>2. FieldFits(SpecOf(h[m], f), FieldItem(h, m, f), h)
    BY <2>1 DEF FieldsFit
  <2>3. SpecOf(g[m], f) = SpecOf(h[m], f)
    BY <1>9, <2>1 DEF SpecOf, Filled
  <2> QED
    BY <1>10, <2>1, <2>2, <2>3, KindsKeepItems
<1> QED
  BY <1>4, <1>6, <1>8, <1>10, <1>11, <1>12

\* Owners may be given new names, and some may give up what they own.
LEMMA OwnersRenamed ==
    ASSUME NEW h, NEW g,
           \A m, f : /\ Filled(g, m, f) <=> Filled(h, m, f)
                     /\ Filled(h, m, f) => FieldItem(g, m, f) = FieldItem(h, m, f),
           NEW refs, HeldOnce(h, refs), NEW new, NEW name,
           \A o \in DOMAIN new : name[o] \in DOMAIN refs /\ new[o] = refs[name[o]],
           \A o, q \in DOMAIN new : name[o] = name[q] => o = q
    PROVE  HeldOnce(g, new)
<1>1. \A m, f : Filled(h, m, f) => FieldRef(g, m, f) = FieldRef(h, m, f)
  BY DEF FieldRef
<1>2. \A i, j \in DOMAIN new : new[i] = new[j] /\ new[i] # 0 => i = j
  BY DEF HeldOnce
<1>3. \A i \in DOMAIN new : \A n, f : Filled(g, n, f) /\ FieldRef(g, n, f) = new[i] => new[i] = 0
  BY <1>1 DEF HeldOnce
<1>4. \A n, f, m, e :
        Filled(g, n, f) /\ Filled(g, m, e) /\ FieldRef(g, n, f) = FieldRef(g, m, e) /\ FieldRef(g, n, f) # 0
        => n = m /\ f = e
  BY <1>1 DEF HeldOnce
<1> QED
  BY <1>2, <1>3, <1>4 DEF HeldOnce

\* A new node has one owner.
LEMMA OwnersGrow ==
    ASSUME NEW h, IsHeap(h), FieldsFit(h), NEW g, Grown(h, g), NEW refs, HeldOnce(h, refs),
           0 \notin DOMAIN refs, \A o \in DOMAIN refs : refs[o] = 0 \/ refs[o] \in DOMAIN h,
           NEW new, DOMAIN new = DOMAIN refs \cup {0}, new[0] \notin DOMAIN h, \A o \in DOMAIN refs : new[o] = refs[o]
    PROVE  HeldOnce(g, new)
<1>1. \A m, f : Filled(g, m, f) => Filled(h, m, f) /\ FieldRef(g, m, f) = FieldRef(h, m, f)
  BY DEF Grown, FieldRef, FieldItem, Filled
<1>2. \A m, f : Filled(h, m, f) => FieldRef(h, m, f) = 0 \/ FieldRef(h, m, f) \in DOMAIN h
  BY RefsAreIn
<1>4. \A i, j \in DOMAIN new : new[i] = new[j] /\ new[i] # 0 => i = j
  BY DEF HeldOnce
<1>5. \A i \in DOMAIN new : \A n, f : Filled(g, n, f) /\ FieldRef(g, n, f) = new[i] => new[i] = 0
  BY <1>1, <1>2 DEF HeldOnce
<1>6. \A n, f, m, e :
        Filled(g, n, f) /\ Filled(g, m, e) /\ FieldRef(g, n, f) = FieldRef(g, m, e) /\ FieldRef(g, n, f) # 0
        => n = m /\ f = e
  BY <1>1 DEF HeldOnce
<1> QED
  BY <1>4, <1>5, <1>6 DEF HeldOnce

\* Locations nest in a grown heap, and what the selected object spans is within
\* what the right-hand side spans.
LEMMA GrownNests ==
    ASSUME NEW h, FieldsFit(h), FieldsNest(h), NEW g, Grown(h, g), NEW n, NEW span, IsLocation(span),
           n \in DOMAIN h => IsLocation(h[n].loc) /\ Within(h[n].loc, span)
    PROVE  NestWithin(g, n, span) /\ FieldsNest(g)
<1>1. ASSUME NEW m, NEW f, Filled(g, m, f)
      PROVE  LET loc == LocationOf(FieldItem(g, m, f), g)
             IN  IsLocation(loc) /\ Within(loc, g[m].loc) /\ g[m].loc = h[m].loc /\ m \in DOMAIN h
  <2>1. Filled(h, m, f) /\ m \in DOMAIN h /\ g[m] = h[m]
    BY <1>1 DEF Grown, Filled
  <2>2. PICK item : item = FieldItem(h, m, f) /\ item = FieldItem(g, m, f)
    BY <2>1 DEF FieldItem
  <2>3. ItemFits(item, h)
    BY <2>1, <2>2 DEF FieldsFit, FieldFits
  <2>4. LocationOf(item, g) = LocationOf(item, h)
    BY <2>3 DEF Grown, LocationOf, ItemFits
  <2> QED
    BY <2>1, <2>2, <2>4 DEF FieldsNest
<1>2. FieldsNest(g)
  BY <1>1 DEF FieldsNest
<1>3. NestWithin(g, n, span)
  <2> SUFFICES ASSUME NEW m, NEW f, Filled(g, m, f)
               PROVE  LET loc == LocationOf(FieldItem(g, m, f), g)
                      IN  IsLocation(loc) /\ Within(loc, IF m = n THEN span ELSE g[m].loc)
    BY DEF NestWithin
  <2>1. PICK loc : loc = LocationOf(FieldItem(g, m, f), g)
    OBVIOUS
  <2>2. IsLocation(loc) /\ Within(loc, h[m].loc) /\ g[m].loc = h[m].loc /\ m \in DOMAIN h
    BY <1>1, <2>1
  <2>3. m = n => Within(loc, span)
    BY <2>2 DEF Within, IsLocation
  <2> QED
    BY <2>1, <2>2, <2>3
<1> QED
  BY <1>2, <1>3

\* Items lie one after another.
Lined(rhs, h) ==
    /\ \A i \in 1 .. Len(rhs) : IsLocation(LocationOf(rhs[i], h))
    /\ \A i, j \in 1 .. Len(rhs) : i < j =>
        LocationOf(rhs[i], h).offset + LocationOf(rhs[i], h).length <= LocationOf(rhs[j], h).offset

\* The span of items that lie one after another begins with the first, ends with the last
\* and has all of them within.
LEMMA SpannedIs ==
    ASSUME NEW rhs, Len(rhs) \in Nat, Len(rhs) # 0, NEW h, Lined(rhs, h), NEW span, span = Spanned(rhs, h)
    PROVE  /\ IsLocation(span) /\ \A i \in 1 .. Len(rhs) : Within(LocationOf(rhs[i], h), span)
           /\ span.offset = LocationOf(rhs[1], h).offset
           /\ span.offset + span.length = LocationOf(rhs[Len(rhs)], h).offset + LocationOf(rhs[Len(rhs)], h).length
<1> DEFINE Start(i) == LocationOf(rhs[i], h).offset
           End(i) == LocationOf(rhs[i], h).offset + LocationOf(rhs[i], h).length
           n == Len(rhs)
<1>1. 1 \in 1 .. n /\ n \in 1 .. n
  OBVIOUS
<1>2. \A i \in 1 .. n : Start(i) \in Nat /\ End(i) \in Nat /\ Start(i) <= End(i)
  BY DEF Lined, IsLocation
<1>3. \A i, j \in 1 .. n : i < j => End(i) <= Start(j)
  BY DEF Lined
<1>4. span.offset = Start(1) /\ span.length = End(n) - Start(1)
  <2>1. PICK front, back : front = LocationOf(rhs[1], h) /\ back = LocationOf(rhs[n], h)
    OBVIOUS
  <2>2. span = [offset |-> front.offset, length |-> back.offset + back.length - front.offset]
    BY <2>1 DEF Spanned
  <2>3. IsLocation(front) /\ IsLocation(back)
    BY <1>1, <2>1 DEF Lined
  <2> QED
    BY <2>1, <2>2, <2>3 DEF IsLocation
<1> HIDE DEF Start, End
<1>5. \A i \in 1 .. n : Start(1) <= Start(i) /\ End(i) <= End(n)
  <2> TAKE i \in 1 .. n
  <2>1. Start(1) <= Start(i)
    <3>1. CASE i = 1
      BY <1>2, <3>1
    <3>2. CASE 1 < i
      BY <1>1, <1>2, <1>3, <3>2
    <3> QED
      BY <3>1, <3>2
  <2>2. End(i) <= End(n)
    <3>1. CASE i = n
      BY <1>2, <3>1
    <3>2. CASE i < n
      BY <1>1, <1>2, <1>3, <3>2
    <3> QED
      BY <3>1, <3>2
  <2> QED
    BY <2>1, <2>2
<1>6. IsLocation(span) /\ span.offset + span.length = End(n)
  BY <1>1, <1>2, <1>4, <1>5 DEF IsLocation
<1>7. \A i \in 1 .. n : Within(LocationOf(rhs[i], h), span)
  BY <1>4, <1>5, <1>6 DEF Within, Start, End
<1> QED
  BY <1>4, <1>6, <1>7 DEF Start, End

\* What is known of the nodes and of the right-hand side before a reduction.
Ready(p, rhs, h, refs, base) ==
    /\ HandleFits(p) /\ Len(rhs) = Len(p.rhs)
    /\ IsHeap(h) /\ FieldsFit(h) /\ \A i \in 1 .. Len(rhs) : LooseFits(rhs[i], h)
    /\ base \in Nat /\ DOMAIN refs = 1 .. (base + Len(rhs)) /\ HeldOnce(h, refs)
    /\ \A o \in DOMAIN refs : refs[o] = 0 \/ refs[o] \in DOMAIN h
    /\ \A i \in 1 .. Len(rhs) : refs[base + i] = rhs[i].ref
    /\ NoEmptyItems(config) => Len(rhs) # 0 /\ Lined(rhs, h) /\ FieldsNest(h)

\* What a reduction makes when it does not throw.
Made(p, rhs, h, made) == made = Invoke(p.handle, rhs, h) /\ made.item # Mismatch

\* The steps of ASTHandle::Invoke.
Invoked(p, rhs, h, made, first, done, loc) ==
    /\ first = Generated(p.handle.gen, rhs, h) /\ first.item # Mismatch
    /\ done = Manipulated(p.handle, first.item, rhs, first.h) /\ done.ok
    /\ loc = Spanned(rhs, done.h)
    /\ IF IsRef(first.item) THEN made.item = first.item /\ made.h = SetLocation(done.h, first.item.ref, loc)
       ELSE made.item = [first.item EXCEPT !.loc = loc] /\ made.h = done.h

\* An invocation that does not throw has gone through these steps.
LEMMA InvokeSteps ==
    ASSUME NEW p, NEW rhs, NEW h, NEW made, Made(p, rhs, h, made)
    PROVE  \E first, done, loc : Invoked(p, rhs, h, made, first, done, loc)
<1>1. PICK first : first = Generated(p.handle.gen, rhs, h)
  OBVIOUS
<1>2. PICK done : done = Manipulated(p.handle, first.item, rhs, first.h)
  OBVIOUS
<1>3. PICK loc : loc = Spanned(rhs, done.h)
  OBVIOUS
<1>4. made = IF first.item = Mismatch \/ ~done.ok THEN [item |-> Mismatch, h |-> h]
             ELSE IF IsRef(first.item) THEN [item |-> first.item, h |-> SetLocation(done.h, first.item.ref, loc)]
             ELSE [item |-> [first.item EXCEPT !.loc = loc], h |-> done.h]
  BY <1>1, <1>2, <1>3 DEF Invoke, Made
<1>5. first.item # Mismatch /\ done.ok
  BY <1>4 DEF Made
<1>6. IF IsRef(first.item) THEN made.item = first.item /\ made.h = SetLocation(done.h, first.item.ref, loc)
      ELSE made.item = [first.item EXCEPT !.loc = loc] /\ made.h = done.h
  BY <1>4, <1>5
<1> QED
  BY <1>1, <1>2, <1>3, <1>5, <1>6 DEF Invoked

\* A new owner, number 0, for a new node; a selected item keeps the one it has.
Owners(p, rhs, refs, base, item) ==
    [o \in 0 .. (base + Len(rhs)) |->
        IF o = 0 THEN (IF p.handle.gen.kind = "selector" THEN 0 ELSE item.ref) ELSE refs[o]]

\* With its new owner every node is held once still.
LEMMA GeneratedIsOwned ==
    ASSUME NEW p, NEW rhs, NEW h, NEW refs, NEW base, Ready(p, rhs, h, refs, base),
           NEW first, Grown(h, first.h), LooseFits(first.item, first.h),
           p.handle.gen.kind # "selector" => first.item.ref \notin DOMAIN h
    PROVE  HeldOnce(first.h, Owners(p, rhs, refs, base, first.item))
<1> DEFINE owners == Owners(p, rhs, refs, base, first.item)
<1>1. PICK ref : ref = IF p.handle.gen.kind = "selector" THEN 0 ELSE first.item.ref
  OBVIOUS
<1>2. IsHeap(h) /\ FieldsFit(h) /\ HeldOnce(h, refs)
  BY DEF Ready
<1>3. ref \notin DOMAIN h
  BY <1>1, <1>2, RefsAreIn
<1>4. PICK size : /\ size = base + Len(rhs) /\ size \in Nat /\ DOMAIN refs = 1 .. size
  BY DEF Ready, HandleFits
<1>5. \A o \in DOMAIN refs : refs[o] = 0 \/ refs[o] \in DOMAIN h
  BY DEF Ready
<1>6. 0 \notin DOMAIN refs /\ DOMAIN owners = DOMAIN refs \cup {0}
  BY <1>4 DEF Owners
<1>7. owners[0] = ref /\ \A o \in DOMAIN refs : owners[o] = refs[o]
  BY <1>1, <1>4 DEF Owners
<1>8. PICK g, new : g = first.h /\ new = owners
  OBVIOUS
<1>9. Grown(h, g) /\ new[0] \notin DOMAIN h /\ DOMAIN new = DOMAIN refs \cup {0} /\ \A o \in DOMAIN refs : new[o] = refs[o]
  BY <1>3, <1>6, <1>7, <1>8
<1>10. HeldOnce(g, new)
  BY <1>2, <1>5, <1>6, <1>9, OwnersGrow
<1> QED
  BY <1>8, <1>10

\* The right-hand side lies where it lay while a handle is at work.
LEMMA SpannedStays ==
    ASSUME NEW rhs, Len(rhs) \in Nat, NEW h, AllLoose(rhs, h),
           NEW g, Grown(h, g), NEW e, SameNodes(g, e)
    PROVE  /\ AllLoose(rhs, g)
           /\ \A i \in 1 .. Len(rhs) : LocationOf(rhs[i], g) = LocationOf(rhs[i], h)
           /\ \A i \in 1 .. Len(rhs) : LocationOf(rhs[i], e) = LocationOf(rhs[i], h)
           /\ Len(rhs) # 0 => Spanned(rhs, e) = Spanned(rhs, h)
<1>1. ASSUME NEW i \in 1 .. Len(rhs)
      PROVE  LooseFits(rhs[i], g) /\ LocationOf(rhs[i], g) = LocationOf(rhs[i], h) /\ LocationOf(rhs[i], e) = LocationOf(rhs[i], h)
  <2>1. PICK item : item = rhs[i]
    OBVIOUS
  <2>2. LooseFits(item, h)
    BY <2>1 DEF AllLoose
  <2>3. LooseFits(item, g)
    BY <2>2, KindsKeepItems DEF Grown
  <2>4. LocationOf(item, g) = LocationOf(item, h)
    BY <2>2 DEF Grown, LooseFits, ItemFits, LocationOf
  <2>5. LocationOf(item, e) = LocationOf(item, g)
    BY <2>3, SameItems DEF LooseFits
  <2> QED
    BY <2>1, <2>3, <2>4, <2>5
<1>2. Len(rhs) # 0 => Spanned(rhs, e) = Spanned(rhs, h)
  <2> SUFFICES ASSUME Len(rhs) # 0 PROVE Spanned(rhs, e) = Spanned(rhs, h)
    OBVIOUS
  <2>1. PICK front, back : front = LocationOf(rhs[1], h) /\ back = LocationOf(rhs[Len(rhs)], h)
    OBVIOUS
  <2>2. front = LocationOf(rhs[1], e) /\ back = LocationOf(rhs[Len(rhs)], e)
    BY <1>1, <2>1
  <2> QED
    BY <2>1, <2>2 DEF Spanned
<1> QED
  BY <1>1, <1>2 DEF AllLoose

\* A handle up to the location.
LEMMA HandleKeeps ==
    ASSUME PhasesAreInOrder, TypesAreRegistered, ClassesAreLoaded,
           NEW p, NEW rhs, NEW h, NEW refs, NEW base, Ready(p, rhs, h, refs, base),
           NEW first, first = Generated(p.handle.gen, rhs, h), first.item # Mismatch,
           NEW done, done = Manipulated(p.handle, first.item, rhs, first.h), done.ok
    PROVE  /\ Grown(h, first.h) /\ LooseFits(first.item, first.h)
           /\ p.handle.gen.kind = "selector" => first.item = rhs[p.handle.gen.arg]
           /\ SameNodes(first.h, done.h) /\ IsHeap(done.h) /\ FieldsFit(done.h)
           /\ HeldOnce(done.h, Given(Owners(p, rhs, refs, base, first.item), base, p.handle.manip.places, Len(rhs)))
           /\ NoEmptyItems(config) /\ IsRef(first.item) => NestWithin(done.h, first.item.ref, Spanned(rhs, h))
           /\ NoEmptyItems(config) => FieldsNest(first.h)
           /\ IsRef(first.item) \/ done.h = first.h
<1>1. PICK owners, item, g, span : /\ owners = Owners(p, rhs, refs, base, first.item)
                                   /\ item = first.item /\ g = first.h /\ span = Spanned(rhs, h)
  OBVIOUS
<1>2. /\ HandleFits(p) /\ Len(rhs) = Len(p.rhs) /\ IsHeap(h) /\ FieldsFit(h) /\ base \in Nat
      /\ AllLoose(rhs, h)
  BY DEF Ready, AllLoose
<1>3. Len(rhs) \in Nat
  BY <1>2 DEF HandleFits
<1>4. /\ Grown(h, g) /\ LooseFits(item, g)
      /\ p.handle.gen.kind = "selector" => item = rhs[p.handle.gen.arg]
      /\ p.handle.gen.kind # "selector" => item.ref \notin DOMAIN h
  BY <1>1, <1>2, GeneratedFits DEF AllLoose
<1>5. HeldOnce(g, owners)
  BY <1>1, <1>4, GeneratedIsOwned
<1>6. AllOwned(rhs, owners, base)
  BY <1>1, <1>2, <1>3 DEF Ready, Owners, AllOwned
<1>7. /\ AllLoose(rhs, g)
      /\ \A i \in 1 .. Len(rhs) : LocationOf(rhs[i], g) = LocationOf(rhs[i], h)
  <2>1. SameNodes(g, g)
    BY DEF SameNodes
  <2> QED
    BY <1>2, <1>3, <1>4, <2>1, SpannedStays
<1>8. IsHeap(g) /\ FieldsFit(g)
  BY <1>4 DEF Grown
<1>9. NoEmptyItems(config) => /\ IsLocation(span)
                              /\ AllWithin(rhs, h, span)
  BY <1>1, <1>3, SpannedIs DEF Ready, Lined, AllWithin
<1>10. NoEmptyItems(config) => NestWithin(g, item.ref, span) /\ FieldsNest(g)
  <2> SUFFICES ASSUME NoEmptyItems(config)
               PROVE  NestWithin(g, item.ref, span) /\ FieldsNest(g)
    OBVIOUS
  <2>1. FieldsNest(h)
    BY DEF Ready
  <2>2. item.ref \in DOMAIN h => IsLocation(h[item.ref].loc) /\ Within(h[item.ref].loc, span)
    <3> SUFFICES ASSUME item.ref \in DOMAIN h
                 PROVE  IsLocation(h[item.ref].loc) /\ Within(h[item.ref].loc, span)
      OBVIOUS
    <3>1. PICK i \in 1 .. Len(rhs) : item = rhs[i]
      BY <1>2, <1>4 DEF HandleFits
    <3>2. LooseFits(item, h) /\ IsLocation(LocationOf(item, h)) /\ Within(LocationOf(item, h), span)
      BY <1>2, <1>9, <3>1 DEF AllLoose, AllWithin
    <3>3. 0 \notin DOMAIN h
      BY <1>2, RefsAreIn
    <3>4. IsRef(item)
      BY <3>2, <3>3 DEF LooseFits, ItemFits
    <3> QED
      BY <3>2, <3>4 DEF LocationOf
  <2> QED
    BY <1>2, <1>4, <1>9, <2>1, <2>2, GrownNests
<1>11. NoEmptyItems(config) => AllWithin(rhs, g, span)
  BY <1>7, <1>9 DEF AllWithin
<1>12. Ran(p, item, rhs, g, done)
  BY <1>1, <1>2 DEF Ran
<1>13. LooseFits(item, g) /\ AllLoose(rhs, g)
  BY <1>4, <1>7
<1>14. NoEmptyItems(config) /\ IsRef(item) => NestWithin(g, item.ref, span)
  BY <1>10
<1>15. SameNodes(g, done.h) /\ IsHeap(done.h) /\ FieldsFit(done.h)
  BY <1>2, <1>5, <1>6, <1>8, <1>11, <1>12, <1>13, <1>14, ManipulatedKeeps
<1>16. HeldOnce(done.h, Given(owners, base, p.handle.manip.places, Len(rhs)))
  BY <1>2, <1>5, <1>6, <1>8, <1>11, <1>12, <1>13, <1>14, ManipulatedKeeps
<1>17. NoEmptyItems(config) /\ IsRef(item) => NestWithin(done.h, item.ref, span)
  BY <1>2, <1>5, <1>6, <1>8, <1>11, <1>12, <1>13, <1>14, ManipulatedKeeps
<1>18. IsRef(item) \/ AsItWas(g, done.h)
  BY <1>2, <1>5, <1>6, <1>8, <1>11, <1>12, <1>13, <1>14, ManipulatedKeeps
<1> QED
  BY <1>1, <1>4, <1>10, <1>15, <1>16, <1>17, <1>18 DEF AsItWas

\* The references after a reduction: those below stay, and the
\* right-hand side's give way to the one of the result.
RefsAfter(refs, base, item, new) ==
    DOMAIN new = 1 .. (base + 1) /\ new[base + 1] = item.ref /\ \A k \in 1 .. base : new[k] = refs[k]

\* The owners of what is left of a right-hand side when its handle is through.
LEMMA OwnersAfter ==
    ASSUME NEW p, NEW rhs, NEW h, NEW refs, NEW base, Ready(p, rhs, h, refs, base),
           NEW item, p.handle.gen.kind = "selector" => item = rhs[p.handle.gen.arg],
           NEW e, HeldOnce(e, Given(Owners(p, rhs, refs, base, item), base, p.handle.manip.places, Len(rhs))),
           NEW g, \A m, f : /\ Filled(g, m, f) <=> Filled(e, m, f)
                            /\ Filled(e, m, f) => FieldItem(g, m, f) = FieldItem(e, m, f),
           NEW new, RefsAfter(refs, base, item, new)
    PROVE  HeldOnce(g, new)
<1> DEFINE n == Len(rhs)
           gen == p.handle.gen
           places == p.handle.manip.places
           owners == Owners(p, rhs, refs, base, item)
           given == Given(owners, base, places, n)
           name == [k \in 1 .. (base + 1) |-> IF k <= base THEN k ELSE IF gen.kind = "selector" THEN base + gen.arg ELSE 0]
<1>1. /\ n \in Nat /\ base \in Nat /\ DOMAIN refs = 1 .. (base + n)
      /\ places \subseteq 1 .. n /\ (gen.kind = "selector" => gen.arg \in (1 .. n) \ places)
      /\ \A i \in 1 .. n : refs[base + i] = rhs[i].ref
  BY DEF Ready, HandleFits
<1>2. /\ DOMAIN owners = 0 .. (base + n) /\ \A o \in 1 .. (base + n) : owners[o] = refs[o]
      /\ gen.kind # "selector" => owners[0] = item.ref
  BY <1>1 DEF Owners
<1>3. /\ DOMAIN given = DOMAIN owners
      /\ \A o \in DOMAIN owners : (\A i \in places : o # base + i) => given[o] = owners[o]
  BY <1>1 DEF Given
<1> HIDE DEF owners, given
<1>4. DOMAIN new = 1 .. (base + 1) /\ new[base + 1] = item.ref /\ \A k \in 1 .. base : new[k] = refs[k]
  BY DEF RefsAfter
<1>5. ASSUME NEW k \in 1 .. (base + 1)
      PROVE  name[k] \in DOMAIN given /\ new[k] = given[name[k]]
  <2>1. CASE k <= base
    <3>1. k \in 1 .. base /\ k \in 1 .. (base + n) /\ k \in 0 .. (base + n)
      BY <1>1, <2>1
    <3>2. \A i \in places : k # base + i
      BY <1>1, <2>1
    <3>3. name[k] = k
      BY <2>1
    <3> HIDE DEF name, places, n
    <3> QED
      BY <1>2, <1>3, <1>4, <3>1, <3>2, <3>3
  <2>2. CASE k = base + 1 /\ gen.kind = "selector"
    <3>4. PICK a, o : a = gen.arg /\ o = base + a
      OBVIOUS
    <3>1. a \in 1 .. n /\ a \notin places /\ o = base + a
      BY <1>1, <2>2, <3>4
    <3>5. \A i \in places : i \in Nat
      BY <1>1
    <3>2. o \in 1 .. (base + n) /\ o \in 0 .. (base + n) /\ \A i \in places : o # base + i
      <4> HIDE DEF places, n
      <4> QED
        BY <1>1, <3>1, <3>5
    <3>3. name[k] = o /\ refs[o] = item.ref
      <4>1. refs[o] = rhs[a].ref /\ item = rhs[a]
        BY <1>1, <2>2, <3>1, <3>4
      <4>2. name[k] = o
        BY <1>1, <2>2, <3>4
      <4> QED
        BY <4>1, <4>2
    <3> HIDE DEF name, places, n
    <3> QED
      BY <1>2, <1>3, <1>4, <2>2, <3>2, <3>3
  <2>3. CASE k = base + 1 /\ gen.kind # "selector"
    <3>1. 0 \in 0 .. (base + n) /\ \A i \in places : 0 # base + i
      BY <1>1
    <3>2. name[k] = 0
      BY <1>1, <2>3
    <3> HIDE DEF name, places, n
    <3> QED
      BY <1>2, <1>3, <1>4, <2>3, <3>1, <3>2
  <2> QED
    BY <1>1, <2>1, <2>2, <2>3
<1>6. \A k, l \in 1 .. (base + 1) : name[k] = name[l] => k = l
  BY <1>1
<1>7. HeldOnce(e, given)
  BY DEF given, owners
<1>8. \A m, f : /\ Filled(g, m, f) <=> Filled(e, m, f)
                /\ Filled(e, m, f) => FieldItem(g, m, f) = FieldItem(e, m, f)
  OBVIOUS
<1> HIDE DEF name
<1>9. /\ \A o \in DOMAIN new : name[o] \in DOMAIN given /\ new[o] = given[name[o]]
      /\ \A o, q \in DOMAIN new : name[o] = name[q] => o = q
  BY <1>4, <1>5, <1>6
<1> QED
  BY <1>7, <1>8, <1>9, OwnersRenamed

\* A reduction that does not throw keeps the trees and the nesting, and what it
\* makes spans the right-hand side.
LEMMA InvokeKeeps ==
    ASSUME PhasesAreInOrder, TypesAreRegistered, ClassesAreLoaded,
           NEW p, NEW rhs, NEW h, NEW refs, NEW base, Ready(p, rhs, h, refs, base),
           NEW made, Made(p, rhs, h, made), NEW new, RefsAfter(refs, base, made.item, new)
    PROVE  /\ IsHeap(made.h) /\ FieldsFit(made.h) /\ SameKinds(h, made.h) /\ LooseFits(made.item, made.h)
           /\ HeldOnce(made.h, new)
           /\ NoEmptyItems(config) =>
                /\ LocationOf(made.item, made.h) = Spanned(rhs, h)
                /\ FieldsNest(made.h)
                /\ \A n \in DOMAIN h : n # made.item.ref => made.h[n].loc = h[n].loc
<1>12. PICK first, done, loc : Invoked(p, rhs, h, made, first, done, loc)
  BY InvokeSteps
<1>1. /\ first = Generated(p.handle.gen, rhs, h) /\ first.item # Mismatch
      /\ done = Manipulated(p.handle, first.item, rhs, first.h) /\ done.ok
      /\ loc = Spanned(rhs, done.h)
      /\ IF IsRef(first.item) THEN made.item = first.item /\ made.h = SetLocation(done.h, first.item.ref, loc)
         ELSE made.item = [first.item EXCEPT !.loc = loc] /\ made.h = done.h
  BY <1>12 DEF Invoked
<1>2. /\ Grown(h, first.h) /\ LooseFits(first.item, first.h)
      /\ p.handle.gen.kind = "selector" => first.item = rhs[p.handle.gen.arg]
      /\ SameNodes(first.h, done.h) /\ IsHeap(done.h) /\ FieldsFit(done.h)
      /\ HeldOnce(done.h, Given(Owners(p, rhs, refs, base, first.item), base, p.handle.manip.places, Len(rhs)))
      /\ NoEmptyItems(config) /\ IsRef(first.item) => NestWithin(done.h, first.item.ref, Spanned(rhs, h))
      /\ NoEmptyItems(config) => FieldsNest(first.h)
      /\ IsRef(first.item) \/ done.h = first.h
  BY <1>1, HandleKeeps
<1>3. PICK item, e, span : item = first.item /\ e = done.h /\ span = Spanned(rhs, h)
  OBVIOUS
<1>4. NoEmptyItems(config) => loc = span
  <2>1. Len(rhs) \in Nat /\ AllLoose(rhs, h) /\ (NoEmptyItems(config) => Len(rhs) # 0)
    BY DEF Ready, HandleFits, AllLoose
  <2>2. Len(rhs) # 0 => Spanned(rhs, done.h) = Spanned(rhs, h)
    BY <1>2, <2>1, SpannedStays
  <2> QED
    BY <1>1, <1>3, <2>1, <2>2
<1>5. SameKinds(h, e) /\ \A n \in DOMAIN h : e[n].loc = h[n].loc
  BY <1>2, <1>3 DEF Grown, SameNodes, SameKinds
<1>6. LooseFits(item, e)
  BY <1>2, <1>3, SameItems
<1>7. made.item.ref = item.ref
  <2>1. item = Item(item.tag, item.of, item.ref, item.loc, item.held)
    BY <1>6 DEF LooseFits, ItemFits
  <2>2. [item EXCEPT !.loc = loc].ref = item.ref
    BY <2>1 DEF Item
  <2> QED
    BY <1>1, <1>3, <2>2
<1>8. RefsAfter(refs, base, item, new)
  BY <1>7 DEF RefsAfter
<1>9. ASSUME NEW g, \A m, f : /\ Filled(g, m, f) <=> Filled(e, m, f)
                              /\ Filled(e, m, f) => FieldItem(g, m, f) = FieldItem(e, m, f)
      PROVE  HeldOnce(g, new)
  BY <1>2, <1>3, <1>8, <1>9, OwnersAfter
<1>10. CASE IsRef(item)
  <2>1. PICK r, g : r = item.ref /\ g = made.h
    OBVIOUS
  <2>2. r \in DOMAIN e /\ made.item = item /\ g = SetLocation(e, r, loc)
    BY <1>1, <1>3, <1>6, <1>10, <2>1 DEF LooseFits, ItemFits
  <2>3. /\ IsHeap(g) /\ FieldsFit(g) /\ SameKinds(e, g)
        /\ \A m, f : /\ Filled(g, m, f) <=> Filled(e, m, f)
                     /\ Filled(e, m, f) => FieldItem(g, m, f) = FieldItem(e, m, f)
        /\ \A m \in DOMAIN e : g[m].loc = IF m = r THEN loc ELSE e[m].loc
    <3>1. IsHeap(e) /\ FieldsFit(e)
      BY <1>2, <1>3
    <3> QED
      BY <2>2, <3>1, LocatedFits
  <2>4. HeldOnce(g, new)
    BY <1>9, <2>3
  <2>5. SameKinds(h, g) /\ LooseFits(item, g)
    <3>1. SameKinds(h, g)
      BY <1>5, <2>3 DEF SameKinds
    <3> QED
      BY <1>6, <2>3, <3>1, KindsKeepItems
  <2>6. ASSUME NoEmptyItems(config)
        PROVE  /\ LocationOf(item, g) = span
               /\ FieldsNest(g)
               /\ \A n \in DOMAIN h : n # r => g[n].loc = h[n].loc
    <3>1. LocationOf(item, g) = span
      BY <1>4, <1>10, <2>1, <2>2, <2>3, <2>6 DEF LocationOf
    <3>2. \A n \in DOMAIN h : n # r => g[n].loc = h[n].loc
      BY <1>5, <2>3 DEF SameKinds
    <3>3. NestWithin(e, r, span)
      BY <1>2, <1>3, <1>10, <2>1, <2>6
    <3>4. ASSUME NEW m, NEW f, Filled(g, m, f)
          PROVE  LET at_ == LocationOf(FieldItem(g, m, f), g) IN IsLocation(at_) /\ Within(at_, g[m].loc)
      <4>1. PICK x : x = FieldItem(g, m, f)
        OBVIOUS
      <4>2. Filled(e, m, f) /\ x = FieldItem(e, m, f) /\ m \in DOMAIN e
        BY <2>3, <3>4, <4>1 DEF Filled
      <4>3. ItemFits(x, e)
        BY <1>2, <1>3, <4>2 DEF FieldsFit, FieldFits
      <4>4. IsRef(x) => x.ref # r
        <5>1. IsRef(x) => FieldRef(g, m, f) = x.ref
          BY <4>1 DEF FieldRef, HeldItem, IsRef
        <5>2. base + 1 \in DOMAIN new /\ new[base + 1] = r
          BY <1>8, <2>1 DEF RefsAfter, Ready
        <5>3. FieldRef(g, m, f) = r => r = 0
          BY <2>4, <3>4, <5>2 DEF HeldOnce
        <5>4. r # 0
          BY <1>2, <1>3, <2>2, RefsAreIn
        <5> QED
          BY <5>1, <5>3, <5>4
      <4>5. LocationOf(x, g) = LocationOf(x, e)
        BY <2>3, <4>3, <4>4 DEF LocationOf, ItemFits
      <4>6. g[m].loc = IF m = r THEN span ELSE e[m].loc
        BY <1>4, <2>3, <2>6, <4>2
      <4>7. LET at_ == LocationOf(x, e) IN IsLocation(at_) /\ Within(at_, IF m = r THEN span ELSE e[m].loc)
        BY <3>3, <4>2 DEF NestWithin
      <4> QED
        BY <4>1, <4>5, <4>6, <4>7
    <3>5. FieldsNest(g)
      BY <3>4 DEF FieldsNest
    <3> QED
      BY <3>1, <3>2, <3>5
  <2> QED
    BY <1>3, <2>1, <2>2, <2>3, <2>4, <2>5, <2>6
<1>11. CASE ~IsRef(item)
  <2>1. PICK x, g : x = made.item /\ g = made.h
    OBVIOUS
  <2>2. g = e /\ x = [item EXCEPT !.loc = loc] /\ g = first.h
    BY <1>1, <1>2, <1>3, <1>11, <2>1
  <2>3. /\ x = Item(x.tag, x.of, x.ref, x.loc, x.held)
        /\ x.tag = item.tag /\ x.of = item.of /\ x.ref = item.ref /\ x.held = item.held /\ x.loc = loc
    <3>1. item = Item(item.tag, item.of, item.ref, item.loc, item.held)
      BY <1>6 DEF LooseFits, ItemFits
    <3> QED
      BY <2>2, <3>1 DEF Item
  <2>4. LooseFits(x, g) /\ ~IsRef(x)
    BY <1>6, <1>11, <2>2, <2>3 DEF LooseFits, ItemFits, IsRef
  <2>5. HeldOnce(g, new)
    BY <1>9, <2>2
  <2>6. IsHeap(g) /\ FieldsFit(g) /\ SameKinds(h, g) /\ \A n \in DOMAIN h : g[n].loc = h[n].loc
    BY <1>2, <1>3, <1>5, <2>2
  <2>7. NoEmptyItems(config) => LocationOf(x, g) = span /\ FieldsNest(g)
    BY <1>2, <1>4, <2>2, <2>3, <2>4 DEF LocationOf
  <2> QED
    BY <1>3, <2>1, <2>4, <2>5, <2>6, <2>7
<1> QED
  BY <1>10, <1>11

-----------------------------------------------------------------------------
(* The parser                                                              *)

\* The types stay while the parser runs.
LEMMA TreesStay ==
    ASSUME types' = types
    PROVE  \A s, h : TreesOf(s, h)' <=> TreesOf(s, h)
<1>1. \A h : IsHeap(h)' <=> IsHeap(h)
  BY DEF IsHeap, NodeFits, Is
<1>2. \A h : FieldsFit(h)' <=> FieldsFit(h)
  BY DEF FieldsFit, FieldFits, SpecOf
<1> QED
  BY <1>1, <1>2 DEF TreesOf

\* What the builder left behind stays while the parser runs.
LEMMA BuilderStays ==
    ASSUME BuilderInvariant, UNCHANGED <<config, at, types, symbols, productions>>,
           outcome = "built", outcome' \in {"built", "parsed", "mismatch"}
    PROVE  BuilderInvariant'
<1>1. PhasesAreInOrder'
  BY DEF BuilderInvariant, PhasesAreInOrder
<1>2. TypesAreRegistered'
  BY DEF BuilderInvariant, TypesAreRegistered, TypesAreNamed, CategoriesAreRight, ClassesDiffer, BasesAreBases, BaseFits,
         Names, Done, Is
<1>3. ClassesAreLoaded'
  BY DEF BuilderInvariant, ClassesAreLoaded, Done
<1>4. HandlesFit'
  BY DEF BuilderInvariant, HandlesFit, HandleFits, Is
<1> QED
  BY <1>1, <1>2, <1>3, <1>4 DEF BuilderInvariant

Invariant == BuilderInvariant /\ TreesFit /\ LocationsFit

\* Nothing is on the stack while the builder is at work.
LEMMA BuildKeepsTrees ==
    ASSUME Invariant, BuildStep
    PROVE  Invariant'
<1>1. BuilderInvariant'
  BY BuildKeepsInvariant DEF Invariant
<1>2. stack' = <<>> /\ heap' = <<>> /\ read' = read /\ config' = config
  BY BuildShape DEF Invariant, BuilderInvariant, PhasesAreInOrder, BuildStep
<1>3. PICK empty : empty = <<>>
  OBVIOUS
<1>4. IsRow(empty) /\ DOMAIN empty = {}
  BY <1>3 DEF IsRow
<1>5. IsHeap(heap)'
  BY <1>2, <1>3, <1>4 DEF IsHeap
<1>6. FieldsFit(heap)' /\ HeldOnce(heap, RefsOf(stack))' /\ FieldsNest(heap)'
  BY <1>2, <1>3, <1>4 DEF FieldsFit, HeldOnce, RefsOf, FieldsNest, Filled
<1>7. TreesFit'
  BY <1>2, <1>3, <1>4, <1>5, <1>6 DEF TreesFit, TreesOf
<1>8. LocationsFit'
  BY <1>2, <1>3, <1>4, <1>6 DEF LocationsFit, Ordered, Invariant
<1> QED
  BY <1>1, <1>7, <1>8 DEF Invariant

\* A prefix of the stack with one element on it.
PushedOn(s, n, elem, t) ==
    IsRow(t) /\ DOMAIN t = 1 .. (n + 1) /\ t[n + 1] = elem /\ \A k \in 1 .. n : t[k] = s[k]

\* Reduce: what is left of the stack, with the result on it.
LEMMA PrefixPushed ==
    ASSUME NEW s, IsRow(s), NEW n \in 0 .. Len(s), NEW elem
    PROVE  PushedOn(s, n, elem, Append(SubSeq(s, 1, n), elem))
<1>1. PICK S : S = Range(s) \cup {elem}
  OBVIOUS
<1>2. s \in Seq(S) /\ elem \in S
  BY <1>1, RowsAreSequences
<1>3. PICK r : r = SubSeq(s, 1, n)
  OBVIOUS
<1>4. r \in Seq(S) /\ Len(r) = n /\ \A i \in 1 .. n : r[i] = s[i]
  BY <1>2, <1>3, T!PrefixShape
<1>5. PICK t : t = Append(r, elem)
  OBVIOUS
<1>6. t \in Seq(S) /\ Len(t) = n + 1 /\ t[n + 1] = elem /\ \A i \in 1 .. n : t[i] = r[i]
  BY <1>2, <1>4, <1>5, T!PushShape
<1>7. IsRow(t) /\ DOMAIN t = 1 .. (n + 1)
  BY <1>6 DEF IsRow
<1> QED
  BY <1>3, <1>4, <1>5, <1>6, <1>7 DEF PushedOn

\* Shift: the whole stack, with the token on it.
LEMMA AllPushed ==
    ASSUME NEW s, IsRow(s), NEW elem
    PROVE  PushedOn(s, Len(s), elem, Append(s, elem))
<1>1. PICK S : S = Range(s) \cup {elem}
  OBVIOUS
<1>2. s \in Seq(S) /\ elem \in S /\ Len(s) \in Nat
  BY <1>1, RowsAreSequences
<1>3. PICK t : t = Append(s, elem)
  OBVIOUS
<1>4. t \in Seq(S) /\ Len(t) = Len(s) + 1 /\ t[Len(s) + 1] = elem /\ \A i \in 1 .. Len(s) : t[i] = s[i]
  BY <1>2, <1>3, T!PushShape
<1>5. IsRow(t) /\ DOMAIN t = 1 .. (Len(s) + 1)
  BY <1>2, <1>4 DEF IsRow
<1> QED
  BY <1>3, <1>4, <1>5 DEF PushedOn

\* A shift keeps the invariant: a token refers to no node and lies behind all that was read.
LEMMA ShiftKeeps ==
    ASSUME Invariant, NEW name \in DOMAIN symbols, Shift(name)
    PROVE  Invariant'
<1>1. BuilderInvariant'
  BY BuilderStays DEF Invariant, Shift, Parsing, builder_vars
<1>2. PICK elem, t, n : /\ elem = [symbol |-> name, item |-> TokenItem(read)]
                        /\ t = Append(stack, elem) /\ n = Len(stack)
  OBVIOUS
<1>3. /\ stack' = t /\ heap' = heap /\ read' = read + 1
      /\ types' = types /\ config' = config
  BY <1>2 DEF Shift, builder_vars
<1>4. TreesOf(stack, heap)
  BY DEF Invariant, TreesFit
<1>5. PushedOn(stack, n, elem, t) /\ n \in Nat /\ DOMAIN stack = 1 .. n
  BY <1>2, <1>4, AllPushed DEF TreesOf, IsRow
<1>6. PICK item : item = TokenItem(read)
  OBVIOUS
<1>7. LooseFits(item, heap) /\ ~IsRef(item) /\ item.ref = 0 /\ item.loc = [offset |-> read, length |-> 1]
  BY <1>6 DEF TokenItem, Item, LooseFits, ItemFits, IsRef
<1>8. DOMAIN t = 1 .. (n + 1) /\ t[n + 1].item = item /\ \A k \in 1 .. n : t[k] = stack[k]
  BY <1>2, <1>5, <1>6 DEF PushedOn
<1>9. \A k \in DOMAIN t : LooseFits(t[k].item, heap)
  BY <1>4, <1>5, <1>7, <1>8 DEF TreesOf
<1>10. HeldOnce(heap, RefsOf(t))
  <2>1. PICK refs, new : refs = RefsOf(stack) /\ new = RefsOf(t)
    OBVIOUS
  <2>2. DOMAIN refs = 1 .. n /\ DOMAIN new = 1 .. (n + 1) /\ new[n + 1] = 0 /\ \A k \in 1 .. n : new[k] = refs[k]
    BY <1>5, <1>7, <1>8, <2>1 DEF RefsOf
  <2>3. \A k \in 1 .. (n + 1) : new[k] # 0 => k \in DOMAIN refs /\ new[k] = refs[k]
    BY <1>5, <2>2
  <2>4. HeldOnce(heap, refs)
    BY <1>4, <2>1 DEF TreesOf
  <2>5. \A i, j \in DOMAIN new : new[i] = new[j] /\ new[i] # 0 => i = j
    BY <2>2, <2>3, <2>4 DEF HeldOnce
  <2>6. \A i \in DOMAIN new : \A m, f : Filled(heap, m, f) /\ FieldRef(heap, m, f) = new[i] => new[i] = 0
    BY <2>2, <2>3, <2>4 DEF HeldOnce
  <2> QED
    BY <2>1, <2>4, <2>5, <2>6 DEF HeldOnce
<1>11. TreesOf(t, heap)
  BY <1>4, <1>5, <1>9, <1>10 DEF TreesOf, PushedOn
<1>12. TreesFit'
  <2>1. TreesOf(t, heap)'
    <3>1. t' = t /\ (\A s, h : TreesOf(s, h)' <=> TreesOf(s, h))
      BY <1>3, TreesStay
    <3>2. \A h : h = heap => TreesOf(t, h)'
      BY <1>11, <3>1
    <3> QED
      BY <1>3, <3>2
  <2> QED
    BY <1>3, <2>1 DEF TreesFit
<1>13. LocationsFit'
  <2> SUFFICES ASSUME NoEmptyItems(config) PROVE Ordered(t, heap, read + 1) /\ FieldsNest(heap)
    BY <1>3 DEF LocationsFit
  <2>1. Ordered(stack, heap, read) /\ FieldsNest(heap)
    BY DEF Invariant, LocationsFit
  <2>2. LocationOf(item, heap) = [offset |-> read, length |-> 1]
    BY <1>7 DEF LocationOf
  <2>3. read \in Nat
    BY <2>1 DEF Ordered
  <2>4. ASSUME NEW k \in DOMAIN t
        PROVE  LET loc == LocationOf(t[k].item, heap) IN IsLocation(loc) /\ loc.offset + loc.length <= read + 1
    <3>1. CASE k = n + 1
      BY <1>8, <2>2, <2>3, <3>1 DEF IsLocation
    <3>2. CASE k \in 1 .. n
      BY <1>5, <1>8, <2>1, <2>3, <3>2 DEF IsLocation, Ordered
    <3> QED
      BY <1>5, <1>8, <3>1, <3>2
  <2>5. ASSUME NEW j \in DOMAIN t, NEW k \in DOMAIN t, j < k
        PROVE  LocationOf(t[j].item, heap).offset + LocationOf(t[j].item, heap).length <= LocationOf(t[k].item, heap).offset
    <3>1. j \in 1 .. n
      BY <1>5, <1>8, <2>5
    <3>2. CASE k = n + 1
      BY <1>5, <1>8, <2>1, <2>2, <3>1, <3>2 DEF Ordered
    <3>3. CASE k \in 1 .. n
      BY <1>5, <1>8, <2>1, <2>5, <3>1, <3>3 DEF Ordered
    <3> QED
      BY <1>5, <1>8, <3>2, <3>3
  <2> QED
    BY <2>1, <2>3, <2>4, <2>5 DEF Ordered
<1> QED
  BY <1>1, <1>12, <1>13 DEF Invariant

\* The extraction of the root changes no tree.
LEMMA FinishKeeps ==
    ASSUME Invariant, Finish
    PROVE  Invariant'
<1>1. BuilderInvariant'
  BY BuilderStays DEF Invariant, Finish, Parsing
<1>2. types' = types /\ stack' = stack /\ heap' = heap /\ read' = read /\ config' = config
  BY DEF Finish
<1>3. TreesFit' /\ LocationsFit'
  BY <1>2, TreesStay DEF Invariant, TreesFit, LocationsFit
<1> QED
  BY <1>1, <1>3 DEF Invariant

\* A reduction keeps the invariant, whether its handle throws or not.
LEMMA ReduceKeeps ==
    ASSUME Invariant, NEW k \in DOMAIN productions, Reduce(productions[k])
    PROVE  Invariant'
<1>1. BuilderInvariant'
  BY BuilderStays DEF Invariant, Reduce, Parsing
<1>2. PICK p : p = productions[k]
  OBVIOUS
<1>3. PICK n, below : n = Len(p.rhs) /\ below = Len(stack) - n
  OBVIOUS
<1>4. PICK rhs : rhs = [i \in 1 .. n |-> SubSeq(stack, below + 1, Len(stack))[i].item]
  OBVIOUS
<1>5. PICK made : made = Invoke(p.handle, rhs, heap)
  OBVIOUS
<1>6. /\ below >= 0
      /\ IF made.item = Mismatch THEN stack' = stack /\ heap' = heap
         ELSE /\ stack' = Append(SubSeq(stack, 1, below), [symbol |-> p.lhs, item |-> made.item])
              /\ heap' = made.h
      /\ types' = types /\ config' = config /\ read' = read
  BY <1>2, <1>3, <1>4, <1>5 DEF Reduce
<1>7. CASE made.item = Mismatch
  <2>1. TreesFit' /\ LocationsFit'
    BY <1>6, <1>7, TreesStay DEF Invariant, TreesFit, LocationsFit
  <2> QED
    BY <1>1, <2>1 DEF Invariant
<1>8. CASE made.item # Mismatch
  <2>1. TreesOf(stack, heap) /\ PhasesAreInOrder /\ TypesAreRegistered /\ ClassesAreLoaded
    BY DEF Invariant, TreesFit, BuilderInvariant
  <2>2. PICK size : size = Len(stack) /\ size \in Nat /\ DOMAIN stack = 1 .. size /\ stack \in Seq(Range(stack))
    BY <2>1, RowsAreSequences DEF TreesOf
  <2>3. HandleFits(p) /\ (NoEmptyItems(config) => n # 0) /\ n \in Nat
    <3>1. p \in Range(productions)
      BY <1>2 DEF Range
    <3> QED
      BY <1>3, <3>1 DEF Invariant, BuilderInvariant, HandlesFit, HandleFits
  <2>4. below \in Nat /\ below + n = size /\ below \in 0 .. size
    BY <1>3, <1>6, <2>2, <2>3
  <2>5. Len(rhs) = n /\ \A i \in 1 .. n : below + i \in DOMAIN stack /\ rhs[i] = stack[below + i].item
    <3>1. \A i \in 1 .. n : SubSeq(stack, below + 1, size)[i] = stack[below + i]
      BY <2>2, <2>3, <2>4
    <3>2. Len(rhs) = n
      BY <1>4, <2>3
    <3> QED
      BY <1>4, <2>2, <2>3, <2>4, <3>1, <3>2
  <2>6. Ready(p, rhs, heap, RefsOf(stack), below)
    <3>1. PICK refs : refs = RefsOf(stack)
      OBVIOUS
    <3>2. DOMAIN refs = DOMAIN stack /\ \A o \in DOMAIN stack : refs[o] = stack[o].item.ref
      BY <3>1 DEF RefsOf
    <3>3. IsHeap(heap) /\ FieldsFit(heap) /\ HeldOnce(heap, refs) /\ \A o \in DOMAIN stack : LooseFits(stack[o].item, heap)
      BY <2>1, <3>1 DEF TreesOf
    <3>4. \A i \in 1 .. n : LooseFits(rhs[i], heap) /\ refs[below + i] = rhs[i].ref
      BY <2>5, <3>2, <3>3
    <3>5. \A o \in DOMAIN refs : refs[o] = 0 \/ refs[o] \in DOMAIN heap
      BY <3>2, <3>3 DEF LooseFits, ItemFits
    <3>6. ASSUME NoEmptyItems(config)
          PROVE  Lined(rhs, heap) /\ FieldsNest(heap)
      <4>1. Ordered(stack, heap, read) /\ FieldsNest(heap)
        BY <3>6 DEF Invariant, LocationsFit
      <4>2. \A i \in 1 .. n : IsLocation(LocationOf(rhs[i], heap))
        BY <2>5, <4>1 DEF Ordered
      <4>3. ASSUME NEW i \in 1 .. n, NEW j \in 1 .. n, i < j
            PROVE  LocationOf(rhs[i], heap).offset + LocationOf(rhs[i], heap).length <= LocationOf(rhs[j], heap).offset
        <5>1. PICK a, b : a = below + i /\ b = below + j
          OBVIOUS
        <5>2. a \in DOMAIN stack /\ b \in DOMAIN stack /\ a < b /\ rhs[i] = stack[a].item /\ rhs[j] = stack[b].item
          BY <2>3, <2>4, <2>5, <4>3, <5>1
        <5> QED
          BY <4>1, <5>2 DEF Ordered
      <4> QED
        BY <2>5, <4>1, <4>2, <4>3 DEF Lined
    <3>7. DOMAIN refs = 1 .. (below + Len(rhs))
      BY <2>2, <2>4, <2>5, <3>2
    <3>8. NoEmptyItems(config) => Len(rhs) # 0
      BY <2>3, <2>5
    <3>9. Ready(p, rhs, heap, refs, below)
      BY <1>3, <2>3, <2>4, <2>5, <3>3, <3>4, <3>5, <3>6, <3>7, <3>8 DEF Ready
    <3> QED
      BY <3>1, <3>9
  <2>7. PICK t, item, g : t = stack' /\ item = made.item /\ g = made.h
    OBVIOUS
  <2>8. PushedOn(stack, below, [symbol |-> p.lhs, item |-> item], t)
    BY <1>6, <1>8, <2>1, <2>2, <2>4, <2>7, PrefixPushed DEF TreesOf
  <2>9. IsRow(t) /\ DOMAIN t = 1 .. (below + 1) /\ t[below + 1].item = item /\ \A i \in 1 .. below : t[i] = stack[i]
    BY <2>8 DEF PushedOn
  <2>10. \A i \in 1 .. below : i \in DOMAIN stack /\ i \in 1 .. (below + 1)
    BY <2>2, <2>4
  <2>11. RefsAfter(RefsOf(stack), below, item, RefsOf(t))
    BY <2>4, <2>9, <2>10 DEF RefsAfter, RefsOf
  <2>12. /\ IsHeap(g) /\ FieldsFit(g) /\ SameKinds(heap, g) /\ LooseFits(item, g)
         /\ HeldOnce(g, RefsOf(t))
         /\ NoEmptyItems(config) =>
                /\ LocationOf(item, g) = Spanned(rhs, heap)
                /\ FieldsNest(g)
                /\ \A m \in DOMAIN heap : m # item.ref => g[m].loc = heap[m].loc
    <3>1. Made(p, rhs, heap, made)
      BY <1>5, <1>8 DEF Made
    <3> QED
      BY <2>1, <2>6, <2>7, <2>11, <3>1, InvokeKeeps
  <2>13. \A i \in 1 .. below : LooseFits(stack[i].item, heap) /\ LooseFits(t[i].item, g)
    BY <2>1, <2>9, <2>10, <2>12, KindsKeepItems DEF TreesOf
  <2>14. TreesOf(t, g)
    <3>1. \A i \in DOMAIN t : LooseFits(t[i].item, g)
      <4>1. \A i \in DOMAIN t : i = below + 1 \/ i \in 1 .. below
        BY <2>4, <2>9
      <4> QED
        BY <2>9, <2>12, <2>13, <4>1
    <3> QED
      BY <2>9, <2>12, <3>1 DEF TreesOf
  <2>15. TreesFit'
    <3>1. t' = t /\ g' = g /\ (\A s, h : TreesOf(s, h)' <=> TreesOf(s, h))
      BY <1>6, TreesStay
    <3>2. TreesOf(t, g)'
      BY <2>14, <3>1
    <3>3. stack' = t /\ heap' = g
      BY <1>6, <1>8, <2>7
    <3> QED
      BY <3>1, <3>2, <3>3 DEF TreesFit
  <2>16. ASSUME NoEmptyItems(config)
         PROVE  Ordered(t, g, read) /\ FieldsNest(g)
    <3>1. Ordered(stack, heap, read)
      BY <2>16 DEF Invariant, LocationsFit
    <3>2. ASSUME NEW i \in 1 .. below
          PROVE  LocationOf(t[i].item, g) = LocationOf(stack[i].item, heap)
      <4>1. PICK x : x = stack[i].item /\ x = t[i].item /\ LooseFits(x, heap)
        BY <2>9, <2>13
      <4>2. IsRef(x) => x.ref # item.ref
        <5>1. HeldOnce(g, RefsOf(t)) /\ 0 \notin DOMAIN heap
          BY <2>1, <2>12, RefsAreIn DEF TreesOf
        <5>2. i \in DOMAIN t /\ below + 1 \in DOMAIN t /\ i # below + 1
          BY <2>4, <2>9
        <5>3. DOMAIN RefsOf(t) = DOMAIN t /\ RefsOf(t)[i] = x.ref /\ RefsOf(t)[below + 1] = item.ref
          BY <2>9, <4>1, <5>2 DEF RefsOf
        <5>4. x.ref = item.ref => x.ref = 0
          BY <5>1, <5>2, <5>3 DEF HeldOnce
        <5> QED
          BY <4>1, <5>1, <5>4 DEF LooseFits, ItemFits
      <4>3. LocationOf(x, g) = LocationOf(x, heap)
        BY <2>12, <2>16, <4>1, <4>2 DEF LocationOf, LooseFits, ItemFits
      <4> QED
        BY <4>1, <4>3
    <3>3. PICK span : span = LocationOf(item, g)
      OBVIOUS
    <3>4. /\ IsLocation(span) /\ span.offset = LocationOf(rhs[1], heap).offset
          /\ span.offset + span.length = LocationOf(rhs[n], heap).offset + LocationOf(rhs[n], heap).length
      <4>1. Len(rhs) \in Nat /\ Len(rhs) # 0 /\ Lined(rhs, heap)
        BY <2>3, <2>5, <2>6, <2>16 DEF Ready
      <4>2. span = Spanned(rhs, heap)
        BY <2>12, <2>16, <3>3
      <4> QED
        BY <2>5, <4>1, <4>2, SpannedIs
    <3>5. PICK a : a = below + 1 /\ a \in DOMAIN stack /\ rhs[1] = stack[a].item /\ rhs[n] = stack[size].item /\ size \in DOMAIN stack
      <4>1. 1 \in 1 .. n /\ n \in 1 .. n
        BY <2>3, <2>16
      <4> QED
        BY <2>4, <2>5, <4>1
    <3>6. span.offset + span.length <= read
      BY <3>1, <3>4, <3>5 DEF Ordered
    <3>7. \A i \in 1 .. below : i < a
      BY <2>4, <3>5
    <3>8. ASSUME NEW i \in 1 .. below
          PROVE  LocationOf(stack[i].item, heap).offset + LocationOf(stack[i].item, heap).length <= span.offset
      BY <2>10, <3>1, <3>4, <3>5, <3>7 DEF Ordered
    <3>9. \A i \in DOMAIN t : i = below + 1 \/ i \in 1 .. below
      BY <2>4, <2>9
    <3>10. ASSUME NEW i \in DOMAIN t
           PROVE  LET loc == LocationOf(t[i].item, g) IN IsLocation(loc) /\ loc.offset + loc.length <= read
      <4>1. CASE i = below + 1
        BY <2>9, <3>3, <3>4, <3>6, <4>1
      <4>2. CASE i \in 1 .. below
        BY <2>10, <3>1, <3>2, <4>2 DEF Ordered
      <4> QED
        BY <3>9, <4>1, <4>2
    <3>11. ASSUME NEW i \in DOMAIN t, NEW j \in DOMAIN t, i < j
           PROVE  LocationOf(t[i].item, g).offset + LocationOf(t[i].item, g).length <= LocationOf(t[j].item, g).offset
      <4>1. i \in 1 .. below
        BY <2>4, <2>9, <3>11
      <4>2. CASE j = below + 1
        BY <2>9, <3>2, <3>3, <3>8, <4>1, <4>2
      <4>3. CASE j \in 1 .. below
        BY <2>10, <3>1, <3>2, <3>11, <4>1, <4>3 DEF Ordered
      <4> QED
        BY <3>9, <4>2, <4>3
    <3>12. read \in Nat
      BY <3>1 DEF Ordered
    <3> QED
      BY <2>12, <2>16, <3>10, <3>11, <3>12 DEF Ordered
  <2>17. LocationsFit'
    <3>1. stack' = t /\ heap' = g /\ read' = read /\ config' = config
      BY <1>6, <1>8, <2>7
    <3> QED
      BY <2>16, <3>1 DEF LocationsFit
  <2> QED
    BY <1>1, <2>15, <2>17 DEF Invariant
<1> QED
  BY <1>7, <1>8

-----------------------------------------------------------------------------
(* The theorems                                                            *)

\* The invariant holds before the first definition is loaded.
LEMMA InitHolds ==
    ASSUME Init
    PROVE  Invariant
<1>1. /\ config \in Configs /\ at = [phase |-> 1, index |-> 1] /\ types = [name \in {"token"} |-> TokenType]
      /\ productions = <<>> /\ outcome = "building" /\ stack = <<>> /\ heap = <<>> /\ read = 0
  BY DEF Init, BuilderInit
<1>2. PhasesAreInOrder
  BY <1>1 DEF PhasesAreInOrder
<1>3. Done(1, config.enums) = {} /\ Done(2, config.bases) = {} /\ Done(3, config.nodes) = {} /\ Done(4, config.nodes) = {}
  BY <1>1, <1>2, ConfigShape DEF Done, DoneAt
<1>4. Names(1, config.enums) = {} /\ Names(2, config.bases) = {} /\ Names(3, config.nodes) = {}
  BY <1>3 DEF Names
<1>5. PICK lookup, info : lookup = types /\ info = TokenType
  OBVIOUS
<1>6. DOMAIN lookup = {"token"} /\ lookup["token"] = info
  BY <1>1, <1>5
<1>7. /\ info.category = "token" /\ info.base = Empty /\ info.members = <<>>
      /\ info = [category |-> info.category, values |-> info.values, base |-> info.base, members |-> info.members]
  BY <1>5 DEF TokenType
<1>8. TypesAreRegistered
  <2>1. TypesAreNamed
    BY <1>4, <1>5, <1>6 DEF TypesAreNamed
  <2>2. CategoriesAreRight
    BY <1>4, <1>5, <1>6, <1>7 DEF CategoriesAreRight, Is
  <2>3. ClassesDiffer
    BY <1>3 DEF ClassesDiffer
  <2>4. BasesAreBases
    BY <1>5, <1>6, <1>7 DEF BasesAreBases, BaseFits, IsTypeInfo
  <2> QED
    BY <2>1, <2>2, <2>3, <2>4 DEF TypesAreRegistered
<1>9. ClassesAreLoaded
  <2>1. PICK members : members = info.members
    OBVIOUS
  <2>2. members = <<>> /\ DOMAIN members = {} /\ members \in Seq(Range(members))
    BY <1>7, <2>1
  <2>3. MembersFit(members)
    BY <2>2 DEF MembersFit
  <2>4. \A t \in DOMAIN types : types[t].members = members
    BY <1>5, <1>6, <2>1
  <2> QED
    BY <1>3, <2>3, <2>4 DEF ClassesAreLoaded
<1>10. HandlesFit
  <2>1. Range(productions) = {}
    BY <1>1 DEF Range
  <2> QED
    BY <1>1, <2>1 DEF HandlesFit
<1>11. PICK empty : empty = <<>>
  OBVIOUS
<1>12. IsRow(empty) /\ DOMAIN empty = {}
  BY <1>11 DEF IsRow
<1>13. TreesFit
  BY <1>1, <1>11, <1>12 DEF TreesFit, TreesOf, IsHeap, FieldsFit, HeldOnce, RefsOf, Filled
<1>14. LocationsFit
  BY <1>1, <1>11, <1>12 DEF LocationsFit, Ordered, FieldsNest, Filled
<1> QED
  BY <1>2, <1>8, <1>9, <1>10, <1>13, <1>14 DEF Invariant, BuilderInvariant

\* The builder's lookups, the handles, the trees and their locations fit together in
\* every state.
THEOREM InvariantHolds == Spec => []Invariant
<1>1. Init => Invariant
  BY InitHolds
<1>2. Invariant /\ [Next]_vars => Invariant'
  <2> SUFFICES ASSUME Invariant, [Next]_vars PROVE Invariant'
    OBVIOUS
  <2>1. CASE BuildStep
    BY <2>1, BuildKeepsTrees
  <2>2. CASE \E name \in DOMAIN symbols : Shift(name)
    BY <2>2, ShiftKeeps
  <2>3. CASE \E k \in DOMAIN productions : Reduce(productions[k])
    BY <2>3, ReduceKeeps
  <2>4. CASE Finish
    BY <2>4, FinishKeeps
  <2>5. CASE UNCHANGED vars
    <3>1. /\ UNCHANGED <<config, at, types, symbols, productions>>
          /\ outcome' = outcome /\ stack' = stack /\ heap' = heap /\ read' = read
      BY <2>5 DEF vars, builder_vars
    <3>2. PhasesAreInOrder'
      BY <3>1 DEF Invariant, BuilderInvariant, PhasesAreInOrder
    <3>3. TypesAreRegistered'
      BY <3>1 DEF Invariant, BuilderInvariant, TypesAreRegistered, TypesAreNamed, CategoriesAreRight, ClassesDiffer,
             BasesAreBases, BaseFits, Names, Done, Is
    <3>4. ClassesAreLoaded'
      BY <3>1 DEF Invariant, BuilderInvariant, ClassesAreLoaded, Done
    <3>5. HandlesFit'
      BY <3>1 DEF Invariant, BuilderInvariant, HandlesFit, HandleFits, Is
    <3>6. TreesFit' /\ LocationsFit'
      BY <3>1, TreesStay DEF Invariant, TreesFit, LocationsFit
    <3> QED
      BY <3>2, <3>3, <3>4, <3>5, <3>6 DEF Invariant, BuilderInvariant
  <2> QED
    BY <2>1, <2>2, <2>3, <2>4, <2>5 DEF Next
<1> QED
  BY <1>1, <1>2, PTL DEF Spec

\* What a place is: an element of the stack, or a filled field.
LEMMA PlacesAre ==
    ASSUME Invariant, NEW p \in Places
    PROVE  \/ \E k \in DOMAIN stack : p = <<0, k>> /\ ItemAt(p) = stack[k].item
           \/ \E n, f : /\ n # 0 /\ Filled(heap, n, f)
                        /\ p = <<n, f>> /\ ItemAt(p) = FieldItem(heap, n, f)
<1>1. 0 \notin DOMAIN heap
  BY RefsAreIn DEF Invariant, TreesFit, TreesOf
<1>2. CASE \E k \in DOMAIN stack : p = <<0, k>>
  BY <1>2 DEF ItemAt
<1>3. CASE \E n \in DOMAIN heap : \E f \in DOMAIN heap[n].fields : heap[n].fields[f] # Nothing /\ p = <<n, f>>
  BY <1>1, <1>3 DEF ItemAt, Filled, FieldItem
<1> QED
  BY <1>2, <1>3 DEF Places

\* A set without two different elements has at most one.
LEMMA AtMostOne ==
    ASSUME NEW S, \A x, y \in S : x = y
    PROVE  Cardinality(S) <= 1
<1>1. CASE S = {}
  BY <1>1, FS_EmptySet
<1>2. CASE S # {}
  <2>1. PICK x : S = {x}
    BY <1>2
  <2> QED
    BY <2>1, FS_Singleton
<1> QED
  BY <1>1, <1>2

\* Whatever the configuration and the text: a node is held by one place only.
THEOREM NodesHeldOnce == Spec => []NodesAreHeldOnce
<1>1. Invariant => NodesAreHeldOnce
  <2> SUFFICES ASSUME Invariant, NEW n \in DOMAIN heap
               PROVE  Cardinality({p \in Places : HeldItem(ItemAt(p)).ref = n}) <= 1
    BY DEF NodesAreHeldOnce
  <2>1. PICK refs : refs = RefsOf(stack)
    OBVIOUS
  <2>2. n # 0 /\ HeldOnce(heap, refs)
    BY <2>1, RefsAreIn DEF Invariant, TreesFit, TreesOf
  <2>3. ASSUME NEW p \in Places, HeldItem(ItemAt(p)).ref = n
        PROVE  \/ \E k \in DOMAIN refs : p = <<0, k>> /\ refs[k] = n
               \/ \E m, f : p = <<m, f>> /\ Filled(heap, m, f) /\ FieldRef(heap, m, f) = n
    <3>1. CASE \E k \in DOMAIN stack : p = <<0, k>> /\ ItemAt(p) = stack[k].item
      <4>1. PICK k \in DOMAIN stack : p = <<0, k>> /\ ItemAt(p) = stack[k].item
        BY <3>1
      <4>2. HeldItem(stack[k].item) = stack[k].item
        BY DEF Invariant, TreesFit, TreesOf, LooseFits, HeldItem
      <4>3. k \in DOMAIN refs /\ refs[k] = n
        BY <2>1, <2>3, <4>1, <4>2 DEF RefsOf
      <4> QED
        BY <4>1, <4>3
    <3>2. CASE \E m, f : m # 0 /\ Filled(heap, m, f) /\ p = <<m, f>> /\ ItemAt(p) = FieldItem(heap, m, f)
      BY <2>3, <3>2 DEF FieldRef
    <3> QED
      BY <2>3, <3>1, <3>2, PlacesAre
  <2>4. ASSUME NEW p \in Places, NEW q \in Places, HeldItem(ItemAt(p)).ref = n, HeldItem(ItemAt(q)).ref = n
        PROVE  p = q
    <3>1. \/ \E k \in DOMAIN refs : p = <<0, k>> /\ refs[k] = n
          \/ \E m, f : p = <<m, f>> /\ Filled(heap, m, f) /\ FieldRef(heap, m, f) = n
      BY <2>3, <2>4
    <3>2. \/ \E k \in DOMAIN refs : q = <<0, k>> /\ refs[k] = n
          \/ \E m, f : q = <<m, f>> /\ Filled(heap, m, f) /\ FieldRef(heap, m, f) = n
      BY <2>3, <2>4
    <3> QED
      BY <2>2, <3>1, <3>2 DEF HeldOnce
  <2> QED
    BY <2>4, AtMostOne
<1> QED
  BY <1>1, InvariantHolds, PTL

\* Where no right-hand side is empty, the location of a node spans what its fields
\* hold.
THEOREM LocationsAreNested == Spec => [](NoEmptyItems(config) => LocationsNest)
<1>1. Invariant => (NoEmptyItems(config) => LocationsNest)
  <2> SUFFICES ASSUME Invariant, NoEmptyItems(config), NEW p \in Places, p[1] # 0
               PROVE  LET in == LocationOf(ItemAt(p), heap)
                          out == heap[p[1]].loc
                      IN  out.offset <= in.offset /\ in.offset + in.length <= out.offset + out.length
    BY DEF LocationsNest
  <2>1. PICK n, f : Filled(heap, n, f) /\ p = <<n, f>> /\ ItemAt(p) = FieldItem(heap, n, f)
    BY PlacesAre
  <2>2. FieldsNest(heap)
    BY DEF Invariant, LocationsFit
  <2> QED
    BY <2>1, <2>2 DEF FieldsNest, Within
<1> QED
  BY <1>1, InvariantHolds, PTL

\* A class of the lookup is the class of the configuration, with its base.
LEMMA BasesAreParents ==
    ASSUME Invariant, at.phase = 8, NEW sub, Is("class", sub)
    PROVE  TypeOfName(config, sub) = "class" /\ NodeOf(config, sub).parent = types[sub].base
<1>1. PhasesAreInOrder /\ TypesAreNamed /\ CategoriesAreRight /\ ClassesDiffer /\ ClassesAreLoaded
  BY DEF Invariant, BuilderInvariant, TypesAreRegistered
<1>2. /\ Done(1, config.enums) = DOMAIN config.enums /\ Done(2, config.bases) = DOMAIN config.bases
      /\ Done(3, config.nodes) = DOMAIN config.nodes /\ Done(4, config.nodes) = DOMAIN config.nodes
  BY DEF Done, DoneAt
<1>3. /\ Names(1, config.enums) = {d.name : d \in Range(config.enums)}
      /\ Names(2, config.bases) = {d.name : d \in Range(config.bases)}
      /\ Names(3, config.nodes) = {d.name : d \in Range(config.nodes)}
  BY <1>2 DEF Names, Range
<1>4. sub \in DOMAIN types /\ types[sub].category = "class"
  BY DEF Is
<1>5. sub # "token" /\ sub \notin Names(1, config.enums) /\ sub \notin Names(2, config.bases)
  BY <1>1, <1>4 DEF CategoriesAreRight, Is
<1>6. sub \in Names(3, config.nodes)
  BY <1>1, <1>4, <1>5 DEF TypesAreNamed
<1>7. TypeOfName(config, sub) = "class"
  BY <1>3, <1>5, <1>6 DEF TypeOfName
<1>8. PICK k \in DOMAIN config.nodes : config.nodes[k].name = sub
  BY <1>2, <1>6 DEF Names
<1>9. \A d \in Range(config.nodes) : d.name = sub => d = config.nodes[k]
  BY <1>1, <1>2, <1>8 DEF ClassesDiffer, Range
<1>10. NodeOf(config, sub) = config.nodes[k]
  <2>1. config.nodes[k] \in Range(config.nodes)
    BY <1>8 DEF Range
  <2> QED
    BY <1>8, <1>9, <2>1 DEF NodeOf
<1>11. types[sub].base = config.nodes[k].parent
  BY <1>1, <1>2, <1>8 DEF ClassesAreLoaded
<1> QED
  BY <1>7, <1>10, <1>11

\* Whatever the configuration and the text: what a field holds is of the type of its
\* member.
THEOREM FieldsAreTyped == Spec => []FieldsHoldTheirTypes
<1>1. Invariant => FieldsHoldTheirTypes
  <2> SUFFICES ASSUME Invariant, NEW p \in Places, p[1] # 0
               PROVE  LET node == heap[p[1]]
                          spec == IF node.kind = "vector" THEN [qual |-> "none", type |-> node.type]
                                  ELSE types[node.type].members[p[2]].type
                          item == ItemAt(p)
                          held == HeldItem(item)
                      IN  /\ spec.qual = "opt" <=> item.tag = "optional"
                          /\ spec.qual = "vec" <=> item.tag = "vector"
                          /\ held.tag \in {"enum", "vector"} => held.of = spec.type
                          /\ held.tag = "object" => Subtype(config, heap[held.ref].type, spec.type)
    BY DEF FieldsHoldTheirTypes
  <2>1. PICK n, f : Filled(heap, n, f) /\ p = <<n, f>> /\ ItemAt(p) = FieldItem(heap, n, f)
    BY PlacesAre
  <2>2. PICK spec, item, held : spec = SpecOf(heap[n], f) /\ item = ItemAt(p) /\ held = HeldItem(item)
    OBVIOUS
  <2>3. FieldFits(spec, item, heap) /\ IsHeap(heap)
    BY <2>1, <2>2 DEF Invariant, TreesFit, TreesOf, FieldsFit
  <2>4. ASSUME held.tag = "object"
        PROVE  Subtype(config, heap[held.ref].type, spec.type)
    <3>1. PICK sub : sub = heap[held.ref].type
      OBVIOUS
    <3>2. sub = spec.type \/ types[sub].base = spec.type
      BY <2>2, <2>3, <2>4, <3>1 DEF FieldFits
    <3>3. held.ref \in DOMAIN heap /\ heap[held.ref].kind = "object"
      BY <2>2, <2>3, <2>4 DEF FieldFits, ItemFits, IsRef
    <3>4. Is("class", sub)
      BY <2>3, <3>1, <3>3 DEF IsHeap, NodeFits
    <3>5. at.phase = 8
      <4>1. heap # <<>>
        BY <3>3
      <4> QED
        BY <4>1 DEF Invariant, BuilderInvariant, PhasesAreInOrder
    <3> QED
      BY <3>1, <3>2, <3>4, <3>5, BasesAreParents DEF Subtype
  <2>5. spec = IF heap[p[1]].kind = "vector" THEN [qual |-> "none", type |-> heap[p[1]].type]
               ELSE types[heap[p[1]].type].members[p[2]].type
    BY <2>1, <2>2 DEF SpecOf
  <2>6. /\ spec.qual = "opt" <=> item.tag = "optional"
        /\ spec.qual = "vec" <=> item.tag = "vector"
        /\ held.tag \in {"enum", "vector"} => held.of = spec.type
    BY <2>2, <2>3 DEF FieldFits
  <2> QED
    BY <2>2, <2>4, <2>5, <2>6
<1> QED
  BY <1>1, InvariantHolds, PTL

-----------------------------------------------------------------------------
(* The lookups of a configuration with a typing                            *)

\* The members of a class as LoadMembers translates them.
Loaded(members) == [m \in DOMAIN members |-> [type |-> TranslateTypeSpec(members[m].type), name |-> members[m].name]]

\* The info of a symbol tells its category, and the type of a variable.
TokenFits(d) == d.name \in DOMAIN symbols /\ symbols[d.name].category = "token"
VariableFits(d) ==
    /\ d.name \in DOMAIN symbols
    /\ symbols[d.name].category = "variable" /\ symbols[d.name].type = TranslateTypeSpec(d.type)

EnumsAreLoaded == \A k \in Done(1, config.enums) : types[config.enums[k].name].values = config.enums[k].choices

MembersAreLoaded ==
    \A k \in Done(4, config.nodes) : types[config.nodes[k].name].members = Loaded(config.nodes[k].members)

SymbolsAreNamed == DOMAIN symbols = Names(5, config.tokens) \cup Names(7, config.rules)

SymbolsAreLoaded ==
    /\ \A k \in Done(5, config.tokens) : TokenFits(config.tokens[k])
    /\ \A k \in Done(7, config.rules) : VariableFits(config.rules[k])

LookupsAreLoaded == EnumsAreLoaded /\ MembersAreLoaded /\ SymbolsAreNamed /\ SymbolsAreLoaded

\* The names of a configuration are neither empty nor the one of the rule's own type.
LEMMA NamesShape ==
    ASSUME PhasesAreInOrder
    PROVE  /\ config.tokens \in Seq(Range(config.tokens))
           /\ config.ignored_tokens \in Seq(Range(config.ignored_tokens))
           /\ \A k \in DOMAIN config.enums : config.enums[k].name \notin {Empty, OwnType}
           /\ \A k \in DOMAIN config.bases : config.bases[k].name \notin {Empty, OwnType}
           /\ \A k \in DOMAIN config.nodes : config.nodes[k].name \notin {Empty, OwnType}
<1>1. IsConfig(config)
  BY ConfigsAssumption DEF PhasesAreInOrder
<1>2. {"enums", "bases", "nodes", "tokens", "ignored_tokens"} \subseteq DOMAIN Fields
  BY DEF Fields
<1>3. \A d \in Range(config.enums) : d.name \notin {Empty, OwnType}
  BY <1>1, <1>2 DEF IsConfig
<1>4. \A d \in Range(config.bases) : d.name \notin {Empty, OwnType}
  BY <1>1, <1>2 DEF IsConfig
<1>5. \A d \in Range(config.nodes) : d.name \notin {Empty, OwnType}
  BY <1>1, <1>2 DEF IsConfig
<1>6. config.tokens \in Seq(Range(config.tokens)) /\ config.ignored_tokens \in Seq(Range(config.ignored_tokens))
  BY <1>1, <1>2 DEF IsConfig
<1> QED
  BY <1>3, <1>4, <1>5, <1>6 DEF Range

\* Every sequence of definitions has a length.
LEMMA DefinitionsCount ==
    ASSUME PhasesAreInOrder
    PROVE  /\ Len(config.enums) \in Nat /\ DOMAIN config.enums = 1 .. Len(config.enums)
           /\ Len(config.bases) \in Nat /\ DOMAIN config.bases = 1 .. Len(config.bases)
           /\ Len(config.nodes) \in Nat /\ DOMAIN config.nodes = 1 .. Len(config.nodes)
           /\ Len(config.tokens) \in Nat /\ DOMAIN config.tokens = 1 .. Len(config.tokens)
           /\ Len(config.ignored_tokens) \in Nat /\ DOMAIN config.ignored_tokens = 1 .. Len(config.ignored_tokens)
           /\ Len(config.rules) \in Nat /\ DOMAIN config.rules = 1 .. Len(config.rules)
<1>1. /\ config.enums \in Seq(Range(config.enums))
      /\ config.bases \in Seq(Range(config.bases))
      /\ config.nodes \in Seq(Range(config.nodes))
      /\ config.rules \in Seq(Range(config.rules))
  BY ConfigShape
<1>2. config.tokens \in Seq(Range(config.tokens)) /\ config.ignored_tokens \in Seq(Range(config.ignored_tokens))
  BY NamesShape
<1> QED
  BY <1>1, <1>2

\* The definitions of the phases that load symbols.
LEMMA SymbolDefinitionsAre ==
    ASSUME PhasesAreInOrder
    PROVE  /\ Phase = "tokens" <=> at.phase = 5
           /\ Phase = "ignored_tokens" <=> at.phase = 6
           /\ Phase = "rules" <=> at.phase = 7
           /\ at.phase = 5 => Definitions = config.tokens
           /\ at.phase = 6 => Definitions = config.ignored_tokens
           /\ at.phase = 7 => Definitions = config.rules
<1>1. at.phase \in 1 .. 8
  BY DEF PhasesAreInOrder
<1>2. /\ Phase = "tokens" <=> at.phase = 5
      /\ Phase = "ignored_tokens" <=> at.phase = 6
      /\ Phase = "rules" <=> at.phase = 7
  BY <1>1 DEF Phase, Phases
<1> QED
  BY <1>2 DEF Definitions, DefinitionsOf

\* The next definition of phase n.
Advances(n) == at' = [at EXCEPT !.index = @ + 1] /\ at.phase = n /\ at.index <= Len(Definitions)

\* No definition is done: nothing happens, or a phase ends.
Rests == at' = at \/ (at.phase < 8 /\ at' = [phase |-> at.phase + 1, index |-> 1] /\ at.index > Len(Definitions))

\* What is done of a sequence of definitions grows by the one done, in its phase.
LEMMA DoneGrows ==
    ASSUME PhasesAreInOrder, NEW n \in 1 .. 8, NEW defs, Len(defs) \in Nat, DOMAIN defs = 1 .. Len(defs),
           at.phase = n => Definitions = defs
    PROVE  /\ Rests => DoneAt(at', n, defs) = Done(n, defs)
           /\ \A m : Advances(m) /\ m # n => DoneAt(at', n, defs) = Done(n, defs)
           /\ Advances(n) => DoneAt(at', n, defs) = Done(n, defs) \cup {at.index} /\ at.index \in DOMAIN defs
<1>1. at.phase \in 1 .. 8 /\ at.index \in Nat \ {0} /\ at \in [phase : 1 .. 8, index : Nat \ {0}]
  BY DEF PhasesAreInOrder
<1>2. Rests => DoneAt(at', n, defs) = Done(n, defs)
  BY <1>1 DEF Rests, Done, DoneAt
<1>3. \A m : Advances(m) /\ m # n => DoneAt(at', n, defs) = Done(n, defs)
  BY <1>1 DEF Advances, Done, DoneAt
<1>4. Advances(n) => DoneAt(at', n, defs) = Done(n, defs) \cup {at.index} /\ at.index \in DOMAIN defs
  BY <1>1 DEF Advances, Done, DoneAt
<1> QED
  BY <1>2, <1>3, <1>4

\* What is done of the definitions that the lookups are about.
LEMMA AllGrow ==
    ASSUME PhasesAreInOrder, config' = config
    PROVE  /\ Rests => /\ Done(1, config.enums)' = Done(1, config.enums) /\ Done(4, config.nodes)' = Done(4, config.nodes)
                       /\ Done(5, config.tokens)' = Done(5, config.tokens) /\ Done(7, config.rules)' = Done(7, config.rules)
           /\ \A n : Advances(n) =>
                /\ Done(1, config.enums)' = Done(1, config.enums) \cup (IF n = 1 THEN {at.index} ELSE {})
                /\ Done(4, config.nodes)' = Done(4, config.nodes) \cup (IF n = 4 THEN {at.index} ELSE {})
                /\ Done(5, config.tokens)' = Done(5, config.tokens) \cup (IF n = 5 THEN {at.index} ELSE {})
                /\ Done(7, config.rules)' = Done(7, config.rules) \cup (IF n = 7 THEN {at.index} ELSE {})
                /\ n = 1 => at.index \in DOMAIN config.enums
                /\ n = 4 => at.index \in DOMAIN config.nodes
                /\ n = 5 => at.index \in DOMAIN config.tokens
                /\ n = 7 => at.index \in DOMAIN config.rules
<1>1. /\ Done(1, config.enums)' = DoneAt(at', 1, config.enums) /\ Done(4, config.nodes)' = DoneAt(at', 4, config.nodes)
      /\ Done(5, config.tokens)' = DoneAt(at', 5, config.tokens) /\ Done(7, config.rules)' = DoneAt(at', 7, config.rules)
  BY DEF Done
<1>2. /\ at.phase = 1 => Definitions = config.enums
      /\ at.phase = 4 => Definitions = config.nodes
      /\ at.phase = 5 => Definitions = config.tokens
      /\ at.phase = 7 => Definitions = config.rules
  BY DefinitionsAre, SymbolDefinitionsAre
<1>3. PICK enums, nodes, tokens, rules :
        enums = config.enums /\ nodes = config.nodes /\ tokens = config.tokens /\ rules = config.rules
  OBVIOUS
<1>4. /\ Len(enums) \in Nat /\ DOMAIN enums = 1 .. Len(enums)
      /\ Len(nodes) \in Nat /\ DOMAIN nodes = 1 .. Len(nodes)
      /\ Len(tokens) \in Nat /\ DOMAIN tokens = 1 .. Len(tokens)
      /\ Len(rules) \in Nat /\ DOMAIN rules = 1 .. Len(rules)
  BY <1>3, DefinitionsCount
<1>5. /\ Rests => DoneAt(at', 1, enums) = Done(1, enums)
      /\ \A m : Advances(m) /\ m # 1 => DoneAt(at', 1, enums) = Done(1, enums)
      /\ Advances(1) => DoneAt(at', 1, enums) = Done(1, enums) \cup {at.index} /\ at.index \in DOMAIN enums
  <2>1. 1 \in 1 .. 8 /\ (at.phase = 1 => Definitions = enums)
    BY <1>2, <1>3
  <2> QED
    BY <1>4, <2>1, DoneGrows
<1>6. /\ Rests => DoneAt(at', 4, nodes) = Done(4, nodes)
      /\ \A m : Advances(m) /\ m # 4 => DoneAt(at', 4, nodes) = Done(4, nodes)
      /\ Advances(4) => DoneAt(at', 4, nodes) = Done(4, nodes) \cup {at.index} /\ at.index \in DOMAIN nodes
  <2>1. 4 \in 1 .. 8 /\ (at.phase = 4 => Definitions = nodes)
    BY <1>2, <1>3
  <2> QED
    BY <1>4, <2>1, DoneGrows
<1>7. /\ Rests => DoneAt(at', 5, tokens) = Done(5, tokens)
      /\ \A m : Advances(m) /\ m # 5 => DoneAt(at', 5, tokens) = Done(5, tokens)
      /\ Advances(5) => DoneAt(at', 5, tokens) = Done(5, tokens) \cup {at.index} /\ at.index \in DOMAIN tokens
  <2>1. 5 \in 1 .. 8 /\ (at.phase = 5 => Definitions = tokens)
    BY <1>2, <1>3
  <2> QED
    BY <1>4, <2>1, DoneGrows
<1>8. /\ Rests => DoneAt(at', 7, rules) = Done(7, rules)
      /\ \A m : Advances(m) /\ m # 7 => DoneAt(at', 7, rules) = Done(7, rules)
      /\ Advances(7) => DoneAt(at', 7, rules) = Done(7, rules) \cup {at.index} /\ at.index \in DOMAIN rules
  <2>1. 7 \in 1 .. 8 /\ (at.phase = 7 => Definitions = rules)
    BY <1>2, <1>3
  <2> QED
    BY <1>4, <2>1, DoneGrows
<1> QED
  BY <1>1, <1>3, <1>5, <1>6, <1>7, <1>8

\* An action of the builder for a phase goes on only in that phase.
LEMMA ActionsOfPhases ==
    ASSUME PhasesAreInOrder, Build, ~Rests
    PROVE  /\ config' = config /\ outcome' = outcome /\ \E n \in 1 .. 8 : Advances(n)
           /\ Advances(1) => LoadEnum
           /\ Advances(2) => LoadBase
           /\ Advances(3) => LoadNode
           /\ Advances(4) => LoadMembers
           /\ Advances(5) => LoadToken
           /\ Advances(6) => LoadIgnoredToken
           /\ Advances(7) => LoadVariable
           /\ Advances(8) => LoadProduction
<1>1. at.phase \in 1 .. 8 /\ config' = config /\ at \in [phase : 1 .. 8, index : Nat \ {0}]
  BY BuildShape DEF PhasesAreInOrder
<1>2. at' = [at EXCEPT !.index = @ + 1] /\ outcome' = outcome /\ at.index <= Len(Definitions)
  BY BuildShape DEF Rests
<1>3. Advances(at.phase)
  BY <1>2 DEF Advances
<1>4. ~EndPhase
  <2>1. Len(Phases) = 8
    BY DEF Phases
  <2> QED
    BY <1>1, <2>1 DEF EndPhase, Rests
<1>5. /\ LoadEnum => at.phase = 1
      /\ LoadBase => at.phase = 2
      /\ LoadNode => at.phase = 3
      /\ LoadMembers => at.phase = 4
      /\ LoadToken => at.phase = 5
      /\ LoadIgnoredToken => at.phase = 6
      /\ LoadVariable => at.phase = 7
      /\ LoadProduction => at.phase = 8
  BY <1>1, PhaseNumber DEF LoadEnum, LoadBase, LoadNode, LoadMembers, LoadToken, LoadIgnoredToken, LoadVariable,
     LoadProduction, In
<1>6. LoadEnum \/ LoadBase \/ LoadNode \/ LoadMembers \/ LoadToken \/ LoadIgnoredToken \/ LoadVariable \/ LoadProduction
  BY <1>4 DEF Build
<1>7. \A n : Advances(n) => at.phase = n
  BY DEF Advances
<1> QED
  BY <1>1, <1>2, <1>3, <1>5, <1>6, <1>7

\* Where nothing is done the lookups stay.
LEMMA RestsKeep ==
    ASSUME PhasesAreInOrder, Build, Rests
    PROVE  types' = types /\ symbols' = symbols /\ config' = config /\ productions' = productions
<1>1. config' = config /\ at \in [phase : 1 .. 8, index : Nat \ {0}]
  BY BuildShape DEF PhasesAreInOrder
<1>2. ~Continue
  BY <1>1 DEF Rests, Continue
<1> QED
  BY <1>1, <1>2 DEF Build, LoadEnum, LoadBase, LoadNode, LoadMembers, RegisterTypeInfo, LoadToken, LoadIgnoredToken,
     LoadVariable, LoadProduction, RegisterSymbolInfo, Fail, EndPhase

\* A registered type keeps its values; only its own definition loads its members.
TypesGrowTo(lookup, name) ==
    /\ DOMAIN types \subseteq DOMAIN lookup
    /\ \A t \in DOMAIN types : lookup[t].values = types[t].values
    /\ \A t \in DOMAIN types : t # name => lookup[t].members = types[t].members

\* What the actions do to the lookup of types.
LEMMA TypesGrow ==
    ASSUME PhasesAreInOrder, TypesAreRegistered, Build, ~Rests
    PROVE  /\ TypesGrowTo(types', IF at.phase = 4 THEN Def.name ELSE Empty)
           /\ Advances(1) => types'[Def.name].values = Def.choices
           /\ Advances(4) => types'[Def.name].members = Loaded(Def.members)
<1>0. at' # at /\ at' # [phase |-> at.phase + 1, index |-> 1] /\ at.phase \in 1 .. 8
  <2>1. at \in [phase : 1 .. 8, index : Nat \ {0}]
    BY DEF PhasesAreInOrder
  <2>2. at' = [at EXCEPT !.index = @ + 1]
    BY ActionsOfPhases DEF Advances
  <2> QED
    BY <2>1, <2>2
<1>1. PICK name : name = Def.name
  OBVIOUS
<1>2. ASSUME NEW info, name \notin DOMAIN types, types' = Inserted(types, name, info), NEW other
      PROVE  TypesGrowTo(types', other) /\ types'[name] = info
  BY <1>2 DEF Inserted, TypesGrowTo
<1>3. CASE Advances(1)
  <2>1. PICK info : info = [TokenType EXCEPT !.category = "enum", !.values = Def.choices]
    OBVIOUS
  <2>2. name \notin DOMAIN types /\ types' = Inserted(types, name, info)
    BY <1>0, <1>1, <1>3, <2>1, ActionsOfPhases DEF LoadEnum, RegisterTypeInfo, Fail
  <2>3. info.values = Def.choices
    BY <2>1 DEF TokenType
  <2> QED
    BY <1>1, <1>2, <1>3, <2>2, <2>3 DEF Advances
<1>4. CASE Advances(2)
  <2>1. PICK info : info = [TokenType EXCEPT !.category = "base"]
    OBVIOUS
  <2>2. name \notin DOMAIN types /\ types' = Inserted(types, name, info)
    BY <1>0, <1>1, <1>4, <2>1, ActionsOfPhases DEF LoadBase, RegisterTypeInfo, Fail
  <2> QED
    BY <1>1, <1>2, <1>4, <2>2 DEF Advances
<1>5. CASE Advances(3)
  <2>1. PICK info : info = [TokenType EXCEPT !.category = "class"]
    OBVIOUS
  <2>2. name \notin DOMAIN types /\ types' = Inserted(types, name, info)
    BY <1>0, <1>1, <1>5, <2>1, ActionsOfPhases DEF LoadNode, RegisterTypeInfo, Fail
  <2> QED
    BY <1>1, <1>2, <1>5, <2>2 DEF Advances
<1>6. CASE Advances(4)
  <2>1. PICK members : members = Loaded(Def.members)
    OBVIOUS
  <2>2. types' = [types EXCEPT ![name].base = Def.parent, ![name].members = members]
    BY <1>0, <1>1, <1>6, <2>1, ActionsOfPhases DEF LoadMembers, Fail, Loaded
  <2>3. name \in DOMAIN types
    <3>1. Done(3, config.nodes) = DOMAIN config.nodes /\ at.index \in DOMAIN config.nodes /\ Definitions = config.nodes
      BY <1>6, DefinitionsAre, DefinitionsCount DEF Advances, Done, DoneAt, PhasesAreInOrder
    <3> QED
      BY <1>1, <3>1 DEF TypesAreRegistered, TypesAreNamed, Names, Def
  <2>4. IsTypeInfo(types[name])
    BY <2>3 DEF TypesAreRegistered, BasesAreBases, BaseFits
  <2>5. PICK info : info = types[name]
    OBVIOUS
  <2>6. types' = [types EXCEPT ![name] = [info EXCEPT !.base = Def.parent, !.members = members]]
    BY <2>2, <2>3, <2>5
  <2>7. [info EXCEPT !.base = Def.parent, !.members = members].values = info.values
        /\ [info EXCEPT !.base = Def.parent, !.members = members].members = members
    BY <2>4, <2>5 DEF IsTypeInfo
  <2>8. PICK loaded : loaded = [info EXCEPT !.base = Def.parent, !.members = members]
    OBVIOUS
  <2>9. /\ DOMAIN types' = DOMAIN types /\ types'[name] = loaded
        /\ \A t \in DOMAIN types : t # name => types'[t] = types[t]
    BY <2>3, <2>6, <2>8
  <2>10. TypesGrowTo(types', name) /\ types'[name].members = members
    BY <2>5, <2>7, <2>8, <2>9 DEF TypesGrowTo
  <2>11. at.phase = 4 /\ ~Advances(1)
    BY <1>6 DEF Advances
  <2> QED
    BY <1>1, <2>1, <2>10, <2>11
<1>7. CASE Advances(5) \/ Advances(6) \/ Advances(7) \/ Advances(8)
  <2>1. types' = types
    BY <1>7, ActionsOfPhases DEF LoadToken, LoadIgnoredToken, LoadVariable, LoadProduction, RegisterSymbolInfo, Fail
  <2> QED
    BY <1>7, <2>1 DEF Advances, TypesGrowTo
<1>8. \E n \in 1 .. 8 : Advances(n)
  BY ActionsOfPhases
<1> QED
  BY <1>3, <1>4, <1>5, <1>6, <1>7, <1>8

\* What the actions do to the lookup of symbols.
LEMMA SymbolsGrow ==
    ASSUME PhasesAreInOrder, Build, ~Rests
    PROVE  /\ ~Advances(5) /\ ~Advances(7) => symbols' = symbols
           /\ Advances(5) \/ Advances(7) =>
                /\ DOMAIN symbols' = DOMAIN symbols \cup {Def.name}
                /\ \A s \in DOMAIN symbols : symbols'[s] = symbols[s]
           /\ Advances(5) => symbols'[Def.name].category = "token"
           /\ Advances(7) => /\ symbols'[Def.name].category = "variable"
                             /\ symbols'[Def.name].type = TranslateTypeSpec(Def.type)
<1>0. at' # at
  BY DEF Rests
<1>1. PICK name : name = Def.name
  OBVIOUS
<1>2. ASSUME NEW info, name \notin DOMAIN symbols, symbols' = Inserted(symbols, name, info)
      PROVE  /\ DOMAIN symbols' = DOMAIN symbols \cup {name} /\ symbols'[name] = info
             /\ \A s \in DOMAIN symbols : symbols'[s] = symbols[s]
  BY <1>2 DEF Inserted
<1>3. CASE Advances(5)
  <2>1. PICK info : info = [category |-> "token", id |-> at.index - 1]
    OBVIOUS
  <2>2. name \notin DOMAIN symbols /\ symbols' = Inserted(symbols, name, info)
    BY <1>0, <1>1, <1>3, <2>1, ActionsOfPhases DEF LoadToken, RegisterSymbolInfo, Fail
  <2>3. info.category = "token"
    BY <2>1
  <2>4. /\ DOMAIN symbols' = DOMAIN symbols \cup {name} /\ symbols'[name] = info
        /\ \A s \in DOMAIN symbols : symbols'[s] = symbols[s]
    BY <1>2, <2>2
  <2>5. ~Advances(7)
    BY <1>3 DEF Advances
  <2> QED
    BY <1>1, <1>3, <2>3, <2>4, <2>5
<1>4. CASE Advances(7)
  <2>1. PICK info : info = [category |-> "variable", id |-> at.index - 1, type |-> TranslateTypeSpec(Def.type)]
    OBVIOUS
  <2>2. name \notin DOMAIN symbols /\ symbols' = Inserted(symbols, name, info)
    BY <1>0, <1>1, <1>4, <2>1, ActionsOfPhases DEF LoadVariable, RegisterSymbolInfo, Fail
  <2>3. info.category = "variable" /\ info.type = TranslateTypeSpec(Def.type)
    BY <2>1
  <2>4. /\ DOMAIN symbols' = DOMAIN symbols \cup {name} /\ symbols'[name] = info
        /\ \A s \in DOMAIN symbols : symbols'[s] = symbols[s]
    BY <1>2, <2>2
  <2>5. ~Advances(5)
    BY <1>4 DEF Advances
  <2> QED
    BY <1>1, <1>4, <2>3, <2>4, <2>5
<1>5. CASE ~Advances(5) /\ ~Advances(7)
  <2>1. symbols' = symbols
    BY <1>0, <1>5, ActionsOfPhases DEF LoadEnum, LoadBase, LoadNode, LoadMembers, LoadIgnoredToken, LoadProduction,
       RegisterTypeInfo, Fail
  <2> QED
    BY <1>5, <2>1
<1> QED
  BY <1>3, <1>4, <1>5

\* Every step of the builder keeps what the lookups tell of the definitions done.
LEMMA LookupsKeep ==
    ASSUME PhasesAreInOrder, TypesAreRegistered, LookupsAreLoaded, Build
    PROVE  LookupsAreLoaded'
<1>1. CASE Rests
  <2>1. types' = types /\ symbols' = symbols /\ config' = config
    BY <1>1, RestsKeep
  <2>2. /\ Done(1, config.enums)' = Done(1, config.enums) /\ Done(4, config.nodes)' = Done(4, config.nodes)
        /\ Done(5, config.tokens)' = Done(5, config.tokens) /\ Done(7, config.rules)' = Done(7, config.rules)
    BY <1>1, <2>1, AllGrow
  <2> QED
    BY <2>1, <2>2 DEF LookupsAreLoaded, EnumsAreLoaded, MembersAreLoaded, SymbolsAreNamed, SymbolsAreLoaded, TokenFits,
       VariableFits, Names
<1>2. CASE ~Rests
  <2>1. PICK n \in 1 .. 8 : Advances(n)
    BY <1>2, ActionsOfPhases
  <2>2. config' = config /\ at.phase = n
    BY <1>2, <2>1, ActionsOfPhases DEF Advances
  <2>3. /\ Done(1, config.enums)' = Done(1, config.enums) \cup (IF n = 1 THEN {at.index} ELSE {})
        /\ Done(4, config.nodes)' = Done(4, config.nodes) \cup (IF n = 4 THEN {at.index} ELSE {})
        /\ Done(5, config.tokens)' = Done(5, config.tokens) \cup (IF n = 5 THEN {at.index} ELSE {})
        /\ Done(7, config.rules)' = Done(7, config.rules) \cup (IF n = 7 THEN {at.index} ELSE {})
        /\ n = 1 => at.index \in DOMAIN config.enums
        /\ n = 4 => at.index \in DOMAIN config.nodes
        /\ n = 5 => at.index \in DOMAIN config.tokens
        /\ n = 7 => at.index \in DOMAIN config.rules
    BY <2>1, <2>2, AllGrow
  <2>4. /\ n = 1 => Def = config.enums[at.index]
        /\ n = 4 => Def = config.nodes[at.index]
        /\ n = 5 => Def = config.tokens[at.index]
        /\ n = 7 => Def = config.rules[at.index]
    BY <2>2, DefinitionsAre, SymbolDefinitionsAre DEF Def
  <2>5. /\ TypesGrowTo(types', IF n = 4 THEN Def.name ELSE Empty)
        /\ n = 1 => types'[Def.name].values = Def.choices
        /\ n = 4 => types'[Def.name].members = Loaded(Def.members)
    BY <1>2, <2>1, <2>2, TypesGrow
  <2>6. TypesAreNamed /\ ClassesDiffer
    BY DEF TypesAreRegistered
  <2>7. EnumsAreLoaded'
    <3>1. \A k \in Done(1, config.enums) : config.enums[k].name \in DOMAIN types
      BY <2>6 DEF TypesAreNamed, Names
    <3> QED
      BY <2>2, <2>3, <2>4, <2>5, <3>1 DEF LookupsAreLoaded, EnumsAreLoaded, TypesGrowTo
  <2>8. MembersAreLoaded'
    <3>0. at.phase \in 1 .. 8 /\ at.index \in Nat \ {0}
      BY DEF PhasesAreInOrder
    <3>1. \A k \in Done(4, config.nodes) : k \in Done(3, config.nodes) /\ config.nodes[k].name \in DOMAIN types
      <4>1. \A k \in Done(4, config.nodes) : k \in Done(3, config.nodes)
        BY <3>0 DEF Done, DoneAt
      <4> QED
        BY <2>6, <4>1 DEF TypesAreNamed, Names
    <3>2. \A k \in Done(4, config.nodes) : config.nodes[k].name # Empty
      BY ConfigShape DEF Done, DoneAt
    <3>3. n = 4 => at.index \in Done(3, config.nodes) /\ at.index \notin Done(4, config.nodes)
      BY <2>2, <2>3, <3>0 DEF Done, DoneAt
    <3>4. \A k \in Done(4, config.nodes) : config.nodes[k].name # IF n = 4 THEN Def.name ELSE Empty
      BY <2>4, <2>6, <3>1, <3>2, <3>3 DEF ClassesDiffer
    <3>5. \A k \in Done(4, config.nodes) : types'[config.nodes[k].name].members = Loaded(config.nodes[k].members)
      BY <2>5, <3>1, <3>4 DEF LookupsAreLoaded, MembersAreLoaded, TypesGrowTo
    <3>6. \A members : Loaded(members)' = Loaded(members)
      BY DEF Loaded, TranslateTypeSpec
    <3> QED
      BY <2>2, <2>3, <2>4, <2>5, <3>5 DEF MembersAreLoaded
  <2>9. SymbolsAreNamed' /\ SymbolsAreLoaded'
    <3>1. /\ n \notin {5, 7} => symbols' = symbols
          /\ n \in {5, 7} => /\ DOMAIN symbols' = DOMAIN symbols \cup {Def.name}
                             /\ \A s \in DOMAIN symbols : symbols'[s] = symbols[s]
          /\ n = 5 => symbols'[Def.name].category = "token"
          /\ n = 7 => /\ symbols'[Def.name].category = "variable"
                      /\ symbols'[Def.name].type = TranslateTypeSpec(Def.type)
      <4>1. \A m : Advances(m) <=> m = n
        BY <2>1 DEF Advances
      <4> QED
        BY <1>2, <4>1, SymbolsGrow
    <3>2. SymbolsAreNamed'
      <4>1. /\ Names(5, config.tokens)' = Names(5, config.tokens) \cup (IF n = 5 THEN {Def.name} ELSE {})
            /\ Names(7, config.rules)' = Names(7, config.rules) \cup (IF n = 7 THEN {Def.name} ELSE {})
        BY <2>2, <2>3, <2>4 DEF Names
      <4>2. DOMAIN symbols = Names(5, config.tokens) \cup Names(7, config.rules)
        BY DEF LookupsAreLoaded, SymbolsAreNamed
      <4> QED
        BY <3>1, <4>1, <4>2 DEF SymbolsAreNamed
    <3>3. \A d : TokenFits(d) => TokenFits(d)'
      BY <3>1 DEF TokenFits
    <3>4. \A d : VariableFits(d) => VariableFits(d)'
      BY <3>1 DEF VariableFits
    <3>5. PICK k : k = at.index
      OBVIOUS
    <3>6. n = 5 => TokenFits(config.tokens[k])'
      BY <2>2, <2>4, <3>1, <3>5 DEF TokenFits
    <3>7. n = 7 => VariableFits(config.rules[k])'
      <4>1. \A def : TranslateTypeSpec(def)' = TranslateTypeSpec(def)
        BY DEF TranslateTypeSpec
      <4> QED
        BY <2>2, <2>4, <3>1, <3>5 DEF VariableFits
    <3>8. \A i \in Done(5, config.tokens)' : TokenFits(config.tokens[i])'
      BY <2>2, <2>3, <3>3, <3>5, <3>6 DEF LookupsAreLoaded, SymbolsAreLoaded
    <3>9. \A i \in Done(7, config.rules)' : VariableFits(config.rules[i])'
      BY <2>2, <2>3, <3>4, <3>5, <3>7 DEF LookupsAreLoaded, SymbolsAreLoaded
    <3> QED
      BY <2>2, <3>2, <3>8, <3>9 DEF SymbolsAreLoaded
  <2> QED
    BY <2>7, <2>8, <2>9 DEF LookupsAreLoaded
<1> QED
  BY <1>1, <1>2

-----------------------------------------------------------------------------
(* What a typing says                                                      *)

Distinct(defs) == \A i, j \in DOMAIN defs : defs[i].name = defs[j].name => i = j
Apart(defs, others) == \A i \in DOMAIN defs, j \in DOMAIN others : defs[i].name # others[j].name
Without(defs, name) == \A i \in DOMAIN defs : defs[i].name # name

\* Names of types are there once, and so are names of symbols.
NamesAreDistinct(c) ==
    /\ Distinct(c.enums) /\ Distinct(c.bases) /\ Distinct(c.nodes)
    /\ Apart(c.enums, c.bases) /\ Apart(c.enums, c.nodes) /\ Apart(c.bases, c.nodes)
    /\ Without(c.enums, "token") /\ Without(c.bases, "token") /\ Without(c.nodes, "token")
    /\ Distinct(c.tokens) /\ Distinct(c.rules) /\ Apart(c.tokens, c.rules)

\* The halves of a sequence without repetitions have none and share nothing.
LEMMA HalvesDiffer ==
    ASSUME NEW S, NEW s \in Seq(S), NEW t \in Seq(S), IsInjective(s \o t)
    PROVE  /\ IsInjective(s) /\ IsInjective(t)
           /\ \A i \in DOMAIN s, j \in DOMAIN t : s[i] # t[j]
<1>1. PICK m, n : m = Len(s) /\ n = Len(t)
  OBVIOUS
<1>2. m \in Nat /\ n \in Nat /\ DOMAIN s = 1 .. m /\ DOMAIN t = 1 .. n
  BY <1>1
<1>3. PICK st : st = s \o t
  OBVIOUS
<1>4. /\ DOMAIN st = 1 .. (m + n)
      /\ \A i \in 1 .. m : st[i] = s[i] /\ \A j \in 1 .. n : st[m + j] = t[j]
  BY <1>1, <1>2, <1>3
<1>5. \A a, b \in 1 .. (m + n) : st[a] = st[b] => a = b
  BY <1>3, <1>4 DEF IsInjective
<1>6. IsInjective(s)
  <2>1. \A i \in 1 .. m : i \in 1 .. (m + n)
    BY <1>2
  <2> QED
    BY <1>2, <1>4, <1>5, <2>1 DEF IsInjective
<1>7. IsInjective(t)
  <2>1. \A i \in 1 .. n : m + i \in 1 .. (m + n)
    BY <1>2
  <2>2. \A i, j \in 1 .. n : m + i = m + j => i = j
    BY <1>2
  <2> QED
    BY <1>2, <1>4, <1>5, <2>1, <2>2 DEF IsInjective
<1>8. ASSUME NEW i \in DOMAIN s, NEW j \in DOMAIN t
      PROVE  s[i] # t[j]
  <2>1. i \in 1 .. (m + n) /\ m + j \in 1 .. (m + n) /\ i # m + j
    BY <1>2
  <2> QED
    BY <1>2, <1>4, <1>5, <2>1
<1> QED
  BY <1>6, <1>7, <1>8

\* The names of a sequence of definitions.
NamesOf(defs) == [i \in DOMAIN defs |-> defs[i].name]

\* The names are a sequence, and tell apart what the definitions do.
LEMMA NamesAreRows ==
    ASSUME NEW S, NEW defs \in Seq(S), NEW all, {defs[i].name : i \in DOMAIN defs} \subseteq all
    PROVE  /\ NamesOf(defs) \in Seq(all) /\ DOMAIN NamesOf(defs) = DOMAIN defs
           /\ \A i \in DOMAIN defs : NamesOf(defs)[i] = defs[i].name
           /\ IsInjective(NamesOf(defs)) => Distinct(defs)
<1>1. PICK n \in Nat : DOMAIN defs = 1 .. n
  OBVIOUS
<1>2. PICK names : names = NamesOf(defs)
  OBVIOUS
<1>3. names = [i \in 1 .. n |-> names[i]] /\ \A i \in 1 .. n : names[i] = defs[i].name
  BY <1>1, <1>2 DEF NamesOf
<1>4. \A i \in 1 .. n : names[i] \in all
  BY <1>1, <1>3
<1>5. names \in Seq(all)
  BY <1>3, <1>4
<1>6. DOMAIN names = 1 .. n
  BY <1>3
<1>7. IsInjective(names) => Distinct(defs)
  BY <1>1, <1>3, <1>6 DEF IsInjective, Distinct
<1> QED
  BY <1>1, <1>2, <1>3, <1>5, <1>6, <1>7

\* A typing makes names distinct.
LEMMA TypedNames ==
    ASSUME PhasesAreInOrder, WellTyped(config)
    PROVE  NamesAreDistinct(config)
<1> DEFINE All(defs) == {defs[i].name : i \in DOMAIN defs}
<1>1. PICK enums, bases, nodes, tokens, rules :
        /\ enums = config.enums /\ bases = config.bases /\ nodes = config.nodes
        /\ tokens = config.tokens /\ rules = config.rules
  OBVIOUS
<1>2. /\ enums \in Seq(Range(enums)) /\ bases \in Seq(Range(bases)) /\ nodes \in Seq(Range(nodes))
      /\ tokens \in Seq(Range(tokens)) /\ rules \in Seq(Range(rules))
  BY <1>1, ConfigShape, NamesShape
<1>3. PICK all : all = {"token"} \cup All(enums) \cup All(bases) \cup All(nodes) \cup All(tokens) \cup All(rules)
  OBVIOUS
<1>4. /\ All(enums) \subseteq all /\ All(bases) \subseteq all /\ All(nodes) \subseteq all
      /\ All(tokens) \subseteq all /\ All(rules) \subseteq all
  BY <1>3
<1>5. PICK e, b, n, t, r : e = NamesOf(enums) /\ b = NamesOf(bases) /\ n = NamesOf(nodes) /\ t = NamesOf(tokens) /\ r = NamesOf(rules)
  OBVIOUS
<1>6. IsInjective(<<"token">> \o e \o b \o n) /\ IsInjective(t \o r)
  BY <1>1, <1>5 DEF WellTyped, NamesOf
<1>7. /\ e \in Seq(all) /\ DOMAIN e = DOMAIN enums /\ (\A i \in DOMAIN enums : e[i] = enums[i].name)
      /\ IsInjective(e) => Distinct(enums)
  BY <1>2, <1>4, <1>5, NamesAreRows
<1>8. /\ b \in Seq(all) /\ DOMAIN b = DOMAIN bases /\ (\A i \in DOMAIN bases : b[i] = bases[i].name)
      /\ IsInjective(b) => Distinct(bases)
  BY <1>2, <1>4, <1>5, NamesAreRows
<1>9. /\ n \in Seq(all) /\ DOMAIN n = DOMAIN nodes /\ (\A i \in DOMAIN nodes : n[i] = nodes[i].name)
      /\ IsInjective(n) => Distinct(nodes)
  BY <1>2, <1>4, <1>5, NamesAreRows
<1>10. /\ t \in Seq(all) /\ DOMAIN t = DOMAIN tokens /\ (\A i \in DOMAIN tokens : t[i] = tokens[i].name)
       /\ IsInjective(t) => Distinct(tokens)
  BY <1>2, <1>4, <1>5, NamesAreRows
<1>11. /\ r \in Seq(all) /\ DOMAIN r = DOMAIN rules /\ (\A i \in DOMAIN rules : r[i] = rules[i].name)
       /\ IsInjective(r) => Distinct(rules)
  BY <1>2, <1>4, <1>5, NamesAreRows
<1>12. PICK k, ke, keb : k = <<"token">> /\ ke = k \o e /\ keb = ke \o b
  OBVIOUS
<1>13. k \in Seq(all) /\ DOMAIN k = {1} /\ k[1] = "token"
  BY <1>3, <1>12
<1>14. ke \in Seq(all) /\ keb \in Seq(all)
  BY <1>7, <1>8, <1>12, <1>13
<1>15. IsInjective(keb) /\ IsInjective(n) /\ \A i \in DOMAIN keb, j \in DOMAIN n : keb[i] # n[j]
  <2>1. IsInjective(keb \o n)
    BY <1>6, <1>12
  <2> QED
    BY <1>9, <1>14, <2>1, HalvesDiffer
<1>16. IsInjective(ke) /\ IsInjective(b) /\ \A i \in DOMAIN ke, j \in DOMAIN b : ke[i] # b[j]
  <2>1. IsInjective(ke \o b)
    BY <1>12, <1>15
  <2> QED
    BY <1>8, <1>14, <2>1, HalvesDiffer
<1>17. IsInjective(e) /\ \A i \in DOMAIN k, j \in DOMAIN e : k[i] # e[j]
  <2>1. IsInjective(k \o e)
    BY <1>12, <1>16
  <2> QED
    BY <1>7, <1>13, <2>1, HalvesDiffer
<1>18. /\ \A i \in DOMAIN k : \E j \in DOMAIN ke : ke[j] = k[i]
       /\ \A i \in DOMAIN e : \E j \in DOMAIN ke : ke[j] = e[i]
  <2>1. DOMAIN ke = 1 .. (1 + Len(e)) /\ ke[1] = k[1] /\ \A i \in DOMAIN e : ke[1 + i] = e[i]
    BY <1>7, <1>12, <1>13
  <2>2. 1 \in DOMAIN ke /\ \A i \in DOMAIN e : 1 + i \in DOMAIN ke
    BY <1>7, <2>1
  <2> QED
    BY <1>13, <2>1, <2>2
<1>19. /\ \A i \in DOMAIN ke : \E j \in DOMAIN keb : keb[j] = ke[i]
       /\ \A i \in DOMAIN b : \E j \in DOMAIN keb : keb[j] = b[i]
  <2>1. /\ DOMAIN keb = 1 .. (Len(ke) + Len(b)) /\ \A i \in DOMAIN ke : keb[i] = ke[i]
        /\ \A i \in DOMAIN b : keb[Len(ke) + i] = b[i]
    BY <1>8, <1>12, <1>14
  <2>2. (\A i \in DOMAIN ke : i \in DOMAIN keb) /\ \A i \in DOMAIN b : Len(ke) + i \in DOMAIN keb
    BY <1>8, <1>14, <2>1
  <2> QED
    BY <2>1, <2>2
<1>20. IsInjective(t) /\ IsInjective(r) /\ \A i \in DOMAIN t, j \in DOMAIN r : t[i] # r[j]
  BY <1>6, <1>10, <1>11, HalvesDiffer
<1>21. /\ \A i \in DOMAIN e, j \in DOMAIN b : e[i] # b[j]
       /\ \A j \in DOMAIN b : "token" # b[j]
  BY <1>13, <1>16, <1>18
<1>22. /\ \A i \in DOMAIN e, j \in DOMAIN n : e[i] # n[j]
       /\ \A i \in DOMAIN b, j \in DOMAIN n : b[i] # n[j]
       /\ \A j \in DOMAIN n : "token" # n[j]
  BY <1>13, <1>15, <1>18, <1>19
<1>23. \A j \in DOMAIN e : "token" # e[j]
  BY <1>13, <1>17
<1>24. Distinct(enums) /\ Distinct(bases) /\ Distinct(nodes) /\ Distinct(tokens) /\ Distinct(rules)
  BY <1>7, <1>8, <1>9, <1>10, <1>11, <1>15, <1>16, <1>17, <1>20
<1>25. /\ Apart(enums, bases) /\ Apart(enums, nodes) /\ Apart(bases, nodes)
       /\ Without(enums, "token") /\ Without(bases, "token") /\ Without(nodes, "token") /\ Apart(tokens, rules)
  BY <1>7, <1>8, <1>9, <1>10, <1>11, <1>20, <1>21, <1>22, <1>23 DEF Apart, Without
<1> QED
  BY <1>1, <1>24, <1>25 DEF NamesAreDistinct

\* From the phase that loads members on the lookup has the types of the configuration.
LEMMA TypesAgree ==
    ASSUME PhasesAreInOrder, TypesAreRegistered, at.phase >= 4
    PROVE  /\ \A name : /\ TypeOfName(config, name) = "enum" <=> Is("enum", name)
                        /\ TypeOfName(config, name) = "base" <=> Is("base", name)
                        /\ TypeOfName(config, name) = "class" <=> Is("class", name)
                        /\ TypeOfName(config, name) = "token" <=> Is("token", name)
                        /\ TypeOfName(config, name) = "none" <=> name \notin DOMAIN types
           /\ Empty \notin DOMAIN types /\ OwnType \notin DOMAIN types
<1>1. at.phase \in 1 .. 8
  BY DEF PhasesAreInOrder
<1>2. /\ Done(1, config.enums) = DOMAIN config.enums /\ Done(2, config.bases) = DOMAIN config.bases
      /\ Done(3, config.nodes) = DOMAIN config.nodes
  BY <1>1 DEF Done, DoneAt
<1>3. PICK E, B, C : E = Names(1, config.enums) /\ B = Names(2, config.bases) /\ C = Names(3, config.nodes)
  OBVIOUS
<1>4. /\ E = {d.name : d \in Range(config.enums)}
      /\ B = {d.name : d \in Range(config.bases)}
      /\ C = {d.name : d \in Range(config.nodes)}
  BY <1>2, <1>3 DEF Names, Range
<1>5. /\ DOMAIN types = {"token"} \cup E \cup B \cup C
      /\ Is("token", "token") /\ (\A t \in E : Is("enum", t)) /\ (\A t \in B : Is("base", t)) /\ \A t \in C : Is("class", t)
  BY <1>3 DEF TypesAreRegistered, TypesAreNamed, CategoriesAreRight
<1>6. \A name : TypeOfName(config, name) =
        CASE name \in E -> "enum" [] name \in B -> "base" [] name \in C -> "class" [] name = "token" -> "token" [] OTHER -> "none"
  BY <1>4 DEF TypeOfName
<1>7. ASSUME NEW name
      PROVE  /\ TypeOfName(config, name) = "enum" <=> Is("enum", name)
             /\ TypeOfName(config, name) = "base" <=> Is("base", name)
             /\ TypeOfName(config, name) = "class" <=> Is("class", name)
             /\ TypeOfName(config, name) = "token" <=> Is("token", name)
             /\ TypeOfName(config, name) = "none" <=> name \notin DOMAIN types
  BY <1>5, <1>6 DEF Is
<1>8. \A k \in E \cup B \cup C : k \notin {Empty, OwnType}
  BY <1>2, <1>3, NamesShape DEF Names
<1>9. "token" \notin {Empty, OwnType}
  BY DEF Empty, OwnType
<1> QED
  BY <1>5, <1>7, <1>8, <1>9

\* The symbols of a configuration: its tokens and its rules.
SymbolNames(c) == {c.tokens[k].name : k \in DOMAIN c.tokens} \cup {c.rules[k].name : k \in DOMAIN c.rules}

\* What WellTyped says of the parts of a configuration.
LEMMA TypingSays ==
    ASSUME PhasesAreInOrder, WellTyped(config)
    PROVE  /\ \A k \in DOMAIN config.tokens : config.tokens[k].regex
           /\ \A k \in DOMAIN config.ignored_tokens : config.ignored_tokens[k].regex
           /\ \A k \in DOMAIN config.nodes :
                /\ config.nodes[k].parent # Empty => TypeOfName(config, config.nodes[k].parent) = "base"
                /\ IsInjective([m \in DOMAIN config.nodes[k].members |-> config.nodes[k].members[m].name])
                /\ \A m \in Range(config.nodes[k].members) : TypeOfName(config, m.type.name) # "none"
           /\ Len(config.rules) \in DOMAIN config.rules /\ config.rules[Len(config.rules)].type.qual = Empty
           /\ \A r \in Range(config.rules) :
                /\ TypeOfName(config, r.type.name) \notin {"none", "token"}
                /\ \A item \in Range(r.items) :
                    /\ \A s \in Range(item.rhs) : s.symbol \in SymbolNames(config)
                    /\ ReturnsRightly(config, r.type, item)
                    /\ AssignsRightly(config, r.type, item)
<1>1. PICK tokens, ignored, rules : tokens = config.tokens /\ ignored = config.ignored_tokens /\ rules = config.rules
  OBVIOUS
<1>2. tokens \in Seq(Range(tokens)) /\ ignored \in Seq(Range(ignored)) /\ rules \in Seq(Range(rules))
  BY <1>1, ConfigShape, NamesShape
<1>3. \A t \in Range(tokens \o ignored) : t.regex
  BY <1>1 DEF WellTyped
<1>4. PICK both : both = tokens \o ignored
  OBVIOUS
<1>5. PICK m, n : m = Len(tokens) /\ n = Len(ignored)
  OBVIOUS
<1>6. m \in Nat /\ n \in Nat /\ DOMAIN tokens = 1 .. m /\ DOMAIN ignored = 1 .. n
  BY <1>2, <1>5
<1>7. PICK all : all = Range(tokens) \cup Range(ignored)
  OBVIOUS
<1>8. tokens \in Seq(all) /\ ignored \in Seq(all)
  BY <1>2, <1>7
<1>9. /\ DOMAIN both = 1 .. (m + n)
      /\ (\A i \in 1 .. m : both[i] = tokens[i]) /\ \A i \in 1 .. n : both[m + i] = ignored[i]
  BY <1>4, <1>5, <1>8
<1>10. (\A i \in 1 .. m : i \in 1 .. (m + n)) /\ \A i \in 1 .. n : m + i \in 1 .. (m + n)
  BY <1>6
<1>11. \A i \in 1 .. (m + n) : both[i].regex
  BY <1>3, <1>4, <1>9 DEF Range
<1>12. (\A k \in DOMAIN tokens : tokens[k].regex) /\ \A k \in DOMAIN ignored : ignored[k].regex
  BY <1>6, <1>9, <1>10, <1>11
<1>13. \A k \in DOMAIN config.nodes :
        /\ config.nodes[k].parent # Empty => TypeOfName(config, config.nodes[k].parent) = "base"
        /\ IsInjective([x \in DOMAIN config.nodes[k].members |-> config.nodes[k].members[x].name])
        /\ \A x \in Range(config.nodes[k].members) : TypeOfName(config, x.type.name) # "none"
  <2>1. \A k \in DOMAIN config.nodes : config.nodes[k] \in Range(config.nodes)
    BY DEF Range
  <2> QED
    BY <2>1 DEF WellTyped
<1>14. Len(rules) \in DOMAIN rules /\ rules[Len(rules)].type.qual = Empty
  <2>1. rules # <<>> /\ rules[Len(rules)].type.qual = Empty
    BY <1>1 DEF WellTyped
  <2> QED
    BY <1>2, <2>1
<1>15. ASSUME NEW r \in Range(rules)
       PROVE  /\ TypeOfName(config, r.type.name) \notin {"none", "token"}
              /\ \A item \in Range(r.items) :
                    /\ \A s \in Range(item.rhs) : s.symbol \in SymbolNames(config)
                    /\ ReturnsRightly(config, r.type, item)
                    /\ AssignsRightly(config, r.type, item)
  <2>1. PICK names : names = NamesOf(tokens) \o NamesOf(rules)
    OBVIOUS
  <2>2. /\ TypeOfName(config, r.type.name) \notin {"none", "token"}
        /\ \A item \in Range(r.items) :
            /\ \A s \in Range(item.rhs) : s.symbol \in Range(names)
            /\ ReturnsRightly(config, r.type, item)
            /\ AssignsRightly(config, r.type, item)
    BY <1>1, <2>1 DEF WellTyped, NamesOf
  <2>3. PICK every : every = SymbolNames(config)
    OBVIOUS
  <2>4. /\ {tokens[i].name : i \in DOMAIN tokens} \subseteq every
        /\ {rules[i].name : i \in DOMAIN rules} \subseteq every
    BY <1>1, <2>3 DEF SymbolNames
  <2>5. NamesOf(tokens) \in Seq(every) /\ NamesOf(rules) \in Seq(every)
    BY <1>2, <2>4, NamesAreRows
  <2>6. names \in Seq(every)
    BY <2>1, <2>5
  <2>7. Range(names) \subseteq every
    BY <2>6 DEF Range
  <2> QED
    BY <2>2, <2>3, <2>7
<1> QED
  BY <1>1, <1>12, <1>13, <1>14, <1>15

\* When all symbols are loaded the lookup tells what they are of.
LEMMA SymbolsAgree ==
    ASSUME PhasesAreInOrder, LookupsAreLoaded, WellTyped(config), at.phase = 8
    PROVE  /\ DOMAIN symbols = SymbolNames(config)
           /\ \A s \in DOMAIN symbols :
                /\ symbols[s].category = "token" =>
                    ~IsRule(config, s) /\ SymbolType(config, s) = One("token")
                /\ symbols[s].category # "token" =>
                    /\ symbols[s].category = "variable"
                    /\ symbols[s].type = TranslateTypeSpec(SymbolType(config, s))
                    /\ TypeOfName(config, SymbolType(config, s).name) \notin {"none", "token"}
           /\ \A r \in Range(config.rules) :
                /\ r.name \in DOMAIN symbols /\ symbols[r.name].type = TranslateTypeSpec(r.type)
                /\ SymbolType(config, r.name) = r.type
<1>1. Done(5, config.tokens) = DOMAIN config.tokens /\ Done(7, config.rules) = DOMAIN config.rules
  BY DEF Done, DoneAt
<1>2. /\ DOMAIN symbols = SymbolNames(config)
      /\ \A k \in DOMAIN config.tokens : TokenFits(config.tokens[k])
      /\ \A k \in DOMAIN config.rules : VariableFits(config.rules[k])
  BY <1>1 DEF LookupsAreLoaded, SymbolsAreNamed, SymbolsAreLoaded, Names, SymbolNames
<1>3. Distinct(config.rules) /\ Apart(config.tokens, config.rules)
  BY TypedNames DEF NamesAreDistinct
<1>4. ASSUME NEW k \in DOMAIN config.rules
      PROVE  /\ IsRule(config, config.rules[k].name)
             /\ SymbolType(config, config.rules[k].name) = config.rules[k].type
             /\ TypeOfName(config, config.rules[k].type.name) \notin {"none", "token"}
  <2>1. PICK r : r = config.rules[k]
    OBVIOUS
  <2>2. r \in Range(config.rules) /\ \A d \in Range(config.rules) : d.name = r.name => d = r
    BY <1>3, <2>1 DEF Distinct, Range
  <2>3. IsRule(config, r.name) /\ RuleOf(config, r.name) = r
    BY <2>2 DEF IsRule, RuleOf
  <2> QED
    BY <2>1, <2>2, <2>3, TypingSays DEF SymbolType
<1>5. ASSUME NEW k \in DOMAIN config.tokens
      PROVE  ~IsRule(config, config.tokens[k].name) /\ SymbolType(config, config.tokens[k].name) = One("token")
  BY <1>3 DEF Apart, IsRule, Range, SymbolType
<1>6. ASSUME NEW s \in DOMAIN symbols
      PROVE  /\ symbols[s].category = "token" =>
                    ~IsRule(config, s) /\ SymbolType(config, s) = One("token")
             /\ symbols[s].category # "token" =>
                    /\ symbols[s].category = "variable"
                    /\ symbols[s].type = TranslateTypeSpec(SymbolType(config, s))
                    /\ TypeOfName(config, SymbolType(config, s).name) \notin {"none", "token"}
  <2>1. CASE \E k \in DOMAIN config.tokens : s = config.tokens[k].name
    BY <1>2, <1>5, <2>1 DEF TokenFits
  <2>2. CASE \E k \in DOMAIN config.rules : s = config.rules[k].name
    <3>1. PICK k \in DOMAIN config.rules : s = config.rules[k].name
      BY <2>2
    <3>2. symbols[s].category = "variable" /\ symbols[s].type = TranslateTypeSpec(config.rules[k].type)
      BY <1>2, <3>1 DEF VariableFits
    <3> QED
      BY <1>4, <3>1, <3>2
  <2> QED
    BY <1>2, <2>1, <2>2 DEF SymbolNames
<1>7. \A k \in DOMAIN config.rules :
        /\ config.rules[k].name \in DOMAIN symbols
        /\ symbols[config.rules[k].name].type = TranslateTypeSpec(config.rules[k].type)
        /\ SymbolType(config, config.rules[k].name) = config.rules[k].type
  BY <1>2, <1>4 DEF VariableFits
<1> QED
  BY <1>2, <1>6, <1>7 DEF Range

\* The definitions of types and symbols of a configuration with a typing are all taken.
LEMMA DefinitionsPass ==
    ASSUME PhasesAreInOrder, TypesAreRegistered, LookupsAreLoaded, WellTyped(config), Build, ~LoadProduction
    PROVE  outcome' \in {"building", "built"}
<1>1. /\ outcome = "building" /\ at.phase \in 1 .. 8 /\ at.index \in Nat \ {0}
  BY BuildShape DEF PhasesAreInOrder
<1>2. NamesAreDistinct(config)
  BY TypedNames
<1>3. /\ Def = Definitions[at.index]
      /\ \A name : /\ In(name) => Phase = name /\ at.index <= Len(Definitions)
  BY DEF Def, In
<1>4. \A n, defs : DoneAt(at, n, defs) = {k \in DOMAIN defs : at.phase > n \/ (at.phase = n /\ k < at.index)}
  BY DEF DoneAt
<1>5. DOMAIN types = {"token"} \cup Names(1, config.enums) \cup Names(2, config.bases) \cup Names(3, config.nodes)
  BY DEF TypesAreRegistered, TypesAreNamed
<1>6. CASE LoadEnum
  <2>1. at.phase = 1 /\ Def = config.enums[at.index] /\ at.index \in DOMAIN config.enums
    BY <1>1, <1>3, <1>6, PhaseNumber, DefinitionsAre, DefinitionsCount DEF LoadEnum
  <2>2. Def.name \notin Names(1, config.enums)
    BY <1>1, <1>2, <1>4, <2>1 DEF Names, Done, NamesAreDistinct, Distinct
  <2>3. Names(2, config.bases) = {} /\ Names(3, config.nodes) = {}
    BY <1>4, <2>1 DEF Names, Done
  <2>4. Def.name # "token"
    BY <1>2, <2>1 DEF NamesAreDistinct, Without
  <2> QED
    BY <1>1, <1>5, <1>6, <2>2, <2>3, <2>4 DEF LoadEnum, RegisterTypeInfo, Continue
<1>7. CASE LoadBase
  <2>1. at.phase = 2 /\ Def = config.bases[at.index] /\ at.index \in DOMAIN config.bases
    BY <1>1, <1>3, <1>7, PhaseNumber, DefinitionsAre, DefinitionsCount DEF LoadBase
  <2>2. Def.name \notin Names(2, config.bases)
    BY <1>1, <1>2, <1>4, <2>1 DEF Names, Done, NamesAreDistinct, Distinct
  <2>3. Def.name \notin Names(1, config.enums) /\ Names(3, config.nodes) = {}
    BY <1>2, <1>4, <2>1 DEF Names, Done, NamesAreDistinct, Apart
  <2>4. Def.name # "token"
    BY <1>2, <2>1 DEF NamesAreDistinct, Without
  <2> QED
    BY <1>1, <1>5, <1>7, <2>2, <2>3, <2>4 DEF LoadBase, RegisterTypeInfo, Continue
<1>8. CASE LoadNode
  <2>1. at.phase = 3 /\ Def = config.nodes[at.index] /\ at.index \in DOMAIN config.nodes
    BY <1>1, <1>3, <1>8, PhaseNumber, DefinitionsAre, DefinitionsCount DEF LoadNode
  <2>2. Def.name \notin Names(3, config.nodes)
    BY <1>1, <1>2, <1>4, <2>1 DEF Names, Done, NamesAreDistinct, Distinct
  <2>3. Def.name \notin Names(1, config.enums) /\ Def.name \notin Names(2, config.bases)
    BY <1>2, <1>4, <2>1 DEF Names, Done, NamesAreDistinct, Apart
  <2>4. Def.name # "token"
    BY <1>2, <2>1 DEF NamesAreDistinct, Without
  <2> QED
    BY <1>1, <1>5, <1>8, <2>2, <2>3, <2>4 DEF LoadNode, RegisterTypeInfo, Continue
<1>9. CASE LoadMembers
  <2>1. at.phase = 4 /\ Def = config.nodes[at.index] /\ at.index \in DOMAIN config.nodes
    BY <1>1, <1>3, <1>9, PhaseNumber, DefinitionsAre, DefinitionsCount DEF LoadMembers
  <2>2. /\ Def.parent # Empty => TypeOfName(config, Def.parent) = "base"
        /\ \A m \in Range(Def.members) : TypeOfName(config, m.type.name) # "none"
    BY <2>1, TypingSays
  <2>3. at.phase >= 4
    BY <2>1
  <2>4. /\ Def.parent # Empty => Is("base", Def.parent)
        /\ \A m \in Range(Def.members) : m.type.name \in DOMAIN types
    BY <2>2, <2>3, TypesAgree
  <2> QED
    BY <1>1, <1>9, <2>4 DEF LoadMembers, Continue
<1>10. CASE LoadToken
  <2>1. at.phase = 5 /\ Def = config.tokens[at.index] /\ at.index \in DOMAIN config.tokens
    BY <1>1, <1>3, <1>10, SymbolDefinitionsAre, DefinitionsCount DEF LoadToken
  <2>2. Def.name \notin Names(5, config.tokens)
    BY <1>1, <1>2, <1>4, <2>1 DEF Names, Done, NamesAreDistinct, Distinct
  <2>3. Names(7, config.rules) = {}
    BY <1>4, <2>1 DEF Names, Done
  <2>4. Def.regex
    BY <2>1, TypingSays
  <2> QED
    BY <1>1, <1>10, <2>2, <2>3, <2>4 DEF LoadToken, RegisterSymbolInfo, Continue, LookupsAreLoaded, SymbolsAreNamed
<1>11. CASE LoadIgnoredToken
  <2>1. Def = config.ignored_tokens[at.index] /\ at.index \in DOMAIN config.ignored_tokens
    BY <1>1, <1>3, <1>11, SymbolDefinitionsAre, DefinitionsCount DEF LoadIgnoredToken
  <2>2. Def.regex
    BY <2>1, TypingSays
  <2> QED
    BY <1>1, <1>11, <2>2 DEF LoadIgnoredToken, Continue
<1>12. CASE LoadVariable
  <2>1. at.phase = 7 /\ Def = config.rules[at.index] /\ at.index \in DOMAIN config.rules
    BY <1>1, <1>3, <1>12, SymbolDefinitionsAre, DefinitionsCount DEF LoadVariable
  <2>2. Def.name \notin Names(7, config.rules)
    BY <1>1, <1>2, <1>4, <2>1 DEF Names, Done, NamesAreDistinct, Distinct
  <2>3. Def.name \notin Names(5, config.tokens)
    BY <1>2, <1>4, <2>1 DEF Names, Done, NamesAreDistinct, Apart
  <2>4. Def.type.name \in DOMAIN types
    <3>1. TypeOfName(config, Def.type.name) # "none" /\ at.phase >= 4
      BY <2>1, TypingSays DEF Range
    <3> QED
      BY <3>1, TypesAgree
  <2> QED
    BY <1>1, <1>12, <2>2, <2>3, <2>4 DEF LoadVariable, RegisterSymbolInfo, Continue, LookupsAreLoaded, SymbolsAreNamed
<1>13. CASE EndPhase
  BY <1>1, <1>13 DEF EndPhase
<1> QED
  BY <1>6, <1>7, <1>8, <1>9, <1>10, <1>11, <1>12, <1>13 DEF Build

-----------------------------------------------------------------------------
(* The handles of a configuration with a typing                            *)

\* The lookups are complete and the configuration has a typing.
Settled ==
    PhasesAreInOrder /\ TypesAreRegistered /\ ClassesAreLoaded /\ LookupsAreLoaded /\ WellTyped(config) /\ at.phase = 8

SpecOfSymbol(s) == TranslateTypeSpec(SymbolType(config, s))

\* What is of type from can be extracted as type to.
Goes(from, to) ==
    \/ from = to
    \/ /\ from.qual = "none" /\ to.qual # "vec"
       /\ \/ from.type = to.type
          \/ Is("class", from.type) /\ Is("base", to.type) /\ types[from.type].base = to.type

\* The type of what the generating half of a handle gives.
MadeSpec(gen, rhs) ==
    CASE gen.kind = "selector" -> SpecOfSymbol(rhs[gen.arg])
      [] gen.kind = "vector" -> [qual |-> "vec", type |-> gen.type]
      [] gen.kind = "optional" -> [qual |-> "opt", type |-> gen.type]
      [] OTHER -> [qual |-> "none", type |-> gen.type]

\* What TranslateTypeSpec makes of a type.
LEMMA SpecIs ==
    ASSUME NEW type, NEW spec, spec = TranslateTypeSpec(type)
    PROVE  /\ spec.type = type.name /\ spec.qual \in {"vec", "opt", "none"}
           /\ spec = [qual |-> spec.qual, type |-> spec.type]
           /\ spec.qual = "vec" <=> type.qual = "vec"
           /\ spec.qual = "opt" <=> type.qual = "opt"
           /\ type.qual = Empty => spec.qual = "none"
BY DEF TranslateTypeSpec, Empty

\* The lookup tells of an enum its values, and of a class its base and members.
LEMMA DefinitionsAgree ==
    ASSUME Settled
    PROVE  /\ \A name : Is("enum", name) => EnumOf(config, name).choices = types[name].values
           /\ \A name : Is("class", name) =>
                /\ NodeOf(config, name).parent = types[name].base
                /\ types[name].members = Loaded(NodeOf(config, name).members)
                /\ NodeOf(config, name) \in Range(config.nodes)
<1>1. /\ Done(1, config.enums) = DOMAIN config.enums /\ Done(2, config.bases) = DOMAIN config.bases
      /\ Done(3, config.nodes) = DOMAIN config.nodes /\ Done(4, config.nodes) = DOMAIN config.nodes
  BY DEF Done, DoneAt, Settled
<1>2. /\ DOMAIN types = {"token"} \cup Names(1, config.enums) \cup Names(2, config.bases) \cup Names(3, config.nodes)
      /\ CategoriesAreRight
  BY DEF Settled, TypesAreRegistered, TypesAreNamed
<1>3. Distinct(config.enums) /\ Distinct(config.nodes)
  BY TypedNames DEF Settled, NamesAreDistinct
<1>4. ASSUME NEW name, Is("enum", name)
      PROVE  EnumOf(config, name).choices = types[name].values
  <2>1. name \in Names(1, config.enums)
    BY <1>2, <1>4 DEF CategoriesAreRight, Is
  <2>2. PICK k \in DOMAIN config.enums : config.enums[k].name = name
    BY <1>1, <2>1 DEF Names
  <2>3. EnumOf(config, name) = config.enums[k]
    BY <1>3, <2>2 DEF Distinct, EnumOf, Range
  <2> QED
    BY <1>1, <2>2, <2>3 DEF Settled, LookupsAreLoaded, EnumsAreLoaded
<1>5. ASSUME NEW name, Is("class", name)
      PROVE  /\ NodeOf(config, name).parent = types[name].base
             /\ types[name].members = Loaded(NodeOf(config, name).members)
             /\ NodeOf(config, name) \in Range(config.nodes)
  <2>1. name \in Names(3, config.nodes)
    BY <1>2, <1>5 DEF CategoriesAreRight, Is
  <2>2. PICK k \in DOMAIN config.nodes : config.nodes[k].name = name
    BY <1>1, <2>1 DEF Names
  <2>3. NodeOf(config, name) = config.nodes[k] /\ config.nodes[k] \in Range(config.nodes)
    BY <1>3, <2>2 DEF Distinct, NodeOf, Range
  <2> QED
    BY <1>1, <2>2, <2>3 DEF Settled, LookupsAreLoaded, MembersAreLoaded, ClassesAreLoaded
<1> QED
  BY <1>4, <1>5

\* What the typing lets go where a type is asked for goes there.
LEMMA AssignableGoes ==
    ASSUME Settled, NEW from, NEW to, Assignable(config, from, to), TypeOfName(config, to.name) # "none"
    PROVE  Goes(TranslateTypeSpec(from), TranslateTypeSpec(to))
<1>1. CASE from = to
  BY <1>1 DEF Goes
<1>2. CASE from.qual = Empty /\ to.qual \in {Empty, "opt"} /\ Subtype(config, from.name, to.name)
  <2>1. PICK f, t : f = TranslateTypeSpec(from) /\ t = TranslateTypeSpec(to)
    OBVIOUS
  <2>2. f.qual = "none" /\ f.type = from.name
    BY <1>2, <2>1, SpecIs
  <2>3. t.qual # "vec" /\ t.type = to.name
    <3>1. to.qual # "vec"
      BY <1>2 DEF Empty
    <3> QED
      BY <2>1, <3>1, SpecIs
  <2>4. CASE from.name # to.name
    <3>1. TypeOfName(config, from.name) = "class" /\ NodeOf(config, from.name).parent = to.name
      BY <1>2, <2>4 DEF Subtype
    <3>2. PhasesAreInOrder /\ TypesAreRegistered /\ at.phase >= 4
      BY DEF Settled
    <3>3. Is("class", from.name) /\ to.name \in DOMAIN types /\ to.name # Empty
      BY <3>1, <3>2, TypesAgree
    <3>4. types[from.name].base = to.name
      BY <3>1, <3>3, DefinitionsAgree
    <3>5. Is("base", to.name)
      BY <3>2, <3>3, <3>4 DEF TypesAreRegistered, BasesAreBases, BaseFits, Categorized, Is
    <3> QED
      BY <2>1, <2>2, <2>3, <3>3, <3>4, <3>5 DEF Goes
  <2> QED
    BY <2>1, <2>2, <2>3, <2>4 DEF Goes
<1> QED
  BY <1>1, <1>2 DEF Assignable

\* What a handle gives, and of which class it is when it assigns members.
Gives(gen, spec, rhs, classes) ==
    /\ ~IsError(gen) /\ gen.type \in DOMAIN types /\ ~Is("token", gen.type)
    /\ gen.kind = "enum" => Is("enum", gen.type)
    /\ gen.kind = "object" => Is("class", gen.type)
    /\ MadeSpec(gen, rhs).type = gen.type
    /\ Goes(MadeSpec(gen, rhs), spec)
    /\ \A class \in classes : Is("class", class) => MadeSpec(gen, rhs) = [qual |-> "none", type |-> class]

\* A hint gives what its rule is of.
LEMMA HintedIsTyped ==
    ASSUME Settled, NEW type, TypeOfName(config, type.name) \notin {"none", "token"},
           NEW item, item.hint # NoHint, ReturnsRightly(config, type, item),
           NEW spec, spec = TranslateTypeSpec(type), NEW rhs
    PROVE  Gives(HintedGen(spec, item.hint), spec, rhs, Returned(config, type, item))
<1> DEFINE h == item.hint
<1>0. PICK gen, classes : gen = HintedGen(spec, item.hint) /\ classes = Returned(config, type, item)
  OBVIOUS
<1>1. PhasesAreInOrder /\ TypesAreRegistered /\ at.phase >= 4
  BY DEF Settled
<1>2. /\ spec.type = type.name /\ spec = [qual |-> spec.qual, type |-> spec.type] /\ spec.qual \in {"vec", "opt", "none"}
      /\ spec.qual = "vec" <=> type.qual = "vec"
      /\ spec.qual = "opt" <=> type.qual = "opt"
  BY SpecIs
<1>3. /\ spec.type \in DOMAIN types /\ ~Is("token", spec.type) /\ ~Is("class", OwnType)
      /\ TypeOfName(config, type.name) = "enum" <=> Is("enum", spec.type)
      /\ ~Is("enum", spec.type) => Is("class", spec.type) \/ Is("base", spec.type)
      /\ ~(Is("enum", spec.type) /\ Is("class", spec.type))
  <2>1. /\ spec.type \in DOMAIN types /\ ~Is("token", spec.type) /\ ~Is("class", OwnType)
        /\ TypeOfName(config, type.name) = "enum" <=> Is("enum", spec.type)
    BY <1>1, <1>2, TypesAgree DEF Is
  <2>2. TypeOfName(config, type.name) \in {"enum", "base", "class", "token", "none"}
    BY DEF TypeOfName
  <2>3. ~Is("enum", spec.type) => Is("class", spec.type) \/ Is("base", spec.type)
    BY <1>1, <1>2, <2>1, <2>2, TypesAgree
  <2> QED
    BY <2>1, <2>3 DEF Is
<1>4. classes = IF h.name = OwnType /\ type.qual = Empty THEN {type.name}
                ELSE IF type.qual # "vec" /\ h.qual = Empty /\ TypeOfName(config, type.name) # "enum" THEN {h.name} ELSE {}
  BY <1>0 DEF Returned
<1>5. \A kind, arg, t : /\ Gen(kind, arg, t).kind = kind /\ Gen(kind, arg, t).type = t /\ ~IsError(Gen(kind, arg, t))
  BY DEF Gen, IsError
<1>6. \A a, b : a = b => Goes(a, b)
  BY DEF Goes
<1>7. CASE type.qual = "vec"
  <2>1. gen = Gen("vector", 0, spec.type)
    <3>1. h.name \in {OwnType, type.name}
      BY <1>7 DEF ReturnsRightly
    <3> QED
      BY <1>0, <1>2, <1>3, <1>7, <3>1 DEF HintedGen, IsOpt, IsEnum, IsVec
  <2>2. classes = {}
    BY <1>4, <1>7 DEF Empty
  <2>3. MadeSpec(gen, rhs) = spec
    BY <1>2, <1>5, <1>7, <2>1 DEF MadeSpec
  <2> QED
    BY <1>0, <1>3, <1>5, <1>6, <2>1, <2>2, <2>3 DEF Gives
<1>8. CASE type.qual = "opt" /\ (h.name = OwnType \/ h.qual = "opt")
  <2>1. gen = Gen("optional", 0, spec.type)
    BY <1>0, <1>2, <1>8 DEF HintedGen, IsOpt
  <2>2. classes \subseteq {OwnType}
    BY <1>4, <1>8 DEF Empty
  <2>3. MadeSpec(gen, rhs) = spec
    BY <1>2, <1>5, <1>8, <2>1 DEF MadeSpec
  <2> QED
    BY <1>0, <1>3, <1>5, <1>6, <2>1, <2>2, <2>3 DEF Gives
<1>9. CASE type.qual # "vec" /\ ~(type.qual = "opt" /\ (h.name = OwnType \/ h.qual = "opt")) /\ Is("enum", spec.type)
  <2>1. PICK arg : gen = Gen("enum", arg, spec.type)
    <3>1. Contains(EnumOf(config, type.name).choices, h.name)
      BY <1>3, <1>9 DEF ReturnsRightly
    <3>2. Contains(types[spec.type].values, h.name)
      BY <1>2, <1>9, <3>1, DefinitionsAgree
    <3> QED
      BY <1>0, <1>2, <1>9, <3>2 DEF HintedGen, IsOpt, IsEnum, IsVec
  <2>2. classes \subseteq {spec.type}
    BY <1>2, <1>3, <1>4, <1>9
  <2>3. MadeSpec(gen, rhs) = [qual |-> "none", type |-> spec.type]
    BY <1>5, <2>1 DEF MadeSpec
  <2>4. Goes(MadeSpec(gen, rhs), spec)
    BY <1>2, <1>9, <2>3 DEF Goes
  <2> QED
    BY <1>0, <1>3, <1>5, <1>9, <2>1, <2>2, <2>3, <2>4 DEF Gives
<1>10. CASE type.qual # "vec" /\ ~(type.qual = "opt" /\ (h.name = OwnType \/ h.qual = "opt")) /\ ~Is("enum", spec.type)
  <2>1. PICK class : class = IF h.name = OwnType THEN type.name ELSE h.name
    OBVIOUS
  <2>2. TypeOfName(config, class) = "class" /\ Subtype(config, class, type.name)
    BY <1>3, <1>10, <2>1 DEF ReturnsRightly
  <2>3. Is("class", class)
    BY <1>1, <2>2, TypesAgree
  <2>4. gen = Gen("object", 0, class)
    <3>1. class \in DOMAIN types
      BY <2>3 DEF Is
    <3>2. IsObj(spec) /\ ~IsVec(spec) /\ ~IsEnum(spec)
      BY <1>2, <1>3, <1>10 DEF IsObj, IsVec, IsEnum
    <3> QED
      BY <1>0, <1>2, <1>10, <2>1, <3>1, <3>2 DEF HintedGen, IsOpt
  <2>5. \A c \in classes : Is("class", c) => c = class
    BY <1>2, <1>3, <1>4, <2>1
  <2>6. MadeSpec(gen, rhs) = [qual |-> "none", type |-> class]
    BY <1>5, <2>4 DEF MadeSpec
  <2>7. Goes(MadeSpec(gen, rhs), spec)
    <3>1. CASE class = type.name
      BY <1>2, <1>10, <2>6, <3>1 DEF Goes
    <3>2. CASE class # type.name
      <4>1. NodeOf(config, class).parent = type.name
        BY <2>2, <3>2 DEF Subtype
      <4>2. types[class].base = spec.type
        BY <1>2, <2>3, <4>1, DefinitionsAgree
      <4>3. spec.type # Empty
        BY <1>1, <1>3, TypesAgree
      <4>4. Is("base", spec.type)
        BY <1>1, <2>3, <4>2, <4>3 DEF TypesAreRegistered, BasesAreBases, BaseFits, Categorized, Is
      <4> QED
        BY <1>2, <1>10, <2>3, <2>6, <4>2, <4>4 DEF Goes
    <3> QED
      BY <3>1, <3>2
  <2> QED
    BY <1>0, <1>5, <2>3, <2>4, <2>5, <2>6, <2>7 DEF Gives, Is
<1> QED
  BY <1>7, <1>8, <1>9, <1>10

\* A selector gives an item of a type that its rule may return.
LEMMA SelectorIsTyped ==
    ASSUME Settled, NEW type, TypeOfName(config, type.name) \notin {"none", "token"},
           NEW item, item.hint = NoHint, ReturnsRightly(config, type, item), item.rhs \in Seq(Range(item.rhs)),
           \A s \in Range(item.rhs) : s.symbol \in SymbolNames(config),
           NEW spec, spec = TranslateTypeSpec(type),
           NEW rhs, rhs = [i \in DOMAIN item.rhs |-> item.rhs[i].symbol]
    PROVE  Gives(SelectorGen(spec, item.rhs), spec, rhs, Returned(config, type, item))
<1> DEFINE selected == {x \in DOMAIN item.rhs : item.rhs[x].assign = "!"}
<1>0. PICK gen, classes : gen = SelectorGen(spec, item.rhs) /\ classes = Returned(config, type, item)
  OBVIOUS
<1>1. PhasesAreInOrder /\ TypesAreRegistered /\ LookupsAreLoaded /\ WellTyped(config) /\ at.phase = 8 /\ at.phase >= 4
  BY DEF Settled
<1>2. /\ Cardinality(selected) = 1
      /\ \A i \in selected : Assignable(config, SymbolType(config, item.rhs[i].symbol), type)
  BY DEF ReturnsRightly
<1>3. PICK i : selected = {i}
  <2>1. IsFiniteSet(DOMAIN item.rhs)
    <3>1. PICK n \in Nat : DOMAIN item.rhs = 1 .. n
      OBVIOUS
    <3>2. 1 \in Int /\ n \in Int
      OBVIOUS
    <3> QED
      BY <3>1, <3>2, FS_Interval
  <2>2. IsFiniteSet(selected)
    BY <2>1, FS_Subset
  <2> QED
    BY <1>2, <2>2, FS_Singleton
<1>4. PICK s, from : s = item.rhs[i].symbol /\ from = SymbolType(config, s)
  OBVIOUS
<1>5. i \in DOMAIN item.rhs /\ item.rhs[i] \in Range(item.rhs) /\ item.rhs[i].assign = "!"
  <2>1. i \in selected
    BY <1>3
  <2> QED
    BY <2>1 DEF Range
<1>6. Assignable(config, from, type) /\ s \in DOMAIN symbols
  <2>1. DOMAIN symbols = SymbolNames(config)
    BY <1>1, SymbolsAgree
  <2> QED
    BY <1>2, <1>3, <1>4, <1>5, <2>1
<1>7. symbols[s].category # "token"
  <2>1. SUFFICES ASSUME symbols[s].category = "token" PROVE FALSE
    OBVIOUS
  <2>2. from = One("token")
    BY <1>1, <1>4, <1>6, <2>1, SymbolsAgree
  <2>3. from.name = "token"
    BY <2>2 DEF One
  <2>4. Is("token", "token")
    BY <1>1 DEF TypesAreRegistered, CategoriesAreRight
  <2>5. TypeOfName(config, "token") = "token"
    BY <1>1, <2>4, TypesAgree
  <2>6. type.name # "token"
    BY <2>5
  <2> QED
    BY <1>6, <2>3, <2>5, <2>6 DEF Assignable, Subtype
<1>8. /\ symbols[s].category = "variable" /\ symbols[s].type = TranslateTypeSpec(from)
      /\ TypeOfName(config, from.name) \notin {"none", "token"}
  BY <1>1, <1>4, <1>6, <1>7, SymbolsAgree
<1>9. gen = Gen("selector", i, from.name)
  <2>1. symbols[s].type.type = from.name
    BY <1>8, SpecIs
  <2>2. selected # {} /\ ~(Cardinality(selected) > 1) /\ (CHOOSE x \in selected : TRUE) = i
    BY <1>2, <1>3
  <2> QED
    BY <1>0, <1>4, <1>8, <2>1, <2>2 DEF SelectorGen
<1>10. gen.kind = "selector" /\ gen.arg = i /\ gen.type = from.name /\ ~IsError(gen)
  BY <1>9 DEF Gen, IsError
<1>11. MadeSpec(gen, rhs) = TranslateTypeSpec(from)
  BY <1>4, <1>5, <1>10 DEF MadeSpec, SpecOfSymbol
<1>12. Goes(MadeSpec(gen, rhs), spec)
  BY <1>6, <1>11, AssignableGoes
<1>13. ASSUME NEW class \in classes
       PROVE  MadeSpec(gen, rhs) = [qual |-> "none", type |-> class]
  <2>1. PICK record : record = (CHOOSE x \in {y \in Range(item.rhs) : y.assign = "!"} : TRUE)
    OBVIOUS
  <2>2. record = item.rhs[i]
    <3>1. {y \in Range(item.rhs) : y.assign = "!"} = {item.rhs[i]}
      BY <1>3, <1>5 DEF Range
    <3> QED
      BY <2>1, <3>1
  <2>3. classes = IF from.qual = Empty THEN {from.name} ELSE {}
    BY <1>0, <1>4, <2>1, <2>2 DEF Returned
  <2>4. from.qual = Empty /\ class = from.name
    BY <1>13, <2>3
  <2> QED
    BY <1>11, <2>4, SpecIs
<1>14. gen.type \in DOMAIN types /\ ~Is("token", gen.type)
  BY <1>1, <1>8, <1>10, TypesAgree
<1>15. MadeSpec(gen, rhs).type = gen.type
  BY <1>10, <1>11, SpecIs
<1> QED
  BY <1>0, <1>10, <1>12, <1>13, <1>14, <1>15 DEF Gives

\* A member of a class is found under its name, with its type.
LEMMA MemberIsFound ==
    ASSUME Settled, NEW class, Is("class", class), NEW m \in Range(NodeOf(config, class).members),
           NEW k, k = MemberIndex(types[class].members, m.name)
    PROVE  k # 0 /\ types[class].members[k].type = TranslateTypeSpec(m.type) /\ TypeOfName(config, m.type.name) # "none"
<1> DEFINE members == types[class].members
           I == {i \in 1 .. Len(members) : members[i].name = m.name}
<1>1. PICK ms : ms = NodeOf(config, class).members
  OBVIOUS
<1>2. members = Loaded(ms) /\ NodeOf(config, class) \in Range(config.nodes)
  BY <1>1, DefinitionsAgree
<1>3. IsInjective([i \in DOMAIN ms |-> ms[i].name]) /\ TypeOfName(config, m.type.name) # "none" /\ ms \in Seq(Range(ms))
  <2>1. PICK d \in DOMAIN config.nodes : config.nodes[d] = NodeOf(config, class)
    BY <1>2 DEF Range
  <2>2. PhasesAreInOrder /\ WellTyped(config)
    BY DEF Settled
  <2> QED
    BY <1>1, <2>1, <2>2, TypingSays, ConfigShape
<1>4. PICK n \in Nat : DOMAIN ms = 1 .. n /\ Len(ms) = n
  BY <1>3
<1>5. \A i, j \in 1 .. n : ms[i].name = ms[j].name => i = j
  BY <1>3, <1>4 DEF IsInjective
<1>6. /\ members = [i \in 1 .. n |-> members[i]] /\ DOMAIN members = 1 .. n
      /\ \A i \in 1 .. n : members[i].name = ms[i].name /\ members[i].type = TranslateTypeSpec(ms[i].type)
  BY <1>2, <1>4 DEF Loaded
<1>7. Len(members) = n
  <2> HIDE DEF members
  <2> QED
    BY <1>4, <1>6
<1>8. PICK j \in 1 .. n : ms[j] = m
  BY <1>1, <1>4 DEF Range
<1>9. I = {j}
  <2>1. \A i \in 1 .. n : members[i].name = m.name <=> i = j
    BY <1>5, <1>6, <1>8
  <2> QED
    BY <1>7, <2>1
<1>10. k = IF I = {} THEN 0 ELSE Min(I)
  BY DEF MemberIndex, SelectInSeq
<1>11. Min(I) = j
  <2>1. I \subseteq 1 .. n /\ I # {}
    BY <1>9
  <2> HIDE DEF I
  <2>2. Min(I) \in I
    BY <1>4, <2>1, LeastIsIn
  <2> QED
    BY <1>9, <2>2
<1>12. k = j
  <2>1. I # {}
    BY <1>9
  <2> HIDE DEF I
  <2> QED
    BY <1>10, <1>11, <2>1
<1>13. members[k].type = TranslateTypeSpec(m.type) /\ k # 0
  <2> HIDE DEF members
  <2> QED
    BY <1>6, <1>8, <1>12
<1> QED
  BY <1>3, <1>13

\* What the manipulating half of a handle does with the items of a right-hand side.
TakesRightly(gen, manip, rhs) ==
    /\ ~IsError(manip)
    /\ manip.kind = "setter" => \A i \in manip.places :
        /\ MadeSpec(gen, rhs) = [qual |-> "none", type |-> gen.type]
        /\ Goes(SpecOfSymbol(rhs[i]), types[gen.type].members[manip.member[i]].type)
    /\ manip.kind = "merger" => \A i \in manip.places :
        /\ MadeSpec(gen, rhs) = [qual |-> "vec", type |-> gen.type]
        /\ Goes(SpecOfSymbol(rhs[i]), [qual |-> "none", type |-> gen.type])

\* What is assigned and pushed is of the types asked for.
LEMMA ManipIsTyped ==
    ASSUME Settled, NEW type, TypeOfName(config, type.name) \notin {"none", "token"},
           NEW item, AssignsRightly(config, type, item), item.rhs \in Seq(Range(item.rhs)),
           NEW spec, spec = TranslateTypeSpec(type),
           NEW rhs, rhs = [i \in DOMAIN item.rhs |-> item.rhs[i].symbol],
           NEW gen, Gives(gen, spec, rhs, Returned(config, type, item))
    PROVE  TakesRightly(gen, ManipHandle(spec, item.rhs, gen.type), rhs)
<1> DEFINE pushed == {i \in DOMAIN item.rhs : item.rhs[i].assign = "&"}
           named == {i \in DOMAIN item.rhs : item.rhs[i].assign \notin {Empty, "!", "&"}}
           MemberOf(i) == MemberIndex(types[gen.type].members, item.rhs[i].assign)
<1>0. PICK manip, made : manip = ManipHandle(spec, item.rhs, gen.type) /\ made = MadeSpec(gen, rhs)
  OBVIOUS
<1>1. PhasesAreInOrder /\ TypesAreRegistered /\ at.phase >= 4
  BY DEF Settled
<1>2. /\ spec.type = type.name /\ spec = [qual |-> spec.qual, type |-> spec.type] /\ spec.qual \in {"vec", "opt", "none"}
      /\ spec.qual = "vec" <=> type.qual = "vec"
  BY SpecIs
<1>3. Is("enum", spec.type) \/ Is("class", spec.type) \/ Is("base", spec.type)
  <2>1. TypeOfName(config, type.name) \in {"enum", "base", "class", "token", "none"}
    BY DEF TypeOfName
  <2> QED
    BY <1>1, <1>2, <2>1, TypesAgree
<1>4. made.type = gen.type /\ Goes(made, spec)
  BY <1>0 DEF Gives
<1>5. \A i \in DOMAIN item.rhs : item.rhs[i] \in Range(item.rhs) /\ rhs[i] = item.rhs[i].symbol
  BY DEF Range
<1>6. ASSUME NEW i \in pushed
      PROVE  type.qual = "vec" /\ Goes(SpecOfSymbol(rhs[i]), [qual |-> "none", type |-> spec.type])
  <2>1. PICK to, s : to = One(type.name) /\ s = item.rhs[i].symbol
    OBVIOUS
  <2>2. item.rhs[i].assign = "&" /\ i \in DOMAIN item.rhs /\ "&" \notin {Empty, "!"}
    BY DEF Empty
  <2>3. type.qual = "vec" /\ Assignable(config, SymbolType(config, s), to)
    BY <1>5, <2>1, <2>2 DEF AssignsRightly
  <2>4. to.name = type.name /\ to.qual = Empty
    BY <2>1 DEF One
  <2>5. TypeOfName(config, to.name) # "none"
    BY <2>4
  <2>6. TranslateTypeSpec(to) = [qual |-> "none", type |-> spec.type]
    BY <1>2, <2>4, SpecIs
  <2> QED
    BY <1>5, <2>1, <2>2, <2>3, <2>5, <2>6, AssignableGoes DEF SpecOfSymbol
<1>7. ASSUME NEW i \in named
      PROVE  /\ type.qual # "vec" /\ Is("class", gen.type) /\ made = [qual |-> "none", type |-> gen.type]
             /\ MemberOf(i) # 0 /\ Goes(SpecOfSymbol(rhs[i]), types[gen.type].members[MemberOf(i)].type)
  <2>1. PICK s : s = item.rhs[i]
    OBVIOUS
  <2>2. s \in Range(item.rhs) /\ s.assign \notin {Empty, "!"} /\ s.assign # "&" /\ rhs[i] = s.symbol
    BY <1>5, <2>1
  <2>3. type.qual # "vec"
    BY <2>2 DEF AssignsRightly
  <2>4. PICK class \in Returned(config, type, item) :
            /\ TypeOfName(config, class) = "class"
            /\ \E m \in Range(NodeOf(config, class).members) :
                m.name = s.assign /\ Assignable(config, SymbolType(config, s.symbol), m.type)
    BY <2>2 DEF AssignsRightly
  <2>5. Is("class", class)
    BY <1>1, <2>4, TypesAgree
  <2>6. made = [qual |-> "none", type |-> class]
    BY <1>0, <2>4, <2>5 DEF Gives
  <2>7. class = gen.type
    BY <1>4, <2>6
  <2>8. PICK m \in Range(NodeOf(config, class).members) :
            m.name = s.assign /\ Assignable(config, SymbolType(config, s.symbol), m.type)
    BY <2>4
  <2>9. PICK k : k = MemberIndex(types[class].members, m.name)
    OBVIOUS
  <2>10. k # 0 /\ types[class].members[k].type = TranslateTypeSpec(m.type) /\ TypeOfName(config, m.type.name) # "none"
    BY <2>5, <2>9, MemberIsFound
  <2>11. Goes(SpecOfSymbol(rhs[i]), types[class].members[k].type)
    BY <2>2, <2>8, <2>10, AssignableGoes DEF SpecOfSymbol
  <2>12. MemberOf(i) = k
    BY <2>1, <2>7, <2>8, <2>9
  <2> HIDE DEF MemberOf
  <2> QED
    BY <2>3, <2>5, <2>6, <2>7, <2>10, <2>11, <2>12
<1>8. PICK member : member = [i \in named |-> MemberOf(i)]
  OBVIOUS
<1>9. manip = IF named # {} /\ ~Is("class", gen.type) THEN Error("crashed")
              ELSE IF \E i \in named : MemberOf(i) = 0 THEN Error("no_member")
              ELSE IF IsVec(spec)
              THEN IF named # {} THEN Error("unexpected_assign") ELSE Manip("merger", pushed, <<>>)
              ELSE IF IsObj(spec)
              THEN IF pushed # {} THEN Error("unexpected_push") ELSE Manip("setter", named, member)
              ELSE IF ~IsOpt(spec) /\ ~IsEnum(spec) THEN Error("aborted")
              ELSE IF pushed \cup named # {} THEN Error("unexpected_push_or_assign")
              ELSE Manip("placeholder", {}, <<>>)
  BY <1>0, <1>8 DEF ManipHandle
<1>10. \A kind, places, mem :
        /\ Manip(kind, places, mem).kind = kind /\ ~IsError(Manip(kind, places, mem))
        /\ Manip(kind, places, mem).places = places /\ Manip(kind, places, mem).member = mem
  BY DEF Manip, IsError
<1> HIDE DEF MemberOf
<1>11. CASE spec.qual = "vec"
  <2>1. named = {} /\ manip = Manip("merger", pushed, <<>>)
    <3>1. named = {}
      BY <1>2, <1>7, <1>11
    <3> HIDE DEF named
    <3> QED
      BY <1>9, <1>11, <3>1 DEF IsVec
  <2>2. made = spec
    BY <1>4, <1>11 DEF Goes
  <2>3. made = [qual |-> "vec", type |-> gen.type]
    BY <1>2, <1>4, <1>11, <2>2
  <2>4. \A i \in pushed : Goes(SpecOfSymbol(rhs[i]), [qual |-> "none", type |-> gen.type])
    BY <1>4, <1>6, <2>2
  <2> HIDE DEF pushed, named
  <2>5. ~IsError(manip) /\ manip.kind = "merger" /\ manip.places = pushed
    BY <1>10, <2>1
  <2>6. TakesRightly(gen, manip, rhs)
    BY <1>0, <2>3, <2>4, <2>5 DEF TakesRightly
  <2> QED
    BY <1>0, <2>6
<1>12. CASE spec.qual # "vec" /\ (Is("class", spec.type) \/ Is("base", spec.type))
  <2>1. pushed = {}
    BY <1>2, <1>6, <1>12
  <2>2. named # {} => Is("class", gen.type)
    BY <1>7
  <2>3. \A i \in named : MemberOf(i) # 0
    BY <1>7
  <2>4. IsObj(spec) /\ ~IsVec(spec)
    BY <1>12 DEF IsObj, IsVec
  <2>5. manip = Manip("setter", named, member)
    <3> HIDE DEF pushed, named
    <3> QED
      BY <1>9, <2>1, <2>2, <2>3, <2>4
  <2>6. \A i \in named : /\ made = [qual |-> "none", type |-> gen.type] /\ member[i] = MemberOf(i)
                         /\ Goes(SpecOfSymbol(rhs[i]), types[gen.type].members[member[i]].type)
    BY <1>7, <1>8
  <2> HIDE DEF pushed, named
  <2>7. ~IsError(manip) /\ manip.kind = "setter" /\ manip.places = named /\ manip.member = member
    BY <1>10, <2>5
  <2>8. TakesRightly(gen, manip, rhs)
    BY <1>0, <2>6, <2>7 DEF TakesRightly
  <2> QED
    BY <1>0, <2>8
<1>13. CASE spec.qual # "vec" /\ ~(Is("class", spec.type) \/ Is("base", spec.type))
  <2>1. pushed = {}
    BY <1>2, <1>6, <1>13
  <2>2. made.qual # "none" \/ made.type = spec.type
    BY <1>4, <1>13 DEF Goes
  <2>3. named = {}
    <3> SUFFICES ASSUME NEW i \in named PROVE FALSE
      OBVIOUS
    <3>1. Is("class", gen.type) /\ made = [qual |-> "none", type |-> gen.type]
      BY <1>7
    <3>2. gen.type = spec.type
      BY <1>4, <2>2, <3>1
    <3> QED
      BY <1>13, <3>1, <3>2
  <2>4. ~IsVec(spec) /\ ~IsObj(spec) /\ IsEnum(spec)
    BY <1>3, <1>13 DEF IsVec, IsObj, IsEnum
  <2>5. manip = Manip("placeholder", {}, <<>>)
    <3> HIDE DEF pushed, named
    <3> QED
      BY <1>9, <2>1, <2>3, <2>4
  <2> HIDE DEF pushed, named
  <2> QED
    BY <1>0, <1>10, <2>5 DEF TakesRightly
<1> QED
  BY <1>3, <1>11, <1>12, <1>13

\* What a production asks for: its handle gives what its left side is of, and takes
\* items of what its right side is of.
HandleTyped(p) ==
    LET gen == p.handle.gen
    IN  /\ Gives(gen, SpecOfSymbol(p.lhs), p.rhs, {})
        /\ TakesRightly(gen, p.handle.manip, p.rhs)
        /\ p.handle.proxy = gen.type

\* ConstructAstHandle for an item of a rule with a typing.
LEMMA HandleIsTyped ==
    ASSUME Settled, NEW r \in Range(config.rules), NEW item \in Range(r.items),
           NEW spec, spec = TranslateTypeSpec(r.type), NEW handle, handle = ConstructAstHandle(spec, item),
           NEW p, p = [lhs |-> r.name, rhs |-> [i \in DOMAIN item.rhs |-> item.rhs[i].symbol], handle |-> handle]
    PROVE  ~IsError(handle) /\ HandleTyped(p)
<1>1. PICK type, rhs : type = r.type /\ rhs = [i \in DOMAIN item.rhs |-> item.rhs[i].symbol]
  OBVIOUS
<1>2. PICK classes : classes = Returned(config, type, item)
  OBVIOUS
<1>3. PhasesAreInOrder /\ LookupsAreLoaded /\ WellTyped(config) /\ at.phase = 8
  BY DEF Settled
<1>4. /\ TypeOfName(config, type.name) \notin {"none", "token"}
      /\ \A s \in Range(item.rhs) : s.symbol \in SymbolNames(config)
      /\ ReturnsRightly(config, type, item) /\ AssignsRightly(config, type, item)
  BY <1>1, <1>3, TypingSays
<1>5. item.rhs \in Seq(Range(item.rhs))
  BY <1>3, ConfigShape
<1>6. PICK gen : gen = GenHandle(spec, item)
  OBVIOUS
<1>7. Gives(gen, spec, rhs, classes)
  <2>1. CASE item.hint # NoHint
    <3>1. gen = HintedGen(spec, item.hint)
      BY <1>6, <2>1 DEF GenHandle
    <3> QED
      BY <1>1, <1>2, <1>4, <2>1, <3>1, HintedIsTyped
  <2>2. CASE item.hint = NoHint
    <3>1. gen = SelectorGen(spec, item.rhs)
      BY <1>6, <2>2 DEF GenHandle
    <3> QED
      BY <1>1, <1>2, <1>4, <1>5, <2>2, <3>1, SelectorIsTyped
  <2> QED
    BY <2>1, <2>2
<1>8. PICK manip : manip = ManipHandle(spec, item.rhs, gen.type)
  OBVIOUS
<1>9. TakesRightly(gen, manip, rhs)
  BY <1>1, <1>2, <1>4, <1>5, <1>7, <1>8, ManipIsTyped
<1>10. handle = [gen |-> gen, manip |-> manip, proxy |-> gen.type]
  <2>1. HasProxy(gen.type) /\ ~IsError(gen) /\ ~IsError(manip)
    BY <1>7, <1>9 DEF HasProxy, Gives, TakesRightly
  <2> QED
    BY <1>6, <1>8, <2>1 DEF ConstructAstHandle
<1>11. ~IsError(handle)
  BY <1>10 DEF IsError
<1>12. SpecOfSymbol(p.lhs) = spec
  <2>1. p.lhs = r.name
    OBVIOUS
  <2> QED
    BY <1>3, <2>1, SymbolsAgree DEF SpecOfSymbol
<1>13. p.handle = handle /\ p.rhs = rhs
  BY <1>1
<1>14. handle.gen = gen /\ handle.manip = manip /\ handle.proxy = gen.type
  BY <1>10
<1>15. Gives(gen, spec, rhs, {})
  BY <1>7 DEF Gives
<1> QED
  BY <1>9, <1>11, <1>12, <1>13, <1>14, <1>15 DEF HandleTyped

-----------------------------------------------------------------------------
(* Items of a type                                                         *)

BearsOne(type, item, h) ==
    IF Is("token", type) THEN item.tag = "token"
    ELSE IF Is("enum", type) THEN item.tag = "enum" /\ item.of = type
    ELSE item.tag = "object" /\ DerivesFrom(h[item.ref].type, type)

\* The item is of the type: Extract finds it.
Bears(spec, item, h) ==
    IF spec.qual = "vec" THEN item.tag = "vector" /\ item.of = spec.type
    ELSE \/ spec.qual = "opt" /\ item.tag = "optional" /\ item.of = spec.type
         \/ BearsOne(spec.type, item, h)

\* What is of a type is extracted as that type.
LEMMA BearingExtracts ==
    ASSUME NEW item, NEW h, LooseFits(item, h), NEW spec, spec.qual \in {"vec", "opt", "none"}, Bears(spec, item, h)
    PROVE  Extract(spec, item, h) # Mismatch /\ (spec.qual = "none" => ExtractOne(spec.type, item, h) # Mismatch)
<1>1. Mismatch.tag = "mismatch"
  BY DEF Mismatch, Item
<1>2. item.tag # "mismatch"
  BY DEF LooseFits, ItemFits
<1>3. item # Mismatch
  BY <1>1, <1>2
<1>4. BearsOne(spec.type, item, h) => ExtractOne(spec.type, item, h) = item
  BY DEF BearsOne, ExtractOne, Is
<1>5. \A type, loc, held : Item("optional", type, 0, loc, held) # Mismatch
  <2> SUFFICES ASSUME NEW type, NEW loc, NEW held PROVE Item("optional", type, 0, loc, held) # Mismatch
    OBVIOUS
  <2>1. Item("optional", type, 0, loc, held).tag = "optional"
    BY DEF Item
  <2> QED
    BY <1>1, <2>1
<1>6. PICK x, held : x = Extract(spec, item, h) /\ held = ExtractOne(spec.type, item, h)
  OBVIOUS
<1>7. CASE spec.qual = "vec"
  BY <1>3, <1>7 DEF Extract, Bears
<1>8. CASE spec.qual = "opt"
  <2>1. x = IF item.tag = "optional" /\ item.of = spec.type THEN item
            ELSE IF held = Mismatch THEN Mismatch
            ELSE Item("optional", spec.type, 0, LocationOf(item, h), <<held>>)
    BY <1>6, <1>8 DEF Extract
  <2>2. (item.tag = "optional" /\ item.of = spec.type) \/ held = item
    BY <1>4, <1>6, <1>8 DEF Bears
  <2> QED
    BY <1>3, <1>5, <1>6, <1>8, <2>1, <2>2
<1>9. CASE spec.qual = "none"
  <2>1. held = item /\ x = held
    BY <1>4, <1>6, <1>9 DEF Extract, Bears
  <2> QED
    BY <1>3, <1>6, <2>1
<1> QED
  BY <1>7, <1>8, <1>9

\* An object is of a class.
LEMMA ObjectsAreOfClasses ==
    ASSUME NEW item, NEW h, IsHeap(h), LooseFits(item, h), item.tag = "object"
    PROVE  Is("class", h[item.ref].type)
<1>1. item.ref \in DOMAIN h /\ h[item.ref].kind = "object"
  BY DEF LooseFits, ItemFits, IsRef
<1> QED
  BY <1>1 DEF IsHeap, NodeFits

\* What is of a type is of the types that go with it.
LEMMA GoesBears ==
    ASSUME PhasesAreInOrder, TypesAreRegistered, NEW item, NEW h, IsHeap(h), LooseFits(item, h),
           NEW from, NEW to, Goes(from, to), Bears(from, item, h)
    PROVE  Bears(to, item, h)
<1>1. CASE from = to
  BY <1>1
<1>2. CASE from.qual = "none" /\ to.qual # "vec" /\ from.type = to.type
  BY <1>2 DEF Bears
<1>3. CASE from.qual = "none" /\ to.qual # "vec" /\ Is("class", from.type) /\ Is("base", to.type) /\ types[from.type].base = to.type
  <2>1. ~Is("token", from.type) /\ ~Is("enum", from.type) /\ ~Is("token", to.type) /\ ~Is("enum", to.type)
    BY <1>3 DEF Is
  <2>2. item.tag = "object" /\ DerivesFrom(h[item.ref].type, from.type)
    BY <1>3, <2>1 DEF Bears, BearsOne
  <2>3. h[item.ref].type = from.type
    <3>1. PICK sub, class : sub = h[item.ref].type /\ class = from.type
      OBVIOUS
    <3>2. Is("class", sub) /\ Is("class", class) /\ DerivesFrom(sub, class)
      BY <1>3, <2>2, <3>1, ObjectsAreOfClasses
    <3> QED
      BY <3>1, <3>2, ClassesAreExact
  <2>4. DerivesFrom(h[item.ref].type, to.type)
    BY <1>3, <2>3 DEF DerivesFrom
  <2> QED
    BY <1>3, <2>1, <2>2, <2>4 DEF Bears, BearsOne
<1> QED
  BY <1>1, <1>2, <1>3 DEF Goes

\* The type of an item depends on its tag and node, and on the type of the node.
LEMMA BearingStays ==
    ASSUME NEW item, NEW h, LooseFits(item, h), NEW g, SameKinds(h, g), NEW spec, Bears(spec, item, h),
           NEW other, other.tag = item.tag, other.of = item.of, other.ref = item.ref
    PROVE  Bears(spec, other, g)
<1>1. item.tag = "object" => g[item.ref].type = h[item.ref].type
  BY DEF LooseFits, ItemFits, IsRef, SameKinds
<1> QED
  BY <1>1 DEF Bears, BearsOne

\* The items of a right-hand side are of the types of its symbols.
AllBear(symbolsOf, rhs, h) == \A i \in 1 .. Len(rhs) : Bears(SpecOfSymbol(symbolsOf[i]), rhs[i], h)

\* The generating half never throws, and gives an item of the type it is for.
LEMMA GeneratedBears ==
    ASSUME NEW p, HandleFits(p), HandleTyped(p), NEW rhs, Len(rhs) = Len(p.rhs),
           NEW h, IsHeap(h), AllLoose(rhs, h), AllBear(p.rhs, rhs, h),
           NEW made, made = Generated(p.handle.gen, rhs, h)
    PROVE  made.item # Mismatch /\ Bears(MadeSpec(p.handle.gen, p.rhs), made.item, made.h)
<1>1. PICK gen, spec : gen = p.handle.gen /\ spec = MadeSpec(gen, p.rhs)
  OBVIOUS
<1>2. /\ gen.kind \in {"enum", "object", "vector", "optional", "selector"}
      /\ gen.kind = "selector" => gen.arg \in 1 .. Len(rhs)
  BY <1>1 DEF HandleFits
<1>3. /\ gen.kind = "enum" => Is("enum", gen.type)
      /\ gen.kind = "object" => Is("class", gen.type)
  BY <1>1 DEF HandleTyped, Gives
<1>4. Mismatch.tag = "mismatch"
  BY DEF Mismatch, Item
<1>5. \A tag, of, ref, loc, held : Item(tag, of, ref, loc, held).tag = tag /\ Item(tag, of, ref, loc, held).of = of
                                   /\ Item(tag, of, ref, loc, held).ref = ref
  BY DEF Item
<1>6. SUFFICES made.item.tag # "mismatch" /\ Bears(spec, made.item, made.h)
  BY <1>1, <1>4
<1>7. CASE gen.kind = "selector"
  <2>1. made.item = rhs[gen.arg] /\ made.h = h /\ spec = SpecOfSymbol(p.rhs[gen.arg])
    BY <1>1, <1>7 DEF Generated, MadeSpec
  <2>2. LooseFits(rhs[gen.arg], h) /\ Bears(SpecOfSymbol(p.rhs[gen.arg]), rhs[gen.arg], h)
    BY <1>2, <1>7 DEF AllLoose, AllBear
  <2> QED
    BY <2>1, <2>2 DEF LooseFits, ItemFits
<1>8. CASE gen.kind = "enum"
  <2>1. made.item = Item("enum", gen.type, 0, Unset, <<gen.arg>>) /\ spec = [qual |-> "none", type |-> gen.type]
    BY <1>1, <1>3, <1>8 DEF Generated, ConstructEnum, MadeSpec
  <2>2. ~Is("token", gen.type)
    BY <1>3, <1>8 DEF Is
  <2> QED
    BY <1>3, <1>5, <1>8, <2>1, <2>2 DEF Bears, BearsOne
<1>9. CASE gen.kind = "optional"
  <2>1. made.item = Item("optional", gen.type, 0, Unset, Nothing) /\ spec = [qual |-> "opt", type |-> gen.type]
    BY <1>1, <1>9 DEF Generated, ConstructOptional, MadeSpec
  <2> QED
    BY <1>5, <2>1 DEF Bears
<1>10. CASE gen.kind = "vector"
  <2>1. made.item = Item("vector", gen.type, Len(h) + 1, Unset, Nothing) /\ spec = [qual |-> "vec", type |-> gen.type]
    BY <1>1, <1>10 DEF Generated, ConstructVector, Allocated, MadeSpec
  <2> QED
    BY <1>5, <2>1 DEF Bears
<1>11. CASE gen.kind = "object"
  <2>1. PICK node : node = Node("object", gen.type, [m \in DOMAIN types[gen.type].members |-> Nothing])
    OBVIOUS
  <2>2. /\ made.item = Item("object", gen.type, Len(h) + 1, Unset, Nothing) /\ made.h = Append(h, node)
        /\ spec = [qual |-> "none", type |-> gen.type]
    BY <1>1, <1>3, <1>11, <2>1 DEF Generated, ConstructObject, Allocated, MadeSpec
  <2>3. node.type = gen.type
    BY <2>1 DEF Node
  <2>4. h \in Seq(Range(h))
    BY RowsAreSequences DEF IsHeap
  <2>5. PICK S : S = Range(h) \cup {node}
    OBVIOUS
  <2>6. h \in Seq(S) /\ node \in S
    BY <2>4, <2>5
  <2>7. Append(h, node)[Len(h) + 1] = node
    BY <2>6
  <2>8. made.item.ref = Len(h) + 1 /\ made.item.tag = "object" /\ made.h[made.item.ref].type = gen.type
    BY <1>5, <2>2, <2>3, <2>7
  <2>9. ~Is("token", gen.type) /\ ~Is("enum", gen.type)
    BY <1>3, <1>11 DEF Is
  <2> QED
    BY <2>2, <2>8, <2>9 DEF Bears, BearsOne, DerivesFrom
<1> QED
  BY <1>2, <1>7, <1>8, <1>9, <1>10, <1>11

\* A turn of the loop never throws.
LEMMA UsedGoesOn ==
    ASSUME PhasesAreInOrder, TypesAreRegistered, ClassesAreLoaded, NEW p, HandleFits(p), HandleTyped(p),
           NEW state, IsState(state), state.ok, IsHeap(state.h), NEW item, LooseFits(item, state.h),
           Bears(MadeSpec(p.handle.gen, p.rhs), item, state.h),
           NEW rhs, NEW i, LooseFits(rhs[i], state.h), Bears(SpecOfSymbol(p.rhs[i]), rhs[i], state.h),
           NEW next, next = Used(p.handle, item, rhs, state, i)
    PROVE  next.ok
<1>1. PICK proxy, value, h, made : /\ proxy = p.handle.proxy /\ value = rhs[i] /\ h = state.h
                                   /\ made = MadeSpec(p.handle.gen, p.rhs)
  OBVIOUS
<1>2. proxy = p.handle.gen.type
  BY <1>1 DEF HandleTyped
<1>3. \A g : [state EXCEPT !.h = g].ok
  BY DEF IsState
<1>4. CASE i \notin p.handle.manip.places
  BY <1>4 DEF Used
<1>5. CASE i \in p.handle.manip.places /\ p.handle.manip.kind = "setter"
  <2>1. PICK member, spec : member = p.handle.manip.member[i] /\ spec = types[proxy].members[member].type
    OBVIOUS
  <2>2. made = [qual |-> "none", type |-> proxy] /\ Goes(SpecOfSymbol(p.rhs[i]), spec)
    BY <1>1, <1>2, <1>5, <2>1 DEF HandleTyped, TakesRightly
  <2>3. Is("class", proxy) /\ member \in DOMAIN types[proxy].members
    BY <1>1, <1>5, <2>1 DEF HandleFits
  <2>4. spec.qual \in {"vec", "opt", "none"}
    BY <2>1, <2>3 DEF ClassesAreLoaded, MembersFit, Is
  <2>5. Bears(spec, value, h) /\ LooseFits(value, h) /\ LooseFits(item, h) /\ Bears(made, item, h)
    BY <1>1, <2>2, GoesBears
  <2>6. Extract(spec, value, h) # Mismatch
    BY <2>4, <2>5, BearingExtracts
  <2>7. ExtractOne(proxy, item, h) # Mismatch
    <3>1. made.qual = "none" /\ made.type = proxy
      BY <2>2
    <3> QED
      BY <2>5, <3>1, BearingExtracts
  <2>8. next = AssignField(state, proxy, item, member, value)
    BY <1>1, <1>5, <2>1 DEF Used
  <2>9. next = [state EXCEPT !.h = SetItem(@, item.ref, member, Extract(spec, value, h))]
    BY <1>1, <2>1, <2>6, <2>7, <2>8 DEF AssignField
  <2> QED
    BY <1>3, <2>9
<1>6. CASE i \in p.handle.manip.places /\ p.handle.manip.kind # "setter"
  <2>1. PICK one : one = [qual |-> "none", type |-> proxy]
    OBVIOUS
  <2>2. made = [qual |-> "vec", type |-> proxy] /\ Goes(SpecOfSymbol(p.rhs[i]), one)
    <3>1. p.handle.manip.kind = "merger"
      BY <1>6 DEF HandleFits
    <3> QED
      BY <1>1, <1>2, <1>6, <2>1, <3>1 DEF HandleTyped, TakesRightly
  <2>3. Bears(one, value, h) /\ LooseFits(value, h) /\ LooseFits(item, h) /\ Bears(made, item, h)
    BY <1>1, <2>2, GoesBears
  <2>4. ExtractOne(proxy, value, h) # Mismatch
    <3>1. one.qual = "none" /\ one.type = proxy
      BY <2>1
    <3> QED
      BY <2>3, <3>1, BearingExtracts
  <2>5. Extract(made, item, h) # Mismatch
    <3>1. made.qual = "vec"
      BY <2>2
    <3> QED
      BY <2>3, <3>1, BearingExtracts
  <2>6. next = PushBackElement(state, proxy, item, value)
    BY <1>1, <1>6 DEF Used
  <2>7. next = [state EXCEPT !.h = PushBack(@, item.ref, ExtractOne(proxy, value, h))]
    BY <1>1, <2>2, <2>4, <2>5, <2>6 DEF PushBackElement
  <2> QED
    BY <1>3, <2>7
<1> QED
  BY <1>4, <1>5, <1>6

\* The loop over the right-hand side never throws.
LEMMA ManipulatedGoesOn ==
    ASSUME PhasesAreInOrder, TypesAreRegistered, ClassesAreLoaded, NEW p, HandleFits(p), HandleTyped(p),
           NEW h, IsHeap(h), NEW item, LooseFits(item, h), Bears(MadeSpec(p.handle.gen, p.rhs), item, h),
           NEW rhs, Len(rhs) = Len(p.rhs), AllLoose(rhs, h), AllBear(p.rhs, rhs, h),
           NEW done, done = Manipulated(p.handle, item, rhs, h)
    PROVE  done.ok /\ SameNodes(h, done.h) /\ IsHeap(done.h)
<1> DEFINE n == Len(rhs)
           Sound(state) == IsState(state) /\ state.ok /\ SameNodes(h, state.h) /\ IsHeap(state.h)
<1>1. n \in Nat
  BY DEF HandleFits
<1>2. PICK after : /\ after[0] = [h |-> h, ok |-> TRUE]
                   /\ \A i \in 1 .. n : after[i] = Used(p.handle, item, rhs, after[i - 1], i)
                   /\ done = after[n]
  BY <1>1, ManipulatedSteps
<1>3. PICK made : made = MadeSpec(p.handle.gen, p.rhs)
  OBVIOUS
<1> DEFINE A == {k \in 0 .. n : Sound(after[k])}
<1>4. 0 \in A
  <2>1. PICK first : first = after[0]
    OBVIOUS
  <2>2. IsState(first) /\ first.ok /\ first.h = h
    BY <1>2, <2>1 DEF IsState
  <2>3. SameNodes(h, h)
    BY DEF SameNodes
  <2>4. Sound(first)
    BY <2>2, <2>3
  <2> HIDE DEF Sound
  <2> QED
    BY <1>1, <2>1, <2>4
<1>5. \A k \in 0 .. n : k # n /\ k \in A => k + 1 \in A
  <2> SUFFICES ASSUME NEW k \in 0 .. n, k # n, k \in A PROVE k + 1 \in A
    OBVIOUS
  <2>1. PICK state, j, next : state = after[k] /\ j = k + 1 /\ next = after[j]
    OBVIOUS
  <2>2. j \in 0 .. n /\ j \in 1 .. n /\ j - 1 = k
    BY <1>1, <2>1
  <2>3. next = Used(p.handle, item, rhs, state, j)
    <3> HIDE DEF Sound, A
    <3> QED
      BY <1>2, <2>1, <2>2
  <2>4. Sound(state)
    <3> HIDE DEF Sound
    <3> QED
      BY <2>1
  <2>5. SameKinds(h, state.h)
    BY <2>4 DEF SameNodes, SameKinds
  <2>6. LooseFits(rhs[j], h) /\ Bears(SpecOfSymbol(p.rhs[j]), rhs[j], h)
    BY <2>2 DEF AllLoose, AllBear
  <2>7. LooseFits(item, state.h) /\ LooseFits(rhs[j], state.h)
    BY <2>5, <2>6, KindsKeepItems
  <2>8. Bears(made, item, state.h)
    BY <1>3, <2>5, BearingStays
  <2>9. Bears(SpecOfSymbol(p.rhs[j]), rhs[j], state.h)
    <3>1. PICK spec, value : spec = SpecOfSymbol(p.rhs[j]) /\ value = rhs[j]
      OBVIOUS
    <3>2. LooseFits(value, h) /\ Bears(spec, value, h)
      BY <2>6, <3>1
    <3> QED
      BY <2>5, <3>1, <3>2, BearingStays
  <2>10. IsState(state) /\ state.ok /\ IsHeap(state.h) /\ SameNodes(h, state.h)
    BY <2>4
  <2> HIDE DEF Sound, A
  <2>11. next.ok
    BY <1>3, <2>3, <2>7, <2>8, <2>9, <2>10, UsedGoesOn
  <2>12. /\ IsState(next)
         /\ j \notin p.handle.manip.places => next = state
         /\ j \in p.handle.manip.places => Takes(state.h, next.h, item.ref, rhs[j])
    BY <2>3, <2>7, <2>10, <2>11, UsedFills
  <2>13. SameNodes(state.h, next.h) /\ IsHeap(next.h)
    <3>1. CASE j \notin p.handle.manip.places
      BY <2>10, <2>12, <3>1 DEF SameNodes
    <3>2. CASE j \in p.handle.manip.places
      BY <2>12, <3>2 DEF Takes, FillsOne
    <3> QED
      BY <3>1, <3>2
  <2>14. SameNodes(h, next.h)
    BY <2>10, <2>13 DEF SameNodes
  <2>15. Sound(next)
    BY <2>11, <2>12, <2>13, <2>14 DEF Sound
  <2> QED
    BY <2>1, <2>2, <2>15 DEF A
<1>6. n \in A
  <2> HIDE DEF A
  <2>1. \A k \in 0 .. n : k \in A
    <3> HIDE DEF n
    <3> QED
      BY <1>1, <1>4, <1>5, T!IntervalInduction
  <2> QED
    BY <1>1, <2>1
<1> QED
  BY <1>2, <1>6

\* A location changes no kind.
LEMMA LocatedKinds ==
    ASSUME NEW h, IsHeap(h), NEW n \in DOMAIN h, NEW loc, NEW g, g = SetLocation(h, n, loc)
    PROVE  SameKinds(h, g)
<1> DEFINE node == [h[n] EXCEPT !.loc = loc]
<1>1. h = [k \in 1 .. Len(h) |-> h[k]]
  BY DEF IsHeap, IsRow
<1>2. NodeFits(h[n])
  BY DEF IsHeap
<1>3. g = [h EXCEPT ![n] = node]
  BY DEF SetLocation
<1>4. node.kind = h[n].kind /\ node.type = h[n].type
  BY <1>2 DEF NodeFits
<1> HIDE DEF node
<1>5. DOMAIN g = DOMAIN h /\ g[n] = node /\ \A m \in DOMAIN h : m # n => g[m] = h[m]
  BY <1>1, <1>3
<1> QED
  BY <1>4, <1>5 DEF SameKinds

\* ASTHandle::Invoke never throws, and gives what the left side of the production is of.
LEMMA InvokeSucceeds ==
    ASSUME PhasesAreInOrder, TypesAreRegistered, ClassesAreLoaded, NEW p, HandleFits(p), HandleTyped(p),
           NEW h, IsHeap(h), FieldsFit(h), NEW rhs, Len(rhs) = Len(p.rhs), AllLoose(rhs, h), AllBear(p.rhs, rhs, h),
           NEW made, made = Invoke(p.handle, rhs, h)
    PROVE  /\ made.item # Mismatch /\ Bears(SpecOfSymbol(p.lhs), made.item, made.h)
           /\ SameKinds(h, made.h)
<1>1. PICK first : first = Generated(p.handle.gen, rhs, h)
  OBVIOUS
<1>2. PICK done : done = Manipulated(p.handle, first.item, rhs, first.h)
  OBVIOUS
<1>3. PICK loc : loc = Spanned(rhs, done.h)
  OBVIOUS
<1>4. PICK item, g, from, to : /\ item = first.item /\ g = first.h
                               /\ from = MadeSpec(p.handle.gen, p.rhs) /\ to = SpecOfSymbol(p.lhs)
  OBVIOUS
<1>5. item # Mismatch /\ Bears(from, item, g)
  BY <1>1, <1>4, GeneratedBears
<1>6. Grown(h, g) /\ LooseFits(item, g)
  <2>1. \A i \in 1 .. Len(rhs) : LooseFits(rhs[i], h)
    BY DEF AllLoose
  <2> QED
    BY <1>1, <1>4, <1>5, <2>1, GeneratedFits
<1>7. IsHeap(g) /\ SameKinds(h, g)
  BY <1>6 DEF Grown
<1>8. AllLoose(rhs, g)
  BY <1>7, KindsKeepItems DEF AllLoose
<1>9. AllBear(p.rhs, rhs, g)
  <2> SUFFICES ASSUME NEW i \in 1 .. Len(rhs) PROVE Bears(SpecOfSymbol(p.rhs[i]), rhs[i], g)
    BY DEF AllBear
  <2>1. PICK spec, value : spec = SpecOfSymbol(p.rhs[i]) /\ value = rhs[i]
    OBVIOUS
  <2>2. LooseFits(value, h) /\ Bears(spec, value, h)
    BY <2>1 DEF AllLoose, AllBear
  <2> QED
    BY <1>7, <2>1, <2>2, BearingStays
<1>10. done.ok /\ SameNodes(g, done.h) /\ IsHeap(done.h)
  <2>1. done = Manipulated(p.handle, item, rhs, g) /\ Bears(MadeSpec(p.handle.gen, p.rhs), item, g)
    BY <1>2, <1>4, <1>5
  <2> QED
    BY <1>6, <1>7, <1>8, <1>9, <2>1, ManipulatedGoesOn
<1>11. Bears(to, item, g)
  <2>1. Goes(from, to)
    BY <1>4 DEF HandleTyped, Gives
  <2> QED
    BY <1>5, <1>6, <1>7, <2>1, GoesBears
<1>12. IF IsRef(item) THEN made.item = item /\ made.h = SetLocation(done.h, item.ref, loc)
       ELSE made.item = [item EXCEPT !.loc = loc] /\ made.h = done.h
  BY <1>1, <1>2, <1>3, <1>4, <1>5, <1>10 DEF Invoke
<1>13. SameKinds(g, done.h)
  BY <1>10 DEF SameNodes, SameKinds
<1>14. SameKinds(g, made.h)
  <2>1. CASE IsRef(item)
    <3>1. item.ref \in DOMAIN done.h
      BY <1>6, <1>13, <2>1 DEF LooseFits, ItemFits, SameKinds
    <3>2. SameKinds(done.h, made.h)
      BY <1>10, <1>12, <2>1, <3>1, LocatedKinds
    <3> QED
      BY <1>13, <3>2 DEF SameKinds
  <2> QED
    BY <1>12, <1>13, <2>1
<1>15. made.item.tag = item.tag /\ made.item.of = item.of /\ made.item.ref = item.ref
  <2>1. item = Item(item.tag, item.of, item.ref, item.loc, item.held)
    BY <1>6 DEF LooseFits, ItemFits
  <2>2. PICK placed : placed = [item EXCEPT !.loc = loc]
    OBVIOUS
  <2>3. placed.tag = item.tag /\ placed.of = item.of /\ placed.ref = item.ref
    BY <2>1, <2>2 DEF Item
  <2> QED
    BY <1>12, <2>2, <2>3
<1>16. Bears(to, made.item, made.h)
  BY <1>6, <1>11, <1>14, <1>15, BearingStays
<1>17. made.item # Mismatch
  <2>1. item.tag # "mismatch" /\ Mismatch.tag = "mismatch"
    BY <1>6 DEF LooseFits, ItemFits, Mismatch, Item
  <2> QED
    BY <1>15, <2>1
<1>18. SameKinds(h, made.h)
  BY <1>7, <1>14 DEF SameKinds
<1> QED
  BY <1>4, <1>16, <1>17, <1>18

-----------------------------------------------------------------------------
(* The invariant of a configuration with a typing                          *)

\* The items of the stack are of the types of their symbols.
StackTyped == \A k \in DOMAIN stack : Bears(SpecOfSymbol(stack[k].symbol), stack[k].item, heap)

TypedParts ==
    /\ outcome \in {"building", "built", "parsed"}
    /\ \A p \in Range(productions) : HandleTyped(p)
    /\ StackTyped

TypedInvariant == LookupsAreLoaded /\ (WellTyped(config) => TypedParts)

\* What is asked of handles and items is about the configuration and the lookup of types.
LEMMA TypingStays ==
    ASSUME types' = types, config' = config
    PROVE  /\ \A p : HandleTyped(p)' <=> HandleTyped(p)
           /\ \A s, item, h : Bears(SpecOfSymbol(s), item, h)' <=> Bears(SpecOfSymbol(s), item, h)
           /\ WellTyped(config)' <=> WellTyped(config)
<1>1. \A s : SpecOfSymbol(s)' = SpecOfSymbol(s)
  BY DEF SpecOfSymbol, SymbolType, IsRule, RuleOf, One, TranslateTypeSpec
<1>2. \A gen, rhs : MadeSpec(gen, rhs)' = MadeSpec(gen, rhs)
  BY <1>1 DEF MadeSpec
<1>3. \A category, name : Is(category, name)' <=> Is(category, name)
  BY DEF Is
<1>4. \A p : HandleTyped(p)' <=> HandleTyped(p)
  <2>1. \A from, to : Goes(from, to)' <=> Goes(from, to)
    BY <1>3 DEF Goes
  <2>2. \A gen, spec, rhs : Gives(gen, spec, rhs, {})' <=> Gives(gen, spec, rhs, {})
    BY <1>2, <1>3, <2>1 DEF Gives
  <2>3. \A gen, manip, rhs : TakesRightly(gen, manip, rhs)' <=> TakesRightly(gen, manip, rhs)
    BY <1>1, <1>2, <2>1 DEF TakesRightly
  <2> SUFFICES ASSUME NEW p PROVE HandleTyped(p)' <=> HandleTyped(p)
    OBVIOUS
  <2>4. PICK gen, manip, spec, rhs : gen = p.handle.gen /\ manip = p.handle.manip /\ spec = SpecOfSymbol(p.lhs) /\ rhs = p.rhs
    OBVIOUS
  <2>5. HandleTyped(p) <=> Gives(gen, spec, rhs, {}) /\ TakesRightly(gen, manip, rhs) /\ p.handle.proxy = gen.type
    BY <2>4 DEF HandleTyped
  <2>6. HandleTyped(p)' <=> Gives(gen, spec, rhs, {})' /\ TakesRightly(gen, manip, rhs)' /\ p.handle.proxy = gen.type
    BY <1>1, <2>4 DEF HandleTyped
  <2> QED
    BY <2>2, <2>3, <2>5, <2>6
<1>5. \A spec, item, h : Bears(spec, item, h)' <=> Bears(spec, item, h)
  BY <1>3 DEF Bears, BearsOne, DerivesFrom
<1>6. \A s, item, h : Bears(SpecOfSymbol(s), item, h)' <=> Bears(SpecOfSymbol(s), item, h)
  BY <1>1, <1>5 DEF Bears, BearsOne, DerivesFrom
<1>7. WellTyped(config)' <=> WellTyped(config)
  OBVIOUS
<1> QED
  BY <1>4, <1>6, <1>7

\* Where nothing of the builder changes the lookups tell what they told.
LEMMA LookupsStay ==
    ASSUME LookupsAreLoaded, UNCHANGED <<config, at, types, symbols>>
    PROVE  LookupsAreLoaded'
BY DEF LookupsAreLoaded, EnumsAreLoaded, MembersAreLoaded, SymbolsAreNamed, SymbolsAreLoaded, TokenFits, VariableFits,
       Names, Done

\* An item of a rule with a typing becomes a production.
LEMMA ProductionIsTyped ==
    ASSUME Settled, at.index <= Len(Definitions), NEW rule, rule = Def.item,
           NEW handle, handle = ConstructAstHandle(symbols[Def.lhs].type, rule),
           NEW p, p = [lhs |-> Def.lhs, rhs |-> [i \in DOMAIN rule.rhs |-> rule.rhs[i].symbol], handle |-> handle]
    PROVE  (\A s \in Range(rule.rhs) : s.symbol \in DOMAIN symbols) /\ ~IsError(handle) /\ HandleTyped(p)
<1>1. PhasesAreInOrder /\ LookupsAreLoaded /\ WellTyped(config) /\ at.phase = 8
  BY DEF Settled
<1>2. PICK k : k = at.index
  OBVIOUS
<1>3. k \in Nat \ {0} /\ k <= Len(RuleItems(config)) /\ Def = RuleItems(config)[k]
  BY <1>1, <1>2, DefinitionsAre DEF PhasesAreInOrder, Def
<1>4. PICK r \in Range(config.rules) : \E item \in Range(r.items) : Def = [lhs |-> r.name, item |-> item]
  BY <1>1, <1>3, RuleItemsAre
<1>5. PICK item \in Range(r.items) : Def = [lhs |-> r.name, item |-> item]
  BY <1>4
<1>6. rule = item /\ Def.lhs = r.name
  BY <1>5
<1>7. PICK spec : spec = TranslateTypeSpec(r.type)
  OBVIOUS
<1>8. symbols[Def.lhs].type = spec /\ DOMAIN symbols = SymbolNames(config)
  BY <1>1, <1>6, <1>7, SymbolsAgree
<1>9. \A s \in Range(item.rhs) : s.symbol \in SymbolNames(config)
  BY <1>1, TypingSays
<1>10. handle = ConstructAstHandle(spec, item)
       /\ p = [lhs |-> r.name, rhs |-> [i \in DOMAIN item.rhs |-> item.rhs[i].symbol], handle |-> handle]
  BY <1>6, <1>8
<1>11. ~IsError(handle) /\ HandleTyped(p)
  BY <1>7, <1>10, HandleIsTyped
<1> QED
  BY <1>6, <1>8, <1>9, <1>11

\* The builder takes a configuration with a typing, step by step.
LEMMA BuildKeepsTyping ==
    ASSUME Invariant, TypedInvariant, BuildStep
    PROVE  TypedInvariant'
<1>1. PhasesAreInOrder /\ TypesAreRegistered /\ ClassesAreLoaded /\ HandlesFit /\ Build /\ LookupsAreLoaded
  BY DEF Invariant, BuilderInvariant, BuildStep, TypedInvariant
<1>2. LookupsAreLoaded'
  BY <1>1, LookupsKeep
<1>3. /\ outcome = "building" /\ config' = config /\ stack' = <<>>
      /\ at.phase \in 1 .. 8 /\ at.index \in Nat \ {0}
  BY <1>1, BuildShape DEF PhasesAreInOrder, BuildStep
<1>4. SUFFICES ASSUME WellTyped(config) PROVE TypedParts'
  BY <1>2, <1>3 DEF TypedInvariant
<1>5. StackTyped'
  BY <1>3 DEF StackTyped
<1>6. \A p \in Range(productions) : HandleTyped(p)
  BY <1>4 DEF TypedInvariant, TypedParts
<1>7. CASE ~LoadProduction
  <2>1. outcome' \in {"building", "built", "parsed"}
    BY <1>1, <1>4, <1>7, DefinitionsPass
  <2>2. productions' = productions
    BY <1>1, <1>7 DEF Build, LoadEnum, LoadBase, LoadNode, LoadMembers, RegisterTypeInfo, LoadToken, LoadIgnoredToken,
           LoadVariable, RegisterSymbolInfo, Fail, EndPhase
  <2>3. CASE at.phase = 8
    <3>1. types' = types
      BY <1>1, <2>3, BuildShape
    <3>2. \A p : HandleTyped(p)' <=> HandleTyped(p)
      BY <1>3, <3>1, TypingStays
    <3> QED
      BY <1>5, <1>6, <2>1, <2>2, <3>2 DEF TypedParts
  <2>4. CASE at.phase # 8
    <3>1. productions' = <<>>
      BY <1>1, <1>3, <2>2, <2>4 DEF PhasesAreInOrder
    <3>2. Range(productions') = {}
      BY <3>1 DEF Range
    <3> QED
      BY <1>5, <2>1, <3>2 DEF TypedParts
  <2> QED
    BY <2>3, <2>4
<1>8. CASE LoadProduction
  <2>1. at.phase = 8 /\ at.index <= Len(Definitions)
    BY <1>3, <1>8, PhaseNumber DEF LoadProduction, In
  <2>2. Settled
    BY <1>1, <1>4, <2>1 DEF Settled
  <2>3. PICK rule : rule = Def.item
    OBVIOUS
  <2>4. PICK handle : handle = ConstructAstHandle(symbols[Def.lhs].type, rule)
    OBVIOUS
  <2>5. PICK p : p = [lhs |-> Def.lhs, rhs |-> [i \in DOMAIN rule.rhs |-> rule.rhs[i].symbol], handle |-> handle]
    OBVIOUS
  <2>6. (\A s \in Range(rule.rhs) : s.symbol \in DOMAIN symbols) /\ ~IsError(handle) /\ HandleTyped(p)
    BY <2>1, <2>2, <2>3, <2>4, <2>5, ProductionIsTyped
  <2>7. productions' = Append(productions, p) /\ types' = types /\ outcome' = outcome
    BY <1>8, <2>3, <2>4, <2>5, <2>6 DEF LoadProduction, Continue
  <2>8. \A q : HandleTyped(q)' <=> HandleTyped(q)
    BY <1>3, <2>7, TypingStays
  <2>9. PICK S : S = Range(productions) \cup {p}
    OBVIOUS
  <2>10. Append(productions, p) \in Seq(S)
    BY <1>1, <2>9 DEF HandlesFit
  <2>11. PICK new : new = productions'
    OBVIOUS
  <2>12. Range(new) \subseteq S
    BY <2>7, <2>10, <2>11 DEF Range
  <2>13. \A q \in Range(new) : HandleTyped(q)
    BY <1>6, <2>6, <2>9, <2>12
  <2>14. \A q \in Range(productions') : HandleTyped(q)'
    BY <2>8, <2>11, <2>13
  <2> QED
    BY <1>3, <1>5, <2>7, <2>14 DEF TypedParts
<1> QED
  BY <1>7, <1>8

\* What a parser works on has been built, and the lookups are complete.
LEMMA ParsingIsSettled ==
    ASSUME Invariant, TypedInvariant, outcome = "built", WellTyped(config)
    PROVE  Settled /\ TypedParts
BY DEF Invariant, BuilderInvariant, PhasesAreInOrder, TypedInvariant, Settled

\* A token on the stack is of the type of its symbol.
LEMMA ShiftKeepsTyping ==
    ASSUME Invariant, TypedInvariant, NEW name \in DOMAIN symbols, Shift(name)
    PROVE  TypedInvariant'
<1>1. /\ UNCHANGED <<config, at, types, symbols, productions>> /\ outcome' = outcome /\ heap' = heap
      /\ outcome = "built" /\ symbols[name].category = "token"
  BY DEF Shift, builder_vars, Parsing
<1>2. LookupsAreLoaded'
  BY <1>1, LookupsStay DEF TypedInvariant
<1>3. SUFFICES ASSUME WellTyped(config) PROVE TypedParts'
  BY <1>1, <1>2 DEF TypedInvariant
<1>4. Settled /\ TypedParts
  BY <1>1, <1>3, ParsingIsSettled
<1>5. PICK elem, t, n : /\ elem = [symbol |-> name, item |-> TokenItem(read)]
                        /\ t = Append(stack, elem) /\ n = Len(stack)
  OBVIOUS
<1>6. stack' = t
  BY <1>5 DEF Shift
<1>7. IsRow(stack)
  BY DEF Invariant, TreesFit, TreesOf
<1>8. PushedOn(stack, n, elem, t) /\ n \in Nat /\ DOMAIN stack = 1 .. n
  BY <1>5, <1>7, AllPushed DEF IsRow
<1>9. DOMAIN t = 1 .. (n + 1) /\ t[n + 1] = elem /\ \A k \in 1 .. n : t[k] = stack[k]
  BY <1>8 DEF PushedOn
<1>10. Bears(SpecOfSymbol(name), TokenItem(read), heap)
  <2>1. PICK spec : spec = SpecOfSymbol(name)
    OBVIOUS
  <2>2. SymbolType(config, name) = One("token")
    BY <1>1, <1>4, SymbolsAgree DEF Settled
  <2>3. spec.qual = "none" /\ spec.type = "token"
    <3>1. PICK type : type = One("token")
      OBVIOUS
    <3>2. type.name = "token" /\ type.qual = Empty
      BY <3>1 DEF One
    <3>3. spec = TranslateTypeSpec(type)
      BY <2>1, <2>2, <3>1 DEF SpecOfSymbol
    <3> QED
      BY <3>2, <3>3, SpecIs
  <2>4. Is("token", "token")
    BY <1>4 DEF Settled, TypesAreRegistered, CategoriesAreRight
  <2>5. PICK item : item = TokenItem(read)
    OBVIOUS
  <2>6. item.tag = "token"
    BY <2>5 DEF TokenItem, Item
  <2>7. Bears(spec, item, heap)
    BY <2>3, <2>4, <2>6 DEF Bears, BearsOne
  <2> QED
    BY <2>1, <2>5, <2>7
<1>11. \A k \in DOMAIN t : Bears(SpecOfSymbol(t[k].symbol), t[k].item, heap)
  <2>1. elem.symbol = name /\ elem.item = TokenItem(read)
    BY <1>5
  <2>2. \A k \in DOMAIN t : k = n + 1 \/ k \in 1 .. n
    BY <1>8, <1>9
  <2>3. \A k \in 1 .. n : Bears(SpecOfSymbol(stack[k].symbol), stack[k].item, heap)
    BY <1>4, <1>8 DEF TypedParts, StackTyped
  <2> QED
    BY <1>9, <1>10, <2>1, <2>2, <2>3
<1>12. StackTyped'
  <2>1. \A s, item, h : Bears(SpecOfSymbol(s), item, h)' <=> Bears(SpecOfSymbol(s), item, h)
    BY <1>1, TypingStays
  <2>2. PICK h : h = heap
    OBVIOUS
  <2>3. \A k \in DOMAIN t : Bears(SpecOfSymbol(t[k].symbol), t[k].item, h)'
    BY <1>11, <2>1, <2>2
  <2>4. stack' = t /\ heap' = h
    BY <1>1, <1>6, <2>2
  <2> QED
    BY <2>3, <2>4 DEF StackTyped
<1>13. \A p \in Range(productions') : HandleTyped(p)'
  BY <1>1, <1>4, TypingStays DEF TypedParts
<1> QED
  BY <1>1, <1>4, <1>12, <1>13 DEF TypedParts

\* The handle of a reduction succeeds, and what it gives is of the type of the left side.
LEMMA ReduceKeepsTyping ==
    ASSUME Invariant, TypedInvariant, NEW e \in DOMAIN productions, Reduce(productions[e])
    PROVE  TypedInvariant'
<1>1. UNCHANGED <<config, at, types, symbols, productions>> /\ outcome = "built"
  BY DEF Reduce, Parsing
<1>2. LookupsAreLoaded'
  BY <1>1, LookupsStay DEF TypedInvariant
<1>3. SUFFICES ASSUME WellTyped(config) PROVE TypedParts'
  BY <1>1, <1>2 DEF TypedInvariant
<1>4. Settled /\ TypedParts
  BY <1>1, <1>3, ParsingIsSettled
<1>5. PICK p : p = productions[e]
  OBVIOUS
<1>6. PICK n, below : n = Len(p.rhs) /\ below = Len(stack) - n
  OBVIOUS
<1>7. PICK top : top = SubSeq(stack, below + 1, Len(stack))
  OBVIOUS
<1>8. PICK rhs : rhs = [i \in 1 .. n |-> top[i].item]
  OBVIOUS
<1>9. PICK made : made = Invoke(p.handle, rhs, heap)
  OBVIOUS
<1>10. /\ below >= 0 /\ [i \in 1 .. n |-> top[i].symbol] = p.rhs
       /\ made.item # Mismatch =>
            /\ stack' = Append(SubSeq(stack, 1, below), [symbol |-> p.lhs, item |-> made.item])
            /\ heap' = made.h /\ outcome' = outcome
  BY <1>5, <1>6, <1>7, <1>8, <1>9 DEF Reduce
<1>11. PhasesAreInOrder /\ TypesAreRegistered /\ ClassesAreLoaded /\ TreesOf(stack, heap)
  BY DEF Invariant, TreesFit, BuilderInvariant
<1>12. HandleFits(p) /\ HandleTyped(p) /\ n \in Nat
  <2>1. p \in Range(productions)
    BY <1>5 DEF Range
  <2>2. HandleFits(p)
    BY <2>1 DEF Invariant, BuilderInvariant, HandlesFit
  <2> QED
    BY <1>4, <1>6, <2>1, <2>2 DEF TypedParts, HandleFits
<1>13. PICK size : size = Len(stack) /\ size \in Nat /\ DOMAIN stack = 1 .. size /\ stack \in Seq(Range(stack))
  BY <1>11, RowsAreSequences DEF TreesOf
<1>14. below \in Nat /\ below + n = size /\ below \in 0 .. size
  BY <1>6, <1>10, <1>12, <1>13
<1>15. \A i \in 1 .. n : below + i \in DOMAIN stack /\ top[i] = stack[below + i]
  BY <1>7, <1>12, <1>13, <1>14
<1>16. Len(rhs) = n /\ \A i \in 1 .. n : rhs[i] = stack[below + i].item /\ p.rhs[i] = stack[below + i].symbol
  <2>1. \A i \in 1 .. n : p.rhs[i] = top[i].symbol
    BY <1>10
  <2>2. Len(rhs) = n
    BY <1>8, <1>12
  <2> QED
    BY <1>8, <1>15, <2>1, <2>2
<1>17. \A i \in DOMAIN stack : LooseFits(stack[i].item, heap) /\ Bears(SpecOfSymbol(stack[i].symbol), stack[i].item, heap)
  BY <1>4, <1>11 DEF TreesOf, TypedParts, StackTyped
<1>18. AllLoose(rhs, heap) /\ AllBear(p.rhs, rhs, heap)
  BY <1>15, <1>16, <1>17 DEF AllLoose, AllBear
<1>19. PICK item, g : item = made.item /\ g = made.h
  OBVIOUS
<1>20. item # Mismatch /\ Bears(SpecOfSymbol(p.lhs), item, g) /\ SameKinds(heap, g)
  <2>1. IsHeap(heap) /\ FieldsFit(heap) /\ Len(rhs) = Len(p.rhs)
    BY <1>6, <1>11, <1>16 DEF TreesOf
  <2> QED
    BY <1>9, <1>11, <1>12, <1>18, <1>19, <2>1, InvokeSucceeds
<1>21. PICK elem, t : elem = [symbol |-> p.lhs, item |-> item] /\ t = Append(SubSeq(stack, 1, below), elem)
  OBVIOUS
<1>22. stack' = t /\ heap' = g /\ outcome' = outcome
  BY <1>10, <1>19, <1>20, <1>21
<1>23. DOMAIN t = 1 .. (below + 1) /\ t[below + 1] = elem /\ \A i \in 1 .. below : t[i] = stack[i]
  BY <1>11, <1>13, <1>14, <1>21, PrefixPushed DEF TreesOf, PushedOn
<1>24. \A i \in DOMAIN t : Bears(SpecOfSymbol(t[i].symbol), t[i].item, g)
  <2>1. \A i \in DOMAIN t : i = below + 1 \/ i \in 1 .. below
    BY <1>14, <1>23
  <2>2. elem.symbol = p.lhs /\ elem.item = item
    BY <1>21
  <2>3. ASSUME NEW i \in 1 .. below
        PROVE  Bears(SpecOfSymbol(stack[i].symbol), stack[i].item, g)
    <3>1. PICK spec, value : spec = SpecOfSymbol(stack[i].symbol) /\ value = stack[i].item
      OBVIOUS
    <3>2. i \in DOMAIN stack
      BY <1>13, <1>14
    <3>3. LooseFits(value, heap) /\ Bears(spec, value, heap)
      BY <1>17, <3>1, <3>2
    <3> QED
      BY <1>20, <3>1, <3>3, BearingStays
  <2> QED
    BY <1>20, <1>23, <2>1, <2>2, <2>3
<1>25. StackTyped'
  <2>1. \A s, it, h : Bears(SpecOfSymbol(s), it, h)' <=> Bears(SpecOfSymbol(s), it, h)
    BY <1>1, TypingStays
  <2>2. \A i \in DOMAIN t : Bears(SpecOfSymbol(t[i].symbol), t[i].item, g)'
    BY <1>24, <2>1
  <2> QED
    BY <1>22, <2>2 DEF StackTyped
<1>26. \A q \in Range(productions') : HandleTyped(q)'
  BY <1>1, <1>4, TypingStays DEF TypedParts
<1> QED
  BY <1>1, <1>22, <1>25, <1>26 DEF TypedParts

\* The extraction of the root finds what the last rule is of.
LEMMA FinishKeepsTyping ==
    ASSUME Invariant, TypedInvariant, Finish
    PROVE  TypedInvariant'
<1>1. /\ UNCHANGED <<config, at, types, symbols, productions>> /\ stack' = stack /\ heap' = heap
      /\ outcome = "built" /\ Len(stack) = 1 /\ stack[1].symbol = Root.name
  BY DEF Finish, Parsing
<1>2. LookupsAreLoaded'
  BY <1>1, LookupsStay DEF TypedInvariant
<1>3. SUFFICES ASSUME WellTyped(config) PROVE TypedParts'
  BY <1>1, <1>2 DEF TypedInvariant
<1>4. Settled /\ TypedParts
  BY <1>1, <1>3, ParsingIsSettled
<1>5. PICK r, item : r = Root /\ item = stack[1].item
  OBVIOUS
<1>6. r \in Range(config.rules) /\ r.type.qual = Empty
  <2>1. Len(config.rules) \in DOMAIN config.rules /\ config.rules[Len(config.rules)].type.qual = Empty
    BY <1>4, TypingSays DEF Settled
  <2> QED
    BY <1>5, <2>1 DEF Root, Range
<1>7. PICK spec : spec = SpecOfSymbol(r.name)
  OBVIOUS
<1>8. spec = TranslateTypeSpec(r.type)
  BY <1>4, <1>6, <1>7, SymbolsAgree DEF Settled, SpecOfSymbol
<1>9. spec.qual = "none" /\ spec.type = r.type.name
  BY <1>6, <1>8, SpecIs
<1>10. LooseFits(item, heap) /\ Bears(spec, item, heap)
  <2>1. 1 \in DOMAIN stack
    BY <1>1 DEF Invariant, TreesFit, TreesOf, IsRow
  <2> QED
    BY <1>1, <1>4, <1>5, <1>7, <2>1 DEF Invariant, TreesFit, TreesOf, TypedParts, StackTyped
<1>11. ExtractOne(r.type.name, item, heap) # Mismatch
  <2>1. ExtractOne(spec.type, item, heap) # Mismatch
    BY <1>9, <1>10, BearingExtracts
  <2> QED
    BY <1>9, <2>1
<1>12. outcome' = "parsed"
  BY <1>5, <1>11 DEF Finish
<1>13. StackTyped'
  <2>1. \A s, it, h : Bears(SpecOfSymbol(s), it, h)' <=> Bears(SpecOfSymbol(s), it, h)
    BY <1>1, TypingStays
  <2>2. PICK s, h : s = stack /\ h = heap
    OBVIOUS
  <2>3. \A k \in DOMAIN s : Bears(SpecOfSymbol(s[k].symbol), s[k].item, h)'
    BY <1>4, <2>1, <2>2 DEF TypedParts, StackTyped
  <2>4. stack' = s /\ heap' = h
    BY <1>1, <2>2
  <2> QED
    BY <2>3, <2>4 DEF StackTyped
<1>14. \A p \in Range(productions') : HandleTyped(p)'
  BY <1>1, <1>4, TypingStays DEF TypedParts
<1> QED
  BY <1>12, <1>13, <1>14 DEF TypedParts

\* Before the first definition is loaded there is nothing to be of a type.
LEMMA InitIsTyped ==
    ASSUME Init
    PROVE  TypedInvariant
<1>1. /\ config \in Configs /\ at = [phase |-> 1, index |-> 1] /\ symbols = <<>>
      /\ productions = <<>> /\ outcome = "building" /\ stack = <<>> /\ heap = <<>>
  BY DEF Init, BuilderInit
<1>2. PhasesAreInOrder
  BY <1>1 DEF PhasesAreInOrder
<1>3. /\ Done(1, config.enums) = {} /\ Done(4, config.nodes) = {}
      /\ Done(5, config.tokens) = {} /\ Done(7, config.rules) = {}
  BY <1>1, <1>2, DefinitionsCount DEF Done, DoneAt
<1>4. DOMAIN symbols = {} /\ Range(productions) = {} /\ DOMAIN stack = {}
  BY <1>1 DEF Range
<1>5. LookupsAreLoaded
  BY <1>3, <1>4 DEF LookupsAreLoaded, EnumsAreLoaded, MembersAreLoaded, SymbolsAreNamed, SymbolsAreLoaded, Names
<1> QED
  BY <1>1, <1>4, <1>5 DEF TypedInvariant, TypedParts, StackTyped

\* A configuration with a typing is built, and whatever is shifted and reduced no handle
\* of it throws: each item is of the type that is asked for where it goes.
THEOREM TypedConfigurationsSafe == Spec => []TypedConfigurationsAreSafe
<1>1. Init => TypedInvariant
  BY InitIsTyped
<1>2. Invariant /\ TypedInvariant /\ [Next]_vars => TypedInvariant'
  <2> SUFFICES ASSUME Invariant, TypedInvariant, [Next]_vars PROVE TypedInvariant'
    OBVIOUS
  <2>1. CASE BuildStep
    BY <2>1, BuildKeepsTyping
  <2>2. CASE \E name \in DOMAIN symbols : Shift(name)
    BY <2>2, ShiftKeepsTyping
  <2>3. CASE \E k \in DOMAIN productions : Reduce(productions[k])
    BY <2>3, ReduceKeepsTyping
  <2>4. CASE Finish
    BY <2>4, FinishKeepsTyping
  <2>5. CASE UNCHANGED vars
    <3>1. /\ UNCHANGED <<config, at, types, symbols, productions>>
          /\ outcome' = outcome /\ stack' = stack /\ heap' = heap
      BY <2>5 DEF vars, builder_vars
    <3>2. LookupsAreLoaded'
      BY <3>1, LookupsStay DEF TypedInvariant
    <3>3. ASSUME WellTyped(config)
          PROVE  TypedParts'
      <4>1. TypedParts
        BY <3>3 DEF TypedInvariant
      <4>2. \A p \in Range(productions') : HandleTyped(p)'
        BY <3>1, <4>1, TypingStays DEF TypedParts
      <4>3. PICK s, h : s = stack /\ h = heap
        OBVIOUS
      <4>4. \A k \in DOMAIN s : Bears(SpecOfSymbol(s[k].symbol), s[k].item, h)'
        BY <3>1, <4>1, <4>3, TypingStays DEF TypedParts, StackTyped
      <4>5. stack' = s /\ heap' = h
        BY <3>1, <4>3
      <4>6. StackTyped'
        BY <4>4, <4>5 DEF StackTyped
      <4> QED
        BY <3>1, <4>1, <4>2, <4>6 DEF TypedParts
    <3> QED
      BY <3>1, <3>2, <3>3 DEF TypedInvariant
  <2> QED
    BY <2>1, <2>2, <2>3, <2>4, <2>5 DEF Next
<1>3. TypedInvariant => TypedConfigurationsAreSafe
  BY DEF TypedInvariant, TypedParts, TypedConfigurationsAreSafe
<1> QED
  BY <1>1, <1>2, <1>3, InvariantHolds, PTL DEF Spec
=============================================================================
