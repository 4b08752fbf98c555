# RegGen: models, checks and proofs

RegGen is a parser generator in C++. A configuration text lists tokens (as regular expressions), types and
rules; `GenericParser` reads it, builds a lexer automaton and an LALR(1) automaton, flattens both into tables
and parses text with them, building typed AST nodes in an arena. The program is sequential: what is hard in
it is not concurrency but that several fixed points and worklists, written with containers that grow while
they are read, must end in exactly the right sets, that a loop over two stacks trusts tables made long
before, and that objects, blocks and locations are handed around by pointer. `CMakeLists.txt:11` builds in
Debug mode: an `assert` that fails ends the program. The models treat that as an outcome of its own
(`"aborted"`), apart from exceptions.

## Inventory

| Component | State | Operations | Interacts with | What makes it correct |
|---|---|---|---|---|
| Configuration parser (`lib/Common/Configuration.cc`, `Common/Text.h`) | cursor into the text, lists of definitions | `Parse*Definition`, `TryParseConstant`, `SkipWhitespace` | gives `ParserConfiguration` to MetaInfo | what was written is read, whatever the layout; nothing else is |
| MetaInfo (`lib/Parser/MetaInfo.cc`) | lookups of types and symbols, arrays of tokens, variables, productions | `LoadTypeInfo`, `LoadSymbolInfo`, `ConstructAstHandle` | read by everything after it | names unique, every symbol declared, handles fit their types |
| Regex parser (`lib/Lexer/Regex.cc`) | cursor, expression stacks | `ParseRegex`, `ParseCharClass` | trees for the lexer | the tree is the expression that was written |
| Lexer automaton (`lib/Lexer/LexerAutomaton.cc`) | position sets, queue, DFA | node visits, subset construction, `LoadToken` | DFA into the lexing table | longest match, least id wins |
| LR items and closures (`lib/Parser/ParserAutomaton.cc`) | stack of variables, set of those added | `EnumerateClosureItems`, `ComputeGotoItems` | used by both halves of the construction | exactly the closure is visited, whatever the order |
| LR(0) automaton (same file) | map from item sets to states, queue | `BootstrapParsingAutomaton`, `MakeState`, `RegisterShift` | states and edges for the LALR construction | states are the sets of valid items; none forgotten or doubled |
| Grammar sets (`lib/Parser/Grammar.cc`) | FIRST, FOLLOW, two marks per nonterminal | `ComputeFirstSet`, `ComputeFollowSet` | run on the extended grammar | sound at every step, complete at the end, end at all |
| LALR construction (`ParserAutomaton.cc`) | extended grammar, merged lookaheads, the action maps | `CreateExtendedGrammar`, `BuildLALRAutomaton` | tables for the driver | lookaheads cover LALR(1) and stay in FOLLOW; conflicts found |
| Parser driver (`lib/Parser/Parser.cc`) | state stack, AST stack, offset | `Parse`, `FeedParserContext`, the three actions | tables, AST handles, lexer | both stacks in step with the automaton; accepts the language |
| AST layer (`include/RegGen/AST`) | nodes, type-erased items | handles, proxies, `ASTItem` | called at every reduction | no item read as another type, nodes held once, locations nest |
| Arena (`Container/Arena`) | lists of blocks, block sizes, destructors | `Allocate`, `Construct` | owns the AST | chunks disjoint, aligned, freed once |
| Containers (`SmallVector`, `FlatSet`, `HeapArray`, ...) | buffers, inline or on the heap | the usual ones | everywhere | elements constructed and destroyed once, calls mean what they mean of sequences |
| Code generation, formatting, debug printing, template utilities, LL(1) experiment, sample driver | none of interest | text output, compile-time predicates | | wording, or no run-time behaviour, or not built |

The hard behaviours, with their lines, are the `hazards` of `PROJECT.json`; each is tied to the properties
that would catch it or says why none can.

## Modules

```
Configuration ─────────────────────────────────┐     BottomUpRecognizer (what a parser promises)
Grammars ── ClosureWalk                        │            ▲ refinement
   ├── LR0Automaton ──┐                        │     GenericParser ──┐
   └──────────────────┴─ LALRAutomaton ────────┴─────────────────────┴─ ParserGenerator
        GrammarBuilder ──┘
MetaInfoBuilder ── ASTBuilding                 Allocator (what an arena promises) ◄ refinement ─ Arena
RegularLanguages ─┬─ Regex                     SmallVector
                  └─ LexerAutomaton
TextbookSets, TextbookLR: reference definitions    AutomatonReference: LALRAutomaton against TextbookLR
MCGrammars: grammars of the runs
```

| Module | Models | State and actions against the code |
|---|---|---|
| `Configuration` | `ParseConfig` | `place` is the pointer into the text; one action per definition behind its keyword, its parser as an operator from a place to a value and the place behind it; an exception anywhere makes the action end in `"error"` |
| `MetaInfoBuilder` | `MetaInfo::Builder` | one action per definition that is registered or resolved, in the order of the loops, each with its errors; `ConstructAstHandle` has an operator for each half of a handle, `GenHandle` and `ManipHandle` |
| `ASTBuilding` | AST items, proxies, handles | any sequence of shifts and reductions over a stack of items and a heap of nodes; `Reduce` is `ASTHandle::Invoke` with generator, manipulator and location |
| `RegularLanguages` | expression trees | and, as the reference, their languages by derivation |
| `Regex` | `ParseRegex` with `ParseCharClass` | one action per character or class; a frame per open parenthesis |
| `LexerAutomaton` | `BuildLexerAutomaton`, `LoadToken` | the visits of the nodes as operators; `AddTransition` and `EndSet` are the subset construction, `ScanCharacter` and `EndScan` the scan over the table |
| `Grammars` | what `LoadSymbolInfo` builds; `ParserItem`; closure and goto as sets | a grammar is a record of token, variable and production arrays; a production is named by its index, which is also the order of its address, so `ItemLess` is `ParserItem::Less` and `ItemSetLess` the `operator<` of `FlatSet` that orders `states_` |
| `ClosureWalk` | `EnumerateClosureItems` | `VisitItem` = one callback with its registration, `TakeVariable` = `back()`/`pop_back()` and the start of the inner loop |
| `LR0Automaton` | `BootstrapParsingAutomaton` | `BeginState`, one `SkipSymbol` or `AddTransition` per symbol of `EnumerateSymbols`, `EndState` = `pop_front`, `Bootstrapped` = return; `states` is `states_` with `ptrs_` |
| `GrammarBuilder` | `Build` | one action per production in a FIRST pass, per symbol in a FOLLOW pass, per end of a pass; `growing` and `epsilon_path` are the code's flags |
| `LALRAutomaton` | `BuildLALRAutomaton`, `CreateExtendedGrammar` | runs the two modules above by `INSTANCE`; `ExtendSymbols`, `ExtendState` (one per state), `MergeProduction` (one per production), `RegisterReductions` (one per state), and the ways out by assertion |
| `GenericParser` | `Parse`, `FeedParserContext`, `ParserContext` | `LoadToken`, `SkipToken`, `ThrowInvalidToken`, `LoadEof` are the branches of the outer loop, `FeedShift`, `FeedReduce`, `FeedError` the three `ForwardParserAction`s, `AbortOnState` the failing lookup |
| `ParserGenerator` | `Initialize` and a call of `Parse` | extends `LALRAutomaton`, whose steps it takes unchanged (its own names begin with `Generator`), and runs reader and driver by `INSTANCE`: `ReadConfiguration*`, `ResolveParserInfo`, `BuildAutomaton*`, `CallParse` with the filled tables, `Parse*` |
| `SmallVector` | `SmallVector.h` over explicit memory | every public operation that changes a vector is one action, made of the copies, moves, constructions and destructions of the code in their order, up to where it throws; `sequence` is a history variable |
| `Arena` | `Arena.h`, `Arena.cc` | a call of `Allocate` is a step for a big chunk, else one step per turn of its loop |
| `Allocator`, `BottomUpRecognizer` | no code: the promises | chunks apart from all given before; a word that derives what was read |
| `TextbookSets`, `TextbookLR` | no code: definitions from derivations | nullability, FIRST, FOLLOW, valid items, the DeRemer-Pennello lookaheads, bounded languages. What vanishes is the least set closed under the rules for it, what is reached is found in as many turns as there are elements: both can be proved about |
| `AutomatonReference` | no code: the comparison | the automaton's edges as the transition function of `TextbookLR`; states against valid items, registered lookaheads against those of LALR(1) |
| `GrammarTheorems`, `ClosureWalkProofs`, `GrammarBuilderProofs`, `GenericParserProofs`, `ParserGeneratorProofs`, `ASTBuildingProofs`, `ArenaProofs`, `SmallVectorProofs` | proofs | see below; `ParserGeneratorProofs` holds those of `LALRAutomaton` too |

Abstractions.

* Names stand for symbol objects (names are unique in the code). In `Configuration` the letters of a keyword
  or a name that stand together are one character, and so is the arrow; a name is a sequence of characters, so
  it may begin with a keyword.
* `GenericParser` and `ParserGenerator` take a text as a sequence of lexemes: what the lexer finds at each place,
  with a kind and a length; a place where nothing matches has the kind `NoToken`. `LexerAutomaton` scans
  characters.
* In `GenericParser` an AST item is the symbol it was made for and its location; `ASTBuilding` has the rest.
* `ParserGenerator` follows only the reading where a text turns out to hold another grammar than the one the
  run gave it for. It takes the grammar from the configuration by `GrammarOf`; types are the matter of
  `MetaInfoBuilder`.
* The order in which a closure's productions enter the extended grammar is by index and not by worklist,
  since the passes over it end in the same sets.
* The tables are functions; the flat index arithmetic of `Initialize` is not kept. `FlatSet` is a set.
* A regular expression in `MetaInfoBuilder` is only whether `ParseRegex` takes it. `malloc` does not fail.

Operators whose comment begins with "Mutant" are wrong versions of the definition after them: what a slip in
that line of the code would do. Each checked property is known to fail for one of them.

## Checks

All runs are finite without state constraints. Counters that the code leaves open are capped by constants in
the guards: `MaxAllocations`, `MaxTokens`, `SizeTypeMax`, and the lengths of texts.

| Run | Instance | What it shows |
|---|---|---|
| `closure_walk` | every kernel of one or two items of 13 grammars | the visited items are the closure |
| `grammar_builder` | 1296 sites of two nonterminals, with empty productions, cycles and useless nonterminals | FOLLOW and the end marks never exceed their definitions; FIRST, nullability and end marks are exact; FOLLOW is exact unless a vanishing symbol stands between two others; it ends |
| `lalr_automaton` | 13 written grammars and the 256 of `SmallGrammars` | states are distinct, the queue is exactly the unexpanded states in order, edges are at every step the gotos tried so far; of all words of up to 3 symbols (`WordBound`) exactly the viable prefixes lead to a state, which holds their valid items; a finished item always has its merged lookaheads (`at` does not throw); tables agree with the automaton; lookaheads contain the LALR(1) ones and lie in FOLLOW; assertions fail only outside SLR(1) |
| `generic_parser` | SLR tables of 5 grammars, all texts of up to 5 lexemes with ignored and invalid ones | stacks follow the automaton, handles are on top, locations are ordered; texts are accepted exactly when they are sentences, with a result that spans the tokens; nothing impossible is shifted; the driver implements `BottomUpRecognizer` |
| `parser_generator` | 9 grammars, each written as a configuration in four layouts (spaced, as dense as possible, full of comments, ending in one), one of them also with every lexeme left out or doubled and cut off at every place; all texts of up to 4 lexemes | configurations are read back as they were written, and of whatever is read nothing but blanks and comments was passed over; the tables the construction makes satisfy what the driver (and its proofs) assume; a text is parsed exactly when it is a sentence; construction and parsing end |
| `lexer_automaton` | pairs of tokens over three characters, all repetitions, nested ones too; texts of up to 3 characters | the scan finds the longest match and the token declared first, where no optional part stands inside a sequence and no + repeats what may be empty; no lexeme is outside its token's language, for any expression; `follow_pos.at` finds its key; construction and scan end |
| `regex` | all texts of up to 4 metacharacters, all classes of up to 5, 1920 printed expressions | printed expressions are read back as the same tree; exactly the well-formed texts are accepted; classes hold their members, but for the two known losses |
| `ast_building` | 10080 configurations with one varied rule, a list, ten broken ones; texts of 3 tokens | a typed configuration is built and no reduction meets a wrong type; nodes are held once; locations nest; fields hold what their member asks for, in untyped configurations too |
| `small_vector` | two vectors over an inline cell and three blocks, sizes up to 3, three kinds of element | elements are constructed before use and destroyed once, blocks are owned once, and the vectors hold what the calls mean, with arguments inside the vector, growth, moves and swaps; a call that throws at the largest size changes no sequence, unless it is an assign that drops the old elements first, which leaves an empty vector |
| `arena` | sizes scaled down, up to 8 requests of four types | chunks are aligned, inside live blocks and apart; the arena implements `Allocator`; every call returns |
| `left_recursive_root`, `optional_part` | | violations, see below |

Why these bounds suffice to see the interesting cases: the grammars were written for them (left and right
recursion, a root on a right-hand side in three ways, ambiguity, equal productions, cycles, useless
variables, LR(1) but not LALR(1), LALR(1) but not SLR(1), shared gotos, an empty production), and the small
families hold every combination of short right-hand sides. Two nonterminals suffice for information to travel
through several passes of both fixed points. Texts of five lexemes reach every state of the five automata,
every reduction and every error entry. Configurations hold every kind of definition, members with and without
a qualifier, every kind of assignment and hint, names that begin with a keyword, strings with quotes, blanks
and `#`. Vectors grow twice before the largest size, and fit their inline buffer, outgrow it and come back to
it; with eight requests arena blocks are filled, passed over, counted and dropped, which takes a tolerance of 1 instead of the
code's 9.

Fairness. Every liveness property assumes weak fairness of the module's step and nothing more: the code is
one thread that runs on as long as it can (in `ParserGenerator` it is assumed from the end of reading on; in
`Arena` for the steps of the loop in `Allocate` only, since nobody is obliged to call it). The steps after the
end are stuttering; `arena` and `ast_building` turn the deadlock check off because a caller may stop calling,
and a text may end where nothing can be reduced.

## Divergences

Two runs end in a violation of something the repository says of itself (`findings`):

| Run | Violated | Why |
|---|---|---|
| `left_recursive_root` | a parser for an LALR(1) grammar parses its sentences (`README.md:3`) | in state 0 the root's own productions lose their lookahead (`ParserAutomaton.cc:217`): with `S = S a \| a` the sentence `a a` is refused |
| `optional_part` | "follow_pos set for each position" (`LexerAutomaton.cc:43`) | a sequence joins neighbours only (`LexerAutomaton.cc:109`): `ab?c` does not match `ac` |

The other configurations in this directory show further places where the code does something else than its
surroundings say. Each gives a counterexample under `tlc -config <cfg> <module>`; where one lists several
invariants, leave the one of interest. The passing properties exclude exactly these cases, by conditions of
their own (`RootIsFresh`, `EpsilonFree`, `HasNullableGap`, `BatchIsPlain`, `EndsWithDash`, `RangesOverlap`,
`OwnRanges`, `EmptyRanges`, `WellTyped`), but for an assign that throws, whose outcome `HoldsItsSequence` includes as it
is.

| Configuration | Module | Invariant | What happens |
|---|---|---|---|
| `GrammarBuilder`, with this invariant added | `MCGrammarBuilder` | `FollowIsExact` | only the adjacent symbol is looked at (`Grammar.cc:164`), against "terminals that may follow s" (`Grammar.cc:106`). It does no harm on its own: a grammar with such a gap ends at `rhs.back()` |
| `LALRDivergences` | `MCLALRAutomaton` | `LALRGrammarsAreAccepted` | lookaheads are merged by end state, over contexts that LALR(1) keeps apart (`ParserAutomaton.cc:269`): an LALR(1) grammar fails the assertion at line 31 |
| | | `EmptyProductionsAreHandled` | `rhs.back()` of an empty vector (`ParserAutomaton.cc:269`), against "empty production also indicates epsilon" (`Grammar.cc:137`) |
| `GenericParserDivergences` | `MCGenericParser` | `NeverAborts` | a root folded at the bottom before the end has no goto; -1 is pushed (`Parser.cc:384`) and the next lookup fails its assertion (`Parser.h:49`, `53`) |
| `LexerDivergences` | `MCLexerAutomaton` | `NullableIsExact` | `(a*)+` is taken as never empty (`LexerAutomaton.cc:151`), against "if the node can match empty string" (line 29) |
| | | `CharactersAreVerified` | a byte above 127 is a negative `char` (`Parser.cc:351`) and fails the assertion at `Parser.h:41`; other text without a token gives an exception |
| `RegexDivergences` | `MCRegex` | `LastDashIsRaw` | `[a-]` loses the `a` (`Regex.cc:70`) |
| | | `ReversedIsTheComplement` | ranges are merged only where they begin together (`Regex.cc:110`): the reversed class of overlapping ones is wrong |
| | | `NeverAborts` | a lone backslash fails the assertion of `Consume` (`Regex.cc:51`) |
| `ASTBuildingDivergences` | `MCASTBuilding` | `AssertionsHold` | a rule of type token with a hint fails an assertion for objects (`MetaInfo.cc:192`) |
| `SmallVectorDivergences` | `MCSmallVector` | `HoldsItsSequence` | a range of the vector itself is read after it was shifted (`SmallVector.h:836`); with `EmptyRanges = TRUE` instead of `OwnRanges`, an insertion of nothing moves objects onto themselves (line 828) |
| | | `AssignIsUndone`, as a PROPERTY and with `OwnRanges = FALSE` | `assign(n, elt)` of trivial elements sets the size to 0 (`SmallVector.h:516`) before growing throws (line 517): with `n` above the largest size the old elements are gone, while for objects nothing changes (line 404). `assign` of a range or a list clears first as well (lines 677, 682) |
| `ArenaDivergences` | `MCArena` | `OnlyFailingBlocksAreDropped` | dropping a block drops those passed before it as well (`Arena.cc:87`), against the comment at line 85 |
| | | `UsedIsGiven` | big chunks are not among the bytes used (`Arena.cc:96`) |

## Proofs

Checked by the TLA+ proof system, for every value of the constants that satisfies the assumptions named in
the modules (`WalksAssumption`, `SitesAssumption`, `GrammarChoicesAssumption`, `InputsAssumption`,
`ConfigurationsAssumption`, `KindsAssumption`, `ConfigsAssumption`, `SizesAssumption`, `CellsAssumption`, `HeapAssumption`, `WordBoundAssumption`); TLC evaluates those assumptions on the runs'
instances. They say that grammars and sites have the shape `LoadSymbolInfo` and `CreateExtendedGrammar` give
them, that texts are sequences of what the lexer can answer, that the marks of cells differ from values, and that
`malloc` finds a free block; the last only that the bound of the checked words is a number. Nothing is assumed of the tables the driver
runs on but in `GenericParserProofs`, and `ParserGeneratorProofs` proves that.

**Closures** (`ClosureWalkProofs`). `ClosureIsExact`: `EnumerateClosureItems` visits exactly the least closed
set, for every grammar and kernel. The invariant says that the visited items with the rest of the inner loop
are items of the closure, and that each variable ever registered is on the stack or has its productions
visited or in hand; when both are empty the registered variables are a closed set, and the least one is
contained in it. `WalkTypes` is its type invariant.

**FIRST and FOLLOW** (`GrammarBuilderProofs`). `FirstAndNullableAreExact`, `FollowIsSoundAndExact`: for every
site the two loops of `Build` end with the sets the derivations define, FOLLOW with the exception the
divergence names. One half is an invariant of every step: nothing is in a set that its definition does not
hold. The other half has to speak of a pass that is under way: as long as `growing` is false, the sets are
closed under the productions (in FOLLOW, the places of right-hand sides) this pass has been through. A
pass that ends without growth has been through all of them, so the sets are closed, and the least closed sets
are contained in them. That `first` no longer changes once its loop is over is part of the invariant, since
FOLLOW is computed from it.

**Valid items** (`GrammarTheorems`, `ParserGeneratorProofs`). `StatesAreValid`: for every grammar and words of any
length, the finished LR(0) automaton leads along exactly the viable prefixes, to the state that holds the items
valid for them. `TextbookLR` defines validity by derivations: which variables are derived at which place of the word,
without closures and gotos. That set is found in as many turns as it can have elements (`Reached`), and is the least closed one because
each turn adds something or is the last (`ReachedIsLeast`). On the other side stand the item sets the gotos make along the word
(`KernelsAlong`). `KernelsHoldTheValidItems` connects them, by induction along the word in one direction (a variable derived at a
place is expanded by the set there, `ItemsAtAreClosed`) and by leastness in the other (what is in a set at k is derived
at the place its cursor says, `ItemsAtMove`). `PathLeadsToTheValidItems` reads the item sets off the automaton's edges.

**The LR(0) automaton and the extended grammar** (`ParserGeneratorProofs`, first part). `AutomatonInvariantHolds`: states are
numbered without gaps, pairwise distinct and the first is the closure of the root; the queue holds in order exactly the
states without edges; an edge leads to the state that is the goto, and there is one for each symbol tried whose goto
is not empty; at the end of the input only finished productions are reduced. From it `QueueIsRight`,
`EdgesAreRight` and `TablesAreRight` (the finished tables agree with the automaton).
`FinishedItemsAreMerged` needs a second invariant (`MergeInvariant`): every state but the first is the goto of
another, so every item with its cursor at the end has a way *back* along its right-hand side, over edges,
to a state that expands its production (`WayBack`); the extended grammar has the production with the states of
that way, and so one that ends in the item's state. Hence `merged_follow.at` (`ParserAutomaton.cc:296`) finds its key.

**Lookaheads** (there too). `LookaheadsInFollow`: for every grammar, a reduction is registered only
before a token that can follow its variable in what the root derives (its SLR lookahead), and at the end only
where the variable can come last. `AbortsOutsideSLR`: therefore no assertion of `RegisterReduce` fails, and
`rhs.back()` is never taken of nothing, for an SLR(1) grammar without empty productions. The argument drops the
states from the symbols of the extended grammar. Its productions then are productions of the grammar, used from
the root, with every symbol in its place (`SiteMaps`), and all that is derived in the one is derived in the
other, so FIRST, FOLLOW and the end marks map (`SetsMap`). That the extended grammar has that shape needs
that edges exist all along a right-hand side from a state that expands it (`WayAhead`). The sets that are
merged are those of `GrammarBuilder`, whose own inductive invariant is shown to hold of it when it runs as a part
(`BuilderPhase`).

`LookaheadsCover` is the other half: where the root is not left-recursive, every LALR(1) lookahead is registered,
so none is lost in the extended grammar, its FOLLOW sets, their merge or the registration. `TextbookLR`
defines them by the relations of DeRemer and Pennello between the transitions of the automaton, and a transition
is a symbol of the extended grammar (`OfTransition`). When the passes of `Build` have ended its sets are closed
under the extended productions (`SetsAreClosed`), and those are all productions on all their ways
(`EveryWayIsPlaced`). What a transition reads directly is waited for in the kernel it leads to or begins a
variable of its closure: the first stands next to it in an extended production (`KernelFollows`), and the
second comes up through FIRST (`FirstGoesUp`, `ClosureFollows`). Where one transition includes another, an extended production
ends in the first and has the second on its left (`IncludesFollows`). The least set closed under inclusion
therefore stays in the FOLLOW set of the symbol (`FollowIsAfterSymbol`). `CoverInvariant` carries what was in
FOLLOW to the merged sets (`MergedCoverFollow`) and to the tables of the states visited (`RegisteredCoverMerged`).
Sets can grow and never shrink on the way, and the assertions leave no slot for a second production.

**The driver** (`GenericParserProofs`). `StackIsAPath`, `ReductionsFindTheirHandle`, `FinalizeIsSafe`,
`NoAbortWhenRootWaits`, `LocationsStayOrdered`, `ParserTypes`: the loop of `Parse` on any tables of the grammar's
LR(0) automaton (`ConsistentPda`), for any text. That the stack is a path is not inductive alone: a reduction
must know that the right-hand side lies on top of it and that the state below expands the production. The
strengthening is `ItemsAreSpelled`: every item of every state on the stack has, to the left of its cursor, the
symbols on top of the stack at that height, and is in the closure of the state below its beginning. From it
follow the handle, the goto of the left-hand side and that it exists unless a root was folded at the bottom.
`ParseImplementsRecognizer`: with those facts every step of the driver is a step of `BottomUpRecognizer` or changes
nothing it sees. So an accepted text has a derivation from the root, read from left to right.

**The generator** (`ParserGeneratorProofs`, second part). `GeneratedTablesFitTheDriver`: for every grammar the tables that
`Initialize` fills satisfy `ConsistentPda`, and a root that is on no right-hand side is reduced at the end of the
input only. The second half is the subtle one: the root's productions in state 0 get a nonterminal of their
own in the extended grammar (`RootIsApart`), which nothing stands behind (`RootHasNoFollow`), so what is merged
for them is empty (`RootIsMergedEmpty`) and no reduction of them is registered before a token (`RootIsNotReduced`). With it
the theorems of the driver hold of construction and parsing together, without assumptions on the tables:
`GeneratedParserNeverAborts` (no assertion of `Parse` fails where the root is on no right-hand side),
`GeneratedParserKeepsItsStacks`, `GeneratedParserRecognizes` (from the call of `Parse` on, every step is one of
the recognizer of the grammar).

**The AST** (`ASTBuildingProofs`). `NodesHeldOnce`, `FieldsAreTyped`, `LocationsAreNested`: for every configuration the
builder lets through, typed or not, and every text, a node is held by one place only, a field holds what its
member asks for, and the location of a node spans what it holds. None of the three is inductive, and they need
each other. Four parts make the invariant (`InvariantHolds`):

* what the builder leaves (`BuilderInvariant`): every type is in the lookup under one name with the category
  and the base its definition gives it (`TypesAreRegistered`, `ClassesAreLoaded`), where the loops have been; and a
  handle uses each place of its right-hand side once only: what it selects it neither assigns nor pushes
  (`HandlesFit`);
* an item refers to a node exactly when its tag says so, and an object has a field for each member of its class
  (`ItemFits`, `NodeFits`), so that the index a setter was made with is a field of the node it gets. That the index is of the
  right class needs that a class is no base: the `dynamic_cast` to a class gives objects of that class only
  (`ClassesAreExact`);
* every node has one owner (`HeldOnce`). While a handle runs there is one owner more than before, for a new node, and
  every item used gives up its reference to the field it goes to (`ManipulatedKeeps`, by induction along the
  right-hand side);
* the stack lies in order in the text (`Ordered`), so the items of a right-hand side lie within the span the
  result gets. A selected object gets a new location; the nodes it was held by would have to grow with it, and
  that there are none is `HeldOnce`.

`LocationsAreNested` asks that no right-hand side is empty (`NoEmptyItems`): for those the construction ends at
`rhs.back()` before there is a parser (see the divergences), and `ASTHandle::Invoke` takes `rhs.front()`.

`TypedConfigurationsSafe`: a configuration with a typing (`WellTyped`, which speaks of names and types and knows
nothing of lookups and handles) is built without an error, whatever is shifted and reduced no handle of it
throws, and the root is found. The argument is progress and preservation, on top of `InvariantHolds`:

* where the loops have been, the lookups say what the configuration says (`LookupsAreLoaded`), so that the two
  descriptions of types agree (`TypesAgree`, `SymbolsAgree`) and no definition of types or symbols is refused
  (`DefinitionsPass`);
* what the typing lets go somewhere can be extracted there (`Goes`, `AssignableGoes`), so a handle is constructed
  and asks for nothing its right-hand side is not of (`HandleIsTyped`, with `HintedIsTyped` and `SelectorIsTyped` for
  the generating half, `ManipIsTyped` for the other);
* every item on the stack is of the type of its symbol (`StackTyped`), hence every turn of the loop of `Invoke` goes
  on (`UsedGoesOn`) and what is made is of the type of the left side (`InvokeSucceeds`).

The proof showed that a looser typing is not enough, in four ways that the configurations of the run did not reach
at first: an enum may have a choice that is called like a class, and then the rule returns the enumerator and not
an object; a member name that occurs twice is looked up at its first place; without a rule there is no
root; and no type may be called `_`, which the parser of configurations sees to. The first is in the run now.

**The arena** (`ArenaProofs`). `ChunksStaySound` and `ArenaImplementsAllocator`: for all block sizes, limits,
tolerances and requests the chunks of an arena are aligned, inside a block it holds and pairwise apart, and
every step of the arena is a step of `Allocator` or changes nothing it sees. Disjointness is not inductive alone.
The strengthening (`ArenaInvariant`) says that a block's offset is aligned and within the block, and that every
chunk in a block ends at or before its offset: a new chunk begins at the offset, so it is apart from all
others whether or not the search has passed, counted or dropped the block. That a waiting request is aligned and
below the threshold, which is at most the size of every block, makes the new block large enough.

**The vectors** (`SmallVectorProofs`). `VectorLifetimesAreRight`, `VectorBlocksAreOwnedOnce` and
`VectorsHoldTheirSequences`: for any number of vectors, any inline size, largest size and values, for all three
kinds of element and whatever calls are made. The three are one invariant (`VectorsAreSound`): `Sound` says that every vector begins in its inline
buffer or in a block of its own, that its cells hold its sequence from the beginning on and are raw behind it, that the
inline buffer of a vector on the heap is raw, and that a block without an owner is not allocated. Lifetimes alone
are not inductive, because a vector may be left small with capacity 0, and growth needs to know that the block it gets is
nobody's. The lemmas go up in layers: `Write`, `Fill`, `Transfer` and
`Destroy` on cells; what an edit of one vector makes of a sound state (`EditIsSound`, `ExtendIsSound`,
`TransferOverIsSound`, `TransferEndIsSound`); growth and allocation (`GrowIsSound`, `TakeAllocationIsSound`); then each call,
by composition. Two points carry the proof:

* *arguments inside the vector*: `Denotes` follows an argument from the old place to the new one through growth
  (`ReserveForParamIsSound`) and through the shift of an insertion (`GapReads`, `ShiftedIsInserted`), so what is stored in the
  end is what the caller named;
* *shifts*: while the gap of an insertion is open, cells hold what moves left, and no sequence describes the
  vector. `GapOpened` says of each cell whether it is as before, moved up, alive or raw, and `FilledIsInsertion`
  closes the gap again.

A call that throws is a step of its own (`ThrowOrIsSound`, `ThrowEmptyOrIsSound`): most calls grow before they touch
anything, and leave everything as it was; `assign` of trivial elements, of a range or of a list drops the old
elements first, and its exception leaves a sound, empty vector. `sequence` records both.

The theorems assume what the run assumes, that `insert` and `erase` are not called for ranges of the vector itself or for nothing
(`~OwnRanges`, `~EmptyRanges`): for those the code does something else (see the divergences).

Where a proof needs induction over an interval (the height of the stack, the length of a right-hand side), it is
stated of the set of the places where the claim holds (`IntervalInduction` in `GrammarTheorems`).

The theorems that state a property of a run, which that run shows on its small instance:

| Property | Run | Theorem | Module |
|---|---|---|---|
| `VisitsExactlyTheClosure` | `closure_walk` | `ClosureIsExact` | `ClosureWalkProofs` |
| `FirstIsExact` | `grammar_builder` | `FirstAndNullableAreExact` | `GrammarBuilderProofs` |
| `EofAndFollowAreExact` | `grammar_builder` | `FollowIsSoundAndExact` | `GrammarBuilderProofs` |
| `QueueIsTheUnexpandedStates` | `lalr_automaton` | `QueueIsRight` | `ParserGeneratorProofs` |
| `EdgesAreTheTriedGotos` | `lalr_automaton` | `EdgesAreRight` | `ParserGeneratorProofs` |
| `StatesHoldTheValidItems` | `lalr_automaton` | `StatesAreValid` | `ParserGeneratorProofs` |
| `EveryFinishedItemIsMerged` | `lalr_automaton` | `FinishedItemsAreMerged` | `ParserGeneratorProofs` |
| `TablesAreConsistent` | `lalr_automaton` | `TablesAreRight` | `ParserGeneratorProofs` |
| `LookaheadsAreInFollow` | `lalr_automaton` | `LookaheadsInFollow` | `ParserGeneratorProofs` |
| `LookaheadsCoverLALR` | `lalr_automaton` | `LookaheadsCover` | `ParserGeneratorProofs` |
| `AbortsOnlyOutsideSLR` | `lalr_automaton` | `AbortsOutsideSLR` | `ParserGeneratorProofs` |
| `StackFollowsAutomaton` | `generic_parser` | `StackIsAPath` | `GenericParserProofs` |
| `HandleIsOnTop` | `generic_parser` | `ReductionsFindTheirHandle` | `GenericParserProofs` |
| `WaitingRootNeverAborts` | `generic_parser` | `NoAbortWhenRootWaits` | `GenericParserProofs` |
| `LocationsAreOrdered` | `generic_parser` | `LocationsStayOrdered` | `GenericParserProofs` |
| `RefinesRecognizer` | `generic_parser` | `ParseImplementsRecognizer` | `GenericParserProofs` |
| `TablesFitTheDriver` | `parser_generator` | `GeneratedTablesFitTheDriver` | `ParserGeneratorProofs` |
| `NodesAreHeldOnce` | `ast_building` | `NodesHeldOnce` | `ASTBuildingProofs` |
| `LocationsNest` | `ast_building` | `LocationsAreNested` | `ASTBuildingProofs` |
| `FieldsHoldTheirTypes` | `ast_building` | `FieldsAreTyped` | `ASTBuildingProofs` |
| `TypedConfigurationsAreSafe` | `ast_building` | `TypedConfigurationsSafe` | `ASTBuildingProofs` |
| `ChunksAreSound` | `arena` | `ChunksStaySound` | `ArenaProofs` |
| `RefinesAllocator` | `arena` | `ArenaImplementsAllocator` | `ArenaProofs` |
| `LifetimesAreRight` | `small_vector` | `VectorLifetimesAreRight` | `SmallVectorProofs` |
| `BlocksAreOwnedOnce` | `small_vector` | `VectorBlocksAreOwnedOnce` | `SmallVectorProofs` |
| `HoldsItsSequence` | `small_vector` | `VectorsHoldTheirSequences` | `SmallVectorProofs` |

`BuilderInvariantHolds` and `LookaheadInvariantHolds` are the invariants behind those of the FIRST and FOLLOW
sets and of the lookaheads.

Left to TLC:

* termination, which is liveness under fairness;
* what rests on recursive definitions or on data of any depth: the lexer, regular expressions and their
  languages, `ReadsWhatIsWritten` of the configuration reader, and with the languages of grammars
  `AcceptsExactlyTheLanguage`, `ShiftedIsAViablePrefix` and `ParsesExactlyTheSentences` (that *only* sentences are
  accepted is the recognizer's theorem; that all of them are needs completeness, and fails for some grammars).

## Plan

Done: every component with state of its own is modelled, and the path from a grammar to the driver's
stacks and the trees it builds is proved, and so are the containers below it. Next, in this order:

1. `FlatSet` and `HeapArray` as modules of their own, with the flat indices of `Initialize`.
2. The driver on characters: `LexerAutomaton` in place of the lexemes of `ParserGenerator`.

## Not modelled

* `CppEmitter` and `BootstrapParser`, `Format.h`, `Debug.cc`, `Error.h`: text output and wording; no state that
  another part reads.
* `TypeTrait.h`, `InheritRestrict.h`: compile-time predicates.
* `src/experimental`: not built, against interfaces that are gone. `src/Driver`: a sample, with the generated header
  it includes.
* `FlatSet`, `HeapArray`, `ArrayRef`, `Array`: sets, functions and sequences where the models use them.
  `FlatSet::insert` answers false also when it inserted (`FlatSet.h:118`); its callers look at the size.
* Results nobody uses: the iterators that `SmallVector`'s operations return (`insert` of an initializer list returns none).
* Memory layout (`ASTItem`'s storage, alignment of members) and the failure of `malloc`.
