--------------------------- MODULE GenericParser ----------------------------
(***************************************************************************)
(* GenericParser::Parse (Parser.cc): the shift-reduce loop over the tables *)
(* of an automaton.                                                        *)
(*                                                                         *)
(* The data is the sequence of the lexemes LoadToken will find in it, each *)
(* with its kind and its length; NoToken is the kind of a place where no   *)
(* token matches, and the tag -1 of the token that stands for the end of   *)
(* the input.  An AST item is what ASTHandle::Invoke keeps for every       *)
(* handle: the symbol it was built for and its location.                   *)
(*                                                                         *)
(* A failed assertion ends the program (pc = "aborted"), an exception ends *)
(* the call (pc = "parsing error" or "invalid token").                     *)
(***************************************************************************)
EXTENDS Grammars

CONSTANTS Configurations,   \* records [grammar, pda]
          Inputs(_),        \* the data to parse with a grammar
          NoToken, Ignored

\* The tables Initialize fills: action_table_, eof_action_table_ and
\* goto_table_, and beside them the item sets the automaton was built from.
ErrorAction == [type |-> "error"]
ShiftAction(d) == [type |-> "shift", target |-> d]
ReduceAction(p) == [type |-> "reduce", production |-> p]

NoState == -1
States(c) == DOMAIN c.pda.items

Lexemes(gr) == [token : Tokens(gr) \cup {Ignored, NoToken}, length : Nat \ {0}]

\* p may be reduced in state s: its item is finished there, and it is not an
\* empty production.
MayReduce(c, s, p) ==
    /\ p \in Productions(c.grammar)
    /\ Right(c.grammar, p) # <<>>
    /\ Item(p, Len(Right(c.grammar, p))) \in c.pda.items[s]

\* The tables are tables of the LR(0) automaton of the grammar.  LALRAutomaton
\* is checked to build such tables (TablesAreConsistent).
ConsistentPda(c) ==
    /\ States(c) # {} /\ 0 \in States(c) /\ States(c) \subseteq Nat
    /\ c.pda.items[0] = InitialItems(c.grammar)
    /\ \A s \in States(c) : \A t \in Tokens(c.grammar) :
        \/ c.pda.action[s][t] = ErrorAction
        \/ \E d \in States(c) :
            /\ c.pda.action[s][t] = ShiftAction(d)
            /\ c.pda.items[d] = GotoItems(c.grammar, c.pda.items[s], t)
        \/ \E p \in Productions(c.grammar) :
            /\ c.pda.action[s][t] = ReduceAction(p)
            /\ MayReduce(c, s, p)
    /\ \A s \in States(c) :
        \/ c.pda.eof[s] = ErrorAction
        \/ \E p \in Productions(c.grammar) :
            c.pda.eof[s] = ReduceAction(p) /\ MayReduce(c, s, p)
    /\ \A s \in States(c) : \A v \in Variables(c.grammar) :
        LET dest == GotoItems(c.grammar, c.pda.items[s], v)
        IN  \/ c.pda.goto[s][v] = NoState /\ dest = {}
            \/ /\ c.pda.goto[s][v] \in States(c)
               /\ c.pda.items[c.pda.goto[s][v]] = dest

ASSUME ConfigurationsAssumption ==
    \A c \in Configurations :
        /\ IsGrammar(c.grammar)
        /\ NoToken \notin Tokens(c.grammar) /\ Ignored \notin Tokens(c.grammar)
        /\ ConsistentPda(c)
        /\ Inputs(c.grammar) \subseteq Seq(Lexemes(c.grammar))

ASSUME KindsAssumption == NoToken # Ignored

VARIABLES config,
          data,          \* the lexemes of the text
          loaded,        \* lexemes taken by LoadToken
          offset,        \* characters taken
          tok,           \* the token being fed
          state_stack, ast_stack,
          result,        \* what Parse returns
          pc

vars == <<config, data, loaded, offset, tok, state_stack, ast_stack, result, pc>>

g == config.grammar
pda == config.pda

NullToken == [token |-> NoToken, offset |-> -1, length |-> -1]
IsValid(t) == t.token # NoToken

Location(symbol, from, to) == [symbol |-> symbol, offset |-> from, length |-> to - from]
EndOf(ast) == ast.offset + ast.length

\* Mutant: the front of the stack.
Top_Front(stack) == IF stack = <<>> THEN 0 ELSE stack[1]

\* CurrentState of ParserContext, for a stack.
Top(stack) == IF stack = <<>> THEN 0 ELSE stack[Len(stack)]

\* The state of a call of Parse before its loop.
StartParse(c, text) ==
    /\ config = c
    /\ data = text
    /\ loaded = 0 /\ offset = 0
    /\ tok = NullToken
    /\ state_stack = <<>> /\ ast_stack = <<>>
    /\ result = NullToken
    /\ pc = "load"

Init == \E c \in Configurations : \E text \in Inputs(c.grammar) : StartParse(c, text)

-----------------------------------------------------------------------------
(* The loop of Parse                                                       *)

Lexeme == data[loaded + 1]

\* Mutant: the offset is not moved.
LoadToken_SameOffset ==
    /\ pc = "load" /\ loaded < Len(data)
    /\ Lexeme.token \in Tokens(g)
    /\ tok' = [token |-> Lexeme.token, offset |-> offset, length |-> Lexeme.length]
    /\ loaded' = loaded + 1
    /\ pc' = "feed"
    /\ UNCHANGED <<config, data, offset, state_stack, ast_stack, result>>

LoadToken ==
    /\ pc = "load" /\ loaded < Len(data)
    /\ Lexeme.token \in Tokens(g)
    /\ tok' = [token |-> Lexeme.token, offset |-> offset, length |-> Lexeme.length]
    /\ offset' = offset + Lexeme.length
    /\ loaded' = loaded + 1
    /\ pc' = "feed"
    /\ UNCHANGED <<config, data, state_stack, ast_stack, result>>

\* Mutant: the token is ignored before the offset is moved.
SkipToken_Stays ==
    /\ pc = "load" /\ loaded < Len(data)
    /\ Lexeme.token = Ignored
    /\ UNCHANGED vars

\* tok.Tag() >= term_num_: ignore tokens in blacklist
SkipToken ==
    /\ pc = "load" /\ loaded < Len(data)
    /\ Lexeme.token = Ignored
    /\ offset' = offset + Lexeme.length
    /\ loaded' = loaded + 1
    /\ UNCHANGED <<config, data, tok, state_stack, ast_stack, result, pc>>

\* throw ParserInternalError "invalid token encountered"
ThrowInvalidToken ==
    /\ pc = "load" /\ loaded < Len(data)
    /\ Lexeme.token = NoToken
    /\ pc' = "invalid token"
    /\ UNCHANGED <<config, data, loaded, offset, tok, state_stack, ast_stack, result>>

\* The text is used up: FeedParserContext(ctx, {}).
LoadEof ==
    /\ pc = "load" /\ loaded = Len(data)
    /\ tok' = NullToken
    /\ pc' = "feed"
    /\ UNCHANGED <<config, data, loaded, offset, state_stack, ast_stack, result>>

-----------------------------------------------------------------------------
(* FeedParserContext                                                       *)

CurrentState == Top(state_stack)

\* LookupParserAction, LookupParserActionOnEof
CurrentAction ==
    IF IsValid(tok) THEN pda.action[CurrentState][tok.token]
                    ELSE pda.eof[CurrentState]

Feeding(type) ==
    pc = "feed" /\ CurrentState \in States(config) /\ CurrentAction.type = type

FeedShift ==
    /\ Feeding("shift")
    /\ state_stack' = Append(state_stack, CurrentAction.target)
    /\ ast_stack' = Append(ast_stack,
                           Location(tok.token, tok.offset, tok.offset + tok.length))
    /\ pc' = "load"
    /\ UNCHANGED <<config, data, loaded, offset, tok, result>>

\* Mutant: the goto of the state before the right-hand side is popped.
GotoFrom_Above(below, p) == pda.goto[CurrentState][Left(g, p)]

\* LookupParsingGoto
GotoFrom(below, p) == pda.goto[Top(below)][Left(g, p)]

\* What the handle makes of the items above base.
Folded(p, base) ==
    Location(Left(g, p), ast_stack[base + 1].offset, EndOf(ast_stack[Len(ast_stack)]))

\* Mutants: the depth is tested as it was before the push; it is not tested;
\* the end of the input is not.
RootIsFolded_Before(p, base) ==
    ~IsValid(tok) /\ base = 1 /\ Left(g, p) = RootVariable(g)
RootIsFolded_AnyDepth(p, base) == ~IsValid(tok) /\ Left(g, p) = RootVariable(g)
RootIsFolded_AnyToken(p, base) == base = 0 /\ Left(g, p) = RootVariable(g)

\* The condition on which a reduction consumes the end of the input.
RootIsFolded(p, base) == ~IsValid(tok) /\ base = 0 /\ Left(g, p) = RootVariable(g)

\* ExecuteReduce, the goto and the push of the folded item.  The entries of
\* the right-hand side are the last ones of both stacks.
FeedReduce ==
    /\ Feeding("reduce")
    /\ LET p == CurrentAction.production
           base == Len(state_stack) - Len(Right(g, p))
           below == SubSeq(state_stack, 1, base)
       IN  /\ state_stack' = Append(below, GotoFrom(below, p))
           /\ ast_stack' = Append(SubSeq(ast_stack, 1, base), Folded(p, base))
           /\ pc' = IF RootIsFolded(p, base) THEN "finalize" ELSE "feed"
    /\ UNCHANGED <<config, data, loaded, offset, tok, result>>

\* Mutant: the loop is left without the exception.
FeedError_Breaks ==
    /\ Feeding("error")
    /\ pc' = IF IsValid(tok) THEN "load" ELSE "parsing error"
    /\ UNCHANGED <<config, data, loaded, offset, tok, state_stack, ast_stack, result>>

\* throw ParserInternalError "parsing error"
FeedError ==
    /\ Feeding("error")
    /\ pc' = "parsing error"
    /\ UNCHANGED <<config, data, loaded, offset, tok, state_stack, ast_stack, result>>

\* assert(VerifyParsingState(state)) in LookupParserAction.  The assertions
\* that do not appear as actions never fail: see HandleIsOnTop.
AbortOnState ==
    /\ pc = "feed" /\ CurrentState \notin States(config)
    /\ pc' = "aborted"
    /\ UNCHANGED <<config, data, loaded, offset, tok, state_stack, ast_stack, result>>

Finalize ==
    /\ pc = "finalize"
    /\ result' = ast_stack[Len(ast_stack)]
    /\ state_stack' = <<>> /\ ast_stack' = <<>>
    /\ pc' = "accepted"
    /\ UNCHANGED <<config, data, loaded, offset, tok>>

Step == \/ LoadToken \/ SkipToken \/ ThrowInvalidToken \/ LoadEof
        \/ FeedShift \/ FeedReduce \/ FeedError \/ AbortOnState \/ Finalize

Stopped == pc \in {"accepted", "parsing error", "invalid token", "aborted"}

Next == Step \/ (Stopped /\ UNCHANGED vars)

Spec == Init /\ [][Next]_vars

-----------------------------------------------------------------------------
Depth == Len(state_stack)
StateBelow(k) == IF k = 1 THEN 0 ELSE state_stack[k - 1]

AstItems == [symbol : Symbols(g), offset : Int, length : Int]

\* The stacks are of one height and hold states and located symbols.
TypeOK ==
    /\ loaded \in 0 .. Len(data) /\ offset \in Nat
    /\ tok \in [token : Tokens(g) \cup {NoToken}, offset : Int, length : Int]
    /\ state_stack \in Seq(States(config) \cup {NoState})
    /\ ast_stack \in Seq(AstItems)
    /\ Len(ast_stack) = Depth
    /\ pc \in {"load", "feed", "finalize"} \cup
              {"accepted", "parsing error", "invalid token", "aborted"}

\* Every state on the stack is the one the automaton goes to from the state
\* below it over the symbol kept beside it; only a root that was folded at the
\* bottom may have none.
StackFollowsAutomaton ==
    \A k \in 1 .. Depth :
        LET dest == GotoItems(g, pda.items[StateBelow(k)], ast_stack[k].symbol)
        IN  /\ StateBelow(k) \in States(config)
            /\ \/ state_stack[k] \in States(config) /\ pda.items[state_stack[k]] = dest
               \/ /\ k = 1 /\ Depth = 1 /\ state_stack[k] = NoState
                  /\ ast_stack[k].symbol = RootVariable(g) /\ dest = {}

\* When a production is to be reduced its whole right-hand side lies on top of
\* the stacks: no pop_back on an empty stack, and the handle is given the
\* items it was written for.
HandleIsOnTop ==
    Feeding("reduce") =>
        LET rhs == Right(g, CurrentAction.production)
        IN  /\ rhs # <<>> /\ Len(rhs) <= Depth
            /\ \A i \in 1 .. Len(rhs) :
                ast_stack[Depth - Len(rhs) + i].symbol = rhs[i]

\* Root productions are reduced at the end of the input only.
RootWaitsForEof(c) ==
    \A s \in States(c), t \in Tokens(c.grammar), p \in Productions(c.grammar) :
        c.pda.action[s][t] = ReduceAction(p) =>
            Left(c.grammar, p) # RootVariable(c.grammar)

\* With tables that keep the root for the end no assertion fails, whatever the
\* input: syntax errors are reported by exceptions.
WaitingRootNeverAborts == RootWaitsForEof(config) => pc # "aborted"

\* Parser.h:49 and Parser.h:53 assert it for every call.
NeverAborts == pc # "aborted"

\* Finalize finds one item, the root, and its assertion holds.
FinalizeFindsTheRoot ==
    pc = "finalize" => Depth = 1 /\ ast_stack[1].symbol = RootVariable(g)

\* Locations: the items on the stack lie in the text in the order of the
\* stack, not empty and not overlapping, all of them in the part consumed.
LocationsAreOrdered ==
    /\ \A k \in 1 .. Depth : ast_stack[k].length > 0 /\ EndOf(ast_stack[k]) <= offset
    /\ \A j, k \in 1 .. Depth : j < k => EndOf(ast_stack[j]) <= ast_stack[k].offset

-----------------------------------------------------------------------------
(* The driver is a bottom-up recognizer.                                   *)

\* A token counts as read when it is shifted.
InHand == pc \in {"feed", "parsing error", "aborted"} /\ IsValid(tok)

\* What the recognizer sees of the driver.
Input == [i \in DOMAIN data |-> data[i].token]
Form == IF pc = "accepted" THEN <<result.symbol>>
        ELSE [k \in DOMAIN ast_stack |-> ast_stack[k].symbol]
Consumed == IF InHand THEN loaded - 1 ELSE loaded
Verdict == IF Stopped /\ pc # "aborted" THEN pc ELSE "none"

Recognizer ==
    INSTANCE BottomUpRecognizer WITH
        grammar <- g, input <- Input, form <- Form, consumed <- Consumed,
        verdict <- Verdict

\* Every step of the driver is a step of the recognizer or changes nothing
\* that it sees; so an accepted input is derived from the root.
RefinesRecognizer == Recognizer!Spec
=============================================================================
