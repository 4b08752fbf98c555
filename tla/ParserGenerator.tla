-------------------------- MODULE ParserGenerator ---------------------------
(***************************************************************************)
(* GenericParser as a whole: Initialize reads a configuration (module      *)
(* Configuration), takes the grammar from it, builds its automaton (module *)
(* LALRAutomaton, extended here) and copies that into tables, and Parse    *)
(* runs over the tables (module GenericParser).                            *)
(*                                                                         *)
(* grammar is from the start what the text is expected to hold; of a text  *)
(* that turns out to hold another one only the reading is followed.        *)
(***************************************************************************)
EXTENDS LALRAutomaton, SequencesExt

CONSTANTS Texts(_), Inputs(_), NoToken, Ignored, Letters, Digits

VARIABLES text, place, configuration, reading,
          config, data, loaded, offset, tok, state_stack, ast_stack, result,
          parsing            \* the pc of Parse, "idle" before it is called

C == INSTANCE Configuration
R == INSTANCE GenericParser WITH Configurations <- {}, pc <- parsing

\* What LoadToken finds in a text is a token of the grammar, an ignored one or
\* none.
ASSUME InputsAssumption ==
    /\ NoToken # Ignored
    /\ \A gr \in GrammarChoices :
        /\ NoToken \notin Tokens(gr) /\ Ignored \notin Tokens(gr)
        /\ Inputs(gr) \subseteq Seq(R!Lexemes(gr))

configuration_vars == <<text, place, configuration, reading>>
parse_vars ==
    <<config, data, loaded, offset, tok, state_stack, ast_stack, result, parsing>>
generator_vars == <<configuration_vars, vars, parse_vars>>

Empty == [grammar |-> <<>>, pda |-> <<>>]

GeneratorInit ==
    /\ Init
    /\ text \in Texts(grammar) /\ C!ConfigurationInit
    /\ config = Empty /\ data = <<>> /\ loaded = 0 /\ offset = 0
    /\ tok = R!NullToken /\ state_stack = <<>> /\ ast_stack = <<>>
    /\ result = R!NullToken /\ parsing = "idle"

\* LoadSymbolInfo: the names of tokens and rules, and the items of all rules.
GrammarOf(c) ==
    LET symbols(item) == [i \in DOMAIN item.rhs |-> Head(item.rhs[i].symbol)]
    IN  [tokens |-> [i \in DOMAIN c.tokens |-> Head(c.tokens[i].name)],
         variables |-> [i \in DOMAIN c.rules |-> Head(c.rules[i].name)],
         productions |-> FlattenSeq([r \in DOMAIN c.rules |->
            [i \in DOMAIN c.rules[r].items |->
                [lhs |-> Head(c.rules[r].name), rhs |-> symbols(c.rules[r].items[i])]]])]

\* ParseConfig
ReadConfiguration == C!ReadConfiguration /\ UNCHANGED <<vars, parse_vars>>

Expected == reading = "read" /\ GrammarOf(configuration) = grammar

\* ResolveParserInfo; the text and the ParserConfiguration go when it returns.
ResolveParserInfo ==
    /\ Expected
    /\ reading' = "resolved"
    /\ text' = <<>> /\ place' = 1 /\ configuration' = C!Empty
    /\ UNCHANGED <<vars, parse_vars>>

\* TranslateAction
TranslateAction(edge) ==
    IF edge.type = "shift" THEN R!ShiftAction(edge.target)
                           ELSE R!ReduceAction(edge.production)

\* Mutant: the goto table is filled with 0.
GotoTable_Zero ==
    [i \in DOMAIN states |-> [v \in Variables(grammar) |->
        IF v \in DOMAIN goto_map[i] THEN goto_map[i][v] ELSE 0]]

GotoTable ==
    [i \in DOMAIN states |-> [v \in Variables(grammar) |->
        IF v \in DOMAIN goto_map[i] THEN goto_map[i][v] ELSE R!NoState]]

\* action_table_, eof_action_table_, goto_table_: ActionError and -1 where the
\* automaton has no entry.
Tables ==
    [items |-> states,
     action |-> [i \in DOMAIN states |-> [t \in Tokens(grammar) |->
        IF t \in DOMAIN action_map[i] THEN TranslateAction(action_map[i][t])
                                      ELSE R!ErrorAction]],
     eof |-> [i \in DOMAIN states |->
        IF eof_action[i] = {} THEN R!ErrorAction
        ELSE R!ReduceAction(CHOOSE p \in eof_action[i] : TRUE)],
     goto |-> GotoTable]

BuildAutomaton == reading = "resolved" /\ Step /\ UNCHANGED <<configuration_vars, parse_vars>>

\* The tables are filled and Parse is called on some text.
CallParse ==
    /\ pc = "done" /\ parsing = "idle"
    /\ LET c == [grammar |-> grammar, pda |-> Tables]
       IN  /\ config' = c
           /\ \E input \in Inputs(grammar) : data' = input
    /\ parsing' = "load"
    /\ UNCHANGED <<configuration_vars, vars, loaded, offset, tok, state_stack, ast_stack, result>>

Parse == parsing # "idle" /\ R!Step /\ UNCHANGED <<configuration_vars, vars>>

Generate == BuildAutomaton \/ CallParse \/ Parse

GeneratorStep == ReadConfiguration \/ ResolveParserInfo \/ Generate

GeneratorStopped == reading = "error" \/ (reading = "read" /\ ~Expected) \/ pc = "aborted" \/ R!Stopped

GeneratorNext == GeneratorStep \/ (GeneratorStopped /\ UNCHANGED generator_vars)

GeneratorSpec == GeneratorInit /\ [][GeneratorNext]_generator_vars
FairSpec == GeneratorSpec /\ WF_generator_vars(Generate)

-----------------------------------------------------------------------------
\* The tables the driver gets are the ones its correctness rests on: they
\* agree with the LR(0) automaton, and a root that is on no right-hand side
\* is reduced at the end of the input only.
TablesFitTheDriver ==
    parsing # "idle" =>
        /\ R!ConsistentPda(config)
        /\ RootIsFresh(grammar) => R!RootWaitsForEof(config)

\* Construction and parsing end.
Terminates == reading = "resolved" ~> GeneratorStopped
=============================================================================
