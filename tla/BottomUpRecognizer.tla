------------------------- MODULE BottomUpRecognizer -------------------------
(***************************************************************************)
(* What a bottom-up parser promises, with no states and no tables: it      *)
(* reads the input from left to right, keeps a word of symbols that        *)
(* derives what it has read, and accepts only when that word is the root   *)
(* and nothing is left.  So an accepted input has a derivation.            *)
(***************************************************************************)
EXTENDS Grammars

CONSTANTS NoToken,   \* text no token matches
          Ignored    \* a token the grammar does not speak of

VARIABLES grammar,
          input,      \* the kinds of the lexemes, in order
          form,       \* symbols that derive the part that was read
          consumed,   \* lexemes read
          verdict

vars == <<grammar, input, form, consumed, verdict>>

Init ==
    /\ form = <<>>
    /\ consumed = 0
    /\ verdict = "none"

More == verdict = "none" /\ consumed < Len(input)

Skip ==
    /\ More /\ input[consumed + 1] = Ignored
    /\ consumed' = consumed + 1
    /\ UNCHANGED <<grammar, input, form, verdict>>

Shift ==
    /\ More /\ input[consumed + 1] \in Tokens(grammar)
    /\ consumed' = consumed + 1
    /\ form' = Append(form, input[consumed + 1])
    /\ UNCHANGED <<grammar, input, verdict>>

\* A right-hand side at the end of the form becomes its left-hand side.
Reduce ==
    /\ verdict = "none"
    /\ \E p \in Productions(grammar) : \E base \in 0 .. Len(form) :
        /\ Right(grammar, p) = SubSeq(form, base + 1, Len(form))
        /\ form' = Append(SubSeq(form, 1, base), Left(grammar, p))
    /\ UNCHANGED <<grammar, input, consumed, verdict>>

Accept ==
    /\ verdict = "none"
    /\ consumed = Len(input) /\ form = <<RootVariable(grammar)>>
    /\ verdict' = "accepted"
    /\ UNCHANGED <<grammar, input, form, consumed>>

RejectToken ==
    /\ More /\ input[consumed + 1] = NoToken
    /\ verdict' = "invalid token"
    /\ UNCHANGED <<grammar, input, form, consumed>>

RejectSyntax ==
    /\ verdict = "none"
    /\ verdict' = "parsing error"
    /\ UNCHANGED <<grammar, input, form, consumed>>

Next == Skip \/ Shift \/ Reduce \/ Accept \/ RejectToken \/ RejectSyntax

Spec == Init /\ [][Next]_vars
=============================================================================
