CONSTANTS
    GrammarChoices <- DivergentChoices
    WordBound = 3
SPECIFICATION Spec
INVARIANTS
    LALRGrammarsAreAccepted
    EmptyProductionsAreHandled
