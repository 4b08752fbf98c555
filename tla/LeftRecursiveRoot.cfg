CONSTANTS
    GrammarChoices <- LeftRecursiveChoices
    Texts <- MCTexts
    Letters <- MCLetters
    Digits <- MCDigits
    Inputs <- MCInputs
    NoToken = NoToken
    Ignored = Ignored
SPECIFICATION GeneratorSpec
INVARIANT ParsesTheLanguage
