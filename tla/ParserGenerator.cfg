CONSTANTS
    GrammarChoices <- MCGrammarChoices
    Texts <- MCTexts
    Letters <- MCLetters
    Digits <- MCDigits
    Inputs <- MCInputs
    NoToken = NoToken
    Ignored = Ignored
SPECIFICATION FairSpec
INVARIANTS
    ReadsWhatIsWritten
    TablesFitTheDriver
    ParsesExactlyTheSentences
PROPERTY Terminates
