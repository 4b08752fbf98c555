CONSTANTS
    Family = "small"
    MaxText = 3
    CharCount = 3
    Batches <- MCBatches
    Texts <- MCTexts
SPECIFICATION Spec
INVARIANTS
    FindsTheLongestMatch
    LexemesMatchTheirToken
    FollowersAreFound
PROPERTY Terminates
