CONSTANTS
    Family = "gap"
    MaxText = 2
    CharCount = 3
    Batches <- MCBatches
    Texts <- MCTexts
SPECIFICATION Spec
INVARIANT FindsEveryToken
