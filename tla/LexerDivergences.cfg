CONSTANTS
    Family = "nested plus"
    MaxText = 1
    CharCount = 3
    Batches <- MCBatches
    Texts <- MCTexts
SPECIFICATION Spec
INVARIANTS
    NullableIsExact
    CharactersAreVerified
