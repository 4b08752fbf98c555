CONSTANTS
    GrammarChoices <- MCGrammarChoices
    WordBound = 3
SPECIFICATION Spec
INVARIANTS
    QueueIsTheUnexpandedStates
    EdgesAreTheTriedGotos
    StatesHoldTheValidItems
    EveryFinishedItemIsMerged
    TablesAreConsistent
    LookaheadsCoverLALR
    LookaheadsAreInFollow
    AbortsOnlyOutsideSLR
