CONSTANTS
    MaxText = 4
    MaxClass = 5
    Inputs <- MCInputs
SPECIFICATION Spec
INVARIANTS
    ReadsBackWhatIsPrinted
    AcceptsTheWellFormed
    ClassesHoldTheirMembers
