CONSTANTS
    MaxText = 1
    MaxClass = 5
    Inputs <- MCInputs
SPECIFICATION Spec
INVARIANTS
    LastDashIsRaw
    ReversedIsTheComplement
    NeverAborts
