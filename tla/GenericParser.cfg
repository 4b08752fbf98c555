CONSTANTS
    Configurations <- MCConfigurations
    Inputs <- MCInputs
    NoToken = NoToken
    Ignored = Ignored
SPECIFICATION Spec
INVARIANTS
    StackFollowsAutomaton
    HandleIsOnTop
    WaitingRootNeverAborts
    LocationsAreOrdered
    AcceptsExactlyTheLanguage
    ShiftedIsAViablePrefix
PROPERTY
    RefinesRecognizer
