CONSTANTS
    Configurations <- NestedConfigurations
    Inputs <- MCInputs
    NoToken = NoToken
    Ignored = Ignored
SPECIFICATION Spec
INVARIANT NeverAborts
