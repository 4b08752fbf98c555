CONSTANTS
    MaxTokens = 3
    Hosted = TRUE
    Configs <- MCConfigs
SPECIFICATION Spec
INVARIANTS
    TypedConfigurationsAreSafe
    NodesAreHeldOnce
    LocationsNest
    FieldsHoldTheirTypes
CHECK_DEADLOCK FALSE
