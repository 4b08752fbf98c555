CONSTANTS
    MaxTokens = 0
    Hosted = TRUE
    Configs <- MCConfigs
SPECIFICATION Spec
INVARIANT AssertionsHold
CHECK_DEADLOCK FALSE
