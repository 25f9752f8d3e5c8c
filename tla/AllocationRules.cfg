CONSTANTS
    Keys <- MCKeys
    Configs <- MCConfigs
    Vals <- MCVals
    UiRules = 1
    MaxIds = 5
    MaxEdits = 1
    MaxFaults = 1
    MaxRewrites = 1
SPECIFICATION Spec
INVARIANTS
    KeepsConfiguredRules
PROPERTIES
    AppliedMeansOrdered
    OwnsItsOrder
    Converges
