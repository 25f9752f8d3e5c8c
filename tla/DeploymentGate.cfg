SPECIFICATION Spec
CONSTANTS
    Names = {"a", "b"}
    Types = {"monitor", "fdd"}
    Options = {"x", "y"}
    UiRules <- MCUiRules
    Configs <- MCConfigs
    Values <- MCValues
    GateIds = {g1, g2}
    RuleIds = {r1, r2, r3, r4, r5}
    None = none
    MaxEdits = 1
    MaxFaults = 2
SYMMETRY RuleIdSymmetry
INVARIANTS OneEntryPerRule AppliedMeansExact NoChangesMeansPresent NoOrphanGate
PROPERTY KeepsConfiguredRules
