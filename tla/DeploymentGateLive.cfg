SPECIFICATION PipelineSpec
CONSTANTS
    Names = {"a", "b"}
    Types = {"monitor", "fdd"}
    Options = {"x", "y"}
    UiRules <- MCUiRules
    Configs <- PipelineConfigs
    Values <- MCValues
    GateIds = {g1, g2}
    RuleIds = {r1, r2, r3, r4}
    None = none
    MaxEdits = 1
    MaxFaults = 1
PROPERTY Converges
