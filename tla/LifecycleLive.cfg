SPECIFICATION PipelineSpec
CONSTANTS
    Handlers <- PipelineTypes
    Loses <- TypesLoses
    Blind <- TypesBlind
    Patient <- TypesPatient
    Drops <- TypesDrops
    Keeps <- TypesKeeps
    Stuck <- TypesStuck
    Name = name
    Ids = {i1, i2, i3, name}
    Values = {a}
    UiValue = ui
    None = none
    MaxEdits = 1
    MaxFaults = 1
    MaxUnread = 0
    MaxLags = 1
PROPERTY Converges
