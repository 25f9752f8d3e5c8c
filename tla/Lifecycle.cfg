SPECIFICATION Spec
CONSTANTS
    Handlers <- AllTypes
    Loses <- TypesLoses
    Blind <- TypesBlind
    Patient <- TypesPatient
    Drops <- TypesDrops
    Keeps <- TypesKeeps
    Stuck <- TypesStuck
    Name = name
    Ids = {i1, i2, i3, i4, name}
    Values = {a, b}
    UiValue = ui
    None = none
    MaxEdits = 1
    MaxFaults = 1
    MaxUnread = 1
    MaxLags = 1
SYMMETRY Symmetry
INVARIANTS TypeOK NoOrphans SettledMeansTrue
PROPERTY DroppedOnlyWhenGone
