SPECIFICATION Spec
CONSTANTS
    Sources <- AllSources
    Ids <- MCIds
    Asked = {1, 2}
    Organisations <- MCOrganisations
    PageSize = 2
    None = None
    MaxEdits = 2
    MaxFaults = 1
INVARIANTS
    FoundIsTheOne
    NothingIsMissed
PROPERTY
    Terminates
CHECK_DEADLOCK FALSE
