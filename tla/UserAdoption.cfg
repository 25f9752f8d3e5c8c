CONSTANTS
    r1 = r1
    r2 = r2
    Ids = {1, 2, 3}
    Page = 2
    Emails <- MCEmails
    Roles = {r1, r2}
    Configs <- MCConfigs
    Organisations <- MCOrganisations
    Contains <- MCContains
    None = none
    MaxEdits = 1
    MaxFaults = 1
    MaxChoices = 1
SPECIFICATION Spec
PROPERTIES
    MatchesOnEmail
