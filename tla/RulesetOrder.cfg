CONSTANTS
    r1 = r1
    r2 = r2
    r3 = r3
    Rulesets <- MCRulesets
    Initial <- MCInitial
    Configs <- MCConfigs
    MaxEdits = 2
    MaxFaults = 2
    MaxRewrites = 2
SPECIFICATION FairSpec
INVARIANTS
    TypeOK
    DeletesOnlyListedUnmanaged
    UnmanagedKeepsPlaceNoRepeats
    NoChangesMeansConforming
PROPERTIES
    AppliedMeansOrdered
    OwnsItsOrder
    Converges
