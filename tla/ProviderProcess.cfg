SPECIFICATION Spec
CONSTANTS
    w1 = w1
    w2 = w2
    w3 = w3
    Workers = {w1, w2, w3}
    Scenarios <- MCScenarios
    Customers <- MCCustomers
    Permissions = {"p", "q"}
    Null = Null
    None = None
    MaxFaults = 2
    MaxOutside = 1
INVARIANTS
    NoOwnCollisions
    OneObjectEach
    CheckedBeforeUse
    RetriesAgree
    PlansKnowPermissions
PROPERTY
    Terminates
