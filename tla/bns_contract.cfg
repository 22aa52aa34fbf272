SPECIFICATION Spec
CONSTANTS
    Names <- Family
    Parent <- FamilyParent
    Accounts = {"u"}
    Kids = {"k1", "k2"}
    DocTypes = {"owner"}
    Renewable = {"a"}
    MaxTime = 1
    MaxSeq = 6
    Scenarios <- FourScenarios
INVARIANT LineagesApart
PROPERTY NothingGoesBack
PROPERTY OwnerStaysReachable
CHECK_DEADLOCK FALSE
