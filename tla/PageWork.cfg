SPECIFICATION FairSpec
CONSTANTS
    l1 = l1
    l2 = l2
    Leads = {l1, l2}
    Includes <- MCPairs
    Alike <- MCPairs
    Wordless = {l2}
    City <- MCCity
    NoCity = NoCity
    Looks <- MCLooks
    None = None
INVARIANTS TypeOK PauseHasCause ContactBelongs ContactIsSupported
PROPERTIES SeenRowsAreKept CycleEnds LogoutNoticed
