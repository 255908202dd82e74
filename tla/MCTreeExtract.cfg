SPECIFICATION Spec
CONSTANTS
    Trees <- MCTrees
    Root = "r"
    BadName = "bad"
    MaxEntries = 7
    MaxDepth = 2
    U64Max = 7
    None = None
INVARIANTS
    PreviousNeverLost
    AllOrNothing
    SuccessIsComplete
PROPERTY
    Terminates
CHECK_DEADLOCK TRUE
