SPECIFICATION Spec
CONSTANTS
    k1 = k1
    k2 = k2
    Key = {k1, k2}
    None = None
    Failed = Failed
    Lost = Lost
    Zeroes = Zeroes
    Pools <- MCPools
    Calls <- MCCalls
    Hidden = {"$o"}
    MaxBlockSize = 16
    MaxIndirectLevels = 3
    MaxZapBlocks = 2
    MaxDecays = 1
    MaxDatasets = 4
    MaxSnapshots = 2
    MaxParentWalk = 3
    MaxCalls = 2
INVARIANTS
    DeliveredIsWritten
    ListingIsDirectory
    CatalogComplete
    KeyIsTheDatasets
    OutputCertified
PROPERTIES
    WrittenSuffices
    Terminates
CHECK_DEADLOCK TRUE
