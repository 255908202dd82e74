SPECIFICATION Spec
CONSTANTS
    MaxBytes = 2
    ChunkSize = 1
    U64Max = 9
    Byte = {0, 1}
    Zero = 0
    Target = target
    Neighbour = neighbour
    Levels = {1, 2}
    NeighbourDnodes <- Neighbours
    None = None
    Hole = Hole
    BlockFreed = FALSE
    MaxLost = 1
INVARIANTS
    RawReconstructed
    AuthenticatedAnyway
    FaithfulAccepted
CONSTRAINT
    Followed
CHECK_DEADLOCK TRUE
