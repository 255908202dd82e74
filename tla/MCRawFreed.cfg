SPECIFICATION Spec
CONSTANTS
    MaxBytes = 2
    ChunkSize = 1
    U64Max = 9
    Byte = {0, 1}
    Zero = 0
    Target = target
    Neighbour = neighbour
    Levels = {1, 2}
    NeighbourDnodes <- Neighbours
    None = None
    Hole = Hole
    BlockFreed = TRUE
    MaxLost = 0
INVARIANT
    DeletedRefused
CHECK_DEADLOCK TRUE
