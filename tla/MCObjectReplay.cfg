SPECIFICATION Spec
CONSTANTS
    MaxBytes = 3
    ChunkSize = 2
    U64Max = 9
    Byte = {0, 1}
    Zero = 0
    Where = {"bonus", "spill"}
    LayoutMoves = FALSE
    None = None
INVARIANTS
    TypeOK
    Reconstructed
    FaithfulSoFar
    RefusalMeansUnchanged
CHECK_DEADLOCK TRUE
