SPECIFICATION MCSpec
CONSTANTS
    MaxBytes = 3
    MaxWrites = 2
    U64Max = 9
    Guid = {g1, g2, g3}
    Chain = {g1, g2}
    ObjectType = {file, other}
    Reader = {r1, r2}
    ImageSize = {3}
    Zero = Zero
    Absent = Absent
    MaxBlocks = 9
    MaxEbr = 3
    MaxDepth = 2
    CopyBuffer = 2
    Key = {k1}
    None = None
    Disks <- MCDisks
    Window <- MCWindow
SYMMETRY Alike
INVARIANTS
    LabelsBeforePartitions
CHECK_DEADLOCK FALSE
