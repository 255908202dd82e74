SPECIFICATION WindowsSpec
CONSTANTS
    Source = {a, disk}
    ZfsSource = {a, disk}
    ImageSource = {disk}
    View = {v1, v2}
    Encrypted = {v1, v2}
    Dir = {root, sub}
    Root = root
    Volume = {x, y}
    MaxFrames = 2
    None = None
CONSTRAINT FewKeys
SYMMETRY Interchangeable
INVARIANTS
    UpdateKeyInScope
CHECK_DEADLOCK TRUE
