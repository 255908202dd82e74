SPECIFICATION Spec
CONSTANTS
    Path = {file, disk}
    Device = {disk}
    Restricted = {disk}
    Medium = {"zfs1", "zfs2", "image"}
    Zfs = {"zfs1", "zfs2"}
    Image = {"image"}
    View = {"v1", "v2", "plain"}
    Encrypted = {"v1", "v2"}
    Key = {"k1", "k2"}
    KeyOf <- KeyFor
    Dir = {"root", "sub"}
    Root = "root"
    Volume = {"vol"}
    MaxLayers = 2
    None = None
INVARIANTS
    KeyFitsView
    RestoredIsShown
    OnlyItsHandle
CHECK_DEADLOCK TRUE
