SPECIFICATION Spec
CONSTANTS
    FatSector = 512
    ClusterBytes = 512
    ClusterCount = 65
    RootSlots = 224
    DirSlots = 16
    MaxFile = 4096
    NodeLimit = 24
    FdLimit = 16
    MaxFaults = 2
    MaxWrite = 16
    MaxBoots = 4
INVARIANTS
    OnlyOnSound
    FilesKept
PROPERTY
    GatePasses
CHECK_DEADLOCK FALSE
