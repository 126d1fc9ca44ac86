SPECIFICATION ImageSpec
CONSTANTS
    Volumes <- AllVolumes
    MaximumFiles = 3
    MaximumDirectories = 4
    MaximumDepth = 2
    MaxFailures = 1
    MaxReads = 3
    Requests <- AllRequests
    Booted <- BootedRequests
INVARIANTS
    MountRight
    ReadsTrue
    LayoutSound
    ImageBoots
