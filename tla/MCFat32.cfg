SPECIFICATION Spec
CONSTANTS
    Modulus = 32
    Drives = {0, 1}
    BootSectors <- MCBootSectors
INVARIANTS
    TypeOK
    KeepsAccepted
    MountedTogether
    DriveAskedFor
    ClustersInVolume
CHECK_DEADLOCK FALSE
