\* Three satellites compete for two channels; three sets of ephemerides.
CONSTANTS
    MaxChan = 2
    MaxSat = 3
    Sets = 3
    Files <- SmallFiles
SPECIFICATION Spec
INVARIANTS
    TypeOK
    TablesAgree
    HasEphemeris
    MessageNearlyCurrent
PROPERTIES
    AllocationSettles
