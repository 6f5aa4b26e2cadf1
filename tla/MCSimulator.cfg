\* All radios and all faults, on two blocks.
CONSTANTS
    Buf = {b1, b2}
    NULL = NULL
    Gps = gps
    Sdr = sdr
    Main = main
    b1 = b1
    b2 = b2
    b3 = b3
    b4 = b4
    gps = gps
    sdr = sdr
    main = main
    Blocks = 20
    Spurious = FALSE
    Radios = {"none", "iqfile", "hackrf", "pluto"}
    Faults = {"sdr_init", "gps_init", "fopen", "push", "start_tx"}
    NumD = 4
    IqSize = 5
    Transfer = 2
SPECIFICATION SimFairSpec
INVARIANTS
    SimTypeOK
    GpsHasBlock
    NoOverrun
    PrefilledStart
    ReadyMeansRunning
PROPERTIES
    ObeysFifo
    NoNullUse
    GenerationEnds
    ExitCompletes
\* The program ends, or hangs as described in the README.
CHECK_DEADLOCK FALSE
