\* The program does not end when its consumer is gone.
CONSTANTS
    Buf = {b1, b2}
    NULL = NULL
    Gps = gps
    Sdr = sdr
    Main = main
    b1 = b1
    b2 = b2
    b3 = b3
    b4 = b4
    gps = gps
    sdr = sdr
    main = main
    Blocks = 20
    Spurious = FALSE
    Radios = {"none", "iqfile", "hackrf", "pluto"}
    Faults = {"sdr_init", "gps_init", "fopen", "push", "start_tx"}
    NumD = 4
    IqSize = 5
    Transfer = 2
SPECIFICATION SimFairSpec
PROPERTIES
    TerminationHonoured
\* The program ends, or hangs as described in the README.
CHECK_DEADLOCK FALSE
