\* The FIFO is destroyed under its consumer; nothing fails here.
CONSTANTS
    Buf = {b1, b2}
    NULL = NULL
    Gps = gps
    Sdr = sdr
    Main = main
    b1 = b1
    b2 = b2
    b3 = b3
    b4 = b4
    gps = gps
    sdr = sdr
    main = main
    Blocks = 20
    Spurious = FALSE
    Radios = {"none", "iqfile", "hackrf", "pluto"}
    Faults = {}
    NumD = 4
    IqSize = 5
    Transfer = 2
SPECIFICATION SimFairSpec
PROPERTIES
    DestroyAfterUsers
\* The program ends, or hangs as described in the README.
CHECK_DEADLOCK FALSE
