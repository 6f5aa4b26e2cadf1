\* The FIFO loses blocks.
CONSTANTS
    Buf = {b1, b2, b3}
    NULL = NULL
    Gps = gps
    Sdr = sdr
    Main = main
    b1 = b1
    b2 = b2
    b3 = b3
    b4 = b4
    gps = gps
    sdr = sdr
    main = main
    Blocks = 5
    Spurious = FALSE
SPECIFICATION Spec
INVARIANTS
    NoBlockLost
