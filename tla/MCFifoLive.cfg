\* Progress of the FIFO on three blocks; waits return only when signalled.
CONSTANTS
    Buf = {b1, b2, b3}
    NULL = NULL
    Gps = gps
    Sdr = sdr
    Main = main
    b1 = b1
    b2 = b2
    b3 = b3
    b4 = b4
    gps = gps
    sdr = sdr
    main = main
    Blocks = 5
    Spurious = FALSE
SPECIFICATION FairSpec
INVARIANTS
    NoNullBlock
PROPERTIES
    HaltReleasesAll
    StreamDrains
    WaitNextReturns
\* Main may wait for a full FIFO after the last block was generated; then
\* every thread sleeps for good.
CHECK_DEADLOCK FALSE
