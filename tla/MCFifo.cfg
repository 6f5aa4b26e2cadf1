\* Safety of the FIFO on four blocks, with waits that may return unsignalled.
CONSTANTS
    Buf = {b1, b2, b3, b4}
    NULL = NULL
    Gps = gps
    Sdr = sdr
    Main = main
    b1 = b1
    b2 = b2
    b3 = b3
    b4 = b4
    gps = gps
    sdr = sdr
    main = main
    Blocks = 6
    Spurious = TRUE
SPECIFICATION Spec
SYMMETRY Symmetry
INVARIANTS
    TypeOK
    ExclusiveOwnership
    NoStandoff
    NoLostWakeup
PROPERTIES
    InOrder
    RefinesPool
\* Main may wait for a full FIFO after the last block was generated; then
\* every thread sleeps for good.
CHECK_DEADLOCK FALSE
