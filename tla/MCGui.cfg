\* Large and small consoles, with two of the three signals.
CONSTANTS
    Consoles = {FALSE, TRUE}
    Signals = {"SIGINT", "SIGTERM"}
SPECIFICATION GuiFairSpec
INVARIANTS
    GuiTypeOK
    Exclusive
    DestroyedAlone
    LockReturned
    TopWindowAgrees
PROPERTIES
    ExitReached
\* The program ends, or hangs as described in the README.
CHECK_DEADLOCK FALSE
