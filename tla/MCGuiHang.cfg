\* A small console on which the program goes on, and no signals.
CONSTANTS
    Consoles = {FALSE}
    Signals = {}
SPECIFICATION GuiFairSpec
PROPERTIES
    CallsReturn
CHECK_DEADLOCK FALSE
