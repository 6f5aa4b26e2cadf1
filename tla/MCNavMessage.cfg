\* One frame to the end of the week and the first words of the next frame; ipage starts as the
\* first page, the last one, or as none.
CONSTANTS
    Starts <- EndOfWeek
    Lags = {66, 67}
    Pages = {0, 24, 1000}
    Until <- AfterWeek
SPECIFICATION Spec
INVARIANTS
    TypeOK
    RightBit
PROPERTIES
    PagesStay
CHECK_DEADLOCK FALSE
