\* A file with more sets of ephemerides than the array holds.
CONSTANTS
    MaxChan = 1
    MaxSat = 2
    Sets = 3
    Files <- AllFiles
    NavFiles <- SmallFiles
    StartTimes <- SomeStarts
    StrayDays <- SomeDays
    NavFaults = {}
    Period = 1800
    Until = 18000
    AlmanacEnabled = {FALSE, TRUE}
    Counts = {0, 1}
    AlmanacTimes <- SomeTimes
    Ids = {0, 3}
    Years <- AllYears
SPECIFICATION GpsSpec
INVARIANTS
    CountInside
