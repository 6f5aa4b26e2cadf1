\* Two satellites, one channel too few, three sets of ephemerides.
CONSTANTS
    MaxChan = 1
    MaxSat = 2
    Sets = 3
    Files <- AllFiles
    NavFiles <- SmallFiles
    StartTimes <- SomeStarts
    StrayDays <- SomeDays
    NavFaults = {"download", "open", "version", "type", "motion"}
    Period = 1800
    Until = 18000
    AlmanacEnabled = {FALSE, TRUE}
    Counts = {0, 1}
    AlmanacTimes <- SomeTimes
    Ids = {0, 3}
    Years <- AllYears
SPECIFICATION GpsSpec
INVARIANTS
    EphTypeOK
    SetsOrdered
    WithinFit
    AlmanacInTime
    DatesRight
PROPERTIES
    StartFindsSet
    RefinesChannels
