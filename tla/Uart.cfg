SPECIFICATION BusSpec
CONSTANTS
    Delays = {1, 6}
    Moment = 1
    Microseconds = 6
    Uarts = 1
    Depth = 3
    MaxData = 2
    Ids = 4
    Junk = 99
INVARIANTS DelayFull BytesInOrder ReportWellFormed
PROPERTIES Spaced DelayEnds
