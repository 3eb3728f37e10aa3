CONSTANTS
    Size <- MCSize
    Existing <- MCExisting
    OffsetWidth = 2
    MaxJobs = 3
    MaxVersion = 2
    MaxFaults = 1
    MaxLosses = 2
    MaxNet = 2
SPECIFICATION TransferSpec
 
PROPERTIES  SkippedUntouched 
CHECK_DEADLOCK FALSE
