SPECIFICATION BaselinesSpec
CONSTANTS
    Levels <- ThreeLevels
    Hours = 2
    MinSamples = 2
    ZOpen = 7
    ZHold = 5
    Outlier = 16
    MaxAge = 2
    MaxShifts = 4
PROPERTIES OpensAtZOpen
CHECK_DEADLOCK FALSE
