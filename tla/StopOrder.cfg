SPECIFICATION FairSpec
CONSTANTS
    Configs <- ImmediateConfigs
    Pids = {p1, p2}
    MaxStops = 1
    MaxLaunches = 1
    MaxTimerDelay = 2
    MaxGap = 3
    None = None
PROPERTY SignalsInOrder
CHECK_DEADLOCK FALSE
