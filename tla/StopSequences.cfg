SPECIFICATION FairSpec
CONSTANTS
    Configs <- AllConfigs
    Pids = {p1}
    MaxStops = 2
    MaxLaunches = 1
    MaxTimerDelay = 2
    MaxGap = 2
    None = None
INVARIANT TypeOK
INVARIANT HandleIsLive
INVARIANT SingleStopIsTracked
INVARIANT RemainingStepsArmed
INVARIANT GraceIsKept
PROPERTY NoStepAfterExit
PROPERTY StopCompletes
CHECK_DEADLOCK FALSE
