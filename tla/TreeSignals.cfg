SPECIFICATION FairTreeSpec
CONSTANTS
    Configs <- TermKill
    Pids <- MCPids
    PidsFor <- MCPidsFor
    MaxStops = 1
    MaxLaunches = 1
    MaxTimerDelay = 1
    MaxGap = 1
    None = None
    Terminal = Terminal
    Wrapper = Wrapper
    Program = Program
    Kids = {Kid}
    Others = {Stranger}
    MaxExits = 2
    System = System
    Consoles = {"integratedTerminal", "externalTerminal"}
    Kid = Kid
    Stranger = Stranger
INVARIANT HostIsSpared
INVARIANT OutsidersAreSpared
INVARIANT DescendantsAreSignalled
PROPERTY KillEndsProgram
CHECK_DEADLOCK FALSE
