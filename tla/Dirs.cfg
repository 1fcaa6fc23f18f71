SPECIFICATION Spec
CONSTANTS
    Hosts = {h1, h2, h3}
    Sessions = {s1, s2}
    Pids = {p1, p2, p3}
    MaxDirs = 2
    MaxStarts = 3
    None = None
INVARIANT TypeOK
INVARIANT SweepSparesLive
INVARIANT HandedLeftoverIsSweepable
INVARIANT SweepIsComplete
INVARIANT CleanupFindsAll
INVARIANT NothingOutlivesItsSession
CONSTRAINT FewStarts
SYMMETRY Symmetric
CHECK_DEADLOCK FALSE
