SPECIFICATION Spec
CONSTANTS
    FirstMinor = 3
    MaxCommits = 7
    MaxPackaged = 4
    MaxShips = 2
    MaxFiles = 2
    Shops = {"github", "marketplace"}
    None = None
INVARIANT TagsAreReleases
INVARIANT PreviewInSync
INVARIANT ReleasedOnce
INVARIANT VersionsMoveForward
INVARIANT NextReleaseIsPossible
INVARIANT ChangelogKeepsReleases
INVARIANT ShippedFromItsTag
CONSTRAINT FewPackaged
CHECK_DEADLOCK FALSE
