SPECIFICATION Spec
CONSTANTS
    None = None
    Char <- MCChar
    Keys <- MCKeys
    FileEnvs <- MCFileEnvs
    LaunchEnvs <- MCLaunchEnvs
    Styles <- MCStyles
    Refs <- MCRefs
    Vaults <- MCVaults
    Own <- MCOwn
    Inherited <- MCInherited
    Accounts = {acct}
    MarkerTexts <- MCMarkerTexts
    Settings <- MCSettings
    Delays <- MCDelays
INVARIANT UnsetReachesProgram
CHECK_DEADLOCK FALSE
CONSTRAINT Separate
