SPECIFICATION Spec
CONSTANTS
    None = None
    Char <- MCChar
    Keys <- MCKeys
    FileEnvs <- MCFileEnvs
    LaunchEnvs <- MCLaunchEnvs
    Styles <- MCStyles
    Refs <- MCRefs
    Vaults <- MCVaults
    Own <- MCOwn
    Inherited <- MCInherited
    Accounts = {acct}
    MarkerTexts <- MCMarkerTexts
    Settings <- MCSettings
    Delays <- MCDelays
INVARIANT ProgramSeesItsEnv
INVARIANT SecretsLeaveOnlyWithAWarning
INVARIANT SessionObeysItsMarker
INVARIANT WholeSequenceOrNone
INVARIANT AccountReachesOpRun
CONSTRAINT Separate
CHECK_DEADLOCK FALSE
