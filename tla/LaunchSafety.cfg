SPECIFICATION Spec
CONSTANTS
    Requests <- AllRequests
    Settings <- DefaultSettings
    MaxDrops = 1
    Launches <- MCLaunches
    EnvKeys <- MCEnvKeys
    Refs <- MCRefs
    Tags <- MCTags
    Emails <- MCEmails
    Accounts <- MCAccounts
    Plain <- MCPlain
    OutsideDirs <- MCOutsideDirs
    Patterns <- MCPatterns
    DefaultPattern = default
    Strips <- MCStrips
    AccountOf <- MCAccountOf
    DefaultAccount = acctA
    OpPaths <- MCOpPaths
    Unset = Unset
    Empty = Empty
    l1 = l1
    l2 = l2
    db = db
    key = key
    ci = ci
    ada = ada
    acctA = acctA
    acctB = acctB
    plain = plain
    outside = outside
    default = default
    op1 = op1
    op2 = op2
INVARIANT TypeOK
INVARIANT CacheTruthful
INVARIANT ServedInScope
INVARIANT AllOrNothing
INVARIANT QuietDropIsComplete
INVARIANT RunsConfiguredOp
PROPERTY ImplementsContract
CHECK_DEADLOCK FALSE
SYMMETRY Symmetric
