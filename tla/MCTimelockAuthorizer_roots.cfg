SPECIFICATION Spec
CONSTANTS
    dao = dao
    multisig = multisig
    eoa = eoa
    pause = pause
    vault = vault
    Accounts = {dao, multisig, eoa}
    Helper = Helper
    NoAccount = NoAccount
    SetAuthorizer = SetAuthorizer
    Actions = {pause, SetAuthorizer}
    Targets = {vault}
    EVERYWHERE = EVERYWHERE
    InitialRoot = dao
    NextRoot = multisig
    RootTransferDelay = 2
    MinChangeDelay = 1
    MaxDelay = 3
    InitialDelays <- MixedDelays
    ChangedDelays <- AllDelays
    NewDelays = {0, 2, 3}
    NewRoots = {multisig, eoa}
    Permissions <- EoaMayPause
    GranterRoles = {}
    RevokerRoles = {}
    Cancelers = {eoa}
    CancelerIds = {0}
    ExecutorSets <- Anybody
    MaxTime = 4
    MaxExecutions = 2
INVARIANTS RootIsHandedOver NoShortcut
PROPERTIES NoDelayOutgrowsSetAuthorizer
CHECK_DEADLOCK FALSE
