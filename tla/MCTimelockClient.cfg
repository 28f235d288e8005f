SPECIFICATION ClientSpec
CONSTANTS
    dao = dao
    eoa = eoa
    pause = pause
    vault = vault
    Accounts = {dao, eoa}
    Helper = Helper
    NoAccount = NoAccount
    SetAuthorizer = SetAuthorizer
    Actions = {pause, SetAuthorizer}
    Targets = {vault}
    EVERYWHERE = EVERYWHERE
    InitialRoot = dao
    NextRoot = dao
    RootTransferDelay = 2
    MinChangeDelay = 1
    MaxDelay = 3
    InitialDelays <- PauseWaits
    ChangedDelays <- PauseDelays
    NewDelays = {0}
    NewRoots = {dao}
    Permissions <- EoaMayPause
    GranterRoles <- EoaGrants
    RevokerRoles <- EoaRevokes
    Cancelers = {eoa}
    ExecutorSets <- Anybody
    ExecutorLists <- OneExecutor
    CancelerIds = {2}
    MaxTime = 2
    MaxExecutions = 2
    DefaultSigner = dao
    Params = {NoParams, eoa}
    NoParams = NoParams
INVARIANTS EndsOnce
PROPERTIES RemovalIsEffective MacroTakesEffect
CHECK_DEADLOCK FALSE
