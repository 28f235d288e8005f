SPECIFICATION Spec
CONSTANTS
    alice = alice
    bob = bob
    carol = carol
    usdc = usdc
    weth = weth
    Pools = {pool1}
    Users = {alice, bob, carol}
    Tokens = {weth}
    VaultAddress = VaultAddress
    Collector = Collector
    NoManager = NoManager
    Managers = {bob}
    RelayerContracts = {bob}
    CanPause = FALSE
    Amounts <- ToOne
    InitialWallet <- AliceHasOne
    MaxBalance = 1
    FlashLoanFee = 0
    One = 100
    MaxSwaps = 0
    MaxOps = 2
    MaxDepth = 2
INVARIANTS UnregisteredIsEmpty BalancesFit
PROPERTIES DebitNeedsConsent  ManagedIsTheManagers
