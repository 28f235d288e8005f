SPECIFICATION Spec
CONSTANTS
    alice = alice
    bob = bob
    carol = carol
    usdc = usdc
    weth = weth
    Pools = {pool1}
    Users = {alice}
    Tokens = {usdc, weth}
    VaultAddress = VaultAddress
    Collector = Collector
    NoManager = NoManager
    Managers = {}
    RelayerContracts = {}
    CanPause = TRUE
    Amounts <- ToTwo
    InitialWallet <- AliceHasTwo
    MaxBalance = 2
    FlashLoanFee = 1
    One = 100
    MaxSwaps = 2
    MaxOps = 1
    MaxDepth = 2
INVARIANTS Backed NoStaleBalances
PROPERTIES FlashLoanIsNeutral PauseOnlyLetsOut
