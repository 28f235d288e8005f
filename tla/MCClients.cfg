SPECIFICATION Spec
CONSTANTS
    ROOT = 100
    FINER = 10
    Iterations = 12
    PREMINTED_BPT = 100000
    MAX_UINT256 = 1000000000
    MaxCalls = 3
    Amps = {2}
    Fees = {0, 100}
    Inits <- SomeInits
    Amounts = {500}
    MaxBalance = 10000
    Dust = 4
    Shapes <- AllShapes
    MaxFailures = 1
    Elements = {1, 2, 3, 4}
    MaxElements = 5
    alice = alice
    bob = bob
    relayer = relayer
    Users = {alice, bob}
    Accounts <- SignerAndContract
    Contents = {c1}
    Methods <- SomeMethods
    Deadlines = {0, 2}
    Nonces <- SomeNonces
    MaxSignatures = 2
    MaxTime = 1
    WETH = 20
    Tokens = {3, 20, 100, 200}
    Weights = {1, 2, 3, 5}
    WeiPerEther = 60
    MaxWeightedTokens = 4
    AddressDigits = 3
    NonceDigits = 3
    MaxAssets = 4
    FirstSigner = alice
    OtherSigner = bob
    FeesProvider = provider
    Percentages = {1, 2}
    Maximum <- SomeMaximum
    MaxCollected = 1
    MaxAdminCalls = 3
    TokenAddresses = {1, 2, 3}
    Holders = {alice, bob}
    SomeSymbols = {"WETH", "wstETH"}
    SomeDecimals = {1}
    Unasked = Unasked
    DecimalsCycle = 3
    DefaultDecimals = 2
    MaxTokens = 2
    MintAmounts = {3}
    MaxTokenCalls = 3
    Kinds = {"weighted", "liquidityBootstrapping", "managed", "linear", "stable"}
    AskedValues <- SomeValues
    Undefined = Undefined
    DefaultSigner = "first"
    DefaultNumbers <- Sevens
    DigitsOfTokens = {1, 10, 11}
INVARIANTS
    AmountsReachTheirTokens EstimatesAreRight QueriesForetell InvariantIsSolved FeesComeFromGrowth
    TestsSeeTheirFixtures ProofsVerify SignaturesAreHonored InputsMatchTheVault
    AdminIsObeyed TokensAreAsAsked DeployedAsAsked
PROPERTIES SharesKeepTheirValue EveryTestEnds
CHECK_DEADLOCK FALSE
