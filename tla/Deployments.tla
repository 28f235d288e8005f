------------------------------ MODULE Deployments ------------------------------
(***************************************************************************)
(* How the classes of Pools in pvt/helpers deploy: a request in which most   *)
(* is left out is completed (TypesConverter.ts), becomes the arguments of    *)
(* a contract or of a factory, and then a handle that remembers what it was   *)
(* asked for rather than asking the contract. JavaScript takes a number that *)
(* is zero for one left out, unless it is tested for undefined.              *)
(* A request is kept: tests make several Pools of one, and the conversion    *)
(* writes its owner into it. What is asked for and the defaults stand for    *)
(* themselves; weights are given as they are normalized (PoolInputs). An     *)
(* address is the digit in which it differs from the others, with the case    *)
(* that its checksum gives to it. No owner and the zero address are one.     *)
(***************************************************************************)
EXTENDS Integers, FiniteSets, TLC

CONSTANTS
    Kinds,              \* bound: of the Pools that are deployed
    AskedValues,              \* bound: what may be asked for in each field
    Undefined,            \* undefined
    DefaultSigner,
    DefaultNumbers,     \* of the fields that are numbers
    DigitsOfTokens      \* bound: the digits that tell tokens of a Linear Pool apart

\* The fields of the requests that are numbers, those that are true or false, and the others.
Numeric == {"swapFeePercentage", "pauseWindowDuration", "bufferPeriodDuration", "amplificationParameter", "upperTarget"}
Flags == {"fromFactory", "mockedVault", "swapEnabledOnStart", "mustAllowlistLPs"}
OtherFields == {"owner", "from", "admin", "weights", "rateProviders", "assetManagers", "version", "aumFeeId", "poolType"}
Fields == Numeric \cup Flags \cup OtherFields

ASSUME DeploymentsAssumption ==
    /\ DOMAIN AskedValues = Fields /\ \A f \in Numeric : AskedValues[f] \subseteq Nat /\ DefaultNumbers[f] \in Nat
    /\ \A f \in Flags : AskedValues[f] \subseteq BOOLEAN

ZERO_ADDRESS == "zero address"
NoPool == [kind |-> "none"]

VARIABLES
    asked,          \* history: the request as it was written
    params,         \* the object, which conversions write into
    deployed,       \* the last Pool: its kind, the vault's options, contract and handle
    reattached      \* whether its handle comes from LinearPool.deployedAt
deploymentVars == <<asked, params, deployed, reattached>>

-----------------------------------------------------------------------------
(* Completing a request *)

Given(value, default) == IF value = Undefined THEN default ELSE value
Number(p, f) == IF p[f] \in {Undefined, 0} THEN DefaultNumbers[f] ELSE p[f]
FromFactory(p) == p.fromFactory = TRUE
ToAddress(account) == Given(account, ZERO_ADDRESS)

\* toRawVaultDeployment: a Pool of a factory needs a real Vault. Then toVaultDeployment
\* and VaultDeployer.deploy.
ToRawVaultDeployment(p) ==
    [mocked |-> IF p.fromFactory # Undefined THEN ~p.fromFactory ELSE TRUE,
     admin |-> Given(p.admin, Given(p.from, DefaultSigner))]

\* Of every kind, what toWeightedPoolDeployment and its like do alike.
Common(p) ==
    [swapFeePercentage |-> Number(p, "swapFeePercentage"),
     pauseWindowDuration |-> Number(p, "pauseWindowDuration"),
     bufferPeriodDuration |-> Number(p, "bufferPeriodDuration"),
     owner |-> ToAddress(p.owner)]

ToWeightedPoolDeployment(p) ==
    Common(p) @@ [weights |-> Given(p.weights, "equal"), rateProviders |-> Given(p.rateProviders, "none"),
                  assetManagers |-> Given(p.assetManagers, "none"), from |-> Given(p.from, DefaultSigner)]

ToLiquidityBootstrappingPoolDeployment(p) ==
    Common(p) @@ [weights |-> Given(p.weights, "equal"), swapEnabledOnStart |-> Given(p.swapEnabledOnStart, TRUE),
                  from |-> Given(p.from, DefaultSigner)]

ToManagedPoolDeployment(p) ==
    ToWeightedPoolDeployment(p) @@
        [swapEnabledOnStart |-> Given(p.swapEnabledOnStart, TRUE),
         mustAllowlistLPs |-> Given(p.mustAllowlistLPs, FALSE),
         version |-> Given(p.version, "default pool version"), aumFeeId |-> Given(p.aumFeeId, "AUM"),
         poolType |-> Given(p.poolType, "ManagedPool")]

\* The signer of a request is left out of these two.
ToLinearPoolDeployment(p) ==
    Common(p) @@ [upperTarget |-> Number(p, "upperTarget"), assetManagers |-> Given(p.assetManagers, "none"),
                  from |-> DefaultSigner]

ToStablePoolDeployment(p) ==
    Common(p) @@ [rateProviders |-> Given(p.rateProviders, "none"), version |-> Given(p.version, "test"),
                  amplificationParameter |-> Number(p, "amplificationParameter"), from |-> DefaultSigner]

\* Mutant: the version is written into the request like the owner.
WithOwnerAndVersion(p) == [p EXCEPT !.owner = ToAddress(@), !.version = Given(@, "default pool version")]

\* params.owner = ZERO_ADDRESS, in the first three.
WithOwner(p) == [p EXCEPT !.owner = ToAddress(@)]

-----------------------------------------------------------------------------
(* Deploying *)

Picked(fields, d) == [f \in fields \cap DOMAIN d |-> d[f]]
Without(fields, d) == [f \in DOMAIN d \ fields |-> d[f]]

Windows == {"pauseWindowDuration", "bufferPeriodDuration"}
\* Factories have pause windows of their own, and deploy themselves.
OfFactory(d) ==
    [f \in Windows |-> "the factory's"] @@ [from |-> "factory"] @@ Without(Windows \cup {"from"}, d)

WeightedPool(p) ==
    LET d == ToWeightedPoolDeployment(p)
    IN [contract |-> IF FromFactory(p) THEN [OfFactory(d) EXCEPT !.assetManagers = "none"] ELSE d,
        handle |-> Without(Windows \cup {"from"}, d)]

LiquidityBootstrappingPool(p) ==
    LET d == ToLiquidityBootstrappingPoolDeployment(p)
    IN [contract |-> IF FromFactory(p) THEN OfFactory(d) ELSE d, handle |-> Without(Windows \cup {"from"}, d)]

\* The factory's Pool is owned by the signer. The settings alone have no windows and no
\* version. Rate providers are not for this kind of Pool.
ManagedPool(p) ==
    LET d == Without({"rateProviders"}, ToManagedPoolDeployment(p))
    IN [contract |->
          CASE FromFactory(p) -> [OfFactory(d) EXCEPT !.owner = ToAddress(p.from), !.poolType = "ManagedPool"]
            [] ~FromFactory(p) /\ d.poolType = "MockManagedPoolSettings" -> Without(Windows \cup {"version"}, d)
            [] OTHER -> d,
        handle |-> Without(Windows \cup {"from", "poolType"}, d)]

LinearPool(p) ==
    LET d == ToLinearPoolDeployment(p)
    IN [contract |-> d, handle |-> Without(Windows \cup {"from"}, d)]

StablePool(p) ==
    LET d == ToStablePoolDeployment(p)
    IN [contract |-> d, handle |-> Picked({"swapFeePercentage", "amplificationParameter", "owner"}, d)]

DeployPool(kind, p) ==
    CASE kind = "weighted" -> WeightedPool(p)
      [] kind = "liquidityBootstrapping" -> LiquidityBootstrappingPool(p)
      [] kind = "managed" -> ManagedPool(p)
      [] kind = "linear" -> LinearPool(p)
      [] kind = "stable" -> StablePool(p)

\* A Linear Pool is told, and a Stable Pool asked, whether its Vault is mocked.
VaultOf(kind, p) ==
    IF kind \in {"linear", "stable"}
    THEN [ToRawVaultDeployment(p) EXCEPT !.mocked = Given(p.mockedVault, FALSE)]
    ELSE ToRawVaultDeployment(p)

-----------------------------------------------------------------------------
(* The tokens of a Linear Pool *)

\* < of strings: upper case comes before lower case.
TextBefore(a, b) ==
    IF a.digit >= 10 /\ b.digit >= 10 /\ a.upper # b.upper THEN a.upper ELSE a.digit < b.digit

\* getTokenList, mainIndex and wrappedIndex.
MainIndex(main, wrapped) == IF TextBefore(main, wrapped) THEN 1 ELSE 2

\* LinearPool.sol compares the addresses.
ContractMainIndex(main, wrapped) == IF main.digit < wrapped.digit THEN 1 ELSE 2

TokenTexts == [digit : DigitsOfTokens, upper : BOOLEAN]
Pairs == {<<a, b>> \in TokenTexts \X TokenTexts : a.digit # b.digit}

-----------------------------------------------------------------------------
EmptyRequest == [f \in Fields |-> Undefined]
\* Any two fields of a request, so that any two may meet.
Requests ==
    {EmptyRequest} \cup
    UNION {{[EmptyRequest EXCEPT ![f] = v, ![g] = w] : v \in AskedValues[f], w \in AskedValues[g]} : f \in Fields, g \in Fields}

DeploymentsInit ==
    /\ asked \in Requests /\ params = asked
    /\ deployed = NoPool /\ reattached = FALSE

\* create. The Pool of a managed factory is created by the signer of the request.
Create(kind) ==
    /\ kind = "managed" /\ FromFactory(params) => params.from # Undefined
    /\ \E pair \in IF kind = "linear" THEN Pairs ELSE {<<>>} :
          deployed' = [kind |-> kind, vault |-> VaultOf(kind, params), pool |-> DeployPool(kind, params),
                       indices |-> IF kind = "linear" THEN <<MainIndex(pair[1], pair[2]), ContractMainIndex(pair[1], pair[2])>>
                                   ELSE <<>>]
    /\ params' = IF kind \in {"linear", "stable"} THEN params ELSE WithOwner(params)
    /\ reattached' = FALSE
    /\ UNCHANGED asked

\* LinearPool.deployedAt leaves out the asset managers, so that what follows is taken
\* for what comes before it.
DeployedAt ==
    /\ deployed.kind = "linear" /\ ~reattached
    /\ LET c == deployed.pool.contract
       IN deployed' = [deployed EXCEPT !.pool.handle =
            [upperTarget |-> c.upperTarget, assetManagers |-> c.swapFeePercentage,
             swapFeePercentage |-> c.owner, owner |-> Undefined]]
    /\ reattached' = TRUE
    /\ UNCHANGED <<asked, params>>

DeploymentsNext == DeployedAt \/ \E kind \in Kinds : Create(kind)

-----------------------------------------------------------------------------
(* Properties *)

\* What the factories do not take, and the signer that two of the conversions leave out.
NotTaken(kind) ==
    (IF asked.fromFactory = TRUE /\ kind \notin {"linear", "stable"} THEN Windows \cup {"from", "poolType"} ELSE {})
    \cup (IF asked.fromFactory = TRUE /\ kind = "weighted" THEN {"assetManagers"} ELSE {})
    \cup (IF asked.fromFactory = TRUE /\ kind = "managed" THEN {"owner"} ELSE {})
    \cup (IF kind \in {"linear", "stable"} THEN {"from"} ELSE {})

\* The Pool and its Vault are those that the request, as it was written, would have
\* given had no Pool been made of it before, in all that was left out of it too.
IsAsFirstMade ==
    deployed.pool = DeployPool(deployed.kind, asked) /\ deployed.vault = VaultOf(deployed.kind, asked)

\* However many Pools, of whatever kinds, are made of one request, into which conversions
\* write (TypesConverter.ts:73), each is the one that the request, as it was written, asks
\* for: what is asked for, unless it is the number zero or a factory does not take it, is
\* what the contract has, and what is not asked for is as in a first Pool; what the
\* handle tells is so, except for what a factory does not take. The Vault's admin is the
\* one asked for, and no factory is given a mocked Vault.
DeployedAsAsked ==
    LET Pool == deployed.pool
    IN deployed # NoPool =>
        /\ \A f \in (DOMAIN Pool.contract \cap Fields) \ NotTaken(deployed.kind) :
              asked[f] \notin {Undefined} \cup (IF f \in Numeric THEN {0} ELSE {}) => Pool.contract[f] = asked[f]
        /\ ~reattached =>
              /\ IsAsFirstMade
              /\ \A f \in (DOMAIN Pool.handle \cap DOMAIN Pool.contract) \ NotTaken(deployed.kind) :
                    Pool.handle[f] = Pool.contract[f]
        /\ asked.admin # Undefined => deployed.vault.admin = asked.admin
        /\ FromFactory(asked) /\ deployed.kind \notin {"linear", "stable"} => ~deployed.vault.mocked

\* "Order the tokens the same way the Vault will": the handle of a Linear Pool finds its
\* main and wrapped tokens where the Pool has them.
OrderedAsTheVaultWill == deployed.kind = "linear" => deployed.indices[1] = deployed.indices[2]
===============================================================================
