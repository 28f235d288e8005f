# TLA+ models of Balancer V2

These modules model the parts of Balancer V2 that hold everybody's tokens and
decide who may do what, the Vault (`pkg/vault`) and the TimelockAuthorizer; how votes,
BAL and fees are divided among veBAL holders and gauges (`pkg/liquidity-mining`); and
the TypeScript through which tests and users reach all of it (`pvt/helpers`,
`pvt/common`, `pkg/balancer-js`): the clients of Pools with their reference
mathematics, of the Vault and of the authorizer, the fixtures of the tests, Merkle
trees, signatures. They are checked with TLC on small instances; theorems about the
Vault, the three layouts of its storage, the authorizer and its client, voting power and
the distribution of fees, the gauges, their weights and emissions, and about signatures, the
Vault's admin and lists of tokens are proved with TLAPS for every value of the constants.

## 1. The system

| Component | State | Operations | Correct when |
|---|---|---|---|
| **Vault** (`PoolRegistry`, `PoolTokens`, `PoolBalances`, `Swaps`, `FlashLoans`, `AssetManagers`, `UserBalance`, `VaultAuthorization`, `Fees`, `AssetTransfersHandler`) | Pools and their tokens, a word `[cash, managed]` per Pool and token, Internal Balances, asset managers, relayer approvals, the reentrancy status, the pause | registerTokens, deregisterTokens, joinPool, exitPool, swap, batchSwap, flashLoan, managePoolBalance, manageUserBalance, setRelayerApproval, setPaused | it can always pay what it owes; nobody's tokens move without consent; the pause lets everybody out |
| **Pool balance storage** (`balances/*`) | three layouts of a Pool's words: an enumerable map, a mapping per token, two words shared by a pair of tokens | register, deregister, set, cash/managed moves | every layout implements one ledger |
| **ProtocolFeesCollector** | fees it has received, two percentages | withdrawCollectedFees, set…Percentage | only gets what is due |
| **TimelockAuthorizer** (`TimelockAuthorizerManagement`, `TimelockExecutionHelper`) | root and pending root, permissions, granters, revokers, cancelers, three delays per action, scheduled executions | schedule…, execute, cancel, grant/revoke/renouncePermission, add/remove…, claimRoot | no delay can be circumvented, no role outlives its removal |
| **Pools** (`pool-utils`, `pool-weighted`, `pool-stable`, `pool-linear`) | BPT supply, parameters that change gradually, caches of rates and fee percentages, recovery mode | the hooks onJoinPool, onExitPool, onSwap; parameter updates | value is only moved at the curve's price; LPs can always exit |
| **VotingEscrow** (veBAL) | each user's lock, histories of points (bias and slope) of the users and of their sum, scheduled slope changes | create_lock, deposit_for, increase_amount, increase_unlock_time, withdraw, checkpoint | the total is the sum of the balances, at every time |
| **FeeDistributor** | cached balances and totals per week, tokens per week, cursors | deposit, checkpoint, claim | everybody gets a share of each week once |
| **GaugeController** | votes, histories of weights per gauge, per type and in total | vote_for_gauge_weights, add_gauge, add_type, change_type_weight, checkpoint | weights are those of the votes, sums add up, the past is final |
| **Gauges and minting** (`StakelessGauge`, its checkpointer, `BalancerTokenAdmin`, the minters) | epochs of the schedule, checkpoints, mint records | checkpoint, killGauge, updateMiningParameters, mint | what gauges emit can be minted; no gauge is skipped |
| **Standalone utilities, relayers, governance scripts** | approvals, chained references, registries | multicall, wrappers, one-off migrations | act only for their caller |
| **Clients of Pools** (`StablePool.ts`, `BaseWeightedPool.ts`, `BasePool.ts`, encoders, `math.ts`) | what the Pool was deployed with | init, join…, exit…, swap…, query…, estimate… | amounts reach the tokens they are for; estimates and queries foretell what happens |
| **Deployment of Pools and tokens** (`TypesConverter.ts`, the classes of Pools, `TokensDeployer.ts`, `TokenList.ts`) | requests, handles on contracts | create, deployedAt, deploy, mint, sort | what is deployed, and what its handle tells, is what was asked for |
| **Clients of Vault and authorizer** (`Vault.ts`, `TimelockAuthorizer.ts`) | the authorizer, the admin | grants and calls as the admin; schedule…, scheduleAndExecute… | no call leaves behind what makes a later one fail; what is scheduled takes effect |
| **Test fixtures** (`sharedBeforeEach.ts`) | a stack of snapshots, which all suites share | the hook and its after hook | every test sees its own fixtures |
| **balancer-js, Merkle trees** | — | signing, encoding, sorting, normalizing; root and proofs | what is made off chain is what the contracts take |
| **solidity-utils, interfaces** | — | math, encodings, standards | — |

How they interact: a user, relayer or another contract calls the Vault; the
Vault asks the Authorizer whether the caller may, calls the Pool's hook, moves
ERC20 tokens, and gives control to the recipients of flash loans and of ETH.
At each of these points foreign code runs in the middle of the Vault's
function. The Authorizer calls nothing but the target of an execution, through
its helper, and that target may call back too. The FeeDistributor reads the
VotingEscrow's histories, and whoever sends tokens to it decides when. Gauges read the
weights of the GaugeController and mint through the token's admin. The TypeScript
calls all of these in transactions of its own, between which others may be sent.

What is hard: everything is one sequential machine, but calls nest. State read
before a call to foreign code is used after it; a call that reverts undoes
everything below it; tokens and books are out of step in the middle of every
operation; permissions change over days, in an order nobody planned; balances that
decay with time are cached by whoever happens to call, weeks later; handles in
TypeScript keep copies of what the chain may have changed, and write into objects that
belong to their callers. PROJECT.json lists these hazards at their lines.

## 2. Modules

| Module | What it is |
|---|---|
| `Vault` | the Vault, the token contracts, the collector, and the code that runs at its hooks |
| `Vault_proofs` | how a sum changes with one amount; the inductive invariants of `Vault`, and theorems for all its properties |
| `MCVault` | definitions for the instances `MCVault_*.cfg` |
| `BalanceAllocation` | the words balances are packed in, and their mutations |
| `PoolLedger` | abstract: what the Vault promises one Pool about its balances |
| `PoolHooks` | what the three layouts share: the block, the call in progress over a hook of the Pool |
| `GeneralPoolsBalance`, `MinimalSwapInfoPoolsBalance`, `TwoTokenPoolsBalance` | the three storage layouts, each implementing `PoolLedger` |
| `PoolsBalance` | extends the three with their composition: a Pool registers, which chooses its layout, and is used |
| `PoolsBalance_proofs` | that packing loses nothing; the invariant of each layout and its refinement of `PoolLedger`; that the composition keeps both |
| `TimelockAuthorizer` | the authorizer with its clock, executions and roles |
| `TimelockAuthorizer_proofs` | the invariant of the authorizer, and theorems about it and about `TimelockClient` |
| `MCTimelockAuthorizer` | definitions for the instance `MCTimelockAuthorizer_roots.cfg` |
| `LiquidityMining` | users, the clock and weeks, which the following modules extend |
| `LiquidityMining_proofs` | what their proofs share: sums, largest elements, quotients and weeks, recursive functions |
| `VotingEscrow` | locks, points and slope changes |
| `FeeDistributor` | extends `VotingEscrow` with the distribution: the two contracts together |
| `FeeDistributor_proofs` | the invariants of voting power, of what is cached of it and of payments, and theorems for all properties of the two |
| `MCFeeDistributor` | the symmetry of the users in the instance `MCFeeDistributor.cfg` |
| `GaugeController` | votes, gauges, types and the weekly histories of their weights |
| `StakelessGauges` | extends `GaugeController` with the schedule of BAL, the gauges and their checkpointer |
| `Gauges_proofs` | the invariants of the gauges' weights and of their emissions, and theorems about `GaugeController` and `StakelessGauges` |
| `MCGaugeController`, `MCStakelessGauges` | locks and symmetry for their instances |
| `TimelockClient` | extends `TimelockAuthorizer` with the class of that name in `pvt/helpers` |
| `MCTimelockClient` | definitions for its instance |
| `Numbers` | `numbers.ts`: wei and decimals, as integers with few digits |
| `StableMath`, `WeightedMath` | the reference mathematics of the tests |
| `ComposableStablePool`, `WeightedPool` | the contracts of the Pools, as joins, exits and swaps reach them |
| `StablePoolClient`, `WeightedPoolClient` | the clients: indices, encoders, params, estimates |
| `PoolClients` | a client, the Vault's client, a Vault (mocked or not) and a Pool together |
| `VaultAdmin` | the grants and calls of `Vault.ts` and `BasePool.ts` as the Vault's admin |
| `TokenLists` | deploying, sorting and minting the tokens of a test |
| `Deployments` | from a request to a contract and a handle, for five kinds of Pools |
| `SharedBeforeEach` | the fixtures, with Mocha and the snapshots of the network as they use them |
| `MerkleTree` | the tree, its proofs, and the library that verifies them |
| `Signatures` | signing in balancer-js and `EOASignaturesValidator` |
| `PoolInputs` | sorted tokens, normalized weights, Pool ids |
| `Clients_proofs` | theorems about `Signatures`, `VaultAdmin` and `TokenLists` |
| `MCClients` | the instance of all of these: a behaviour exercises one of them |
| `MCLinearPool` | an instance of `Deployments` for the order of a Linear Pool's tokens |

### Vault

`stack` holds a frame for each call in progress: which function runs
(`fn`), its arguments, and exactly the data the Solidity function keeps in
memory over a call to foreign code. `status` is `ReentrancyGuard._status`;
`Enter` and `Leave` are the two halves of `nonReentrant`. A function without
calls to foreign code is one step (`Atomically`). The others are split:

| Code | Steps |
|---|---|
| `_joinOrExit` | `JoinOrExit` (authenticate, read all balances, call the hook), one `ProcessJoinTransfer` / `ProcessExitTransfer` per token, `StoreFinalBalances` |
| `swap`, `batchSwap` | `Swap`, then `CallOnSwap` and `OnSwapReturned` per step, then `SettleReceive` / `SettleSend` per token, `SwapEnd` |
| `flashLoan` | `FlashLoan` (tokens go out), `FlashLoanRepaid` |
| `manageUserBalance` | `ManageUserBalance`, one of four operations per entry, `ManageUserBalanceEnd` |
| `managePoolBalance` | one step per operation: `WithdrawPoolBalance`, `DepositPoolBalance`, `UpdateManagedBalance` |

Between the steps of a call any action of the module may happen: other calls of
the Vault (which the guard refuses: that is the point, and removing the guard is
a mutant that must fail), token transfers to the Vault, withdrawals from the
collector (it has its own guard), changes of relayer permissions, and `Revert`,
which restores the storage that the frame saved. What a hook returns (amounts
in or out, due fees) is any value of `Amounts`: the properties hold whatever
the Pool does. Tokens are standard ERC20s without callbacks. ETH and WETH are
one token; the recipient of ETH gets control because a step ends there. The
recipient of an exit and of a swap may be anybody, the limits and the
deadline only decide whether the call reverts, which it always may.

What the frame keeps is the essential part: `final` (all balances of a join or
exit, read before the hook) and `hook.balanceIn`, `hook.balanceOut` (a swap's)
are written back later, so a missing guard would lose updates.

`managing` is a history variable: the sender of the operation of `managePoolBalance` that a
step makes. `ManagedIsTheManagers` compares it with the asset manager of the token whose
managed balance changes, and what leaves or enters the Vault with what the operation does to
the Pool's cash.

### Pool balance storage

`Vault` keeps a Pool's balances as records; these modules are the level below:
how one Pool's balances are laid out in storage words. `PoolLedger` is what every
layout promises: `ledger` maps each registered token to its `cash`, `managed` and
`changed` (the block of the last change), and each operation of `PoolTokens`,
`Swaps`, `PoolBalances` and `AssetManagers` on it is one atomic step. The layouts
store words as the contracts do and split swaps, joins and exits in two: what is
read before the Pool's hook (`CallOnSwap`, `CallOnJoinOrExit`) and what is written
from it afterwards (`OnSwapReturned`, `OnJoinOrExitReturned`). `call` holds the
words and positions in memory meanwhile, `Revert` drops them.

`PoolsBalance` extends the three, which are about the same tokens and the same call. What
all of them have is named after the layout, as in the contracts (`MinimalRegisterTokens` is
`_registerMinimalSwapInfoPoolTokens`). `RegisterPool` fixes the
specialization, and each of `GeneralPoolNext`, `MinimalSwapInfoPoolNext` and
`TwoTokenPoolNext` passes an operation to the layout of that specialization, leaving the
storage of the other two as it is. `LayoutsKeepLedger` is the refinement
(`GeneralKeepsLedger` and so on, of each of the three), with these mappings for `ledger`:

| Layout | Storage | `ledger` |
|---|---|---|
| `GeneralPoolsBalance` | EnumerableMap (length, entries, indexes) | the listed tokens, each with the word of its entry |
| `MinimalSwapInfoPoolsBalance` | a word per token, a set of tokens | the tokens of the set, each with its word |
| `TwoTokenPoolsBalance` | two tokens; a word with both cash amounts and one with both managed amounts per pair | the two tokens, each with its half of the registered pair's words |

The first half of a split operation is a stutter, the second the whole operation.
The hooks can do anything the Vault's guard allows, which for this Pool is nothing:
`Idle` (in `PoolHooks`) is that guard, and `ReadIsCurrent` fails without it. One Pool and one
operation at a time are modelled; a batch that reverts as a whole, the pause and
the check of the caller are in `Vault`. Addresses of a Two Token Pool are numbers,
for their order. Blocks are assumed to fit their field, as the code does.

### TimelockAuthorizer

One step per external function, with the caller as a parameter. `executions`
is `_scheduledExecutions`; the call it stores is a record instead of ABI data.
`Execute` marks the execution and performs the call: the functions only the
helper can call (`setDelay`, `setGrantDelay`, `setRevokeDelay`,
`setPendingRoot`, and granting and revoking with a delay) in the same step, an
external action as a call in progress that ends with `ExecuteReturned` or
`ExecuteReverted`. Meanwhile everything but another execution (the helper is
nonReentrant) can happen. `Tick` is the next block. `roots` and `delayAt` are
history variables: the roots so far, and the delays when the clock reached a
time. The model starts with `InitialDelays`, the delays governance has set up by
then; the executions that set them are left out.

### Fee distribution

Every function of both contracts is one step: they are nonReentrant and call only
each other and ERC20 tokens. `EscrowTick` is the next block.

In `VotingEscrow`, `Relock` is `_deposit_for` or `withdraw` with the call of
`_checkpoint`: it appends the missing weeks and the present to `point_history`
(`MissedPoints`), a point to the user's history, and moves the scheduled slope. The
contract's `epoch` and `user_point_epoch` are the lengths of the histories. Block
numbers, the smart wallet checker and the limit of 255 weeks without any
checkpoint are left out.

In `FeeDistributor`, `timeCursor`, `tokenState` and `userState` are the contract's state,
the mappings `_tokensPerWeek` and `_userBalanceAtTimestamp` as fields of the records.
The loop of `_checkpointUserBalance` over points and weeks is `Walk`, one iteration;
`Walked` is at most `MaxUserSteps` of them; the later call resumes where `userState`
says. `CheckpointedToken` is a token's state after `_checkpointToken`; a deposit takes
it twice, before and after the transfer. `SendToken` is a transfer by anybody, which
no function of the contract notices. `paid` is a history variable. The functions that
take several tokens do the same for one after the other in a block, so they are those
steps in a row. Left out: the option that only the user may claim, and the
limit of 2^128 on a token's balance.

### Gauges

In `GaugeController`, a history is a record of points per week, scheduled changes
of the slope and the time up to which it is filled in. `Filled` is the loop of
`_get_sum` and `_get_weight`, `FilledTotal` that of `_get_total`, and `Continued` what
these loops would make of a history up to the end of the model, for the properties. A vote is one step: it fills in gauge and
sum, takes the old vote off, adds the new one and schedules its end. Voting locks belong
to the VotingEscrow, of which `ChangeLock` is all that is seen here; `Tick` is the
next block.

In `StakelessGauges`, `mining` is the epoch and the supply of `BalancerTokenAdmin`,
`gauge` the state of each gauge. `WeekEmitted` is one iteration of the loop of
`checkpoint`, with the change of the rate within a week; `MintedBAL` is what the call of the minter makes of
the token's supply. `CheckpointGauges` is the checkpointer's call over
the gauges it lists: it is enabled only when none of the checkpoints reverts.
A gauge may be created at any time. If that is the first call after an epoch has
ended, it takes the old rate with the new start, as the initializer does; the field `late`
(history) remembers it.

### Clients of Pools

`PoolClients` is one call at a time, from the test's params to the Pool's answer. The client c
keeps what it was deployed with and computes params and estimates
(`Build…Params`, `Estimate…`); `OnJoin` and `OnExit` are the Vault, mocked or not;
`Does` of `ComposableStablePool` and `WeightedPool` is the contract. `call` is
history: what was asked, what was moved of each token, the estimate, and the answer of
the query beforehand. With `uses = 2` the query is made with the same params object as the
call, and the client of a Stable Pool has changed it in between. A call is `proper`
when it is meant as the client documents it and within the limits that the client
computes: it then goes through, and no other does.

The Pools compute with the reference mathematics, since the contracts' fixed point
arithmetic is out of reach: so the estimates are compared with the same functions on what
the *Pool* knows (its balances in the Vault, its BPT supply, its fee, its limits), which
is where clients go wrong. `Numbers` counts in thousandths, with decimals ten
times as fine; tolerances are `Dust`. `SharesKeepTheirValue`,
`InvariantIsSolved` and `FeesComeFromGrowth` are about that mathematics itself.

### The other TypeScript

`TimelockClient` adds `CSchedule…` and its like to the actions of the authorizer: the
method's sender by default, lists of executors, the arguments it gives. The three methods
that schedule, wait and execute (`macro`) are three steps, between which anything else of the
authorizer may happen.

`VaultAdmin` follows a grant and a call of the same method as one step, since the tests await
them; but the grants of a call that fails stay. `granted` is what the client's authorizer
grants, `lastCall.thrown` that the client itself threw.

`TokenLists` numbers addresses, in any order, since deployments are sent at once. `minted` is
history. `Deployments` keeps a request as it was written (`asked`) apart from the object that
the conversion writes into (`params`), and makes Pools of it again and again: `contract` is what
the contract or factory is given, `handle` what the handle tells afterwards. Defaults and
what is asked for stand for themselves. Left out: token lists, swap fee managers, the
duration of rate caches.

`SharedBeforeEach` runs `Plan`, the order in which Mocha runs the hooks and tests of a file;
`chain` is what the hooks and tests did since the last snapshot that was restored. Hooks may throw.
`MerkleTree` takes hashes as injective terms. `Signatures` signs and submits in any
order; `EncodeCalldataAuthorization` and `ExtraWord` are the two ends of the words that
are appended to the calldata. `PoolInputs` has one list or id at a time.

## 3. What the runs check

| Run | Properties | Instance |
|---|---|---|
| `vault_core` | `Backed`, `NoStaleBalances`, `FlashLoanIsNeutral`, `PauseOnlyLetsOut` | one Pool, one user, two tokens with two units each, two swaps per call, nested calls to depth 2, a fee that rounds up, the pause |
| `vault_managers` | `UnregisteredIsEmpty`, `BalancesFit`, `DebitNeedsConsent`, `ManagedIsTheManagers` | three users, one of them asset manager and relayer, whose permission and approvals change at any time; signatures; batches of two operations; a bound on balances that is reached |
| `pool_layouts` | `StorageIsSound`, `LayoutsKeepLedger`, `ChangesAreRecorded` | one Pool of any specialization, three tokens, amounts 0 and 1, totals below 3, two blocks; a Two Token Pool deregisters two different tokens |
| `two_token_same` | `TwoTokenNonZeroIsRegistered` (violated) | the Two Token layout without that restriction; see findings |
| `authorizer_roots` | `RootIsHandedOver`, `NoShortcut`, `NoDelayOutgrowsSetAuthorizer` | two candidates for root, two executions, a canceler of every execution; delays of performing, granting and revoking that are lowered and raised, also that of setAuthorizer |
| `authorizer_client` | `EndsOnce`, `RemovalIsEffective`, `MacroTakesEffect` | the authorizer through its client: roles over one contract and everywhere, a granter, a revoker, a canceler, methods that wait |
| `fee_distribution` | `SupplyIsSum`, `CachesAreRight`, `ShareOfEachWeekOnce`, `Covered` | two users who create, enlarge, extend and withdraw locks, three weeks of two units, one token that is sent or deposited at any time |
| `gauge_weights` | `WeightsAreVotes`, `SumsAddUp`, `PastIsFinal` | a voter with two locks, two gauges, two types, two weeks of two units |
| `gauge_emissions` | `ScheduleCoversEmissions`, `NothingSkipped` | two gauges that are created at any time, capped, killed and revived; epochs that end within a week |
| `gauge_late` | `AllEmissionsAreCovered` (violated) | two gauges, a rate that falls to a quarter; see findings |
| `clients` | `AmountsReachTheirTokens`, `EstimatesAreRight`, `QueriesForetell`, `SharesKeepTheirValue`, `InvariantIsSolved`, `FeesComeFromGrowth`; `TestsSeeTheirFixtures`, `EveryTestEnds`; `ProofsVerify`; `SignaturesAreHonored`; `InputsMatchTheVault`; `AdminIsObeyed`; `TokensAreAsAsked`; `DeployedAsAsked` | eight independent parts, of which a behaviour exercises one (`subject`) |
| `linear_indices` | `OrderedAsTheVaultWill` (violated) | two tokens whose addresses differ in one digit; see findings |

**Vault.** `Backed` is the central one: at every point of every call, the tokens
the Vault has plus what the running call still must bring in (less what it must
send out) cover the cash of all Pools and all Internal Balances. `VaultSolvent` is
its consequence at rest, the promise behind `VaultReentrancyLib`; like `TypeOK` it is
proved (section 4) and not among the properties of a run.
`NoStaleBalances` says that what was read before a hook is still stored when
it is written back. `FlashLoanIsNeutral`, `PauseOnlyLetsOut`,
`DebitNeedsConsent` and `ManagedIsTheManagers` compare the states before and
after a step or a call.

**Pool balance storage.** The refinements cover what the layouts have to get right: no
word of another token is touched, positions survive swap and pop, what a
deregistered token leaves behind is not found when it is registered again, the two
tokens of a pair share their block. `StorageIsSound` is what the layouts rely on
themselves: no total exceeds its field although each action looks at some fields only,
the EnumerableMap's indices match its entries, a balance that is not zero is that of
registered tokens (the shortcut that two getters take), and what was read before a hook,
words and positions, is still stored when it returns.
`ChangesAreRecorded` says what `lastChangeBlock` is for: a step that changes
a token's total, in whichever layout, leaves the current block in it, so that whoever
reads an older block reads the total which that block ended with.

**TimelockAuthorizer.** `NoShortcut` is the purpose of the waiting times: what has
a delay d at time t and was not scheduled then cannot be done before t + d, over
any sequence of delay changes begun since. `RootIsHandedOver` follows a root back
to its announcement. `NoDelayOutgrowsSetAuthorizer` is why replacing the authorizer is no
way around a delay: every change is compared with the delay setAuthorizer has when the change is
executed, which may be another than the one it had when the change was scheduled, so that
only lowering setAuthorizer's own delay can leave a longer one behind. That no delay exceeds
setAuthorizer's until then (`NoDelayExceedsSetAuthorizer`) is proved (section 4) and
not checked by a run. The run of the
client is about roles and about what a test may rely on: an execution ends once, also
when its own call tries to cancel it (`EndsOnce`); a permission, a granter, revoker or
canceler that was removed is gone, also by way of what is held everywhere
(`RemovalIsEffective`); and a method that schedules, waits and executes has set its
delay when it is done, whatever ran in between, unless somebody else ended its execution, moved
the clock, or the delay exceeds setAuthorizer's by then (`MacroTakesEffect`).

**Fee distribution.** `SupplyIsSum` compares the total with the users' balances at every
time, past and future. `CachesAreRight` says that what was cached for a week stays what
the VotingEscrow says of it, whatever locks change later, which is why no week is
cached in its first block. `ShareOfEachWeekOnce` fixes what a user has been paid: the
share of every week before the cursor, computed from the VotingEscrow and from all the
tokens that week ever gets; `Covered` that the contract can pay the rest. Tokens that
arrive in a week in which nobody has voting power are out of everybody's reach: a claim
over such a week divides by zero and reverts, which the constructor's check of the first
week is about. What is not claimed because a token is not checkpointed for more than 20
weeks is assigned to no week. Neither breaks a property here; PROJECT.json lists both.

**Gauges.** Weights are filled in week by week by whoever comes first. `WeightsAreVotes`
compares each gauge's history, from its last point on, with the votes themselves: locks
that lapse, votes that are moved and missed weeks leave no trace. `SumsAddUp` is the same
of the types and of the total, which are filled in at other times, and `PastIsFinal` says
that the relative weights of a week that has begun never change, on which emissions depend.
`ScheduleCoversEmissions` relates the two clocks of the emissions, the token's epochs and
the gauges' weeks: whatever gauges are entitled to for weeks that are over can be minted.
It counts the gauges that are not late; `AllEmissionsAreCovered` counts all of them, and does
not hold (findings). `NothingSkipped`: the checkpointer reads weights that may not be
filled in, and still misses no gauge above the threshold.

**Clients of Pools.** `AmountsReachTheirTokens`: a call that is proper goes through, no other does, and
what was given of a token moves of that token, wherever BPT stands among the tokens and even if
its params were used before. `EstimatesAreRight` compares the client's estimate, from
what the client holds, with what the Pool does; an estimate that assumes no fee (the encoders of
Weighted Pools) is only a bound, and an estimate counts as `upToDate` while the client still holds
what the Pool has. `QueriesForetell` is about queries and the
calls after them. `SharesKeepTheirValue`, `InvariantIsSolved` and
`FeesComeFromGrowth` are about the mathematics: value per BPT never shrinks, the iteration's
result is a solution for each token, and protocol fees are taken from growth alone.

**The other TypeScript.** `AdminIsObeyed`: the clients grant before they call, and no order of
calls makes a later one fail, but for those that the comment at the property names.
`TokensAreAsAsked`: minted amounts count whole tokens with the decimals of the contract, however the list
was deployed; a sorted list ascends by address and has the symbols in the order in which
they were asked for. `DeployedAsAsked`: though the
conversion writes defaults into objects that the caller keeps, the n-th Pool of a request is
what the request asked for (up to `NotTaken`, below), and in what was *not* asked for it is what
a first Pool would have been (`IsAsFirstMade`): nothing that a conversion wrote is taken for a wish
by the next. Handles tell the truth.
`TestsSeeTheirFixtures` and `EveryTestEnds` are about the stack of snapshots, which is one
for all suites: a hook may pop another suite's snapshot, and reverting to a snapshot
discards the later ones. `ProofsVerify` compares the tree with the library that verifies its
proofs, for repeated elements and odd layers. `SignaturesAreHonored`: what the contracts
accept was signed, as it was asked for and not used before, with the nonce that was given
(a BigNumber zero is one; a number zero is none) or the next one when it was signed, and what was
signed with a current nonce and deadline is accepted. `InputsMatchTheVault`: the SDK sorts as the Vault
requires, normalized weights sum up to one, and Pool ids split as they were packed.

**Bounds.** The Vault's amounts are 0 to 2: enough for a fee, a partial deduction
from Internal Balance, a loan that is overpaid, and a balance at its limit
(`MaxBalance`). In the storage layouts a field holds 0 to 2, so that two deposits of
1 fill it and a third overflows; three tokens let a list be shortened in the middle
and one Two Token Pool have a pair that it is not registered with. Depth 2 is the first nesting; a call at depth 3 needs a guard that
failed at depth 2. Times and delays are multiples of the minimal wait of five
days; three units let a delay be lowered, waited for and used. A week of the
FeeDistributor has two units, a beginning and an end (`Day`), the longest lock is not a
whole number of weeks, as in the code, and a loop does one week or three steps a
call, so that it is resumed; the points of all users (`MaxUserPoints`), the time
in which locks change (`LastLock`) and how often anybody calls the VotingEscrow's `checkpoint`
(`CheckpointGap`) are bounded for the number of states. Wherever a bound
could hide a case, a mutant of the code shows that the instance reaches it:
each property of each run fails for one.

In `gauge_weights` there are two weeks of two units; one lock ends with them and the other
later, so that votes lapse or do not. In `gauge_emissions` votes are absent (weights are the gauges' initial ones)
and an epoch is shorter than two weeks, so that a rate changes in the middle of a week.
The parts of `clients` have bounds of their own. Pools have two or three tokens, with BPT at each
place of two tokens and between three, balances up to 9:1, and three calls; a Pool without
a fee has two tokens, and Pools with a mocked Vault too (`EnoughOfEach`). Numbers stay in 32 bits with
three decimals, so amounts are at most half of a balance (`AtMostHalf`) and powers are taken of ratios
that three decimals can hold. Fixtures: three suites next to or inside each other, up to two
hooks each, shared or not, one of which may throw. Trees have up to five leaves of four elements, which is a
layer with an odd one at two levels. Two signatures of one content, which is bound like the
account and the deadline, and nonces zero as a number, zero as a BigNumber, or one; exits, swaps and batches are left
out, since they are signed as joins are (`SomeMethods`). Three calls of the admin and
three of token lists; requests with any two fields, each asked for with zero and with another number.
`linear_indices` needs one digit in either case and numbers.

**Findings.** (1) `TwoTokenPoolsBalance.sol:57` says that a balance that is not zero belongs to
the two registered tokens. `deregisterTokens` of the same token twice passes its
checks with the (empty) pair of that token with itself, and unregisters both
tokens while their own pair has a balance; `PoolTokens.sol:77`, which deletes the
asset managers since "they hold no Pool balance", is misled too. Only the Pool's
contract can call it, and no Pool of the repository passes a token twice: `Vault`
models deregisterTokens with a set of tokens, and `DistinctTokens` is that
restriction in `TwoTokenPoolsBalance`. (2) `LinearPool.ts:59` orders the two tokens of a
Linear Pool "the same way the Vault will", and line 64 compares checksummed addresses as
strings, in which upper case letters come before lower case ones: `mainIndex` and
`wrappedIndex` may be swapped. (3) `StakelessGauge.sol:78` reads the rate before it calls
`startEpochTimeWrite`. A gauge that is initialised by the first call after an epoch has ended
takes the old rate with the new start and stays one reduction behind, against the "fixed
inflation schedule" of `BalancerTokenAdmin.sol:33`; in the trace two gauges are entitled to
more than may be minted. Any call that updates the mining parameters first avoids it.

Other disagreements have no run of their own. `ITimelockAuthorizer.sol:525` says that increasing a
delay waits for the difference; the code, and the comment in it, wait for it when decreasing. That
comment (`TimelockAuthorizer.sol:440`) has no exception, but the difference is to the delay at
the time of scheduling: a decrease that is pending while the delay is raised takes effect
without the longer wait, which is why `ITimelockAuthorizer.sol:532` tells root to avoid several
pending changes of a delay. `NoShortcut` is what holds nevertheless.
`LinearPool.deployedAt` passes its arguments one place off, which `Deployments` keeps apart as
`reattached`. `TokensDeployer.ts:57` drops the decimals of a sorted list's tokens, so that
decimals follow the sorted addresses; `ComposableStablePool.test.ts:1443` asks for such a
list. `ManagedPool.ts` does not give a factory the owner it was asked for, and factories
take no pause windows, that of Weighted Pools no asset managers either; a number zero in a request counts as
none. `DeployedAsAsked` excludes just these (`NotTaken`, `Numeric`). The Vault client's setAuthorizer
works once.

**Fairness and deadlock.** Nothing on chain is ever bound to happen: whether anybody calls is
up to users, so all properties of contracts are safety properties. The exception is the run of
a test file: Mocha starts the next hook or test when the last is done and times out what hangs, which is
weak fairness of `FixturesNext` (`FixturesFairness`), and under it `EveryTestEnds` is a
liveness property. Deadlock is checked for the Vault and the storage layouts; the other
instances really end, with their bounds (the last time, the last call, the last test).

## 4. What is proved

Every theorem holds for all values of the constants that satisfy the assumptions beside
them: finitely many Pools, users, gauges and tokens, distinct accounts, amounts in Nat, fields of
any width; and `ClientAssumption`, that what tests ask of the client are accounts,
actions and delays of the authorizer. TLC evaluates the assumptions on each run.

### The Vault

`Vault_proofs` states all the safety and action properties of `Vault` that the runs
check.

* `TypeCorrect`: no balance is ever negative. `NoReentrancy`: at most one call is in
  progress, exactly while the guard is set. `AlwaysBacked`, `AlwaysSolvent`,
  `NeverStale`: `Backed`, `VaultSolvent`, `NoStaleBalances`.
* `NothingStranded` and `WordsFit`: `UnregisteredIsEmpty`, `BalancesFit`.
* `LoansAreNeutral`, `OnlyExitsWhilePaused`, `DebitsHaveConsent`, `ManagersManage`:
  the action properties.

The first inductive invariant is
`IInv == Typed /\ Backed /\ NoStaleBalances /\ CallOK`. `Backed` alone is not
inductive: `StoreFinalBalances` replaces stored words by those of the frame, which
preserves the sums only if the frame's words are what the call made of the stored
ones, hence `NoStaleBalances`, which in turn needs the guard (`OneCall`); and a
`Revert` needs that the saved storage was solvent, which `CallOK` says of every
frame. Sums are cardinalities of sets of units (`Units`, `Total`): they need no
recursion.

The action properties speak of single steps, but a step may end what began long before.
`CallsInv` adds what a call in progress knows of its beginning:

| Part | Says | Needed because |
|---|---|---|
| `StorageSound` | words fit, and a token that is not registered has neither word nor manager | it is the invariant proper |
| `SavedOK` | which part of the storage is still that to which a revert returns | a revert must not undo a registration, change a managed balance or end a pause |
| `PauseOK` | what the pause blocks does not run while it lasts; `manageUserBalance` if it looked | a call that began before must not go on in a pause |
| `PoolCallOK` | the words of a join or exit fit, are of registered tokens, an exit's do not grow | `StoreFinalBalances` looks at none of this |
| `SwapCallOK` | the Pool whose hook runs has both tokens | a swap writes without looking again |
| `LoanOK` | the loan's record of the Vault's tokens is that of the saved storage | a repayment is compared with it |
| `PayerOK` | who pays consented, by calling, by approving the relayer, or by a signature spent in this call | tokens move steps after the check |

`PauseOK` would not be inductive if an admin could pause inside a call: `setPaused` is
`nonReentrant`.

### The storage of Pools

`PoolsBalance_proofs` begins with the words, for every `Limit`: `PackingIsFaithful`, a
balance whose total fits is what its word is unpacked to; `IsZeroIgnoresTheBlock`; and lemmas
about division with remainder, once, so that no later proof needs arithmetic beyond addition.

Each layout has a part with the same plan, and names to match (`Minimal…`, `TwoToken…`,
`General…`): `…StorageOK` (what is stored) and `…CallOK` (what the hook in progress was called
with) make `…IInv`; `…Refinement` is `…Spec => …KeepsLedger`, the layout implements
`PoolLedger`. `…StepIsRecorded` follows from the refinement alone: what the ledger's steps do
to the record of the last change.

* Minimal Swap Info: a token that is not registered has the word zero, its block
  included. That is stronger than `MinimalNonZeroIsRegistered`, which ignores the block:
  registering a token again starts at `Empty` only because the word was deleted.
* Two Token: the words of a pair which is not the registered one are
  zero, block included; no block is stored in the word of the managed balances; both balances
  of a pair have one block. `DistinctTokens` is a hypothesis of its theorems: the code does not
  compare the two tokens of `deregisterTokens`, and the run `two_token_same` shows that a Pool
  which deregisters one token twice ends up with a balance that is nobody's.
* General: `IndexesMatchEntries` and, beyond it, that the positions after the last entry
  are empty (`MapOK`). `deregisterTokens`, joins and exits go through lists of tokens. The model
  writes these loops as recursive functions on positions of the list; the proofs show
  these well defined, and what holds after each number of rounds, by looking at the
  least number after which it would not. In the middle of the loop of deregistrations,
  positions have moved but the map is in step.
* The composition: `PoolStorageIsSound`, `PoolKeepsLedger` and
  `PoolChangesAreRecorded` state the three properties of the run `pool_layouts`, with the
  hypothesis `DistinctTokens`, as that run. The
  invariant `PInv` is `…StorageOK` of all three layouts, and `…CallOK` of the one that the Pool
  chose. The others' steps are the ledger's `NewBlock` or stutters.

### The authorizer and its client

`TimelockAuthorizer_proofs` states the authorizer's properties: `ExecutionsEndOnce`
(`EndsOnce`), `RootsAreHandedOver` (`RootIsHandedOver`), `DelaysStayBelowSetAuthorizer`
(`NoDelayExceedsSetAuthorizer`), `ChangesOutgrowNothing`
(`NoDelayOutgrowsSetAuthorizer`), `LoweringGainsNoTime` (`NoShortcut`), `LossesAreFinal`
(`RemovalIsEffective`).
The invariant is `TypeOK` and `StorageOK`, of the storage, and of that to which a revert
of the running execution returns:

* `RecordsOK`: no execution is executed and canceled, none ran early, a change of the
  root was announced for as long as `RootTransferDelay`;
* `RootsOK`: every root but the first was announced by an earlier one and claimed the root
  itself; so is the pending root;
* `DelaysOK`: each delay is at most some delay that `setAuthorizer` had. The present one is
  not enough: it may be lowered first;
* `NoticesOK`: whoever knew the delay of an action at some time gets that notice, unless a
  change that was scheduled before took effect since. The property speaks of what is executed;
  the invariant of what is scheduled, of what can be scheduled now, and of the changes of
  the delay that are under way, for each of which the notice is kept too.

`ClientExecutionsEndOnce`, `ClientLossesAreFinal` and `MacrosTakeEffect`
(`MacroTakesEffect`) are about `ClientSpec`. `ClientIInv` adds `MacroOK`: what the client's
`scheduleAndExecute…` will do next is possible, since no other transaction comes between.

### Voting power and fees

`FeeDistributor_proofs` states all four properties of the run `fee_distribution`, for any
users, tokens, locks and amounts, weeks of any length and any number of weeks or points per
call. Nothing is assumed of the code's bounds except that they are positive.

`TotalsAgreeAlways` is `SupplyIsSum`. The total of veBAL comes from one history of points, each
user's balance from another, and the slopes that end in a week are added up beforehand. The
invariant `EscrowIInv` says of the last points what the property says of all times:

* `UsersAreCurrent`: a user's last point is that of the present lock;
* `TotalIsCurrent`: the total's last point is the sum of what all locks are worth at that
  time (`IsSumOf`), and the scheduled change of the slope at a later time is the sum of the
  slopes of the locks that end then (`Schedules`);
* `TotalsAgree`: the property itself, since last points do not tell the past. A step adds points
  of the present, and for the missed weeks points of the past, so it must be shown that these
  say what was said of the times between (`PastIsKept`): a total that is read in the middle of missed weeks walks
  through the same weeks as the checkpoint that adds them later.

The cut at zero in `DecayedTo` never cuts, since what it is applied to is a sum of locks.

`CachesAreAlwaysRight` is `CachesAreRight`. `CacheIInv` adds `TotalIsCached`, that each cached
total is of a week that is over, hence of the past that stays, and `UsersAreCached`: where the
loop over a user's points stands. The point that it took last is not after the week it goes on
with, every week before that one is cached with the balance by the user's points, and the user
had nothing before the first. The lemmas under "The walk of a user's checkpoint" show that one
iteration keeps this, and so does any number.

`SharesArePaidOnce` is `ShareOfEachWeekOnce`. A claim multiplies what it finds in three caches;
that the product is final is what `PayIInv` adds:

* `TokensAreSpread`: a week before that of the token's last checkpoint gets nothing more, and
  a week before the token's first has nothing;
* `ClaimsAreFinal`: every week before a user's cursor for a token is over, and is such a week
  or one in which the user has no balance. So what is sent to the contract later never belongs to
  a week that somebody has claimed;
* `SharesArePaid`: what was paid is the sum of the shares of those weeks. A claim adds those
  of the weeks from the old cursor to the new one, each once.

`ClaimsAreCovered` is `Covered`. `TokensAreHeld` says that the contract holds what it cached,
and that this and what has been paid is at least all that weeks were given. The users' shares
of a week, rounded down, come to at most what the week was given, because the total is the sum of the balances
(`TotalsAgreeAlways`); what was paid is the shares of the weeks claimed
(`SharesArePaidOnce`); so what is left covers the others.

### The gauges

`Gauges_proofs` is about histories that are filled in by loops, whenever somebody calls.
`ControllerAssumption` says that users, gauges, locks and types are finitely many, that
locks end with a week, and that the first time is not in the first two weeks.

`WeightsAreVotes` and `SumsAddUp` are not inductive: they speak of the points that a history
has and will have, and a vote changes what is scheduled too. The proof takes a *tally*: of
some votes, the bias and slope at each week and the slope that ends with it. Tallies add up
(`SumTally`), and decay by what ends. `IsHistoryOf` says that a history records a tally up
to its time: the point at that time and the scheduled changes after it are the tally's, or
there is no history and nothing is tallied. A history of a tally continues like it
(`HistoryContinues`), whatever weeks are missed, and is still one when filled in
(`FilledHistory`); a vote replaces one summand of the tally and records just that. The
cuts at zero in `Voted` and `Decayed` never cut, since a tally is never negative.

`ControllerIInv` consists of

* `GaugesAreTallied`, `TypesAreTallied`: each gauge's history is that of its votes and its
  initial weight, each type's that of its gauges; a gauge has a type once it has a history;
* `TypeWeightsAreTimely`: the weights of types are filled in exactly as far as the total, or
  never set and zero, so that a total is computed from weights which are final;
* `SumsAddUp`, for the weeks before the next: there the histories are no longer those of the
  votes, which have changed since;
* `PowersAddUp`: the powers of a user's votes.

Each step also `KeepsPast`: what a history says of the weeks before the next stays, new
types and gauges have nothing there, and no gauge changes its type. Shares are functions of
this.

* `WeightsAreTheVotes`, `WeightsAddUp`, `PastWeightsAreFinal` state `WeightsAreVotes`,
  `SumsAddUp` and `PastIsFinal`.
* `MintedByVotes`: the first two hold in `StakelessGauges` too.
* `NoGaugeIsSkipped` states `NothingSkipped`. `EmissionsIInv` adds that the total is
  filled in at least as far as every gauge with weight (`TotalIsTimely`): the checkpointer
  fills in a gauge that lags behind, and reads the total as it is for one that does not. So it
  reads the final share of each (`ReadsAreShares`), wherever in its list the total is filled
  in, and takes just the gauges above the threshold (`ChosenAreAbove`).
* `EmissionsAreCovered` states `ScheduleCoversEmissions`, whenever gauges are created. Of a
  late gauge the invariant knows only that it stays late (`GaugeIsKnown`); the others are in the
  epoch of the token's.

For the last one, `Emission(a, b)` is what is emitted from a until b if every epoch begins on
time (`RateAt`); `GaugesAssumption` says that an epoch is longer than a week and that rates do
not rise. It is what both sides are compared with:

* `MiningIsTimely`: the token's epoch has begun, perhaps long ago, and its supply is at least
  the emission before it. An epoch that is begun late counts at the old rate until then, which
  is no less, so the supply covers the emission until now (`SupplyCovers`).
* `GaugesAreAllotted`: a gauge that is not late is in an epoch that ends after the weeks it has computed
  (`OnSchedule`), and has emitted no more than its share of the `Emission` of each of them. A
  week in which the rate changes is two parts, at the rate of each (`WeekIsAllotted`), rounded
  down; a cap only lowers the share. What a checkpoint reads is the final share, since gauge
  and total are filled in first (`CheckpointsReadShares`), and past shares stay (`KeepsPast`).
* `NothingBeforeStart`: no gauge has a share of a week before the activation.

The shares of a week add up to at most `Multiplier` (`SharesAddUp`), because its total is that
of the types and each type's sum that of its gauges; so what all gauges are allotted in a
week is at most its emission (`WeekIsShared`), and, week by week, at most what may be minted.

Sums (`SumFunction`) and `FoldLeft` are folds of the community modules, recursive functions
on finite sets. `SumIsAdds`, `SumOfNats` and the like are proved by looking at a smallest
set for which they would fail (`SubsetInduction`). These and the other facts that this part
and the one before share are in `LiquidityMining_proofs`.

### The other TypeScript

`Clients_proofs` has one invariant for each of three components, which do not meet.

* `SignaturesAreAlwaysHonored` is `SignaturesAreHonored`. `SigIInv`: a signature's digest is
  that of what its user asked for, with the domain of its contract and the nonce that was given
  or next; the nonce of an accepted
  signature is below the user's next one with that validator, and these nonces ascend. Half of
  the theorem is that what the SDK appends to the calldata is what the Vault reads back
  (`Calldata`, `Deadline` and `Signature` of `Data`), so that a fresh signature is not refused.
  `SignaturesAssumption`: the zero address is nobody's, so no failed recovery is a user's.
* `AdminIsAlwaysObeyed` is `AdminIsObeyed`. `AdminIInv` adds what keeps the client's own checks
  from throwing: nothing grants the provider of fees a permission everywhere, except that of the
  swap fee by hand. `AdminAssumption`: the provider of fees is no signer.
* `TokensAreAlwaysAsAsked` is `TokensAreAsAsked`. `TokIInv` adds that a contract has the decimals
  of its handle, but for a WETH, so that whole tokens of the handle are whole tokens of the
  contract. `Ascending` puts an address where as many others are smaller; that the ranks of n
  numbers are the first n (`Ranks`) makes it a permutation that ascends (`AscendingIs`) and
  leaves alone what ascends already (`AscendingAgain`), whatever is sorted again.

### What is only model-checked

* The properties of `PoolClients`: the mathematics iterates a bounded number of times, and
  the estimates are as near as the instance's digits make them.
* `ProofsVerify` and `TestsSeeTheirFixtures`: what a recursion computes for every input, a
  tree of hashes and the plan of a test file, takes an induction over data.
* `InputsMatchTheVault`: the digits of an id are quotients by powers, normalized weights sums of
  quotients that vanish for none only while weights are not too far apart, and the sort of rows
  is the TLC module's, which the provers cannot expand.
* `DeployedAsAsked`: requests are put together with `@@`, also of the TLC module.
* `SharesKeepTheirValue` of Pools, which is about rounding in the same mathematics.
* `EveryTestEnds`, the only liveness property: liveness under fairness is out of the
  prover's reach.

## 5. Not modelled

* Fixed point arithmetic and the Pools' mathematics at full precision: 256-bit numbers are
  beyond TLC's integers. The Pools compute with `StableMath` and `WeightedMath` instead.
* Rate and fee caches, pauses of Pools, gradual updates of weights and amplification, adding
  and removing tokens of Managed Pools, Linear Pools but for the order of their tokens.
* In the Vault: wrapping of ETH and the refund of what remains, the multihop sentinel, queries.
* The gauges with stakers, their reward queues, factories and bridges; the delegation and the
  remapper of veBAL; the minter of other chains.
* The AuthorizerAdaptor and its entrypoint, which forward calls after a permission check.
* Relayers' wrappers, which call external protocols; governance scripts, which run once.
* Encoders without state, error messages, benchmarks, deployment scripts, configuration and
  vendored code.

PROJECT.json lists every component with what is left out of it, and the hazards that no
property covers.

## 6. What would come next

1. More of the Vault: ETH and remaining ETH, multihop swaps.
2. Pools: recovery mode and pause, the protocol fee cache, gradual updates.
3. `DistributionScheduler` and the remapper; theorems for each.
4. Theorems about `Deployments` and `SharedBeforeEach`.
