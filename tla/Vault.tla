------------------------------- MODULE Vault -------------------------------
(***************************************************************************)
(* The Balancer V2 Vault: one contract that holds the tokens of every Pool *)
(* and every user's Internal Balance, and lends them out.  The Vault keeps *)
(* no token of its own, so its token balance must always cover what it     *)
(* owes: the cash of the Pools plus the Internal Balances.                 *)
(*                                                                         *)
(* A call of an external function of the Vault is a frame on `stack`.  It  *)
(* is split at the points where the Vault calls code it does not control:  *)
(* the Pool hooks (onJoinPool, onExitPool, onSwap), the flash loan         *)
(* recipient, and the recipients of ETH.  At those points that code runs:  *)
(* it may call the Vault again, send it tokens, withdraw collected fees,   *)
(* or revert, which restores the storage the call began with.              *)
(*                                                                         *)
(* Tokens are plain ERC20s that give no control to the sender or to the    *)
(* receiver; WETH stands for ETH (the wrapping of ETH is left out).  The   *)
(* limits and the deadline a caller states only decide whether the call    *)
(* reverts, which it may do at any point here.                             *)
(***************************************************************************)
EXTENDS Integers, Sequences, FiniteSets

CONSTANTS
    Pools,              \* the registered Pools
    Users,              \* accounts: liquidity providers, traders, relayers ...
    Tokens,
    VaultAddress,       \* the Vault's account in the token contracts
    Collector,          \* the ProtocolFeesCollector's account
    NoManager,          \* address(0) as an asset manager
    Managers,           \* accounts a Pool may choose as asset manager
    RelayerContracts,   \* accounts the Authorizer may allow to relay
    CanPause,           \* TRUE where governance uses setPaused
    Amounts,            \* the amounts inputs and hooks are drawn from
    InitialWallet,      \* every account's tokens before the first call
    MaxBalance,         \* 2^112 - 1: what a Pool's cash plus managed can be
    FlashLoanFee, One,  \* the flash loan fee percentage is FlashLoanFee / One
    MaxSwaps,           \* bound: the steps of a batchSwap
    MaxOps,             \* bound: the operations of a manageUserBalance
    MaxDepth            \* bound: nested calls (the EVM allows 1024)

Accounts == Users \cup {VaultAddress, Collector}

ASSUME AccountsAssumption ==
    /\ IsFiniteSet(Pools) /\ IsFiniteSet(Users)
    /\ Pools \cap Users = {}
    /\ VaultAddress \notin Users /\ Collector \notin Users /\ VaultAddress # Collector
    /\ NoManager \notin Users /\ Managers \subseteq Users
    /\ RelayerContracts \subseteq Users

ASSUME AmountsAssumption ==
    /\ Amounts \subseteq Nat /\ MaxBalance \in Nat
    /\ FlashLoanFee \in Nat /\ One \in Nat \ {0}
    /\ InitialWallet \in [Tokens -> [Accounts -> Nat]]
    /\ MaxSwaps \in Nat /\ MaxOps \in Nat /\ MaxDepth \in Nat \ {0}
    /\ CanPause \in BOOLEAN

VARIABLES
    status,         \* ReentrancyGuard._status
    paused,         \* whether the Vault is paused
    registered,     \* each Pool's registered tokens
    assetManager,   \* _poolAssetManagers
    balances,       \* each Pool's [cash, managed] for each token
    internal,       \* _internalTokenBalance
    wallet,         \* the token contracts: every account's balance
    relayers,       \* the Authorizer: accounts that may act for a user
    approved,       \* _approvedRelayers
    signed,         \* <<user, relayer>>: a signature not used yet
    stack,          \* the calls in progress, the innermost last
    managing        \* history: the msg.sender of this step's operation of
                    \* managePoolBalance, or NoManager

storageVars == <<paused, registered, assetManager, balances, internal,
                 wallet, relayers, approved, signed>>
vars == <<status, storageVars, stack, managing>>

\* Everything a revert restores.
Storage == [paused |-> paused, registered |-> registered,
            assetManager |-> assetManager, balances |-> balances,
            internal |-> internal, wallet |-> wallet, relayers |-> relayers,
            approved |-> approved, signed |-> signed]

-----------------------------------------------------------------------------
(* What the Vault owes *)

\* The sum of the values of f is the number of units its holders have: a unit
\* is a pair of a holder and a number up to its amount.  Counting units needs
\* no recursion, so theorems can be proved of it.
UnitsOf(f, x) == {x} \X (1..f[x])
Units(f) == UNION {UnitsOf(f, x) : x \in DOMAIN f}
Total(f) == Cardinality(Units(f))

\* Who can claim how much of token t from the Vault.
Claims(b, i, t) ==
    [c \in Pools \cup Users |-> IF c \in Pools THEN b[c][t].cash ELSE i[c][t]]

Solvent(b, i, w) == \A t \in Tokens : Total(Claims(b, i, t)) <= w[t][VaultAddress]

-----------------------------------------------------------------------------
(* Balance words, transfers and the calls in progress *)

Word == [cash : Nat, managed : Nat]
IsBalance(w) == w.cash >= 0 /\ w.managed >= 0 /\ w.cash + w.managed <= MaxBalance

\* Solidity's checked arithmetic: the word after its cash changes by n.
AddCash(w, n) == [w EXCEPT !.cash = @ + n]

Add(f, x, y, n) == [f EXCEPT ![x][y] = @ + n]
Transfer(w, t, a, b, n) == Add(Add(w, t, a, -n), t, b, n)

\* What _receiveAsset takes from u's Internal Balance: as much as there is.
Deducted(fromInternal, u, t, n) ==
    IF fromInternal THEN (IF internal[u][t] < n THEN internal[u][t] ELSE n) ELSE 0

Idle == stack = <<>>
Top == stack[Len(stack)]
Running(fn) == stack # <<>> /\ Top.fn = fn

\* Mutant: a guard that is never set.
NotEnteredUnguarded == TRUE

\* The nonReentrant modifier.  A call that runs to its end without calling
\* other code needs only its test.
NotEntered == status = "NOT_ENTERED"

Enter(frame) ==
    /\ NotEntered
    /\ Len(stack) < MaxDepth
    /\ status' = "ENTERED"
    /\ stack' = Append(stack, frame)

Continue(frame) ==
    /\ stack' = [stack EXCEPT ![Len(stack)] = frame]
    /\ UNCHANGED status

Leave ==
    /\ status' = "NOT_ENTERED"
    /\ stack' = SubSeq(stack, 1, Len(stack) - 1)

\* A call that calls no other code, in one step.
Atomically == NotEntered /\ UNCHANGED <<status, stack>>

\* _authenticateFor: user is the caller, or the caller is a relayer that user
\* approved or gave a signature to, which is then spent.
AuthenticateFor(caller, user) ==
    \/ caller = user /\ UNCHANGED signed
    \/ /\ caller # user /\ caller \in relayers /\ caller \in approved[user]
       /\ UNCHANGED signed
    \/ /\ caller # user /\ caller \in relayers /\ caller \notin approved[user]
       /\ <<user, caller>> \in signed
       /\ signed' = signed \ {<<user, caller>>}

-----------------------------------------------------------------------------
(* PoolTokens *)

RegisterTokens(p, toks, managers) ==
    /\ Atomically /\ ~paused
    /\ toks \cap registered[p] = {}
    /\ registered' = [registered EXCEPT ![p] = @ \cup toks]
    /\ assetManager' = [assetManager EXCEPT ![p] =
          [t \in Tokens |-> IF t \in toks THEN managers[t] ELSE @[t]]]
    /\ UNCHANGED <<paused, balances, internal, wallet, relayers, approved, signed>>

\* Mutant: looks at the cash only.
DeregisterTokensWithManaged(p, toks) ==
    /\ Atomically /\ ~paused
    /\ toks \subseteq registered[p]
    /\ \A t \in toks : balances[p][t].cash = 0
    /\ registered' = [registered EXCEPT ![p] = @ \ toks]
    /\ assetManager' = [assetManager EXCEPT ![p] =
          [t \in Tokens |-> IF t \in toks THEN NoManager ELSE @[t]]]
    /\ UNCHANGED <<paused, balances, internal, wallet, relayers, approved, signed>>

\* Only tokens of which the Pool has neither cash nor managed balance.
DeregisterTokens(p, toks) ==
    /\ Atomically /\ ~paused
    /\ toks \subseteq registered[p]
    /\ \A t \in toks : balances[p][t].cash + balances[p][t].managed = 0
    /\ registered' = [registered EXCEPT ![p] = @ \ toks]
    /\ assetManager' = [assetManager EXCEPT ![p] =
          [t \in Tokens |-> IF t \in toks THEN NoManager ELSE @[t]]]
    /\ UNCHANGED <<paused, balances, internal, wallet, relayers, approved, signed>>

-----------------------------------------------------------------------------
(* PoolBalances: joinPool and exitPool *)

\* Mutant: joins are not blocked by the pause.
JoinOrExitWhilePaused(kind, caller, sender, recipient, p, useInternal) ==
    /\ AuthenticateFor(caller, sender)
    /\ registered[p] # {}
    /\ Enter([fn |-> kind, caller |-> caller,
              party |-> IF kind = "join" THEN sender ELSE recipient,
              pool |-> p, useInternal |-> useInternal,
              final |-> balances[p], todo |-> registered[p], saved |-> Storage])
    /\ UNCHANGED <<paused, registered, assetManager, balances, internal,
                   wallet, relayers, approved>>

\* _joinOrExit up to the Pool's hook, which runs once the balances are read.
\* `party` is the sender of a join and the recipient of an exit: the Vault
\* ignores the other one.  Only joins are blocked by the pause.
JoinOrExit(kind, caller, sender, recipient, p, useInternal) ==
    /\ kind = "join" => ~paused
    /\ AuthenticateFor(caller, sender)
    /\ registered[p] # {}
    /\ Enter([fn |-> kind, caller |-> caller,
              party |-> IF kind = "join" THEN sender ELSE recipient,
              pool |-> p, useInternal |-> useInternal,
              final |-> balances[p], todo |-> registered[p], saved |-> Storage])
    /\ UNCHANGED <<paused, registered, assetManager, balances, internal,
                   wallet, relayers, approved>>

\* The loops over the Pool's tokens, in any order: t is done.
Processed(frame, t, final) == [frame EXCEPT !.final[t] = final, !.todo = @ \ {t}]

\* Mutant: the due fee is paid but not taken from the Pool's balance.
ProcessJoinTransferForFree(t, amountIn, fee) ==
    /\ Running("join") /\ t \in Top.todo
    /\ LET deducted == Deducted(Top.useInternal, Top.party, t, amountIn)
           pulled == amountIn - deducted
           final == AddCash(Top.final[t], amountIn)
       IN /\ pulled <= wallet[t][Top.party]
          /\ fee <= wallet[t][VaultAddress] + pulled
          /\ IsBalance(final)
          /\ internal' = Add(internal, Top.party, t, -deducted)
          /\ wallet' = Transfer(Transfer(wallet, t, Top.party, VaultAddress, pulled),
                                t, VaultAddress, Collector, fee)
          /\ Continue(Processed(Top, t, final))
    /\ UNCHANGED <<paused, registered, assetManager, balances, relayers, approved, signed>>

\* One round of _processJoinPoolTransfers, with the amount in and the due fee
\* that the hook returned for t.
ProcessJoinTransfer(t, amountIn, fee) ==
    /\ Running("join") /\ t \in Top.todo
    /\ LET deducted == Deducted(Top.useInternal, Top.party, t, amountIn)
           pulled == amountIn - deducted
           final == AddCash(Top.final[t], amountIn - fee)
       IN /\ pulled <= wallet[t][Top.party]
          /\ fee <= wallet[t][VaultAddress] + pulled
          /\ IsBalance(final)
          /\ internal' = Add(internal, Top.party, t, -deducted)
          /\ wallet' = Transfer(Transfer(wallet, t, Top.party, VaultAddress, pulled),
                                t, VaultAddress, Collector, fee)
          /\ Continue(Processed(Top, t, final))
    /\ UNCHANGED <<paused, registered, assetManager, balances, relayers, approved, signed>>

\* One round of _processExitPoolTransfers.  Where t is sent as ETH the
\* recipient runs after this step.
ProcessExitTransfer(t, amountOut, fee) ==
    /\ Running("exit") /\ t \in Top.todo
    /\ LET sent == IF Top.useInternal THEN 0 ELSE amountOut
           final == AddCash(Top.final[t], -(amountOut + fee))
       IN /\ sent + fee <= wallet[t][VaultAddress]
          /\ IsBalance(final)
          /\ internal' = Add(internal, Top.party, t, amountOut - sent)
          /\ wallet' = Transfer(Transfer(wallet, t, VaultAddress, Top.party, sent),
                                t, VaultAddress, Collector, fee)
          /\ Continue(Processed(Top, t, final))
    /\ UNCHANGED <<paused, registered, assetManager, balances, relayers, approved, signed>>

\* The end of _joinOrExit: the words computed from the balances read before
\* the hook replace the stored ones.
StoreFinalBalances ==
    /\ Running("join") \/ Running("exit")
    /\ Top.todo = {}
    /\ balances' = [balances EXCEPT ![Top.pool] = Top.final]
    /\ Leave
    /\ UNCHANGED <<paused, registered, assetManager, internal, wallet,
                   relayers, approved, signed>>

-----------------------------------------------------------------------------
(* Swaps: swap and batchSwap *)

NoHook == [pending |-> FALSE]

\* swap is a batchSwap of one step that receives before it sends.
Swap(fn, caller, sender, recipient, fromInternal, toInternal, steps) ==
    /\ ~paused
    /\ fn = "swap" => steps = 1
    /\ AuthenticateFor(caller, sender)
    /\ Enter([fn |-> fn, caller |-> caller, party |-> sender, recipient |-> recipient,
              fromInternal |-> fromInternal, toInternal |-> toInternal,
              steps |-> steps, hook |-> NoHook,
              delta |-> [t \in Tokens |-> 0], saved |-> Storage])
    /\ UNCHANGED <<paused, registered, assetManager, balances, internal,
                   wallet, relayers, approved>>

Swapping == Running("swap") \/ Running("batchSwap")

\* _swapWithPool reads the two balances and calls onSwap.
CallOnSwap(p, tokenIn, tokenOut) ==
    /\ Swapping /\ ~Top.hook.pending /\ Top.steps > 0
    /\ tokenIn # tokenOut /\ {tokenIn, tokenOut} \subseteq registered[p]
    /\ Continue([Top EXCEPT !.steps = @ - 1,
                   !.hook = [pending |-> TRUE, pool |-> p,
                             tokenIn |-> tokenIn, tokenOut |-> tokenOut,
                             balanceIn |-> balances[p][tokenIn],
                             balanceOut |-> balances[p][tokenOut]]])
    /\ UNCHANGED storageVars

\* onSwap returned: one amount is its answer, the other was given.  The words
\* read before the hook are updated and stored.
OnSwapReturned(amountIn, amountOut) ==
    /\ Swapping /\ Top.hook.pending
    /\ LET h == Top.hook
           in == AddCash(h.balanceIn, amountIn)
           out == AddCash(h.balanceOut, -amountOut)
       IN /\ IsBalance(in) /\ IsBalance(out)
          /\ balances' = [balances EXCEPT ![h.pool][h.tokenIn] = in,
                                          ![h.pool][h.tokenOut] = out]
          /\ Continue([Top EXCEPT !.hook = NoHook,
                         !.delta[h.tokenIn] = @ + amountIn,
                         !.delta[h.tokenOut] = @ - amountOut])
    /\ UNCHANGED <<paused, registered, assetManager, internal, wallet,
                   relayers, approved, signed>>

SwapsDone == Swapping /\ Top.steps = 0 /\ ~Top.hook.pending

Settled(frame, t) == [frame EXCEPT !.delta[t] = 0]

\* _receiveAsset for a token of which the swaps took more than they gave.
SettleReceive(t) ==
    /\ SwapsDone /\ Top.delta[t] > 0
    /\ LET deducted == Deducted(Top.fromInternal, Top.party, t, Top.delta[t])
           pulled == Top.delta[t] - deducted
       IN /\ pulled <= wallet[t][Top.party]
          /\ internal' = Add(internal, Top.party, t, -deducted)
          /\ wallet' = Transfer(wallet, t, Top.party, VaultAddress, pulled)
          /\ Continue(Settled(Top, t))
    /\ UNCHANGED <<paused, registered, assetManager, balances, relayers, approved, signed>>

\* _sendAsset for a token of which the swaps gave more than they took.
SettleSend(t) ==
    /\ SwapsDone /\ Top.delta[t] < 0
    /\ Top.fn = "swap" => \A s \in Tokens : Top.delta[s] <= 0
    /\ LET amount == -Top.delta[t]
           sent == IF Top.toInternal THEN 0 ELSE amount
       IN /\ sent <= wallet[t][VaultAddress]
          /\ internal' = Add(internal, Top.recipient, t, amount - sent)
          /\ wallet' = Transfer(wallet, t, VaultAddress, Top.recipient, sent)
          /\ Continue(Settled(Top, t))
    /\ UNCHANGED <<paused, registered, assetManager, balances, relayers, approved, signed>>

SwapEnd ==
    /\ SwapsDone /\ \A t \in Tokens : Top.delta[t] = 0
    /\ Leave
    /\ UNCHANGED storageVars

-----------------------------------------------------------------------------
(* FlashLoans *)

\* FixedPoint.mulUp, which rounds up.
FlashLoanFeeAmount(amount) == (amount * FlashLoanFee + One - 1) \div One

\* `lent` are the tokens of the loan; loan[t] is the amount of each.
FlashLoan(recipient, lent, loan) ==
    /\ ~paused
    /\ \A t \in lent : loan[t] <= wallet[t][VaultAddress]
    /\ Enter([fn |-> "flashLoan", caller |-> recipient, lent |-> lent, loan |-> loan,
              pre |-> [t \in Tokens |-> wallet[t][VaultAddress]], saved |-> Storage])
    /\ wallet' = [t \in Tokens |->
          IF t \in lent THEN Transfer(wallet, t, VaultAddress, recipient, loan[t])[t]
                        ELSE wallet[t]]
    /\ UNCHANGED <<paused, registered, assetManager, balances, internal,
                   relayers, approved, signed>>

\* Mutant: only the quoted fee goes to the collector.
FlashLoanRepaidQuotedFee ==
    /\ Running("flashLoan")
    /\ \A t \in Top.lent :
          wallet[t][VaultAddress] >= Top.pre[t] + FlashLoanFeeAmount(Top.loan[t])
    /\ wallet' = [t \in Tokens |->
          IF t \in Top.lent
          THEN Transfer(wallet, t, VaultAddress, Collector,
                        FlashLoanFeeAmount(Top.loan[t]))[t]
          ELSE wallet[t]]
    /\ Leave
    /\ UNCHANGED <<paused, registered, assetManager, balances, internal,
                   relayers, approved, signed>>

\* receiveFlashLoan returned.  All that came in above the balance before the
\* loan is the fee: it goes to the collector.
FlashLoanRepaid ==
    /\ Running("flashLoan")
    /\ \A t \in Top.lent :
          wallet[t][VaultAddress] >= Top.pre[t] + FlashLoanFeeAmount(Top.loan[t])
    /\ wallet' = [t \in Tokens |->
          IF t \in Top.lent
          THEN Transfer(wallet, t, VaultAddress, Collector,
                        wallet[t][VaultAddress] - Top.pre[t])[t]
          ELSE wallet[t]]
    /\ Leave
    /\ UNCHANGED <<paused, registered, assetManager, balances, internal,
                   relayers, approved, signed>>

-----------------------------------------------------------------------------
(* AssetManagers: one operation of managePoolBalance *)

\* Mutant: an operation does not look at who calls it.
IsAssetManagerUnchecked(caller, p, t) == t \in registered[p]

IsAssetManager(caller, p, t) == t \in registered[p] /\ assetManager[p][t] = caller

\* WITHDRAW: cash becomes managed and goes to the asset manager.
WithdrawPoolBalance(caller, p, t, amount) ==
    /\ Atomically /\ ~paused
    /\ IsAssetManager(caller, p, t)
    /\ amount <= balances[p][t].cash
    /\ amount <= wallet[t][VaultAddress]
    /\ balances' = [balances EXCEPT ![p][t] =
          [cash |-> @.cash - amount, managed |-> @.managed + amount]]
    /\ wallet' = Transfer(wallet, t, VaultAddress, caller, amount)
    /\ UNCHANGED <<paused, registered, assetManager, internal, relayers, approved, signed>>

\* DEPOSIT: the asset manager returns managed tokens.
DepositPoolBalance(caller, p, t, amount) ==
    /\ Atomically /\ ~paused
    /\ IsAssetManager(caller, p, t)
    /\ amount <= balances[p][t].managed
    /\ amount <= wallet[t][caller]
    /\ balances' = [balances EXCEPT ![p][t] =
          [cash |-> @.cash + amount, managed |-> @.managed - amount]]
    /\ wallet' = Transfer(wallet, t, caller, VaultAddress, amount)
    /\ UNCHANGED <<paused, registered, assetManager, internal, relayers, approved, signed>>

\* Mutant: the managed balance is set without checking that the word fits.
UpdateManagedBalanceUnchecked(caller, p, t, amount) ==
    /\ Atomically /\ ~paused
    /\ IsAssetManager(caller, p, t)
    /\ balances' = [balances EXCEPT ![p][t] = [cash |-> @.cash, managed |-> amount]]
    /\ UNCHANGED <<paused, registered, assetManager, internal, wallet,
                   relayers, approved, signed>>

\* UPDATE: the asset manager reports a gain or a loss.
UpdateManagedBalance(caller, p, t, amount) ==
    /\ Atomically /\ ~paused
    /\ IsAssetManager(caller, p, t)
    /\ IsBalance([balances[p][t] EXCEPT !.managed = amount])
    /\ balances' = [balances EXCEPT ![p][t] = [cash |-> @.cash, managed |-> amount]]
    /\ UNCHANGED <<paused, registered, assetManager, internal, wallet,
                   relayers, approved, signed>>

-----------------------------------------------------------------------------
(* UserBalance: manageUserBalance *)

\* The two flags cache, for the rest of the call, that the caller is a relayer
\* and that the Vault is not paused.
ManageUserBalance(caller, steps) ==
    /\ Enter([fn |-> "manageUserBalance", caller |-> caller, steps |-> steps,
              isRelayer |-> FALSE, notPaused |-> FALSE, saved |-> Storage])
    /\ UNCHANGED storageVars

\* Mutant: the cache of the relayer check also skips the user's approval.
MayActForCached(sender) ==
    sender # Top.caller =>
        Top.isRelayer \/ (Top.caller \in relayers /\ Top.caller \in approved[sender])

\* _validateUserBalanceOp.
MayActFor(sender) ==
    sender # Top.caller => /\ Top.isRelayer \/ Top.caller \in relayers
                           /\ Top.caller \in approved[sender]

\* An operation on sender's funds; only withdrawals are allowed while paused.
UserBalanceOp(sender, needsNotPaused) ==
    /\ Running("manageUserBalance") /\ Top.steps > 0
    /\ MayActFor(sender)
    /\ needsNotPaused => Top.notPaused \/ ~paused
    /\ Continue([Top EXCEPT !.steps = @ - 1,
                            !.isRelayer = @ \/ sender # Top.caller,
                            !.notPaused = @ \/ needsNotPaused])
    /\ UNCHANGED <<paused, registered, assetManager, balances, relayers, approved, signed>>

DepositToInternalBalance(sender, recipient, t, amount) ==
    /\ UserBalanceOp(sender, TRUE)
    /\ amount <= wallet[t][sender]
    /\ internal' = Add(internal, recipient, t, amount)
    /\ wallet' = Transfer(wallet, t, sender, VaultAddress, amount)

WithdrawFromInternalBalance(sender, recipient, t, amount) ==
    /\ UserBalanceOp(sender, FALSE)
    /\ amount <= internal[sender][t]
    /\ amount <= wallet[t][VaultAddress]
    /\ internal' = Add(internal, sender, t, -amount)
    /\ wallet' = Transfer(wallet, t, VaultAddress, recipient, amount)

TransferInternalBalance(sender, recipient, t, amount) ==
    /\ UserBalanceOp(sender, TRUE)
    /\ amount <= internal[sender][t]
    /\ internal' = Add(Add(internal, sender, t, -amount), recipient, t, amount)
    /\ UNCHANGED wallet

TransferToExternalBalance(sender, recipient, t, amount) ==
    /\ UserBalanceOp(sender, TRUE)
    /\ amount <= wallet[t][sender]
    /\ wallet' = Transfer(wallet, t, sender, recipient, amount)
    /\ UNCHANGED internal

ManageUserBalanceEnd ==
    /\ Running("manageUserBalance") /\ Top.steps = 0
    /\ Leave
    /\ UNCHANGED storageVars

-----------------------------------------------------------------------------
(* VaultAuthorization, TemporarilyPausable *)

SetRelayerApproval(caller, sender, relayer, isApproved) ==
    /\ Atomically /\ ~paused
    /\ AuthenticateFor(caller, sender)
    /\ approved' = [approved EXCEPT ![sender] =
          IF isApproved THEN @ \cup {relayer} ELSE @ \ {relayer}]
    /\ UNCHANGED <<paused, registered, assetManager, balances, internal, wallet, relayers>>

SetPaused(b) ==
    /\ Atomically /\ CanPause
    /\ paused' = b
    /\ UNCHANGED <<registered, assetManager, balances, internal, wallet,
                   relayers, approved, signed>>

\* The Buffer Period ends between two transactions: the pause is over.
PauseExpires ==
    /\ Idle /\ paused
    /\ paused' = FALSE
    /\ UNCHANGED <<status, stack, registered, assetManager, balances, internal,
                   wallet, relayers, approved, signed>>

-----------------------------------------------------------------------------
(* Code outside the Vault, between calls and at the points where one runs *)

\* An account sends tokens to the Vault: a repayment, or a donation.
SendToVault(u, t, amount) ==
    /\ amount <= wallet[t][u]
    /\ wallet' = Transfer(wallet, t, u, VaultAddress, amount)
    /\ UNCHANGED <<status, stack, paused, registered, assetManager, balances,
                   internal, relayers, approved, signed>>

\* ProtocolFeesCollector.withdrawCollectedFees has a guard of its own.
WithdrawCollectedFees(recipient, t, amount) ==
    /\ amount <= wallet[t][Collector]
    /\ wallet' = Transfer(wallet, t, Collector, recipient, amount)
    /\ UNCHANGED <<status, stack, paused, registered, assetManager, balances,
                   internal, relayers, approved, signed>>

\* The Authorizer allows a relayer contract, or stops allowing it.
ChangeRelayerPermission(r) ==
    /\ relayers' = IF r \in relayers THEN relayers \ {r} ELSE relayers \cup {r}
    /\ UNCHANGED <<status, stack, paused, registered, assetManager, balances,
                   internal, wallet, approved, signed>>

\* user signs one call of a relayer, off chain.
Sign(user, relayer) ==
    /\ Idle /\ user # relayer
    /\ signed' = signed \cup {<<user, relayer>>}
    /\ UNCHANGED <<status, stack, paused, registered, assetManager, balances,
                   internal, wallet, relayers, approved>>

\* Any code that runs in a call may revert it.
Revert ==
    /\ stack # <<>>
    /\ paused' = Top.saved.paused /\ registered' = Top.saved.registered
    /\ assetManager' = Top.saved.assetManager /\ balances' = Top.saved.balances
    /\ internal' = Top.saved.internal /\ wallet' = Top.saved.wallet
    /\ relayers' = Top.saved.relayers /\ approved' = Top.saved.approved
    /\ signed' = Top.saved.signed
    /\ Leave

-----------------------------------------------------------------------------
Init ==
    /\ status = "NOT_ENTERED" /\ stack = <<>>
    /\ paused = FALSE
    /\ registered = [p \in Pools |-> {}]
    /\ assetManager = [p \in Pools |-> [t \in Tokens |-> NoManager]]
    /\ balances = [p \in Pools |-> [t \in Tokens |-> [cash |-> 0, managed |-> 0]]]
    /\ internal = [u \in Users |-> [t \in Tokens |-> 0]]
    /\ wallet = InitialWallet
    /\ relayers = RelayerContracts
    /\ approved = [u \in Users |-> {}]
    /\ signed = {}
    /\ managing = NoManager

PoolTokensNext ==
    \E p \in Pools, toks \in SUBSET Tokens \ {{}} :
        \/ \E managers \in [toks -> Managers \cup {NoManager}] :
              RegisterTokens(p, toks, managers)
        \/ DeregisterTokens(p, toks)

PoolBalancesNext ==
    \/ \E kind \in {"join", "exit"}, caller, sender, recipient \in Users,
          p \in Pools, useInternal \in BOOLEAN :
          JoinOrExit(kind, caller, sender, recipient, p, useInternal)
    \/ \E t \in Tokens, amount, fee \in Amounts :
          \/ ProcessJoinTransfer(t, amount, fee)
          \/ ProcessExitTransfer(t, amount, fee)
    \/ StoreFinalBalances

SwapsNext ==
    \/ \E fn \in {"swap", "batchSwap"}, caller, sender, recipient \in Users,
          fromInternal, toInternal \in BOOLEAN, steps \in 1..MaxSwaps :
          Swap(fn, caller, sender, recipient, fromInternal, toInternal, steps)
    \/ \E p \in Pools, tokenIn, tokenOut \in Tokens : CallOnSwap(p, tokenIn, tokenOut)
    \/ \E amountIn, amountOut \in Amounts : OnSwapReturned(amountIn, amountOut)
    \/ \E t \in Tokens : SettleReceive(t) \/ SettleSend(t)
    \/ SwapEnd

FlashLoansNext ==
    \/ \E recipient \in Users, lent \in SUBSET Tokens, loan \in [Tokens -> Amounts] :
          /\ \A t \in Tokens \ lent : loan[t] = 0
          /\ FlashLoan(recipient, lent, loan)
    \/ FlashLoanRepaid

AssetManagersNext ==
    \E caller \in Users, p \in Pools, t \in Tokens, amount \in Amounts :
        /\ \/ WithdrawPoolBalance(caller, p, t, amount)
           \/ DepositPoolBalance(caller, p, t, amount)
           \/ UpdateManagedBalance(caller, p, t, amount)
        /\ managing' = caller

UserBalanceNext ==
    \/ \E caller \in Users, steps \in 1..MaxOps : ManageUserBalance(caller, steps)
    \/ \E sender, recipient \in Users, t \in Tokens, amount \in Amounts :
          \/ DepositToInternalBalance(sender, recipient, t, amount)
          \/ WithdrawFromInternalBalance(sender, recipient, t, amount)
          \/ TransferInternalBalance(sender, recipient, t, amount)
          \/ TransferToExternalBalance(sender, recipient, t, amount)
    \/ ManageUserBalanceEnd

AuthorizationNext ==
    \/ \E caller, sender \in Users, relayer \in RelayerContracts, isApproved \in BOOLEAN :
          SetRelayerApproval(caller, sender, relayer, isApproved)
    \/ \E b \in BOOLEAN : SetPaused(b)
    \/ PauseExpires

EnvironmentNext ==
    \/ \E u \in Users, t \in Tokens, amount \in Amounts \ {0} :
          SendToVault(u, t, amount) \/ WithdrawCollectedFees(u, t, amount)
    \/ \E r \in RelayerContracts : ChangeRelayerPermission(r)
    \/ \E u \in Users, r \in RelayerContracts : Sign(u, r)
    \/ Revert

Next ==
    \/ AssetManagersNext
    \/ /\ \/ PoolTokensNext \/ PoolBalancesNext \/ SwapsNext \/ FlashLoansNext
          \/ UserBalanceNext \/ AuthorizationNext \/ EnvironmentNext
       /\ managing' = NoManager

Spec == Init /\ [][Next]_vars

-----------------------------------------------------------------------------
(* Properties *)

StorageType ==
    [paused : BOOLEAN,
     registered : [Pools -> SUBSET Tokens],
     assetManager : [Pools -> [Tokens -> Managers \cup {NoManager}]],
     balances : [Pools -> [Tokens -> Word]],
     internal : [Users -> [Tokens -> Nat]],
     wallet : [Tokens -> [Accounts -> Nat]],
     relayers : SUBSET RelayerContracts,
     approved : [Users -> SUBSET RelayerContracts],
     signed : SUBSET (Users \X RelayerContracts)]

PoolFrame == [fn : {"join", "exit"}, caller : Users, party : Users, pool : Pools,
              useInternal : BOOLEAN, final : [Tokens -> Word],
              todo : SUBSET Tokens, saved : StorageType]

Hook == [pending : {FALSE}] \cup
        [pending : {TRUE}, pool : Pools, tokenIn : Tokens, tokenOut : Tokens,
         balanceIn : Word, balanceOut : Word]

SwapFrame == [fn : {"swap", "batchSwap"}, caller : Users, party : Users,
              recipient : Users, fromInternal : BOOLEAN, toInternal : BOOLEAN,
              steps : Nat, hook : Hook, delta : [Tokens -> Int], saved : StorageType]

LoanFrame == [fn : {"flashLoan"}, caller : Users, lent : SUBSET Tokens,
              loan : [Tokens -> Nat], pre : [Tokens -> Nat], saved : StorageType]

UserFrame == [fn : {"manageUserBalance"}, caller : Users, steps : Nat,
              isRelayer : BOOLEAN, notPaused : BOOLEAN, saved : StorageType]

Frame == PoolFrame \cup SwapFrame \cup LoanFrame \cup UserFrame

ContractTyped ==
    /\ status \in {"NOT_ENTERED", "ENTERED"}
    /\ Storage \in StorageType
    /\ stack \in Seq(Frame)

\* The storage holds balances that fit the contract's types, and a frame for
\* each call in progress.
TypeOK == ContractTyped /\ managing \in Users \cup {NoManager}

\* What the running call still has to bring in, less what it has to send out:
\* the difference between the books and the Vault's tokens while it runs.
InFlight(t) ==
    IF Running("join") \/ Running("exit")
    THEN balances[Top.pool][t].cash - Top.final[t].cash
    ELSE IF Swapping THEN Top.delta[t]
    ELSE IF Running("flashLoan") /\ t \in Top.lent
    THEN Top.pre[t] - wallet[t][VaultAddress]
    ELSE 0

\* At every point of every call, the Vault's tokens and what the call still
\* owes cover the cash of all Pools and all Internal Balances.
Backed ==
    \A t \in Tokens :
        Total(Claims(balances, internal, t)) <= wallet[t][VaultAddress] + InFlight(t)

\* Whoever sees the Vault outside of a call (this is what VaultReentrancyLib's
\* ensureNotInVaultContext gives its users) sees books that are fully covered
\* by tokens: all Pools and all users could withdraw everything.
VaultSolvent == status = "NOT_ENTERED" => Solvent(balances, internal, wallet)

\* The balances a join, an exit or a swap read before it called the Pool are
\* still the stored ones when it writes them back: no call made from the hook
\* or from a recipient of ETH is overwritten.
NoStaleBalances ==
    /\ Running("join") \/ Running("exit") =>
          \A t \in Tokens :
              /\ t \in Top.todo => Top.final[t] = balances[Top.pool][t]
              /\ Top.final[t].managed = balances[Top.pool][t].managed
    /\ Swapping /\ Top.hook.pending =>
          /\ Top.hook.balanceIn = balances[Top.hook.pool][Top.hook.tokenIn]
          /\ Top.hook.balanceOut = balances[Top.hook.pool][Top.hook.tokenOut]

\* A Pool has no cash, no managed balance and no asset manager in a token that
\* is not registered: deregistering strands nothing, also not when a join or
\* an exit of the Pool is under way.
UnregisteredIsEmpty ==
    \A p \in Pools : \A t \in Tokens \ registered[p] :
        /\ balances[p][t] = [cash |-> 0, managed |-> 0]
        /\ assetManager[p][t] = NoManager

\* The packed word never overflows its 112 bits.
BalancesFit ==
    \A p \in Pools, t \in Tokens :
        balances[p][t].cash + balances[p][t].managed <= MaxBalance

\* A flash loan that is not reverted leaves the Vault exactly as it was when
\* the tokens went out, whatever was called meanwhile: the same tokens, the
\* same Pools, the same Internal Balances.
FlashLoanIsNeutral ==
    [][FlashLoanRepaid =>
         /\ \A t \in Top.lent :
               wallet'[t][VaultAddress] = Top.saved.wallet[t][VaultAddress]
         /\ balances = Top.saved.balances /\ internal = Top.saved.internal]_vars

\* While the Vault is paused, Pools and users can only get out: no Pool gains
\* cash, nobody's tokens are pulled, and managed balances, registrations and
\* approvals stay as they are.
PauseOnlyLetsOut ==
    [][paused =>
         /\ \A p \in Pools, t \in Tokens :
               /\ balances'[p][t].cash <= balances[p][t].cash
               /\ balances'[p][t].managed = balances[p][t].managed
         /\ UNCHANGED <<registered, assetManager, approved>>
         /\ stack' # stack /\ ~Revert =>
               \A u \in Users, t \in Tokens : wallet'[t][u] >= wallet[t][u]]_vars

\* The approval, or the signature spent on this call, by which the caller of
\* the running call may touch u's funds.
ConsentOf(u) ==
    \/ Top.caller = u
    \/ Top.caller \in approved[u]
    \/ <<u, Top.caller>> \in Top.saved.signed \ signed

\* A call takes tokens or Internal Balance only from its caller or from a user
\* who approved that caller, or signed for it: not even a relayer that the
\* Authorizer allows to act for everybody can touch others.
DebitNeedsConsent ==
    [][\A u \in Users, t \in Tokens :
         \/ internal'[u][t] < internal[u][t]
         \/ stack' # stack /\ wallet'[t][u] < wallet[t][u]
         => stack # <<>> /\ (Revert \/ ConsentOf(u))]_vars

\* A managed balance changes only while no call is in progress and only by an
\* operation whose sender is the asset manager the Pool chose for that token.
\* Either the manager reports a new balance, which moves no token and no cash, or
\* what moves between cash and managed moves between the Vault and the manager.
\* No join, exit, swap or loan changes one, nor anything called during one.
ManagedIsTheManagers ==
    [][\A p \in Pools, t \in Tokens :
         balances'[p][t].managed # balances[p][t].managed
         => /\ Idle /\ managing' \in Users /\ managing' = assetManager[p][t]
            /\ \/ balances'[p][t].cash = balances[p][t].cash /\ UNCHANGED wallet
               \/ /\ balances'[p][t].cash + balances'[p][t].managed
                       = balances[p][t].cash + balances[p][t].managed
                  /\ wallet' = Transfer(wallet, t, VaultAddress, managing',
                                        balances[p][t].cash - balances'[p][t].cash)]_vars
=============================================================================
