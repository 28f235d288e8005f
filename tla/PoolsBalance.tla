---------------------------- MODULE PoolsBalance ----------------------------
(***************************************************************************)
(* A Pool of any specialization: it chooses one when it registers, and     *)
(* from then on the Vault dispatches every operation on its balances to    *)
(* the storage layout of that specialization.                              *)
(***************************************************************************)
EXTENDS GeneralPoolsBalance, MinimalSwapInfoPoolsBalance, TwoTokenPoolsBalance

VARIABLE specialization     \* in the Pool's id; "none" before registerPool

generalStorage == map
minimalStorage == <<balances, tokens>>
twoTokenStorage == <<tokenA, tokenB, pairBalances>>
vars == <<block, call, specialization, generalStorage, minimalStorage, twoTokenStorage>>

Init ==
    /\ specialization = "none"
    /\ GeneralInit /\ MinimalInit /\ TwoTokenInit

\* registerPool
RegisterPool(s) ==
    /\ Idle /\ specialization = "none"
    /\ specialization' = s
    /\ UNCHANGED <<block, call, generalStorage, minimalStorage, twoTokenStorage>>

GeneralPoolNext ==
    /\ specialization = "general" /\ GeneralNext
    /\ UNCHANGED <<specialization, minimalStorage, twoTokenStorage>>

MinimalSwapInfoPoolNext ==
    /\ specialization = "minimalSwapInfo" /\ MinimalNext
    /\ UNCHANGED <<specialization, generalStorage, twoTokenStorage>>

TwoTokenPoolNext ==
    /\ specialization = "twoToken" /\ TwoTokenNext
    /\ UNCHANGED <<specialization, generalStorage, minimalStorage>>

Next ==
    \/ \E s \in {"general", "minimalSwapInfo", "twoToken"} : RegisterPool(s)
    \/ GeneralPoolNext \/ MinimalSwapInfoPoolNext \/ TwoTokenPoolNext

Spec == Init /\ [][Next]_vars

-----------------------------------------------------------------------------
(* Properties *)

\* Over all registrations, hooks and reports: no total of cash and managed reaches the
\* limit, though each action looks at some of the fields only; swap and pop keeps the two
\* halves of the EnumerableMap in step; a balance that is not zero is that of registered
\* tokens, which the getters that skip the check rely on; and what was read before a hook,
\* words and positions, is still what is stored when it returns.
StorageIsSound ==
    /\ GeneralTypeOK /\ MinimalTypeOK /\ TwoTokenTypeOK
    /\ IndexesMatchEntries
    /\ MinimalNonZeroIsRegistered /\ TwoTokenNonZeroIsRegistered
    /\ specialization = "general" => GeneralReadIsCurrent
    /\ specialization = "minimalSwapInfo" => MinimalReadIsCurrent
    /\ specialization = "twoToken" => TwoTokenReadIsCurrent

\* Each layout keeps the promises of the PoolLedger, with all that it leaves unread or
\* unchecked over a hook.
LayoutsKeepLedger == GeneralKeepsLedger /\ MinimalKeepsLedger /\ TwoTokenKeepsLedger

\* What getPoolTokens tells of the Pool: the balances of its tokens.
ledger ==
    CASE specialization = "twoToken" ->
            [t \in {u \in Tokens : IsRegistered(u)} |-> BalanceOf(t)]
      [] specialization = "minimalSwapInfo" -> [t \in tokens |-> Unpacked(balances[t])]
      [] OTHER -> [t \in {u \in Tokens : Listed(map, u)} |-> Unpacked(Get(map, t))]

\* An older block of the last change means a total that nothing has touched in
\* this block, which an oracle that fears sandwich attacks relies on
\* (BalanceAllocation.sol, "The remaining 32 bits"): no step moves a total
\* without recording the block, nor takes a record back while the token stays
\* registered.
ChangesAreRecorded ==
    [][\A t \in DOMAIN ledger \cap DOMAIN ledger' :
          /\ ledger'[t].changed >= ledger[t].changed
          /\ Total(ledger'[t]) # Total(ledger[t]) => ledger'[t].changed = block]_vars
=============================================================================
