------------------------------ MODULE TokenLists ------------------------------
(***************************************************************************)
(* The tokens of a test: how they are deployed (TokensDeployer.ts), and the  *)
(* list of handles on them with which tests mint for several accounts at     *)
(* once (TokenList.ts, Token.ts, TypesConverter.ts). A contract's address is *)
(* a number, and any: deployments run side by side. A list that is asked for *)
(* sorted is one of anonymous tokens TK0, TK1, ..., whose handles get the    *)
(* names that were asked for once they are sorted, but neither the decimals  *)
(* nor the kind of contract.                                               *)
(* The transactions of a method are all sent at once, so that one that fails *)
(* stops none of the others. Left out: the amount by default, MAX_UINT256,   *)
(* which can be minted once; transfers, burning and approvals.              *)
(***************************************************************************)
EXTENDS Integers, Sequences, SequencesExt, FiniteSets, Functions

CONSTANTS
    TokenAddresses,
    Holders,            \* accounts
    SomeSymbols,        \* bound: the symbols that are asked for
    SomeDecimals,       \* bound: the decimals that are asked for, or Unasked
    Unasked,
    DecimalsCycle,      \* 19: computeDecimalsFromIndex repeats
    DefaultDecimals,    \* 18
    MaxTokens,          \* bounds: the tokens of a list, what is minted, and how
    MintAmounts,        \* many calls are made
    MaxTokenCalls

ASSUME TokensAssumption ==
    /\ TokenAddresses \subseteq Nat /\ SomeDecimals \subseteq Nat /\ MintAmounts \subseteq Nat
    /\ DecimalsCycle \in Nat \ {0} /\ {DefaultDecimals, MaxTokens} \subseteq Nat

VARIABLES
    contracts,      \* the kind and decimals of what is deployed, by address
    handles,        \* name and decimals that the Token at an address shows
    list,           \* the TokenList: addresses of its handles
    request,        \* history: what was asked for
    balance,
    minted,         \* history: what each account should have, in units of tokens and of
                    \* their smallest parts
    tokenCalls
tokenVars == <<contracts, handles, list, request, balance, minted, tokenCalls>>

-----------------------------------------------------------------------------
(* Deployment *)

TK(i) == "TK" \o ToString(i)
ComputeDecimalsFromIndex(i) == i % DecimalsCycle

\* A param has the symbol and the decimals that are asked for, if any; i counts
\* from zero.
ToTokenDeployments(params, varyDecimals) ==
    [i \in DOMAIN params |->
        [symbol |-> IF params[i].symbol = Unasked THEN TK(i - 1) ELSE params[i].symbol,
         decimals |-> CASE params[i].decimals # Unasked -> params[i].decimals
                        [] varyDecimals -> ComputeDecimalsFromIndex(i - 1)
                        [] OTHER -> DefaultDecimals]]

\* Only how many they are.
TrimParamsForSortedDeploy(params) == [i \in DOMAIN params |-> [symbol |-> Unasked, decimals |-> Unasked]]

\* A TestWETH has 18 decimals whatever its handle is told.
Deployed(deployment) ==
    IF deployment.symbol = "WETH" THEN [kind |-> "TestWETH", decimals |-> DefaultDecimals]
    ELSE [kind |-> "TestToken", decimals |-> deployment.decimals]

\* Sorted by compare: the tokens of a list are at different addresses.
Ascending(addresses) ==
    [i \in DOMAIN addresses |->
        CHOOSE a \in Range(addresses) : Cardinality({b \in Range(addresses) : b < a}) = i - 1]

\* The handles of sorted tokens are renamed in the order of the params; the decimals
\* stay with the contract. The mutant has the decimals of the params as well.
SortTokensDeploymentWithDecimals(shown, sorted, params) ==
    LET renamed == ToTokenDeployments(params, FALSE)
    IN [a \in DOMAIN shown |-> renamed[CHOOSE i \in DOMAIN sorted : sorted[i] = a]]

SortTokensDeployment(shown, sorted, params) ==
    LET renamed == ToTokenDeployments(params, FALSE)
    IN [a \in DOMAIN shown |->
          [shown[a] EXCEPT !.symbol = renamed[CHOOSE i \in DOMAIN sorted : sorted[i] = a].symbol]]

\* deploy: the i-th deployment ends up at the address at[i].
Deploy(params, sorted, varyDecimals, at) ==
    LET deployments == ToTokenDeployments(IF sorted THEN TrimParamsForSortedDeploy(params) ELSE params, varyDecimals)
        deploymentAt == [a \in Range(at) |-> deployments[CHOOSE i \in DOMAIN at : at[i] = a]]
        none == [a \in Range(at) |-> [h \in Holders |-> 0]]
    IN /\ list = <<>>
       /\ contracts' = [a \in Range(at) |-> Deployed(deploymentAt[a])]
       /\ handles' = IF sorted THEN SortTokensDeployment(deploymentAt, Ascending(at), params) ELSE deploymentAt
       /\ list' = IF sorted THEN Ascending(at) ELSE at
       /\ request' = [params |-> params, sorted |-> sorted, varyDecimals |-> varyDecimals]
       /\ balance' = none
       /\ minted' = [h \in Holders |-> [tokens |-> 0, parts |-> 0]]

-----------------------------------------------------------------------------
(* Methods of the list *)

\* An account, or a list of them.
Listed(accounts) == IF accounts \in Holders THEN <<accounts>> ELSE accounts
TimesIn(account, accounts) == Cardinality({i \in DOMAIN accounts : accounts[i] = account})

\* toTokenMints throws for several senders to one account, or to another number of
\* accounts. A sender is none, one or a list.
ConsistentSenders(to, from) ==
    from \notin Holders \cup {Unasked} => to \notin Holders /\ Len(to) = Len(from)

\* mint of a Token: a handle on a WETH deposits, which a TestToken cannot, and one on a
\* wstETH does nothing.
Mints(a) ==
    CASE handles[a].symbol = "WETH" -> contracts[a].kind = "TestWETH"
      [] handles[a].symbol = "wstETH" -> FALSE
      [] OTHER -> TRUE

Minted(a, to, amount) ==
    [h \in Holders |-> balance[a][h] + IF Mints(a) THEN TimesIn(h, to) * amount ELSE 0]

Mint(to, amount, from) ==
    /\ list # <<>> /\ ConsistentSenders(to, from)
    /\ balance' = [a \in Range(list) |-> Minted(a, Listed(to), amount)]
    /\ minted' = [h \in Holders |-> [minted[h] EXCEPT !.parts = @ + TimesIn(h, Listed(to)) * amount]]
    /\ UNCHANGED <<contracts, handles, list, request>>

\* mintScaled: so many units of each token.
MintScaled(to, amount, from) ==
    /\ list # <<>> /\ ConsistentSenders(to, from)
    /\ balance' = [a \in Range(list) |-> Minted(a, Listed(to), amount * 10 ^ handles[a].decimals)]
    /\ minted' = [h \in Holders |-> [minted[h] EXCEPT !.tokens = @ + TimesIn(h, Listed(to)) * amount]]
    /\ UNCHANGED <<contracts, handles, list, request>>

\* sort is in place, and returns a list of the same array.
SortList ==
    /\ list # <<>> /\ list' = Ascending(list)
    /\ UNCHANGED <<contracts, handles, request, balance, minted>>

-----------------------------------------------------------------------------
TokensInit ==
    /\ contracts = <<>> /\ handles = <<>> /\ list = <<>> /\ request = <<>>
    /\ balance = <<>> /\ minted = <<>> /\ tokenCalls = 0

SomeParams == [symbol : SomeSymbols \cup {Unasked}, decimals : SomeDecimals \cup {Unasked}]
Places(n) == {at \in [1..n -> TokenAddresses] : IsInjective(at)}
SomeAccounts == Holders \cup {<<h, k>> : h \in Holders, k \in Holders}

TokensNext ==
    /\ tokenCalls < MaxTokenCalls /\ tokenCalls' = tokenCalls + 1
    /\ \/ /\ list = <<>>
          /\ \E n \in 1..MaxTokens : \E params \in [1..n -> SomeParams], at \in Places(n), sorted, varyDecimals \in BOOLEAN :
                Deploy(params, sorted, varyDecimals, at)
       \/ \E to \in SomeAccounts, from \in SomeAccounts \cup {Unasked}, amount \in MintAmounts :
             Mint(to, amount, from) \/ MintScaled(to, amount, from)
       \/ SortList

TokensSpec == TokensInit /\ [][TokensNext]_tokenVars

-----------------------------------------------------------------------------
(* Properties *)

\* mintScaled gives as many whole tokens of each, however the list was deployed and
\* whichever contract a handle got: what an account has is what was minted, counted
\* with the decimals of the contract. Not so for a TestWETH whose handle was given
\* other decimals than 18, and a TestToken that is called WETH or wstETH is not minted.
ScaledByContract ==
    \A a \in Range(list), h \in Holders :
        /\ Mints(a) /\ (contracts[a].kind = "TestWETH" => handles[a].decimals = DefaultDecimals) =>
            balance[a][h] = minted[h].parts + minted[h].tokens * 10 ^ contracts[a].decimals
        /\ ~Mints(a) => balance[a][h] = 0

\* A list that was asked for sorted ascends by address, as the Vault wants it, and its
\* symbols are in the order in which they were asked for.
SortedAsAsked ==
    list # <<>> /\ request.sorted =>
        \A i \in DOMAIN list :
            /\ i > 1 => list[i - 1] < list[i]
            /\ handles[list[i]].symbol = ToTokenDeployments(request.params, FALSE)[i].symbol

\* What tests rely on when they make Pools of such lists.
TokensAreAsAsked == ScaledByContract /\ SortedAsAsked
===============================================================================
