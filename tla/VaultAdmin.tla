------------------------------ MODULE VaultAdmin ------------------------------
(***************************************************************************)
(* What tests do to a Vault and its Pools through the client of the Vault    *)
(* (Vault.ts, BasePool.ts) as its administrator: the client first grants      *)
(* the permissions that a call needs, each in a transaction of its own, and   *)
(* then calls, so that grants stay when the call fails. Three accounts that    *)
(* may differ play together: the admin, who is the root of the authorizer;   *)
(* the first signer, who acts by default; and who deployed the Pool, with      *)
(* whom the Pool's functions without a `from` are called.                     *)
(* Neither pause window ends.                                              *)
(***************************************************************************)
EXTENDS Integers

CONSTANTS
    FirstSigner, OtherSigner, FeesProvider,     \* accounts
    Percentages,        \* bound: the percentages that are set
    Maximum,            \* of each type of fee
    MaxCollected,       \* bounds: the fees there are to withdraw, and how many
    MaxAdminCalls       \* calls are made

NoAccount == "no account"
Everywhere == "everywhere"
FeeTypes == {"swap", "flashLoan", "yield", "aum"}
Signers == {FirstSigner, OtherSigner}

ASSUME AdminAssumption == NoAccount \notin Signers \cup {FeesProvider} /\ FeesProvider \notin Signers

VARIABLES
    admin, poolDeployer,
    granted,            \* of the client's authorizer: <<action, account, where>>
    vaultAuthorizer,    \* whether the Vault's is still the client's, "ours"
    percentages, paused, recoveryMode, collected,
    lastCall,            \* of the last call
    adminCalls
adminVars == <<admin, poolDeployer, granted, vaultAuthorizer, percentages, paused, recoveryMode, collected, lastCall, adminCalls>>
chainVars == <<percentages, paused, recoveryMode, collected>>

-----------------------------------------------------------------------------
(* The authorizer *)

HasPermission(grants, action, account, where) ==
    {<<action, account, where>>, <<action, account, Everywhere>>} \cap grants # {}

CanPerform(grants, action, account, where) ==
    vaultAuthorizer = "ours" /\ HasPermission(grants, action, account, where)

-----------------------------------------------------------------------------
(* The client's grants *)

\* VaultDeployer.deploy: the admin that is asked for, else who deploys, else the
\* first signer.
AdminOf(asked, from) ==
    CASE asked # NoAccount -> asked
      [] from # NoAccount -> from
      [] OTHER -> FirstSigner

\* _defaultSender
GranteeAdmin(to) == IF to = NoAccount THEN admin ELSE to
Grantee(to) == IF to = NoAccount THEN FirstSigner ELSE to

GrantPermissionGloballyIfNeeded(grants, action, to) ==
    IF HasPermission(grants, action, Grantee(to), Everywhere)
    THEN grants ELSE grants \cup {<<action, Grantee(to), Everywhere>>}

\* grantPermissionIfNeeded throws for a permission that is held everywhere: the
\* grants of a sequence that come before the first one that does.
GrantedBeforeThrowing(grants, sequence) ==
    {sequence[i] : i \in {j \in DOMAIN sequence : \A k \in 1..j :
        <<sequence[k][1], sequence[k][2], Everywhere>> \notin grants}}

Outcome(ok, thrown, legal) == [ok |-> ok, thrown |-> thrown, legal |-> legal, feeType |-> NoAccount, percentage |-> 0]

-----------------------------------------------------------------------------
(* Operations *)

AdminInit ==
    /\ \E asked \in Signers \cup {NoAccount}, from \in Signers \cup {NoAccount} : admin = AdminOf(asked, from)
    /\ poolDeployer \in Signers
    /\ granted = {} /\ vaultAuthorizer = "ours"
    /\ percentages = [f \in FeeTypes |-> 0]
    /\ paused = FALSE /\ recoveryMode = FALSE
    /\ collected = MaxCollected
    /\ lastCall = Outcome(TRUE, FALSE, FALSE) /\ adminCalls = 0

SetterOf(feeType) == IF feeType = "swap" THEN "setSwapFeePercentage" ELSE "setFlashLoanFeePercentage"

Set(feeType, percentage, grants, ok, thrown, legal) ==
    /\ granted' = grants
    /\ percentages' = IF ok THEN [percentages EXCEPT ![feeType] = percentage] ELSE percentages
    /\ lastCall' = [Outcome(ok, thrown, legal) EXCEPT !.feeType = feeType, !.percentage = percentage]
    /\ UNCHANGED <<admin, poolDeployer, vaultAuthorizer, paused, recoveryMode, collected>>

\* setSwapFeePercentage, setFlashLoanFeePercentage: the grant is the admin's, also
\* when another account calls.
SetCollectorPercentage(feeType, percentage, from) ==
    LET sender == IF from = NoAccount THEN admin ELSE from
        grants == GrantPermissionGloballyIfNeeded(granted, SetterOf(feeType), admin)
        ok == CanPerform(grants, SetterOf(feeType), sender, "collector") /\ percentage <= Maximum[feeType]
    IN Set(feeType, percentage, grants, ok, FALSE, sender = admin /\ percentage <= Maximum[feeType])

\* setFeeTypePercentage: through the provider, which calls the collector for the
\* two types that the collector keeps.
SetFeeTypePercentage(feeType, percentage) ==
    LET needed == << <<"setFeeTypePercentage", admin, "provider">>,
                     <<"setSwapFeePercentage", FeesProvider, "collector">>,
                     <<"setFlashLoanFeePercentage", FeesProvider, "collector">> >>
        some == GrantedBeforeThrowing(granted, needed)
        grants == granted \cup some
        thrown == \E i \in DOMAIN needed : needed[i] \notin some
        ok == /\ ~thrown /\ percentage <= Maximum[feeType]
              /\ CanPerform(grants, "setFeeTypePercentage", admin, "provider")
              /\ feeType \in {"swap", "flashLoan"} =>
                    CanPerform(grants, SetterOf(feeType), FeesProvider, "collector")
    IN Set(feeType, percentage, grants, ok, thrown, percentage <= Maximum[feeType])

\* pause, unpause: both are granted to the first signer, and called as whoever
\* deployed the Pool.
SetPaused(pause) ==
    LET grants == GrantPermissionGloballyIfNeeded(
                    GrantPermissionGloballyIfNeeded(granted, "pause", NoAccount), "unpause", NoAccount)
        ok == CanPerform(grants, IF pause THEN "pause" ELSE "unpause", poolDeployer, "pool")
    IN /\ granted' = grants
       /\ paused' = IF ok THEN pause ELSE paused
       /\ lastCall' = Outcome(ok, FALSE, poolDeployer = FirstSigner)
       /\ UNCHANGED <<admin, poolDeployer, vaultAuthorizer, percentages, recoveryMode, collected>>

\* enableRecoveryMode, disableRecoveryMode: granted to who calls.
SetRecoveryMode(enable, from) ==
    LET grants == GrantPermissionGloballyIfNeeded(
                    GrantPermissionGloballyIfNeeded(granted, "enableRecoveryMode", Grantee(from)),
                    "disableRecoveryMode", Grantee(from))
        ok == /\ recoveryMode # enable
              /\ CanPerform(grants, IF enable THEN "enableRecoveryMode" ELSE "disableRecoveryMode",
                            IF from = NoAccount THEN FirstSigner ELSE from, "pool")
    IN /\ granted' = grants
       /\ recoveryMode' = IF ok THEN enable ELSE recoveryMode
       /\ lastCall' = Outcome(ok, FALSE, recoveryMode # enable)
       /\ UNCHANGED <<admin, poolDeployer, vaultAuthorizer, percentages, paused, collected>>

\* grantPermissionGlobally, which tests also call themselves.
GrantPermissionGlobally(action, to) ==
    LET thrown == HasPermission(granted, action, Grantee(to), Everywhere)
    IN /\ granted' = IF thrown THEN granted ELSE granted \cup {<<action, Grantee(to), Everywhere>>}
       /\ lastCall' = Outcome(~thrown, thrown, FALSE)
       /\ UNCHANGED <<admin, poolDeployer, vaultAuthorizer, chainVars>>

\* setAuthorizer: the client keeps the authorizer it had, and will not grant the
\* permission twice.
SetAuthorizer(newAuthorizer) ==
    LET thrown == HasPermission(granted, "setAuthorizer", admin, Everywhere)
        grants == granted \cup {<<"setAuthorizer", admin, Everywhere>>}
        ok == ~thrown /\ CanPerform(grants, "setAuthorizer", admin, "vault")
    IN /\ granted' = grants
       /\ vaultAuthorizer' = IF ok THEN newAuthorizer ELSE vaultAuthorizer
       /\ lastCall' = Outcome(ok, thrown, TRUE)
       /\ UNCHANGED <<admin, poolDeployer, chainVars>>

\* withdrawCollectedFees: nothing is granted for it.
WithdrawCollectedFees(amount, from) ==
    LET ok == amount <= collected /\ CanPerform(granted, "withdrawCollectedFees", Grantee(from), "collector")
    IN /\ collected' = IF ok THEN collected - amount ELSE collected
       /\ lastCall' = Outcome(ok, FALSE,
                             amount <= collected /\ <<"withdrawCollectedFees", Grantee(from), Everywhere>> \in granted)
       /\ UNCHANGED <<admin, poolDeployer, granted, vaultAuthorizer, percentages, paused, recoveryMode>>

\* What tests grant by hand.
ByHand == {<<"setFeeTypePercentage", admin>>, <<"setSwapFeePercentage", FeesProvider>>, <<"withdrawCollectedFees", NoAccount>>}

AdminNext ==
    /\ adminCalls < MaxAdminCalls /\ adminCalls' = adminCalls + 1
    /\ \/ \E f \in {"swap", "flashLoan"}, p \in Percentages, from \in Signers \cup {NoAccount} : SetCollectorPercentage(f, p, from)
       \/ \E f \in FeeTypes, p \in Percentages : SetFeeTypePercentage(f, p)
       \/ \E pause \in BOOLEAN : SetPaused(pause)
       \/ \E enable \in BOOLEAN, from \in Signers \cup {NoAccount} : SetRecoveryMode(enable, from)
       \/ \E g \in ByHand : GrantPermissionGlobally(g[1], g[2])
       \/ \E a \in {"ours", "another"} : SetAuthorizer(a)
       \/ \E amount \in 1..MaxCollected, from \in Signers \cup {NoAccount} : WithdrawCollectedFees(amount, from)

AdminSpec == AdminInit /\ [][AdminNext]_adminVars

-----------------------------------------------------------------------------
(* Properties *)

\* A test that calls as the admin may do so in any order and any number of times:
\* no call of the client makes a later one fail. Only two of its functions are
\* touchy, and tell so: setAuthorizer the second time, and setFeeTypePercentage
\* after a test granted one of its permissions everywhere by hand; and nothing
\* works after the Vault's authorizer was replaced, which the client does not
\* notice. What was set is what the provider reports.
AdminIsObeyed ==
    /\ lastCall.legal /\ ~lastCall.thrown /\ vaultAuthorizer = "ours" =>
        /\ lastCall.ok
        /\ lastCall.feeType # NoAccount => percentages[lastCall.feeType] = lastCall.percentage
    /\ lastCall.thrown =>
        \/ <<"setAuthorizer", admin, Everywhere>> \in granted
        \/ \E g \in ByHand : <<g[1], Grantee(g[2]), Everywhere>> \in granted
===============================================================================
