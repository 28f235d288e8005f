------------------------------- MODULE MCClients -------------------------------
(***************************************************************************)
(* The TypeScript that tests and users depend on, side by side: a behaviour  *)
(* exercises one part of it, and the others stay at one initial state.      *)
(***************************************************************************)
EXTENDS PoolClients, SharedBeforeEach, MerkleTree, Signatures, PoolInputs, VaultAdmin, TokenLists, Deployments

CONSTANTS alice, bob, relayer

VARIABLE subject
clientVars == <<poolVars, fixtureVars, given, sigVars, inputs, adminVars, tokenVars, deploymentVars>>
Subjects == {"pools", "fixtures", "merkle", "signatures", "inputs", "admin", "tokens", "deployments"}

-----------------------------------------------------------------------------
(* Constants *)

SomeInits == 2 :> {<<1000, 9000>>} @@ 3 :> {<<4000, 3000, 1000>>}

\* Files of three suites, next to each other or inside each other; and none.
Parents == {<<0, 1, 1>>, <<0, 1, 2>>, <<0, 0, 2>>}
SomeHooks == {<<>>, <<"shared">>, <<"plain">>, <<"shared", "plain">>, <<"plain", "shared">>, <<"shared", "shared">>}
NoShape == [parent |-> <<>>, hooks |-> <<>>, tests |-> <<>>]

AllShapes ==
    {[parent |-> p, hooks |-> h, tests |-> t] :
        p \in Parents, h \in [1..3 -> SomeHooks], t \in {<<0, 2, 1>>, <<1, 1, 2>>}} \cup {NoShape}

SignerAndContract ==
    {[form |-> "signer", address |-> alice], [form |-> "contract", address |-> relayer]}

\* The exit, the swap and the batch are signed like the join, for the same contract.
SomeMethods ==
    {"signJoinAuthorization", "signSetRelayerApprovalAuthorization", "signSetMinterApproval", "signPermit"}

\* Zero in both forms, of which the number is taken for none, and a nonce that is not next at first.
SomeNonces == [form : {"number", "BigNumber"}, value : {0}] \cup [form : {"number"}, value : {1}]

SomeMaximum == [f \in FeeTypes |-> IF f = "swap" THEN 2 ELSE 1]

\* A number of its own or zero, which is taken for none; and what is not the default.
SomeValues ==
    [f \in Numeric |-> {0, 5}] @@ "fromFactory" :> BOOLEAN @@ "mustAllowlistLPs" :> {TRUE}
        @@ "mockedVault" :> {TRUE} @@ "swapEnabledOnStart" :> {FALSE}
        @@ "poolType" :> {"MockManagedPoolSettings"} @@ [f \in OtherFields |-> {"asked"}]
Sevens == [f \in Numeric |-> 7]

\* A Pool without a fee has two tokens and a real Vault, one of three tokens a real Vault;
\* BPT takes each place of two tokens, and others of these.
EnoughOfEach ==
    /\ client.fee = 0 => Len(client.tokens) = 2 /\ ~mocked /\ client.bptIndex \in {0, 1}
    /\ mocked => Len(client.tokens) = 2 /\ client.bptIndex \in {0, 2}
    /\ Len(client.tokens) = 3 => client.bptIndex \in {0, 3}
FirstClient == [tokens |-> Names(2), bptIndex |-> 0, amp |-> 0, weights |-> <<WAD \div 2, WAD \div 2>>, fee |-> 0]

-----------------------------------------------------------------------------
ClientsInit ==
    /\ subject \in Subjects
    /\ PoolsInit /\ IF subject = "pools" THEN EnoughOfEach ELSE client = FirstClient /\ ~mocked
    /\ FixturesInit /\ (subject = "fixtures" <=> shape # NoShape)
    /\ MerkleInit /\ SignaturesInit /\ InputsInit
    /\ AdminInit /\ (subject # "admin" => admin = alice /\ poolDeployer = alice)
    /\ TokensInit
    /\ DeploymentsInit /\ (subject # "deployments" => asked = EmptyRequest)

ClientsNext ==
    /\ UNCHANGED subject
    /\ \/ /\ subject = "pools" /\ PoolsNext
          /\ UNCHANGED <<fixtureVars, given, sigVars, inputs, adminVars, tokenVars, deploymentVars>>
       \/ /\ subject = "fixtures" /\ FixturesNext
          /\ UNCHANGED <<poolVars, given, sigVars, inputs, adminVars, tokenVars, deploymentVars>>
       \/ /\ subject = "merkle" /\ MerkleNext
          /\ UNCHANGED <<poolVars, fixtureVars, sigVars, inputs, adminVars, tokenVars, deploymentVars>>
       \/ /\ subject = "signatures" /\ SignaturesNext
          /\ UNCHANGED <<poolVars, fixtureVars, given, inputs, adminVars, tokenVars, deploymentVars>>
       \/ /\ subject = "inputs" /\ InputsNext
          /\ UNCHANGED <<poolVars, fixtureVars, given, sigVars, adminVars, tokenVars, deploymentVars>>
       \/ /\ subject = "admin" /\ AdminNext
          /\ UNCHANGED <<poolVars, fixtureVars, given, sigVars, inputs, tokenVars, deploymentVars>>
       \/ /\ subject = "tokens" /\ TokensNext
          /\ UNCHANGED <<poolVars, fixtureVars, given, sigVars, inputs, adminVars, deploymentVars>>
       \/ /\ subject = "deployments" /\ DeploymentsNext
          /\ UNCHANGED <<poolVars, fixtureVars, given, sigVars, inputs, adminVars, tokenVars>>

Spec == ClientsInit /\ [][ClientsNext]_<<clientVars, subject>> /\ FixturesFairness
===============================================================================
