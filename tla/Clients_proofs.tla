---------------------------- MODULE Clients_proofs ----------------------------
(***************************************************************************)
(* Theorems about the TypeScript: what users sign (Signatures), whom the     *)
(* Vault obeys (VaultAdmin), and the lists of tokens that tests deploy and   *)
(* mint (TokenLists). Each is a component of its own.                       *)
(***************************************************************************)
EXTENDS Signatures, VaultAdmin, TokenLists, SequenceTheorems, FiniteSetTheorems, TLAPS

-----------------------------------------------------------------------------
(* Signatures: the inductive invariant *)

SignTypes == {TypeOf(m) : m \in SignMethods}
AskedSet == [method : Methods, user : Users, account : Accounts, content : Contents, deadline : Deadlines, nonce : Nonces]
Digests == [domain : Validators, type : SignTypes, content : Contents, account : Addresses, nonce : Nat, deadline : Deadlines]
SignatureSet == [asked : AskedSet, signer : Users, digest : Digests, next : Nat]
CallSet ==
    [user : Users, type : SignTypes, content : Contents, account : Addresses, at : Nat, nonce : Nat,
     signature : SignatureSet]

SigTypes ==
    /\ now \in Nat /\ nextNonce \in [Validators -> [Users -> Nat]]
    /\ signatures \subseteq SignatureSet /\ accepted \in Seq(CallSet)

\* A signature is by who asked for it, of what was asked for.
IsSigned(s) ==
    /\ s.signer = s.asked.user
    /\ s.digest = Digest(DomainOf(s.asked.method), TypeOf(s.asked.method), s.asked.content,
                         AccountToAddress(s.asked.account), s.digest.nonce, s.asked.deadline)
    /\ s.digest.nonce = IF s.asked.nonce \in {NoNonce, NumberZero} THEN s.next ELSE s.asked.nonce.value

\* An accepted call is what its signature says, and the nonce is used.
IsAccepted(a) ==
    /\ a.signature \in signatures /\ a.user = a.signature.signer
    /\ a.type = a.signature.digest.type /\ a.content = a.signature.digest.content
    /\ a.account = a.signature.digest.account /\ a.at <= a.signature.digest.deadline
    /\ a.nonce = a.signature.digest.nonce
    /\ a.signature.digest.nonce < nextNonce[a.signature.digest.domain][a.user]

NoncesAscend ==
    \A i, j \in DOMAIN accepted :
        /\ i < j
        /\ accepted[i].signature.digest.domain = accepted[j].signature.digest.domain
        /\ accepted[i].user = accepted[j].user
        => accepted[i].signature.digest.nonce < accepted[j].signature.digest.nonce

SigIInv ==
    /\ SigTypes
    /\ \A s \in signatures : IsSigned(s)
    /\ \A i \in DOMAIN accepted : IsAccepted(accepted[i])
    /\ NoncesAscend

-----------------------------------------------------------------------------
(* Signatures: steps *)

\* The SDK signs what it is asked for.
LEMMA SignedIs ==
    ASSUME SigTypes, NEW a \in AskedSet
    PROVE  /\ Signed(a) \in Digests
           /\ Signed(a) = Digest(DomainOf(a.method), TypeOf(a.method), a.content, AccountToAddress(a.account),
                                 Signed(a).nonce, a.deadline)
           /\ GetNextNonce(a) \in Nat
           /\ Signed(a).nonce = IF a.nonce \in {NoNonce, NumberZero} THEN GetNextNonce(a) ELSE a.nonce.value
<1>1. a.method \in Methods /\ a.method \in SignMethods /\ a.user \in Users /\ a.account \in Accounts
      /\ a.content \in Contents /\ a.deadline \in Deadlines /\ a.nonce \in Nonces
  BY SignaturesAssumption DEF AskedSet
<1>2. DomainOf(a.method) \in Validators /\ TypeOf(a.method) \in SignTypes
  BY <1>1 DEF DomainOf, Validators, SignTypes
<1>3. /\ NonceToSign(a) \in Nat /\ GetNextNonce(a) \in Nat
      /\ NonceToSign(a) = IF a.nonce \in {NoNonce, NumberZero} THEN GetNextNonce(a) ELSE a.nonce.value
  <2>1. GetNextNonce(a) \in Nat
    BY <1>1, <1>2 DEF GetNextNonce, SigTypes
  <2>2. a.nonce \in {NoNonce} \cup [form : {"number", "BigNumber"}, value : Nat]
    BY <1>1, SignaturesAssumption
  <2>3. a.nonce.value \in Nat /\ (IsGiven(a.nonce) <=> a.nonce \notin {NoNonce, NumberZero})
    BY <2>2 DEF IsGiven, NoNonce, NumberZero
  <2> QED  BY <2>1, <2>3 DEF NonceToSign
<1>4. Signed(a) = Digest(DomainOf(a.method), TypeOf(a.method), a.content, AccountToAddress(a.account),
                         NonceToSign(a), a.deadline)
  BY DEF Signed, SignPermit, SignSetMinterApproval, SignAuthorizationFor, TypeOf
<1>5. AccountToAddress(a.account) \in Addresses
  BY <1>1 DEF Addresses, AccountToAddress
<1> QED  BY <1>1, <1>2, <1>3, <1>4, <1>5 DEF Digest, Digests

LEMMA SignStep ==
    ASSUME SigIInv, NEW a \in AskedSet, Sign(a)
    PROVE  SigIInv'
<1> DEFINE s == [asked |-> a, signer |-> a.user, digest |-> Signed(a), next |-> GetNextNonce(a)]
<1>1. s \in SignatureSet /\ IsSigned(s)
  BY SignedIs DEF SigIInv, IsSigned, SignatureSet, AskedSet
<1>2. signatures' = signatures \cup {s} /\ UNCHANGED <<now, nextNonce, accepted>>
  BY DEF Sign
<1> HIDE DEF s
<1>3. SigTypes'
  BY <1>1, <1>2 DEF SigIInv, SigTypes
<1>4. \A i \in DOMAIN accepted' : IsAccepted(accepted[i])'
  BY <1>2 DEF SigIInv, IsAccepted
<1>5. \A t \in signatures' : IsSigned(t)
  BY <1>1, <1>2 DEF SigIInv
<1>6. NoncesAscend'
  BY <1>2 DEF SigIInv, NoncesAscend
<1> QED  BY <1>3, <1>4, <1>5, <1>6 DEF SigIInv, IsSigned

\* What a validator accepts is what was signed, with the user's next nonce.
LEMMA ValidIs ==
    ASSUME NEW domain, NEW user \in Users, NEW type, NEW content, NEW account, NEW deadline, NEW s \in SignatureSet,
           IsValid(domain, user, type, content, account, deadline, s)
    PROVE  /\ s.signer = user /\ s.digest.domain = domain /\ s.digest.type = type
           /\ s.digest.content = content /\ s.digest.account = account
           /\ s.digest.nonce = nextNonce[domain][user] /\ s.digest.deadline = deadline /\ deadline >= now
<1>1. s.digest = NextDigest(domain, user, type, content, account, deadline) /\ s.signer = user
  BY SignaturesAssumption DEF IsValid, Recover
<1> QED  BY <1>1 DEF NextDigest, Digest, IsValid

\* The words appended to the calldata are found where they were put.
LEMMA DataIs ==
    ASSUME NEW content, NEW deadline, NEW s
    PROVE  /\ Calldata(Data(content, deadline, s))[1] = content
           /\ Deadline(Data(content, deadline, s)) = deadline /\ Signature(Data(content, deadline, s)) = s
<1> DEFINE data == Data(content, deadline, s)
           front == <<content>>
           words == <<deadline, "v", "r", s>>
           S == {content, deadline, "v", "r", s}
<1>1. /\ front \in Seq(S) /\ words \in Seq(S) /\ Len(front) = 1 /\ Len(words) = 4
      /\ front[1] = content /\ words[1] = deadline /\ words[4] = s
  OBVIOUS
<1>2. data = front \o words
  BY DEF Data, EncodeCalldataAuthorization
<1> HIDE DEF data, front, words, S
<1>3. /\ data \in Seq(S) /\ Len(data) = 5
      /\ \A i \in 1..5 : data[i] = IF i <= 1 THEN front[i] ELSE words[i - 1]
  <2>1. /\ front \o words \in Seq(S) /\ Len(front \o words) = Len(front) + Len(words)
        /\ \A i \in 1..(Len(front) + Len(words)) :
              (front \o words)[i] = IF i <= Len(front) THEN front[i] ELSE words[i - Len(front)]
    BY <1>1, ConcatProperties
  <2>2. Len(front) + Len(words) = 5
    BY <1>1
  <2> QED  BY <1>1, <1>2, <2>1, <2>2
<1>4. data[1] = content /\ data[2] = deadline /\ data[5] = s
  BY <1>1, <1>3
<1>5. SubSeq(data, 1, 1)[1] = data[1]
  BY <1>3
<1> QED  BY <1>3, <1>4, <1>5 DEF Calldata, Deadline, Signature, ExtraWord, data

LEMMA AcceptStep ==
    ASSUME SigIInv, NEW s \in signatures, NEW domain, NEW user \in Users, NEW type, NEW content, NEW account,
           NEW deadline, EnsureValidSignature(domain, user, type, content, account, deadline, s)
    PROVE  SigIInv'
<1> DEFINE a == [user |-> user, type |-> type, content |-> content, account |-> account, at |-> now,
                 nonce |-> nextNonce[domain][user], signature |-> s]
           n == s.digest.nonce
           used == nextNonce[domain][user]
<1>1. SigTypes /\ s \in SignatureSet /\ IsSigned(s) /\ now \in Nat
  BY DEF SigIInv, SigTypes
<1>2. /\ s.signer = user /\ s.digest.domain = domain /\ s.digest.type = type
      /\ s.digest.content = content /\ s.digest.account = account
      /\ n = used /\ s.digest.deadline = deadline /\ deadline >= now
  BY <1>1, ValidIs DEF EnsureValidSignature
<1>3. s.digest \in Digests /\ domain \in Validators /\ n \in Nat /\ deadline \in Nat
  BY <1>1, <1>2, SignaturesAssumption DEF SignatureSet, Digests
<1>4. a \in CallSet
  BY <1>1, <1>2, <1>3 DEF CallSet, Digests, n
<1>5. /\ accepted' = Append(accepted, a) /\ UNCHANGED <<now, signatures>>
      /\ nextNonce' = [nextNonce EXCEPT ![domain] = [nextNonce[domain] EXCEPT ![user] = used + 1]]
  BY DEF EnsureValidSignature, UseNonce
<1> HIDE DEF n, used
<1>6. nextNonce \in [Validators -> [Users -> Nat]] /\ used \in Nat
  BY <1>1, <1>2, <1>3 DEF SigTypes
<1>7. nextNonce' \in [Validators -> [Users -> Nat]]
  BY <1>3, <1>5, <1>6
<1>8. \A d \in Validators, u \in Users : nextNonce[d][u] <= nextNonce'[d][u]
  BY <1>3, <1>5, <1>6 DEF used
<1>9. nextNonce'[domain][user] = used + 1
  BY <1>3, <1>5, <1>6
<1>10. PICK l \in Nat :
          /\ DOMAIN accepted = 1..l /\ DOMAIN accepted' = 1..(l + 1) /\ accepted'[l + 1] = a
          /\ \A i \in 1..l : accepted'[i] = accepted[i] /\ accepted[i] \in CallSet
          /\ accepted' \in Seq(CallSet)
  <2>1. accepted \in Seq(CallSet) /\ Len(accepted) \in Nat
    BY <1>1 DEF SigTypes
  <2> QED  BY <1>4, <1>5, <2>1
<1> HIDE DEF a
<1>11. \A i \in 1..l : IsAccepted(accepted[i])
  BY <1>10 DEF SigIInv
<1>12. ASSUME NEW i \in 1..l PROVE IsAccepted(accepted[i])'
  <2>1. accepted[i].signature.digest.domain \in Validators /\ accepted[i].user \in Users
        /\ accepted[i].signature.digest.nonce \in Nat
    BY <1>10 DEF CallSet, SignatureSet, Digests
  <2> DEFINE d == accepted[i].signature.digest.domain
             u == accepted[i].user
  <2>2. nextNonce[d][u] \in Nat /\ nextNonce'[d][u] \in Nat /\ nextNonce[d][u] <= nextNonce'[d][u]
    BY <1>6, <1>7, <1>8, <2>1
  <2>3. accepted[i].signature.digest.nonce < nextNonce[d][u]
    BY <1>11 DEF IsAccepted
  <2>4. accepted[i].signature.digest.nonce < nextNonce'[d][u]
    BY <2>1, <2>2, <2>3
  <2> QED  BY <1>5, <1>10, <1>11, <2>4 DEF IsAccepted
<1>13. IsAccepted(accepted[l + 1])'
  <2>1. n < nextNonce'[domain][user]
    BY <1>2, <1>6, <1>9
  <2>2. now <= deadline
    BY <1>1, <1>2, <1>3
  <2> QED  BY <1>2, <1>5, <1>10, <2>1, <2>2 DEF IsAccepted, a, n, used
<1>14. ASSUME NEW i \in 1..(l + 1), NEW j \in 1..(l + 1), i < j,
              accepted'[i].signature.digest.domain = accepted'[j].signature.digest.domain,
              accepted'[i].user = accepted'[j].user
       PROVE  accepted'[i].signature.digest.nonce < accepted'[j].signature.digest.nonce
  <2>1. i \in 1..l
    BY <1>10, <1>14
  <2>2. CASE j \in 1..l
    BY <1>10, <1>14, <2>1, <2>2 DEF SigIInv, NoncesAscend
  <2>3. CASE j = l + 1
    <3>1. accepted[i].signature.digest.domain = domain /\ accepted[i].user = user
      BY <1>2, <1>10, <1>14, <2>1, <2>3 DEF a
    <3>2. accepted[i].signature.digest.nonce < used
      BY <1>11, <2>1, <3>1 DEF IsAccepted, used
    <3> QED  BY <1>2, <1>10, <2>1, <2>3, <3>2 DEF a, n
  <2> QED  BY <1>10, <2>2, <2>3
<1>15. SigTypes'
  BY <1>1, <1>5, <1>7, <1>10 DEF SigTypes
<1>16. \A t \in signatures' : IsSigned(t)
  BY <1>5 DEF SigIInv, IsSigned
<1>17. \A i \in DOMAIN accepted' : IsAccepted(accepted[i])'
  BY <1>10, <1>12, <1>13
<1>18. NoncesAscend'
  BY <1>10, <1>14 DEF NoncesAscend
<1> QED  BY <1>15, <1>16, <1>17, <1>18 DEF SigIInv

LEMMA InitSigIInv == SignaturesInit => SigIInv
<1> SUFFICES ASSUME SignaturesInit PROVE SigIInv
  OBVIOUS
<1>1. accepted \in Seq(CallSet) /\ DOMAIN accepted = {} /\ signatures = {}
  BY DEF SignaturesInit
<1>2. SigTypes
  BY <1>1 DEF SignaturesInit, SigTypes
<1> QED  BY <1>1, <1>2 DEF SigIInv, NoncesAscend

\* Whoever submits it, and as what.
LEMMA SubmitStep ==
    ASSUME SigIInv, NEW s \in signatures, Submit(s)
    PROVE  SigIInv'
<1>1. PICK user \in Users, sender \in Addresses, content \in Contents, deadline \in Deadlines :
          \/ \E type \in Types : CallVault(sender, user, type, Data(content, deadline, s))
          \/ SetMinterApprovalWithSignature(user, sender, content, deadline, s)
          \/ Permit(user, sender, content, deadline, s)
  BY DEF Submit
<1>2. Signature(Data(content, deadline, s)) = s
  BY DataIs
<1>3. CASE \E type \in Types : CallVault(sender, user, type, Data(content, deadline, s))
  BY <1>2, <1>3, AcceptStep DEF CallVault
<1>4. CASE SetMinterApprovalWithSignature(user, sender, content, deadline, s)
  BY <1>4, AcceptStep DEF SetMinterApprovalWithSignature
<1>5. CASE Permit(user, sender, content, deadline, s)
  BY <1>5, AcceptStep DEF Permit
<1> QED  BY <1>1, <1>3, <1>4, <1>5

LEMMA SigStep ==
    ASSUME SigIInv, SignaturesNext \/ UNCHANGED sigVars
    PROVE  SigIInv'
<1>1. ASSUME NEW method \in Methods, NEW user \in Users, NEW account \in Accounts, NEW content \in Contents,
             NEW deadline \in Deadlines, NEW nonce \in Nonces,
             Sign([method |-> method, user |-> user, account |-> account, content |-> content,
                   deadline |-> deadline, nonce |-> nonce])
      PROVE  SigIInv'
  <2> DEFINE a == [method |-> method, user |-> user, account |-> account, content |-> content,
                   deadline |-> deadline, nonce |-> nonce]
  <2>1. a \in AskedSet
    BY DEF AskedSet
  <2> QED  BY <1>1, <2>1, SignStep
<1>2. ASSUME NEW s \in signatures, Submit(s) PROVE SigIInv'
  BY <1>2, SubmitStep
<1>3. ASSUME UNCHANGED <<nextNonce, signatures, accepted>>, now' \in Nat PROVE SigIInv'
  BY <1>3 DEF SigIInv, SigTypes, IsSigned, IsAccepted, NoncesAscend
<1>4. CASE NextBlock
  BY <1>3, <1>4 DEF NextBlock, SigIInv, SigTypes
<1>5. CASE UNCHANGED sigVars
  BY <1>3, <1>5 DEF sigVars, SigIInv, SigTypes
<1> QED  BY <1>1, <1>2, <1>4, <1>5 DEF SignaturesNext

-----------------------------------------------------------------------------
(* Signatures: the theorem *)

LEMMA AreAsAsked == SigIInv => AcceptedAsAsked
<1> SUFFICES ASSUME SigIInv PROVE AcceptedAsAsked
  OBVIOUS
<1>1. ASSUME NEW i \in DOMAIN accepted
      PROVE  LET a == accepted[i]
                 asked == a.signature.asked
             IN /\ a.signature \in signatures /\ a.user = asked.user
                /\ a.content = asked.content /\ a.account = asked.account.address
                /\ a.at <= asked.deadline
                /\ a.nonce = IF asked.nonce \in {NoNonce, NumberZero} THEN a.signature.next ELSE asked.nonce.value
                /\ asked.method \in Methods /\ a.type = TypeOf(asked.method)
  <2>1. IsAccepted(accepted[i]) /\ accepted[i].signature \in signatures
    BY DEF SigIInv, IsAccepted
  <2>2. IsSigned(accepted[i].signature) /\ accepted[i].signature \in SignatureSet
    BY <2>1 DEF SigIInv, SigTypes
  <2> QED  BY <2>1, <2>2 DEF IsAccepted, IsSigned, Digest, AccountToAddress, SignatureSet, AskedSet
<1>2. ASSUME NEW m \in Methods
      PROVE  <<m, TypeOf(m)>> \in
                 {<<"signJoinAuthorization", "JoinPool">>, <<"signExitAuthorization", "ExitPool">>,
                  <<"signSwapAuthorization", "Swap">>, <<"signBatchSwapAuthorization", "BatchSwap">>,
                  <<"signSetRelayerApprovalAuthorization", "SetRelayerApproval">>,
                  <<"signSetMinterApproval", "SetMinterApproval">>, <<"signPermit", "Permit">>}
  BY SignaturesAssumption DEF SignMethods, TypeOf
<1>3. NoncesAscend
  BY DEF SigIInv
<1> QED  BY <1>1, <1>2, <1>3 DEF AcceptedAsAsked, NoncesAscend

LEMMA FreshWork == SigIInv => FreshSignaturesWork
<1> SUFFICES ASSUME SigIInv PROVE FreshSignaturesWork
  OBVIOUS
<1>1. ASSUME NEW s \in signatures,
             s.digest.nonce = nextNonce[DomainOf(s.asked.method)][s.asked.user], now <= s.asked.deadline
      PROVE  IsValid(DomainOf(s.asked.method), s.asked.user, TypeOf(s.asked.method), s.asked.content,
                     s.asked.account.address, s.asked.deadline, s)
  <2>1. IsSigned(s) /\ s \in SignatureSet /\ now \in Nat
    BY DEF SigIInv, SigTypes
  <2>2. s.asked.deadline \in Nat
    BY <2>1, SignaturesAssumption DEF SignatureSet, AskedSet
  <2> QED  BY <1>1, <2>1, <2>2 DEF IsSigned, IsValid, Recover, NextDigest, AccountToAddress
<1>2. ASSUME NEW content, NEW deadline, NEW s
      PROVE  /\ Calldata(Data(content, deadline, s))[1] = content
             /\ Deadline(Data(content, deadline, s)) = deadline /\ Signature(Data(content, deadline, s)) = s
  BY DataIs
<1> SUFFICES ASSUME NEW s \in signatures,
                    s.digest.nonce = nextNonce[DomainOf(s.asked.method)][s.asked.user], now <= s.asked.deadline
             PROVE  LET asked == s.asked
                        domain == DomainOf(asked.method)
                        data == Data(asked.content, asked.deadline, s)
                    IN IF domain = "Balancer V2 Vault"
                       THEN IsValid(domain, asked.user, TypeOf(asked.method), Calldata(data)[1],
                                    asked.account.address, Deadline(data), Signature(data))
                       ELSE IsValid(domain, asked.user, TypeOf(asked.method), asked.content,
                                    asked.account.address, asked.deadline, s)
  BY DEF FreshSignaturesWork
<1> DEFINE data == Data(s.asked.content, s.asked.deadline, s)
<1>3. Calldata(data)[1] = s.asked.content /\ Deadline(data) = s.asked.deadline /\ Signature(data) = s
  BY <1>2
<1> HIDE DEF data
<1> QED  BY <1>1, <1>3 DEF data

\* SignaturesAreHonored, for any users, contents and nonces, any number of signatures
\* and any order of submitting them: the SDK and the validators agree, and what was signed
\* is carried out once.
THEOREM SignaturesAreAlwaysHonored == SignaturesSpec => []SignaturesAreHonored
<1>1. SigIInv /\ [SignaturesNext]_sigVars => SigIInv'
  BY SigStep
<1>2. SigIInv => SignaturesAreHonored
  BY AreAsAsked, FreshWork DEF SignaturesAreHonored
<1> QED  BY <1>1, <1>2, InitSigIInv, PTL DEF SignaturesSpec

-----------------------------------------------------------------------------
(* The Vault's admin *)

\* Nobody but the admin and the first signer gets a permission everywhere, except the
\* fees' provider that of the swap fee, by hand.
AdminIInv ==
    /\ {admin, poolDeployer} \subseteq Signers
    /\ percentages \in [FeeTypes -> Percentages \cup {0}]
    /\ <<"setFlashLoanFeePercentage", FeesProvider, Everywhere>> \notin granted
    /\ AdminIsObeyed

\* What a step must show of its call.
CallObeyed(call, after, grants) ==
    /\ call.legal /\ ~call.thrown /\ vaultAuthorizer = "ours" =>
          call.ok /\ (call.feeType # NoAccount => after[call.feeType] = call.percentage)
    /\ call.thrown => \/ <<"setAuthorizer", admin, Everywhere>> \in grants
                      \/ \E g \in ByHand : <<g[1], Grantee(g[2]), Everywhere>> \in grants

LEMMA StepObeyed ==
    ASSUME AdminIInv, UNCHANGED <<admin, poolDeployer>>, CallObeyed(lastCall', percentages', granted'),
           vaultAuthorizer' = "ours" => vaultAuthorizer = "ours",
           percentages' \in [FeeTypes -> Percentages \cup {0}],
           <<"setFlashLoanFeePercentage", FeesProvider, Everywhere>> \notin granted'
    PROVE  AdminIInv'
<1>1. ByHand' = ByHand /\ \A to : Grantee(to)' = Grantee(to)
  BY DEF ByHand, Grantee
<1>2. AdminIsObeyed'
  BY <1>1 DEF CallObeyed, AdminIsObeyed
<1> QED  BY <1>2 DEF AdminIInv

\* What is granted if needed can be done, and is granted to no one else.
LEMMA Needed ==
    ASSUME NEW grants, NEW action, NEW to, NEW where
    PROVE  LET after == GrantPermissionGloballyIfNeeded(grants, action, to)
           IN /\ grants \subseteq after /\ after \subseteq grants \cup {<<action, Grantee(to), Everywhere>>}
              /\ HasPermission(after, action, Grantee(to), where)
BY DEF GrantPermissionGloballyIfNeeded, HasPermission

LEMMA PermissionsGrow ==
    ASSUME NEW few, NEW many, few \subseteq many, NEW action, NEW to, NEW where, HasPermission(few, action, to, where)
    PROVE  HasPermission(many, action, to, where)
BY DEF HasPermission

LEMMA AccountsDiffer ==
    ASSUME AdminIInv
    PROVE  /\ admin \in Signers /\ poolDeployer \in Signers /\ FirstSigner \in Signers
           /\ FeesProvider \notin Signers /\ NoAccount \notin Signers
           /\ Grantee(NoAccount) = FirstSigner /\ \A a \in Signers : Grantee(a) = a
           /\ \A a \in Signers \cup {NoAccount} : Grantee(a) \in Signers
BY AdminAssumption DEF AdminIInv, Signers, Grantee

\* A percentage that is set.
LEMMA SetObeyed ==
    ASSUME AdminIInv, NEW f \in FeeTypes, NEW p \in Percentages, NEW grants, NEW ok \in BOOLEAN, NEW thrown, NEW legal,
           Set(f, p, grants, ok, thrown, legal),
           legal /\ ~thrown /\ vaultAuthorizer = "ours" => ok,
           thrown => \/ <<"setAuthorizer", admin, Everywhere>> \in grants
                     \/ \E g \in ByHand : <<g[1], Grantee(g[2]), Everywhere>> \in grants,
           <<"setFlashLoanFeePercentage", FeesProvider, Everywhere>> \notin grants
    PROVE  AdminIInv'
<1>1. /\ granted' = grants
      /\ percentages' = IF ok THEN [percentages EXCEPT ![f] = p] ELSE percentages
      /\ lastCall' = [ok |-> ok, thrown |-> thrown, legal |-> legal, feeType |-> f, percentage |-> p]
      /\ UNCHANGED <<admin, poolDeployer, vaultAuthorizer>>
  BY DEF Set, Outcome
<1>2. percentages \in [FeeTypes -> Percentages \cup {0}]
  BY DEF AdminIInv
<1>3. percentages' \in [FeeTypes -> Percentages \cup {0}]
  BY <1>1, <1>2
<1>4. ok => percentages'[f] = p
  BY <1>1, <1>2
<1>5. CallObeyed(lastCall', percentages', granted')
  BY <1>1, <1>4 DEF CallObeyed
<1> QED  BY <1>1, <1>3, <1>5, StepObeyed

LEMMA CollectorObeyed ==
    ASSUME AdminIInv, NEW f \in {"swap", "flashLoan"}, NEW p \in Percentages, NEW from \in Signers \cup {NoAccount},
           SetCollectorPercentage(f, p, from)
    PROVE  AdminIInv'
<1> DEFINE sender == IF from = NoAccount THEN admin ELSE from
           grants == GrantPermissionGloballyIfNeeded(granted, SetterOf(f), admin)
           ok == CanPerform(grants, SetterOf(f), sender, "collector") /\ p <= Maximum[f]
           legal == sender = admin /\ p <= Maximum[f]
<1>1. Set(f, p, grants, ok, FALSE, legal)
  BY DEF SetCollectorPercentage
<1>2. Grantee(admin) = admin /\ admin # FeesProvider
  BY AccountsDiffer
<1>3. HasPermission(grants, SetterOf(f), admin, "collector")
  BY <1>2, Needed
<1>4. legal /\ vaultAuthorizer = "ours" => ok
  BY <1>3 DEF CanPerform
<1>5. <<"setFlashLoanFeePercentage", FeesProvider, Everywhere>> \notin grants
  <2>1. grants \subseteq granted \cup {<<SetterOf(f), admin, Everywhere>>}
    BY <1>2, Needed
  <2> QED  BY <1>2, <2>1 DEF AdminIInv
<1>6. f \in FeeTypes /\ ok \in BOOLEAN
  BY DEF FeeTypes
<1> HIDE DEF grants, ok, legal, sender
<1> QED  BY <1>1, <1>4, <1>5, <1>6, SetObeyed

LEMMA FeeTypeObeyed ==
    ASSUME AdminIInv, NEW f \in FeeTypes, NEW p \in Percentages, SetFeeTypePercentage(f, p)
    PROVE  AdminIInv'
<1> DEFINE needed == << <<"setFeeTypePercentage", admin, "provider">>,
                        <<"setSwapFeePercentage", FeesProvider, "collector">>,
                        <<"setFlashLoanFeePercentage", FeesProvider, "collector">> >>
           some == GrantedBeforeThrowing(granted, needed)
           grants == granted \cup some
           thrown == \E i \in DOMAIN needed : needed[i] \notin some
           ok == /\ ~thrown /\ p <= Maximum[f]
                 /\ CanPerform(grants, "setFeeTypePercentage", admin, "provider")
                 /\ f \in {"swap", "flashLoan"} => CanPerform(grants, SetterOf(f), FeesProvider, "collector")
<1>1. Set(f, p, grants, ok, thrown, p <= Maximum[f])
  BY DEF SetFeeTypePercentage
<1>2. DOMAIN needed = 1..3 /\ needed[1] = <<"setFeeTypePercentage", admin, "provider">>
      /\ needed[2] = <<"setSwapFeePercentage", FeesProvider, "collector">>
      /\ needed[3] = <<"setFlashLoanFeePercentage", FeesProvider, "collector">>
  OBVIOUS
<1>3. \A i \in 1..3 :
          (\A k \in 1..i : <<needed[k][1], needed[k][2], Everywhere>> \notin granted) => needed[i] \in some
  BY <1>2 DEF GrantedBeforeThrowing
<1>4. some \subseteq {needed[1], needed[2], needed[3]}
  BY <1>2 DEF GrantedBeforeThrowing
<1> HIDE DEF needed, some
<1>5. ~thrown /\ vaultAuthorizer = "ours" =>
          /\ CanPerform(grants, "setFeeTypePercentage", admin, "provider")
          /\ f \in {"swap", "flashLoan"} => CanPerform(grants, SetterOf(f), FeesProvider, "collector")
  BY <1>2 DEF CanPerform, HasPermission, SetterOf
<1>6. thrown => \E g \in ByHand : <<g[1], Grantee(g[2]), Everywhere>> \in grants
  <2>1. ASSUME thrown
        PROVE  \/ <<"setFeeTypePercentage", admin, Everywhere>> \in granted
               \/ <<"setSwapFeePercentage", FeesProvider, Everywhere>> \in granted
    <3>1. PICK i \in 1..3 : needed[i] \notin some
      BY <1>2, <2>1
    <3>2. PICK k \in 1..3 : <<needed[k][1], needed[k][2], Everywhere>> \in granted
      BY <1>3, <3>1
    <3>3. k # 3
      BY <1>2, <3>2 DEF AdminIInv
    <3>4. k = 1 \/ k = 2
      BY <3>3
    <3> QED  BY <1>2, <3>2, <3>4
  <2>2. Grantee(admin) = admin /\ (FeesProvider # NoAccount => Grantee(FeesProvider) = FeesProvider)
    BY AccountsDiffer DEF Grantee
  <2>3. FeesProvider # NoAccount
    BY AdminAssumption
  <2> QED  BY <2>1, <2>2, <2>3 DEF ByHand
<1>7. <<"setFlashLoanFeePercentage", FeesProvider, Everywhere>> \notin grants
  BY <1>2, <1>4 DEF AdminIInv, Everywhere
<1>8. ok \in BOOLEAN
  OBVIOUS
<1>9. p <= Maximum[f] /\ ~thrown /\ vaultAuthorizer = "ours" => ok
  BY <1>5
<1> HIDE DEF grants, ok, thrown
<1> QED  BY <1>1, <1>6, <1>7, <1>8, <1>9, SetObeyed

\* A call that neither throws nor sets a percentage.
LEMMA OtherObeyed ==
    ASSUME AdminIInv, NEW ok, NEW thrown, NEW legal, lastCall' = Outcome(ok, thrown, legal),
           legal /\ ~thrown /\ vaultAuthorizer = "ours" => ok,
           thrown => \/ <<"setAuthorizer", admin, Everywhere>> \in granted'
                     \/ \E g \in ByHand : <<g[1], Grantee(g[2]), Everywhere>> \in granted',
           UNCHANGED <<admin, poolDeployer, percentages>>, vaultAuthorizer' = "ours" => vaultAuthorizer = "ours",
           <<"setFlashLoanFeePercentage", FeesProvider, Everywhere>> \notin granted'
    PROVE  AdminIInv'
<1>1. CallObeyed(lastCall', percentages', granted')
  BY DEF CallObeyed, Outcome
<1> QED  BY <1>1, StepObeyed DEF AdminIInv

LEMMA PausedObeyed ==
    ASSUME AdminIInv, NEW pause \in BOOLEAN, SetPaused(pause)
    PROVE  AdminIInv'
<1> DEFINE once == GrantPermissionGloballyIfNeeded(granted, "pause", NoAccount)
           grants == GrantPermissionGloballyIfNeeded(once, "unpause", NoAccount)
           ok == CanPerform(grants, IF pause THEN "pause" ELSE "unpause", poolDeployer, "pool")
<1>1. /\ granted' = grants /\ lastCall' = Outcome(ok, FALSE, poolDeployer = FirstSigner)
      /\ UNCHANGED <<admin, poolDeployer, vaultAuthorizer, percentages>>
  BY DEF SetPaused
<1>2. Grantee(NoAccount) = FirstSigner /\ FirstSigner # FeesProvider
  BY AccountsDiffer
<1>3. /\ HasPermission(once, "pause", FirstSigner, "pool") /\ HasPermission(grants, "unpause", FirstSigner, "pool")
      /\ once \subseteq grants /\ once \subseteq granted \cup {<<"pause", FirstSigner, Everywhere>>}
      /\ grants \subseteq once \cup {<<"unpause", FirstSigner, Everywhere>>}
  BY <1>2, Needed
<1>4. <<"setFlashLoanFeePercentage", FeesProvider, Everywhere>> \notin grants
  BY <1>2, <1>3 DEF AdminIInv
<1> HIDE DEF once, grants
<1>5. HasPermission(grants, "pause", FirstSigner, "pool")
  BY <1>3, PermissionsGrow
<1>6. poolDeployer = FirstSigner /\ vaultAuthorizer = "ours" => ok
  BY <1>3, <1>5 DEF CanPerform
<1> HIDE DEF ok
<1> QED  BY <1>1, <1>4, <1>6, OtherObeyed

LEMMA RecoveryObeyed ==
    ASSUME AdminIInv, NEW enable \in BOOLEAN, NEW from \in Signers \cup {NoAccount}, SetRecoveryMode(enable, from)
    PROVE  AdminIInv'
<1> DEFINE who == Grantee(from)
           once == GrantPermissionGloballyIfNeeded(granted, "enableRecoveryMode", who)
           grants == GrantPermissionGloballyIfNeeded(once, "disableRecoveryMode", who)
           ok == /\ recoveryMode # enable
                 /\ CanPerform(grants, IF enable THEN "enableRecoveryMode" ELSE "disableRecoveryMode",
                               IF from = NoAccount THEN FirstSigner ELSE from, "pool")
<1>1. /\ granted' = grants /\ lastCall' = Outcome(ok, FALSE, recoveryMode # enable)
      /\ UNCHANGED <<admin, poolDeployer, vaultAuthorizer, percentages>>
  BY DEF SetRecoveryMode
<1>2. who \in Signers /\ Grantee(who) = who /\ who # FeesProvider /\ who = IF from = NoAccount THEN FirstSigner ELSE from
  BY AccountsDiffer DEF Grantee
<1> HIDE DEF who
<1>3. /\ HasPermission(once, "enableRecoveryMode", who, "pool")
      /\ HasPermission(grants, "disableRecoveryMode", who, "pool")
      /\ once \subseteq grants /\ once \subseteq granted \cup {<<"enableRecoveryMode", who, Everywhere>>}
      /\ grants \subseteq once \cup {<<"disableRecoveryMode", who, Everywhere>>}
  BY <1>2, Needed
<1>4. <<"setFlashLoanFeePercentage", FeesProvider, Everywhere>> \notin grants
  BY <1>2, <1>3 DEF AdminIInv
<1> HIDE DEF once, grants
<1>5. HasPermission(grants, "enableRecoveryMode", who, "pool")
  BY <1>3, PermissionsGrow
<1>6. recoveryMode # enable /\ vaultAuthorizer = "ours" => ok
  BY <1>2, <1>3, <1>5 DEF CanPerform
<1> HIDE DEF ok
<1> QED  BY <1>1, <1>4, <1>6, OtherObeyed

LEMMA ByHandObeyed ==
    ASSUME AdminIInv, NEW g \in ByHand, GrantPermissionGlobally(g[1], g[2])
    PROVE  AdminIInv'
<1> DEFINE permission == <<g[1], Grantee(g[2]), Everywhere>>
           thrown == HasPermission(granted, g[1], Grantee(g[2]), Everywhere)
<1>1. /\ granted' = IF thrown THEN granted ELSE granted \cup {permission}
      /\ lastCall' = Outcome(~thrown, thrown, FALSE)
      /\ UNCHANGED <<admin, poolDeployer, vaultAuthorizer, percentages>>
  BY DEF GrantPermissionGlobally, chainVars
<1>2. thrown => permission \in granted
  BY DEF HasPermission
<1>3. g[1] # "setFlashLoanFeePercentage"
  BY DEF ByHand
<1>4. <<"setFlashLoanFeePercentage", FeesProvider, Everywhere>> \notin granted'
  BY <1>1, <1>3 DEF AdminIInv
<1>5. thrown => \E h \in ByHand : <<h[1], Grantee(h[2]), Everywhere>> \in granted'
  BY <1>1, <1>2
<1> HIDE DEF thrown, permission
<1> QED  BY <1>1, <1>4, <1>5, OtherObeyed

LEMMA AuthorizerObeyed ==
    ASSUME AdminIInv, NEW a, SetAuthorizer(a)
    PROVE  AdminIInv'
<1> DEFINE thrown == HasPermission(granted, "setAuthorizer", admin, Everywhere)
           grants == granted \cup {<<"setAuthorizer", admin, Everywhere>>}
           ok == ~thrown /\ CanPerform(grants, "setAuthorizer", admin, "vault")
<1>1. /\ granted' = grants /\ vaultAuthorizer' = IF ok THEN a ELSE vaultAuthorizer
      /\ lastCall' = Outcome(ok, thrown, TRUE) /\ UNCHANGED <<admin, poolDeployer, percentages>>
  BY DEF SetAuthorizer, chainVars
<1>2. ok => vaultAuthorizer = "ours"
  BY DEF CanPerform
<1>3. ~thrown /\ vaultAuthorizer = "ours" => ok
  BY DEF CanPerform, HasPermission
<1>4. <<"setFlashLoanFeePercentage", FeesProvider, Everywhere>> \notin grants
  BY DEF AdminIInv
<1>5. <<"setAuthorizer", admin, Everywhere>> \in grants
  OBVIOUS
<1> HIDE DEF ok, thrown, grants
<1> QED  BY <1>1, <1>2, <1>3, <1>4, <1>5, OtherObeyed

LEMMA WithdrawObeyed ==
    ASSUME AdminIInv, NEW amount, NEW from, WithdrawCollectedFees(amount, from)
    PROVE  AdminIInv'
<1> DEFINE ok == amount <= collected /\ CanPerform(granted, "withdrawCollectedFees", Grantee(from), "collector")
           legal == amount <= collected /\ <<"withdrawCollectedFees", Grantee(from), Everywhere>> \in granted
<1>1. /\ lastCall' = Outcome(ok, FALSE, legal)
      /\ UNCHANGED <<admin, poolDeployer, granted, vaultAuthorizer, percentages>>
  BY DEF WithdrawCollectedFees
<1>2. legal /\ vaultAuthorizer = "ours" => ok
  BY DEF CanPerform, HasPermission
<1> HIDE DEF ok, legal
<1> QED  BY <1>1, <1>2, OtherObeyed DEF AdminIInv

LEMMA AdminStep ==
    ASSUME AdminIInv, AdminNext \/ UNCHANGED adminVars
    PROVE  AdminIInv'
<1>1. CASE UNCHANGED adminVars
  BY <1>1 DEF adminVars, AdminIInv, AdminIsObeyed, ByHand, Grantee
<1> QED  BY <1>1, CollectorObeyed, FeeTypeObeyed, PausedObeyed, RecoveryObeyed, ByHandObeyed, AuthorizerObeyed,
            WithdrawObeyed DEF AdminNext

LEMMA InitAdminIInv == AdminInit => AdminIInv
BY DEF AdminInit, AdminIInv, AdminOf, Signers, FeeTypes, AdminIsObeyed, Outcome

\* AdminIsObeyed, for any percentages and any number of calls: whatever the client
\* granted before, and left granted when a call failed, no call of the admin fails that
\* should not.
THEOREM AdminIsAlwaysObeyed == AdminSpec => []AdminIsObeyed
<1>1. AdminIInv /\ [AdminNext]_adminVars => AdminIInv'
  BY AdminStep
<1>2. AdminIInv => AdminIsObeyed
  BY DEF AdminIInv
<1> QED  BY <1>1, <1>2, InitAdminIInv, PTL DEF AdminSpec

-----------------------------------------------------------------------------
(* Sorting distinct numbers *)

Below(R, a) == {b \in R : b < a}
Rank(R, a) == Cardinality(Below(R, a))

\* The n numbers of a set have the ranks from zero to n - 1.
LEMMA Ranks ==
    ASSUME NEW R \in SUBSET Int, IsFiniteSet(R)
    PROVE  /\ Cardinality(R) \in Nat
           /\ \A a \in R : Rank(R, a) \in 0..(Cardinality(R) - 1)
           /\ \A a, c \in R : a < c => Rank(R, a) < Rank(R, c)
           /\ \A r \in 0..(Cardinality(R) - 1) : \E a \in R : Rank(R, a) = r
<1>1. Cardinality(R) \in Nat
  BY FS_CardinalityType
<1>2. ASSUME NEW a \in R
      PROVE  IsFiniteSet(Below(R, a)) /\ Rank(R, a) \in Nat /\ Rank(R, a) < Cardinality(R)
  <2>1. Below(R, a) \in SUBSET R /\ Below(R, a) # R
    BY DEF Below
  <2>2. IsFiniteSet(Below(R, a)) /\ Cardinality(Below(R, a)) <= Cardinality(R)
        /\ (Cardinality(R) = Cardinality(Below(R, a)) => R = Below(R, a))
    BY <2>1, FS_Subset
  <2>3. Cardinality(Below(R, a)) \in Nat
    BY <2>2, FS_CardinalityType
  <2> QED  BY <1>1, <2>1, <2>2, <2>3 DEF Rank
<1>3. ASSUME NEW a \in R, NEW c \in R, a < c
      PROVE  Rank(R, a) < Rank(R, c)
  <2>1. Below(R, a) \in SUBSET Below(R, c) /\ a \in Below(R, c) /\ a \notin Below(R, a)
    <3>1. a \in Int /\ c \in Int /\ \A b \in R : b \in Int
      OBVIOUS
    <3>2. \A b \in R : b < a => b < c
      BY <1>3, <3>1
    <3>3. ~(a < a)
      BY <3>1
    <3> QED  BY <1>3, <3>2, <3>3 DEF Below
  <2>2. Cardinality(Below(R, a)) <= Cardinality(Below(R, c))
        /\ (Cardinality(Below(R, c)) = Cardinality(Below(R, a)) => Below(R, c) = Below(R, a))
    BY <1>2, <2>1, FS_Subset
  <2>3. Rank(R, a) \in Nat /\ Rank(R, c) \in Nat
    BY <1>2
  <2> QED  BY <2>1, <2>2, <2>3 DEF Rank
<1>4. \A a \in R : Rank(R, a) \in 0..(Cardinality(R) - 1)
  BY <1>1, <1>2
<1> DEFINE top == Cardinality(R) - 1
           rank == [a \in R |-> Rank(R, a)]
<1>5. rank \in Injection(R, 0..top)
  <2>1. rank \in [R -> 0..top]
    BY <1>4
  <2>2. ASSUME NEW a \in R, NEW c \in R, rank[a] = rank[c] PROVE a = c
    <3>1. Rank(R, a) = Rank(R, c) /\ Rank(R, a) \in Nat
      BY <1>2, <2>2
    <3>2. ~(a < c) /\ ~(c < a)
      BY <1>3, <3>1
    <3> QED  BY <3>2
  <2> QED  BY <2>1, <2>2 DEF Injection, IsInjective
<1>6. IsFiniteSet(0..top) /\ Cardinality(0..top) = Cardinality(R)
  <2>1. 0 \in Int /\ top \in Int /\ (IF 0 > top THEN 0 ELSE top - 0 + 1) = Cardinality(R)
    BY <1>1
  <2> HIDE DEF top
  <2> QED  BY <2>1, FS_Interval
<1>7. rank \in Surjection(R, 0..top)
  BY <1>5, <1>6, FS_Injection
<1>8. \A r \in 0..top : \E a \in R : rank[a] = r
  BY <1>7 DEF Surjection
<1> QED  BY <1>1, <1>3, <1>4, <1>8

\* What is sorted are the same numbers, ascending.
LEMMA AscendingIs ==
    ASSUME NEW n \in Nat, NEW s \in [1..n -> Int], IsInjective(s)
    PROVE  /\ DOMAIN Ascending(s) = 1..n /\ \A i \in 1..n : Ascending(s)[i] \in Range(s)
           /\ \A i, j \in 1..n : i < j => Ascending(s)[i] < Ascending(s)[j]
           /\ \A a \in Range(s) : \E i \in 1..n : Ascending(s)[i] = a
<1> DEFINE R == Range(s)
           e == Ascending(s)
<1>1. R \in SUBSET Int /\ IsFiniteSet(R) /\ Cardinality(R) = n
  <2>1. s \in Surjection(1..n, R) /\ s \in Injection(1..n, R)
    BY DEF Surjection, Injection, Range, IsInjective
  <2>2. IsFiniteSet(1..n) /\ Cardinality(1..n) = n
    BY FS_Interval
  <2>3. IsFiniteSet(R) /\ Cardinality(R) = Cardinality(1..n)
    BY <2>1, <2>2, FS_Surjection
  <2>4. R \in SUBSET Int
    BY DEF Range
  <2> QED  BY <2>2, <2>3, <2>4
<1>2. DOMAIN e = 1..n /\ \A i \in 1..n : e[i] = CHOOSE a \in R : Rank(R, a) = i - 1
  BY DEF Ascending, Rank, Below
<1> HIDE DEF R, e
<1>3. /\ \A a \in R : Rank(R, a) \in 0..(n - 1)
      /\ \A a, c \in R : a < c => Rank(R, a) < Rank(R, c)
      /\ \A r \in 0..(n - 1) : \E a \in R : Rank(R, a) = r
  BY <1>1, Ranks
<1>4. ASSUME NEW i \in 1..n PROVE e[i] \in R /\ Rank(R, e[i]) = i - 1
  <2>1. i - 1 \in 0..(n - 1)
    OBVIOUS
  <2>2. \E a \in R : Rank(R, a) = i - 1
    BY <1>3, <2>1
  <2> QED  BY <1>2, <2>2
<1>5. ASSUME NEW i \in 1..n, NEW j \in 1..n, i < j PROVE e[i] < e[j]
  <2>1. e[i] \in R /\ e[j] \in R /\ e[i] \in Int /\ e[j] \in Int /\ Rank(R, e[i]) = i - 1 /\ Rank(R, e[j]) = j - 1
    BY <1>1, <1>4
  <2>2. CASE e[i] = e[j]
    BY <1>5, <2>1, <2>2
  <2>3. CASE e[j] < e[i]
    <3>1. Rank(R, e[j]) < Rank(R, e[i])
      BY <1>3, <2>1, <2>3
    <3> QED  BY <1>5, <2>1, <3>1
  <2> QED  BY <2>1, <2>2, <2>3
<1>6. ASSUME NEW a \in R PROVE \E i \in 1..n : e[i] = a
  <2> DEFINE i == Rank(R, a) + 1
  <2>1. Rank(R, a) \in 0..(n - 1)
    BY <1>3
  <2>2. i \in 1..n /\ i - 1 = Rank(R, a)
    BY <2>1
  <2> HIDE DEF i
  <2>3. e[i] \in R /\ Rank(R, e[i]) = Rank(R, a) /\ e[i] \in Int /\ a \in Int
    BY <1>1, <1>4, <2>2
  <2>4. ~(e[i] < a) /\ ~(a < e[i])
    <3>1. e[i] < a => Rank(R, e[i]) < Rank(R, a)
      BY <1>3, <2>3
    <3>2. a < e[i] => Rank(R, a) < Rank(R, e[i])
      BY <1>3, <2>3
    <3>3. Rank(R, a) \in Int
      BY <2>1
    <3> QED  BY <2>3, <3>1, <3>2, <3>3
  <2>5. e[i] = a
    BY <2>3, <2>4
  <2> QED  BY <2>2, <2>5
<1> QED  BY <1>2, <1>4, <1>5, <1>6 DEF R, e

LEMMA SortedIsList ==
    ASSUME NEW n \in Nat, NEW S \in SUBSET Int, NEW s \in [1..n -> S], IsInjective(s)
    PROVE  Ascending(s) \in [1..n -> S] /\ IsInjective(Ascending(s)) /\ Range(Ascending(s)) = Range(s)
<1> DEFINE e == Ascending(s)
<1>1. s \in [1..n -> Int] /\ Range(s) \subseteq S
  BY DEF Range
<1>2. /\ DOMAIN e = 1..n /\ \A i \in 1..n : e[i] \in Range(s)
      /\ \A i, j \in 1..n : i < j => e[i] < e[j]
      /\ \A a \in Range(s) : \E i \in 1..n : e[i] = a
  BY <1>1, AscendingIs
<1>3. e = [i \in DOMAIN e |-> e[i]]
  <2>1. DOMAIN s = 1..n
    OBVIOUS
  <2> QED  BY <1>2 DEF Ascending
<1> HIDE DEF e
<1>4. e \in [1..n -> S]
  BY <1>1, <1>2, <1>3
<1>5. Range(e) = Range(s)
  BY <1>2 DEF Range
<1>6. IsInjective(e)
  <2> SUFFICES ASSUME NEW i \in 1..n, NEW j \in 1..n, e[i] = e[j] PROVE i = j
    BY <1>2 DEF IsInjective
  <2>1. e[i] \in Int /\ e[j] \in Int
    BY <1>4
  <2>2. ~(i < j) /\ ~(j < i)
    BY <1>2, <2>1
  <2> QED  BY <2>2
<1> QED  BY <1>4, <1>5, <1>6 DEF e

\* What ascends stays as it is.
LEMMA AscendingAgain ==
    ASSUME NEW n \in Nat, NEW s \in [1..n -> Int], \A i, j \in 1..n : i < j => s[i] < s[j]
    PROVE  Ascending(s) = s
<1> DEFINE R == Range(s)
<1>1. IsInjective(s)
  <2> SUFFICES ASSUME NEW i \in 1..n, NEW j \in 1..n, s[i] = s[j] PROVE i = j
    BY DEF IsInjective
  <2>1. s[i] \in Int /\ s[j] \in Int
    OBVIOUS
  <2>2. ~(i < j) /\ ~(j < i)
    BY <2>1
  <2> QED  BY <2>2
<1>2. R \in SUBSET Int /\ IsFiniteSet(R)
  <2>1. s \in Surjection(1..n, R)
    BY DEF Surjection, Range
  <2>2. IsFiniteSet(1..n)
    BY FS_Interval
  <2> QED  BY <2>1, <2>2, FS_Surjection DEF Range
<1>3. ASSUME NEW i \in 1..n PROVE Rank(R, s[i]) = i - 1
  <2> DEFINE few == [k \in 1..(i - 1) |-> s[k]]
             B == Below(R, s[i])
  <2>1. \A k \in 1..n : k < i <=> s[k] < s[i]
    <3> TAKE k \in 1..n
    <3>1. s[k] \in Int /\ s[i] \in Int
      OBVIOUS
    <3>2. k < i => s[k] < s[i]
      OBVIOUS
    <3>3. i < k => s[i] < s[k]
      OBVIOUS
    <3> QED  BY <3>1, <3>2, <3>3
  <2>2. few \in [1..(i - 1) -> B]
    BY <2>1 DEF Below, Range
  <2>3. \A b \in B : \E k \in 1..(i - 1) : few[k] = b
    <3> TAKE b \in B
    <3>1. PICK k \in 1..n : s[k] = b /\ b < s[i]
      BY DEF Below, Range
    <3>2. k \in 1..(i - 1)
      BY <2>1, <3>1
    <3> QED  BY <3>1, <3>2
  <2>4. few \in Surjection(1..(i - 1), B) /\ few \in Injection(1..(i - 1), B)
    <3>1. IsInjective(few)
      BY <1>1 DEF IsInjective
    <3> QED  BY <2>2, <2>3, <3>1 DEF Surjection, Injection
  <2>5. IsFiniteSet(1..(i - 1)) /\ Cardinality(1..(i - 1)) = i - 1
    <3> DEFINE m == i - 1
    <3>1. m \in Int /\ 1 \in Int /\ (IF 1 > m THEN 0 ELSE m - 1 + 1) = m
      OBVIOUS
    <3> HIDE DEF m
    <3>2. IsFiniteSet(1..m) /\ Cardinality(1..m) = m
      BY <3>1, FS_Interval
    <3> QED  BY <3>2 DEF m
  <2> HIDE DEF few, B
  <2>6. Cardinality(B) = i - 1
    BY <2>4, <2>5, FS_Surjection
  <2> QED  BY <2>6 DEF Rank, B
<1>4. ASSUME NEW i \in 1..n PROVE Ascending(s)[i] = s[i]
  <2>1. Ascending(s)[i] = CHOOSE a \in R : Rank(R, a) = i - 1
    BY DEF Ascending, Rank, Below
  <2>2. s[i] \in R /\ Rank(R, s[i]) = i - 1
    BY <1>3 DEF Range
  <2>3. \A a \in R : Rank(R, a) = i - 1 => a = s[i]
    <3> TAKE a \in R
    <3>1. PICK k \in 1..n : s[k] = a
      BY DEF Range
    <3>2. Rank(R, a) = k - 1
      BY <1>3, <3>1
    <3> QED  BY <3>1, <3>2
  <2> HIDE DEF R
  <2> QED  BY <2>1, <2>2, <2>3
<1> DEFINE numbered(i) == CHOOSE a \in R : Cardinality({b \in R : b < a}) = i - 1
<1>5. Ascending(s) = [i \in 1..n |-> numbered(i)]
  BY DEF Ascending
<1> HIDE DEF numbered
<1>6. \A i \in 1..n : numbered(i) = s[i]
  BY <1>4, <1>5
<1>7. s = [i \in 1..n |-> s[i]]
  OBVIOUS
<1> QED  BY <1>5, <1>6, <1>7
-----------------------------------------------------------------------------
(* Token lists: the inductive invariant *)

\* A contract has the decimals of its handle, but for a WETH.
HandleFits(contract, handle) ==
    /\ handle.decimals \in Nat
    /\ contract.decimals = IF contract.kind = "TestWETH" THEN DefaultDecimals ELSE handle.decimals

\* A list of n tokens, and what was asked for.
ListOf(n) ==
    /\ list \in [1..n -> TokenAddresses] /\ IsInjective(list)
    /\ request.params \in [1..n -> SomeParams]
    /\ \A a \in Range(list) : HandleFits(contracts[a], handles[a])
    /\ request.sorted =>
          /\ \A i, j \in 1..n : i < j => list[i] < list[j]
          /\ \A i \in 1..n : handles[list[i]].symbol = ToTokenDeployments(request.params, FALSE)[i].symbol

Tallies == [tokens : Int, parts : Int]

TokIInv ==
    list # <<>> =>
        /\ \E n \in Nat : ListOf(n)
        /\ balance \in [Range(list) -> [Holders -> Int]] /\ minted \in [Holders -> Tallies]
        /\ ScaledByContract

LEMMA DeploymentsAre ==
    ASSUME NEW n \in Nat, NEW params \in [1..n -> SomeParams], NEW vary \in BOOLEAN
    PROVE  /\ DOMAIN ToTokenDeployments(params, vary) = 1..n
           /\ \A i \in 1..n : ToTokenDeployments(params, vary)[i] \in [symbol : {ToTokenDeployments(params, vary)[i].symbol}, decimals : Nat]
<1> DEFINE D == ToTokenDeployments(params, vary)
           symbol(i) == IF params[i].symbol = Unasked THEN TK(i - 1) ELSE params[i].symbol
           decimals(i) == CASE params[i].decimals # Unasked -> params[i].decimals
                            [] vary -> ComputeDecimalsFromIndex(i - 1)
                            [] OTHER -> DefaultDecimals
<1>1. D = [i \in 1..n |-> [symbol |-> symbol(i), decimals |-> decimals(i)]]
  BY DEF ToTokenDeployments
<1>2. ASSUME NEW i \in 1..n PROVE decimals(i) \in Nat
  <2>1. params[i].decimals \in SomeDecimals \cup {Unasked}
    BY DEF SomeParams
  <2>2. ComputeDecimalsFromIndex(i - 1) \in Nat
    <3>1. i - 1 \in Nat /\ DecimalsCycle \in Nat \ {0}
      BY TokensAssumption
    <3> QED  BY <3>1 DEF ComputeDecimalsFromIndex
  <2> QED  BY <2>1, <2>2, TokensAssumption
<1> HIDE DEF symbol, decimals
<1> QED  BY <1>1, <1>2 DEF D

\* A list after its deployment.
LEMMA DeployedIs ==
    ASSUME NEW n \in Nat, NEW params \in [1..n -> SomeParams], NEW sorted \in BOOLEAN, NEW vary \in BOOLEAN,
           NEW at \in Places(n), Deploy(params, sorted, vary, at)
    PROVE  ListOf(n)' /\ Range(list') = Range(at)
<1> DEFINE asked == IF sorted THEN TrimParamsForSortedDeploy(params) ELSE params
           D == ToTokenDeployments(asked, vary)
           N == ToTokenDeployments(params, FALSE)
           deploymentAt == [a \in Range(at) |-> D[CHOOSE i \in DOMAIN at : at[i] = a]]
<1>1. at \in [1..n -> TokenAddresses] /\ at \in [1..n -> Int] /\ IsInjective(at) /\ TokenAddresses \in SUBSET Int
  <2>1. at \in [1..n -> TokenAddresses] /\ IsInjective(at)
    BY DEF Places
  <2>2. TokenAddresses \in SUBSET Int
    BY TokensAssumption
  <2> QED  BY <2>1, <2>2
<1>2. asked \in [1..n -> SomeParams]
  BY DEF TrimParamsForSortedDeploy, SomeParams
<1>3. DOMAIN D = 1..n /\ \A i \in 1..n : D[i] \in [symbol : {D[i].symbol}, decimals : Nat]
  BY <1>2, DeploymentsAre
<1>4. /\ contracts' = [a \in Range(at) |-> Deployed(deploymentAt[a])]
      /\ handles' = IF sorted THEN SortTokensDeployment(deploymentAt, Ascending(at), params) ELSE deploymentAt
      /\ list' = IF sorted THEN Ascending(at) ELSE at
      /\ request' = [params |-> params, sorted |-> sorted, varyDecimals |-> vary]
  BY DEF Deploy
<1> HIDE DEF asked, D
<1>5. ASSUME NEW a \in Range(at)
      PROVE  deploymentAt[a] \in [symbol : {deploymentAt[a].symbol}, decimals : Nat]
  <2>1. \E i \in DOMAIN at : at[i] = a
    BY DEF Range
  <2>2. (CHOOSE i \in DOMAIN at : at[i] = a) \in 1..n
    BY <1>1, <2>1
  <2> QED  BY <1>3, <2>2
<1>6. DOMAIN deploymentAt = Range(at)
  OBVIOUS
<1> HIDE DEF deploymentAt
<1>7. ASSUME NEW a \in Range(at) PROVE HandleFits(contracts'[a], deploymentAt[a])
  BY <1>4, <1>5 DEF HandleFits, Deployed
<1>8. /\ DOMAIN Ascending(at) = 1..n /\ \A i \in 1..n : Ascending(at)[i] \in Range(at)
      /\ \A i, j \in 1..n : i < j => Ascending(at)[i] < Ascending(at)[j]
      /\ \A a \in Range(at) : \E i \in 1..n : Ascending(at)[i] = a
  BY <1>1, AscendingIs
<1>9. Ascending(at) \in [1..n -> TokenAddresses] /\ IsInjective(Ascending(at)) /\ Range(Ascending(at)) = Range(at)
  BY <1>1, SortedIsList
<1>10. CASE ~sorted
  <2>1. ASSUME NEW a \in Range(at) PROVE HandleFits(contracts'[a], handles'[a])
    BY <1>4, <1>7, <1>10
  <2> QED  BY <1>1, <1>4, <1>10, <2>1 DEF ListOf
<1>11. CASE sorted
  <2> DEFINE l == Ascending(at)
             place(a) == CHOOSE i \in DOMAIN l : l[i] = a
  <2>1. list' = l /\ handles' = [a \in Range(at) |-> [deploymentAt[a] EXCEPT !.symbol = N[place(a)].symbol]]
    BY <1>4, <1>6, <1>11 DEF SortTokensDeployment
  <2> HIDE DEF l
  <2>2. ASSUME NEW i \in 1..n PROVE place(l[i]) = i /\ l[i] \in Range(at)
    BY <1>8, <1>9 DEF l, IsInjective
  <2> HIDE DEF place
  <2>3. ASSUME NEW a \in Range(at)
        PROVE  handles'[a].decimals = deploymentAt[a].decimals /\ handles'[a].symbol = N[place(a)].symbol
    <3> DEFINE x == deploymentAt[a]
               y == N[place(a)].symbol
    <3>1. handles'[a] = [x EXCEPT !.symbol = y]
      BY <2>1
    <3>2. x \in [symbol : {x.symbol}, decimals : Nat]
      BY <1>5
    <3> HIDE DEF x, y
    <3>3. handles'[a].decimals = x.decimals /\ handles'[a].symbol = y
      BY <3>1, <3>2
    <3> QED  BY <3>3 DEF x, y
  <2>4. \A a \in Range(at) : HandleFits(contracts'[a], handles'[a])
    BY <1>7, <2>3 DEF HandleFits
  <2>5. \A i \in 1..n : handles'[list'[i]].symbol = N[i].symbol
    BY <2>1, <2>2, <2>3
  <2>6. \A i, j \in 1..n : i < j => list'[i] < list'[j]
    BY <1>8, <2>1 DEF l
  <2>7. list' \in [1..n -> TokenAddresses] /\ IsInjective(list') /\ Range(list') = Range(at)
    BY <1>9, <2>1 DEF l
  <2>8. request'.params = params
    BY <1>4
  <2> QED  BY <2>4, <2>5, <2>6, <2>7, <2>8 DEF ListOf, N
<1> QED  BY <1>10, <1>11
-----------------------------------------------------------------------------
(* Token lists: steps *)

\* What a token's balances should be.
Should(m, d) == m.parts + m.tokens * 10 ^ d
Counts(a) == Mints(a) /\ (contracts[a].kind = "TestWETH" => handles[a].decimals = DefaultDecimals)

LEMMA DeployStep ==
    ASSUME NEW n \in Nat, NEW params \in [1..n -> SomeParams], NEW sorted \in BOOLEAN, NEW vary \in BOOLEAN,
           NEW at \in Places(n), Deploy(params, sorted, vary, at)
    PROVE  TokIInv'
<1>1. ListOf(n)' /\ Range(list') = Range(at)
  BY DeployedIs
<1>2. /\ balance' = [a \in Range(at) |-> [h \in Holders |-> 0]]
      /\ minted' = [h \in Holders |-> [tokens |-> 0, parts |-> 0]]
  BY DEF Deploy
<1>3. ASSUME NEW a \in Range(at) PROVE contracts'[a].decimals \in Nat
  BY <1>1, TokensAssumption DEF ListOf, HandleFits
<1>4. ASSUME NEW a \in Range(at), NEW h \in Holders
      PROVE  balance'[a][h] = 0 /\ balance'[a][h] = minted'[h].parts + minted'[h].tokens * 10 ^ contracts'[a].decimals
  <2> DEFINE P == 10 ^ contracts'[a].decimals
  <2>1. P \in Int
    BY <1>3
  <2> HIDE DEF P
  <2>2. 0 + 0 * P = 0
    BY <2>1
  <2>3. balance'[a][h] = 0 /\ minted'[h].parts = 0 /\ minted'[h].tokens = 0
    BY <1>2
  <2> QED  BY <2>2, <2>3 DEF P
<1>5. ScaledByContract'
  BY <1>1, <1>4 DEF ScaledByContract
<1>6. balance' \in [Range(at) -> [Holders -> Int]] /\ minted' \in [Holders -> Tallies]
  BY <1>2 DEF Tallies
<1> QED  BY <1>1, <1>5, <1>6 DEF TokIInv

LEMMA TimesType ==
    ASSUME NEW to \in SomeAccounts, NEW h
    PROVE  TimesIn(h, Listed(to)) \in Int
<1>1. \E n \in Nat : DOMAIN Listed(to) = 1..n
  <2>1. CASE to \in Holders
    <3>1. Listed(to) = <<to>>
      BY <2>1 DEF Listed
    <3>2. DOMAIN <<to>> = 1..1
      OBVIOUS
    <3> QED  BY <3>1, <3>2
  <2>2. CASE to \notin Holders
    <3>1. PICK one \in Holders, two \in Holders : to = <<one, two>>
      BY <2>2 DEF SomeAccounts
    <3>2. Listed(to) = <<one, two>>
      BY <2>2, <3>1 DEF Listed
    <3>3. DOMAIN <<one, two>> = 1..2
      OBVIOUS
    <3> QED  BY <3>2, <3>3
  <2> QED  BY <2>1, <2>2
<1>2. IsFiniteSet(DOMAIN Listed(to))
  BY <1>1, FS_Interval
<1>3. {i \in DOMAIN Listed(to) : Listed(to)[i] = h} \in SUBSET DOMAIN Listed(to)
  OBVIOUS
<1>4. IsFiniteSet({i \in DOMAIN Listed(to) : Listed(to)[i] = h})
  BY <1>2, <1>3, FS_Subset
<1> QED  BY <1>4, FS_CardinalityType DEF TimesIn

LEMMA Distributes ==
    ASSUME NEW p \in Int, NEW t \in Int, NEW m \in Int, NEW a \in Int, NEW P \in Int
    PROVE  (p + t * P) + m * (a * P) = p + (t + m * a) * P
<1>1. m * (a * P) = (m * a) * P
  OBVIOUS
<1> DEFINE k == m * a
<1>2. k \in Int
  OBVIOUS
<1> HIDE DEF k
<1>3. (t + k) * P = t * P + k * P /\ t * P \in Int /\ k * P \in Int
  BY <1>2
<1> QED  BY <1>1, <1>2, <1>3 DEF k

\* Whatever is minted of each token, counted alike by contracts and in the tally.
LEMMA MintedStep ==
    ASSUME TokIInv, list # <<>>, UNCHANGED <<contracts, handles, list, request>>,
           NEW to \in SomeAccounts, NEW sum \in [Range(list) -> Int],
           balance' = [a \in Range(list) |-> Minted(a, Listed(to), sum[a])],
           minted' \in [Holders -> Tallies],
           \A a \in Range(list), h \in Holders : Counts(a) =>
               Should(minted[h], contracts[a].decimals) + TimesIn(h, Listed(to)) * sum[a]
                   = Should(minted'[h], contracts[a].decimals)
    PROVE  TokIInv'
<1>1. (\E n \in Nat : ListOf(n)) /\ balance \in [Range(list) -> [Holders -> Int]] /\ ScaledByContract
  BY DEF TokIInv
<1>2. \E n \in Nat : ListOf(n)'
  BY <1>1 DEF ListOf
<1>3. ASSUME NEW a \in Range(list), NEW h \in Holders
      PROVE  /\ balance'[a][h] = balance[a][h] + IF Mints(a) THEN TimesIn(h, Listed(to)) * sum[a] ELSE 0
             /\ balance[a][h] \in Int /\ balance'[a][h] \in Int
  <2>1. balance'[a] = Minted(a, Listed(to), sum[a])
    OBVIOUS
  <2>2. balance[a][h] \in Int /\ TimesIn(h, Listed(to)) \in Int /\ sum[a] \in Int
    BY <1>1, TimesType
  <2>3. TimesIn(h, Listed(to)) * sum[a] \in Int
    BY <2>2
  <2> QED  BY <2>1, <2>2, <2>3 DEF Minted
<1>4. balance' \in [Range(list) -> [Holders -> Int]]
  <2>1. ASSUME NEW a \in Range(list) PROVE balance'[a] \in [Holders -> Int]
    <3>1. balance'[a] = [h \in Holders |-> balance[a][h] + IF Mints(a) THEN TimesIn(h, Listed(to)) * sum[a] ELSE 0]
      BY DEF Minted
    <3> QED  BY <1>3, <3>1
  <2> QED  BY <2>1
<1>5. ASSUME NEW a \in Range(list), NEW h \in Holders
      PROVE  /\ Counts(a) => balance'[a][h] = Should(minted'[h], contracts[a].decimals)
             /\ ~Mints(a) => balance'[a][h] = 0
  <2>1. ASSUME Counts(a) PROVE balance'[a][h] = Should(minted'[h], contracts[a].decimals)
    <3>1. balance[a][h] = Should(minted[h], contracts[a].decimals)
      BY <1>1, <2>1 DEF ScaledByContract, Should, Counts
    <3>2. balance'[a][h] = balance[a][h] + TimesIn(h, Listed(to)) * sum[a]
      BY <1>3, <2>1 DEF Counts
    <3>3. Should(minted[h], contracts[a].decimals) + TimesIn(h, Listed(to)) * sum[a]
              = Should(minted'[h], contracts[a].decimals)
      BY <2>1
    <3> QED  BY <3>1, <3>2, <3>3
  <2>2. ASSUME ~Mints(a) PROVE balance'[a][h] = 0
    <3>1. balance[a][h] = 0
      BY <1>1, <2>2 DEF ScaledByContract
    <3>2. balance'[a][h] = balance[a][h] + 0
      BY <1>3, <2>2
    <3> QED  BY <3>1, <3>2
  <2> QED  BY <2>1, <2>2
<1>6. \A a : Mints(a)' = Mints(a)
  BY DEF Mints
<1>7. ScaledByContract'
  BY <1>5, <1>6 DEF ScaledByContract, Counts, Should
<1> QED  BY <1>2, <1>4, <1>7 DEF TokIInv

LEMMA MintStep ==
    ASSUME TokIInv, NEW to \in SomeAccounts, NEW from, NEW amount \in MintAmounts,
           Mint(to, amount, from) \/ MintScaled(to, amount, from)
    PROVE  TokIInv'
<1>1. /\ list # <<>> /\ UNCHANGED <<contracts, handles, list, request>> /\ amount \in Int
      /\ minted \in [Holders -> Tallies]
  BY TokensAssumption DEF Mint, MintScaled, TokIInv
<1>2. ASSUME NEW h \in Holders
      PROVE  minted[h] \in Tallies /\ TimesIn(h, Listed(to)) \in Int /\ TimesIn(h, Listed(to)) * amount \in Int
  BY <1>1, TimesType
<1>3. ASSUME NEW a \in Range(list)
      PROVE  /\ handles[a].decimals \in Nat /\ contracts[a].decimals \in Nat
             /\ Counts(a) => contracts[a].decimals = handles[a].decimals
             /\ 10 ^ handles[a].decimals \in Int /\ 10 ^ contracts[a].decimals \in Int
  <2>1. HandleFits(contracts[a], handles[a])
    BY <1>1 DEF TokIInv, ListOf
  <2>2. handles[a].decimals \in Nat /\ contracts[a].decimals \in Nat
    BY <2>1, TokensAssumption DEF HandleFits
  <2> QED  BY <2>1, <2>2 DEF HandleFits, Counts
<1>4. CASE Mint(to, amount, from)
  <2>1. balance' = [a \in Range(list) |-> Minted(a, Listed(to), amount)]
        /\ minted' = [h \in Holders |-> [minted[h] EXCEPT !.parts = minted[h].parts + TimesIn(h, Listed(to)) * amount]]
    BY <1>4 DEF Mint
  <2>2. minted' \in [Holders -> Tallies]
    BY <1>2, <2>1 DEF Tallies
  <2>3. ASSUME NEW a \in Range(list), NEW h \in Holders
        PROVE  Should(minted[h], contracts[a].decimals) + TimesIn(h, Listed(to)) * amount
                   = Should(minted'[h], contracts[a].decimals)
    <3> DEFINE P == 10 ^ contracts[a].decimals
               k == TimesIn(h, Listed(to)) * amount
               q == minted[h].tokens * P
    <3>1. minted[h].parts \in Int /\ q \in Int /\ k \in Int
      BY <1>2, <1>3 DEF Tallies
    <3>2. minted'[h].parts = minted[h].parts + k /\ minted'[h].tokens = minted[h].tokens
      BY <1>2, <2>1 DEF Tallies
    <3>3. Should(minted[h], contracts[a].decimals) = minted[h].parts + q
          /\ Should(minted'[h], contracts[a].decimals) = (minted[h].parts + k) + q
      BY <3>2 DEF Should
    <3> HIDE DEF k, q
    <3>4. (minted[h].parts + q) + k = (minted[h].parts + k) + q
      BY <3>1
    <3> QED  BY <3>3, <3>4 DEF k
  <2> DEFINE sum == [a \in Range(list) |-> amount]
  <2>4. /\ sum \in [Range(list) -> Int]
        /\ balance' = [a \in Range(list) |-> Minted(a, Listed(to), sum[a])]
        /\ \A a \in Range(list), h \in Holders : Counts(a) =>
               Should(minted[h], contracts[a].decimals) + TimesIn(h, Listed(to)) * sum[a]
                   = Should(minted'[h], contracts[a].decimals)
    BY <1>1, <2>1, <2>3
  <2> HIDE DEF sum
  <2> QED  BY <1>1, <2>2, <2>4, MintedStep
<1>5. CASE MintScaled(to, amount, from)
  <2> DEFINE sum == [a \in Range(list) |-> amount * 10 ^ handles[a].decimals]
  <2>1. balance' = [a \in Range(list) |-> Minted(a, Listed(to), sum[a])]
        /\ minted' = [h \in Holders |-> [minted[h] EXCEPT !.tokens = minted[h].tokens + TimesIn(h, Listed(to)) * amount]]
    BY <1>5 DEF MintScaled
  <2>2. minted' \in [Holders -> Tallies]
    BY <1>2, <2>1 DEF Tallies
  <2>3. sum \in [Range(list) -> Int]
    BY <1>1, <1>3
  <2>4. ASSUME NEW a \in Range(list), NEW h \in Holders, Counts(a)
        PROVE  Should(minted[h], contracts[a].decimals) + TimesIn(h, Listed(to)) * sum[a]
                   = Should(minted'[h], contracts[a].decimals)
    <3> DEFINE P == 10 ^ contracts[a].decimals
               p == minted[h].parts
               t == minted[h].tokens
               m == TimesIn(h, Listed(to))
    <3>1. P \in Int /\ p \in Int /\ t \in Int /\ m \in Int
      BY <1>2, <1>3 DEF Tallies
    <3>2. sum[a] = amount * P
      BY <1>3, <2>4
    <3>3. minted'[h].parts = p /\ minted'[h].tokens = t + m * amount
      BY <1>2, <2>1 DEF Tallies
    <3>4. Should(minted[h], contracts[a].decimals) = p + t * P
          /\ Should(minted'[h], contracts[a].decimals) = p + (t + m * amount) * P
      BY <3>3 DEF Should
    <3> HIDE DEF P, p, t, m, sum
    <3>5. (p + t * P) + m * (amount * P) = p + (t + m * amount) * P
      BY <1>1, <3>1, Distributes
    <3> QED  BY <3>2, <3>4, <3>5 DEF m
  <2> HIDE DEF sum
  <2> QED  BY <1>1, <2>1, <2>2, <2>3, <2>4, MintedStep
<1> QED  BY <1>4, <1>5

LEMMA SortStep ==
    ASSUME TokIInv, SortList
    PROVE  TokIInv'
<1>1. list # <<>> /\ list' = Ascending(list) /\ UNCHANGED <<contracts, handles, request, balance, minted>>
  BY DEF SortList
<1>2. PICK n \in Nat : ListOf(n)
  BY <1>1 DEF TokIInv
<1>3. TokenAddresses \in SUBSET Int /\ list \in [1..n -> TokenAddresses] /\ list \in [1..n -> Int] /\ IsInjective(list)
  <2>1. TokenAddresses \in SUBSET Int
    BY TokensAssumption
  <2> QED  BY <1>2, <2>1 DEF ListOf
<1>4. list' \in [1..n -> TokenAddresses] /\ IsInjective(list') /\ Range(list') = Range(list)
  BY <1>1, <1>3, SortedIsList
<1>5. request.sorted => list' = list
  BY <1>1, <1>2, <1>3, AscendingAgain DEF ListOf
<1>6. ListOf(n)'
  BY <1>1, <1>2, <1>4, <1>5 DEF ListOf
<1>7. \A a : Mints(a)' = Mints(a)
  BY <1>1 DEF Mints
<1>8. ScaledByContract'
  BY <1>1, <1>4, <1>7 DEF TokIInv, ScaledByContract
<1>9. balance' \in [Range(list') -> [Holders -> Int]] /\ minted' \in [Holders -> Tallies]
  BY <1>1, <1>4 DEF TokIInv
<1> QED  BY <1>6, <1>8, <1>9 DEF TokIInv

LEMMA TokStep ==
    ASSUME TokIInv, TokensNext \/ UNCHANGED tokenVars
    PROVE  TokIInv'
<1>1. CASE UNCHANGED tokenVars
  <2>1. UNCHANGED <<contracts, handles, list, request, balance, minted>>
    BY <1>1 DEF tokenVars
  <2>2. \A n : ListOf(n)' = ListOf(n)
    BY <2>1 DEF ListOf
  <2>3. \A a : Mints(a)' = Mints(a)
    BY <2>1 DEF Mints
  <2>4. ScaledByContract' = ScaledByContract
    BY <2>1, <2>3 DEF ScaledByContract
  <2> QED  BY <2>1, <2>2, <2>4 DEF TokIInv
<1>2. CASE \E n \in 1..MaxTokens : \E params \in [1..n -> SomeParams], at \in Places(n), sorted, vary \in BOOLEAN :
               Deploy(params, sorted, vary, at)
  <2>1. PICK n \in 1..MaxTokens : \E params \in [1..n -> SomeParams], at \in Places(n), sorted, vary \in BOOLEAN :
               Deploy(params, sorted, vary, at)
    BY <1>2
  <2>2. n \in Nat
    BY TokensAssumption
  <2> QED  BY <2>1, <2>2, DeployStep
<1>3. CASE SortList
  BY <1>3, SortStep
<1>4. CASE \E to \in SomeAccounts, from \in SomeAccounts \cup {Unasked}, amount \in MintAmounts :
               Mint(to, amount, from) \/ MintScaled(to, amount, from)
  BY <1>4, MintStep
<1> QED  BY <1>1, <1>2, <1>3, <1>4 DEF TokensNext

-----------------------------------------------------------------------------
(* Token lists: the theorem *)

LEMMA ListsAreAsAsked == TokIInv => TokensAreAsAsked
<1> SUFFICES ASSUME TokIInv PROVE TokensAreAsAsked
  OBVIOUS
<1>1. CASE list = <<>>
  <2>1. Range(list) = {}
    BY <1>1 DEF Range
  <2> QED  BY <1>1, <2>1 DEF TokensAreAsAsked, ScaledByContract, SortedAsAsked
<1>2. CASE list # <<>>
  <2>1. ScaledByContract
    BY <1>2 DEF TokIInv
  <2>2. PICK n \in Nat : ListOf(n)
    BY <1>2 DEF TokIInv
  <2>3. ASSUME request.sorted, NEW i \in 1..n
        PROVE  (i > 1 => list[i - 1] < list[i]) /\ handles[list[i]].symbol = ToTokenDeployments(request.params, FALSE)[i].symbol
    <3>1. i > 1 => i - 1 \in 1..n /\ i - 1 < i
      OBVIOUS
    <3> QED  BY <2>2, <2>3, <3>1 DEF ListOf
  <2>4. DOMAIN list = 1..n
    BY <2>2 DEF ListOf
  <2> QED  BY <2>1, <2>3, <2>4 DEF TokensAreAsAsked, SortedAsAsked
<1> QED  BY <1>1, <1>2

\* TokensAreAsAsked, for any symbols, decimals, accounts and amounts, lists of any length
\* at any addresses: a mint of whole tokens mints whole tokens, whatever contract a handle
\* got, and what is asked for sorted ascends under the names that were asked for.
THEOREM TokensAreAlwaysAsAsked == TokensSpec => []TokensAreAsAsked
<1>1. TokensInit => TokIInv
  BY DEF TokensInit, TokIInv
<1>2. TokIInv /\ [TokensNext]_tokenVars => TokIInv'
  BY TokStep
<1> QED  BY <1>1, <1>2, ListsAreAsAsked, PTL DEF TokensSpec
===============================================================================
