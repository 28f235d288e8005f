------------------------------ MODULE Signatures ------------------------------
(***************************************************************************)
(* Calls on behalf of a user who signed them: balancer-js signs them         *)
(* (signatures.ts, permit.ts) with the user's next nonce unless it is given  *)
(* one, and the Vault, the BalancerMinter and tokens accept each signature    *)
(* once, in the order of the nonces, until its deadline                       *)
(* (EOASignaturesValidator). A nonce that is read is not reserved: what was   *)
(* signed may be submitted much later, in any order, or never.              *)
(* Signing has no effect on the chain, so that reading the nonce and signing *)
(* are one step.                                                           *)
(***************************************************************************)
EXTENDS Integers, Sequences, FiniteSets

CONSTANTS
    Users,
    Accounts,           \* records of `form`, "string", "signer" or "contract", and `address`
    Contents,           \* what is signed: calldata, an approval, an amount
    Methods,            \* the functions of the SDK that are called
    Deadlines,
    Nonces,             \* the nonces that callers give, or NoNonce: records of `form` and `value`
    MaxSignatures,      \* bounds: how many signatures are made, and the time
    MaxTime

NoNonce == [form |-> "undefined", value |-> 0]
NumberZero == [form |-> "number", value |-> 0]
Nobody == "nobody"

SignMethods ==
    {"signJoinAuthorization", "signExitAuthorization", "signSwapAuthorization", "signBatchSwapAuthorization",
     "signSetRelayerApprovalAuthorization", "signSetMinterApproval", "signPermit"}

\* The zero address is nobody's.
ASSUME SignaturesAssumption ==
    /\ Nobody \notin Users /\ Methods \subseteq SignMethods
    /\ Deadlines \subseteq Nat /\ MaxTime \in Nat
    /\ Nonces \subseteq {NoNonce} \cup [form : {"number", "BigNumber"}, value : Nat]

VARIABLES
    now,
    nextNonce,          \* _nextNonce of each validator
    signatures,         \* the signatures that were made, with what was asked for; history: the next nonce then
    accepted            \* history: the calls that were accepted
sigVars == <<now, nextNonce, signatures, accepted>>

-----------------------------------------------------------------------------
(* The SDK *)

\* What the function signs, by the name of its type.
TypeOf(method) ==
    CASE method = "signJoinAuthorization" -> "JoinPool"
      [] method = "signExitAuthorization" -> "ExitPool"
      [] method = "signSwapAuthorization" -> "Swap"
      [] method = "signBatchSwapAuthorization" -> "BatchSwap"
      [] method = "signSetRelayerApprovalAuthorization" -> "SetRelayerApproval"
      [] method = "signSetMinterApproval" -> "SetMinterApproval"
      [] method = "signPermit" -> "Permit"

Validators == {"Balancer V2 Vault", "Balancer Minter", "token"}
DomainOf(method) ==
    CASE method = "signPermit" -> "token"
      [] method = "signSetMinterApproval" -> "Balancer Minter"
      [] OTHER -> "Balancer V2 Vault"

IsAccount(account) == account.form \in {"string", "signer", "contract"}
AccountToAddress(account) == account.address

\* Mutant: a zero of either form is taken for none.
IsGivenUnlessZero(nonce) == nonce.value # 0

\* A number that is zero is taken for none; a BigNumber is an object, which never is.
IsGiven(nonce) == nonce.form = "BigNumber" \/ nonce.value # 0

Digest(domain, type, content, account, nonce, deadline) ==
    [domain |-> domain, type |-> type, content |-> content, account |-> account,
     nonce |-> nonce, deadline |-> deadline]

GetNextNonce(asked) == nextNonce[DomainOf(asked.method)][asked.user]
NonceToSign(asked) == IF IsGiven(asked.nonce) THEN asked.nonce.value ELSE GetNextNonce(asked)

\* signAuthorizationFor
SignAuthorizationFor(asked) ==
    Digest(DomainOf(asked.method), TypeOf(asked.method), asked.content,
           AccountToAddress(asked.account), NonceToSign(asked), asked.deadline)

SignSetMinterApproval(asked) ==
    Digest(DomainOf("signSetMinterApproval"), "SetMinterApproval", asked.content,
           AccountToAddress(asked.account), NonceToSign(asked), asked.deadline)

SignPermit(asked) ==
    Digest(DomainOf("signPermit"), "Permit", asked.content,
           AccountToAddress(asked.account), NonceToSign(asked), asked.deadline)

Signed(asked) ==
    CASE asked.method = "signPermit" -> SignPermit(asked)
      [] asked.method = "signSetMinterApproval" -> SignSetMinterApproval(asked)
      [] OTHER -> SignAuthorizationFor(asked)

Sign(asked) ==
    /\ Cardinality(signatures) < MaxSignatures
    /\ IsAccount(asked.account)
    /\ signatures' = signatures \cup {[asked |-> asked, signer |-> asked.user, digest |-> Signed(asked),
                                    next |-> GetNextNonce(asked)]}
    /\ UNCHANGED <<now, nextNonce, accepted>>

EncodeCalldataAuthorization(calldata, deadline, signature) == calldata \o <<deadline, "v", "r", signature>>

-----------------------------------------------------------------------------
(* The chain *)

\* ExtraCalldataEOASignaturesValidator: the word at this offset from the expected end.
ExtraWord(data, offset) == data[Len(data) - 3 + offset]
Deadline(data) == ExtraWord(data, 0)
Signature(data) == ExtraWord(data, 3)
Calldata(data) == SubSeq(data, 1, Len(data) - 4)

\* ecrecover
Recover(digest, signature) == IF signature.digest = digest THEN signature.signer ELSE Nobody

\* What the validator checks, for a user, the call it is part of, and a signature.
NextDigest(domain, user, type, content, account, deadline) ==
    Digest(domain, type, content, account, nextNonce[domain][user], deadline)
IsValid(domain, user, type, content, account, deadline, signature) ==
    /\ Recover(NextDigest(domain, user, type, content, account, deadline), signature) = user
    /\ deadline >= now

UseNonce(domain, user) == nextNonce' = [nextNonce EXCEPT ![domain][user] = @ + 1]

EnsureValidSignature(domain, user, type, content, account, deadline, signature) ==
    /\ IsValid(domain, user, type, content, account, deadline, signature)
    /\ UseNonce(domain, user)
    /\ accepted' = Append(accepted,
          [user |-> user, type |-> type, content |-> content, account |-> account, at |-> now,
           nonce |-> nextNonce[domain][user], signature |-> signature])
    /\ UNCHANGED <<now, signatures>>

\* joinPool, exitPool, swap, batchSwap and setRelayerApproval of the Vault.
CallVault(sender, user, type, data) ==
    EnsureValidSignature("Balancer V2 Vault", user, type, Calldata(data)[1], sender, Deadline(data), Signature(data))

SetMinterApprovalWithSignature(user, minter, approval, deadline, signature) ==
    EnsureValidSignature("Balancer Minter", user, "SetMinterApproval", approval, minter, deadline, signature)

Permit(owner, spender, value, deadline, signature) ==
    EnsureValidSignature("token", owner, "Permit", value, spender, deadline, signature)

Types == {TypeOf(m) : m \in {n \in Methods : DomainOf(n) = "Balancer V2 Vault"}}
Addresses == {a.address : a \in Accounts}
Data(content, deadline, signature) == EncodeCalldataAuthorization(<<content>>, deadline, signature)

-----------------------------------------------------------------------------
SignaturesInit ==
    /\ now = 0
    /\ nextNonce = [v \in Validators |-> [u \in Users |-> 0]]
    /\ signatures = {} /\ accepted = <<>>

\* Whoever has a signature submits it, as what it was made for or something else.
Submit(signature) ==
    \E user \in Users, sender \in Addresses, content \in Contents, deadline \in Deadlines :
        \/ \E type \in Types : CallVault(sender, user, type, Data(content, deadline, signature))
        \/ SetMinterApprovalWithSignature(user, sender, content, deadline, signature)
        \/ Permit(user, sender, content, deadline, signature)

NextBlock ==
    /\ now < MaxTime
    /\ now' = now + 1
    /\ UNCHANGED <<nextNonce, signatures, accepted>>

SignaturesNext ==
    \/ \E method \in Methods, user \in Users, account \in Accounts, content \in Contents :
       \E deadline \in Deadlines, nonce \in Nonces :
          Sign([method |-> method, user |-> user, account |-> account, content |-> content,
                deadline |-> deadline, nonce |-> nonce])
    \/ \E signature \in signatures : Submit(signature)
    \/ NextBlock

SignaturesSpec == SignaturesInit /\ [][SignaturesNext]_sigVars

-----------------------------------------------------------------------------
(* Properties *)

\* Each accepted call is one the user asked to sign, by whom and with what it was asked
\* for, and in time. Its nonce is the one that was given or, where none or the number zero
\* was, the one that was next when it was signed. No signature is accepted twice, and those
\* of a user in the order of their nonces, whatever was signed and submitted in between.
AcceptedAsAsked ==
    /\ \A i \in DOMAIN accepted :
          LET a == accepted[i]
              asked == a.signature.asked
          IN /\ a.signature \in signatures /\ a.user = asked.user
             /\ a.content = asked.content /\ a.account = asked.account.address
             /\ a.at <= asked.deadline
             /\ a.nonce = IF asked.nonce \in {NoNonce, NumberZero} THEN a.signature.next ELSE asked.nonce.value
             /\ <<asked.method, a.type>> \in
                   {<<"signJoinAuthorization", "JoinPool">>, <<"signExitAuthorization", "ExitPool">>,
                    <<"signSwapAuthorization", "Swap">>, <<"signBatchSwapAuthorization", "BatchSwap">>,
                    <<"signSetRelayerApprovalAuthorization", "SetRelayerApproval">>,
                    <<"signSetMinterApproval", "SetMinterApproval">>, <<"signPermit", "Permit">>}
    /\ \A i, j \in DOMAIN accepted :
          LET s == accepted[i].signature.digest
              t == accepted[j].signature.digest
          IN i < j /\ s.domain = t.domain /\ accepted[i].user = accepted[j].user => s.nonce < t.nonce

\* What the SDK signed and encodes is accepted from whom it was made for, as long as its
\* nonce is the user's next one and its deadline has not passed.
FreshSignaturesWork ==
    \A s \in signatures :
        LET asked == s.asked
            domain == DomainOf(asked.method)
            data == Data(asked.content, asked.deadline, s)
            fresh == s.digest.nonce = nextNonce[domain][asked.user] /\ now <= asked.deadline
        IN fresh =>
              IF domain = "Balancer V2 Vault"
              THEN IsValid(domain, asked.user, TypeOf(asked.method), Calldata(data)[1],
                           asked.account.address, Deadline(data), Signature(data))
              ELSE IsValid(domain, asked.user, TypeOf(asked.method), asked.content,
                           asked.account.address, asked.deadline, s)

\* Exactly what users sign through the SDK is carried out, and once.
SignaturesAreHonored == AcceptedAsAsked /\ FreshSignaturesWork
===============================================================================
