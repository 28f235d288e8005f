------------------------------ MODULE PoolInputs ------------------------------
(***************************************************************************)
(* What balancer-js makes of the description of a Pool: tokens are sorted    *)
(* for the Vault, ETH standing where WETH would, and what belongs to each    *)
(* token with them (assetHelpers.ts); weights are made to add up to one       *)
(* (normalizedWeights.ts); and the id that the Vault packs is taken apart     *)
(* (poolId.ts). An address is a number; an id is a sequence of hexadecimal   *)
(* digits, with fewer of them for the address and the nonce.                *)
(***************************************************************************)
EXTENDS Integers, Sequences, SequencesExt, FiniteSets, Functions

CONSTANTS
    WETH,
    Tokens,             \* ERC20s, WETH among them, and ETH
    Weights,            \* bound: the weights that are given
    WeiPerEther,        \* ONE
    MaxWeightedTokens,
    AddressDigits, NonceDigits,
    MaxAssets           \* bound: how many tokens are given

ETH == 0

ASSUME InputsAssumption ==
    /\ WETH \in Tokens /\ Tokens \subseteq Nat /\ MaxAssets \in Nat
    /\ Weights \subseteq Nat \ {0} /\ {WeiPerEther, MaxWeightedTokens} \subseteq Nat \ {0}
    /\ WeiPerEther % MaxWeightedTokens = 0

VARIABLE inputs     \* the tokens given so far, with the weight of each

-----------------------------------------------------------------------------
(* AssetHelpers *)

IsETH(token) == token = ETH
IsWETH(token) == token = WETH
TranslateToERC20(token) == IF IsETH(token) THEN WETH ELSE token

\* The rows are the tokens with what belongs to each. The mutant sorts before it
\* translates.
SortTokensUntranslated(rows) ==
    [i \in DOMAIN rows |->
        [token |-> SortSeq(rows, LAMBDA a, b : a.token < b.token)[i].token,
         weight |-> SortSeq(rows, LAMBDA a, b : a.token < b.token)[i].weight]]

SortTokens(rows) ==
    LET erc20s == [i \in DOMAIN rows |-> [rows[i] EXCEPT !.token = TranslateToERC20(@)]]
        sorted == SortSeq(erc20s, LAMBDA a, b : a.token < b.token)
        hasETH == \E i \in DOMAIN rows : IsETH(rows[i].token)
    IN [i \in DOMAIN rows |->
          [sorted[i] EXCEPT !.token = IF hasETH /\ IsWETH(@) THEN ETH ELSE @]]

-----------------------------------------------------------------------------
(* Normalized weights *)

Total(weights) == FoldFunction(LAMBDA x, y : x + y, 0, weights)

\* The last weight is what the others leave.
ToNormalizedWeights(weights) ==
    LET share(i) == (weights[i] * WeiPerEther) \div Total(weights)
        last == Len(weights)
    IN IF last = MaxWeightedTokens THEN [i \in DOMAIN weights |-> WeiPerEther \div MaxWeightedTokens]
       ELSE IF Total(weights) = WeiPerEther THEN weights
       ELSE [i \in DOMAIN weights |->
               IF i < last THEN share(i) ELSE WeiPerEther - Total([j \in 1..last - 1 |-> share(j)])]

IsNormalizedWeights(weights) == Total(weights) = WeiPerEther

-----------------------------------------------------------------------------
(* Pool ids *)

\* The last digits of a number.
Digits(n, count) == [i \in 1..count |-> (n \div 16 ^ (count - i)) % 16]
NumberOf(digits) == FoldSeq(LAMBDA d, n : 16 * n + d, 0, Reverse(digits))

\* PoolRegistry._toPoolId: 20 bytes of address, 2 of specialization, 10 of nonce.
ToPoolId(address, specialization, nonce) ==
    Digits(address, AddressDigits) \o Digits(specialization, 4) \o Digits(nonce, NonceDigits)

GetPoolAddress(id) == NumberOf(SubSeq(id, 1, AddressDigits))

\* Of the four digits only the last, which is enough for three specializations.
GetPoolSpecialization(id) == id[AddressDigits + 4]
GetPoolNonce(id) == NumberOf(SubSeq(id, AddressDigits + 5, Len(id)))

SplitPoolId(id) ==
    [address |-> GetPoolAddress(id), specialization |-> GetPoolSpecialization(id), nonce |-> GetPoolNonce(id)]

-----------------------------------------------------------------------------
GivenTokens == {inputs[i].token : i \in DOMAIN inputs}

InputsInit == inputs = <<>>

\* A Pool has a token once, and ETH only in place of WETH.
GiveToken(token, weight) ==
    /\ Len(inputs) < MaxAssets
    /\ TranslateToERC20(token) \notin {TranslateToERC20(t) : t \in GivenTokens}
    /\ inputs' = Append(inputs, [token |-> token, weight |-> weight])

InputsNext == \E token \in Tokens \cup {ETH}, weight \in Weights : GiveToken(token, weight)

-----------------------------------------------------------------------------
(* Properties *)

\* In whatever order tokens are given, and with ETH wherever WETH belongs: the Vault,
\* which translates ETH itself, sees them ascending, and each keeps its weight.
SortedForTheVault ==
    \A rows \in {SortTokens(inputs)} :
        /\ \A i, j \in DOMAIN rows : i < j => TranslateToERC20(rows[i].token) < TranslateToERC20(rows[j].token)
        /\ Range(rows) = Range(inputs)

\* Whatever the weights add up to, and however they are rounded: the normalized ones are
\* one in sum, none is off by more than the rounding of all, none vanishes, and to
\* normalize them again changes nothing.
WeightsAreNormalized ==
    LET weights == [i \in DOMAIN inputs |-> inputs[i].weight]
    IN weights # <<>> =>
        \A normalized \in {ToNormalizedWeights(weights)} :
            /\ IsNormalizedWeights(normalized) /\ ToNormalizedWeights(normalized) = normalized
            /\ Len(weights) # MaxWeightedTokens =>
                  \A i \in DOMAIN weights :
                      /\ normalized[i] > 0
                      /\ normalized[i] * Total(weights) \in
                            (weights[i] * WeiPerEther - Total(weights))..(weights[i] * WeiPerEther + Len(weights) * Total(weights))

\* The parts that the SDK reads from an id are those that the Vault packed. The parts
\* are made from the tokens and their number, which are as good as any.
IdsSplitAsPacked ==
    \A i \in DOMAIN inputs, specialization \in 0..2 :
        LET parts == [address |-> inputs[i].token, specialization |-> specialization, nonce |-> 17 * Len(inputs)]
        IN SplitPoolId(ToPoolId(parts.address, parts.specialization, parts.nonce)) = parts

\* What balancer-js makes of the description of a Pool is what the Vault takes and makes.
InputsMatchTheVault == SortedForTheVault /\ WeightsAreNormalized /\ IdsSplitAsPacked
===============================================================================
